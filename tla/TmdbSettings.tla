---------------------------- MODULE TmdbSettings ----------------------------
(***************************************************************************)
(* The settings TMDB data is fetched with, and what a change of them does  *)
(* to the screens (app/tmdb.rs).  The settings drawer edits one of them in *)
(* a frame; the next frame compares with what it saw last, before anything *)
(* is drawn.  The size of posters concerns the image cache only.           *)
(***************************************************************************)
CONSTANTS
    Key,          \* TMDB keys of the right form
    NoKey,        \* no key was entered
    Malformed,    \* what was entered cannot be a key
    Language,
    Net           \* proxy and DNS bypass, as a whole

VARIABLES
    set,          \* the settings
    last          \* those of the last comparison

settings == <<set, last>>

Settings == [key: Key \cup {NoKey, Malformed}, lang: Language, net: Net]

Usable(s) == s.key \in Key

(* What a frame has to do after the settings went from old to new. *)
ChangeFrom(old, new) ==
    CASE new.key = NoKey /\ old.key # NoKey          -> "key cleared"
      [] ~Usable(new) /\ ~(new.key = NoKey /\ old.key # NoKey) -> "none"
      [] Usable(new) /\ (new.key # old.key \/ new.net # old.net) -> "catalog"
      [] OTHER -> IF new.lang # old.lang THEN "language" ELSE "none"

Forgets(change) == change \in {"key cleared", "catalog", "language"}

SettingsInit ==
    /\ set \in Settings
    /\ last = set

(* The drawer, within a frame whose comparison is done. *)
Edit ==
    /\ set = last
    /\ \/ \E k \in Key \cup {NoKey, Malformed}: set' = [set EXCEPT !.key = k]
       \/ \E l \in Language: set' = [set EXCEPT !.lang = l]
       \/ \E n \in Net: set' = [set EXCEPT !.net = n]
    /\ set' # set
    /\ UNCHANGED last

Compare ==
    /\ set # last
    /\ last' = set
    /\ UNCHANGED set
=============================================================================
