----------------------------- MODULE UserLists -----------------------------
(***************************************************************************)
(* What the user is promised of their lists: every title has a watch       *)
(* status, or none, and a liked flag; each is what was last chosen,        *)
(* whether or not the app was restarted since.  Playing a title marks it   *)
(* as being watched unless a status was chosen.                            *)
(*                                                                         *)
(* A change that cannot be stored is shown until the next start; what that *)
(* start shows of its title is open.  When the lists cannot be read, the   *)
(* app starts with none, and the start after it may show any.              *)
(***************************************************************************)
CONSTANTS Title, Status, Watching, None, MayFail

VARIABLES
    marks,      \* the marks of each title
    doubtful    \* the titles whose marks may not be what is stored

Mark == [status : Status \cup {None}, liked : BOOLEAN]

Unmarked == [status |-> None, liked |-> FALSE]

Init ==
    /\ marks = [t \in Title |-> Unmarked]
    /\ doubtful = {}

Stored(t) ==
    \/ UNCHANGED doubtful
    \/ MayFail /\ doubtful' = doubtful \cup {t}

SetStatus(t, s) == marks' = [marks EXCEPT ![t].status = s] /\ Stored(t)

SetLiked(t, liked) == marks' = [marks EXCEPT ![t].liked = liked] /\ Stored(t)

MarkWatching(t) == marks[t].status = None /\ SetStatus(t, Watching)

Start ==
    /\ doubtful' = {}
    /\ marks' \in [Title -> Mark]
    /\ \A t \in Title \ doubtful : marks'[t] = marks[t]

StartUnread ==
    /\ MayFail
    /\ doubtful' = Title
    /\ marks' = [t \in Title |-> Unmarked]

Next ==
    \/ \E t \in Title :
          \/ \E s \in Status \cup {None} : SetStatus(t, s)
          \/ \E liked \in BOOLEAN : SetLiked(t, liked)
          \/ MarkWatching(t)
    \/ Start
    \/ StartUnread

Spec == Init /\ [][Next]_<<marks, doubtful>>
=============================================================================
