------------------------------- MODULE MCKept -------------------------------
(***************************************************************************)
(* What the app keeps on the disk, in one run: the user's lists (Library)  *)
(* and the TMDB tables (TmdbStore) of its database, which share no table,  *)
(* and the file of its settings (SettingsStore).  A behaviour is about one *)
(* of them and the others do not move.                                     *)
(***************************************************************************)
EXTENDS Library

CONSTANTS t1, t2, c1, planned
CONSTANTS small, large, a, b, Page, Size, Path, Image, Length, Budget, MaxAge, Grace, MaxClock,
          Task, Ui
CONSTANTS blank, odd, good, home, open, own, key, en, uk,
          Values, Initial, NoParserKey, Unset, Odd, Preset, Language, Os, Route, Buttons, MaxFaults

(* Two posters, the second longer than the first. *)
Posters == {<<small, a>>, <<small, b>>}
PosterLength == [i \in Posters |-> IF i[2] = b THEN 2 ELSE 1]

VARIABLES
    part,      \* what the behaviour is about
    pages, refs, images, order, run, boot, clock, cut

VARIABLES file, app, wizard, checks, tried, faults

store == <<pages, refs, images, order, run, boot, clock, cut>>
settings == <<file, app, wizard, checks, tried, faults>>

Store == INSTANCE TmdbStore WITH now <- clock, MaxNow <- MaxClock

ASSUME StoreAssumed == Store!StoreAssumption

At(url, of) == [url |-> url, key |-> of]

(* A key that is blank, odd or good; a public parser that is found, and one *)
(* of the user's own, with a key.                                          *)
KeptValues == [tmdb |-> {blank, odd, good}, parser |-> {At(blank, blank), At(own, key)}, torr |-> {home}]
KeptInitial == [tmdb |-> blank, parser |-> At(blank, blank), torr |-> home]
KeptUnset == {blank, At(blank, blank)}
KeptPreset == {[url |-> open, public |-> TRUE, tls |-> TRUE], [url |-> own, public |-> FALSE, tls |-> FALSE]}
KeptRoute == <<"language", "tmdb", "parser", "torr", "done">>

Setup == INSTANCE SettingsStore

ASSUME SetupAssumed == Setup!SettingsAssumption

(* The drawer's check and the wizard are seen one at a time. *)
OneWindow == wizard.open => tried = Setup!NoChecks

KeptInit ==
    /\ part \in {"lists", "store", "settings"}
    /\ Init
    /\ Store!Init
    /\ Setup!SettingsInit
    /\ part # "settings" => file = Setup!Missing

KeptNext ==
    \/ part = "lists" /\ Next /\ UNCHANGED <<part, store, settings>>
    \/ part = "store" /\ Store!Next /\ UNCHANGED <<part, vars, settings>>
    \/ part = "settings" /\ Setup!SettingsNext /\ UNCHANGED <<part, vars, store>>

KeptSpec == KeptInit /\ [][KeptNext]_<<part, vars, store, settings>>

(* evict_over_budget: however the statements of two puts interleave, the   *)
(* images fit the budget once they end, unless an eviction was cut off.    *)
StoreWithinBudget == Store!TypeOK /\ Store!WithinBudget

(* evict_over_budget: no more goes than gets back within the budget. *)
EvictsTheExcess == Store!EvictsTheExcess

(* evict_over_budget: what makes room was read no later than what stays. *)
ColdestGoFirst == Store!ColdestGoFirst

(* maintenance: a boot that gets through leaves nothing old or unreferred. *)
BootTidies == Store!BootTidies

(* persist, load, the wizard: through kills and failed saves, the disk has *)
(* what is shown, a start brings it back, and a verdict is of the value.   *)
SettingsSafe == Setup!SettingsSafe
=============================================================================
