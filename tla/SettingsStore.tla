--------------------------- MODULE SettingsStore ---------------------------
(***************************************************************************)
(* The settings: one JSON file, overwritten in place; the copy the app     *)
(* runs with (Services); the wizard of the first run and the drawer that   *)
(* edit it, and the connection checks they start.  A save is a step of the *)
(* UI thread, but neither a kill nor a full disk waits for its end.        *)
(*                                                                         *)
(* A service has one value here: TMDB its key, the parser its address with *)
(* its key, TorrServer its address with its account.                       *)
(***************************************************************************)
EXTENDS Integers, Sequences, SequencesExt

CONSTANTS
    Values,      \* per service, the values (normalised) a field may commit
    Initial,     \* per service, its default
    NoParserKey, \* a parser's value is [url, key]; the url stands for its kind too
    Unset,       \* the values that stand for "not configured"
    Odd,         \* those a look at them rejects: TMDB's only
    Preset,      \* [at, public, tls]: suggested parser addresses, published or the user's own
    Language, Os, \* Os: the language of the system, one of those translated to
    Route,       \* the steps of the wizard on this device
    Buttons,     \* the services whose button "check" of the drawer is clicked
    MaxFaults    \* bound: kills and saves that fail

VARIABLES
    file,        \* what is on the disk
    app,         \* on, its settings, the save it is in, the service to check after it, both errors
    wizard,      \* open, step, what discovery found
    checks,      \* the wizard's Probes
    tried,       \* those of the drawer
    faults

ui == <<wizard, checks, tried>>
all == <<file, app, wizard, checks, tried, faults>>

Service == DOMAIN Values

(* The fields, and of the parser also the suggested addresses, which take  *)
(* no key or the one in use.                                               *)
Worth(s) ==
    Values[s] \cup
    {v \in [url: {p.url: p \in Preset}, key: {v.key: v \in Values["parser"]} \cup {NoParserKey}]: s = "parser"}

Settings == [onboarded: BOOLEAN, lang: Language,
             at: {at \in [Service -> UNION {Worth(s): s \in Service}]: \A s \in Service: at[s] \in Worth(s)}]

(* What the constants are taken to be. *)
SettingsAssumption ==
    /\ Service = {"tmdb", "parser", "torr"}
    /\ Initial \in [Service -> UNION {Values[s]: s \in Service}] /\ \A s \in Service: Initial[s] \in Values[s]
    /\ Initial["tmdb"] \in Unset
    /\ Os \in Language /\ Language # {Os}
    /\ Route \in Seq(STRING) \ {<<>>}
    /\ Buttons \subseteq Service

Missing == [missing |-> TRUE]
Torn == [torn |-> TRUE]     \* cut short: not JSON

Defaults == [onboarded |-> FALSE, lang |-> CHOOSE l \in Language: l # Os, at |-> Initial]

Load(f) == IF f \in {Missing, Torn} THEN Defaults ELSE f

IsSet(s, set) == set.at[s] \notin Unset

(* gate::tmdb_key_problem; the other services are checked once they are set. *)
Checkable(s, set) == IsSet(s, set) /\ set.at[s] \notin Odd

Idle == [state |-> "idle"]
Asked(s, set) == [state |-> "pending", of |-> set.at[s]]

(* A slip: a check on its way is left to answer. *)
RecheckUnlessPending(s, set, binds) ==
    IF binds[s].state = "pending" THEN binds
    ELSE [binds EXCEPT ![s] = IF Checkable(s, set) THEN Asked(s, set) ELSE Idle]

(* check_tmdb, check_parser, check_torr: the answer on its way is dropped. *)
Recheck(s, set, binds) ==
    [binds EXCEPT ![s] = IF Checkable(s, set) THEN Asked(s, set) ELSE Idle]

NoChecks == [s \in Service |-> Idle]

(***************************************************************************)
(* Discovery.  A preset that is public has to be reached over TLS, and is  *)
(* listed only when it takes an empty key; another one also when it asks   *)
(* for a key.  No address is listed that did not answer.                   *)
(***************************************************************************)
Usable(p) == p.public => p.tls

FoundAmong(answer) ==
    {p \in Preset: Usable(p) /\ answer[p] \in (IF p.public THEN {"ok"} ELSE {"ok", "refused"})}

Searching == [parsers |-> {}, servers |-> {}, pending |-> TRUE]

NoWizard == [open |-> FALSE, step |-> Head(Route), found |-> Searching]

(* OnboardingScreen::open, with check_configured. *)
Open(set) ==
    /\ wizard' = [NoWizard EXCEPT !.open = TRUE]
    /\ checks' = [s \in Service |-> IF Checkable(s, set) THEN Asked(s, set) ELSE Idle]

(***************************************************************************)
(* Start: load, skip the wizard of an install that has a key, write the    *)
(* file when there is none or when the latter was new.                     *)
(***************************************************************************)
Marked(set) == IF IsSet("tmdb", set) THEN [set EXCEPT !.onboarded = TRUE] ELSE set

(* adopt_system_language, not saved *)
Greeted(set) == IF set.onboarded THEN set ELSE [set EXCEPT !.lang = Os]

NotSaving == [to |-> {}, began |-> FALSE, loud |-> FALSE, check |-> {}]

(* A save of set, whose error is shown if it is loud; then a check. *)
Saving(set, loud, check) == [to |-> {set}, began |-> FALSE, loud |-> loud, check |-> check]

SettingsInit ==
    /\ \/ file = Missing
       \/ \E k \in Values["tmdb"]: file = [Defaults EXCEPT !.at["tmdb"] = k]  \* of a version before the wizard
    /\ app = [on |-> FALSE, set |-> Load(file), save |-> NotSaving, save_error |-> FALSE, load_error |-> FALSE]
    /\ wizard = NoWizard
    /\ checks = NoChecks
    /\ tried = NoChecks
    /\ faults = 0

Boot ==
    /\ ~app.on
    /\ LET loaded == Load(file)
           set == Greeted(Marked(loaded))
       IN  /\ app' = [on |-> TRUE, set |-> set, save_error |-> FALSE, load_error |-> file = Torn,
                      save |-> IF file = Missing THEN Saving(loaded, FALSE, {})
                               ELSE IF Marked(loaded) # loaded THEN Saving(set, TRUE, {}) ELSE NotSaving]
           /\ IF set.onboarded
                THEN wizard' = NoWizard /\ checks' = NoChecks
                ELSE Open(set)
    /\ tried' = NoChecks
    /\ UNCHANGED <<file, faults>>

Idles == app.on /\ app.save = NotSaving

Close == Idles /\ app' = [app EXCEPT !.on = FALSE] /\ UNCHANGED <<file, ui, faults>>

Kill ==
    /\ app.on /\ ~Idles /\ faults < MaxFaults
    /\ app' = [app EXCEPT !.on = FALSE]
    /\ faults' = faults + 1
    /\ UNCHANGED <<file, ui>>

(***************************************************************************)
(* SettingsStore::save: the file is emptied, then written.                 *)
(***************************************************************************)
Truncate ==
    /\ app.on /\ ~Idles /\ ~app.save.began
    /\ file' = Torn
    /\ app' = [app EXCEPT !.save.began = TRUE]
    /\ UNCHANGED <<ui, faults>>

(* The rest of the handler that saved. *)
SaveEnds(failed) ==
    /\ app' = [app EXCEPT !.save = NotSaving,
                          !.save_error = IF app.save.loud THEN failed ELSE @]
    /\ checks' = [s \in Service |->
                    IF s \in app.save.check THEN Recheck(s, app.set, checks)[s] ELSE checks[s]]
    /\ UNCHANGED <<wizard, tried>>

Written ==
    /\ app.on /\ app.save.began
    /\ file' \in app.save.to
    /\ SaveEnds(FALSE)
    /\ UNCHANGED faults

(* No folder, no permission; or, once it began, no room. *)
SaveFails ==
    /\ app.on /\ ~Idles /\ faults < MaxFaults
    /\ faults' = faults + 1
    /\ SaveEnds(TRUE)
    /\ UNCHANGED file

(* Services::persist after settings became set. *)
Persist(set, check) ==
    app' = [app EXCEPT !.set = set, !.save_error = FALSE, !.save = Saving(set, TRUE, check)]

(***************************************************************************)
(* The wizard.                                                             *)
(***************************************************************************)
Walking(step) == Idles /\ wizard.open /\ wizard.step = step

StepOf(s) == CASE s = "tmdb" -> "tmdb" [] s = "parser" -> "parser" [] s = "torr" -> "torr"

(* changed_value: a draft that says what is stored is no change. *)
WizardSets(s) ==
    /\ Walking(StepOf(s))
    /\ \E v \in Values[s] \ {app.set.at[s]}: Persist([app.set EXCEPT !.at[s] = v], {s})
    /\ UNCHANGED <<file, ui, faults>>

WizardSpeaks ==
    /\ Walking("language")
    /\ \E l \in Language: Persist([app.set EXCEPT !.lang = l], {})
    /\ UNCHANGED <<file, ui, faults>>

(* use_parser, also of the address in use; a public server takes no key. *)
Pick ==
    /\ Walking("parser") /\ wizard.found # Searching
    /\ \E p \in wizard.found.parsers:
         LET asked == IF p.public THEN NoParserKey ELSE app.set.at["parser"].key
         IN  Persist([app.set EXCEPT !.at["parser"] = [url |-> p.url, key |-> asked]], {"parser"})
    /\ UNCHANGED <<file, ui, faults>>

PickServer ==
    /\ Walking("torr") /\ wizard.found # Searching
    /\ \E url \in wizard.found.servers: Persist([app.set EXCEPT !.at["torr"] = url], {"torr"})
    /\ UNCHANGED <<file, ui, faults>>

DiscoveryEnds ==
    /\ app.on /\ wizard.open /\ wizard.found = Searching
    /\ \E answer \in [Preset -> {"ok", "refused", "silent"}], near \in SUBSET (Values["torr"] \ Unset):
         wizard' = [wizard EXCEPT !.found = [parsers |-> FoundAmong(answer), servers |-> near]]
    /\ UNCHANGED <<file, app, checks, tried, faults>>

SearchAgain ==
    /\ Idles /\ wizard.open /\ wizard.step \in {"parser", "torr"}
    /\ wizard.found # Searching
    /\ wizard' = [wizard EXCEPT !.found = Searching]
    /\ UNCHANGED <<file, app, checks, tried, faults>>

StepAt(by) ==
    LET i == CHOOSE k \in DOMAIN Route: Route[k] = wizard.step
    IN  IF i + by \in DOMAIN Route THEN Route[i + by] ELSE wizard.step

Walk ==
    /\ Idles /\ wizard.open
    /\ \/ wizard.step # Head(Route) /\ wizard' = [wizard EXCEPT !.step = StepAt(-1)]
       \/ wizard.step # Last(Route) /\ wizard' = [wizard EXCEPT !.step = StepAt(1)]
    /\ UNCHANGED <<file, app, checks, tried, faults>>

(* "Set up later" at any step, "Start" at the last.  Nobody sees what the  *)
(* closed wizard holds, and opening drops it.                              *)
Finish ==
    /\ Idles /\ wizard.open
    /\ wizard' = NoWizard
    /\ checks' = NoChecks
    /\ Persist([app.set EXCEPT !.onboarded = TRUE], {})
    /\ UNCHANGED <<file, tried, faults>>

(***************************************************************************)
(* The drawer, which the wizard covers.  A check of it is started by its   *)
(* button, and by nothing else.                                            *)
(***************************************************************************)
AtDrawer == Idles /\ ~wizard.open

DrawerSets ==
    /\ AtDrawer
    /\ \/ \E s \in Service: \E v \in Values[s] \ {app.set.at[s]}: Persist([app.set EXCEPT !.at[s] = v], {})
       \/ \E l \in Language \ {app.set.lang}: Persist([app.set EXCEPT !.lang = l], {})
    /\ UNCHANGED <<file, ui, faults>>

DrawerChecks ==
    /\ AtDrawer
    /\ \E s \in Buttons:
         /\ tried[s].state # "pending"
         /\ tried' = [tried EXCEPT ![s] = Asked(s, app.set)]
    /\ UNCHANGED <<file, app, wizard, checks, faults>>

OpenWizard ==
    /\ AtDrawer
    /\ Open(app.set)
    /\ UNCHANGED <<file, app, tried, faults>>

(* ping_tmdb, ping_parser, ping_torrserver: whatever they say. *)
Answer ==
    /\ app.on
    /\ \E s \in Service:
         \/ checks[s].state = "pending" /\ checks' = [checks EXCEPT ![s].state = "done"] /\ UNCHANGED tried
         \/ tried[s].state = "pending" /\ tried' = [tried EXCEPT ![s].state = "done"] /\ UNCHANGED checks
    /\ UNCHANGED <<file, app, wizard, faults>>

SettingsNext ==
    \/ Boot \/ Close \/ Kill
    \/ Truncate \/ Written \/ SaveFails
    \/ \E s \in Service: WizardSets(s)
    \/ WizardSpeaks \/ Pick \/ PickServer \/ DiscoveryEnds \/ SearchAgain \/ Walk \/ Finish
    \/ DrawerSets \/ DrawerChecks \/ OpenWizard
    \/ Answer

-----------------------------------------------------------------------------
(* Between two handlers the disk holds what the app shows, or the drawer   *)
(* says that it could not be saved; the system's language of a first run   *)
(* is not saved before something else is (persist, open_settings_store).   *)
ShownIsSaved == Idles => (app.save_error \/ Greeted(Load(file)) = Greeted(app.set))

(* What the wizard says of a service is of the value it has now, and every *)
(* value that can be checked is (check_configured, restart).               *)
VerdictIsOfNow ==
    Idles /\ wizard.open =>
        \A s \in Service:
            IF Checkable(s, app.set) THEN checks[s] # Idle /\ checks[s].of = app.set.at[s] ELSE checks[s] = Idle

(* A start brings back what was last seen, but for a save that did not end *)
(* well; and the wizard comes up only for an install without a key that    *)
(* never left it (load, mark_existing_setup_onboarded).                    *)
RestartKeeps ==
    ~app.on /\ app'.on =>
        /\ app.save = NotSaving /\ ~app.save_error /\ file # Torn => app'.set = Greeted(Marked(app.set))
        /\ wizard'.open /\ file # Torn => file = Missing \/ (~file.onboarded /\ ~IsSet("tmdb", file))

(* All of the above, which hold at the start. *)
SettingsSafe == [][ShownIsSaved' /\ VerdictIsOfNow' /\ RestartKeeps]_all
=============================================================================
