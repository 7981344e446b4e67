----------------------------- MODULE MCAppFlow -----------------------------
(***************************************************************************)
(* Interchangeable titles and releases, on a TV.  At a time one thing only *)
(* is out of the ordinary: two titles are in memory, a page is under the   *)
(* ones of a title, the settings are open or a server has no address, or   *)
(* the drawer of the filters is out.                                       *)
(*                                                                         *)
(* Beside it the fields of the settings as they are typed on a soft        *)
(* keyboard (SoftKeyboard), and the focus of the remote as popups open and *)
(* close (FocusNav): a behaviour is about one of the three and the others  *)
(* do not move.                                                            *)
(***************************************************************************)
EXTENDS AppFlow, FiniteSets, TLC

CONSTANTS Field, Texts, Blank, TouchAndBack, MaxQueue

VARIABLES
    part,      \* what the behaviour is about
    fields, ui, view, commands, events, crossed, put,
    place, popup, list, focus, seen, before, modal, state, pressed, owed, idle

typing == <<fields, ui, view, commands, events, crossed, put>>

looking == <<place, popup, list, focus, seen, before, modal, state, pressed, owed, idle>>

Keyboard == INSTANCE SoftKeyboard

ASSUME KeyboardAssumed == Keyboard!KeyboardAssumption

Remote == INSTANCE FocusNav WITH Nowhere <- None

Interchangeable ==
    Permutations(Titles) \cup Permutations(Releases) \cup
    Permutations(Field) \cup Permutations(Texts \ {Blank})

InMemory == ({media.of, torr.of, tags} \cup {nav[i].of : i \in 1..Len(nav)}) \ {None}

Distractions ==
    <<Cardinality(InMemory) > 1,
      \E i \in 1..Len(nav) : nav[i].at \in Pages,
      panel # "shut" \/ urls # Servers,
      torr.filters # "shut">>

Focused == Cardinality({i \in DOMAIN Distractions : Distractions[i]}) <= 1

AppInit ==
    /\ part \in {"screens", "keyboard", "focus"}
    /\ Init
    /\ part # "screens" => urls = Servers
    /\ Keyboard!KeyboardInit
    /\ Remote!FocusInit
    /\ part # "focus" => place = "shell"

AppNext ==
    \/ part = "screens" /\ Next /\ UNCHANGED <<part, typing, looking>>
    \/ part = "keyboard" /\ Keyboard!KeyboardNext /\ UNCHANGED <<part, vars, looking>>
    \/ part = "focus" /\ Remote!FocusNext /\ UNCHANGED <<part, vars, typing>>

AppSpec == AppInit /\ [][AppNext]_<<part, vars, typing, looking>>

(* Edits, messages, Back and Done in any order: the two copies of a field. *)
KeyboardSafe == Keyboard!KeyboardSafe

(* Arrows, Enter and Back in any order: what a popup keeps, and gives back. *)
FocusSafe == Remote!FocusSafe
=============================================================================
