------------------------------ MODULE FocusNav ------------------------------
(***************************************************************************)
(* Where the focus of a remote goes as popups open and close               *)
(* (widgets/focus): a hook before each frame puts it where it belongs,     *)
(* from what the last frame showed; the frame clicks, opens and closes;    *)
(* after its widgets the arrows move it; and egui drops it from what is    *)
(* not shown.                                                              *)
(*                                                                         *)
(* A page of the catalog has a drawer with a dropdown in it, the player a  *)
(* video and a menu that is gone at once.  Which stop is nearest, and      *)
(* where a popup or page wants the focus first, is any.                    *)
(***************************************************************************)
EXTENDS Naturals, Sequences

CONSTANT Nowhere

VARIABLES
    place,     \* the page: "shell" or "player"
    popup,     \* "due" is opened and not painted, "bare" has no stop on the screen yet
    list,      \* the dropdown
    focus,     \* of egui, and the stops of its last two frames and the top modal layer
    seen, before, modal,
    state,     \* State of the hook: the fields that last
    pressed,   \* what the frame clicked; only properties read it
    owed, idle \* what has the focus coming since a popup closed, and the frames since

focusVars == <<place, popup, list, focus, seen, before, modal, state, pressed, owed, idle>>

PageStops == IF place = "player" THEN {"video", "opener"} ELSE {"other", "opener"}
PopupStops == IF place = "player" THEN {"row"} ELSE {"row", "list"}
ListStops == {"choice"}

(* The layer of a stop: the page, the popup over it, the dropdown over that. *)
Layer(s) == IF s \in ListStops THEN 2 ELSE IF s \in {"row", "list"} THEN 1 ELSE 0

Shown(w) ==
    PageStops \cup (IF w.popup \in {"open", "closing"} THEN PopupStops ELSE {})
              \cup (IF w.list = "open" THEN ListStops ELSE {})

(* trap: a drawer that slides out does not keep the focus. *)
Trapped(w) ==
    IF w.list # "shut" THEN 2 ELSE IF w.popup \in {"bare", "open"} THEN 1 ELSE 0

-----------------------------------------------------------------------------
(* begin_frame, over what the frames before it showed. *)

Readable == seen \cup before
Lost(f) == f \notin Readable
Allowed(s) == s \in Readable /\ Layer(s) >= modal
Starts == {s \in seen: Layer(s) >= modal}

Settled(f, fields) == [focus |-> f, state |-> fields]

(* Mutant: what had the focus before a popup is not given it back. *)
AfterModalForgets ==
    Settled(focus, [had |-> FALSE, modal |-> 0, before |-> focus, outer |-> <<>>, allowed |-> Nowhere])

(* restore_after_modal *)
AfterModal ==
    LET restores == state.had /\ Lost(focus) /\ state.before # Nowhere
        now == IF restores THEN state.before ELSE focus
    IN  Settled(now, [had |-> FALSE, modal |-> 0, before |-> now, outer |-> <<>>, allowed |-> Nowhere])

(* return_to_outer: where the focus was in the popup a dropdown opened over. *)
Below == {i \in 1..Len(state.outer): state.outer[i].layer = modal}
Outer ==
    IF state.modal = modal THEN state.outer
    ELSE IF Below # {} THEN SubSeq(state.outer, 1, (CHOOSE i \in Below: TRUE) - 1)
    ELSE IF state.modal # 0 /\ state.allowed # Nowhere
         THEN Append(state.outer, [layer |-> state.modal, stop |-> state.allowed])
    ELSE state.outer
Returns == {s \in {state.outer[i].stop: i \in Below}: state.modal # modal /\ Allowed(s)}

(* keep_in_modal: the focus is returned, stays where it may be, goes back  *)
(* to where it last was, or in at a start.                                 *)
InModal ==
    LET next == [state EXCEPT !.had = TRUE, !.modal = modal, !.outer = Outer]
        To(s) == Settled(s, [next EXCEPT !.allowed = s])
    IN  IF Returns # {} THEN {To(s): s \in Returns}
        ELSE IF Allowed(focus) THEN {To(focus)}
        ELSE IF Allowed(state.allowed) THEN {To(state.allowed)}
        ELSE IF Starts # {} THEN {To(s): s \in Starts}
        ELSE {Settled(focus, next)}

KeptInModal == IF modal = 0 THEN {AfterModal} ELSE InModal

(* start_focus: a press with the focus nowhere only places it. *)
Begun(key) ==
    UNION {IF key \in {"arrow", "enter"} /\ Lost(h.focus) /\ Starts # {}
           THEN {[focus |-> s, state |-> h.state, key |-> "none"]: s \in Starts}
           ELSE {[focus |-> h.focus, state |-> h.state, key |-> key]}: h \in KeptInModal}

-----------------------------------------------------------------------------
(* The frame: w is what the app has open and where the focus is. *)

(* A drawer slides out; the menu of the player closes as its file changes; *)
(* what was opened comes on the screen.                                    *)
Moved(w) ==
    {[w EXCEPT !.popup = p, !.list = l]:
        p \in CASE w.popup = "due" -> {"due", "bare", "open"}
                [] w.popup = "bare" -> {"bare", "open"}
                [] w.popup = "open" /\ place = "player" -> {"open", "shut"}
                [] w.popup = "closing" -> {"closing", "shut"}
                [] OTHER -> {w.popup},
        l \in IF w.list = "bare" THEN {"bare", "open"} ELSE {w.list}}

(* consume_escape of the player leaves a page of its menu or closes it,    *)
(* before anything is shown.                                               *)
Escaped(w, key) ==
    IF key # "back" THEN {w}
    ELSE {[w EXCEPT !.focus = Nowhere, !.popup = p]:
             p \in IF place = "player" THEN {"shut", w.popup} ELSE {w.popup}}

(* dpad_video_focus: the video takes a focus that is empty. *)
Claimed(w, had) ==
    IF place = "player" /\ w.focus = Nowhere /\ w.popup = "shut" /\ ~had
    THEN [w EXCEPT !.focus = "video"] ELSE w

(* A press on the page or the popup opens what is painted after it: the    *)
(* drawer in the next frame, a menu and a dropdown in this one.            *)
Clicked(w, key) ==
    IF key # "enter" \/ w.focus \notin Shown(w) THEN {[w EXCEPT !.hit = Nowhere]}
    ELSE LET c == [w EXCEPT !.hit = w.focus]
         IN  CASE w.focus = "opener" /\ place = "player" ->
                     {[c EXCEPT !.popup = p]: p \in IF w.popup = "shut" THEN {"bare", "open"} ELSE {"shut"}}
               [] w.focus = "list" ->
                     {[c EXCEPT !.list = l]: l \in IF w.list = "shut" THEN {"bare", "open"} ELSE {"shut"}}
               [] OTHER -> {c}

(* The dropdown puts the focus on the current choice as it opens. *)
Entered(w) ==
    IF w.list = "open" /\ w.focus \notin ListStops THEN [w EXCEPT !.focus = "choice"] ELSE w

(* step: to another stop that takes input; the video holds the arrows, of  *)
(* which up and down bring its controls.                                   *)
Stepped(w, key) ==
    IF key # "arrow" \/ w.focus \notin Shown(w) \cup seen THEN {w}
    ELSE IF w.focus = "video" THEN {w, [w EXCEPT !.focus = "opener"]}
    ELSE {w} \cup {[w EXCEPT !.focus = s]: s \in {t \in Shown(w): Layer(t) >= modal}}

(* What a press closes is painted once more: a choice closes the dropdown  *)
(* (not one that takes several), a row the menu of the player or not, Back *)
(* the dropdown or, through GoBack, the drawer, as the opener does.        *)
Closed(w, key) ==
    LET gone(which, vs) == {[w EXCEPT ![which] = v]: v \in vs}
    IN  IF w.hit = "choice" THEN gone("list", {"shut", "open"})
        ELSE IF w.hit = "row" /\ place = "player" THEN gone("popup", {"shut", w.popup})
        ELSE IF key = "back" /\ list # "shut" THEN gone("list", {"shut"})
        ELSE IF place = "player" THEN {w}
        ELSE IF (key = "back" \/ w.hit = "opener") /\ w.popup \in {"due", "bare", "open"}
        THEN gone("popup", {"closing"})
        ELSE IF w.hit = "opener" THEN gone("popup", {"due"})
        ELSE {w}

-----------------------------------------------------------------------------
Opens(key) == key = "back" => popup # "shut"

(* What has the focus coming after a frame that closed what kept it. *)
Owes(w) ==
    IF modal = 2 /\ w.list = "shut" /\ w.popup = "open" THEN "list"
    ELSE IF modal = 1 /\ place = "player" /\ w.popup = "shut" THEN "opener"
    ELSE Nowhere

Frame(key) ==
    \E h \in Begun(key):
    \E m \in Moved([popup |-> popup, list |-> list, focus |-> h.focus, hit |-> Nowhere]):
    \E e \in Escaped(m, h.key):
    \E c \in Clicked(Claimed(e, h.state.had), h.key):
    \E s \in Stepped(Entered(c), h.key):
    \E w \in Closed(s, h.key):
        /\ Opens(key)
        /\ popup' = w.popup
        /\ list' = IF w.popup = "shut" THEN "shut" ELSE w.list
        /\ focus' = IF w.focus \in Shown(s) \/ w.focus # h.focus THEN w.focus ELSE Nowhere
        /\ seen' = Shown(s)
        /\ before' = seen
        /\ modal' = Trapped(s)
        /\ state' = h.state
        /\ pressed' = w.hit
        /\ owed' = IF Owes(w) # Nowhere THEN Owes(w) ELSE IF key = "none" THEN owed ELSE Nowhere
        /\ idle' = IF Owes(w) = Nowhere /\ key = "none" /\ idle < 2 THEN idle + 1
                   ELSE IF Owes(w) = Nowhere /\ key = "none" THEN idle ELSE 0
        /\ UNCHANGED place

FocusInit ==
    /\ place \in {"shell", "player"}
    /\ popup = "shut" /\ list = "shut"
    /\ focus = Nowhere
    /\ seen = {} /\ before = {} /\ modal = 0
    /\ state = [had |-> FALSE, modal |-> 0, before |-> Nowhere, outer |-> <<>>, allowed |-> Nowhere]
    /\ pressed = Nowhere
    /\ owed = Nowhere /\ idle = 0

FocusNext == \E key \in {"none", "arrow", "enter", "back"}: Frame(key)

-----------------------------------------------------------------------------
(* Once a dropdown or a menu is closed, and nothing is pressed, the focus  *)
(* is on what opened it two frames later.                                  *)
Returned == owed \in seen /\ idle = 2 => focus = owed

(* Nothing under an open popup is pressed, once the popup shows a stop.    *)
NothingBeneath ==
    pressed' # Nowhere /\ (\E s \in seen: Layer(s) = modal) => Layer(pressed') >= modal

FocusSafe == [][Returned' /\ NothingBeneath]_focusVars
=============================================================================
