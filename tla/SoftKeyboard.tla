----------------------------- MODULE SoftKeyboard -----------------------------
(***************************************************************************)
(* A field typed on the soft keyboard of Android                           *)
(* (platform/text_input.rs and TextInputView.java).  The app and the view  *)
(* the keyboard types into hold a copy of the field each.  The app sends   *)
(* start, update and stop to the thread of the view, which sends back the  *)
(* whole field after an edit, the key Done, and that Back closed the       *)
(* keyboard.  Both ways are queues, and neither side waits for the other.  *)
(*                                                                         *)
(* A text stands for a text with its selection.  The fields are those of   *)
(* the settings, which keep a draft until it is committed, and are touched *)
(* rather than reached with a remote.                                      *)
(***************************************************************************)
EXTENDS Naturals, Sequences, SequencesExt

CONSTANTS
    Field,
    Texts,
    Blank,        \* the text the fields have at first, one of Texts
    TouchAndBack, \* the open field may be touched in the frame that learns of Back
    MaxQueue      \* bound on either queue

VARIABLES
    fields,    \* what each field shows, what is saved of it, whether a draft is pending
    ui,        \* State: the field open, what the keyboard has, its last edit; the focus is
               \* with the field open whenever a frame is over
    view,      \* TextInputView; `of`, its field, only properties read
    commands,  \* posted to the thread of the view
    events,    \* QUEUE, from the view to the app
    crossed,   \* the last edit met a change of the app on its way; only properties read it
    put        \* the edit this step put into a field, and the text Done settled

keyboardVars == <<fields, ui, view, commands, events, crossed, put>>

Nothing == [nothing |-> TRUE]

KeyboardAssumption ==
    /\ Nothing \notin Field
    /\ Blank \in Texts
    /\ TouchAndBack \in BOOLEAN

IsEdit(e) == e.kind = "edited"
Edits == {i \in 1..Len(events) : IsEdit(events[i])}
LastEdit == events[Max(Edits)]
Heard(kind) == \E i \in 1..Len(events) : events[i].kind = kind

-----------------------------------------------------------------------------
(* The view, on its own thread. *)

(* remember, and the edit on its way to the app. *)
Report(text) ==
    /\ view' = [view EXCEPT !.text = text, !.reported = text]
    /\ events' = Append(events, [kind |-> "edited", text |-> text])
    /\ crossed' = (\E i \in 1..Len(commands) : commands[i].own)

(* A batch of the keyboard that is not settled. *)
Compose(text) ==
    /\ view.editing
    /\ text # view.text
    /\ view' = [view EXCEPT !.text = text]
    /\ put' = Nothing
    /\ UNCHANGED <<fields, ui, commands, events, crossed>>

(* edited(): the outermost batch ended, or a key deleted something. *)
Settle(text) ==
    /\ \/ view.editing
       \/ view.text # view.reported /\ text = view.text
    /\ text # view.reported
    /\ Len(events) < MaxQueue
    /\ Report(text)
    /\ put' = Nothing
    /\ UNCHANGED <<fields, ui, commands>>

(* performEditorAction, after finishComposingText settled the edit. *)
Done ==
    /\ view.editing
    /\ view.text = view.reported
    /\ Len(events) < MaxQueue
    /\ events' = Append(events, [kind |-> "action", text |-> view.text, of |-> view.of,
                                 clear |-> commands = <<>> /\ ~crossed])
    /\ put' = Nothing
    /\ UNCHANGED <<fields, ui, view, commands, crossed>>

Stopped == [view EXCEPT !.editing = FALSE]

(* onKeyPreIme *)
Back ==
    /\ view.editing
    /\ Len(events) < MaxQueue
    /\ view' = Stopped
    /\ events' = Append(events, [kind |-> "hidden"])
    /\ put' = Nothing
    /\ UNCHANGED <<fields, ui, commands, crossed>>

(* start, update and stop, as onUiThread runs them. *)
Run ==
    LET c == commands[1]
        Replaced == [view EXCEPT !.text = c.text, !.reported = c.text]
    IN  /\ commands # <<>>
        /\ commands' = Tail(commands)
        /\ view' = CASE c.kind = "start" -> [Replaced EXCEPT !.editing = TRUE, !.of = c.of]
                     [] c.kind = "update" -> IF view.editing /\ c.text # view.reported
                                             THEN Replaced ELSE view
                     [] OTHER -> Stopped
        /\ put' = Nothing
        /\ UNCHANGED <<fields, ui, events, crossed>>

-----------------------------------------------------------------------------
(* A frame of the app: take_input, the fields, sync. *)

(* feed: only the last edit stays, for the field that is open. *)
Fed ==
    IF Edits = {} THEN ui
    ELSE [ui EXCEPT !.has = LastEdit.text, !.edited = [text |-> LastEdit.text, met |-> ui.open]]

(* Escape takes the focus before the fields are shown, Enter as the field  *)
(* is; a touch moves it.                                                   *)
FocusAfter(input) ==
    IF input.kind = "touch" THEN input.at
    ELSE IF Heard("hidden") \/ Heard("action") THEN Nothing ELSE ui.open

(* field(), over a key typed in the field itself or a value the app set. *)
Shown(state, input) ==
    [f \in Field |->
        IF state.open = f /\ state.edited # Nothing THEN state.edited.text
        ELSE IF input.kind = "type" /\ f = ui.open THEN input.text
        ELSE fields[f].text]

(* committed_edit: a draft is handed back once the field loses the focus,  *)
(* or after a while without an edit.                                       *)
Committed(shown, state, focus, input) ==
    [f \in Field |->
        LET changed == \/ state.open = f /\ state.edited # Nothing
                       \/ input.kind = "type" /\ f = ui.open
            pending == fields[f].pending \/ changed
            left == (ui.open = f /\ focus # f)
            commits == pending /\ (left \/ (input.kind = "idle" /\ ~changed))
        IN  [text |-> IF pending \/ focus = f THEN shown[f] ELSE fields[f].saved,
             saved |-> IF commits THEN shown[f] ELSE fields[f].saved,
             pending |-> pending /\ ~commits]]

(* take_edit empties the edit of the field that is open. *)
Taken(state) == IF state.open = Nothing THEN state ELSE [state EXCEPT !.edited = Nothing]

(* Mutant: what the keyboard sent last is kept as the focus moves. *)
OpenedWithEdit(state, focus, shown) ==
    [state EXCEPT !.open = focus,
                  !.has = IF focus = Nothing THEN Nothing ELSE shown[focus]]

Opened(state, focus, shown) ==
    [open |-> focus, edited |-> Nothing,
     has |-> IF focus = Nothing THEN Nothing ELSE shown[focus]]

(* The one message the frame has for the view; whether it tells of a       *)
(* change of the app's own, only properties read.                          *)
Call(state, focus, shown, input) ==
    IF focus # state.open
    THEN IF focus = Nothing THEN [kind |-> "stop", own |-> FALSE]
         ELSE [kind |-> "start", of |-> focus, text |-> shown[focus], own |-> TRUE]
    ELSE IF focus = Nothing \/ state.has = shown[focus] THEN Nothing
    ELSE [kind |-> "update", text |-> shown[focus], own |-> input.kind = "type"]

Sync(state, focus, shown, input) ==
    LET call == Call(state, focus, shown, input)
    IN  /\ ui' = IF focus # state.open THEN Opened(state, focus, shown)
                 ELSE IF call = Nothing THEN state
                 ELSE [state EXCEPT !.has = call.text]
        /\ commands' = IF call = Nothing THEN commands ELSE Append(commands, call)
        /\ crossed' = (call = Nothing /\ crossed)

Frame(input) ==
    LET focus == FocusAfter(input)
        shown == Shown(Fed, input)
        settled == IF events # <<>> /\ Last(events).kind = "action" THEN Last(events) ELSE Nothing
    IN  /\ Len(commands) < MaxQueue
        /\ input.kind = "type" => ui.open # Nothing /\ ~Heard("hidden") /\ input.text # fields[ui.open].text
        /\ input.kind = "touch" => input.at # ui.open \/ (Heard("hidden") /\ TouchAndBack)
        /\ fields' = Committed(shown, Fed, focus, input)
        /\ Sync(Taken(Fed), focus, shown, input)
        /\ events' = <<>>
        /\ put' = [edit |-> IF Fed.open = Nothing THEN Nothing ELSE Fed.edited,
                   into |-> Fed.open, settled |-> settled, input |-> input.kind]
        /\ UNCHANGED view

-----------------------------------------------------------------------------
Inputs ==
    {[kind |-> "none"], [kind |-> "idle"]} \cup
    {[kind |-> "touch", at |-> f] : f \in Field \cup {Nothing}} \cup
    {[kind |-> "type", text |-> t] : t \in Texts}

KeyboardInit ==
    /\ fields = [f \in Field |-> [text |-> Blank, saved |-> Blank, pending |-> FALSE]]
    /\ ui = [open |-> Nothing, has |-> Nothing, edited |-> Nothing]
    /\ view = [editing |-> FALSE, text |-> Blank, reported |-> Blank, of |-> Nothing]
    /\ commands = <<>>
    /\ events = <<>>
    /\ crossed = FALSE
    /\ put = Nothing

KeyboardNext ==
    \/ \E t \in Texts : Compose(t) \/ Settle(t)
    \/ Done \/ Back \/ Run
    \/ \E input \in Inputs : Frame(input)

-----------------------------------------------------------------------------
AtRest == commands = <<>> /\ events = <<>>

(* Whenever nothing is on its way, the keyboard is up for the field that   *)
(* is open and for no other, whatever order Back, touches and Done came in.*)
KeyboardFollows ==
    AtRest => /\ view.editing <=> ui.open # Nothing
              /\ view.editing => view.of = ui.open

(* It has the text the field shows (but for an edit that is not settled),  *)
(* unless its last edit and a change of the app crossed on their way.      *)
SameText ==
    AtRest /\ view.editing /\ ~crossed => view.reported = fields[ui.open].text

(* What is put into a field was learned of while that field was open. *)
IntoItsField ==
    put' # Nothing /\ put'.edit # Nothing => put'.edit.met = put'.into

(* Done saves what the keyboard showed, in the field it showed it for,     *)
(* unless a change of the app was on its way when it was pressed.          *)
DoneSaves ==
    put' # Nothing /\ put'.settled # Nothing /\ put'.settled.clear /\ put'.input # "type" =>
        fields'[put'.settled.of].saved = put'.settled.text

KeyboardSafe == [][KeyboardFollows' /\ SameText' /\ IntoItsField /\ DoneSaves]_keyboardVars
=============================================================================
