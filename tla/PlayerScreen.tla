---------------------------- MODULE PlayerScreen ----------------------------
(***************************************************************************)
(* The player screen (screens/player.rs, player/progress.rs and            *)
(* player/buffering.rs) on the files of one torrent: opening a file with   *)
(* or without waiting for TorrServer's preload, following playback frame   *)
(* by frame, starting a finished file over, handing the end of a file over *)
(* to the next one, and saving the position.                               *)
(*                                                                         *)
(* Every method of the screen is an operator from a world to a world, so   *)
(* that a handler which calls several of them is one step.  Only tick is   *)
(* split, where it reads the player's fields one after another.            *)
(***************************************************************************)
EXTENDS VideoPlayer

CONSTANTS
    AutoNext,      \* settings.player.auto_next
    WaitPreload,   \* settings.torrserver.wait_preload
    MayRefuse,     \* the player may be missing, or refuse a stream
    Resume,        \* the positions a file may be opened at
    Seekable,      \* the positions the user may seek to
    MaxInputs      \* bound on what the user does

ASSUME ScreenAssumption ==
    /\ \A f \in File : Length[f] > 1
    /\ {AutoNext, WaitPreload, MayRefuse} \subseteq BOOLEAN
    /\ Resume \subseteq [File -> Nat]
    /\ \A r \in Resume, f \in File : r[f] <= Length[f]
    /\ Seekable \subseteq Position
    /\ MaxInputs \in Nat

VARIABLES
    screen,     \* PlayerScreen.phase with the state of its variant
    timecode,   \* the position of each file in the list and in the database
    recent,     \* progress_saved_at is less than ten seconds ago
    waits,      \* wait_stream tasks that are running
    reading,    \* how far tick has read the player's fields
    inputs,     \* how much the user has done
    covered,    \* a screen opened from the player lies over it
    looked,     \* a tick has seen what playback did last
    asked       \* the positions the loaded file was opened at or sought to

screenVars == <<screen, timecode, recent, waits, reading, inputs, covered, looked, asked>>
vars == <<playerVars, screenVars>>

(* Mutant: the state of a file does not start at its position. *)
State0FromZero(phase, f, start, wait) ==
    [phase |-> phase, wait |-> wait, file |-> f, start |-> start, time |-> 0, duration |-> 0,
     paused |-> FALSE, failed |-> FALSE, checked |-> FALSE, played |-> FALSE]

State0(phase, f, start, wait) ==
    [phase |-> phase, wait |-> wait, file |-> f, start |-> start, time |-> start, duration |-> 0,
     paused |-> FALSE, failed |-> FALSE, checked |-> FALSE, played |-> FALSE]

Closed == State0("none", NoFile, 0, "none")
Playing(f, start) == State0("playing", f, start, "none")
Buffering(f, start) == State0("buffering", f, start, "running")

NotReading == [at |-> "none", flags |-> {}, position |-> 0]

(***************************************************************************)
(* The methods of the screen.  A world is what they read and write.        *)
(***************************************************************************)
World ==
    [screen |-> screen, queue |-> queue, timecode |-> timecode, recent |-> recent,
     waits |-> waits, asked |-> asked]

Become(w) ==
    /\ screen' = w.screen
    /\ queue' = w.queue
    /\ timecode' = w.timecode
    /\ recent' = w.recent
    /\ waits' = w.waits
    /\ asked' = w.asked
    /\ Len(w.queue) <= MaxQueue
    /\ UNCHANGED <<exo, shown, writes>>

Post(w, cmd) == [w EXCEPT !.queue = Append(@, cmd)]

IsPlaying(w) == w.screen.phase = "playing"
HasNext(w) == w.screen.file < NFiles

SaveProgress(w, force) ==
    IF IsPlaying(w) /\ ~w.screen.failed /\ (force \/ ~w.recent)
    THEN [w EXCEPT !.timecode[w.screen.file] = w.screen.time, !.recent = TRUE]
    ELSE w

AbortBuffering(w) ==
    IF w.screen.wait = "running" THEN [w EXCEPT !.waits = @ - 1, !.screen.wait = "none"] ELSE w

Answer == IF MayRefuse THEN BOOLEAN ELSE {TRUE}

LoadCurrent(w, ok) ==
    IF ok
    THEN [Post(w, Load(w.screen.file, w.screen.time)) EXCEPT !.screen.failed = FALSE]
    ELSE [w EXCEPT !.screen.failed = TRUE]

(* Mutant: the wait for the file before goes on. *)
BeginLoadKeepsWait(w, f, start, ok) ==
    LET a == [w EXCEPT !.asked = {start}]
    IN  IF WaitPreload
        THEN [Post(a, Stop) EXCEPT !.screen = Buffering(f, start), !.waits = @ + 1]
        ELSE LoadCurrent([a EXCEPT !.screen = Playing(f, start)], ok)

BeginLoad(w, f, start, ok) ==
    LET a == [AbortBuffering(w) EXCEPT !.asked = {start}]
    IN  IF WaitPreload
        THEN [Post(a, Stop) EXCEPT !.screen = Buffering(f, start), !.waits = @ + 1]
        ELSE LoadCurrent([a EXCEPT !.screen = Playing(f, start)], ok)

(* Mutant: leaving a file keeps to the ten seconds between saves. *)
JumpToFileUnforced(w, f, ok) ==
    LET a == SaveProgress(w, FALSE)
    IN  IF f = w.screen.file THEN a ELSE BeginLoad(a, f, a.timecode[f], ok)

JumpToFile(w, f, ok) ==
    LET a == SaveProgress(w, TRUE)
    IN  IF f = w.screen.file THEN a ELSE BeginLoad(a, f, a.timecode[f], ok)

NextFile(w, ok) ==
    IF IsPlaying(w) /\ HasNext(w) THEN JumpToFile(w, w.screen.file + 1, ok) ELSE w

SeekAbs(w, to) ==
    [Post(w, SeekTo(to)) EXCEPT !.screen.time = IF IsPlaying(w) THEN to ELSE @,
                                !.asked = @ \cup {to}]

(* Skips a segment: past the end, on to the next file. *)
SkipOrNext(w, to, ok) ==
    IF w.screen.duration > 0 /\ to >= w.screen.duration /\ HasNext(w) /\ AutoNext
    THEN NextFile(w, ok)
    ELSE SeekAbs(w, to)

PollBuffering(w, ok) ==
    LET p == Playing(w.screen.file, w.screen.start)
    IN  CASE w.screen.phase # "buffering" \/ w.screen.wait = "running" -> w
          [] w.screen.wait = "ready" -> LoadCurrent([w EXCEPT !.screen = p], ok)
          [] OTHER -> [w EXCEPT !.screen = [p EXCEPT !.failed = TRUE]]

(* Mutant: only the first frame of a file counts. *)
TrackTailOnce(s, position, duration) ==
    IF duration = 0 \/ s.checked
    THEN s
    ELSE [s EXCEPT !.played = @ \/ position < TailStart(duration), !.checked = TRUE]

(***************************************************************************)
(* One frame of playback: what tick copies from the snapshot and track_tail *)
(* makes of it, then the restart, the save and the next file.            *)
(***************************************************************************)
TrackTail(s, position, duration) ==
    IF duration = 0
    THEN s
    ELSE [s EXCEPT !.played = @ \/ position < TailStart(duration), !.checked = TRUE]

(* Mutant: the first position of a file decides, not where it was opened.  *)
IsRestartDueAnywhere(s, duration) == duration > 0 /\ ~s.checked

IsRestartDue(s, duration) == duration > 0 /\ ~s.checked /\ s.start >= TailStart(duration)

(* Mutant: the flag alone hands over to the next file. *)
FollowFlag(w, snap, ok) ==
    LET old  == w.screen
        copy == [old EXCEPT !.time = snap.position, !.duration = snap.duration,
                            !.paused = "paused" \in snap.flags, !.failed = @ \/ snap.failed]
        a    == [w EXCEPT !.screen = TrackTail(copy, snap.position, snap.duration)]
        b    == IF IsRestartDue(old, snap.duration) THEN SeekAbs(a, 0) ELSE a
        c    == SaveProgress(b, FALSE)
    IN  IF "ended" \in snap.flags /\ AutoNext THEN NextFile(c, ok) ELSE c

Follow(w, snap, ok) ==
    LET old  == w.screen
        copy == [old EXCEPT !.time = snap.position, !.duration = snap.duration,
                            !.paused = "paused" \in snap.flags, !.failed = @ \/ snap.failed]
        new  == TrackTail(copy, snap.position, snap.duration)
        next == "ended" \in snap.flags /\ new.played /\ AutoNext
        a    == [w EXCEPT !.screen = new]
        b    == IF IsRestartDue(old, snap.duration) THEN SeekAbs(a, 0) ELSE a
        c    == SaveProgress(b, FALSE)
    IN  IF next THEN NextFile(c, ok) ELSE c

(* App::logic ticks the player only while it is the screen on top. *)
TickFlags ==
    /\ reading = NotReading
    /\ ~covered
    /\ Prompt => UpToDate
    /\ \E ok \in Answer :
          LET w == PollBuffering(World, ok)
          IN  /\ IsPlaying(w)
              /\ Become(w)
    /\ reading' = [at |-> "position", flags |-> shown.flags, position |-> 0]
    /\ UNCHANGED <<inputs, covered, looked>>

TickPosition ==
    /\ reading.at = "position"
    /\ reading' = [reading EXCEPT !.at = "duration", !.position = shown.position]
    /\ UNCHANGED <<playerVars, screen, timecode, recent, waits, inputs, covered, looked, asked>>

TickRest ==
    /\ reading.at = "duration"
    /\ \E ok \in Answer :
          Become(Follow(World,
                        [flags |-> reading.flags, position |-> reading.position,
                         duration |-> shown.duration, failed |-> shown.failed], ok))
    /\ reading' = NotReading
    /\ looked' = TRUE
    /\ UNCHANGED <<inputs, covered>>

(***************************************************************************)
(* What the user and the platform ask for between frames.                  *)
(***************************************************************************)
Input(w) ==
    /\ reading = NotReading
    /\ inputs < MaxInputs
    /\ inputs' = inputs + 1
    /\ Become(w)
    /\ UNCHANGED <<reading, looked>>

OnPlayer(w) ==
    /\ ~covered
    /\ Input(w)
    /\ UNCHANGED covered

(* take_pending_play starts a film over whatever the player was left in    *)
(* when a screen was opened over it; nothing is saved or stopped first.    *)
Start(f, ok) ==
    /\ screen.phase = "none" \/ covered
    /\ covered' = FALSE
    /\ Input(BeginLoad(World, f, timecode[f], ok))

(* A search opened from the player leaves the player as it is under it...  *)
Cover ==
    /\ screen.phase # "none"
    /\ ~covered
    /\ covered' = TRUE
    /\ Input(World)

(* ...and Back from there shows the player again. *)
Uncover ==
    /\ covered
    /\ covered' = FALSE
    /\ Input(World)

StopPlayback ==
    /\ screen.phase # "none"
    /\ OnPlayer([AbortBuffering(Post(SaveProgress(World, TRUE), Stop)) EXCEPT !.screen = Closed])

Toggle ==
    /\ screen.phase = "playing"
    /\ OnPlayer([Post(World, SetPaused(~screen.paused)) EXCEPT !.screen.paused = ~@])

Seek(to) ==
    /\ screen.phase = "playing"
    /\ OnPlayer(SeekAbs(World, to))

Nudge(way) ==
    /\ screen.phase = "playing"
    /\ OnPlayer([Post(World, SeekBy(way)) EXCEPT !.asked = Position])

Skip(to, ok) ==
    /\ screen.phase = "playing"
    /\ screen.duration > 0
    /\ OnPlayer(SkipOrNext(World, to, ok))

(* A row of the playlist, and the next and previous buttons. *)
Jump(f, ok) ==
    /\ screen.phase = "playing"
    /\ OnPlayer(JumpToFile(World, f, ok))

UserInput ==
    \/ \E f \in File, ok \in Answer : Start(f, ok) \/ Jump(f, ok)
    \/ \E to \in Seekable, ok \in Answer : Seek(to) \/ Skip(to, ok)
    \/ \E way \in {"back", "forward"} : Nudge(way)
    \/ StopPlayback
    \/ Toggle
    \/ Cover
    \/ Uncover

(***************************************************************************)
(* The preload wait, the clock and playback.                               *)
(***************************************************************************)
WaitEnds(result) ==
    /\ waits > 0
    /\ waits' = waits - 1
    /\ screen' = [screen EXCEPT !.wait = IF @ = "running" THEN result ELSE @]
    /\ UNCHANGED <<playerVars, timecode, recent, reading, inputs, covered, looked, asked>>

(* Ten seconds are long beside what the main thread has posted. *)
Elapse ==
    /\ recent
    /\ queue = <<>>
    /\ recent' = FALSE
    /\ UNCHANGED <<playerVars, screen, timecode, waits, reading, inputs, covered, looked, asked>>

MainThreadRuns == MainThread /\ UNCHANGED screenVars

(* A step of playback is long beside a tick and beside what the main       *)
(* thread has to catch up with; with Prompt a tick follows each, unless    *)
(* the player is covered and not ticked at all.                            *)
Playback ==
    /\ reading = NotReading
    /\ UpToDate
    /\ \/ Opened
       \/ Fails
       \/ PlaysOn /\ (Prompt => looked \/ covered)
    /\ looked' = FALSE
    /\ UNCHANGED <<screen, timecode, recent, waits, reading, inputs, covered, asked>>

Init ==
    /\ PlayerInit
    /\ screen = Closed
    /\ timecode \in Resume
    /\ recent = FALSE
    /\ waits = 0
    /\ reading = NotReading
    /\ inputs = 0
    /\ covered = FALSE
    /\ looked = FALSE
    /\ asked = {}

Tick == TickFlags \/ TickPosition \/ TickRest

Next ==
    \/ Tick
    \/ UserInput
    \/ \E result \in {"ready", "failed"} : WaitEnds(result)
    \/ Elapse
    \/ MainThreadRuns
    \/ Playback

Spec == Init /\ [][Next]_vars

(* The app draws frames while the player is open, both threads make        *)
(* progress, a stream that does not fail opens and plays, and a preload    *)
(* wait ends (it has a time limit).  Nothing makes the user do anything.   *)
FairSpec ==
    /\ Spec
    /\ WF_vars(Tick)
    /\ WF_vars(MainThreadRuns)
    /\ SF_vars(Playback)
    /\ WF_vars(\E result \in {"ready", "failed"} : WaitEnds(result))

-----------------------------------------------------------------------------
(***************************************************************************)
(* Properties.                                                             *)
(***************************************************************************)
Reading == [at : {"none", "position", "duration"}, flags : SUBSET {"paused", "ended"},
            position : Position]

Screen ==
    [phase : {"none", "buffering", "playing"}, wait : {"none", "running", "ready", "failed"},
     file : File \cup {NoFile}, start : Position, time : Position, duration : Position,
     paused : BOOLEAN, failed : BOOLEAN, checked : BOOLEAN, played : BOOLEAN]

Loaded ==
    [file : File \cup {NoFile}, at : Position, state : State, playing : BOOLEAN, early : BOOLEAN]

Snapshot ==
    [position : Position, duration : Position, flags : SUBSET {"paused", "ended"},
     failed : BOOLEAN]

(* The type invariant. *)
TypeOK ==
    /\ queue \in Seq(Command)
    /\ Len(queue) <= MaxQueue
    /\ exo \in Loaded
    /\ shown \in Snapshot
    /\ screen \in Screen
    /\ timecode \in [File -> Position]
    /\ recent \in BOOLEAN
    /\ waits \in Nat
    /\ reading \in Reading
    /\ inputs \in 0..MaxInputs
    /\ covered \in BOOLEAN
    /\ looked \in BOOLEAN
    /\ asked \subseteq Position

(* abort_buffering: dropping the phase does not stop its task, so every    *)
(* way out of Buffering has to, and no wait goes on polling TorrServer for *)
(* a file that is not waited for.                                          *)
NoStaleWait ==
    waits = (IF screen.phase = "buffering" /\ screen.wait = "running" THEN 1 ELSE 0)

InTick == reading.at = "duration" /\ reading'.at = "none"

(* has_played_before_tail: the end of a file hands over to the next one    *)
(* only when this very file has been played before its tail.               *)
EndHandsOverOnceSeen ==
    [][InTick /\ screen'.file # screen.file => exo.file = screen.file /\ exo.early]_vars

(* track_tail: only a file opened in its own tail starts over.             *)
OnlyFinishedStartsOver ==
    [][InTick /\ queue' = Append(queue, SeekTo(0))
          => screen.start >= TailStart(Length[screen.file])]_vars

(* Player::load replaces whatever is playing: an error put up by a tick    *)
(* is of the file on screen, not of the one before it.                     *)
ErrorIsOfThisFile ==
    [][InTick /\ screen'.failed /\ ~screen.failed /\ screen'.file = screen.file
          => exo.file = screen.file /\ exo.state \in FailedStates]_vars

(* Resuming: until a file has opened, no save replaces its position by     *)
(* another than one it was opened at or the user sought.                   *)
OpeningKeepsPosition ==
    [][\A f \in File :
          timecode'[f] # timecode[f] /\ ~(exo.file = f /\ exo.state # "opening")
             => timecode'[f] \in asked]_vars

(* next_file saves the file it leaves: one that ended and handed over is   *)
(* stored as finished, so that opening it again starts it over.            *)
HandedOverIsFinished ==
    [][InTick /\ screen'.file # screen.file
          => timecode'[screen.file] >= TailStart(Length[screen.file])]_vars

(* Auto-next: left alone, playback runs through to the end of the last     *)
(* file, finished files on the way included.  Not so a file that the user  *)
(* moved in, or that played on under another screen: it may be in its tail *)
(* before a frame has seen the rest of it.                                 *)
TailIsNoSurprise ==
    exo.file = screen.file /\ exo.state \in {"ready", "ended"} /\ exo.at >= TailStart(Length[exo.file])
        => screen.played \/ (~screen.checked /\ screen.start >= TailStart(Length[screen.file]))

Unattended ==
    /\ inputs = MaxInputs
    /\ screen.phase # "none" /\ ~covered /\ ~screen.paused /\ ~screen.failed
    /\ asked \subseteq {0, screen.start}
    /\ \A i \in 1..Len(queue) : queue[i].op \in Seeks => queue[i] = SeekTo(0)
    /\ TailIsNoSurprise

ReachesLastEnd ==
    Unattended ~> \/ screen.file = NFiles /\ exo.state = "ended"
                  \/ screen.failed
=============================================================================
