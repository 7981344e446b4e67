---------------------------- MODULE VideoPlayer ----------------------------
(***************************************************************************)
(* The video player behind the player screen, as the screen sees it.       *)
(*                                                                         *)
(* On Android (VideoPlayer.java) a command of the UI thread is posted to   *)
(* the main thread and runs there later; what playback shows is published  *)
(* in volatile fields, one write after another, and read back by the UI    *)
(* thread field by field.  So right after a load the fields may still tell *)
(* of the file that was replaced, and a reader may see half of an update.  *)
(*                                                                         *)
(* With Prompt the UI thread only looks once every command has run and the *)
(* fields are up to date: a main thread that keeps up, or a player that    *)
(* answers at once, as libmpv does.  With Torn the fields are written one  *)
(* by one.  MasksStart tells the two players apart: ExoPlayer reports the  *)
(* start point while it opens a file, libmpv reports no time, which        *)
(* mpv.rs turns into zero.                                                 *)
(***************************************************************************)
EXTENDS Naturals, Sequences, SequencesExt

CONSTANTS
    NFiles,      \* the files of the torrent are 1..NFiles
    Length,      \* the duration of each, in coarse steps
    MaxQueue,    \* bound on posted commands that have not run
    MayFail,     \* a stream may fail (mpv.rs reports no failure)
    Prompt, Torn, MasksStart

File == 1..NFiles

ASSUME PlayerAssumption ==
    /\ NFiles \in Nat \ {0}
    /\ Length \in [File -> Nat \ {0}]
    /\ MaxQueue \in Nat
    /\ {MayFail, Prompt, Torn, MasksStart} \subseteq BOOLEAN

VARIABLES
    queue,    \* commands posted to the main thread
    exo,      \* ExoPlayer (or mpv): the file it has, where it is
    shown,    \* the published fields
    writes    \* fields the main thread has yet to write

playerVars == <<queue, exo, shown, writes>>

NoFile == 0
Position == UNION {0..Length[f] : f \in File}

Load(f, at) == [op |-> "load", file |-> f, at |-> at]
Stop        == [op |-> "stop", file |-> NoFile, at |-> 0]
SeekTo(at)  == [op |-> "seek", file |-> NoFile, at |-> at]
SeekBy(way) == [op |-> way, file |-> NoFile, at |-> 0]
SetPaused(b) == [op |-> IF b THEN "pause" ELSE "resume", file |-> NoFile, at |-> 0]

Seeks == {"seek", "back", "forward"}
Command ==
    [op : {"load", "stop", "pause", "resume"} \cup Seeks, file : File \cup {NoFile}, at : Position]

(***************************************************************************)
(* What the player itself knows.  `early` remembers that the loaded file   *)
(* has been before its tail since it opened; only properties read it.      *)
(***************************************************************************)
Idle == [file |-> NoFile, at |-> 0, state |-> "idle", playing |-> FALSE, early |-> FALSE]

(* A stream that fails has opened before ("broken") or not ("failed"). *)
FailedStates == {"failed", "broken"}
OpenStates == {"ready", "ended", "broken"}
State == {"idle", "opening"} \cup OpenStates \cup FailedStates

PositionOf(e) == IF e.state = "opening" /\ ~MasksStart THEN 0 ELSE e.at
DurationOf(e) == IF e.state \in OpenStates THEN Length[e.file] ELSE 0
FlagsOf(e) ==
    (IF e.playing THEN {} ELSE {"paused"}) \cup (IF e.state = "ended" THEN {"ended"} ELSE {})

Cleared == [position |-> 0, duration |-> 0, flags |-> {"paused"}, failed |-> FALSE]

Shows(e, failed) ==
    [position |-> PositionOf(e), duration |-> DurationOf(e), flags |-> FlagsOf(e),
     failed |-> failed]

(* The order in which clearState and publish write the fields. *)
FieldOrder == <<"position", "duration", "flags", "failed">>

WritesOf(view) ==
    [i \in DOMAIN FieldOrder |-> [field |-> FieldOrder[i], value |-> view[FieldOrder[i]]]]

(* The fields become `view`, at once or write by write. *)
Put(view) ==
    IF Torn
    THEN /\ writes' = WritesOf(view)
         /\ UNCHANGED shown
    ELSE /\ shown' = view
         /\ UNCHANGED writes

(***************************************************************************)
(* The player itself: outside the repository, and read by what it shows.   *)
(* The tail of a file is its last coarse step.                             *)
(***************************************************************************)
TailStart(duration) == duration - 1

(* The player is at `to`, in `state`. *)
Moved(e, to, state) ==
    [e EXCEPT !.at = to, !.state = state,
              !.early = @ \/ (state \in OpenStates /\ to < TailStart(Length[e.file]))]

(***************************************************************************)
(* The main thread: one posted command, one publication or one write of a  *)
(* field at a time.                                                        *)
(***************************************************************************)
Write ==
    /\ writes # <<>>
    /\ shown' = [shown EXCEPT ![Head(writes).field] = Head(writes).value]
    /\ writes' = Tail(writes)
    /\ UNCHANGED <<queue, exo>>

Runs(op) ==
    /\ writes = <<>>
    /\ queue # <<>>
    /\ Head(queue).op = op
    /\ queue' = Tail(queue)

(* Mutant: a load does not clear the failure of the file before. *)
RunLoadKeepsFailure ==
    /\ Runs("load")
    /\ exo' = [file |-> Head(queue).file, at |-> Head(queue).at, state |-> "opening",
               playing |-> TRUE, early |-> FALSE]
    /\ Put([Cleared EXCEPT !.failed = shown.failed])

RunLoad ==
    /\ Runs("load")
    /\ exo' = [file |-> Head(queue).file, at |-> Head(queue).at, state |-> "opening",
               playing |-> TRUE, early |-> FALSE]
    /\ Put(Cleared)

RunStop ==
    /\ Runs("stop")
    /\ exo' = Idle
    /\ Put(Cleared)

(* Mutant: a seek back from the start goes below it, and nothing caps it. *)
TargetUnbounded(cmd, e) ==
    CASE cmd.op = "seek" -> cmd.at
      [] cmd.op = "back" -> e.at - 1
      [] cmd.op = "forward" -> e.at + 1

(* ExoPlayer takes a seek in any state; from the end it plays on from there. *)
Target(cmd, e) ==
    LET to == CASE cmd.op = "seek" -> cmd.at
                [] cmd.op = "back" -> IF e.at = 0 THEN 0 ELSE e.at - 1
                [] cmd.op = "forward" -> e.at + 1
    IN  IF to > Length[e.file] THEN Length[e.file] ELSE to

RunSeek ==
    /\ \E op \in Seeks : Runs(op)
    /\ IF exo.file = NoFile
       THEN UNCHANGED <<exo, shown, writes>>
       ELSE LET e == Moved(exo, Target(Head(queue), exo),
                           IF exo.state = "ended" THEN "ready" ELSE exo.state)
            IN  /\ exo' = e
                /\ Put(Shows(e, shown.failed))

RunPause ==
    /\ Runs("pause") \/ Runs("resume")
    /\ IF exo.file = NoFile
       THEN UNCHANGED <<exo, shown, writes>>
       ELSE LET e == [exo EXCEPT !.playing = (Head(queue).op = "resume")]
            IN  /\ exo' = e
                /\ Put(Shows(e, shown.failed))

(* The periodic tick and the listener of player events. *)
Publish ==
    /\ writes = <<>>
    /\ exo.file # NoFile
    /\ shown # Shows(exo, shown.failed)
    /\ Put(Shows(exo, shown.failed))
    /\ UNCHANGED <<queue, exo>>

MainThread == Write \/ RunLoad \/ RunStop \/ RunSeek \/ RunPause \/ Publish

(***************************************************************************)
(* Playback itself, outside the repository: a stream opens, plays on and ends, *)
(* or fails.                                                               *)
(***************************************************************************)
Opened ==
    /\ exo.state = "opening"
    /\ exo' = Moved(exo, exo.at, "ready")
    /\ UNCHANGED <<queue, shown, writes>>

(* onPlayerError may come at any time of playback. *)
Fails ==
    /\ MayFail
    /\ writes = <<>>
    /\ exo.state \in {"opening", "ready"}
    /\ exo' = [exo EXCEPT !.state = IF @ = "opening" THEN "failed" ELSE "broken"]
    /\ shown' = [shown EXCEPT !.failed = TRUE]
    /\ UNCHANGED <<queue, writes>>

PlaysOn ==
    /\ exo.state = "ready"
    /\ exo.playing
    /\ exo' = IF exo.at < Length[exo.file]
              THEN Moved(exo, exo.at + 1, "ready")
              ELSE [exo EXCEPT !.state = "ended"]
    /\ UNCHANGED <<queue, shown, writes>>

(* Nothing is on its way between the two threads. *)
UpToDate ==
    /\ queue = <<>>
    /\ writes = <<>>
    /\ exo.file = NoFile \/ shown = Shows(exo, shown.failed)

PlayerInit ==
    /\ queue = <<>>
    /\ exo = Idle
    /\ shown = Cleared
    /\ writes = <<>>

=============================================================================
