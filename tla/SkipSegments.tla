----------------------------- MODULE SkipSegments -----------------------------
(***************************************************************************)
(* Skipping of intros and credits during playback (screens/player/skip.rs  *)
(* with the calls the player screen makes of it): when the banner is up,   *)
(* when a countdown skips by itself, and what is saved for the title.      *)
(*                                                                         *)
(* The files are the episodes of one title, played in order.  The player   *)
(* is seen through its playhead.  With Late, a playhead seen right after a *)
(* load may still have the duration of the file before (the published      *)
(* fields of the Android player, which reports no chapters).               *)
(***************************************************************************)
EXTENDS ChapterMarks, FiniteSets

CONSTANTS
    Episode,     \* 1..n
    Length,      \* the duration of every file, in coarse steps
    MarkLists,   \* the chapter marks a file may have
    Answers,     \* what the provider may answer
    Late,        \* the duration of the file before may be seen
    AutoNext,    \* settings.player.auto_next
    Enabled,     \* the types whose skipping the settings turn on
    MaxSaves     \* bound on saves in flight

VARIABLES
    play,     \* the file, what is known of it, where it is
    skip,     \* SkipState
    table,    \* skip_segment_choice of the title
    saves,    \* choices being written, in any order
    took,     \* the skip this step made; only properties read it
    asked     \* types the user once pressed Skip for; only properties

skipVars == <<play, skip, table, saves, took, asked>>

None == [none |-> TRUE]
Disarmed == [ty \in Ty |-> FALSE]

Stopped == [file |-> 0, seen |-> 0, at |-> 0, paused |-> FALSE, marks |-> <<>>]

(* `query` is the duration asked the provider for, until it answers; `of`  *)
(* the file the answer is of, which only properties read.                  *)
Fresh == [requested |-> FALSE, chapters |-> None, query |-> 0, ranges |-> Nowhere, of |-> 0,
          choices |-> "idle", read |-> Disarmed, armed |-> Disarmed,
          skipped |-> {}, active |-> None]

(* Mutant: a new file keeps the answer of the provider. *)
ResetKeepsSegments(s) ==
    [Fresh EXCEPT !.query = s.query, !.ranges = s.ranges, !.of = s.of]

Reset(s) == Fresh

NoSkip == [by |-> "none"]

-----------------------------------------------------------------------------
(* The duration the screen knows of: of this file, or of the one before. *)
Duration == IF play.seen = 0 THEN 0 ELSE Length[play.seen]

(* maybe_start_fetch: once for a file, as soon as a duration is known. *)
Requested ==
    IF Duration = 0 \/ skip.requested THEN skip
    ELSE [skip EXCEPT
            !.requested = TRUE,
            !.chapters = IF Late THEN None ELSE SegmentsFromChapters(play.marks, Duration),
            !.query = Duration, !.of = play.file, !.choices = "asked"]

(* poll_results: the choices, once read, replace what is armed. *)
Polled(s) == IF s.choices # "read" THEN s ELSE [s EXCEPT !.choices = "idle", !.armed = s.read]

(* The chapters first, the provider for the kinds the file does not mark. *)
CurrentSegments(s) ==
    IF s.chapters = None THEN s.ranges ELSE FillMissing(s.chapters, s.ranges)

Instance(ty, r) == [ty |-> ty, start |-> r.start, end |-> EndOrDuration(r, Duration)]

(* The first segment at the playhead that was not skipped, by type. *)
Found(s) ==
    LET ranges == CurrentSegments(s)
        Here(ty) == SelectSeq(ranges[ty], LAMBDA r :
            Covers(r, play.at, Duration) /\ Instance(ty, r) \notin s.skipped)
        types == SelectSeq(SegmentTypes, LAMBDA ty : ty \in Enabled /\ Here(ty) # <<>>)
    IN  IF types = <<>> THEN None ELSE Instance(types[1], Here(types[1])[1])

UpdateActive(s) ==
    LET found == Found(s)
    IN  IF s.active # None /\ s.active.of = found THEN s
        ELSE [s EXCEPT !.active = IF found = None THEN None
                                  ELSE [of |-> found, dismissed |-> FALSE, count |-> "none"]]

IsCounting(s) == s.active # None /\ ~s.active.dismissed /\ s.armed[s.active.of.ty]

(* tick: the state it leaves before a countdown that is due is carried out. *)
Ticked ==
    LET polled == Polled(Requested)
        s == IF play.paused THEN polled ELSE UpdateActive(polled)
    IN  IF ~play.paused /\ IsCounting(s) /\ s.active.count = "none"
        THEN [s EXCEPT !.active.count = "running"]
        ELSE s

(* The state once the segment that is up is skipped. *)
Taken(s) == [s EXCEPT !.skipped = @ \cup {s.active.of}, !.active = None]

NextFile == play.file + 1

(* skip_or_next: a skip to the end goes on to the next file, if it may. *)
SkipOrNext(s, marks) ==
    LET to == s.active.of.end
        isAtEnd == Duration > 1 /\ to >= Duration - 1
    IN  IF isAtEnd /\ NextFile \in Episode /\ AutoNext
        THEN /\ play' = [Stopped EXCEPT !.file = NextFile, !.marks = marks,
                                        !.seen = IF Late THEN play.seen ELSE 0]
             /\ skip' = Reset(Taken(s))
        ELSE /\ play' = [play EXCEPT !.at = IF to > Length[play.file] THEN Length[play.file] ELSE to]
             /\ skip' = Taken(s)

-----------------------------------------------------------------------------
Tick(marks) ==
    LET s == Ticked
        isDue == ~play.paused /\ IsCounting(s) /\ s.active.count = "over"
    IN  /\ play.file # 0
        /\ IF isDue
           THEN /\ SkipOrNext(s, marks)
                /\ took' = [by |-> "countdown", of |-> s.active.of]
           ELSE /\ skip' = s
                /\ took' = NoSkip
                /\ UNCHANGED play
        /\ UNCHANGED <<table, saves, asked>>

(* The eight seconds of a countdown pass, whether or not the film plays. *)
Elapse ==
    /\ skip.active # None
    /\ skip.active.count = "running"
    /\ skip' = [skip EXCEPT !.active.count = "over"]
    /\ took' = NoSkip
    /\ UNCHANGED <<play, table, saves, asked>>

Save(ty, armed) == saves' = saves \cup {[ty |-> ty, armed |-> armed]}

IsUp == play.file # 0 /\ skip.active # None /\ ~skip.active.dismissed

(* on_skip, with the save that follows it. *)
OnSkip(marks) ==
    /\ IsUp
    /\ Cardinality(saves) < MaxSaves
    /\ SkipOrNext([skip EXCEPT !.armed[skip.active.of.ty] = TRUE], marks)
    /\ Save(skip.active.of.ty, TRUE)
    /\ asked' = asked \cup {skip.active.of.ty}
    /\ took' = [by |-> "user", of |-> skip.active.of]
    /\ UNCHANGED table

(* on_cancel: only the cancel of a running countdown is saved. *)
OnCancel ==
    LET ty == skip.active.of.ty
    IN  /\ IsUp
        /\ IF skip.active.count = "none"
           THEN /\ skip' = [skip EXCEPT !.active.dismissed = TRUE]
                /\ UNCHANGED saves
           ELSE /\ Cardinality(saves) < MaxSaves
                /\ skip' = [skip EXCEPT !.active.dismissed = TRUE, !.active.count = "none",
                                        !.armed[ty] = FALSE]
                /\ Save(ty, FALSE)
        /\ took' = NoSkip
        /\ UNCHANGED <<play, table, asked>>

-----------------------------------------------------------------------------
(* The tasks: a save and the read of the choices are statements of their   *)
(* own, and the answer of the provider is kept by its bind.                *)
SaveLands ==
    /\ \E save \in saves :
         /\ table' = [table EXCEPT ![save.ty] = save.armed]
         /\ saves' = saves \ {save}
    /\ took' = NoSkip
    /\ UNCHANGED <<play, skip, asked>>

ReadChoices ==
    /\ skip.choices = "asked"
    /\ \/ skip' = [skip EXCEPT !.choices = "read", !.read = table]
       \/ skip' = [skip EXCEPT !.choices = "idle"]
    /\ took' = NoSkip
    /\ UNCHANGED <<play, table, saves, asked>>

Answer ==
    /\ skip.query # 0
    /\ \E answer \in Answers, kind \in {"movie", "tv"}, numbered \in BOOLEAN :
         LET query == [kind |-> kind, numbered |-> numbered, duration |-> skip.query]
         IN  skip' = [skip EXCEPT !.query = 0, !.ranges = Fetched(query, answer)]
    /\ took' = NoSkip
    /\ UNCHANGED <<play, table, saves, asked>>

-----------------------------------------------------------------------------
(* begin_load, and the steps of the player as the screen sees them. *)
BeginLoad(f, marks) ==
    /\ play' = [Stopped EXCEPT !.file = f, !.marks = marks, !.seen = IF Late THEN play.seen ELSE 0]
    /\ skip' = Reset(skip)
    /\ took' = NoSkip
    /\ UNCHANGED <<table, saves, asked>>

Stop ==
    /\ play.file # 0
    /\ play' = [Stopped EXCEPT !.seen = IF Late THEN play.seen ELSE 0]
    /\ skip' = Reset(skip)
    /\ took' = NoSkip
    /\ UNCHANGED <<table, saves, asked>>

(* The player opens the file, plays on, pauses, or is told to seek. *)
Plays ==
    /\ play.file # 0
    /\ \/ play' = [play EXCEPT !.seen = play.file]
       \/ ~play.paused /\ play.at < Length[play.file] /\ play' = [play EXCEPT !.at = @ + 1]
       \/ play' = [play EXCEPT !.paused = ~@]
       \/ \E to \in 0..Length[play.file] : play' = [play EXCEPT !.at = to]
    /\ took' = NoSkip
    /\ UNCHANGED <<skip, table, saves, asked>>

SkipInit ==
    /\ play = Stopped
    /\ skip = Fresh
    /\ table = Disarmed
    /\ saves = {}
    /\ took = NoSkip
    /\ asked = {}

SkipNext ==
    \/ \E marks \in MarkLists : Tick(marks) \/ OnSkip(marks)
    \/ \E f \in Episode, marks \in MarkLists : BeginLoad(f, marks)
    \/ Elapse \/ OnCancel \/ SaveLands \/ ReadChoices \/ Answer \/ Stop \/ Plays

-----------------------------------------------------------------------------
(* The countdown only skips a segment that lies at the playhead, ahead of  *)
(* it, once in a load, and only of a kind the user once pressed Skip for   *)
(* (tick, on_skip, fetch_skip_choices).                                    *)
SkipsAsAsked ==
    took'.by = "countdown" =>
        /\ took'.of \notin skip.skipped
        /\ took'.of.start <= play.at /\ play.at < took'.of.end
        /\ took'.of.ty \in Enabled \cap asked
        /\ play'.file = play.file => play'.at >= play.at

(* What is known of a segment is of the file that plays, and the marks of  *)
(* its chapters are read as they stand (reset, read_chapter_segments).     *)
OfThisFile ==
    /\ skip.of \in {0, play.file}
    /\ skip.chapters # None =>
         /\ skip.chapters = SegmentsFromChapters(play.marks, Length[play.file])
         /\ MarksAreRead(play.marks, Length[play.file])

Known == <<play.file, play.marks, skip.of, skip.chapters>>

(* Both of the above, the second after every step that changes what it is  *)
(* about; at the start nothing is known of any segment.                    *)
SkipSafe == [][SkipsAsAsked /\ (Known' # Known => OfThisFile')]_skipVars
=============================================================================
