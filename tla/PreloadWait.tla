----------------------------- MODULE PreloadWait -----------------------------
(***************************************************************************)
(* One wait for TorrServer to buffer a file before it plays (stream.rs and *)
(* cache.rs of cinebox-torrserver, begin_load of the player screen).  The  *)
(* head of a file is preloaded by a request of its own and the status of   *)
(* the torrent polled; in the middle of a file a range is opened, which    *)
(* makes the server read ahead of it, and the state of its cache polled.   *)
(*                                                                         *)
(* Other devices use the same torrent.  The server is external: it lists    *)
(* its readers in any order, completes pieces of the file and drops them    *)
(* again.                                                                   *)
(***************************************************************************)
EXTENDS Naturals, FiniteSets

CONSTANTS
    Pieces,     \* the pieces of the file are 0..Pieces - 1
    Needed,     \* how many of them a wait in the middle is for
    Ahead,      \* how far the server reads ahead of a reader
    Budget,     \* STAT_POLL_MAX
    Grace,      \* STAT_START_GRACE
    MayShare    \* other devices read the same torrent

WaitAssumption ==
    /\ {Pieces, Needed, Ahead, Budget} \subseteq Nat \ {0}
    /\ Grace \in Nat
    /\ MayShare \in BOOLEAN

VARIABLES
    wait,    \* the task: how far it is and what it last read
    server   \* the torrent on the server

waitVars == <<wait, server>>

Piece == 0..(Pieces - 1)
Ours == "ours"
Nothing == [complete |-> 0, of |-> 0]

NoWait == [at |-> "none", start |-> 0, polls |-> 0, meter |-> Nothing, own |-> FALSE]

Min2(a, b) == IF a < b THEN a ELSE b

-----------------------------------------------------------------------------
(* Where a position lies in the file, or none for a fresh start, a file of *)
(* no length or a title without a runtime: then the head is waited for.    *)
ResumePiece(at, hasLength, hasRuntime) ==
    IF at = 0 \/ ~hasLength \/ ~hasRuntime THEN 0 ELSE Min2(at, Pieces - 1)

(* resume_window_progress: the pieces ahead of a reader. *)
WindowProgress(reader, complete) ==
    LET to == Min2(reader.at + Needed, reader.end)
    IN  [complete |-> Cardinality({p \in complete : reader.at <= p /\ p < to}),
         of |-> IF to > reader.at THEN to - reader.at ELSE 0]

(* Ninety-five of a hundred. *)
IsReady(meter) == 100 * meter.complete >= 95 * meter.of

(* preload_percent: nothing to preload counts as everything. *)
HeadProgress == [complete |-> Min2(server.bytes, server.size), of |-> server.size]

IsStarted == server.size > 0 \/ server.preloads

Of(readers, owner) == {r \in readers : r.owner = owner}

Without(readers, owner) == readers \ Of(readers, owner)

Reader(owner, at) == [owner |-> owner, at |-> at, end |-> Min2(at + Ahead, Pieces)]

(* Mutant: the connection outlives the wait. *)
EndsOpen(at) ==
    /\ wait' = [wait EXCEPT !.at = at]
    /\ UNCHANGED server

(* What ends a wait closes its connection, and with it the reader. *)
Ends(at) ==
    /\ wait' = [wait EXCEPT !.at = at]
    /\ server' = [server EXCEPT !.readers = Without(@, Ours)]

-----------------------------------------------------------------------------
(* begin_load: a wait that runs is aborted, and its connections are closed. *)
Begin(at, hasLength, hasRuntime) ==
    LET start == ResumePiece(at, hasLength, hasRuntime)
    IN  /\ wait' = [NoWait EXCEPT !.start = start, !.at = IF start = 0 THEN "head" ELSE "open"]
        /\ server' = [server EXCEPT !.readers = Without(@, Ours)]

(* The screen leaves the wait. *)
Abort ==
    /\ wait.at \in {"head", "open", "poll"}
    /\ Ends("aborted")

(* The headers of the range come within a minute, or the wait fails. *)
Opens ==
    /\ wait.at = "open"
    /\ wait' = [wait EXCEPT !.at = "poll"]
    /\ server' = [server EXCEPT !.readers = @ \cup {Reader(Ours, wait.start)}]

(* A request fails or is not answered in time. *)
Fails ==
    /\ wait.at \in {"head", "open", "poll"}
    /\ Ends("failed")

Reads(meter, own) == [wait EXCEPT !.polls = @ + 1, !.meter = meter, !.own = own]

(* What a look at the cache may find: the reader listed first, if any. *)
Looks ==
    IF server.readers = {} THEN {Reads(Nothing, FALSE)}
    ELSE {Reads(WindowProgress(r, server.complete), r.owner = Ours) : r \in server.readers}

(* One poll of the cache.  Out of budget, the file plays all the same. *)
PollCache ==
    /\ wait.at = "poll"
    /\ \E after \in Looks :
         LET isOver == after.meter.of > 0 /\ IsReady(after.meter)
         IN  IF isOver \/ after.polls = Budget
             THEN /\ wait' = [after EXCEPT !.at = IF isOver THEN "ready" ELSE "soft"]
                  /\ server' = [server EXCEPT !.readers = Without(@, Ours)]
             ELSE /\ wait' = after
                  /\ UNCHANGED server

(* One poll of the status.  Nothing begun past the grace is nothing to     *)
(* preload; out of budget the wait fails.                                  *)
PollHead ==
    LET after == Reads(IF IsStarted THEN HeadProgress ELSE Nothing, TRUE)
    IN  /\ wait.at = "head"
        /\ wait' = IF IsStarted /\ IsReady(HeadProgress) THEN [after EXCEPT !.at = "ready"]
                   ELSE IF ~IsStarted /\ wait.polls >= Grace THEN [after EXCEPT !.at = "soft"]
                   ELSE IF wait.polls + 1 = Budget THEN [after EXCEPT !.at = "failed"]
                   ELSE after
        /\ UNCHANGED server

-----------------------------------------------------------------------------
(* The server: a piece completes or is dropped, a preload begins, has its  *)
(* size and goes on, another device comes and goes, and a reader from which *)
(* nothing is read is listed no longer.                                     *)
Serves ==
    /\ \/ \E p \in Piece : server' = [server EXCEPT !.complete = IF p \in @ THEN @ \ {p} ELSE @ \cup {p}]
       \/ ~server.preloads /\ server' = [server EXCEPT !.preloads = TRUE]
       \/ server.preloads /\ server.size = 0 /\ server' = [server EXCEPT !.size = 2]
       \/ server.bytes < server.size /\ server' = [server EXCEPT !.bytes = @ + 1]
       \/ /\ MayShare /\ Of(server.readers, "theirs") = {}
          /\ \E p \in Piece : server' = [server EXCEPT !.readers = @ \cup {Reader("theirs", p)}]
       \/ \E owner \in {Ours, "theirs"} :
             /\ Of(server.readers, owner) # {}
             /\ server' = [server EXCEPT !.readers = Without(@, owner)]
    /\ UNCHANGED wait

WaitInit ==
    /\ wait = NoWait
    /\ server = [readers |-> {}, complete |-> {}, preloads |-> FALSE, size |-> 0, bytes |-> 0]

WaitNext ==
    \/ \E at \in Piece, hasLength, hasRuntime \in BOOLEAN : Begin(at, hasLength, hasRuntime)
    \/ Abort \/ Opens \/ Fails \/ PollCache \/ PollHead \/ Serves

-----------------------------------------------------------------------------
(* What a wait has on the server is the reader of the range it polls, and  *)
(* whatever ends it takes it away (wait_preload_at_bytes, abort_buffering). *)
NoReaderIsLeft ==
    Of(server.readers, Ours) \subseteq (IF wait.at = "poll" THEN {Reader(Ours, wait.start)} ELSE {})

(* No wait is polled past its budget, and one that nothing begins for ends *)
(* with the grace (poll_stat_until_ready).                                 *)
WithinBudget ==
    /\ wait.polls <= Budget
    /\ wait.at \in {"head", "poll"} => wait.polls < Budget
    /\ wait.at = "head" /\ ~IsStarted => wait.polls <= Grace

(* A wait in the middle that read its own reader and found it ready found  *)
(* the window read ahead of it, no wider than that, with at most one piece *)
(* in twenty missing: none, when it is narrower (resume_window_progress).  *)
ReadyIsBuffered ==
    wait.at = "ready" /\ wait.start > 0 /\ wait.own =>
        /\ wait.meter.of = Min2(Needed, Reader(Ours, wait.start).end - wait.start)
        /\ wait.meter.complete <= wait.meter.of
        /\ wait.meter.of < 20 => wait.meter.complete = wait.meter.of
        /\ 20 * (wait.meter.of - wait.meter.complete) <= wait.meter.of

(* All of the above. *)
WaitSafe == NoReaderIsLeft /\ WithinBudget /\ ReadyIsBuffered
=============================================================================
