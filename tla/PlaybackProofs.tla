--------------------------- MODULE PlaybackProofs ---------------------------
(***************************************************************************)
(* Theorems about the player screen, for any files, lengths and positions, *)
(* any number of commands on their way and of inputs of the user; and      *)
(* about the wait for the server, for any size of the file and the window, *)
(* any budget and grace.                                                   *)
(***************************************************************************)
EXTENDS MCPlayback, FiniteSetTheorems, TLAPS

(***************************************************************************)
(* Types, and no wait but the one of the file that is waited for.          *)
(***************************************************************************)
GoodCommand(cmd) ==
    /\ cmd \in Command
    /\ cmd.op = "load" => cmd.file \in File
    /\ cmd.op = "stop" => cmd.file = NoFile

GoodQueue(q) == q \in Seq(Command) /\ \A i \in 1..Len(q) : GoodCommand(q[i])

GoodScreen(s, n) ==
    /\ s \in Screen
    /\ s.phase # "none" => s.file \in File
    /\ s.phase # "buffering" => s.wait = "none"
    /\ n = (IF s.phase = "buffering" /\ s.wait = "running" THEN 1 ELSE 0)

WorldState ==
    [screen : Screen, queue : Seq(Command), timecode : [File -> Position], recent : BOOLEAN,
     waits : Nat, asked : SUBSET Position]

GoodWorld(w) == w \in WorldState /\ GoodScreen(w.screen, w.waits) /\ GoodQueue(w.queue)

-----------------------------------------------------------------------------
(* Positions are those of any of the files. *)
LEMMA Positions ==
    /\ Position \subseteq Nat /\ 0 \in Position
    /\ \A f \in File : Length[f] \in Nat \ {0} /\ 0..Length[f] \subseteq Position
    /\ \A p \in Position : p # 0 => p - 1 \in Position
    /\ 1 \in File
<1>1. 1 \in File /\ \A f \in File : Length[f] \in Nat \ {0}
  BY PlayerAssumption DEF File
<1>2. \A p : p \in Position <=> \E f \in File : p \in 0..Length[f]
  BY DEF Position
<1> QED
  BY <1>1, <1>2

LEMMA Commands ==
    /\ \A f \in File, at \in Position : GoodCommand(Load(f, at)) /\ Load(f, at).op = "load"
                                        /\ Load(f, at).file = f /\ Load(f, at).at = at
    /\ GoodCommand(Stop) /\ Stop.op = "stop" /\ Stop.file = NoFile
    /\ \A at \in Position : GoodCommand(SeekTo(at)) /\ SeekTo(at).op = "seek" /\ SeekTo(at).at = at
    /\ \A way \in {"back", "forward"} : GoodCommand(SeekBy(way)) /\ SeekBy(way).op = way
    /\ \A b \in BOOLEAN : GoodCommand(SetPaused(b)) /\ SetPaused(b).op \in {"pause", "resume"}
  BY Positions DEF GoodCommand, Command, Load, Stop, SeekTo, SeekBy, SetPaused, Seeks, NoFile

-----------------------------------------------------------------------------
(***************************************************************************)
(* The methods of the screen: what each changes of a world, and that it    *)
(* leaves a good one.                                                      *)
(***************************************************************************)
LEMMA Posted ==
    ASSUME NEW w, GoodWorld(w), NEW cmd, GoodCommand(cmd)
    PROVE  /\ GoodWorld(Post(w, cmd))
           /\ Post(w, cmd).queue = Append(w.queue, cmd)
           /\ Post(w, cmd).screen = w.screen /\ Post(w, cmd).timecode = w.timecode
           /\ Post(w, cmd).recent = w.recent /\ Post(w, cmd).waits = w.waits
           /\ Post(w, cmd).asked = w.asked
<1> DEFINE q == Append(w.queue, cmd)
<1>1. q \in Seq(Command) /\ Len(q) = Len(w.queue) + 1 /\ Len(w.queue) \in Nat
      /\ (\A i \in 1..Len(w.queue) : q[i] = w.queue[i]) /\ q[Len(w.queue) + 1] = cmd
  BY DEF GoodWorld, GoodQueue, GoodCommand
<1> HIDE DEF q
<1>2. GoodQueue(q)
  BY <1>1 DEF GoodWorld, GoodQueue
<1>3. Post(w, cmd) = [w EXCEPT !.queue = q]
  BY DEF Post, q
<1>4. /\ Post(w, cmd) \in WorldState /\ Post(w, cmd).queue = q
      /\ Post(w, cmd).screen = w.screen /\ Post(w, cmd).timecode = w.timecode
      /\ Post(w, cmd).recent = w.recent /\ Post(w, cmd).waits = w.waits
      /\ Post(w, cmd).asked = w.asked
  BY <1>1, <1>3 DEF GoodWorld, WorldState
<1> QED
  BY <1>2, <1>4 DEF GoodWorld, q

LEMMA Saved ==
    ASSUME NEW w, GoodWorld(w), NEW force
    PROVE  /\ GoodWorld(SaveProgress(w, force))
           /\ SaveProgress(w, force).queue = w.queue /\ SaveProgress(w, force).screen = w.screen
           /\ SaveProgress(w, force).waits = w.waits /\ SaveProgress(w, force).asked = w.asked
           /\ \A f \in File : SaveProgress(w, force).timecode[f] # w.timecode[f] =>
                /\ IsPlaying(w) /\ ~w.screen.failed /\ f = w.screen.file
                /\ SaveProgress(w, force).timecode[f] = w.screen.time
           /\ IsPlaying(w) /\ ~w.screen.failed /\ (force = TRUE) =>
                SaveProgress(w, force).timecode[w.screen.file] = w.screen.time
<1>1. CASE IsPlaying(w) /\ ~w.screen.failed /\ (force \/ ~w.recent)
  <2> DEFINE tc == [w.timecode EXCEPT ![w.screen.file] = w.screen.time]
  <2>1. /\ tc \in [File -> Position] /\ tc[w.screen.file] = w.screen.time
        /\ \A f \in File : f # w.screen.file => tc[f] = w.timecode[f]
    BY <1>1 DEF GoodWorld, GoodScreen, WorldState, Screen, IsPlaying
  <2>2. SaveProgress(w, force) = [w EXCEPT !.timecode = tc, !.recent = TRUE]
    BY <1>1 DEF SaveProgress, GoodWorld, WorldState
  <2> HIDE DEF tc
  <2>3. /\ SaveProgress(w, force) \in WorldState /\ SaveProgress(w, force).timecode = tc
        /\ SaveProgress(w, force).queue = w.queue /\ SaveProgress(w, force).screen = w.screen
        /\ SaveProgress(w, force).waits = w.waits /\ SaveProgress(w, force).asked = w.asked
    BY <2>1, <2>2 DEF GoodWorld, WorldState
  <2> QED
    BY <1>1, <2>1, <2>3 DEF GoodWorld
<1>2. CASE ~ (IsPlaying(w) /\ ~w.screen.failed /\ (force \/ ~w.recent))
  BY <1>2 DEF SaveProgress
<1> QED
  BY <1>1, <1>2

LEMMA Aborted ==
    ASSUME NEW w, GoodWorld(w)
    PROVE  /\ GoodWorld(AbortBuffering(w))
           /\ AbortBuffering(w).queue = w.queue /\ AbortBuffering(w).timecode = w.timecode
           /\ AbortBuffering(w).asked = w.asked /\ AbortBuffering(w).waits = 0
<1>1. CASE w.screen.wait = "running"
  <2> DEFINE s == [w.screen EXCEPT !.wait = "none"]
  <2>1. w.screen.phase = "buffering" /\ w.waits = 1
    BY <1>1 DEF GoodWorld, GoodScreen
  <2>2. GoodScreen(s, 0)
    <3>1. w.screen \in Screen /\ w.screen.file \in File
      BY <2>1 DEF GoodWorld, GoodScreen
    <3>2. s \in Screen /\ s.wait = "none" /\ s.file = w.screen.file
      BY <3>1 DEF Screen
    <3> QED
      BY <3>1, <3>2 DEF GoodScreen
  <2> DEFINE n == w.waits - 1
  <2>3. AbortBuffering(w) = [w EXCEPT !.waits = n, !.screen = s]
    BY <1>1 DEF AbortBuffering, GoodWorld, WorldState
  <2>4. s \in Screen /\ w \in WorldState /\ n \in Nat /\ n = 0
    BY <2>1, <2>2 DEF GoodScreen, GoodWorld
  <2> HIDE DEF s, n
  <2>5. /\ AbortBuffering(w) \in WorldState /\ AbortBuffering(w).waits = n
        /\ AbortBuffering(w).screen = s /\ AbortBuffering(w).queue = w.queue
        /\ AbortBuffering(w).timecode = w.timecode /\ AbortBuffering(w).asked = w.asked
    <3>1. s \in Screen /\ w \in WorldState /\ n \in Nat
      BY <2>4
    <3> QED
      BY <2>3, <3>1 DEF WorldState
  <2> QED
    BY <2>2, <2>4, <2>5 DEF GoodWorld
<1>2. CASE w.screen.wait # "running"
  BY <1>2 DEF AbortBuffering, GoodWorld, GoodScreen
<1> QED
  BY <1>1, <1>2

(* The same file, as far as it has been followed. *)
SameCourse(s, t) ==
    /\ s.phase = t.phase /\ s.file = t.file /\ s.start = t.start /\ s.failed = t.failed
    /\ s.checked = t.checked /\ s.played = t.played

(* A file at its start, of which nothing has been seen. *)
IsFresh(s, f, start) ==
    /\ s.phase = "playing" /\ s.file = f /\ s.start = start /\ s.time = start
    /\ ~s.checked /\ ~s.played

(* The load goes out if the player takes it, and is an error if not. *)
LEMMA LoadedCurrent ==
    ASSUME NEW w, GoodWorld(w), w.screen.phase = "playing", NEW ok \in BOOLEAN
    PROVE  /\ GoodWorld(LoadCurrent(w, ok))
           /\ LoadCurrent(w, ok).timecode = w.timecode /\ LoadCurrent(w, ok).asked = w.asked
           /\ IsFresh(w.screen, w.screen.file, w.screen.start) =>
                IsFresh(LoadCurrent(w, ok).screen, w.screen.file, w.screen.start)
           /\ LoadCurrent(w, ok).screen.failed = ~ok
           /\ ok => LoadCurrent(w, ok).queue = Append(w.queue, Load(w.screen.file, w.screen.time))
<1>1. w \in WorldState /\ w.screen \in Screen /\ w.screen.file \in File /\ w.screen.time \in Position
  BY DEF GoodWorld, GoodScreen, Screen
<1>2. \A b \in BOOLEAN : GoodScreen([w.screen EXCEPT !.failed = b], w.waits)
  BY <1>1 DEF GoodWorld, GoodScreen, Screen
<1>3. CASE ok
  <2> DEFINE p == Post(w, Load(w.screen.file, w.screen.time))
             s == [w.screen EXCEPT !.failed = FALSE]
  <2>1. /\ GoodWorld(p) /\ p.queue = Append(w.queue, Load(w.screen.file, w.screen.time))
        /\ p.screen = w.screen /\ p.timecode = w.timecode /\ p.asked = w.asked /\ p.waits = w.waits
    <3>1. GoodCommand(Load(w.screen.file, w.screen.time))
      BY <1>1, Commands
    <3> QED
      BY <3>1, Posted
  <2>2. /\ GoodScreen(s, w.waits) /\ s \in Screen /\ s.failed = FALSE
        /\ \A f, start : IsFresh(w.screen, f, start) => IsFresh(s, f, start)
    BY <1>1, <1>2 DEF GoodScreen, Screen, IsFresh
  <2>3. LoadCurrent(w, ok) = [p EXCEPT !.screen = s]
    BY <1>3, <2>1 DEF LoadCurrent, GoodWorld, WorldState
  <2> HIDE DEF p, s
  <2>4. /\ LoadCurrent(w, ok) \in WorldState /\ LoadCurrent(w, ok).screen = s
        /\ LoadCurrent(w, ok).queue = p.queue /\ LoadCurrent(w, ok).timecode = p.timecode
        /\ LoadCurrent(w, ok).asked = p.asked /\ LoadCurrent(w, ok).waits = p.waits
    BY <2>1, <2>2, <2>3 DEF GoodWorld, WorldState
  <2> QED
    BY <1>3, <2>1, <2>2, <2>4 DEF GoodWorld
<1>4. CASE ~ok
  <2> DEFINE s == [w.screen EXCEPT !.failed = TRUE]
  <2>1. /\ GoodScreen(s, w.waits) /\ s \in Screen /\ s.failed = TRUE
        /\ \A f, start : IsFresh(w.screen, f, start) => IsFresh(s, f, start)
    BY <1>1, <1>2 DEF GoodScreen, Screen, IsFresh
  <2>2. LoadCurrent(w, ok) = [w EXCEPT !.screen = s]
    BY <1>1, <1>4 DEF LoadCurrent, WorldState
  <2> HIDE DEF s
  <2>3. /\ LoadCurrent(w, ok) \in WorldState /\ LoadCurrent(w, ok).screen = s
        /\ LoadCurrent(w, ok).queue = w.queue /\ LoadCurrent(w, ok).timecode = w.timecode
        /\ LoadCurrent(w, ok).asked = w.asked /\ LoadCurrent(w, ok).waits = w.waits
    BY <1>1, <2>1, <2>2 DEF WorldState
  <2> QED
    BY <1>4, <2>1, <2>3 DEF GoodWorld
<1> QED
  BY <1>3, <1>4

LEMMA States ==
    ASSUME NEW f \in File, NEW start \in Position
    PROVE  /\ GoodScreen(Playing(f, start), 0) /\ GoodScreen(Buffering(f, start), 1)
           /\ GoodScreen(Closed, 0)
           /\ IsFresh(Playing(f, start), f, start) /\ ~Playing(f, start).failed
           /\ Buffering(f, start).phase = "buffering" /\ Buffering(f, start).file = f
           /\ Closed.phase = "none"
  BY Positions DEF GoodScreen, Screen, Playing, Buffering, Closed, State0, IsFresh

LEMMA Began ==
    ASSUME NEW w, GoodWorld(w), NEW f \in File, NEW start \in Position, NEW ok \in BOOLEAN
    PROVE  /\ GoodWorld(BeginLoad(w, f, start, ok))
           /\ BeginLoad(w, f, start, ok).timecode = w.timecode
           /\ BeginLoad(w, f, start, ok).asked = {start}
           /\ WaitPreload =>
                /\ BeginLoad(w, f, start, ok).screen = Buffering(f, start)
                /\ BeginLoad(w, f, start, ok).queue = Append(w.queue, Stop)
           /\ ~WaitPreload =>
                /\ IsFresh(BeginLoad(w, f, start, ok).screen, f, start)
                /\ BeginLoad(w, f, start, ok).screen.failed = ~ok
                /\ ok => BeginLoad(w, f, start, ok).queue = Append(w.queue, Load(f, start))
<1> DEFINE b == AbortBuffering(w)
           a == [b EXCEPT !.asked = {start}]
<1>1. /\ GoodWorld(b) /\ b.queue = w.queue /\ b.timecode = w.timecode /\ b.waits = 0
  BY Aborted
<1> HIDE DEF b
<1>2. /\ a \in WorldState /\ a.queue = w.queue /\ a.timecode = w.timecode /\ a.waits = 0
      /\ a.asked = {start} /\ a.screen = b.screen
  BY <1>1 DEF GoodWorld, WorldState
<1>3. GoodWorld(a)
  BY <1>1, <1>2 DEF GoodWorld
<1>4. BeginLoad(w, f, start, ok) =
        IF WaitPreload
        THEN [Post(a, Stop) EXCEPT !.screen = Buffering(f, start), !.waits = @ + 1]
        ELSE LoadCurrent([a EXCEPT !.screen = Playing(f, start)], ok)
  BY DEF BeginLoad, b
<1> HIDE DEF a
<1>5. CASE WaitPreload
  <2> DEFINE p == Post(a, Stop)
             s == Buffering(f, start)
  <2>1. /\ GoodWorld(p) /\ p.queue = Append(w.queue, Stop) /\ p.timecode = w.timecode
        /\ p.asked = {start} /\ p.waits = 0
    <3>1. GoodCommand(Stop)
      BY Commands
    <3> QED
      BY <1>2, <1>3, <3>1, Posted
  <2>2. GoodScreen(s, 1) /\ s \in Screen
    BY States DEF GoodScreen
  <2> DEFINE n == p.waits + 1
  <2>3. BeginLoad(w, f, start, ok) = [p EXCEPT !.screen = s, !.waits = n]
    BY <1>4, <1>5, <2>1 DEF GoodWorld, WorldState
  <2>4. n \in Nat /\ n = 1
    BY <2>1
  <2> HIDE DEF p, s, n
  <2>5. /\ BeginLoad(w, f, start, ok) \in WorldState
        /\ BeginLoad(w, f, start, ok).screen = s /\ BeginLoad(w, f, start, ok).waits = n
        /\ BeginLoad(w, f, start, ok).queue = p.queue
        /\ BeginLoad(w, f, start, ok).timecode = p.timecode
        /\ BeginLoad(w, f, start, ok).asked = p.asked
    <3>1. p \in WorldState /\ s \in Screen /\ n \in Nat
      BY <2>1, <2>2, <2>4 DEF GoodWorld
    <3> QED
      BY <2>3, <3>1 DEF WorldState
  <2> QED
    BY <1>5, <2>1, <2>2, <2>4, <2>5 DEF GoodWorld, s
<1>6. CASE ~WaitPreload
  <2> DEFINE s == Playing(f, start)
             p == [a EXCEPT !.screen = s]
  <2>1. GoodScreen(s, 0) /\ s \in Screen /\ IsFresh(s, f, start)
    BY States DEF GoodScreen
  <2> HIDE DEF s
  <2>2. /\ p \in WorldState /\ p.queue = w.queue /\ p.timecode = w.timecode /\ p.waits = 0
        /\ p.asked = {start} /\ p.screen = s
    BY <1>2, <2>1 DEF WorldState
  <2>3. GoodWorld(p)
    BY <1>1, <2>1, <2>2 DEF GoodWorld
  <2> HIDE DEF p
  <2>4. BeginLoad(w, f, start, ok) = LoadCurrent(p, ok)
    BY <1>4, <1>6 DEF p, s
  <2>5. /\ p.screen.phase = "playing" /\ p.screen.file = f /\ p.screen.start = start
        /\ p.screen.time = start
    BY <2>1, <2>2 DEF IsFresh
  <2> DEFINE l == LoadCurrent(p, ok)
  <2>6. /\ GoodWorld(l) /\ l.timecode = p.timecode /\ l.asked = p.asked
        /\ IsFresh(p.screen, f, start) => IsFresh(l.screen, f, start)
        /\ l.screen.failed = ~ok
        /\ ok => l.queue = Append(p.queue, Load(f, start))
    BY <2>3, <2>5, LoadedCurrent
  <2> HIDE DEF l
  <2> QED
    BY <1>6, <2>1, <2>2, <2>4, <2>6 DEF l
<1> QED
  BY <1>5, <1>6

LEMMA Jumped ==
    ASSUME NEW w, GoodWorld(w), NEW f \in File, NEW ok \in BOOLEAN
    PROVE  LET a == SaveProgress(w, TRUE) IN
           /\ GoodWorld(a) /\ a.timecode[f] \in Position
           /\ GoodWorld(JumpToFile(w, f, ok))
           /\ JumpToFile(w, f, ok).timecode = a.timecode
           /\ f = w.screen.file => JumpToFile(w, f, ok) = a
           /\ f # w.screen.file => JumpToFile(w, f, ok) = BeginLoad(a, f, a.timecode[f], ok)
<1> DEFINE a == SaveProgress(w, TRUE)
<1>1. GoodWorld(a)
  BY Saved
<1>2. a.timecode[f] \in Position
  BY <1>1 DEF GoodWorld, WorldState
<1>3. JumpToFile(w, f, ok) = IF f = w.screen.file THEN a ELSE BeginLoad(a, f, a.timecode[f], ok)
  BY DEF JumpToFile
<1> HIDE DEF a
<1>4. \A start \in Position : /\ GoodWorld(BeginLoad(a, f, start, ok))
                              /\ BeginLoad(a, f, start, ok).timecode = a.timecode
  BY <1>1, Began
<1> QED
  BY <1>1, <1>2, <1>3, <1>4 DEF a

LEMMA Sought ==
    ASSUME NEW w, GoodWorld(w), IsPlaying(w), NEW to \in Position
    PROVE  /\ GoodWorld(SeekAbs(w, to))
           /\ SeekAbs(w, to).queue = Append(w.queue, SeekTo(to))
           /\ SeekAbs(w, to).asked = w.asked \cup {to}
           /\ SeekAbs(w, to).timecode = w.timecode
           /\ SameCourse(SeekAbs(w, to).screen, w.screen) /\ SeekAbs(w, to).screen.time = to
<1> DEFINE p == Post(w, SeekTo(to))
           s == [w.screen EXCEPT !.time = to]
           asks == p.asked \cup {to}
<1>1. GoodCommand(SeekTo(to))
  BY Commands
<1>2. /\ GoodWorld(p) /\ p.queue = Append(w.queue, SeekTo(to)) /\ p.timecode = w.timecode
      /\ p.asked = w.asked /\ p.screen = w.screen /\ p.waits = w.waits
  BY <1>1, Posted
<1>3. GoodScreen(s, w.waits) /\ s \in Screen /\ SameCourse(s, w.screen) /\ s.time = to
  BY DEF GoodWorld, GoodScreen, Screen, SameCourse
<1>4. asks \in SUBSET Position
  BY <1>2 DEF GoodWorld, WorldState
<1>5. SeekAbs(w, to) = [p EXCEPT !.screen = s, !.asked = asks]
  <2>1. SeekAbs(w, to) = [p EXCEPT !.screen.time = IF IsPlaying(w) THEN to ELSE @,
                                   !.asked = @ \cup {to}]
    BY DEF SeekAbs
  <2> QED
    BY <1>2, <2>1 DEF GoodWorld, WorldState
<1> HIDE DEF p, s, asks
<1>6. /\ SeekAbs(w, to) \in WorldState /\ SeekAbs(w, to).screen = s
      /\ SeekAbs(w, to).asked = asks /\ SeekAbs(w, to).queue = p.queue
      /\ SeekAbs(w, to).timecode = p.timecode /\ SeekAbs(w, to).waits = p.waits
  <2>1. p \in WorldState /\ s \in Screen /\ asks \in SUBSET Position
    BY <1>2, <1>3, <1>4 DEF GoodWorld
  <2> QED
    BY <1>5, <2>1 DEF WorldState
<1>7. asks = w.asked \cup {to}
  BY <1>2 DEF asks
<1> QED
  BY <1>2, <1>3, <1>6, <1>7 DEF GoodWorld

(* The next file, if there is one. *)
LEMMA WentNext ==
    ASSUME NEW w, GoodWorld(w), IsPlaying(w), NEW ok \in BOOLEAN
    PROVE  /\ GoodWorld(NextFile(w, ok))
           /\ HasNext(w) => /\ w.screen.file + 1 \in File
                            /\ NextFile(w, ok) = JumpToFile(w, w.screen.file + 1, ok)
           /\ ~HasNext(w) => NextFile(w, ok) = w
<1>1. w.screen.file \in File
  BY DEF GoodWorld, GoodScreen, IsPlaying
<1>2. HasNext(w) => w.screen.file + 1 \in File
  BY <1>1, PlayerAssumption DEF HasNext, File
<1> QED
  BY <1>2, Jumped DEF NextFile

LEMMA Polled ==
    ASSUME NEW w, GoodWorld(w), NEW ok \in BOOLEAN, IsPlaying(PollBuffering(w, ok))
    PROVE  LET v == PollBuffering(w, ok) IN
           /\ GoodWorld(v) /\ w.waits = 0
           /\ \/ w.screen.phase = "playing" /\ v = w
              \/ /\ w.screen.phase = "buffering"
                 /\ w.screen.file \in File /\ w.screen.start \in Position
                 /\ IsFresh(v.screen, w.screen.file, w.screen.start)
                 /\ v.timecode = w.timecode /\ v.asked = w.asked
                 /\ \/ /\ w.screen.wait = "ready"
                       /\ v.screen.failed = ~ok
                       /\ ok => v.queue = Append(w.queue, Load(w.screen.file, w.screen.start))
                    \/ v.screen.failed = TRUE /\ v.queue = w.queue
<1> DEFINE p == Playing(w.screen.file, w.screen.start)
           v == PollBuffering(w, ok)
<1>1. CASE w.screen.phase # "buffering" \/ w.screen.wait = "running"
  <2>1. w.screen.wait # "ready" \/ w.screen.phase = "buffering"
    BY DEF GoodWorld, GoodScreen
  <2>2. v = w
    BY <1>1, <2>1 DEF PollBuffering
  <2> QED
    BY <2>2 DEF IsPlaying, GoodWorld, GoodScreen
<1>2. CASE ~ (w.screen.phase # "buffering" \/ w.screen.wait = "running")
  <2>1. w.screen.file \in File /\ w.screen.start \in Position /\ w.waits = 0 /\ w \in WorldState
    BY <1>2 DEF GoodWorld, GoodScreen, Screen
  <2>2. GoodScreen(p, 0) /\ p \in Screen /\ IsFresh(p, w.screen.file, w.screen.start)
    BY <2>1, States DEF GoodScreen
  <2>3. CASE w.screen.wait = "ready"
    <3> DEFINE x == [w EXCEPT !.screen = p]
    <3>1. v = LoadCurrent(x, ok)
      BY <1>2, <2>3 DEF PollBuffering
    <3> HIDE DEF p
    <3>2. /\ x \in WorldState /\ x.screen = p /\ x.queue = w.queue /\ x.timecode = w.timecode
          /\ x.asked = w.asked /\ x.waits = w.waits
      BY <2>1, <2>2 DEF WorldState
    <3>3. GoodWorld(x)
      BY <2>1, <2>2, <3>2 DEF GoodWorld
    <3> HIDE DEF x, v
    <3>4. /\ GoodWorld(v) /\ v.timecode = w.timecode /\ v.asked = w.asked
          /\ IsFresh(v.screen, w.screen.file, w.screen.start) /\ v.screen.failed = ~ok
          /\ ok => v.queue = Append(w.queue, Load(w.screen.file, w.screen.start))
      BY SMTT(30), <2>2, <3>1, <3>2, <3>3, LoadedCurrent DEF IsFresh
    <3> QED
      BY <1>2, <2>1, <2>3, <3>4 DEF v
  <2>4. CASE w.screen.wait # "ready"
    <3> DEFINE s == [p EXCEPT !.failed = TRUE]
    <3>1. v = [w EXCEPT !.screen = s]
      BY <1>2, <2>4 DEF PollBuffering
    <3> HIDE DEF p
    <3>2. GoodScreen(s, 0) /\ s \in Screen /\ s.failed = TRUE
          /\ IsFresh(s, w.screen.file, w.screen.start)
      BY <2>2 DEF GoodScreen, Screen, IsFresh
    <3> HIDE DEF s, v
    <3>3. /\ v \in WorldState /\ v.screen = s /\ v.queue = w.queue /\ v.timecode = w.timecode
          /\ v.asked = w.asked /\ v.waits = w.waits
      BY <2>1, <3>1, <3>2 DEF WorldState
    <3>4. GoodWorld(v)
      BY <2>1, <3>2, <3>3 DEF GoodWorld
    <3> QED
      BY <1>2, <2>1, <3>2, <3>3, <3>4 DEF v
  <2> QED
    BY <2>3, <2>4
<1> QED
  BY <1>1, <1>2

(***************************************************************************)
(* A frame of playback up to the next file.                                *)
(***************************************************************************)
Tailed(old, snap) ==
    TrackTail([old EXCEPT !.time = snap.position, !.duration = snap.duration,
                          !.paused = "paused" \in snap.flags, !.failed = @ \/ snap.failed],
              snap.position, snap.duration)

Kept(w, snap) ==
    LET a == [w EXCEPT !.screen = Tailed(w.screen, snap)]
    IN  SaveProgress(IF IsRestartDue(w.screen, snap.duration) THEN SeekAbs(a, 0) ELSE a, FALSE)

LEMMA FollowIsKept ==
    ASSUME NEW w, NEW snap, NEW ok
    PROVE  Follow(w, snap, ok) =
             IF "ended" \in snap.flags /\ Tailed(w.screen, snap).played /\ AutoNext
             THEN NextFile(Kept(w, snap), ok) ELSE Kept(w, snap)
  BY DEF Follow, Kept, Tailed

LEMMA TailTracked ==
    ASSUME NEW old \in Screen, NEW snap \in Snapshot
    PROVE  /\ Tailed(old, snap) \in Screen
           /\ Tailed(old, snap).phase = old.phase /\ Tailed(old, snap).wait = old.wait
           /\ Tailed(old, snap).file = old.file /\ Tailed(old, snap).start = old.start
           /\ Tailed(old, snap).time = snap.position
           /\ Tailed(old, snap).failed = (old.failed \/ snap.failed)
           /\ Tailed(old, snap).played =
                (old.played \/ (snap.duration # 0 /\ snap.position < TailStart(snap.duration)))
           /\ Tailed(old, snap).checked = (old.checked \/ snap.duration # 0)
<1> DEFINE p == "paused" \in snap.flags
           fl == old.failed \/ snap.failed
           copy == [old EXCEPT !.time = snap.position, !.duration = snap.duration,
                               !.paused = p, !.failed = fl]
           pl == old.played \/ snap.position < TailStart(snap.duration)
<1>1. /\ p \in BOOLEAN /\ fl \in BOOLEAN /\ pl \in BOOLEAN
      /\ snap.position \in Position /\ snap.duration \in Position
  BY DEF Screen, Snapshot
<1>2. Tailed(old, snap) = TrackTail(copy, snap.position, snap.duration)
  BY DEF Tailed, Screen
<1> HIDE DEF p, fl
<1>3. /\ copy \in Screen
      /\ copy.phase = old.phase /\ copy.wait = old.wait /\ copy.file = old.file
      /\ copy.start = old.start /\ copy.time = snap.position /\ copy.failed = fl
      /\ copy.played = old.played /\ copy.checked = old.checked
  BY <1>1 DEF Screen
<1> HIDE DEF copy
<1>4. CASE snap.duration = 0
  BY <1>2, <1>3, <1>4 DEF TrackTail, fl, Screen
<1>5. CASE snap.duration # 0
  <2>1. Tailed(old, snap) = [copy EXCEPT !.played = pl, !.checked = TRUE]
    BY <1>2, <1>3, <1>5 DEF TrackTail, Screen
  <2> HIDE DEF pl
  <2>2. /\ Tailed(old, snap) \in Screen
        /\ Tailed(old, snap).phase = copy.phase /\ Tailed(old, snap).wait = copy.wait
        /\ Tailed(old, snap).file = copy.file /\ Tailed(old, snap).start = copy.start
        /\ Tailed(old, snap).time = copy.time /\ Tailed(old, snap).failed = copy.failed
        /\ Tailed(old, snap).played = pl /\ Tailed(old, snap).checked = TRUE
    BY <1>1, <1>3, <2>1 DEF Screen
  <2> QED
    BY <1>3, <1>5, <2>2 DEF fl, pl, Screen
<1> QED
  BY <1>4, <1>5

LEMMA KeptWell ==
    ASSUME NEW w, GoodWorld(w), IsPlaying(w), NEW snap \in Snapshot
    PROVE  /\ GoodWorld(Kept(w, snap)) /\ SameCourse(Kept(w, snap).screen, Tailed(w.screen, snap))
           /\ IsRestartDue(w.screen, snap.duration) =>
                /\ Kept(w, snap).queue = Append(w.queue, SeekTo(0))
                /\ Kept(w, snap).screen.time = 0 /\ Kept(w, snap).asked = w.asked \cup {0}
           /\ ~IsRestartDue(w.screen, snap.duration) =>
                /\ Kept(w, snap).queue = w.queue
                /\ Kept(w, snap).screen.time = snap.position /\ Kept(w, snap).asked = w.asked
           /\ \A f \in File : Kept(w, snap).timecode[f] # w.timecode[f] =>
                /\ ~Tailed(w.screen, snap).failed /\ f = w.screen.file
                /\ Kept(w, snap).timecode[f] = Kept(w, snap).screen.time
<1> DEFINE n == Tailed(w.screen, snap)
           a == [w EXCEPT !.screen = n]
           b == IF IsRestartDue(w.screen, snap.duration) THEN SeekAbs(a, 0) ELSE a
<1>1. /\ w \in WorldState /\ w.screen \in Screen /\ w.screen.phase = "playing"
      /\ GoodScreen(w.screen, w.waits) /\ GoodQueue(w.queue)
  BY DEF GoodWorld, WorldState, IsPlaying
<1>2. /\ n \in Screen /\ n.phase = "playing" /\ n.wait = w.screen.wait /\ n.file = w.screen.file
      /\ n.time = snap.position
  BY <1>1, TailTracked
<1>k. Kept(w, snap) = SaveProgress(b, FALSE)
  BY DEF Kept
<1> HIDE DEF n
<1>3. GoodScreen(n, w.waits)
  BY <1>1, <1>2 DEF GoodScreen
<1>4. /\ a \in WorldState /\ a.screen = n /\ a.queue = w.queue /\ a.timecode = w.timecode
      /\ a.asked = w.asked /\ a.waits = w.waits
  BY <1>1, <1>2 DEF WorldState
<1> HIDE DEF a
<1>5. GoodWorld(a) /\ IsPlaying(a)
  BY <1>1, <1>2, <1>3, <1>4 DEF GoodWorld, IsPlaying
<1>6. /\ GoodWorld(b) /\ SameCourse(b.screen, n) /\ b.timecode = w.timecode
      /\ IsRestartDue(w.screen, snap.duration) =>
           /\ b.queue = Append(w.queue, SeekTo(0)) /\ b.screen.time = 0 /\ b.asked = w.asked \cup {0}
      /\ ~IsRestartDue(w.screen, snap.duration) =>
           /\ b.queue = w.queue /\ b.screen.time = snap.position /\ b.asked = w.asked
  <2>1. CASE IsRestartDue(w.screen, snap.duration)
    <3>1. 0 \in Position
      BY Positions
    <3>2. /\ GoodWorld(SeekAbs(a, 0)) /\ SeekAbs(a, 0).queue = Append(a.queue, SeekTo(0))
          /\ SeekAbs(a, 0).asked = a.asked \cup {0} /\ SeekAbs(a, 0).timecode = a.timecode
          /\ SameCourse(SeekAbs(a, 0).screen, a.screen) /\ SeekAbs(a, 0).screen.time = 0
      BY <1>5, <3>1, Sought
    <3> QED
      BY <1>4, <2>1, <3>2
  <2>2. CASE ~IsRestartDue(w.screen, snap.duration)
    BY <1>2, <1>4, <1>5, <2>2 DEF SameCourse
  <2> QED
    BY <2>1, <2>2
<1> HIDE DEF b
<1>7. /\ GoodWorld(Kept(w, snap)) /\ Kept(w, snap).screen = b.screen
      /\ Kept(w, snap).queue = b.queue /\ Kept(w, snap).asked = b.asked
      /\ \A f \in File : Kept(w, snap).timecode[f] # b.timecode[f] =>
           /\ ~b.screen.failed /\ f = b.screen.file
           /\ Kept(w, snap).timecode[f] = b.screen.time
  <2> DEFINE c == SaveProgress(b, FALSE)
  <2>1. /\ GoodWorld(c) /\ c.screen = b.screen /\ c.queue = b.queue /\ c.asked = b.asked
        /\ \A f \in File : c.timecode[f] # b.timecode[f] =>
             /\ ~b.screen.failed /\ f = b.screen.file /\ c.timecode[f] = b.screen.time
    <3>1. GoodWorld(b)
      BY <1>6
    <3>2. GoodWorld(c) /\ c.screen = b.screen /\ c.queue = b.queue /\ c.asked = b.asked
      BY <3>1, Saved
    <3>3. \A f \in File : c.timecode[f] # b.timecode[f] =>
             ~b.screen.failed /\ f = b.screen.file /\ c.timecode[f] = b.screen.time
      BY ZenonT(30), <3>1, Saved
    <3> QED
      BY <3>2, <3>3
  <2> HIDE DEF c
  <2> QED
    BY <1>k, <2>1 DEF c
<1> QED
  BY <1>2, <1>6, <1>7 DEF SameCourse, n

LEMMA Followed ==
    ASSUME NEW w, GoodWorld(w), IsPlaying(w), NEW snap \in Snapshot, NEW ok \in BOOLEAN
    PROVE  GoodWorld(Follow(w, snap, ok))
<1>1. GoodWorld(Kept(w, snap)) /\ IsPlaying(Kept(w, snap))
  BY KeptWell, TailTracked DEF SameCourse, IsPlaying, GoodWorld, WorldState
<1>2. GoodWorld(NextFile(Kept(w, snap), ok))
  BY <1>1, WentNext
<1> QED
  BY <1>1, <1>2, FollowIsKept

LEMMA Skipped ==
    ASSUME NEW w, GoodWorld(w), IsPlaying(w), NEW to \in Position, NEW ok \in BOOLEAN
    PROVE  GoodWorld(SkipOrNext(w, to, ok))
  BY WentNext, Sought DEF SkipOrNext

-----------------------------------------------------------------------------
(***************************************************************************)
(* What the main thread and playback do to the types.                      *)
(***************************************************************************)
Fields == {"position", "duration", "flags", "failed"}

GoodWrite(w) ==
    /\ w \in [field : Fields, value : Position \cup BOOLEAN \cup SUBSET {"paused", "ended"}]
    /\ w.field \in {"position", "duration"} => w.value \in Position
    /\ w.field = "flags" => w.value \in SUBSET {"paused", "ended"}
    /\ w.field = "failed" => w.value \in BOOLEAN

Written == {w \in [field : Fields, value : Position \cup BOOLEAN \cup SUBSET {"paused", "ended"}] :
              GoodWrite(w)}

GoodPlayer(e) == e \in Loaded /\ (e.file = NoFile <=> e.state = "idle")

(* Everything typed, and one wait at most. *)
BaseInv ==
    /\ GoodWorld(World)
    /\ Len(queue) <= MaxQueue
    /\ GoodPlayer(exo)
    /\ shown \in Snapshot
    /\ writes \in Seq(Written)
    /\ reading \in Reading
    /\ reading.at # "none" => screen.phase = "playing"
    /\ inputs \in 0..MaxInputs
    /\ covered \in BOOLEAN
    /\ looked \in BOOLEAN

LEMMA BaseIsTyped == BaseInv => TypeOK /\ NoStaleWait
<1> SUFFICES ASSUME BaseInv PROVE TypeOK /\ NoStaleWait
  OBVIOUS
<1>1. /\ screen \in Screen /\ queue \in Seq(Command) /\ timecode \in [File -> Position]
      /\ recent \in BOOLEAN /\ waits \in Nat /\ asked \in SUBSET Position
      /\ GoodScreen(screen, waits)
  BY DEF BaseInv, GoodWorld, WorldState, World
<1> QED
  BY <1>1 DEF BaseInv, TypeOK, NoStaleWait, GoodScreen, GoodPlayer

LEMMA ShowsTyped ==
    ASSUME NEW e, GoodPlayer(e), NEW failed \in BOOLEAN
    PROVE  Shows(e, failed) \in Snapshot /\ Cleared \in Snapshot
<1>1. PositionOf(e) \in Position
  BY Positions DEF GoodPlayer, Loaded, PositionOf
<1>2. DurationOf(e) \in Position
  BY Positions DEF GoodPlayer, Loaded, DurationOf, OpenStates, State, OpenStates, FailedStates
<1>3. FlagsOf(e) \in SUBSET {"paused", "ended"}
  BY DEF FlagsOf
<1> QED
  BY <1>1, <1>2, <1>3, Positions DEF Shows, Snapshot, Cleared

LEMMA PutTyped ==
    ASSUME NEW view \in Snapshot, shown \in Snapshot, writes \in Seq(Written), Put(view)
    PROVE  shown' \in Snapshot /\ writes' \in Seq(Written)
<1>1. CASE Torn
  <2>1. DOMAIN FieldOrder = 1..4 /\ \A i \in 1..4 : FieldOrder[i] \in Fields
    BY DEF FieldOrder, Fields
  <2>2. \A i \in 1..4 : GoodWrite([field |-> FieldOrder[i], value |-> view[FieldOrder[i]]])
    <3>1. /\ view.position \in Position /\ view.duration \in Position
          /\ view.flags \in SUBSET {"paused", "ended"} /\ view.failed \in BOOLEAN
      BY DEF Snapshot
    <3>2. \A fd \in Fields : GoodWrite([field |-> fd, value |-> view[fd]])
      BY <3>1 DEF Fields, GoodWrite
    <3> QED
      BY <2>1, <3>2
  <2>3. \A i \in 1..4 : [field |-> FieldOrder[i], value |-> view[FieldOrder[i]]] \in Written
    BY <2>2 DEF Written, GoodWrite
  <2>4. WritesOf(view) = [i \in 1..4 |-> [field |-> FieldOrder[i], value |-> view[FieldOrder[i]]]]
    BY <2>1 DEF WritesOf
  <2>5. WritesOf(view) \in Seq(Written)
    BY <2>3, <2>4
  <2> QED
    BY <1>1, <2>5 DEF Put
<1>2. CASE ~Torn
  BY <1>2 DEF Put
<1> QED
  BY <1>1, <1>2

-----------------------------------------------------------------------------
(***************************************************************************)
(* The inputs of the user, as worlds.                                      *)
(***************************************************************************)
Toggling(w) == [Post(w, SetPaused(~w.screen.paused)) EXCEPT !.screen.paused = ~@]
Nudging(w, way) == [Post(w, SeekBy(way)) EXCEPT !.asked = Position]
Stopping(w) == [AbortBuffering(Post(SaveProgress(w, TRUE), Stop)) EXCEPT !.screen = Closed]

LEMMA ToggledWorld ==
    ASSUME NEW w, GoodWorld(w)
    PROVE  /\ GoodWorld(Toggling(w))
           /\ SetPaused(~w.screen.paused).op \in {"pause", "resume"}
           /\ Toggling(w).queue = Append(w.queue, SetPaused(~w.screen.paused))
           /\ SameCourse(Toggling(w).screen, w.screen)
           /\ Toggling(w).screen.time = w.screen.time
           /\ Toggling(w).timecode = w.timecode /\ Toggling(w).asked = w.asked
<1> DEFINE p == Post(w, SetPaused(~w.screen.paused))
           s == [w.screen EXCEPT !.paused = ~w.screen.paused]
<1>1. w.screen \in Screen /\ w.screen.paused \in BOOLEAN /\ GoodScreen(w.screen, w.waits)
  BY DEF GoodWorld, GoodScreen, Screen
<1>2. GoodCommand(SetPaused(~w.screen.paused)) /\ SetPaused(~w.screen.paused).op \in {"pause", "resume"}
  BY <1>1, Commands
<1>3. /\ GoodWorld(p) /\ p.queue = Append(w.queue, SetPaused(~w.screen.paused))
      /\ p.screen = w.screen /\ p.timecode = w.timecode /\ p.asked = w.asked /\ p.waits = w.waits
  BY <1>2, Posted
<1>4. /\ s \in Screen /\ SameCourse(s, w.screen) /\ s.time = w.screen.time
      /\ s.wait = w.screen.wait /\ s.phase = w.screen.phase /\ s.file = w.screen.file
  BY <1>1 DEF Screen, SameCourse
<1>5. GoodScreen(s, w.waits)
  <2> HIDE DEF s
  <2> QED
    BY <1>1, <1>4 DEF GoodScreen
<1>6. Toggling(w) = [p EXCEPT !.screen = s]
  BY <1>3 DEF Toggling, GoodWorld, WorldState
<1> HIDE DEF p, s
<1>7. /\ Toggling(w) \in WorldState /\ Toggling(w).screen = s /\ Toggling(w).queue = p.queue
      /\ Toggling(w).timecode = p.timecode /\ Toggling(w).asked = p.asked
      /\ Toggling(w).waits = p.waits
  <2>1. p \in WorldState
    BY <1>3 DEF GoodWorld
  <2> QED
    BY <1>4, <1>6, <2>1 DEF WorldState
<1> QED
  BY <1>2, <1>3, <1>4, <1>5, <1>7 DEF GoodWorld

LEMMA NudgedWorld ==
    ASSUME NEW w, GoodWorld(w), NEW way \in {"back", "forward"}
    PROVE  /\ GoodWorld(Nudging(w, way))
           /\ Nudging(w, way).queue = Append(w.queue, SeekBy(way))
           /\ Nudging(w, way).screen = w.screen
           /\ Nudging(w, way).timecode = w.timecode /\ Nudging(w, way).asked = Position
<1> DEFINE p == Post(w, SeekBy(way))
<1>1. GoodCommand(SeekBy(way))
  BY Commands
<1>2. /\ GoodWorld(p) /\ p.queue = Append(w.queue, SeekBy(way)) /\ p.screen = w.screen
      /\ p.timecode = w.timecode /\ p.waits = w.waits
  BY <1>1, Posted
<1>3. Nudging(w, way) = [p EXCEPT !.asked = Position]
  BY DEF Nudging
<1> HIDE DEF p
<1>4. /\ Nudging(w, way) \in WorldState /\ Nudging(w, way).screen = p.screen
      /\ Nudging(w, way).queue = p.queue /\ Nudging(w, way).timecode = p.timecode
      /\ Nudging(w, way).asked = Position /\ Nudging(w, way).waits = p.waits
  <2>1. p \in WorldState
    BY <1>2 DEF GoodWorld
  <2> QED
    BY <1>3, <2>1 DEF WorldState
<1> QED
  BY <1>2, <1>4 DEF GoodWorld

LEMMA StoppedWorld ==
    ASSUME NEW w, GoodWorld(w)
    PROVE  /\ GoodWorld(Stopping(w))
           /\ Stopping(w).queue = Append(w.queue, Stop)
           /\ Stopping(w).screen = Closed
           /\ Stopping(w).timecode = SaveProgress(w, TRUE).timecode
           /\ Stopping(w).asked = w.asked
<1> DEFINE v == SaveProgress(w, TRUE)
           p == Post(v, Stop)
           a == AbortBuffering(p)
<1>1. GoodWorld(v) /\ v.queue = w.queue /\ v.asked = w.asked
  BY Saved
<1>2. GoodCommand(Stop)
  BY Commands
<1> HIDE DEF v
<1>3. /\ GoodWorld(p) /\ p.queue = Append(w.queue, Stop) /\ p.timecode = v.timecode
      /\ p.asked = w.asked
  BY <1>1, <1>2, Posted
<1> HIDE DEF p
<1>4. /\ GoodWorld(a) /\ a.queue = Append(w.queue, Stop) /\ a.timecode = v.timecode
      /\ a.asked = w.asked /\ a.waits = 0
  BY <1>3, Aborted
<1>5. Stopping(w) = [a EXCEPT !.screen = Closed]
  BY DEF Stopping, v, p
<1>6. GoodScreen(Closed, 0) /\ Closed \in Screen
  BY Positions, States DEF GoodScreen
<1> HIDE DEF a
<1>7. /\ Stopping(w) \in WorldState /\ Stopping(w).screen = Closed
      /\ Stopping(w).queue = a.queue /\ Stopping(w).timecode = a.timecode
      /\ Stopping(w).asked = a.asked /\ Stopping(w).waits = a.waits
  <2>1. a \in WorldState
    BY <1>4 DEF GoodWorld
  <2> QED
    BY <1>5, <1>6, <2>1 DEF WorldState
<1> QED
  BY <1>4, <1>6, <1>7 DEF GoodWorld, v

-----------------------------------------------------------------------------
(***************************************************************************)
(* Every step keeps the types.                                             *)
(***************************************************************************)
LEMMA Worlds ==
    ASSUME NEW s, NEW q, NEW tc, NEW rc, NEW n, NEW a
    PROVE  LET w == [screen |-> s, queue |-> q, timecode |-> tc, recent |-> rc, waits |-> n, asked |-> a]
           IN  GoodWorld(w) <=>
                 /\ s \in Screen /\ q \in Seq(Command) /\ tc \in [File -> Position] /\ rc \in BOOLEAN
                 /\ n \in Nat /\ a \in SUBSET Position /\ GoodScreen(s, n) /\ GoodQueue(q)
  BY DEF GoodWorld, WorldState

LEMMA Became ==
    ASSUME BaseInv, NEW w, GoodWorld(w), Become(w),
           reading' \in Reading, reading'.at # "none" => w.screen.phase = "playing",
           inputs' \in 0..MaxInputs, covered' \in BOOLEAN, looked' \in BOOLEAN
    PROVE  BaseInv'
<1>1. /\ screen' = w.screen /\ queue' = w.queue /\ timecode' = w.timecode /\ recent' = w.recent
      /\ waits' = w.waits /\ asked' = w.asked /\ Len(w.queue) <= MaxQueue
      /\ exo' = exo /\ shown' = shown /\ writes' = writes
  BY DEF Become
<1>2. GoodWorld(World)'
  BY <1>1, Worlds DEF World, GoodWorld, WorldState
<1> QED
  BY <1>1, <1>2 DEF BaseInv, GoodPlayer

LEMMA InputTyped ==
    ASSUME BaseInv, UserInput
    PROVE  BaseInv'
<1>1. GoodWorld(World) /\ reading \in Reading /\ inputs \in 0..MaxInputs /\ covered \in BOOLEAN /\ looked \in BOOLEAN
      /\ MaxInputs \in Nat /\ timecode \in [File -> Position] /\ IsPlaying(World) = (screen.phase = "playing")
      /\ World.screen = screen
  BY ScreenAssumption, Worlds DEF BaseInv, World, IsPlaying
<1>2. ASSUME NEW w, GoodWorld(w), Input(w), covered' \in BOOLEAN PROVE BaseInv'
  <2>1. /\ reading = NotReading /\ inputs < MaxInputs /\ inputs' = inputs + 1 /\ Become(w)
        /\ reading' = reading /\ looked' = looked
    BY <1>2 DEF Input
  <2>2. inputs' \in 0..MaxInputs /\ reading'.at = "none" /\ reading' \in Reading /\ looked' \in BOOLEAN
    BY <1>1, <2>1 DEF NotReading
  <2> QED
    BY <1>2, <2>1, <2>2, Became
<1>3. Answer \subseteq BOOLEAN
  BY DEF Answer
<1>4. ASSUME NEW f \in File, NEW ok \in Answer, Start(f, ok) PROVE BaseInv'
  <2>1. timecode[f] \in Position
    BY <1>1
  <2>2. GoodWorld(BeginLoad(World, f, timecode[f], ok))
    BY <1>1, <1>3, <2>1, Began
  <2> QED
    BY <1>2, <1>4, <2>2 DEF Start
<1>5. ASSUME NEW f \in File, NEW ok \in Answer, Jump(f, ok) PROVE BaseInv'
  <2>1. GoodWorld(JumpToFile(World, f, ok))
    BY <1>1, <1>3, Jumped
  <2> QED
    BY <1>1, <1>2, <1>5, <2>1 DEF Jump, OnPlayer
<1>6. ASSUME NEW to \in Seekable, NEW ok \in Answer, Seek(to) \/ Skip(to, ok) PROVE BaseInv'
  <2>1. to \in Position /\ IsPlaying(World)
    BY <1>1, <1>6, ScreenAssumption DEF Seek, Skip
  <2>2. GoodWorld(SeekAbs(World, to)) /\ GoodWorld(SkipOrNext(World, to, ok))
    BY <1>1, <1>3, <2>1, Sought, Skipped
  <2> QED
    BY <1>1, <1>2, <1>6, <2>2 DEF Seek, Skip, OnPlayer
<1>7. ASSUME NEW way \in {"back", "forward"}, Nudge(way) PROVE BaseInv'
  <2>1. GoodWorld(Nudging(World, way))
    BY <1>1, NudgedWorld
  <2> QED
    BY <1>1, <1>2, <1>7, <2>1 DEF Nudge, Nudging, OnPlayer
<1>8. ASSUME StopPlayback PROVE BaseInv'
  <2>1. GoodWorld(Stopping(World))
    BY <1>1, StoppedWorld
  <2> QED
    BY <1>1, <1>2, <1>8, <2>1 DEF StopPlayback, Stopping, OnPlayer
<1>9. ASSUME Toggle PROVE BaseInv'
  <2>1. GoodWorld(Toggling(World))
    BY <1>1, ToggledWorld
  <2>2. Input(Toggling(World)) /\ covered' = covered
    BY <1>1, <1>9 DEF Toggle, Toggling, OnPlayer
  <2> QED
    BY <1>1, <1>2, <2>1, <2>2
<1>10. ASSUME Cover \/ Uncover PROVE BaseInv'
  BY <1>1, <1>2, <1>10 DEF Cover, Uncover
<1> QED
  BY <1>4, <1>5, <1>6, <1>7, <1>8, <1>9, <1>10 DEF UserInput

(* What a tick that reads `flags` and `position` sees. *)
Seen == [flags |-> reading.flags, position |-> reading.position,
         duration |-> shown.duration, failed |-> shown.failed]

LEMMA TickTyped ==
    ASSUME BaseInv, Tick
    PROVE  BaseInv'
<1>1. /\ GoodWorld(World) /\ reading \in Reading /\ inputs \in 0..MaxInputs /\ covered \in BOOLEAN /\ looked \in BOOLEAN
      /\ shown \in Snapshot /\ World.screen = screen
      /\ reading.at # "none" => screen.phase = "playing"
  BY DEF BaseInv, World
<1>2. Answer \subseteq BOOLEAN
  BY DEF Answer
<1>3. CASE TickFlags
  <2>1. PICK ok \in Answer : IsPlaying(PollBuffering(World, ok)) /\ Become(PollBuffering(World, ok))
    BY <1>3 DEF TickFlags
  <2>2. GoodWorld(PollBuffering(World, ok))
    BY <1>1, <1>2, <2>1, Polled
  <2>3. reading' \in Reading /\ inputs' \in 0..MaxInputs /\ covered' \in BOOLEAN /\ looked' \in BOOLEAN
    BY <1>1, <1>3, Positions DEF TickFlags, Reading, Snapshot
  <2> QED
    BY <2>1, <2>2, <2>3, Became DEF IsPlaying
<1>4. CASE TickPosition
  <2>1. reading' \in Reading
    BY <1>1, <1>4 DEF TickPosition, Reading, Snapshot
  <2>2. UNCHANGED <<queue, exo, shown, writes, screen, timecode, recent, waits, inputs, covered, looked, asked>>
    BY <1>4 DEF TickPosition, playerVars
  <2>3. screen.phase = "playing"
    BY <1>1, <1>4 DEF TickPosition
  <2> QED
    BY <2>1, <2>2, <2>3 DEF BaseInv, GoodPlayer, World
<1>5. CASE TickRest
  <2>1. PICK ok \in Answer : Become(Follow(World, Seen, ok))
    BY <1>5 DEF TickRest, Seen
  <2>2. Seen \in Snapshot
    BY <1>1 DEF Seen, Reading, Snapshot
  <2>3. IsPlaying(World)
    BY <1>1, <1>5 DEF TickRest, IsPlaying
  <2>4. GoodWorld(Follow(World, Seen, ok))
    BY <1>1, <1>2, <2>2, <2>3, Followed
  <2>5. /\ reading' \in Reading /\ reading'.at = "none" /\ inputs' \in 0..MaxInputs
        /\ covered' \in BOOLEAN /\ looked' \in BOOLEAN
    BY <1>1, <1>5, Positions DEF TickRest, Reading, NotReading
  <2> QED
    BY <2>1, <2>4, <2>5, Became
<1> QED
  BY <1>3, <1>4, <1>5 DEF Tick

(* The wait of the file that is waited for ends; nobody else's can. *)
LEMMA WaitTyped ==
    ASSUME BaseInv, NEW result \in {"ready", "failed"}, WaitEnds(result)
    PROVE  /\ BaseInv'
           /\ screen.phase = "buffering" /\ screen'.phase = "buffering" /\ screen'.file = screen.file
           /\ UNCHANGED <<queue, exo, shown, writes, reading, asked, timecode>>
<1>1. /\ GoodScreen(screen, waits) /\ screen \in Screen /\ waits \in Nat
      /\ queue \in Seq(Command) /\ timecode \in [File -> Position] /\ recent \in BOOLEAN
      /\ asked \in SUBSET Position /\ GoodQueue(queue)
  BY Worlds DEF BaseInv, World
<1>2. waits = 1 /\ screen.phase = "buffering" /\ screen.wait = "running"
  BY <1>1 DEF WaitEnds, GoodScreen
<1>3. /\ UNCHANGED <<queue, exo, shown, writes, timecode, recent, reading, inputs, covered, looked, asked>>
      /\ waits' = 0 /\ screen' = [screen EXCEPT !.wait = result]
  BY <1>1, <1>2 DEF WaitEnds, playerVars, Screen
<1>4. /\ screen' \in Screen /\ screen'.phase = "buffering" /\ screen'.file = screen.file
      /\ screen'.wait = result
  BY <1>1, <1>2, <1>3 DEF Screen
<1>5. GoodScreen(screen', 0)
  BY <1>1, <1>2, <1>4 DEF GoodScreen
<1>6. GoodWorld(World)'
  BY <1>1, <1>3, <1>4, <1>5, Worlds DEF World
<1>7. reading.at = "none"
  BY <1>2 DEF BaseInv
<1> QED
  BY <1>2, <1>3, <1>4, <1>6, <1>7 DEF BaseInv, GoodPlayer

LEMMA ElapseTyped ==
    ASSUME BaseInv, Elapse
    PROVE  BaseInv'
<1>1. /\ UNCHANGED <<queue, exo, shown, writes, screen, timecode, waits, reading, inputs, covered, looked, asked>>
      /\ recent' = FALSE
  BY DEF Elapse, playerVars
<1>2. GoodWorld(World)'
  BY ZenonT(30), <1>1, Worlds DEF BaseInv, World
<1> QED
  BY <1>1, <1>2 DEF BaseInv, GoodPlayer

(* Only the player and its fields move. *)
LEMMA PlayerTyped ==
    ASSUME BaseInv, UNCHANGED <<screen, timecode, recent, waits, reading, inputs, covered, asked>>,
           looked' \in BOOLEAN, GoodQueue(queue'), Len(queue') <= MaxQueue,
           GoodPlayer(exo'), shown' \in Snapshot, writes' \in Seq(Written)
    PROVE  BaseInv'
<1>1. /\ GoodScreen(screen, waits) /\ screen \in Screen /\ waits \in Nat
      /\ timecode \in [File -> Position] /\ recent \in BOOLEAN /\ asked \in SUBSET Position
  BY Worlds DEF BaseInv, World
<1>2. queue' \in Seq(Command)
  BY DEF GoodQueue
<1>3. GoodWorld(World)'
  BY <1>1, <1>2, Worlds DEF World
<1> QED
  BY <1>3 DEF BaseInv

(* A command is taken from the head of the queue. *)
LEMMA Ran ==
    ASSUME BaseInv, NEW op, Runs(op)
    PROVE  /\ GoodQueue(queue) /\ Len(queue) \in Nat /\ Len(queue) > 0
           /\ GoodCommand(queue[1]) /\ Head(queue) = queue[1] /\ queue[1].op = op
           /\ queue' = Tail(queue) /\ GoodQueue(queue') /\ Len(queue') = Len(queue) - 1
           /\ \A i \in 1..Len(queue') : queue'[i] = queue[i + 1]
           /\ Len(queue') <= MaxQueue /\ writes = <<>>
<1>1. GoodQueue(queue) /\ queue # <<>> /\ Len(queue) <= MaxQueue /\ queue \in Seq(Command)
  BY Worlds DEF BaseInv, World, Runs
<1>2. /\ queue' = Tail(queue) /\ Tail(queue) \in Seq(Command) /\ Len(Tail(queue)) = Len(queue) - 1
      /\ \A i \in 1..Len(Tail(queue)) : Tail(queue)[i] = queue[i + 1]
      /\ Head(queue) = queue[1] /\ Len(queue) \in Nat /\ Len(queue) > 0
  BY <1>1 DEF Runs
<1>3. GoodQueue(queue')
  BY <1>1, <1>2 DEF GoodQueue
<1>4. GoodCommand(queue[1]) /\ Len(queue') <= MaxQueue
  BY <1>1, <1>2, PlayerAssumption DEF GoodQueue
<1> QED
  BY <1>1, <1>2, <1>3, <1>4 DEF Runs

(* A seek stays in the file. *)
LEMMA SeekTarget ==
    ASSUME NEW e, GoodPlayer(e), e.file # NoFile, NEW cmd, GoodCommand(cmd), cmd.op \in Seeks
    PROVE  /\ e.file \in File /\ Target(cmd, e) \in Position /\ Target(cmd, e) <= Length[e.file]
           /\ cmd.op = "seek" /\ cmd.at <= Length[e.file] => Target(cmd, e) = cmd.at
<1>1. e.file \in File /\ e.at \in Nat /\ cmd.at \in Nat /\ Length[e.file] \in Nat
  BY Positions DEF GoodPlayer, Loaded, GoodCommand, Command
<1>2. \A n \in Nat : n <= Length[e.file] => n \in Position
  BY <1>1, Positions
<1> DEFINE to == CASE cmd.op = "seek" -> cmd.at
                   [] cmd.op = "back" -> IF e.at = 0 THEN 0 ELSE e.at - 1
                   [] cmd.op = "forward" -> e.at + 1
<1>3. to \in Nat /\ (cmd.op = "seek" => to = cmd.at)
  BY <1>1 DEF Seeks
<1>4. Target(cmd, e) = IF to > Length[e.file] THEN Length[e.file] ELSE to
  BY DEF Target
<1> HIDE DEF to
<1> QED
  BY <1>1, <1>2, <1>3, <1>4

LEMMA MovedTyped ==
    ASSUME NEW e, GoodPlayer(e), e.file # NoFile, NEW to \in Position,
           NEW st \in State, st # "idle"
    PROVE  /\ GoodPlayer(Moved(e, to, st)) /\ Moved(e, to, st).file = e.file
           /\ Moved(e, to, st).at = to /\ Moved(e, to, st).state = st
           /\ Moved(e, to, st).playing = e.playing
           /\ Moved(e, to, st).early = (e.early \/ (st \in OpenStates /\ to < TailStart(Length[e.file])))
<1> DEFINE early == e.early \/ (st \in OpenStates /\ to < TailStart(Length[e.file]))
<1>1. early \in BOOLEAN /\ e \in Loaded
  BY DEF GoodPlayer, Loaded
<1>2. Moved(e, to, st) = [e EXCEPT !.at = to, !.state = st, !.early = early]
  BY <1>1 DEF Moved, Loaded
<1> HIDE DEF early
<1>3. /\ Moved(e, to, st) \in Loaded /\ Moved(e, to, st).file = e.file
      /\ Moved(e, to, st).at = to /\ Moved(e, to, st).state = st
      /\ Moved(e, to, st).playing = e.playing /\ Moved(e, to, st).early = early
  BY <1>1, <1>2 DEF Loaded
<1> QED
  BY <1>3 DEF GoodPlayer, early

LEMMA MainThreadTyped ==
    ASSUME BaseInv, MainThreadRuns
    PROVE  BaseInv'
<1>1. /\ GoodQueue(queue) /\ queue \in Seq(Command) /\ Len(queue) <= MaxQueue
      /\ GoodPlayer(exo) /\ shown \in Snapshot
      /\ writes \in Seq(Written) /\ looked \in BOOLEAN
  BY Worlds DEF BaseInv, World
<1>2. UNCHANGED <<screen, timecode, recent, waits, reading, inputs, covered, looked, asked>>
  BY DEF MainThreadRuns, screenVars
<1>3. \A failed \in BOOLEAN : Shows(exo, failed) \in Snapshot
  BY <1>1, ShowsTyped
<1>4. Cleared \in Snapshot /\ shown.failed \in BOOLEAN
  BY <1>1, ShowsTyped DEF Snapshot
<1>5. CASE Write
  <2>1. Head(writes) \in Written /\ Tail(writes) \in Seq(Written)
    BY <1>1, <1>5 DEF Write
  <2> DEFINE h == Head(writes)
  <2>2. shown' = [shown EXCEPT ![h.field] = h.value] /\ writes' = Tail(writes) /\ UNCHANGED <<queue, exo>>
    BY <1>5 DEF Write
  <2>3. GoodWrite(h) /\ h.field \in Fields
    BY <2>1 DEF Written, GoodWrite
  <2> HIDE DEF h
  <2>4. ASSUME h.field = "position" PROVE shown' \in Snapshot
    <3>1. shown' = [shown EXCEPT !.position = h.value]
      BY <2>2, <2>4
    <3> QED
      BY <1>1, <2>3, <2>4, <3>1 DEF GoodWrite, Snapshot
  <2>5. ASSUME h.field = "duration" PROVE shown' \in Snapshot
    <3>1. shown' = [shown EXCEPT !.duration = h.value]
      BY <2>2, <2>5
    <3> QED
      BY <1>1, <2>3, <2>5, <3>1 DEF GoodWrite, Snapshot
  <2>6. ASSUME h.field = "flags" PROVE shown' \in Snapshot
    <3>1. shown' = [shown EXCEPT !.flags = h.value]
      BY <2>2, <2>6
    <3> QED
      BY <1>1, <2>3, <2>6, <3>1 DEF GoodWrite, Snapshot
  <2>7. ASSUME h.field = "failed" PROVE shown' \in Snapshot
    <3>1. shown' = [shown EXCEPT !.failed = h.value]
      BY <2>2, <2>7
    <3> QED
      BY <1>1, <2>3, <2>7, <3>1 DEF GoodWrite, Snapshot
  <2>8. shown' \in Snapshot
    BY <2>3, <2>4, <2>5, <2>6, <2>7 DEF Fields
  <2> QED
    BY <1>1, <1>2, <2>1, <2>2, <2>8, PlayerTyped
<1>6. CASE RunLoad
  <2>1. Runs("load") /\ Put(Cleared)
    BY <1>6 DEF RunLoad
  <2>2. GoodQueue(queue') /\ Len(queue') <= MaxQueue /\ GoodCommand(queue[1])
        /\ Head(queue) = queue[1] /\ queue[1].op = "load"
    BY <2>1, Ran
  <2>3. queue[1].file \in File /\ queue[1].at \in Position
    BY <2>2 DEF GoodCommand, Command
  <2>4. GoodPlayer(exo')
    BY <1>6, <2>2, <2>3 DEF RunLoad, GoodPlayer, Loaded, State, OpenStates, FailedStates, File, NoFile
  <2>5. shown' \in Snapshot /\ writes' \in Seq(Written)
    BY <1>1, <1>4, <2>1, PutTyped
  <2> QED
    BY <1>1, <1>2, <2>2, <2>4, <2>5, PlayerTyped
<1>7. CASE RunStop
  <2>1. Runs("stop") /\ Put(Cleared) /\ exo' = Idle
    BY <1>7 DEF RunStop
  <2>2. GoodQueue(queue') /\ Len(queue') <= MaxQueue
    BY <2>1, Ran
  <2>3. GoodPlayer(exo')
    BY <2>1, Positions DEF Idle, GoodPlayer, Loaded, State, OpenStates, FailedStates
  <2>4. shown' \in Snapshot /\ writes' \in Seq(Written)
    BY <1>1, <1>4, <2>1, PutTyped
  <2> QED
    BY <1>1, <1>2, <2>2, <2>3, <2>4, PlayerTyped
<1>8. CASE RunSeek
  <2>1. PICK op \in Seeks : Runs(op)
    BY <1>8 DEF RunSeek
  <2>2. GoodQueue(queue') /\ Len(queue') <= MaxQueue /\ GoodCommand(queue[1])
        /\ Head(queue) = queue[1] /\ queue[1].op \in Seeks
    BY <2>1, Ran
  <2>3. CASE exo.file = NoFile
    <3>1. UNCHANGED <<exo, shown, writes>>
      BY <1>8, <2>3 DEF RunSeek
    <3> QED
      BY <1>1, <1>2, <2>2, <3>1, PlayerTyped
  <2>4. CASE exo.file # NoFile
    <3> DEFINE st == IF exo.state = "ended" THEN "ready" ELSE exo.state
               e == Moved(exo, Target(queue[1], exo), st)
    <3>1. exo' = e /\ Put(Shows(e, shown.failed))
      BY <1>8, <2>2, <2>4 DEF RunSeek
    <3>2. Target(queue[1], exo) \in Position
      BY <1>1, <2>2, <2>4, SeekTarget
    <3>3. st \in State /\ st # "idle" /\ exo.file \in File
      BY <1>1, <2>4 DEF GoodPlayer, Loaded, State, OpenStates, FailedStates
    <3> HIDE DEF st
    <3>4. GoodPlayer(e)
      BY <1>1, <2>4, <3>2, <3>3, MovedTyped
    <3> HIDE DEF e
    <3>5. Shows(e, shown.failed) \in Snapshot
      BY <1>4, <3>4, ShowsTyped
    <3>6. shown' \in Snapshot /\ writes' \in Seq(Written)
      BY <1>1, <3>1, <3>5, PutTyped
    <3> QED
      BY <1>1, <1>2, <2>2, <3>1, <3>4, <3>6, PlayerTyped
  <2> QED
    BY <2>3, <2>4
<1>9. CASE RunPause
  <2>1. PICK op : Runs(op)
    BY <1>9 DEF RunPause
  <2>2. GoodQueue(queue') /\ Len(queue') <= MaxQueue /\ Head(queue) = queue[1]
    BY <2>1, Ran
  <2>3. CASE exo.file = NoFile
    <3>1. UNCHANGED <<exo, shown, writes>>
      BY <1>9, <2>3 DEF RunPause
    <3> QED
      BY <1>1, <1>2, <2>2, <3>1, PlayerTyped
  <2>4. CASE exo.file # NoFile
    <3> DEFINE on == Head(queue).op = "resume"
               e == [exo EXCEPT !.playing = on]
    <3>1. exo' = e /\ Put(Shows(e, shown.failed))
      BY <1>9, <2>4 DEF RunPause
    <3>2. on \in BOOLEAN
      OBVIOUS
    <3> HIDE DEF on
    <3>3. GoodPlayer(e)
      BY <1>1, <3>2 DEF GoodPlayer, Loaded
    <3> HIDE DEF e
    <3>4. Shows(e, shown.failed) \in Snapshot
      BY <1>4, <3>3, ShowsTyped
    <3>5. shown' \in Snapshot /\ writes' \in Seq(Written)
      BY <1>1, <3>1, <3>4, PutTyped
    <3> QED
      BY <1>1, <1>2, <2>2, <3>1, <3>3, <3>5, PlayerTyped
  <2> QED
    BY <2>3, <2>4
<1>10. CASE Publish
  <2>1. Put(Shows(exo, shown.failed)) /\ UNCHANGED <<queue, exo>>
    BY <1>10 DEF Publish
  <2>2. shown' \in Snapshot /\ writes' \in Seq(Written)
    BY <1>1, <1>3, <1>4, <2>1, PutTyped
  <2> QED
    BY <1>1, <1>2, <2>1, <2>2, PlayerTyped
<1> QED
  BY <1>5, <1>6, <1>7, <1>8, <1>9, <1>10 DEF MainThreadRuns, MainThread

LEMMA PlaybackTyped ==
    ASSUME BaseInv, Playback
    PROVE  BaseInv'
<1>1. /\ GoodQueue(queue) /\ Len(queue) <= MaxQueue /\ GoodPlayer(exo)
      /\ shown \in Snapshot /\ writes \in Seq(Written)
  BY Worlds DEF BaseInv, World
<1>2. /\ UNCHANGED <<screen, timecode, recent, waits, reading, inputs, covered, asked>>
      /\ looked' \in BOOLEAN
  BY DEF Playback
<1>3. CASE Opened
  <2>1. /\ exo' = Moved(exo, exo.at, "ready") /\ exo.file # NoFile /\ exo.at \in Position
        /\ UNCHANGED <<queue, shown, writes>>
    BY <1>1, <1>3 DEF Opened, GoodPlayer, Loaded
  <2>2. GoodPlayer(exo')
    BY <1>1, <2>1, MovedTyped DEF State, OpenStates, FailedStates
  <2> QED
    BY <1>1, <1>2, <2>1, <2>2, PlayerTyped
<1>4. CASE Fails
  <2>1. /\ exo' = [exo EXCEPT !.state = IF @ = "opening" THEN "failed" ELSE "broken"]
        /\ exo.state \in {"opening", "ready"}
        /\ shown' = [shown EXCEPT !.failed = TRUE] /\ UNCHANGED <<queue, writes>>
    BY <1>4 DEF Fails
  <2>2. GoodPlayer(exo')
    BY <1>1, <2>1 DEF GoodPlayer, Loaded, State, OpenStates, FailedStates
  <2>3. shown' \in Snapshot
    BY <1>1, <2>1 DEF Snapshot
  <2> QED
    BY <1>1, <1>2, <2>1, <2>2, <2>3, PlayerTyped
<1>5. CASE PlaysOn
  <2>1. /\ exo.state = "ready" /\ exo.file \in File /\ exo.file # NoFile /\ exo.at \in Nat
        /\ UNCHANGED <<queue, shown, writes>>
    BY <1>1, <1>5, Positions DEF PlaysOn, GoodPlayer, Loaded
  <2>2. GoodPlayer(exo')
    <3>1. CASE exo.at < Length[exo.file]
      <4>1. exo.at + 1 \in Position
        BY <2>1, <3>1, Positions
      <4>2. exo' = Moved(exo, exo.at + 1, "ready")
        BY <1>5, <3>1 DEF PlaysOn
      <4> QED
        BY <1>1, <2>1, <4>1, <4>2, MovedTyped DEF State, OpenStates, FailedStates
    <3>2. CASE ~ (exo.at < Length[exo.file])
      <4>1. exo' = [exo EXCEPT !.state = "ended"]
        BY <1>5, <3>2 DEF PlaysOn
      <4> QED
        BY <1>1, <2>1, <4>1 DEF GoodPlayer, Loaded, State, OpenStates, FailedStates
    <3> QED
      BY <3>1, <3>2
  <2> QED
    BY <1>1, <1>2, <2>1, <2>2, PlayerTyped
<1> QED
  BY <1>3, <1>4, <1>5 DEF Playback

LEMMA BaseInit == Init => BaseInv
<1> SUFFICES ASSUME Init PROVE BaseInv
  OBVIOUS
<1>1. /\ queue = <<>> /\ exo = Idle /\ shown = Cleared /\ writes = <<>> /\ screen = Closed
      /\ timecode \in Resume /\ recent = FALSE /\ waits = 0 /\ reading = NotReading
      /\ inputs = 0 /\ covered = FALSE /\ looked = FALSE /\ asked = {}
  BY DEF Init, PlayerInit
<1>2. timecode \in [File -> Position]
  <2>1. timecode \in [File -> Nat] /\ \A f \in File : timecode[f] <= Length[f]
    BY <1>1, ScreenAssumption
  <2>2. \A f \in File : timecode[f] \in 0..Length[f] /\ 0..Length[f] \subseteq Position
    BY <2>1, Positions
  <2> QED
    BY <2>1, <2>2
<1>3. GoodScreen(Closed, 0) /\ Closed \in Screen
  BY Positions, States DEF GoodScreen
<1>4. GoodQueue(<<>>) /\ <<>> \in Seq(Command)
  BY DEF GoodQueue
<1>5. GoodWorld(World)
  BY <1>1, <1>2, <1>3, <1>4, Worlds DEF World
<1>6. GoodPlayer(exo) /\ shown \in Snapshot
  BY <1>1, Positions DEF GoodPlayer, Loaded, Idle, State, OpenStates, FailedStates, Cleared, Snapshot
<1>7. reading \in Reading /\ reading.at = "none" /\ inputs \in 0..MaxInputs
  BY <1>1, ScreenAssumption, Positions DEF Reading, NotReading
<1>8. Len(queue) <= MaxQueue /\ writes \in Seq(Written)
  BY <1>1, PlayerAssumption
<1> QED
  BY <1>1, <1>5, <1>6, <1>7, <1>8 DEF BaseInv

LEMMA BaseStep == BaseInv /\ [Next]_vars => BaseInv'
<1> SUFFICES ASSUME BaseInv, [Next]_vars PROVE BaseInv'
  OBVIOUS
<1>1. CASE UNCHANGED vars
  BY <1>1, PlayerTyped DEF vars, playerVars, screenVars, BaseInv, GoodPlayer, World
<1>2. CASE Next
  BY <1>2, TickTyped, InputTyped, WaitTyped, ElapseTyped, MainThreadTyped, PlaybackTyped DEF Next
<1> QED
  BY <1>1, <1>2

LEMMA BaseAlways == Spec => []BaseInv
  BY BaseInit, BaseStep, PTL DEF Spec

(***************************************************************************)
(* Whatever the two threads and the user do, every field of the screen, of *)
(* the player and of what is on its way between them has its type: no      *)
(* position lies outside the files, no more commands wait than the bound.  *)
(***************************************************************************)
THEOREM TypeCorrect == Spec => []TypeOK
  BY BaseAlways, BaseIsTyped, PTL

(***************************************************************************)
(* abort_buffering: on every way out of Buffering (leaving the player, the *)
(* next file, the end of the wait) the task that polls TorrServer ends.    *)
(***************************************************************************)
THEOREM NoWaitIsStale == Spec => []NoStaleWait
  BY BaseAlways, BaseIsTyped, PTL

-----------------------------------------------------------------------------
(***************************************************************************)
(* When the main thread keeps up and the player takes what it is given:    *)
(* what the player will have once it has run what is posted to it.         *)
(***************************************************************************)
KeepsUp == Prompt /\ ~MayRefuse

IsSwitch(cmd) == cmd.op \in {"load", "stop"}

(* Nothing posted after the i-th command changes the file. *)
NoneAfter(q, i) == \A j \in 1..Len(q) : j > i => ~IsSwitch(q[j])
NoSwitch(q) == NoneAfter(q, 0)

WillHave(q, have, f) ==
    /\ NoSwitch(q) => have = f
    /\ \A i \in 1..Len(q) : IsSwitch(q[i]) /\ NoneAfter(q, i) => q[i].file = f

LEMMA WillHaveNow ==
    ASSUME NEW have, NEW f
    PROVE  NoSwitch(<<>>) /\ (WillHave(<<>>, have, f) <=> have = f)
  BY DEF NoSwitch, NoneAfter, WillHave

LEMMA WillHaveKept ==
    ASSUME NEW q, GoodQueue(q), NEW cmd, GoodCommand(cmd), ~IsSwitch(cmd)
    PROVE  /\ NoSwitch(q) => NoSwitch(Append(q, cmd))
           /\ \A have, f : WillHave(q, have, f) => WillHave(Append(q, cmd), have, f)
<1> DEFINE r == Append(q, cmd)
<1>1. /\ Len(q) \in Nat /\ Len(r) = Len(q) + 1 /\ r[Len(q) + 1] = cmd
      /\ \A i \in 1..Len(q) : r[i] = q[i]
  BY DEF GoodQueue, GoodCommand
<1> HIDE DEF r
<1>2. \A i \in 0..Len(q) : NoneAfter(q, i) <=> NoneAfter(r, i)
  BY <1>1 DEF NoneAfter
<1>3. NoSwitch(q) <=> NoSwitch(r)
  BY <1>1, <1>2 DEF NoSwitch
<1>4. \A i \in 1..Len(r) : IsSwitch(r[i]) => i \in 1..Len(q) /\ r[i] = q[i]
  BY <1>1
<1>5. \A have, f : WillHave(q, have, f) => WillHave(r, have, f)
  BY <1>1, <1>2, <1>3, <1>4 DEF WillHave
<1> QED
  BY <1>3, <1>5 DEF r

LEMMA WillHaveNew ==
    ASSUME NEW q, GoodQueue(q), NEW cmd, GoodCommand(cmd), IsSwitch(cmd)
    PROVE  \A have : WillHave(Append(q, cmd), have, cmd.file)
<1> DEFINE r == Append(q, cmd)
<1>1. Len(q) \in Nat /\ Len(r) = Len(q) + 1 /\ r[Len(q) + 1] = cmd
  BY DEF GoodQueue, GoodCommand
<1> HIDE DEF r
<1>2. \A i \in 0..Len(q) : ~NoneAfter(r, i)
  BY <1>1 DEF NoneAfter
<1>3. ~NoSwitch(r) /\ \A i \in 1..Len(r) : NoneAfter(r, i) => r[i] = cmd
  BY <1>1, <1>2 DEF NoSwitch
<1> QED
  BY <1>3 DEF WillHave, r

(* The first command runs: `r` is left. *)
LEMMA WillHaveRest ==
    ASSUME NEW q, GoodQueue(q), Len(q) > 0, NEW r, Len(r) = Len(q) - 1,
           \A i \in 1..Len(r) : r[i] = q[i + 1]
    PROVE  /\ IsSwitch(q[1]) =>
                ~NoSwitch(q) /\ \A have, f : WillHave(q, have, f) => WillHave(r, q[1].file, f)
           /\ ~IsSwitch(q[1]) =>
                /\ NoSwitch(q) => NoSwitch(r)
                /\ \A have, f : WillHave(q, have, f) => WillHave(r, have, f)
<1>1. Len(q) \in Nat /\ Len(r) \in Nat /\ \A j \in 2..Len(q) : j - 1 \in 1..Len(r) /\ q[j] = r[j - 1]
  BY DEF GoodQueue
<1>2. \A i \in 0..Len(r) : NoneAfter(r, i) => NoneAfter(q, i + 1)
  <2> SUFFICES ASSUME NEW i \in 0..Len(r), NoneAfter(r, i), NEW j \in 1..Len(q), j > i + 1
               PROVE  ~IsSwitch(q[j])
    BY DEF NoneAfter
  <2>1. j \in 2..Len(q) /\ j - 1 \in 1..Len(r) /\ j - 1 > i /\ q[j] = r[j - 1]
    BY <1>1
  <2> QED
    BY <2>1 DEF NoneAfter
<1>3. NoSwitch(r) => NoneAfter(q, 1)
  BY <1>1, <1>2 DEF NoSwitch
<1>4. ASSUME NEW have, NEW f, WillHave(q, have, f)
      PROVE  \A i \in 1..Len(r) : IsSwitch(r[i]) /\ NoneAfter(r, i) => r[i].file = f
  <2> SUFFICES ASSUME NEW i \in 1..Len(r), IsSwitch(r[i]), NoneAfter(r, i) PROVE r[i].file = f
    OBVIOUS
  <2>1. i + 1 \in 1..Len(q) /\ r[i] = q[i + 1] /\ NoneAfter(q, i + 1)
    BY <1>1, <1>2
  <2> QED
    BY <1>4, <2>1 DEF WillHave
<1>5. CASE IsSwitch(q[1])
  <2>1. ~NoSwitch(q) /\ 1 \in 1..Len(q)
    BY <1>1, <1>5 DEF NoSwitch, NoneAfter
  <2>2. ASSUME NEW have, NEW f, WillHave(q, have, f) PROVE WillHave(r, q[1].file, f)
    <3>1. NoSwitch(r) => q[1].file = f
      BY <1>3, <1>5, <2>1, <2>2 DEF WillHave
    <3> QED
      BY <1>4, <2>2, <3>1 DEF WillHave
  <2> QED
    BY <1>5, <2>1, <2>2
<1>6. CASE ~IsSwitch(q[1])
  <2>1. NoSwitch(q) <=> NoSwitch(r)
    <3>1. NoneAfter(q, 1) => NoneAfter(q, 0)
      BY <1>6 DEF NoneAfter
    <3>2. NoneAfter(q, 0) => NoneAfter(r, 0)
      BY <1>1 DEF NoneAfter
    <3> QED
      BY <1>3, <3>1, <3>2 DEF NoSwitch
  <2>2. ASSUME NEW have, NEW f, WillHave(q, have, f) PROVE WillHave(r, have, f)
    BY <1>4, <2>1, <2>2 DEF WillHave
  <2> QED
    BY <1>6, <2>1, <2>2
<1> QED
  BY <1>5, <1>6

-----------------------------------------------------------------------------
(***************************************************************************)
(* What the screen knows of the player then.                               *)
(***************************************************************************)
PlayerFacts(e) ==
    /\ e.state \in {"ready", "broken"} /\ e.at < TailStart(Length[e.file]) => e.early
    /\ e.state = "ended" => e.at >= Length[e.file]

(* A field that is `now` and has the writes `ws` to come will be `value`, *)
(* or stays it all the time.                                               *)
WillBe(ws, field, now, value) ==
    /\ \A i \in 1..Len(ws) : ws[i].field = field => ws[i].value = value
    /\ (\A i \in 1..Len(ws) : ws[i].field # field) => now = value

Stays(ws, field, now, value) ==
    now = value /\ \A i \in 1..Len(ws) : ws[i].field = field => ws[i].value = value

ShownFacts ==
    /\ exo.file = NoFile => /\ WillBe(writes, "duration", shown.duration, 0)
                            /\ WillBe(writes, "flags", shown.flags, {"paused"})
    /\ exo.state \notin FailedStates => WillBe(writes, "failed", shown.failed, FALSE)

(* The player will have the file on screen, or none after a preload that   *)
(* failed; `failed` and `played` are never of another file.                *)
Matches(s, q, e) ==
    /\ s.phase # "playing" => WillHave(q, e.file, NoFile)
    /\ s.phase = "playing" =>
         /\ WillHave(q, e.file, s.file) \/ (s.failed /\ WillHave(q, e.file, NoFile))
         /\ s.failed => NoSwitch(q) /\ (e.file = NoFile \/ e.state \in FailedStates)
         /\ s.played => NoSwitch(q) /\ e.file = s.file /\ e.early /\ s.checked

(* A tick that loads nothing: nobody moves until it is over. *)
Quiet ==
    /\ UpToDate
    /\ reading.flags = shown.flags
    /\ reading.at = "duration" => reading.position = shown.position

(* A tick that has just loaded a file: nothing of it has opened. *)
Fresh ==
    /\ exo.file = NoFile \/ exo.state = "opening"
    /\ \A i \in 1..Len(queue) : queue[i].op = "load"
    /\ "ended" \notin reading.flags
    /\ Stays(writes, "duration", shown.duration, 0)
    /\ Stays(writes, "failed", shown.failed, FALSE)

TickFacts == reading.at # "none" => Quiet \/ Fresh

PromptInv ==
    /\ BaseInv
    /\ PlayerFacts(exo)
    /\ ShownFacts
    /\ Matches(screen, queue, exo)
    /\ TickFacts

-----------------------------------------------------------------------------
(* A command that keeps the file keeps the match. *)
LEMMA MatchesKept ==
    ASSUME NEW s, NEW q, NEW e, Matches(s, q, e), NEW t, SameCourse(t, s)
    PROVE  /\ Matches(t, q, e)
           /\ \A cmd : GoodQueue(q) /\ GoodCommand(cmd) /\ ~IsSwitch(cmd)
                         => Matches(t, Append(q, cmd), e)
<1>1. Matches(t, q, e)
  BY DEF Matches, SameCourse
<1>2. ASSUME NEW cmd, GoodQueue(q), GoodCommand(cmd), ~IsSwitch(cmd)
      PROVE  Matches(t, Append(q, cmd), e)
  <2>1. /\ NoSwitch(q) => NoSwitch(Append(q, cmd))
        /\ \A have, f : WillHave(q, have, f) => WillHave(Append(q, cmd), have, f)
    BY <1>2, WillHaveKept
  <2> QED
    BY <1>1, <2>1 DEF Matches
<1> QED
  BY <1>1, <1>2

LEMMA MatchesBegun ==
    ASSUME NEW w, GoodWorld(w), NEW f \in File, NEW start \in Position
    PROVE  \A e : Matches(BeginLoad(w, f, start, TRUE).screen,
                          BeginLoad(w, f, start, TRUE).queue, e)
<1> DEFINE v == BeginLoad(w, f, start, TRUE)
<1>1. /\ WaitPreload => v.screen = Buffering(f, start) /\ v.queue = Append(w.queue, Stop)
      /\ ~WaitPreload => /\ IsFresh(v.screen, f, start) /\ v.screen.failed = FALSE
                         /\ v.queue = Append(w.queue, Load(f, start))
  <2>1. \A ok \in BOOLEAN :
          /\ WaitPreload =>
               /\ BeginLoad(w, f, start, ok).screen = Buffering(f, start)
               /\ BeginLoad(w, f, start, ok).queue = Append(w.queue, Stop)
          /\ ~WaitPreload =>
               /\ IsFresh(BeginLoad(w, f, start, ok).screen, f, start)
               /\ BeginLoad(w, f, start, ok).screen.failed = ~ok
               /\ ok => BeginLoad(w, f, start, ok).queue = Append(w.queue, Load(f, start))
    BY Began
  <2> QED
    BY <2>1
<1> HIDE DEF v
<1>2. GoodQueue(w.queue)
  BY DEF GoodWorld
<1>3. CASE WaitPreload
  <2>1. GoodCommand(Stop) /\ IsSwitch(Stop) /\ Stop.file = NoFile
    BY Commands DEF IsSwitch
  <2>2. \A have : WillHave(Append(w.queue, Stop), have, NoFile)
    BY <1>2, <2>1, WillHaveNew
  <2>3. v.screen.phase = "buffering" /\ v.queue = Append(w.queue, Stop)
    BY <1>1, <1>3, States
  <2>4. \A e : Matches(v.screen, v.queue, e)
    BY <2>2, <2>3 DEF Matches
  <2> QED
    BY <2>4 DEF v
<1>4. CASE ~WaitPreload
  <2>1. GoodCommand(Load(f, start)) /\ IsSwitch(Load(f, start)) /\ Load(f, start).file = f
    BY Commands DEF IsSwitch
  <2>2. \A have : WillHave(Append(w.queue, Load(f, start)), have, f)
    BY <1>2, <2>1, WillHaveNew
  <2>3. \A e : Matches(v.screen, v.queue, e)
    BY <1>1, <1>4, <2>2 DEF Matches, IsFresh
  <2> QED
    BY <2>3 DEF v
<1> QED
  BY <1>3, <1>4

LEMMA MatchesJumped ==
    ASSUME NEW w, GoodWorld(w), NEW f \in File, NEW e, Matches(w.screen, w.queue, e)
    PROVE  Matches(JumpToFile(w, f, TRUE).screen, JumpToFile(w, f, TRUE).queue, e)
<1> DEFINE a == SaveProgress(w, TRUE)
<1>1. /\ GoodWorld(a) /\ a.timecode[f] \in Position
      /\ f = w.screen.file => JumpToFile(w, f, TRUE) = a
      /\ f # w.screen.file => JumpToFile(w, f, TRUE) = BeginLoad(a, f, a.timecode[f], TRUE)
  BY Jumped
<1>2. a.screen = w.screen /\ a.queue = w.queue
  BY Saved
<1> HIDE DEF a
<1>3. Matches(BeginLoad(a, f, a.timecode[f], TRUE).screen,
              BeginLoad(a, f, a.timecode[f], TRUE).queue, e)
  BY <1>1, MatchesBegun
<1> QED
  BY <1>1, <1>2, <1>3

LEMMA MatchesNext ==
    ASSUME NEW w, GoodWorld(w), IsPlaying(w), NEW e, Matches(w.screen, w.queue, e)
    PROVE  Matches(NextFile(w, TRUE).screen, NextFile(w, TRUE).queue, e)
<1>1. /\ HasNext(w) => /\ w.screen.file + 1 \in File
                       /\ NextFile(w, TRUE) = JumpToFile(w, w.screen.file + 1, TRUE)
      /\ ~HasNext(w) => NextFile(w, TRUE) = w
  BY WentNext
<1>2. \A f \in File : Matches(JumpToFile(w, f, TRUE).screen, JumpToFile(w, f, TRUE).queue, e)
  BY MatchesJumped
<1> QED
  BY <1>1, <1>2

LEMMA MatchesSought ==
    ASSUME NEW w, GoodWorld(w), IsPlaying(w), NEW to \in Position, NEW e,
           Matches(w.screen, w.queue, e)
    PROVE  Matches(SeekAbs(w, to).screen, SeekAbs(w, to).queue, e)
<1>1. GoodCommand(SeekTo(to)) /\ ~IsSwitch(SeekTo(to)) /\ GoodQueue(w.queue)
  BY Commands DEF IsSwitch, GoodWorld
<1>2. /\ SeekAbs(w, to).queue = Append(w.queue, SeekTo(to))
      /\ SameCourse(SeekAbs(w, to).screen, w.screen)
  BY Sought
<1> QED
  BY <1>1, <1>2, MatchesKept

-----------------------------------------------------------------------------
(***************************************************************************)
(* Every step keeps what is known.                                         *)
(***************************************************************************)
LEMMA OneAnswer == KeepsUp => Answer = {TRUE} /\ (Prompt = TRUE)
  BY PlayerAssumption DEF KeepsUp, Answer

LEMMA MatchesInput ==
    ASSUME PromptInv, KeepsUp, UserInput
    PROVE  Matches(screen', queue', exo)
<1>1. /\ GoodWorld(World) /\ timecode \in [File -> Position] /\ World.screen = screen
      /\ World.queue = queue /\ Matches(World.screen, World.queue, exo)
      /\ IsPlaying(World) = (screen.phase = "playing") /\ GoodQueue(queue)
  BY Worlds DEF PromptInv, BaseInv, World, IsPlaying
<1>2. ASSUME NEW w, Input(w), Matches(w.screen, w.queue, exo)
      PROVE  Matches(screen', queue', exo)
  BY <1>2 DEF Input, Become
<1>3. ASSUME NEW f \in File, Start(f, TRUE) PROVE Matches(screen', queue', exo)
  <2>1. timecode[f] \in Position /\ Input(BeginLoad(World, f, timecode[f], TRUE))
    BY <1>1, <1>3 DEF Start
  <2>2. Matches(BeginLoad(World, f, timecode[f], TRUE).screen,
                BeginLoad(World, f, timecode[f], TRUE).queue, exo)
    BY <1>1, <2>1, MatchesBegun
  <2> QED
    BY <1>2, <2>1, <2>2
<1>4. ASSUME NEW f \in File, Jump(f, TRUE) PROVE Matches(screen', queue', exo)
  <2>1. Matches(JumpToFile(World, f, TRUE).screen, JumpToFile(World, f, TRUE).queue, exo)
    BY <1>1, MatchesJumped
  <2> QED
    BY <1>2, <1>4, <2>1 DEF Jump, OnPlayer
<1>5. ASSUME NEW to \in Seekable, Seek(to) \/ Skip(to, TRUE)
      PROVE  Matches(screen', queue', exo)
  <2>1. to \in Position /\ IsPlaying(World)
    BY <1>1, <1>5, ScreenAssumption DEF Seek, Skip
  <2>2. Matches(SeekAbs(World, to).screen, SeekAbs(World, to).queue, exo)
    BY <1>1, <2>1, MatchesSought
  <2>3. Matches(NextFile(World, TRUE).screen, NextFile(World, TRUE).queue, exo)
    BY <1>1, <2>1, MatchesNext
  <2>4. Input(SeekAbs(World, to)) \/ Input(NextFile(World, TRUE))
    BY <1>5 DEF Seek, Skip, SkipOrNext, OnPlayer
  <2> QED
    BY <1>2, <2>2, <2>3, <2>4
<1>6. ASSUME NEW way \in {"back", "forward"}, Nudge(way) PROVE Matches(screen', queue', exo)
  <2>1. GoodCommand(SeekBy(way)) /\ ~IsSwitch(SeekBy(way)) /\ SameCourse(screen, screen)
    BY Commands DEF IsSwitch, SameCourse
  <2>2. /\ Nudging(World, way).screen = screen
        /\ Nudging(World, way).queue = Append(queue, SeekBy(way))
    BY <1>1, NudgedWorld
  <2>3. Input(Nudging(World, way))
    BY <1>6 DEF Nudge, Nudging, OnPlayer
  <2>4. Matches(screen, Append(queue, SeekBy(way)), exo)
    BY <1>1, <2>1, MatchesKept
  <2> QED
    BY <1>2, <2>2, <2>3, <2>4
<1>7. ASSUME StopPlayback PROVE Matches(screen', queue', exo)
  <2>1. Stopping(World).screen = Closed /\ Stopping(World).queue = Append(queue, Stop)
    BY <1>1, StoppedWorld
  <2>2. GoodCommand(Stop) /\ IsSwitch(Stop) /\ Stop.file = NoFile
    BY Commands DEF IsSwitch
  <2>3. \A have : WillHave(Append(queue, Stop), have, NoFile)
    BY <1>1, <2>2, WillHaveNew
  <2>4. Matches(Closed, Append(queue, Stop), exo)
    BY <2>3 DEF Matches, Closed, State0
  <2>5. Input(Stopping(World))
    BY <1>7 DEF StopPlayback, Stopping, OnPlayer
  <2> QED
    BY <1>2, <2>1, <2>4, <2>5
<1>8. ASSUME Toggle PROVE Matches(screen', queue', exo)
  <2> DEFINE cmd == SetPaused(~World.screen.paused)
  <2>1. /\ cmd.op \in {"pause", "resume"} /\ Toggling(World).queue = Append(queue, cmd)
        /\ SameCourse(Toggling(World).screen, screen)
    BY <1>1, ToggledWorld
  <2>2. GoodCommand(cmd) /\ ~IsSwitch(cmd)
    <3>1. World.screen.paused \in BOOLEAN
      BY <1>1 DEF GoodWorld, GoodScreen, Screen
    <3> QED
      BY <2>1, <3>1, Commands DEF IsSwitch
  <2>3. Input(Toggling(World))
    BY <1>1, <1>8 DEF Toggle, Toggling, OnPlayer
  <2> HIDE DEF cmd
  <2>4. Matches(Toggling(World).screen, Append(queue, cmd), exo)
    BY <1>1, <2>1, <2>2, MatchesKept
  <2> QED
    BY <1>2, <2>1, <2>3, <2>4
<1>9. ASSUME Cover \/ Uncover PROVE Matches(screen', queue', exo)
  BY <1>1, <1>2, <1>9 DEF Cover, Uncover
<1> QED
  BY <1>3, <1>4, <1>5, <1>6, <1>7, <1>8, <1>9, OneAnswer DEF UserInput

LEMMA PromptInput ==
    ASSUME PromptInv, KeepsUp, UserInput
    PROVE  PromptInv'
<1>1. BaseInv' /\ Matches(screen', queue', exo)
  BY InputTyped, MatchesInput DEF PromptInv
<1>2. UNCHANGED <<exo, shown, writes>> /\ reading'.at = "none"
  <2>1. \A w : Input(w) => UNCHANGED <<exo, shown, writes>> /\ reading'.at = "none"
    BY DEF Input, Become, NotReading
  <2> QED
    BY <2>1 DEF UserInput, Start, Jump, Seek, Skip, Nudge, StopPlayback, Toggle, Cover, Uncover, OnPlayer
<1> QED
  BY <1>1, <1>2 DEF PromptInv, ShownFacts, TickFacts

(***************************************************************************)
(* What the fields that a tick has read say of the player now, when it has *)
(* come to the last of them.                                               *)
(***************************************************************************)
LEMMA WhatATickSees ==
    ASSUME PromptInv, reading.at = "duration"
    PROVE  /\ Seen \in Snapshot /\ screen.phase = "playing"
           /\ Seen.duration # 0 =>
                /\ queue = <<>> /\ exo.file = screen.file /\ screen.file \in File
                /\ exo.state \in OpenStates
                /\ Seen.duration = Length[screen.file] /\ Seen.position = exo.at
                /\ Seen.position < TailStart(Seen.duration) =>
                     exo.early /\ exo.state # "ended"
           /\ "ended" \in Seen.flags =>
                /\ Seen.duration # 0 /\ exo.state = "ended" /\ Seen.position >= Seen.duration
           /\ Seen.failed => queue = <<>> /\ exo.state \in FailedStates /\ exo.file \in File
<1>1. /\ GoodScreen(screen, waits) /\ screen \in Screen /\ GoodPlayer(exo) /\ shown \in Snapshot
      /\ reading \in Reading /\ screen.phase = "playing" /\ screen.file \in File
      /\ exo.at \in Nat
  <2>1. /\ GoodScreen(screen, waits) /\ screen \in Screen /\ GoodPlayer(exo) /\ shown \in Snapshot
        /\ reading \in Reading /\ screen.phase = "playing"
    BY Worlds DEF PromptInv, BaseInv, World
  <2> QED
    BY <2>1, Positions DEF GoodScreen, GoodPlayer, Loaded
<1>2. Seen \in Snapshot
  BY <1>1 DEF Seen, Reading, Snapshot
<1>3. CASE Fresh
  <2>1. "ended" \notin Seen.flags /\ Seen.duration = 0 /\ Seen.failed = FALSE
    BY <1>3 DEF Fresh, Stays, Seen
  <2> QED
    BY <1>1, <1>2, <2>1
<1>4. CASE Quiet
  <2>1. /\ queue = <<>> /\ writes = <<>>
        /\ exo.file = NoFile \/ shown = Shows(exo, shown.failed)
        /\ Seen = [flags |-> shown.flags, position |-> shown.position,
                   duration |-> shown.duration, failed |-> shown.failed]
    BY <1>4 DEF Quiet, UpToDate, Seen
  <2>2. /\ exo.file = NoFile => shown.duration = 0 /\ shown.flags = {"paused"}
        /\ exo.state \notin FailedStates => shown.failed = FALSE
    BY <2>1 DEF PromptInv, ShownFacts, WillBe
  <2>3. /\ exo.file = screen.file \/ (screen.failed /\ exo.file = NoFile)
        /\ screen.failed => exo.file = NoFile \/ exo.state \in FailedStates
    BY <1>1, <2>1, WillHaveNow DEF PromptInv, Matches
  <2>4. CASE exo.file = NoFile
    BY <1>1, <1>2, <2>1, <2>2, <2>4 DEF GoodPlayer, FailedStates
  <2>5. CASE exo.file # NoFile
    <3>1. /\ shown.duration = DurationOf(exo) /\ shown.flags = FlagsOf(exo)
          /\ shown.position = PositionOf(exo)
      BY <2>1, <2>5 DEF Shows
    <3>2. /\ exo.file = screen.file /\ exo.file \in File /\ exo.state \in State
          /\ Length[exo.file] \in Nat \ {0}
      BY <1>1, <2>3, <2>5, Positions DEF GoodPlayer, Loaded
    <3>3. /\ shown.duration # 0 => /\ exo.state \in OpenStates
                                   /\ shown.duration = Length[screen.file]
                                   /\ shown.position = exo.at
          /\ "ended" \in shown.flags => exo.state = "ended"
          /\ exo.state = "ended" => shown.duration = Length[exo.file] /\ shown.position = exo.at
      BY <3>1, <3>2 DEF DurationOf, OpenStates, FlagsOf, PositionOf
    <3>4. PlayerFacts(exo)
      BY DEF PromptInv
    <3>5. /\ exo.state = "ended" => exo.at >= Length[exo.file]
          /\ exo.state \in {"ready", "broken"} /\ exo.at < Length[exo.file] - 1 => exo.early
      BY <3>4 DEF PlayerFacts, TailStart
    <3> QED
      BY <1>1, <1>2, <2>1, <2>2, <3>2, <3>3, <3>5 DEF TailStart, OpenStates, FailedStates
  <2> QED
    BY <2>4, <2>5
<1> QED
  BY <1>3, <1>4 DEF PromptInv, TickFacts

LEMMA MatchesFollowed ==
    ASSUME PromptInv, reading.at = "duration"
    PROVE  /\ GoodWorld(Kept(World, Seen)) /\ IsPlaying(Kept(World, Seen))
           /\ Matches(Kept(World, Seen).screen, Kept(World, Seen).queue, exo)
           /\ Matches(Follow(World, Seen, TRUE).screen, Follow(World, Seen, TRUE).queue, exo)
<1> DEFINE n == Tailed(screen, Seen)
           k == Kept(World, Seen)
<1>1. /\ GoodWorld(World) /\ IsPlaying(World) /\ GoodQueue(queue) /\ World.screen = screen
      /\ World.queue = queue /\ screen \in Screen /\ Seen \in Snapshot
      /\ Matches(screen, queue, exo)
  BY WhatATickSees, Worlds DEF PromptInv, BaseInv, World, IsPlaying
<1>2. /\ n.phase = "playing" /\ n.file = screen.file
      /\ n.failed = (screen.failed \/ Seen.failed)
      /\ n.played = (screen.played \/ (Seen.duration # 0 /\ Seen.position < TailStart(Seen.duration)))
      /\ n.checked = (screen.checked \/ Seen.duration # 0)
  BY <1>1, TailTracked DEF IsPlaying
<1> HIDE DEF n
<1>3. Matches(n, queue, exo)
  <2>1. /\ WillHave(queue, exo.file, screen.file)
             \/ (screen.failed /\ WillHave(queue, exo.file, NoFile))
        /\ screen.failed => NoSwitch(queue) /\ (exo.file = NoFile \/ exo.state \in FailedStates)
        /\ screen.played => NoSwitch(queue) /\ exo.file = screen.file /\ exo.early /\ screen.checked
    BY <1>1 DEF Matches, IsPlaying
  <2>2. Seen.failed => NoSwitch(queue) /\ exo.state \in FailedStates
    BY WhatATickSees, WillHaveNow
  <2>3. Seen.duration # 0 /\ Seen.position < TailStart(Seen.duration) =>
          NoSwitch(queue) /\ exo.file = screen.file /\ exo.early
    BY WhatATickSees, WillHaveNow
  <2> QED
    BY <1>2, <2>1, <2>2, <2>3 DEF Matches
<1>4. GoodCommand(SeekTo(0)) /\ ~IsSwitch(SeekTo(0))
  BY Commands, Positions DEF IsSwitch
<1>5. /\ GoodWorld(k) /\ SameCourse(k.screen, n)
      /\ k.queue = queue \/ k.queue = Append(queue, SeekTo(0))
  BY <1>1, KeptWell DEF n
<1> HIDE DEF k
<1>6. Matches(k.screen, k.queue, exo) /\ IsPlaying(k)
  BY <1>1, <1>2, <1>3, <1>4, <1>5, MatchesKept DEF SameCourse, IsPlaying
<1>7. Matches(NextFile(k, TRUE).screen, NextFile(k, TRUE).queue, exo)
  BY <1>5, <1>6, MatchesNext
<1>8. Follow(World, Seen, TRUE) = NextFile(k, TRUE) \/ Follow(World, Seen, TRUE) = k
  BY FollowIsKept DEF k
<1> QED
  BY <1>5, <1>6, <1>7, <1>8 DEF k

LEMMA PromptTick ==
    ASSUME PromptInv, KeepsUp, Tick
    PROVE  PromptInv'
<1>1. BaseInv' /\ Answer = {TRUE}
  BY TickTyped, OneAnswer DEF PromptInv
<1>2. CASE TickFlags
  <2> DEFINE w == PollBuffering(World, TRUE)
  <2>1. /\ UpToDate /\ IsPlaying(w) /\ Become(w)
        /\ reading' = [at |-> "position", flags |-> shown.flags, position |-> 0]
        /\ reading.at = "none"
    BY <1>1, <1>2, OneAnswer DEF TickFlags, NotReading
  <2>2. /\ GoodWorld(World) /\ World.screen = screen /\ World.queue = queue
        /\ GoodScreen(screen, waits) /\ queue = <<>> /\ writes = <<>>
    BY <2>1, Worlds DEF PromptInv, BaseInv, World, UpToDate
  <2>3. /\ screen' = w.screen /\ queue' = w.queue /\ UNCHANGED <<exo, shown, writes>>
    BY <2>1 DEF Become
  <2>4. \A ok \in BOOLEAN : IsPlaying(PollBuffering(World, ok)) =>
          \/ screen.phase = "playing" /\ PollBuffering(World, ok) = World
          \/ /\ screen.phase = "buffering" /\ screen.file \in File /\ screen.start \in Position
             /\ IsFresh(PollBuffering(World, ok).screen, screen.file, screen.start)
             /\ \/ /\ PollBuffering(World, ok).screen.failed = ~ok
                   /\ ok => PollBuffering(World, ok).queue = Append(queue, Load(screen.file, screen.start))
                \/ PollBuffering(World, ok).screen.failed = TRUE /\ PollBuffering(World, ok).queue = queue
    BY <2>2, Polled
  <2> HIDE DEF w
  <2>5. CASE screen.phase = "playing" /\ w = World
    <3>1. screen' = screen /\ queue' = queue
      BY <2>2, <2>3, <2>5
    <3>2. Quiet'
      BY <2>1, <2>3, <3>1 DEF Quiet, UpToDate
    <3> QED
      BY <1>1, <2>3, <3>1, <3>2 DEF PromptInv, ShownFacts, TickFacts
  <2>6. CASE /\ screen.phase = "buffering" /\ screen.file \in File /\ screen.start \in Position
             /\ IsFresh(w.screen, screen.file, screen.start)
             /\ \/ w.screen.failed = FALSE /\ w.queue = Append(queue, Load(screen.file, screen.start))
                \/ w.screen.failed = TRUE /\ w.queue = queue
    <3>1. exo.file = NoFile
      BY <2>2, <2>6, WillHaveNow DEF PromptInv, Matches
    <3>2. exo.state \notin FailedStates
      BY <3>1 DEF PromptInv, BaseInv, GoodPlayer, FailedStates
    <3>3. /\ shown.duration = 0 /\ shown.flags = {"paused"} /\ shown.failed = FALSE
      BY <2>2, <3>1, <3>2 DEF PromptInv, ShownFacts, WillBe
    <3>4. /\ w.screen.phase = "playing" /\ w.screen.file = screen.file /\ w.screen.played = FALSE
      BY <2>6, <1>1, <2>3 DEF IsFresh, BaseInv, GoodWorld, WorldState, World, Screen
    <3>5. CASE w.screen.failed = FALSE /\ w.queue = Append(queue, Load(screen.file, screen.start))
      <4> DEFINE cmd == Load(screen.file, screen.start)
      <4>1. /\ GoodCommand(cmd) /\ IsSwitch(cmd) /\ cmd.file = screen.file /\ cmd.op = "load"
        BY <2>6, Commands DEF IsSwitch
      <4>2. GoodQueue(queue)
        BY <2>2 DEF GoodWorld
      <4> HIDE DEF cmd
      <4>3. WillHave(Append(queue, cmd), exo.file, screen.file)
        BY <4>1, <4>2, WillHaveNew
      <4>4. Matches(w.screen, w.queue, exo)
        BY <3>4, <3>5, <4>3 DEF Matches, cmd
      <4>5. Append(<<>>, cmd) = <<cmd>> /\ Len(<<cmd>>) = 1 /\ <<cmd>>[1] = cmd
        OBVIOUS
      <4>6. \A i \in 1..Len(w.queue) : w.queue[i].op = "load"
        BY <2>2, <3>5, <4>1, <4>5 DEF cmd
      <4>7. Fresh'
        BY <2>1, <2>2, <2>3, <3>1, <3>3, <4>6 DEF Fresh, Stays
      <4> QED
        BY <1>1, <2>3, <4>4, <4>7 DEF PromptInv, ShownFacts, TickFacts
    <3>6. CASE w.screen.failed = TRUE /\ w.queue = queue
      <4>1. WillHave(queue, exo.file, NoFile) /\ NoSwitch(queue)
        BY <2>2, <3>1, WillHaveNow
      <4>2. Matches(w.screen, w.queue, exo)
        BY <3>1, <3>4, <3>6, <4>1 DEF Matches
      <4>3. Quiet'
        BY <2>1, <2>3, <3>6 DEF Quiet, UpToDate
      <4> QED
        BY <1>1, <2>3, <4>2, <4>3 DEF PromptInv, ShownFacts, TickFacts
    <3> QED
      BY <2>6, <3>5, <3>6
  <2> QED
    BY <2>1, <2>4, <2>5, <2>6 DEF w
<1>3. CASE TickPosition
  <2>1. /\ UNCHANGED <<queue, exo, shown, writes, screen>>
        /\ reading' = [reading EXCEPT !.at = "duration", !.position = shown.position]
        /\ reading.at = "position"
    BY <1>3 DEF TickPosition, playerVars
  <2>2. reading \in Reading
    BY DEF PromptInv, BaseInv
  <2>3. reading'.flags = reading.flags /\ reading'.position = shown.position
    BY <2>1, <2>2 DEF Reading
  <2>4. Quiet => Quiet'
    BY <2>1, <2>3 DEF Quiet, UpToDate
  <2>5. Fresh => Fresh'
    BY <2>1, <2>3 DEF Fresh
  <2> QED
    BY <1>1, <2>1, <2>4, <2>5 DEF PromptInv, ShownFacts, TickFacts
<1>4. CASE TickRest
  <2>1. /\ Become(Follow(World, Seen, TRUE)) /\ reading' = NotReading /\ reading.at = "duration"
    BY <1>1, <1>4 DEF TickRest, Seen
  <2>2. /\ screen' = Follow(World, Seen, TRUE).screen /\ queue' = Follow(World, Seen, TRUE).queue
        /\ UNCHANGED <<exo, shown, writes>>
    BY <2>1 DEF Become
  <2>3. Matches(screen', queue', exo)
    BY <2>1, <2>2, MatchesFollowed
  <2> QED
    BY <1>1, <2>1, <2>2, <2>3 DEF PromptInv, ShownFacts, TickFacts, NotReading
<1> QED
  BY <1>2, <1>3, <1>4 DEF Tick

-----------------------------------------------------------------------------
(* What a publication makes of the fields, at once or write by write. *)
LEMMA PutFacts ==
    ASSUME NEW view \in Snapshot, writes = <<>>, Put(view)
    PROVE  /\ WillBe(writes', "duration", shown'.duration, view.duration)
           /\ WillBe(writes', "flags", shown'.flags, view.flags)
           /\ WillBe(writes', "failed", shown'.failed, view.failed)
           /\ shown.duration = view.duration =>
                Stays(writes', "duration", shown'.duration, view.duration)
           /\ shown.failed = view.failed =>
                Stays(writes', "failed", shown'.failed, view.failed)
<1>1. CASE Torn
  <2>1. DOMAIN FieldOrder = 1..4 /\ FieldOrder[1] = "position" /\ FieldOrder[2] = "duration"
        /\ FieldOrder[3] = "flags" /\ FieldOrder[4] = "failed"
    BY DEF FieldOrder
  <2>2. WritesOf(view) = [i \in 1..4 |-> [field |-> FieldOrder[i], value |-> view[FieldOrder[i]]]]
    BY <2>1 DEF WritesOf
  <2>3. writes' = WritesOf(view) /\ shown' = shown
    BY <1>1 DEF Put
  <2>4. /\ Len(writes') = 4
        /\ writes'[1].field = "position"
        /\ writes'[2].field = "duration" /\ writes'[2].value = view["duration"]
        /\ writes'[3].field = "flags" /\ writes'[3].value = view["flags"]
        /\ writes'[4].field = "failed" /\ writes'[4].value = view["failed"]
    BY <2>1, <2>2, <2>3
  <2>5. \A i \in 1..Len(writes') : i = 1 \/ i = 2 \/ i = 3 \/ i = 4
    BY <2>4
  <2>6. 2 \in 1..Len(writes') /\ 3 \in 1..Len(writes') /\ 4 \in 1..Len(writes')
    BY <2>4
  <2> QED
    BY <2>3, <2>4, <2>5, <2>6 DEF WillBe, Stays
<1>2. CASE ~Torn
  <2>1. shown' = view /\ writes' = <<>>
    BY <1>2 DEF Put
  <2> QED
    BY <2>1 DEF WillBe, Stays
<1> QED
  BY <1>1, <1>2

(* A write brings a field no further from what it will be. *)
LEMMA WriteFacts ==
    ASSUME shown \in Snapshot, writes \in Seq(Written), Write
    PROVE  /\ \A v : WillBe(writes, "duration", shown.duration, v)
                       => WillBe(writes', "duration", shown'.duration, v)
           /\ \A v : WillBe(writes, "flags", shown.flags, v)
                       => WillBe(writes', "flags", shown'.flags, v)
           /\ \A v : WillBe(writes, "failed", shown.failed, v)
                       => WillBe(writes', "failed", shown'.failed, v)
           /\ \A v : Stays(writes, "duration", shown.duration, v)
                       => Stays(writes', "duration", shown'.duration, v)
           /\ \A v : Stays(writes, "failed", shown.failed, v)
                       => Stays(writes', "failed", shown'.failed, v)
<1> DEFINE h == Head(writes)
<1>1. /\ h = writes[1] /\ writes' = Tail(writes) /\ Len(writes) \in Nat /\ Len(writes) > 0
      /\ Len(writes') = Len(writes) - 1 /\ \A i \in 1..Len(writes') : writes'[i] = writes[i + 1]
      /\ writes[1] \in Written
  BY DEF Write
<1>2. shown' = [shown EXCEPT ![h.field] = h.value]
  BY DEF Write
<1>3. h.field \in {"position", "duration", "flags", "failed"}
  BY <1>1 DEF Written, GoodWrite, Fields
<1> HIDE DEF h
<1>4. /\ shown'.duration = IF h.field = "duration" THEN h.value ELSE shown.duration
      /\ shown'.flags = IF h.field = "flags" THEN h.value ELSE shown.flags
      /\ shown'.failed = IF h.field = "failed" THEN h.value ELSE shown.failed
  <2>1. CASE h.field = "position"
    <3>1. shown' = [shown EXCEPT !.position = h.value]
      BY <1>2, <2>1
    <3> QED
      BY <2>1, <3>1 DEF Snapshot
  <2>2. CASE h.field = "duration"
    <3>1. shown' = [shown EXCEPT !.duration = h.value]
      BY <1>2, <2>2
    <3> QED
      BY <2>2, <3>1 DEF Snapshot
  <2>3. CASE h.field = "flags"
    <3>1. shown' = [shown EXCEPT !.flags = h.value]
      BY <1>2, <2>3
    <3> QED
      BY <2>3, <3>1 DEF Snapshot
  <2>4. CASE h.field = "failed"
    <3>1. shown' = [shown EXCEPT !.failed = h.value]
      BY <1>2, <2>4
    <3> QED
      BY <2>4, <3>1 DEF Snapshot
  <2> QED
    BY <1>3, <2>1, <2>2, <2>3, <2>4
<1>5. /\ \A i \in 1..Len(writes') : i + 1 \in 1..Len(writes) /\ writes'[i] = writes[i + 1]
      /\ 1 \in 1..Len(writes)
      /\ \A j \in 1..Len(writes) : j = 1 \/ (j - 1 \in 1..Len(writes') /\ writes[j] = writes'[j - 1])
  BY <1>1
<1>6. ASSUME NEW field, NEW now, NEW next, NEW v,
             next = IF h.field = field THEN h.value ELSE now
      PROVE  /\ WillBe(writes, field, now, v) => WillBe(writes', field, next, v)
             /\ Stays(writes, field, now, v) => Stays(writes', field, next, v)
  <2>1. ASSUME \A i \in 1..Len(writes) : writes[i].field = field => writes[i].value = v
        PROVE  /\ \A i \in 1..Len(writes') : writes'[i].field = field => writes'[i].value = v
               /\ h.field = field => h.value = v
    BY <1>1, <1>5, <2>1
  <2>2. ASSUME \A i \in 1..Len(writes') : writes'[i].field # field, h.field # field
        PROVE  \A i \in 1..Len(writes) : writes[i].field # field
    BY <1>1, <1>5, <2>2
  <2>3. WillBe(writes, field, now, v) => WillBe(writes', field, next, v)
    BY <1>6, <2>1, <2>2 DEF WillBe
  <2>4. Stays(writes, field, now, v) => Stays(writes', field, next, v)
    BY <1>6, <2>1 DEF Stays
  <2> QED
    BY <2>3, <2>4
<1> QED
  BY <1>4, <1>6

(* Once everything is up to date the main thread has nothing to do. *)
LEMMA MainThreadIdles == MainThreadRuns => ~UpToDate
  BY DEF MainThreadRuns, MainThread, Write, RunLoad, RunStop, RunSeek, RunPause, Runs, Publish,
         UpToDate

LEMMA PromptMainThread ==
    ASSUME PromptInv, MainThreadRuns
    PROVE  PromptInv'
<1>1. /\ BaseInv' /\ UNCHANGED <<screen, reading>>
      /\ reading.at # "none" => Fresh
  BY MainThreadTyped, MainThreadIdles
     DEF PromptInv, MainThreadRuns, screenVars, TickFacts, Quiet
<1>2. /\ GoodQueue(queue) /\ queue \in Seq(Command) /\ GoodPlayer(exo) /\ shown \in Snapshot
      /\ writes \in Seq(Written) /\ shown.failed \in BOOLEAN /\ Cleared \in Snapshot
      /\ Cleared.duration = 0 /\ Cleared.flags = {"paused"} /\ Cleared.failed = FALSE
      /\ \A e, failed : Shows(e, failed).duration = DurationOf(e) /\ Shows(e, failed).failed = failed
  BY Worlds, ShowsTyped DEF PromptInv, BaseInv, World, Snapshot, Cleared, Shows
<1>3. /\ PlayerFacts(exo) /\ ShownFacts /\ Matches(screen, queue, exo)
  BY DEF PromptInv
<1>4. CASE Write
  <2>1. UNCHANGED <<queue, exo>>
    BY <1>4 DEF Write
  <2>2. ShownFacts'
    BY <1>2, <1>3, <1>4, <2>1, WriteFacts DEF ShownFacts
  <2>3. Fresh => Fresh'
    BY <1>1, <1>2, <1>4, <2>1, WriteFacts DEF Fresh
  <2> QED
    BY <1>1, <1>3, <2>1, <2>2, <2>3 DEF PromptInv, TickFacts
<1>5. CASE RunLoad
  <2>1. Runs("load") /\ Put(Cleared)
    BY <1>5 DEF RunLoad
  <2>2. /\ Len(queue) > 0 /\ GoodCommand(queue[1]) /\ Head(queue) = queue[1]
        /\ queue[1].op = "load" /\ Len(queue') = Len(queue) - 1 /\ writes = <<>>
        /\ \A i \in 1..Len(queue') : queue'[i] = queue[i + 1]
    BY <1>3, <2>1, Ran DEF PromptInv
  <2>3. /\ exo'.file = queue[1].file /\ exo'.state = "opening" /\ exo'.file # NoFile
        /\ IsSwitch(queue[1])
    BY <1>5, <2>2 DEF RunLoad, GoodCommand, File, NoFile, IsSwitch
  <2>4. /\ ~NoSwitch(queue)
        /\ \A have, f : WillHave(queue, have, f) => WillHave(queue', queue[1].file, f)
    BY <1>2, <2>2, <2>3, WillHaveRest
  <2>5. Matches(screen, queue', exo')
    BY <1>3, <2>3, <2>4 DEF Matches
  <2>6. /\ WillBe(writes', "failed", shown'.failed, FALSE)
        /\ shown.duration = 0 => Stays(writes', "duration", shown'.duration, 0)
        /\ shown.failed = FALSE => Stays(writes', "failed", shown'.failed, FALSE)
    BY <1>2, <2>1, <2>2, PutFacts
  <2>7. Fresh => Fresh'
    <3>1. Len(queue) \in Nat
      BY <1>2
    <3>2. \A i \in 1..Len(queue') : i + 1 \in 1..Len(queue) /\ queue'[i] = queue[i + 1]
      BY <2>2, <3>1
    <3> QED
      BY <1>1, <2>3, <2>6, <3>2 DEF Fresh, Stays
  <2> QED
    BY <1>1, <2>3, <2>5, <2>6, <2>7 DEF PromptInv, PlayerFacts, ShownFacts, TickFacts
<1>6. CASE RunStop
  <2>1. Runs("stop") /\ Put(Cleared) /\ exo' = Idle
    BY <1>6 DEF RunStop
  <2>2. /\ Len(queue) > 0 /\ GoodCommand(queue[1])
        /\ queue[1].op = "stop" /\ Len(queue') = Len(queue) - 1 /\ writes = <<>>
        /\ \A i \in 1..Len(queue') : queue'[i] = queue[i + 1]
    BY <1>3, <2>1, Ran DEF PromptInv
  <2>3. /\ exo'.file = queue[1].file /\ exo'.state = "idle" /\ IsSwitch(queue[1])
    BY <2>1, <2>2 DEF GoodCommand, Idle, IsSwitch
  <2>4. /\ ~NoSwitch(queue)
        /\ \A have, f : WillHave(queue, have, f) => WillHave(queue', queue[1].file, f)
    BY <1>2, <2>2, <2>3, WillHaveRest
  <2>5. Matches(screen, queue', exo')
    BY <1>3, <2>3, <2>4 DEF Matches
  <2>6. /\ WillBe(writes', "failed", shown'.failed, FALSE)
        /\ WillBe(writes', "duration", shown'.duration, 0)
        /\ WillBe(writes', "flags", shown'.flags, {"paused"})
    BY <1>2, <2>1, <2>2, PutFacts
  <2>7. reading.at = "none"
    <3>1. 1 \in 1..Len(queue) /\ queue[1].op # "load"
      BY <1>2, <2>2
    <3>2. ~Fresh
      BY <3>1 DEF Fresh
    <3> QED
      BY <1>1, <3>2
  <2> QED
    BY <1>1, <2>3, <2>5, <2>6, <2>7 DEF PromptInv, PlayerFacts, ShownFacts, TickFacts
<1>7. ASSUME NEW op \in Seeks \cup {"pause", "resume"}, Runs(op)
      PROVE  /\ Len(queue) > 0 /\ GoodCommand(queue[1]) /\ Head(queue) = queue[1]
             /\ queue[1].op = op /\ writes = <<>> /\ reading.at = "none"
             /\ NoSwitch(queue) => NoSwitch(queue')
             /\ \A have, f : WillHave(queue, have, f) => WillHave(queue', have, f)
  <2>1. /\ Len(queue) > 0 /\ GoodCommand(queue[1]) /\ Head(queue) = queue[1]
        /\ queue[1].op = op /\ Len(queue') = Len(queue) - 1 /\ writes = <<>>
        /\ \A i \in 1..Len(queue') : queue'[i] = queue[i + 1]
    BY <1>3, <1>7, Ran DEF PromptInv
  <2>2. ~IsSwitch(queue[1])
    BY <1>7, <2>1 DEF IsSwitch, Seeks
  <2>3. ~Fresh
    <3>1. 1 \in 1..Len(queue) /\ queue[1].op # "load"
      BY <1>2, <1>7, <2>1 DEF Seeks
    <3> QED
      BY <3>1 DEF Fresh
  <2> QED
    BY <1>1, <1>2, <2>1, <2>2, <2>3, WillHaveRest
<1>8. CASE RunSeek \/ RunPause
  <2>1. PICK op \in Seeks \cup {"pause", "resume"} : Runs(op)
    BY <1>8 DEF RunSeek, RunPause
  <2>2. /\ Head(queue) = queue[1] /\ writes = <<>> /\ reading.at = "none"
        /\ GoodCommand(queue[1]) /\ queue[1].op = op
        /\ NoSwitch(queue) => NoSwitch(queue')
        /\ \A have, f : WillHave(queue, have, f) => WillHave(queue', have, f)
    BY <1>7, <2>1
  <2>3. CASE exo.file = NoFile
    <3>1. UNCHANGED <<exo, shown, writes>>
      BY <1>8, <2>3 DEF RunSeek, RunPause
    <3>2. Matches(screen, queue', exo)
      BY <1>3, <2>2 DEF Matches
    <3> QED
      BY <1>1, <1>3, <2>2, <3>1, <3>2 DEF PromptInv, ShownFacts, TickFacts
  <2>4. CASE exo.file # NoFile
    <3>1. /\ Put(Shows(exo', shown.failed)) /\ exo'.file = exo.file
          /\ exo'.state = exo.state \/ (exo.state = "ended" /\ exo'.state = "ready")
          /\ exo.early => exo'.early
          /\ PlayerFacts(exo')
      <4>1. CASE RunSeek
        <5> DEFINE st == IF exo.state = "ended" THEN "ready" ELSE exo.state
                   to == Target(queue[1], exo)
        <5>1. exo' = Moved(exo, to, st) /\ Put(Shows(exo', shown.failed))
              /\ queue[1].op \in Seeks
          <6>1. /\ exo' = Moved(exo, to, st)
                /\ Put(Shows(Moved(exo, to, st), shown.failed))
            BY <2>2, <2>4, <4>1 DEF RunSeek
          <6>2. PICK o \in Seeks : Runs(o)
            BY <4>1 DEF RunSeek
          <6>3. queue[1].op \in Seeks
            BY <2>2, <6>2 DEF Runs
          <6> QED
            BY <6>1, <6>3
        <5>2. to \in Position
          BY <1>2, <2>2, <2>4, <5>1, SeekTarget
        <5>3. st \in State /\ st # "idle" /\ exo.early \in BOOLEAN /\ st # "ended"
              /\ (st = exo.state \/ (exo.state = "ended" /\ st = "ready"))
          BY <1>2, <2>4 DEF GoodPlayer, Loaded, State, OpenStates, FailedStates
        <5> HIDE DEF st, to
        <5>4. /\ Moved(exo, to, st).file = exo.file /\ Moved(exo, to, st).at = to
              /\ Moved(exo, to, st).state = st
              /\ Moved(exo, to, st).early =
                   (exo.early \/ (st \in OpenStates /\ to < TailStart(Length[exo.file])))
          BY <1>2, <2>4, <5>2, <5>3, MovedTyped
        <5> QED
          BY <5>1, <5>3, <5>4 DEF PlayerFacts, OpenStates
      <4>2. CASE RunPause
        <5> DEFINE on == Head(queue).op = "resume"
        <5>1. exo' = [exo EXCEPT !.playing = on] /\ Put(Shows([exo EXCEPT !.playing = on], shown.failed))
          BY <2>4, <4>2 DEF RunPause
        <5> HIDE DEF on
        <5>2. Put(Shows(exo', shown.failed))
          BY <5>1
        <5>3. /\ exo'.file = exo.file /\ exo'.state = exo.state /\ exo'.early = exo.early
              /\ exo'.at = exo.at
          BY <1>2, <5>1 DEF GoodPlayer, Loaded
        <5> QED
          BY <1>3, <5>2, <5>3 DEF PlayerFacts
      <4> QED
        BY <1>8, <4>1, <4>2
    <3>2. Matches(screen, queue', exo')
      BY <1>3, <2>2, <2>4, <3>1 DEF Matches, FailedStates
    <3>3. GoodPlayer(exo')
      BY <1>1 DEF BaseInv, GoodPlayer
    <3>4. Shows(exo', shown.failed) \in Snapshot
      BY <1>2, <3>3, ShowsTyped
    <3>5. WillBe(writes', "failed", shown'.failed, shown.failed)
      BY <1>2, <2>2, <3>1, <3>4, PutFacts
    <3>6. exo'.state \notin FailedStates => shown.failed = FALSE
      BY <1>3, <2>2, <3>1 DEF ShownFacts, WillBe, FailedStates
    <3>7. ShownFacts'
      BY <2>4, <3>1, <3>5, <3>6 DEF ShownFacts
    <3> QED
      BY <1>1, <2>2, <3>1, <3>2, <3>7 DEF PromptInv, TickFacts
  <2> QED
    BY <2>3, <2>4
<1>9. CASE Publish
  <2>1. /\ writes = <<>> /\ exo.file # NoFile /\ Put(Shows(exo, shown.failed))
        /\ UNCHANGED <<queue, exo>>
    BY <1>9 DEF Publish
  <2>2. Shows(exo, shown.failed) \in Snapshot
    BY <1>2, ShowsTyped
  <2>3. /\ WillBe(writes', "failed", shown'.failed, shown.failed)
        /\ shown.duration = DurationOf(exo) =>
             Stays(writes', "duration", shown'.duration, DurationOf(exo))
        /\ Stays(writes', "failed", shown'.failed, shown.failed)
    BY <1>2, <2>1, <2>2, PutFacts
  <2>4. exo.state \notin FailedStates => shown.failed = FALSE
    BY <1>3, <2>1 DEF ShownFacts, WillBe
  <2>5. Fresh => Fresh'
    BY <1>1, <2>1, <2>3 DEF Fresh, Stays, DurationOf, OpenStates
  <2> QED
    BY <1>1, <1>3, <2>1, <2>3, <2>4, <2>5 DEF PromptInv, ShownFacts, TickFacts
<1> QED
  BY <1>4, <1>5, <1>6, <1>8, <1>9 DEF MainThreadRuns, MainThread

LEMMA PromptPlayback ==
    ASSUME PromptInv, Playback
    PROVE  PromptInv'
<1>1. /\ BaseInv' /\ UNCHANGED <<screen, queue, writes, reading>> /\ reading.at = "none"
      /\ queue = <<>> /\ writes = <<>> /\ GoodPlayer(exo) /\ shown \in Snapshot
      /\ PlayerFacts(exo) /\ ShownFacts /\ Matches(screen, queue, exo)
  BY PlaybackTyped
     DEF PromptInv, BaseInv, Playback, NotReading, UpToDate, Opened, Fails, PlaysOn
<1>2. /\ exo.file = exo'.file /\ exo.file \in File /\ (exo.early => exo'.early)
      /\ exo.state \in {"opening", "ready"} /\ exo'.state # "idle"
      /\ PlayerFacts(exo')
      /\ exo'.state \notin FailedStates => shown' = shown
  <2>1. CASE Opened
    <3>1. /\ exo' = Moved(exo, exo.at, "ready") /\ exo.file # NoFile /\ exo.at \in Position
          /\ exo.state = "opening" /\ shown' = shown /\ exo.file \in File
          /\ exo.early \in BOOLEAN
      BY <1>1, <2>1 DEF Opened, GoodPlayer, Loaded
    <3>2. /\ exo'.file = exo.file /\ exo'.state = "ready" /\ exo'.at = exo.at
          /\ exo'.early = (exo.early \/ ("ready" \in OpenStates /\ exo.at < TailStart(Length[exo.file])))
      BY <1>1, <3>1, MovedTyped DEF State, OpenStates, FailedStates
    <3> QED
      BY <3>1, <3>2 DEF PlayerFacts, OpenStates
  <2>2. CASE Fails
    <3>1. /\ exo' = [exo EXCEPT !.state = IF @ = "opening" THEN "failed" ELSE "broken"]
          /\ exo.state \in {"opening", "ready"} /\ exo.file \in File
      BY <1>1, <2>2 DEF Fails, GoodPlayer, Loaded
    <3>2. /\ exo'.file = exo.file /\ exo'.early = exo.early /\ exo'.at = exo.at
          /\ exo'.state = (IF exo.state = "opening" THEN "failed" ELSE "broken")
      BY <1>1, <3>1 DEF GoodPlayer, Loaded
    <3> QED
      BY <1>1, <3>1, <3>2 DEF PlayerFacts, FailedStates
  <2>3. CASE PlaysOn
    <3>1. /\ exo.state = "ready" /\ exo.file \in File /\ exo.file # NoFile /\ exo.at \in Nat
          /\ Length[exo.file] \in Nat /\ shown' = shown /\ exo.early \in BOOLEAN
      BY <1>1, <2>3, Positions DEF PlaysOn, GoodPlayer, Loaded
    <3>2. CASE exo.at < Length[exo.file]
      <4>1. exo.at + 1 \in Position
        BY <3>1, <3>2, Positions
      <4>2. exo' = Moved(exo, exo.at + 1, "ready")
        BY <2>3, <3>2 DEF PlaysOn
      <4>3. /\ exo'.file = exo.file /\ exo'.state = "ready" /\ exo'.at = exo.at + 1
            /\ exo'.early =
                 (exo.early \/ ("ready" \in OpenStates /\ exo.at + 1 < TailStart(Length[exo.file])))
        BY <1>1, <3>1, <4>1, <4>2, MovedTyped DEF State, OpenStates, FailedStates
      <4> QED
        BY <3>1, <4>3 DEF PlayerFacts, OpenStates
    <3>3. CASE ~ (exo.at < Length[exo.file])
      <4>1. exo' = [exo EXCEPT !.state = "ended"]
        BY <2>3, <3>3 DEF PlaysOn
      <4>2. /\ exo'.file = exo.file /\ exo'.state = "ended" /\ exo'.at = exo.at
            /\ exo'.early = exo.early
        BY <1>1, <4>1 DEF GoodPlayer, Loaded
      <4> QED
        BY <3>1, <3>3, <4>2 DEF PlayerFacts
    <3> QED
      BY <3>2, <3>3
  <2> QED
    BY <2>1, <2>2, <2>3 DEF Playback
<1>3. Matches(screen, queue, exo')
  BY <1>1, <1>2 DEF Matches, NoFile, File, FailedStates
<1>4. ShownFacts'
  <2>1. exo'.file # NoFile
    BY <1>2 DEF NoFile, File
  <2>2. exo'.state \notin FailedStates => WillBe(writes', "failed", shown'.failed, FALSE)
    BY <1>1, <1>2 DEF ShownFacts, FailedStates
  <2> QED
    BY <2>1, <2>2 DEF ShownFacts
<1> QED
  BY <1>1, <1>2, <1>3, <1>4 DEF PromptInv, TickFacts

LEMMA PromptWait ==
    ASSUME PromptInv, NEW result \in {"ready", "failed"}, WaitEnds(result)
    PROVE  PromptInv'
<1>1. /\ BaseInv' /\ screen.phase = "buffering" /\ screen'.phase = "buffering"
      /\ UNCHANGED <<queue, exo, shown, writes, reading>>
  BY WaitTyped DEF PromptInv
<1>2. reading'.at = "none"
  BY <1>1 DEF BaseInv
<1>3. Matches(screen', queue', exo')
  BY <1>1 DEF PromptInv, Matches
<1> QED
  BY <1>1, <1>2, <1>3 DEF PromptInv, ShownFacts, TickFacts

LEMMA PromptInit == Init => PromptInv
<1> SUFFICES ASSUME Init PROVE PromptInv
  OBVIOUS
<1>1. /\ BaseInv /\ queue = <<>> /\ exo = Idle /\ shown = Cleared /\ writes = <<>>
      /\ screen = Closed /\ reading = NotReading
  BY BaseInit DEF Init, PlayerInit
<1>2. Matches(screen, queue, exo)
  BY <1>1, WillHaveNow DEF Matches, Closed, State0, Idle
<1>3. ShownFacts
  BY <1>1 DEF ShownFacts, WillBe, Cleared
<1> QED
  BY <1>1, <1>2, <1>3 DEF PromptInv, PlayerFacts, TickFacts, Idle, NotReading

LEMMA PromptStep == KeepsUp /\ PromptInv /\ [Next]_vars => PromptInv'
<1> SUFFICES ASSUME KeepsUp, PromptInv, [Next]_vars PROVE PromptInv'
  OBVIOUS
<1>1. CASE UNCHANGED vars
  <2>1. BaseInv'
    BY BaseStep DEF PromptInv
  <2>2. UNCHANGED <<queue, exo, shown, writes, screen, reading>>
    BY <1>1 DEF vars, playerVars, screenVars
  <2> QED
    BY <2>1, <2>2 DEF PromptInv, ShownFacts, TickFacts, Quiet, UpToDate, Fresh
<1>2. CASE Elapse
  <2>1. BaseInv' /\ UNCHANGED <<queue, exo, shown, writes, screen, reading>>
    BY <1>2, ElapseTyped DEF PromptInv, Elapse, playerVars
  <2> QED
    BY <2>1 DEF PromptInv, ShownFacts, TickFacts, Quiet, UpToDate, Fresh
<1>3. CASE Tick \/ UserInput \/ MainThreadRuns \/ Playback
  BY <1>3, PromptTick, PromptInput, PromptMainThread, PromptPlayback
<1>4. CASE \E result \in {"ready", "failed"} : WaitEnds(result)
  BY <1>4, PromptWait
<1> QED
  BY <1>1, <1>2, <1>3, <1>4 DEF Next

LEMMA PromptAlways == KeepsUp => (Spec => []PromptInv)
<1> SUFFICES ASSUME KeepsUp PROVE Spec => []PromptInv
  OBVIOUS
<1>1. PromptInv /\ [Next]_vars => PromptInv'
  BY PromptStep
<1> QED
  BY <1>1, PromptInit, PTL DEF Spec

-----------------------------------------------------------------------------
LEMMA InTickIsRest == [Next]_vars /\ InTick => TickRest
<1> SUFFICES ASSUME [Next]_vars, reading.at = "duration", reading'.at = "none" PROVE TickRest
  BY DEF InTick
<1>1. reading # NotReading /\ reading' # reading
  BY DEF NotReading
<1>2. ~UserInput
  BY <1>1 DEF UserInput, Start, Jump, Seek, Skip, Nudge, StopPlayback, Toggle, Cover, Uncover, OnPlayer, Input
<1>3. \A result : ~WaitEnds(result)
  BY <1>1 DEF WaitEnds
<1>4. ~Elapse /\ ~MainThreadRuns /\ ~Playback /\ ~TickFlags /\ ~TickPosition
  BY <1>1 DEF Elapse, MainThreadRuns, screenVars, Playback, TickFlags, TickPosition
<1>5. ~UNCHANGED vars
  BY <1>1 DEF vars, screenVars
<1> QED
  BY <1>2, <1>3, <1>4, <1>5 DEF Next, Tick

(* The end of a tick: the frame is kept, and then there may be a next file. *)
LEMMA TickEnds ==
    ASSUME PromptInv, KeepsUp, TickRest
    PROVE  LET k == Kept(World, Seen) IN
           /\ reading.at = "duration" /\ GoodWorld(k) /\ IsPlaying(k)
           /\ k.screen.file = screen.file
           /\ k.screen.failed = (screen.failed \/ Seen.failed)
           /\ k.screen.played =
                (screen.played \/ (Seen.duration # 0 /\ Seen.position < TailStart(Seen.duration)))
           /\ IsRestartDue(screen, Seen.duration) => k.queue = Append(queue, SeekTo(0))
           /\ ~IsRestartDue(screen, Seen.duration) =>
                k.queue = queue /\ k.screen.time = Seen.position
           /\ \/ screen' = k.screen /\ queue' = k.queue
              \/ /\ "ended" \in Seen.flags /\ k.screen.played
                 /\ \E f \in File : /\ screen'.file = f /\ f # screen.file
                                    /\ timecode' = SaveProgress(k, TRUE).timecode
                                    /\ \E cmd : IsSwitch(cmd) /\ queue' = Append(k.queue, cmd)
<1> DEFINE n == Tailed(screen, Seen)
           k == Kept(World, Seen)
<1>1. /\ Become(Follow(World, Seen, TRUE)) /\ reading.at = "duration"
  <2>1. Answer = {TRUE}
    BY OneAnswer
  <2> QED
    BY <2>1 DEF TickRest, Seen
<1>2. /\ GoodWorld(World) /\ IsPlaying(World) /\ World.screen = screen
      /\ World.queue = queue /\ screen \in Screen /\ Seen \in Snapshot
      /\ GoodWorld(k) /\ IsPlaying(k)
  BY <1>1, WhatATickSees, MatchesFollowed, Worlds DEF PromptInv, BaseInv, World, IsPlaying
<1>3. /\ n.file = screen.file /\ n.failed = (screen.failed \/ Seen.failed)
      /\ n.played = (screen.played \/ (Seen.duration # 0 /\ Seen.position < TailStart(Seen.duration)))
  BY <1>2, TailTracked
<1>4. /\ SameCourse(k.screen, n)
      /\ IsRestartDue(screen, Seen.duration) => k.queue = Append(queue, SeekTo(0))
      /\ ~IsRestartDue(screen, Seen.duration) => k.queue = queue /\ k.screen.time = Seen.position
  BY <1>2, KeptWell
<1>5. Follow(World, Seen, TRUE) =
        IF "ended" \in Seen.flags /\ n.played /\ AutoNext THEN NextFile(k, TRUE) ELSE k
  BY <1>2, FollowIsKept
<1>6. \A v : v = Follow(World, Seen, TRUE) =>
                screen' = v.screen /\ queue' = v.queue /\ timecode' = v.timecode
  BY <1>1 DEF Become
<1> HIDE DEF n, k
<1>7. \/ screen' = k.screen /\ queue' = k.queue
      \/ /\ "ended" \in Seen.flags /\ n.played
         /\ \E f \in File : /\ screen'.file = f /\ f # screen.file
                            /\ timecode' = SaveProgress(k, TRUE).timecode
                            /\ \E cmd : IsSwitch(cmd) /\ queue' = Append(k.queue, cmd)
  <2>1. CASE ~("ended" \in Seen.flags /\ n.played /\ AutoNext) \/ ~HasNext(k)
    <3>1. Follow(World, Seen, TRUE) = k
      BY <1>2, <1>5, <2>1, WentNext
    <3> QED
      BY <1>6, <3>1
  <2>2. CASE ("ended" \in Seen.flags /\ n.played /\ AutoNext) /\ HasNext(k)
    <3> DEFINE f == k.screen.file + 1
               a == SaveProgress(k, TRUE)
               v == BeginLoad(a, f, a.timecode[f], TRUE)
    <3>1. f \in File /\ Follow(World, Seen, TRUE) = JumpToFile(k, f, TRUE)
      BY <1>2, <1>5, <2>2, WentNext
    <3>2. k.screen.file \in Nat
      BY <1>2 DEF GoodWorld, GoodScreen, IsPlaying, File
    <3> HIDE DEF f
    <3>3. f # k.screen.file
      BY <3>2 DEF f
    <3>4. /\ GoodWorld(a) /\ a.timecode[f] \in Position
          /\ JumpToFile(k, f, TRUE) = v
      BY <1>2, <3>1, <3>3, Jumped
    <3>5. a.queue = k.queue
      BY <1>2, Saved
    <3> HIDE DEF a
    <3>6. /\ v.timecode = a.timecode
          /\ \/ v.screen = Buffering(f, a.timecode[f]) /\ v.queue = Append(a.queue, Stop)
             \/ /\ IsFresh(v.screen, f, a.timecode[f])
                /\ v.queue = Append(a.queue, Load(f, a.timecode[f]))
      <4>1. \A ok \in BOOLEAN :
              /\ BeginLoad(a, f, a.timecode[f], ok).timecode = a.timecode
              /\ WaitPreload =>
                   /\ BeginLoad(a, f, a.timecode[f], ok).screen = Buffering(f, a.timecode[f])
                   /\ BeginLoad(a, f, a.timecode[f], ok).queue = Append(a.queue, Stop)
              /\ ~WaitPreload =>
                   /\ IsFresh(BeginLoad(a, f, a.timecode[f], ok).screen, f, a.timecode[f])
                   /\ ok => BeginLoad(a, f, a.timecode[f], ok).queue
                              = Append(a.queue, Load(f, a.timecode[f]))
        BY <3>1, <3>4, Began
      <4> QED
        BY <4>1
    <3> HIDE DEF v
    <3>7. /\ IsSwitch(Stop) /\ IsSwitch(Load(f, a.timecode[f]))
          /\ Buffering(f, a.timecode[f]).file = f
      BY <3>1, <3>4, Commands, States DEF IsSwitch
    <3>8. v.screen.file = f
      BY <3>6, <3>7 DEF IsFresh
    <3>9. screen' = v.screen /\ queue' = v.queue /\ timecode' = v.timecode
      BY <1>6, <3>1, <3>4
    <3>10. f # screen.file
      BY <1>3, <1>4, <3>3 DEF SameCourse
    <3>11. \E cmd : IsSwitch(cmd) /\ queue' = Append(k.queue, cmd)
      BY <3>5, <3>6, <3>7, <3>9
    <3> QED
      BY <2>2, <3>1, <3>6, <3>8, <3>9, <3>10, <3>11 DEF a
  <2> QED
    BY <2>1, <2>2
<1> QED
  BY <1>1, <1>2, <1>3, <1>4, <1>7 DEF SameCourse, k

(***************************************************************************)
(* has_played_before_tail: with a main thread that keeps up, the end that  *)
(* makes a tick go on to the next file is the end of the file on screen,   *)
(* and that very file has been played before its tail: the flag is never   *)
(* left over from the file before it or from the frames of another load.   *)
(***************************************************************************)
THEOREM EndIsOfAFileSeen == KeepsUp => (Spec => EndHandsOverOnceSeen)
<1> SUFFICES ASSUME KeepsUp PROVE Spec => EndHandsOverOnceSeen
  OBVIOUS
<1>1. PromptInv /\ [Next]_vars
        => (InTick /\ screen'.file # screen.file => exo.file = screen.file /\ exo.early)
  <2> SUFFICES ASSUME PromptInv, [Next]_vars, InTick, screen'.file # screen.file
               PROVE  exo.file = screen.file /\ exo.early
    OBVIOUS
  <2>1. TickRest
    BY InTickIsRest
  <2>2. /\ reading.at = "duration" /\ "ended" \in Seen.flags
        /\ screen.played \/ (Seen.duration # 0 /\ Seen.position < TailStart(Seen.duration))
    BY <2>1, TickEnds
  <2>3. /\ Seen.duration # 0 /\ exo.file = screen.file
        /\ Seen.position < TailStart(Seen.duration) => exo.early
        /\ screen.phase = "playing"
    BY <2>2, WhatATickSees
  <2>4. screen.played => exo.early
    BY <2>3 DEF PromptInv, Matches
  <2> QED
    BY <2>2, <2>3, <2>4
<1> QED
  BY <1>1, PromptAlways, PTL DEF Spec, EndHandsOverOnceSeen

(***************************************************************************)
(* track_tail: with a main thread that keeps up, the duration a tick       *)
(* compares the start of a file with is that file's own, so only a file    *)
(* that was opened in its tail starts over.                                *)
(***************************************************************************)
THEOREM StartsOverOnceFinished == KeepsUp => (Spec => OnlyFinishedStartsOver)
<1> SUFFICES ASSUME KeepsUp PROVE Spec => OnlyFinishedStartsOver
  OBVIOUS
<1>1. PromptInv /\ [Next]_vars
        => (InTick /\ queue' = Append(queue, SeekTo(0))
              => screen.start >= TailStart(Length[screen.file]))
  <2> SUFFICES ASSUME PromptInv, [Next]_vars, InTick, queue' = Append(queue, SeekTo(0))
               PROVE  screen.start >= TailStart(Length[screen.file])
    OBVIOUS
  <2>1. TickRest
    BY InTickIsRest
  <2>2. Seen \in Snapshot /\ Seen.duration # 0 => Seen.duration = Length[screen.file]
    BY <2>1, TickEnds, WhatATickSees
  <2>3. CASE IsRestartDue(screen, Seen.duration)
    <3>1. Seen.duration # 0 /\ screen.start >= TailStart(Seen.duration)
      <4>1. Seen.duration \in Nat
        BY <2>1, TickEnds, WhatATickSees, Positions DEF Snapshot
      <4> QED
        BY <2>3, <4>1 DEF IsRestartDue
    <3> QED
      BY <2>1, <3>1, TickEnds, WhatATickSees
  <2>4. CASE ~IsRestartDue(screen, Seen.duration)
    <3>1. /\ GoodQueue(queue)
          /\ queue' = queue \/ \E cmd : IsSwitch(cmd) /\ queue' = Append(queue, cmd)
      BY <2>1, <2>4, TickEnds, Worlds DEF PromptInv, BaseInv, World
    <3>2. /\ queue \in Seq(Command) /\ Len(queue) \in Nat
          /\ \A cmd : /\ Append(queue, cmd)[Len(queue) + 1] = cmd
                      /\ Len(Append(queue, cmd)) = Len(queue) + 1
      BY <3>1 DEF GoodQueue
    <3>3. SeekTo(0).op = "seek"
      BY DEF SeekTo
    <3> QED
      BY <3>1, <3>2, <3>3 DEF IsSwitch
  <2> QED
    BY <2>3, <2>4
<1> QED
  BY <1>1, PromptAlways, PTL DEF Spec, OnlyFinishedStartsOver

(***************************************************************************)
(* Player::load clears the failure of the stream it replaces: with a main  *)
(* thread that keeps up, an error that a tick puts up is of the file that  *)
(* is on screen.                                                           *)
(***************************************************************************)
THEOREM ErrorIsItsOwn == KeepsUp => (Spec => ErrorIsOfThisFile)
<1> SUFFICES ASSUME KeepsUp PROVE Spec => ErrorIsOfThisFile
  OBVIOUS
<1>1. PromptInv /\ [Next]_vars
        => (InTick /\ screen'.failed /\ ~screen.failed /\ screen'.file = screen.file
              => exo.file = screen.file /\ exo.state \in FailedStates)
  <2> SUFFICES ASSUME PromptInv, [Next]_vars, InTick, screen'.failed, ~screen.failed,
                      screen'.file = screen.file
               PROVE  exo.file = screen.file /\ exo.state \in FailedStates
    OBVIOUS
  <2>1. TickRest
    BY InTickIsRest
  <2>2. Seen.failed /\ reading.at = "duration"
    BY <2>1, TickEnds
  <2>3. queue = <<>> /\ exo.state \in FailedStates /\ screen.phase = "playing"
    BY <2>2, WhatATickSees
  <2>4. WillHave(queue, exo.file, screen.file)
    BY <2>3 DEF PromptInv, Matches
  <2> QED
    BY <2>3, <2>4, WillHaveNow
<1> QED
  BY <1>1, PromptAlways, PTL DEF Spec, ErrorIsOfThisFile

(***************************************************************************)
(* next_file saves what it leaves: with a main thread that keeps up, a     *)
(* file that ended and handed over is stored at its end, not at the start  *)
(* a restart has just sought and not where an error left it.               *)
(***************************************************************************)
THEOREM EndIsStored == KeepsUp => (Spec => HandedOverIsFinished)
<1> SUFFICES ASSUME KeepsUp PROVE Spec => HandedOverIsFinished
  OBVIOUS
<1>1. PromptInv /\ [Next]_vars
        => (InTick /\ screen'.file # screen.file
              => timecode'[screen.file] >= TailStart(Length[screen.file]))
  <2> SUFFICES ASSUME PromptInv, [Next]_vars, InTick, screen'.file # screen.file
               PROVE  timecode'[screen.file] >= TailStart(Length[screen.file])
    OBVIOUS
  <2> DEFINE k == Kept(World, Seen)
  <2>1. TickRest
    BY InTickIsRest
  <2>2. /\ reading.at = "duration" /\ "ended" \in Seen.flags
        /\ GoodWorld(k) /\ IsPlaying(k) /\ k.screen.file = screen.file
        /\ k.screen.failed = (screen.failed \/ Seen.failed)
        /\ screen.played \/ (Seen.duration # 0 /\ Seen.position < TailStart(Seen.duration))
        /\ ~IsRestartDue(screen, Seen.duration) => k.screen.time = Seen.position
        /\ timecode' = SaveProgress(k, TRUE).timecode
    BY <2>1, TickEnds
  <2>3. /\ Seen \in Snapshot /\ Seen.duration # 0 /\ exo.file = screen.file /\ screen.file \in File
        /\ exo.state = "ended" /\ Seen.position >= Seen.duration
        /\ Seen.duration = Length[screen.file] /\ screen.phase = "playing" /\ ~Seen.failed
    BY <2>2, WhatATickSees DEF FailedStates
  <2>4. Seen.position \in Nat /\ Seen.duration \in Nat
    BY <2>3, Positions DEF Snapshot
  <2>5. screen.played
    BY <2>2, <2>3, <2>4 DEF TailStart
  <2>6. screen.checked /\ ~screen.failed
    BY <2>3, <2>5 DEF PromptInv, Matches, File, NoFile, OpenStates, FailedStates
  <2>7. ~IsRestartDue(screen, Seen.duration)
    BY <2>6 DEF IsRestartDue
  <2> HIDE DEF k
  <2>8. SaveProgress(k, TRUE).timecode[k.screen.file] = k.screen.time
    BY <2>2, <2>3, <2>6, Saved
  <2>9. timecode'[screen.file] = Seen.position
    BY <2>2, <2>7, <2>8
  <2>10. TailStart(Length[screen.file]) = Seen.duration - 1
    BY <2>3 DEF TailStart
  <2> QED
    BY <2>3, <2>4, <2>9, <2>10
<1> QED
  BY <1>1, PromptAlways, PTL DEF Spec, HandedOverIsFinished

-----------------------------------------------------------------------------
(***************************************************************************)
(* Where a file may be while it opens.  The tick that ends a preload wait  *)
(* loads the file and reads the fields at once, and mpv reports no time    *)
(* before a file has opened: either may save a position nobody asked for.  *)
(* And a seek past the end of a file ends up at its end.                   *)
(***************************************************************************)
Fits(to) == \A f \in File : to <= Length[f]

OpensWhereAsked == KeepsUp /\ MasksStart /\ ~WaitPreload /\ \A to \in Seekable : Fits(to)

Allowed(cmd, a) ==
    /\ cmd.op \in {"load", "seek"} => cmd.at \in a
    /\ cmd.op \in {"back", "forward"} => a = Position

HasOpened(s, q, e) == NoSwitch(q) /\ e.file = s.file /\ e.state # "opening"

(* What is posted for the file on screen, where that file opens, and what  *)
(* the screen shows before it has.                                         *)
AskedFor(s, q, a, e) ==
    s.phase = "playing" =>
      /\ WillHave(q, e.file, s.file)
      /\ \A i \in 1..Len(q) : NoneAfter(q, i) => Allowed(q[i], a)
      /\ NoSwitch(q) /\ e.state = "opening" => e.at \in a
      /\ HasOpened(s, q, e) \/ s.time \in a

SeeksFit(q) == \A i \in 1..Len(q) : q[i].op = "seek" => Fits(q[i].at)

OpenWorld(w, e) ==
    /\ w.screen.phase # "buffering"
    /\ SeeksFit(w.queue)
    /\ AskedFor(w.screen, w.queue, w.asked, e)

OpenInv ==
    /\ PromptInv
    /\ OpenWorld(World, exo)
    /\ reading.at # "none" => Quiet

LEMMA SeeksKept ==
    ASSUME NEW q, GoodQueue(q), NEW cmd, GoodCommand(cmd), SeeksFit(q),
           cmd.op = "seek" => Fits(cmd.at)
    PROVE  SeeksFit(Append(q, cmd))
<1>1. /\ Len(q) \in Nat /\ Len(Append(q, cmd)) = Len(q) + 1 /\ Append(q, cmd)[Len(q) + 1] = cmd
      /\ \A i \in 1..Len(q) : Append(q, cmd)[i] = q[i]
  BY DEF GoodQueue, GoodCommand
<1> QED
  BY <1>1 DEF SeeksFit

(* The screen keeps its file, and what may be asked for only grows. *)
LEMMA AskedKept ==
    ASSUME NEW s, NEW q, NEW a, NEW e, AskedFor(s, q, a, e), GoodQueue(q),
           NEW t, t.phase = s.phase, t.file = s.file,
           NEW b \in SUBSET Position, a \subseteq b,
           s.phase = "playing" => t.time = s.time \/ t.time \in b \/ HasOpened(s, q, e)
    PROVE  /\ AskedFor(t, q, b, e)
           /\ \A cmd : GoodCommand(cmd) /\ ~IsSwitch(cmd) /\ Allowed(cmd, b)
                         => AskedFor(t, Append(q, cmd), b, e)
<1>1. \A i \in 1..Len(q) : Allowed(q[i], a) => Allowed(q[i], b)
  BY DEF Allowed
<1>2. AskedFor(t, q, b, e)
  BY <1>1 DEF AskedFor, HasOpened
<1>3. ASSUME NEW cmd, GoodCommand(cmd), ~IsSwitch(cmd), Allowed(cmd, b), t.phase = "playing"
      PROVE  AskedFor(t, Append(q, cmd), b, e)
  <2> DEFINE r == Append(q, cmd)
  <2>1. /\ Len(q) \in Nat /\ Len(r) = Len(q) + 1 /\ r[Len(q) + 1] = cmd
        /\ \A i \in 1..Len(q) : r[i] = q[i]
    BY <1>3 DEF GoodQueue, GoodCommand
  <2>2. /\ NoSwitch(q) => NoSwitch(r)
        /\ \A have, f : WillHave(q, have, f) => WillHave(r, have, f)
    BY <1>3, WillHaveKept
  <2> HIDE DEF r
  <2>3. NoSwitch(r) => NoSwitch(q)
    BY <2>1 DEF NoSwitch, NoneAfter
  <2>4. \A i \in 1..Len(q) : NoneAfter(r, i) => NoneAfter(q, i)
    BY <2>1 DEF NoneAfter
  <2>5. \A i \in 1..Len(r) : NoneAfter(r, i) => Allowed(r[i], b)
    BY <1>2, <1>3, <2>1, <2>4 DEF AskedFor
  <2>6. HasOpened(t, q, e) => HasOpened(t, r, e)
    BY <2>2 DEF HasOpened
  <2>7. AskedFor(t, r, b, e)
    BY <1>2, <1>3, <2>2, <2>3, <2>5, <2>6 DEF AskedFor
  <2> QED
    BY <2>7 DEF r
<1>4. ASSUME NEW cmd, t.phase # "playing" PROVE AskedFor(t, Append(q, cmd), b, e)
  BY <1>4 DEF AskedFor
<1> QED
  BY <1>2, <1>3, <1>4

LEMMA OpenBegun ==
    ASSUME NEW w, GoodWorld(w), NEW f \in File, NEW start \in Position, ~WaitPreload,
           SeeksFit(w.queue)
    PROVE  \A e : OpenWorld(BeginLoad(w, f, start, TRUE), e)
<1> DEFINE v == BeginLoad(w, f, start, TRUE)
           cmd == Load(f, start)
           r == Append(w.queue, cmd)
<1>1. /\ v.asked = {start} /\ IsFresh(v.screen, f, start) /\ v.queue = r
  <2>1. \A ok \in BOOLEAN :
          /\ BeginLoad(w, f, start, ok).asked = {start}
          /\ IsFresh(BeginLoad(w, f, start, ok).screen, f, start)
          /\ ok => BeginLoad(w, f, start, ok).queue = Append(w.queue, Load(f, start))
    BY Began
  <2> QED
    BY <2>1
<1> HIDE DEF v
<1>2. /\ GoodQueue(w.queue) /\ GoodCommand(cmd) /\ IsSwitch(cmd) /\ cmd.file = f
      /\ cmd.op = "load" /\ cmd.at = start
  BY Commands DEF GoodWorld, IsSwitch
<1>3. /\ Len(w.queue) \in Nat /\ Len(r) = Len(w.queue) + 1 /\ r[Len(w.queue) + 1] = cmd
  BY <1>2 DEF GoodQueue, GoodCommand
<1> HIDE DEF cmd
<1>4. \A have : WillHave(r, have, f)
  BY <1>2, WillHaveNew
<1>5. SeeksFit(r)
  BY <1>2, SeeksKept
<1> HIDE DEF r
<1>6. \A i \in 1..Len(r) : NoneAfter(r, i) => r[i] = cmd
  <2>1. \A i \in 1..Len(w.queue) : ~NoneAfter(r, i)
    BY <1>2, <1>3 DEF NoneAfter
  <2> QED
    BY <1>3, <2>1
<1>7. ~NoSwitch(r)
  BY <1>2, <1>3 DEF NoSwitch, NoneAfter
<1>8. Allowed(cmd, {start})
  BY <1>2 DEF Allowed
<1>9. \A e : AskedFor(v.screen, v.queue, v.asked, e)
  BY <1>1, <1>4, <1>6, <1>7, <1>8 DEF AskedFor, IsFresh
<1>10. \A e : OpenWorld(v, e)
  BY <1>1, <1>5, <1>9 DEF OpenWorld, IsFresh
<1> QED
  BY <1>10 DEF v

LEMMA OpenJumped ==
    ASSUME NEW w, GoodWorld(w), NEW f \in File, ~WaitPreload, NEW e, OpenWorld(w, e)
    PROVE  OpenWorld(JumpToFile(w, f, TRUE), e)
<1> DEFINE a == SaveProgress(w, TRUE)
<1>1. /\ GoodWorld(a) /\ a.timecode[f] \in Position
      /\ f = w.screen.file => JumpToFile(w, f, TRUE) = a
      /\ f # w.screen.file => JumpToFile(w, f, TRUE) = BeginLoad(a, f, a.timecode[f], TRUE)
  BY Jumped
<1>2. a.screen = w.screen /\ a.queue = w.queue /\ a.asked = w.asked
  BY Saved
<1> HIDE DEF a
<1>3. OpenWorld(a, e) /\ SeeksFit(a.queue)
  BY <1>2 DEF OpenWorld
<1>4. OpenWorld(BeginLoad(a, f, a.timecode[f], TRUE), e)
  BY <1>1, <1>3, OpenBegun
<1> QED
  BY <1>1, <1>3, <1>4

LEMMA OpenNext ==
    ASSUME NEW w, GoodWorld(w), IsPlaying(w), ~WaitPreload, NEW e, OpenWorld(w, e)
    PROVE  OpenWorld(NextFile(w, TRUE), e)
<1>1. /\ HasNext(w) => /\ w.screen.file + 1 \in File
                       /\ NextFile(w, TRUE) = JumpToFile(w, w.screen.file + 1, TRUE)
      /\ ~HasNext(w) => NextFile(w, TRUE) = w
  BY WentNext
<1>2. \A f \in File : OpenWorld(JumpToFile(w, f, TRUE), e)
  BY OpenJumped
<1> QED
  BY <1>1, <1>2

LEMMA OpenSought ==
    ASSUME NEW w, GoodWorld(w), IsPlaying(w), NEW to \in Position, Fits(to), NEW e,
           OpenWorld(w, e)
    PROVE  OpenWorld(SeekAbs(w, to), e)
<1> DEFINE v == SeekAbs(w, to)
<1>1. GoodCommand(SeekTo(to)) /\ ~IsSwitch(SeekTo(to)) /\ SeekTo(to).op = "seek" /\ SeekTo(to).at = to
  BY Commands DEF IsSwitch
<1>2. /\ v.queue = Append(w.queue, SeekTo(to)) /\ v.asked = w.asked \cup {to}
      /\ SameCourse(v.screen, w.screen) /\ v.screen.time = to
  BY Sought
<1>3. /\ GoodQueue(w.queue) /\ SeeksFit(w.queue) /\ w.asked \in SUBSET Position
      /\ AskedFor(w.screen, w.queue, w.asked, e)
  BY DEF GoodWorld, WorldState, OpenWorld
<1> HIDE DEF v
<1>4. Allowed(SeekTo(to), v.asked)
  BY <1>1, <1>2 DEF Allowed
<1>5. v.asked \in SUBSET Position /\ w.asked \subseteq v.asked /\ v.screen.time \in v.asked
  BY <1>2, <1>3
<1>6. AskedFor(v.screen, Append(w.queue, SeekTo(to)), v.asked, e)
  <2>1. v.screen.phase = w.screen.phase /\ v.screen.file = w.screen.file
    BY <1>2 DEF SameCourse
  <2> QED
    BY <1>1, <1>3, <1>4, <1>5, <2>1, AskedKept
<1>7. SeeksFit(Append(w.queue, SeekTo(to)))
  BY <1>1, <1>3, SeeksKept
<1>8. OpenWorld(v, e)
  BY <1>2, <1>6, <1>7 DEF OpenWorld, SameCourse, IsPlaying
<1> QED
  BY <1>8 DEF v

LEMMA OpenIsOpen ==
    ASSUME NEW w, OpenWorld(w, exo'), screen' = w.screen, queue' = w.queue, asked' = w.asked
    PROVE  OpenWorld(World, exo)'
  BY DEF OpenWorld, World

LEMMA OpenInput ==
    ASSUME OpenInv, OpensWhereAsked, UserInput
    PROVE  OpenInv'
<1>1. /\ GoodWorld(World) /\ timecode \in [File -> Position] /\ World.screen = screen
      /\ World.queue = queue /\ World.asked = asked /\ OpenWorld(World, exo)
      /\ IsPlaying(World) = (screen.phase = "playing") /\ GoodQueue(queue) /\ SeeksFit(queue)
      /\ AskedFor(screen, queue, asked, exo) /\ screen.phase # "buffering"
      /\ asked \in SUBSET Position /\ ~WaitPreload /\ Answer = {TRUE} /\ screen \in Screen
      /\ exo.at \in Position
  BY Worlds, OneAnswer
     DEF OpenInv, PromptInv, BaseInv, World, IsPlaying, OpenWorld, OpensWhereAsked, GoodPlayer, Loaded
<1>2. ASSUME NEW w, Input(w), OpenWorld(w, exo) PROVE OpenInv'
  <2>1. PromptInv'
    BY PromptInput DEF OpenInv, OpensWhereAsked
  <2>2. /\ screen' = w.screen /\ queue' = w.queue /\ asked' = w.asked /\ exo' = exo
        /\ reading'.at = "none"
    BY <1>2 DEF Input, Become, NotReading
  <2>3. OpenWorld(World, exo)'
    BY <1>2, <2>2, OpenIsOpen
  <2> QED
    BY <2>1, <2>2, <2>3 DEF OpenInv
<1>3. ASSUME NEW f \in File, Start(f, TRUE) \/ Jump(f, TRUE) PROVE OpenInv'
  <2>1. timecode[f] \in Position
    BY <1>1
  <2>2. OpenWorld(BeginLoad(World, f, timecode[f], TRUE), exo)
    BY <1>1, <2>1, OpenBegun
  <2>3. OpenWorld(JumpToFile(World, f, TRUE), exo)
    BY <1>1, OpenJumped
  <2>4. Input(BeginLoad(World, f, timecode[f], TRUE)) \/ Input(JumpToFile(World, f, TRUE))
    BY <1>3 DEF Start, Jump, OnPlayer
  <2> QED
    BY <1>2, <2>2, <2>3, <2>4
<1>4. ASSUME NEW to \in Seekable, Seek(to) \/ Skip(to, TRUE) PROVE OpenInv'
  <2>1. to \in Position /\ IsPlaying(World) /\ Fits(to)
    BY <1>1, <1>4, ScreenAssumption DEF Seek, Skip, OpensWhereAsked
  <2>2. OpenWorld(SeekAbs(World, to), exo)
    BY <1>1, <2>1, OpenSought
  <2>3. OpenWorld(NextFile(World, TRUE), exo)
    BY <1>1, <2>1, OpenNext
  <2>4. Input(SeekAbs(World, to)) \/ Input(NextFile(World, TRUE))
    BY <1>4 DEF Seek, Skip, SkipOrNext, OnPlayer
  <2> QED
    BY <1>2, <2>2, <2>3, <2>4
<1>5. ASSUME NEW way \in {"back", "forward"}, Nudge(way) PROVE OpenInv'
  <2> DEFINE v == Nudging(World, way)
             cmd == SeekBy(way)
  <2>1. GoodCommand(cmd) /\ cmd.op = way
    BY Commands
  <2>2. ~IsSwitch(cmd) /\ Allowed(cmd, Position) /\ cmd.op # "seek"
    BY <2>1 DEF IsSwitch, Allowed
  <2>3. v.screen = screen /\ v.queue = Append(queue, cmd) /\ v.asked = Position
    BY <1>1, NudgedWorld
  <2>4. Input(v)
    BY <1>5 DEF Nudge, Nudging, OnPlayer
  <2> HIDE DEF v, cmd
  <2>5. AskedFor(screen, Append(queue, cmd), Position, exo)
    BY <1>1, <2>1, <2>2, AskedKept
  <2>6. SeeksFit(Append(queue, cmd))
    BY <1>1, <2>1, <2>2, SeeksKept
  <2>7. OpenWorld(v, exo)
    BY <1>1, <2>3, <2>5, <2>6 DEF OpenWorld
  <2> QED
    BY <1>2, <2>4, <2>7
<1>6. ASSUME StopPlayback PROVE OpenInv'
  <2> DEFINE v == Stopping(World)
  <2>1. v.screen = Closed /\ v.queue = Append(queue, Stop)
    BY <1>1, StoppedWorld
  <2>2. Input(v)
    BY <1>6 DEF StopPlayback, Stopping, OnPlayer
  <2> HIDE DEF v
  <2>3. GoodCommand(Stop) /\ Stop.op # "seek"
    BY Commands
  <2>4. SeeksFit(Append(queue, Stop))
    BY <1>1, <2>3, SeeksKept
  <2>5. OpenWorld(v, exo)
    BY <2>1, <2>4, States DEF OpenWorld, AskedFor, Closed, State0
  <2> QED
    BY <1>2, <2>2, <2>5
<1>7. ASSUME Toggle PROVE OpenInv'
  <2> DEFINE cmd == SetPaused(~World.screen.paused)
             v == Toggling(World)
  <2>1. /\ cmd.op \in {"pause", "resume"} /\ v.queue = Append(queue, cmd)
        /\ SameCourse(v.screen, screen) /\ v.screen.time = screen.time /\ v.asked = asked
    BY <1>1, ToggledWorld
  <2>2. GoodCommand(cmd)
    <3>1. World.screen.paused \in BOOLEAN
      BY <1>1 DEF Screen
    <3> QED
      BY <3>1, Commands
  <2>3. Input(v)
    BY <1>1, <1>7 DEF Toggle, Toggling, OnPlayer
  <2> HIDE DEF cmd, v
  <2>4. ~IsSwitch(cmd) /\ Allowed(cmd, asked) /\ cmd.op # "seek"
    BY <2>1 DEF IsSwitch, Allowed
  <2>5. v.screen.phase = screen.phase /\ v.screen.file = screen.file
    BY <2>1 DEF SameCourse
  <2>6. AskedFor(v.screen, Append(queue, cmd), asked, exo)
    BY <1>1, <2>1, <2>2, <2>4, <2>5, AskedKept
  <2>7. SeeksFit(Append(queue, cmd))
    BY <1>1, <2>2, <2>4, SeeksKept
  <2>8. OpenWorld(v, exo)
    BY <1>1, <2>1, <2>5, <2>6, <2>7 DEF OpenWorld
  <2> QED
    BY <1>2, <2>3, <2>8
<1>8. ASSUME Cover \/ Uncover PROVE OpenInv'
  BY <1>1, <1>2, <1>8 DEF Cover, Uncover
<1> QED
  BY <1>1, <1>3, <1>4, <1>5, <1>6, <1>7, <1>8 DEF UserInput

(* A tick reads where the file on screen is, or where it will open. *)
LEMMA WhereATickIs ==
    ASSUME OpenInv, OpensWhereAsked, reading.at = "duration"
    PROVE  HasOpened(screen, queue, exo) \/ Seen.position \in asked
<1>1. /\ screen.phase = "playing" /\ GoodScreen(screen, waits) /\ Quiet
      /\ AskedFor(screen, queue, asked, exo)
  BY Worlds DEF OpenInv, PromptInv, BaseInv, OpenWorld, World
<1>2. /\ queue = <<>> /\ NoSwitch(queue) /\ Seen.position = shown.position
      /\ exo.file = NoFile \/ shown = Shows(exo, shown.failed)
  BY <1>1, WillHaveNow DEF Quiet, UpToDate, Seen
<1>3. exo.file = screen.file /\ exo.file # NoFile
  <2>1. WillHave(queue, exo.file, screen.file)
    BY <1>1 DEF AskedFor
  <2> QED
    BY <1>1, <1>2, <2>1, WillHaveNow DEF GoodScreen, File, NoFile
<1>4. exo.state = "opening" => exo.at \in asked
  BY <1>1, <1>2 DEF AskedFor
<1>5. MasksStart
  BY DEF OpensWhereAsked
<1>6. exo.state = "opening" => Seen.position = exo.at
  BY <1>2, <1>3, <1>5 DEF Shows, PositionOf
<1> QED
  BY <1>2, <1>3, <1>4, <1>6 DEF HasOpened

(* The frame that a tick keeps is one of what is asked for, or of a file   *)
(* that has opened.                                                        *)
LEMMA OpenKept ==
    ASSUME OpenInv, OpensWhereAsked, reading.at = "duration"
    PROVE  LET k == Kept(World, Seen) IN
           /\ GoodWorld(k) /\ IsPlaying(k) /\ OpenWorld(k, exo) /\ k.screen.file = screen.file
           /\ HasOpened(screen, queue, exo) \/ k.screen.time \in asked
           /\ \A f \in File : k.timecode[f] # timecode[f] =>
                /\ f = screen.file /\ k.timecode[f] = k.screen.time
<1> DEFINE n == Tailed(screen, Seen)
           k == Kept(World, Seen)
<1>1. /\ GoodWorld(World) /\ IsPlaying(World) /\ World.screen = screen
      /\ World.queue = queue /\ World.asked = asked /\ World.timecode = timecode
      /\ screen \in Screen /\ Seen \in Snapshot /\ GoodQueue(queue) /\ asked \in SUBSET Position
      /\ GoodWorld(k) /\ IsPlaying(k) /\ OpenWorld(World, exo) /\ screen.phase = "playing"
  BY WhatATickSees, MatchesFollowed, Worlds DEF OpenInv, PromptInv, BaseInv, World, IsPlaying
<1>2. /\ n.file = screen.file /\ n.phase = screen.phase
  BY <1>1, TailTracked
<1>3. /\ SameCourse(k.screen, n)
      /\ IsRestartDue(screen, Seen.duration) =>
           /\ k.queue = Append(queue, SeekTo(0)) /\ k.screen.time = 0 /\ k.asked = asked \cup {0}
      /\ ~IsRestartDue(screen, Seen.duration) =>
           /\ k.queue = queue /\ k.screen.time = Seen.position /\ k.asked = asked
      /\ \A f \in File : k.timecode[f] # timecode[f] =>
           f = screen.file /\ k.timecode[f] = k.screen.time
  BY <1>1, KeptWell
<1> HIDE DEF n, k
<1>4. k.screen.phase = screen.phase /\ k.screen.file = screen.file /\ k.asked \in SUBSET Position
  BY <1>1, <1>2, <1>3 DEF SameCourse, GoodWorld, WorldState
<1>5. /\ AskedFor(screen, queue, asked, exo) /\ SeeksFit(queue)
  BY <1>1 DEF OpenWorld
<1>6. CASE IsRestartDue(screen, Seen.duration)
  <2>1. /\ GoodCommand(SeekTo(0)) /\ SeekTo(0).op = "seek" /\ SeekTo(0).at = 0
    BY Commands, Positions
  <2>2. Fits(0)
    BY Positions DEF Fits
  <2>3. ~IsSwitch(SeekTo(0)) /\ Allowed(SeekTo(0), k.asked)
    BY <1>3, <1>6, <2>1 DEF IsSwitch, Allowed
  <2>4. asked \subseteq k.asked /\ k.screen.time \in k.asked
    BY <1>3, <1>6
  <2>5. AskedFor(k.screen, Append(queue, SeekTo(0)), k.asked, exo)
    BY <1>1, <1>4, <1>5, <2>1, <2>3, <2>4, AskedKept
  <2>6. SeeksFit(Append(queue, SeekTo(0)))
    BY <1>1, <1>5, <2>1, <2>2, SeeksKept
  <2>7. OpenWorld(k, exo)
    BY <1>1, <1>3, <1>4, <1>6, <2>5, <2>6 DEF OpenWorld
  <2>8. HasOpened(screen, queue, exo)
    <3>1. Seen.duration # 0
      BY <1>6 DEF IsRestartDue
    <3>2. queue = <<>> /\ exo.file = screen.file /\ exo.state \in OpenStates
      BY <3>1, WhatATickSees DEF OpenInv
    <3> QED
      BY <3>2, WillHaveNow DEF HasOpened, OpenStates
  <2> QED
    BY <1>1, <1>3, <1>4, <2>7, <2>8 DEF k
<1>7. CASE ~IsRestartDue(screen, Seen.duration)
  <2>1. HasOpened(screen, queue, exo) \/ k.screen.time \in asked
    BY <1>3, <1>7, WhereATickIs
  <2>2. AskedFor(k.screen, queue, asked, exo)
    BY <1>1, <1>4, <1>5, <2>1, AskedKept
  <2>3. OpenWorld(k, exo)
    BY <1>1, <1>3, <1>4, <1>5, <1>7, <2>2 DEF OpenWorld
  <2> QED
    BY <1>1, <1>3, <1>4, <2>1, <2>3 DEF k
<1> QED
  BY <1>6, <1>7

LEMMA OpenTick ==
    ASSUME OpenInv, OpensWhereAsked, Tick
    PROVE  OpenInv'
<1>1. /\ PromptInv' /\ Answer = {TRUE} /\ ~WaitPreload
      /\ OpenWorld(World, exo) /\ screen.phase # "buffering" /\ World.screen = screen
  BY PromptTick, OneAnswer DEF OpenInv, OpensWhereAsked, OpenWorld, World
<1>2. CASE TickFlags
  <2>1. /\ UpToDate /\ Become(PollBuffering(World, TRUE))
        /\ reading' = [at |-> "position", flags |-> shown.flags, position |-> 0]
    BY <1>1, <1>2, OneAnswer DEF TickFlags, OpensWhereAsked
  <2>2. PollBuffering(World, TRUE) = World
    <3>1. World.screen.wait # "ready"
      <4>1. GoodScreen(screen, waits)
        BY <1>1, Worlds DEF OpenInv, PromptInv, BaseInv, World
      <4> QED
        BY <1>1, <4>1 DEF GoodScreen
    <3> QED
      BY <1>1, <3>1 DEF PollBuffering
  <2>3. /\ screen' = screen /\ queue' = queue /\ asked' = asked
        /\ UNCHANGED <<exo, shown, writes>>
    <3>1. Become(World)
      BY <2>1, <2>2
    <3> QED
      BY <3>1 DEF Become, World
  <2>4. OpenWorld(World, exo)'
    BY <1>1, <2>3, OpenIsOpen DEF World
  <2>5. Quiet'
    BY <2>1, <2>3 DEF Quiet, UpToDate
  <2> QED
    BY <1>1, <2>4, <2>5 DEF OpenInv
<1>3. CASE TickPosition
  <2>1. /\ UNCHANGED <<queue, exo, shown, writes, screen, asked>>
        /\ reading' = [reading EXCEPT !.at = "duration", !.position = shown.position]
        /\ reading.at = "position"
    BY <1>3 DEF TickPosition, playerVars
  <2>2. reading \in Reading /\ Quiet
    BY <2>1 DEF OpenInv, PromptInv, BaseInv
  <2>3. reading'.flags = reading.flags /\ reading'.position = shown.position
    BY <2>1, <2>2 DEF Reading
  <2>4. Quiet'
    BY <2>1, <2>2, <2>3 DEF Quiet, UpToDate
  <2>5. OpenWorld(World, exo)'
    BY <1>1, <2>1, OpenIsOpen DEF World
  <2> QED
    BY <1>1, <2>4, <2>5 DEF OpenInv
<1>4. CASE TickRest
  <2> DEFINE k == Kept(World, Seen)
             v == Follow(World, Seen, TRUE)
  <2>1. /\ Become(v) /\ reading'.at = "none" /\ reading.at = "duration"
    BY <1>1, <1>4 DEF TickRest, Seen, NotReading
  <2>2. GoodWorld(k) /\ IsPlaying(k) /\ OpenWorld(k, exo)
    BY <2>1, OpenKept
  <2>3. v = k \/ v = NextFile(k, TRUE)
    BY FollowIsKept
  <2> HIDE DEF k, v
  <2>4. OpenWorld(NextFile(k, TRUE), exo)
    BY <1>1, <2>2, OpenNext
  <2>5. OpenWorld(v, exo)
    BY <2>2, <2>3, <2>4
  <2>6. screen' = v.screen /\ queue' = v.queue /\ asked' = v.asked /\ exo' = exo
    BY <2>1 DEF Become
  <2>7. OpenWorld(World, exo)'
    BY <2>5, <2>6, OpenIsOpen
  <2> QED
    BY <1>1, <2>1, <2>7 DEF OpenInv
<1> QED
  BY <1>2, <1>3, <1>4 DEF Tick

(***************************************************************************)
(* One command fewer: what is left of it is asked for as before.           *)
(***************************************************************************)
LEMMA AskedRest ==
    ASSUME NEW s, NEW q, GoodQueue(q), Len(q) > 0, NEW a, NEW e, AskedFor(s, q, a, e), SeeksFit(q),
           NEW r, Len(r) = Len(q) - 1, \A i \in 1..Len(r) : r[i] = q[i + 1], NEW d,
           IF IsSwitch(q[1])
           THEN d.file = q[1].file /\ (d.state = "opening" => q[1].op = "load" /\ d.at = q[1].at)
           ELSE /\ d.file = e.file /\ (d.state = "opening" <=> e.state = "opening")
                /\ Allowed(q[1], a) /\ e.at \in a /\ d.state = "opening" => d.at \in a
    PROVE  SeeksFit(r) /\ AskedFor(s, r, a, d)
<1>1. /\ Len(q) \in Nat /\ Len(r) \in Nat /\ 1 \in 1..Len(q)
      /\ \A i \in 1..Len(r) : i + 1 \in 1..Len(q) /\ r[i] = q[i + 1]
      /\ \A j \in 2..Len(q) : j - 1 \in 1..Len(r) /\ q[j] = r[j - 1]
  BY DEF GoodQueue
<1>2. SeeksFit(r)
  BY <1>1 DEF SeeksFit
<1>3. /\ IsSwitch(q[1]) =>
           ~NoSwitch(q) /\ \A have, f : WillHave(q, have, f) => WillHave(r, q[1].file, f)
      /\ ~IsSwitch(q[1]) =>
           /\ NoSwitch(q) => NoSwitch(r)
           /\ \A have, f : WillHave(q, have, f) => WillHave(r, have, f)
  BY WillHaveRest
<1>4. \A i \in 0..Len(r) : NoneAfter(r, i) => NoneAfter(q, i + 1)
  <2> SUFFICES ASSUME NEW i \in 0..Len(r), NoneAfter(r, i), NEW j \in 1..Len(q), j > i + 1
               PROVE  ~IsSwitch(q[j])
    BY DEF NoneAfter
  <2>1. j \in 2..Len(q) /\ j - 1 \in 1..Len(r) /\ j - 1 > i /\ q[j] = r[j - 1]
    BY <1>1
  <2> QED
    BY <2>1 DEF NoneAfter
<1>5. NoSwitch(r) => NoneAfter(q, 1)
  BY <1>1, <1>4 DEF NoSwitch
<1>6. CASE s.phase = "playing"
  <2>1. /\ WillHave(q, e.file, s.file)
        /\ \A i \in 1..Len(q) : NoneAfter(q, i) => Allowed(q[i], a)
        /\ NoSwitch(q) /\ e.state = "opening" => e.at \in a
        /\ HasOpened(s, q, e) \/ s.time \in a
    BY <1>6 DEF AskedFor
  <2>2. \A i \in 1..Len(r) : NoneAfter(r, i) => Allowed(r[i], a)
    BY <1>1, <1>4, <2>1
  <2>3. NoSwitch(r) => Allowed(q[1], a)
    BY <1>1, <1>5, <2>1
  <2>4. CASE IsSwitch(q[1])
    <3>1. WillHave(r, d.file, s.file)
      BY <1>3, <2>1, <2>4
    <3>2. NoSwitch(r) /\ d.state = "opening" => d.at \in a
      BY <2>3, <2>4 DEF Allowed
    <3>3. s.time \in a
      BY <1>3, <2>1, <2>4 DEF HasOpened
    <3> QED
      BY <1>2, <2>2, <3>1, <3>2, <3>3 DEF AskedFor
  <2>5. CASE ~IsSwitch(q[1])
    <3>1. WillHave(r, d.file, s.file)
      BY <1>3, <2>1, <2>5
    <3>2. NoSwitch(r) => NoSwitch(q)
      BY <1>1, <1>5, <2>5 DEF NoSwitch, NoneAfter
    <3>3. NoSwitch(r) /\ d.state = "opening" => d.at \in a
      BY <2>1, <2>3, <2>5, <3>2
    <3>4. HasOpened(s, q, e) => HasOpened(s, r, d)
      BY <1>3, <2>5 DEF HasOpened
    <3> QED
      BY <1>2, <2>1, <2>2, <3>1, <3>3, <3>4 DEF AskedFor
  <2> QED
    BY <2>4, <2>5
<1>7. CASE s.phase # "playing"
  BY <1>2, <1>7 DEF AskedFor
<1> QED
  BY <1>6, <1>7

LEMMA OpenMainThread ==
    ASSUME OpenInv, MainThreadRuns
    PROVE  OpenInv'
<1>1. /\ PromptInv' /\ UNCHANGED <<screen, reading, asked>> /\ reading.at = "none"
      /\ GoodQueue(queue) /\ GoodPlayer(exo) /\ screen.phase # "buffering" /\ SeeksFit(queue)
      /\ AskedFor(screen, queue, asked, exo) /\ BaseInv
      /\ asked \in SUBSET Position /\ OpenWorld(World, exo)
  BY PromptMainThread, MainThreadIdles, Worlds
     DEF OpenInv, PromptInv, BaseInv, World, OpenWorld, MainThreadRuns, screenVars, Quiet
<1>2. CASE Write \/ Publish
  <2>1. UNCHANGED <<queue, exo>>
    BY <1>2 DEF Write, Publish
  <2>2. OpenWorld(World, exo)'
    BY <1>1, <2>1, OpenIsOpen DEF World
  <2> QED
    BY <1>1, <2>2 DEF OpenInv
<1>3. CASE RunLoad \/ RunStop \/ RunSeek \/ RunPause
  <2>1. PICK op : Runs(op) /\ op \in {"load", "stop", "pause", "resume"} \cup Seeks
    BY <1>3 DEF RunLoad, RunStop, RunSeek, RunPause
  <2>2. /\ Len(queue) > 0 /\ GoodCommand(queue[1]) /\ Head(queue) = queue[1]
        /\ queue[1].op = op /\ Len(queue') = Len(queue) - 1
        /\ \A i \in 1..Len(queue') : queue'[i] = queue[i + 1]
        /\ Len(queue) \in Nat
    BY <1>1, <2>1, Ran
  <2>3. \A o : Runs(o) => o = op
    BY <2>1 DEF Runs
  <2>4. IF IsSwitch(queue[1])
        THEN /\ exo'.file = queue[1].file
             /\ exo'.state = "opening" => queue[1].op = "load" /\ exo'.at = queue[1].at
        ELSE /\ exo'.file = exo.file /\ (exo'.state = "opening" <=> exo.state = "opening")
             /\ Allowed(queue[1], asked) /\ exo.at \in asked /\ exo'.state = "opening"
                  => exo'.at \in asked
    <3>1. CASE RunLoad
      BY <2>2, <3>1 DEF RunLoad, Runs, IsSwitch
    <3>2. CASE RunStop
      BY <2>2, <3>2 DEF RunStop, Runs, IsSwitch, Idle, GoodCommand
    <3>3. CASE RunSeek
      <4>1. op \in Seeks /\ ~IsSwitch(queue[1])
        BY <2>2, <2>3, <3>3 DEF RunSeek, IsSwitch, Seeks
      <4>2. CASE exo.file = NoFile
        <5>1. exo' = exo
          BY <3>3, <4>2 DEF RunSeek
        <5> QED
          BY <4>1, <5>1
      <4>3. CASE exo.file # NoFile
        <5> DEFINE st == IF exo.state = "ended" THEN "ready" ELSE exo.state
                   to == Target(queue[1], exo)
        <5>1. exo' = Moved(exo, to, st)
          BY <2>2, <3>3, <4>3 DEF RunSeek
        <5>2. /\ to \in Position /\ exo.file \in File
              /\ queue[1].op = "seek" /\ queue[1].at <= Length[exo.file] => to = queue[1].at
          BY <1>1, <2>2, <4>1, <4>3, SeekTarget
        <5>3. /\ st \in State /\ st # "idle" /\ (st = "opening" <=> exo.state = "opening")
          BY <1>1, <4>3 DEF GoodPlayer, Loaded, State, OpenStates, FailedStates
        <5> HIDE DEF st, to
        <5>4. /\ exo'.file = exo.file /\ exo'.at = to /\ exo'.state = st
          BY <1>1, <4>3, <5>1, <5>2, <5>3, MovedTyped
        <5>5. Allowed(queue[1], asked) => to \in asked
          <6>1. 1 \in 1..Len(queue)
            BY <2>2
          <6>2. queue[1].op = "seek" => queue[1].at <= Length[exo.file]
            BY <1>1, <5>2, <6>1 DEF SeeksFit, Fits
          <6> QED
            BY <2>2, <4>1, <5>2, <6>2 DEF Allowed, Seeks
        <5> QED
          BY <4>1, <5>3, <5>4, <5>5
      <4> QED
        BY <4>2, <4>3
    <3>4. CASE RunPause
      <4>1. ~IsSwitch(queue[1])
        BY <2>2, <2>3, <3>4 DEF RunPause, IsSwitch
      <4> DEFINE on == Head(queue).op = "resume"
      <4>2. exo' = exo \/ exo' = [exo EXCEPT !.playing = on]
        BY <3>4 DEF RunPause
      <4> HIDE DEF on
      <4>3. exo'.file = exo.file /\ exo'.state = exo.state /\ exo'.at = exo.at
        BY <1>1, <4>2 DEF GoodPlayer, Loaded
      <4> QED
        BY <4>1, <4>3
    <3> QED
      BY <1>3, <3>1, <3>2, <3>3, <3>4
  <2>5. SeeksFit(queue') /\ AskedFor(screen, queue', asked, exo')
    BY <1>1, <2>2, <2>4, AskedRest
  <2>6. OpenWorld(World, exo)'
    BY <1>1, <2>5 DEF OpenWorld, World
  <2> QED
    BY <1>1, <2>6 DEF OpenInv
<1> QED
  BY <1>2, <1>3 DEF MainThreadRuns, MainThread

LEMMA OpenPlayback ==
    ASSUME OpenInv, Playback
    PROVE  OpenInv'
<1>1. /\ PromptInv' /\ UNCHANGED <<screen, queue, reading, asked>> /\ reading.at = "none"
      /\ queue = <<>> /\ GoodPlayer(exo) /\ screen.phase # "buffering"
      /\ AskedFor(screen, queue, asked, exo) /\ OpenWorld(World, exo)
  BY PromptPlayback
     DEF OpenInv, PromptInv, BaseInv, OpenWorld, World, Playback, NotReading, UpToDate,
         Opened, Fails, PlaysOn
<1>2. exo'.file = exo.file /\ exo'.state # "opening"
  <2>1. CASE Opened
    <3>1. exo' = Moved(exo, exo.at, "ready") /\ exo.file # NoFile /\ exo.at \in Position
      BY <1>1, <2>1 DEF Opened, GoodPlayer, Loaded
    <3>2. exo'.file = exo.file /\ exo'.state = "ready"
      BY <1>1, <3>1, MovedTyped DEF State, OpenStates, FailedStates
    <3> QED
      BY <3>2
  <2>2. CASE Fails
    BY <1>1, <2>2 DEF Fails, GoodPlayer, Loaded
  <2>3. CASE PlaysOn
    <3>1. exo.file # NoFile /\ exo.file \in File /\ exo.at \in Nat
      BY <1>1, <2>3, Positions DEF PlaysOn, GoodPlayer, Loaded
    <3>2. CASE exo.at < Length[exo.file]
      <4>1. exo.at + 1 \in Position
        BY <3>1, <3>2, Positions
      <4>2. exo' = Moved(exo, exo.at + 1, "ready")
        BY <2>3, <3>2 DEF PlaysOn
      <4>3. exo'.file = exo.file /\ exo'.state = "ready"
        BY <1>1, <3>1, <4>1, <4>2, MovedTyped DEF State, OpenStates, FailedStates
      <4> QED
        BY <4>3
    <3>3. CASE ~ (exo.at < Length[exo.file])
      <4>1. exo' = [exo EXCEPT !.state = "ended"]
        BY <2>3, <3>3 DEF PlaysOn
      <4> QED
        BY <1>1, <4>1 DEF GoodPlayer, Loaded
    <3> QED
      BY <3>2, <3>3
  <2> QED
    BY <2>1, <2>2, <2>3 DEF Playback
<1>3. AskedFor(screen, queue, asked, exo')
  <2>1. NoSwitch(queue) /\ (WillHave(queue, exo.file, screen.file) => exo.file = screen.file)
    BY <1>1, WillHaveNow
  <2> QED
    BY <1>1, <1>2, <2>1 DEF AskedFor, HasOpened
<1>4. OpenWorld(World, exo)'
  BY <1>1, <1>3 DEF OpenWorld, World
<1> QED
  BY <1>1, <1>4 DEF OpenInv

LEMMA OpenInit == Init => OpenInv
<1> SUFFICES ASSUME Init PROVE OpenInv
  OBVIOUS
<1>1. PromptInv /\ screen = Closed /\ queue = <<>> /\ reading.at = "none"
  BY PromptInit DEF Init, PlayerInit, NotReading
<1>2. OpenWorld(World, exo)
  BY <1>1 DEF OpenWorld, World, SeeksFit, AskedFor, Closed, State0
<1> QED
  BY <1>1, <1>2 DEF OpenInv

LEMMA OpenStep == OpensWhereAsked /\ OpenInv /\ [Next]_vars => OpenInv'
<1> SUFFICES ASSUME OpensWhereAsked, OpenInv, [Next]_vars PROVE OpenInv'
  OBVIOUS
<1>1. CASE UNCHANGED vars \/ Elapse
  <2>1. PromptInv'
    BY PromptStep DEF OpenInv, OpensWhereAsked
  <2>2. UNCHANGED <<queue, exo, shown, writes, screen, reading, asked>>
    BY <1>1 DEF Elapse, vars, playerVars, screenVars
  <2>3. OpenWorld(World, exo)'
    BY <2>2, OpenIsOpen DEF OpenInv, World
  <2> QED
    BY <2>1, <2>2, <2>3 DEF OpenInv, Quiet, UpToDate
<1>2. CASE Tick \/ UserInput \/ MainThreadRuns \/ Playback
  BY <1>2, OpenTick, OpenInput, OpenMainThread, OpenPlayback
<1>3. CASE \E result \in {"ready", "failed"} : WaitEnds(result)
  <2>1. screen.phase = "buffering"
    BY <1>3, WaitTyped DEF OpenInv, PromptInv
  <2> QED
    BY <2>1 DEF OpenInv, OpenWorld, World
<1> QED
  BY <1>1, <1>2, <1>3 DEF Next

(* What the user asks for saves the position on screen, if any. *)
LEMMA InputSaves ==
    ASSUME BaseInv, UserInput, NEW f \in File, timecode'[f] # timecode[f]
    PROVE  f = screen.file /\ screen.phase = "playing" /\ timecode'[f] = screen.time
<1>1. /\ GoodWorld(World) /\ timecode \in [File -> Position] /\ World.screen = screen
      /\ World.timecode = timecode /\ IsPlaying(World) = (screen.phase = "playing")
      /\ Answer \subseteq BOOLEAN
  BY Worlds DEF BaseInv, World, IsPlaying, Answer
<1>2. \A w : Input(w) => timecode' = w.timecode
  BY DEF Input, Become
<1> DEFINE a == SaveProgress(World, TRUE)
<1>3. a.timecode[f] # timecode[f] =>
        f = screen.file /\ screen.phase = "playing" /\ a.timecode[f] = screen.time
  BY ZenonT(30), <1>1, Saved
<1> HIDE DEF a
<1>4. \A w : Input(w) /\ w.timecode = a.timecode =>
        f = screen.file /\ screen.phase = "playing" /\ timecode'[f] = screen.time
  BY <1>2, <1>3
<1>5. \A w : Input(w) => w.timecode # timecode
  BY <1>2
<1>6. ASSUME NEW g \in File, NEW ok \in Answer, Start(g, ok) PROVE FALSE
  <2>1. timecode[g] \in Position /\ Input(BeginLoad(World, g, timecode[g], ok))
    BY <1>1, <1>6 DEF Start
  <2>2. BeginLoad(World, g, timecode[g], ok).timecode = timecode
    BY <1>1, <2>1, Began
  <2> QED
    BY <1>5, <2>1, <2>2
<1>7. \A g \in File, ok \in Answer : JumpToFile(World, g, ok).timecode = a.timecode
  BY <1>1, Jumped DEF a
<1>8. ASSUME NEW g \in File, NEW ok \in Answer, Jump(g, ok)
      PROVE  f = screen.file /\ screen.phase = "playing" /\ timecode'[f] = screen.time
  BY <1>4, <1>7, <1>8 DEF Jump, OnPlayer
<1>9. ASSUME NEW to \in Seekable, NEW ok \in Answer, Seek(to) \/ Skip(to, ok)
      PROVE  f = screen.file /\ screen.phase = "playing" /\ timecode'[f] = screen.time
  <2>1. to \in Position /\ IsPlaying(World)
    BY <1>1, <1>9, ScreenAssumption DEF Seek, Skip
  <2>2. SeekAbs(World, to).timecode = timecode
    BY <1>1, <2>1, Sought
  <2>3. /\ NextFile(World, ok).timecode = a.timecode \/ NextFile(World, ok) = World
    BY <1>1, <1>7, <2>1, WentNext
  <2>4. Input(SeekAbs(World, to)) \/ Input(NextFile(World, ok))
    BY <1>9 DEF Seek, Skip, SkipOrNext, OnPlayer
  <2> QED
    BY <1>1, <1>4, <1>5, <2>2, <2>3, <2>4
<1>10. ASSUME NEW way \in {"back", "forward"}, Nudge(way) PROVE FALSE
  <2>1. Nudging(World, way).timecode = timecode /\ Input(Nudging(World, way))
    BY <1>1, <1>10, NudgedWorld DEF Nudge, Nudging, OnPlayer
  <2> QED
    BY <1>5, <2>1
<1>11. ASSUME Toggle PROVE FALSE
  <2>1. Toggling(World).timecode = timecode
    BY <1>1, ToggledWorld
  <2>2. Input(Toggling(World))
    BY <1>1, <1>11 DEF Toggle, Toggling, OnPlayer
  <2> QED
    BY <1>5, <2>1, <2>2
<1>12. ASSUME StopPlayback
       PROVE  f = screen.file /\ screen.phase = "playing" /\ timecode'[f] = screen.time
  <2>1. Stopping(World).timecode = a.timecode
    BY <1>1, StoppedWorld DEF a
  <2>2. Input(Stopping(World))
    BY <1>12 DEF StopPlayback, Stopping, OnPlayer
  <2> QED
    BY <1>4, <2>1, <2>2
<1>13. ASSUME Cover \/ Uncover PROVE FALSE
  BY <1>1, <1>5, <1>13 DEF Cover, Uncover
<1> QED
  BY <1>6, <1>8, <1>9, <1>10, <1>11, <1>12, <1>13 DEF UserInput

(* A tick saves the position it keeps, for the file on screen. *)
LEMMA TickSaves ==
    ASSUME OpenInv, OpensWhereAsked, Tick, NEW f \in File, timecode'[f] # timecode[f]
    PROVE  /\ f = screen.file
           /\ HasOpened(screen, queue, exo) \/ timecode'[f] \in asked
<1>1. Answer = {TRUE} /\ GoodWorld(World) /\ World.timecode = timecode /\ World.screen = screen
  BY OneAnswer DEF OpensWhereAsked, OpenInv, PromptInv, BaseInv, World
<1>2. CASE TickFlags
  <2>1. /\ Become(PollBuffering(World, TRUE)) /\ IsPlaying(PollBuffering(World, TRUE))
    BY <1>1, <1>2 DEF TickFlags
  <2>2. PollBuffering(World, TRUE).timecode = timecode
    <3>1. \A ok \in BOOLEAN : IsPlaying(PollBuffering(World, ok)) =>
            PollBuffering(World, ok).timecode = timecode
      BY <1>1, Polled
    <3> QED
      BY <2>1, <3>1
  <2>3. timecode' = PollBuffering(World, TRUE).timecode
    BY <2>1 DEF Become
  <2> QED
    BY <2>2, <2>3
<1>3. CASE TickPosition
  BY <1>3 DEF TickPosition
<1>4. CASE TickRest
  <2> DEFINE k == Kept(World, Seen)
             c == SaveProgress(k, TRUE)
  <2>1. Become(Follow(World, Seen, TRUE)) /\ reading.at = "duration"
    BY <1>1, <1>4 DEF TickRest, Seen
  <2>2. /\ GoodWorld(k) /\ IsPlaying(k) /\ k.screen.file = screen.file
        /\ HasOpened(screen, queue, exo) \/ k.screen.time \in asked
        /\ k.timecode[f] # timecode[f] => f = screen.file /\ k.timecode[f] = k.screen.time
    BY <2>1, OpenKept
  <2>3. Follow(World, Seen, TRUE) = k \/ Follow(World, Seen, TRUE) = NextFile(k, TRUE)
    BY FollowIsKept
  <2>4. c.timecode[f] # k.timecode[f] => f = k.screen.file /\ c.timecode[f] = k.screen.time
    BY <2>2, Saved
  <2>5. NextFile(k, TRUE) = k \/ NextFile(k, TRUE).timecode = c.timecode
    <3>1. \A g \in File : JumpToFile(k, g, TRUE).timecode = c.timecode
      BY <2>2, Jumped
    <3> QED
      BY <2>2, <3>1, WentNext
  <2>6. timecode' = Follow(World, Seen, TRUE).timecode
    BY <2>1 DEF Become
  <2> HIDE DEF k, c
  <2>7. timecode' = k.timecode \/ timecode' = c.timecode
    BY <2>3, <2>5, <2>6
  <2> QED
    BY <2>2, <2>4, <2>7
<1> QED
  BY <1>2, <1>3, <1>4 DEF Tick

(***************************************************************************)
(* Resuming: with a main thread that keeps up, a player that tells where   *)
(* it is about to start, and no preload wait, whatever is saved for a file *)
(* before it has opened is a position it was opened at or the user asked   *)
(* for: a file that is still opening never loses its place.                *)
(***************************************************************************)
THEOREM OpeningLosesNothing == OpensWhereAsked => (Spec => OpeningKeepsPosition)
<1> SUFFICES ASSUME OpensWhereAsked PROVE Spec => OpeningKeepsPosition
  OBVIOUS
<1>1. OpenInv /\ [Next]_vars => OpenInv'
  BY OpenStep
<1>2. OpenInv /\ [Next]_vars
        => \A f \in File :
             timecode'[f] # timecode[f] /\ ~(exo.file = f /\ exo.state # "opening")
               => timecode'[f] \in asked
  <2> SUFFICES ASSUME OpenInv, [Next]_vars, NEW f \in File, timecode'[f] # timecode[f],
                      ~(exo.file = f /\ exo.state # "opening")
               PROVE  timecode'[f] \in asked
    OBVIOUS
  <2>1. BaseInv /\ AskedFor(screen, queue, asked, exo)
    BY DEF OpenInv, PromptInv, OpenWorld, World
  <2>2. CASE Tick
    BY <2>2, TickSaves DEF HasOpened
  <2>3. CASE UserInput
    <3>1. f = screen.file /\ screen.phase = "playing" /\ timecode'[f] = screen.time
      BY <2>1, <2>3, InputSaves
    <3> QED
      BY <2>1, <3>1 DEF AskedFor, HasOpened
  <2>4. CASE UNCHANGED vars \/ Elapse \/ MainThreadRuns \/ Playback
             \/ \E result \in {"ready", "failed"} : WaitEnds(result)
    <3>1. timecode' = timecode
      BY <2>4 DEF vars, screenVars, Elapse, MainThreadRuns, Playback, WaitEnds
    <3> QED
      BY <3>1
  <2> QED
    BY <2>2, <2>3, <2>4 DEF Next
<1> QED
  BY <1>1, <1>2, OpenInit, PTL DEF Spec, OpeningKeepsPosition

-----------------------------------------------------------------------------
(***************************************************************************)
(* The wait for the server.                                                *)
(***************************************************************************)
Meters == [complete : Nat, of : Nat]

WaitStates ==
    [at : {"none", "head", "open", "poll", "ready", "soft", "failed", "aborted"},
     start : Wait!Piece, polls : Nat, meter : Meters, own : BOOLEAN]

Readers == [owner : {Wait!Ours, "theirs"}, at : Wait!Piece, end : Nat]

Servers ==
    [readers : SUBSET Readers, complete : SUBSET Wait!Piece, preloads : BOOLEAN, size : Nat, bytes : Nat]

(* A range that is opened has not been polled yet, and the head is waited  *)
(* for only from the start of the file.                                    *)
FreshWait ==
    /\ wait.at = "open" => wait.polls = 0
    /\ wait.at = "head" => wait.start = 0

WaitInv == wait \in WaitStates /\ server \in Servers /\ FreshWait /\ WaitSafe

LEMMA WaitConstants ==
    /\ Pieces \in Nat \ {0} /\ Needed \in Nat \ {0} /\ Ahead \in Nat \ {0} /\ Budget \in Nat \ {0}
    /\ Grace \in Nat
BY WaitAssumed DEF Wait!WaitAssumption

LEMMA Least ==
    ASSUME NEW m \in Nat, NEW n \in Nat
    PROVE  Wait!Min2(m, n) \in Nat /\ Wait!Min2(m, n) <= m /\ Wait!Min2(m, n) <= n
BY DEF Wait!Min2

LEMMA ReaderTyped ==
    ASSUME NEW owner \in {Wait!Ours, "theirs"}, NEW at \in Wait!Piece
    PROVE  /\ Wait!Reader(owner, at) \in Readers
           /\ Wait!Reader(owner, at).owner = owner
<1>1. at \in Nat /\ at + Ahead \in Nat /\ Pieces \in Nat
  BY WaitConstants DEF Wait!Piece
<1>2. Wait!Min2(at + Ahead, Pieces) \in Nat
  BY <1>1, Least
<1> QED
  BY <1>2 DEF Wait!Reader, Readers

LEMMA SameCardinality == \A S : Wait!Cardinality(S) = Cardinality(S)
BY DEF Wait!Cardinality, Cardinality

(* The pieces of a window that are complete are no more than it has. *)
LEMMA WindowTyped ==
    ASSUME NEW r \in Readers, NEW complete \in SUBSET Wait!Piece
    PROVE  LET meter == Wait!WindowProgress(r, complete)
           IN  /\ meter \in Meters
               /\ meter.of > 0 => /\ meter.of = Wait!Min2(r.at + Needed, r.end) - r.at
                                  /\ meter.complete <= meter.of
<1> DEFINE to == Wait!Min2(r.at + Needed, r.end)
           done == {p \in complete : r.at <= p /\ p < to}
           of == IF to > r.at THEN to - r.at ELSE 0
<1>1. r.at \in Nat /\ r.end \in Nat /\ r.at + Needed \in Nat /\ \A p \in complete : p \in Nat
  BY WaitConstants DEF Readers, Wait!Piece
<1>2. to \in Nat
  BY <1>1, Least
<1>3. Wait!WindowProgress(r, complete) = [complete |-> Cardinality(done), of |-> of]
  BY SameCardinality DEF Wait!WindowProgress
<1>4. to = Wait!Min2(r.at + Needed, r.end)
  OBVIOUS
<1> HIDE DEF to
<1>5. done \subseteq r.at .. (to - 1)
  BY <1>1, <1>2
<1>6. /\ IsFiniteSet(r.at .. (to - 1))
      /\ Cardinality(r.at .. (to - 1)) = IF r.at > to - 1 THEN 0 ELSE (to - 1) - r.at + 1
  <2>1. r.at \in Int /\ to - 1 \in Int
    BY <1>1, <1>2
  <2> QED
    BY <2>1, FS_Interval
<1>7. /\ IsFiniteSet(done) /\ Cardinality(done) \in Nat
      /\ Cardinality(done) <= Cardinality(r.at .. (to - 1))
  BY <1>5, <1>6, FS_Subset, FS_CardinalityType
<1> HIDE DEF done
<1>8. of \in Nat /\ (of > 0 => of = to - r.at /\ Cardinality(done) <= of)
  BY <1>1, <1>2, <1>6, <1>7
<1> HIDE DEF of
<1> QED
  BY <1>3, <1>4, <1>7, <1>8 DEF Meters

(* Nineteen pieces of twenty are nearly all, and all of fewer. *)
LEMMA ReadyMisses ==
    ASSUME NEW meter \in Meters, Wait!IsReady(meter), meter.complete <= meter.of
    PROVE  /\ 20 * (meter.of - meter.complete) <= meter.of
           /\ meter.of < 20 => meter.complete = meter.of
BY DEF Meters, Wait!IsReady

(* Whatever ends a wait or begins one takes its reader off the server.     *)
LEMMA ReadersWithout ==
    ASSUME server \in Servers
    PROVE  LET after == [server EXCEPT !.readers = Wait!Without(@, Wait!Ours)]
           IN  after \in Servers /\ Wait!Of(after.readers, Wait!Ours) = {}
<1>1. Wait!Without(server.readers, Wait!Ours) \in SUBSET Readers
  BY DEF Servers, Wait!Without
<1>2. Wait!Of(Wait!Without(server.readers, Wait!Ours), Wait!Ours) = {}
  BY DEF Wait!Of, Wait!Without
<1> QED
  BY <1>1, <1>2 DEF Servers

(* A wait that is not polled has no reader, and is safe when its own       *)
(* counters and what it found are.                                         *)
LEMMA WithoutReaders ==
    ASSUME wait' \in WaitStates, server' \in Servers,
           Wait!Of(server'.readers, Wait!Ours) = {},
           FreshWait', Wait!WithinBudget', Wait!ReadyIsBuffered'
    PROVE  WaitInv'
BY DEF WaitInv, WaitSafe, Wait!WaitSafe, Wait!NoReaderIsLeft

LEMMA BeginKeeps ==
    ASSUME WaitInv, NEW at \in Wait!Piece, NEW hasLength \in BOOLEAN, NEW hasRuntime \in BOOLEAN,
           Wait!Begin(at, hasLength, hasRuntime)
    PROVE  WaitInv'
<1> DEFINE start == Wait!ResumePiece(at, hasLength, hasRuntime)
<1>1. start \in Wait!Piece
  BY WaitConstants DEF Wait!ResumePiece, Wait!Piece, Wait!Min2
<1>2. wait' = [Wait!NoWait EXCEPT !.start = start, !.at = IF start = 0 THEN "head" ELSE "open"]
  BY DEF Wait!Begin
<1> HIDE DEF start
<1>3. /\ wait' \in WaitStates /\ wait'.polls = 0 /\ wait'.at \in {"head", "open"}
      /\ FreshWait'
  BY <1>1, <1>2 DEF Wait!NoWait, Wait!Nothing, WaitStates, Meters, FreshWait
<1>4. server' \in Servers /\ Wait!Of(server'.readers, Wait!Ours) = {}
  BY ReadersWithout DEF WaitInv, Wait!Begin
<1>5. Wait!WithinBudget' /\ Wait!ReadyIsBuffered'
  BY <1>3, WaitConstants DEF Wait!WithinBudget, Wait!ReadyIsBuffered
<1> QED
  BY <1>3, <1>4, <1>5, WithoutReaders

LEMMA EndsKeeps ==
    ASSUME WaitInv, NEW at \in {"aborted", "failed"}, Wait!Ends(at)
    PROVE  WaitInv'
<1>1. /\ wait' \in WaitStates /\ wait'.at = at /\ wait'.polls = wait.polls
      /\ wait.polls <= Budget
  BY DEF WaitInv, Wait!Ends, WaitStates, WaitSafe, Wait!WaitSafe, Wait!WithinBudget
<1>2. server' \in Servers /\ Wait!Of(server'.readers, Wait!Ours) = {}
  BY ReadersWithout DEF WaitInv, Wait!Ends
<1>3. FreshWait' /\ Wait!WithinBudget' /\ Wait!ReadyIsBuffered'
  BY <1>1 DEF FreshWait, Wait!WithinBudget, Wait!ReadyIsBuffered
<1> QED
  BY <1>1, <1>2, <1>3, WithoutReaders

LEMMA OpensKeeps ==
    ASSUME WaitInv, Wait!Opens
    PROVE  WaitInv'
<1>1. wait \in WaitStates /\ server \in Servers /\ wait.at = "open"
  BY DEF WaitInv, Wait!Opens
<1>2. wait' \in WaitStates /\ wait'.at = "poll" /\ wait'.polls = wait.polls /\ wait'.start = wait.start
  BY <1>1 DEF Wait!Opens, WaitStates
<1>3. Wait!Of(server.readers, Wait!Ours) = {}
  BY <1>1 DEF WaitInv, WaitSafe, Wait!WaitSafe, Wait!NoReaderIsLeft
<1>4. server' = [server EXCEPT !.readers = @ \cup {Wait!Reader(Wait!Ours, wait.start)}]
  BY DEF Wait!Opens
<1>5. Wait!Reader(Wait!Ours, wait.start) \in Readers
  BY <1>1, ReaderTyped DEF WaitStates
<1>6. server' \in Servers
  BY <1>1, <1>4, <1>5 DEF Servers
<1>7. Wait!Of(server'.readers, Wait!Ours) \subseteq {Wait!Reader(Wait!Ours, wait.start)}
  BY <1>1, <1>3, <1>4 DEF Servers, Wait!Of
<1>8. Wait!NoReaderIsLeft'
  BY <1>2, <1>7 DEF Wait!NoReaderIsLeft, Wait!Reader, Wait!Min2
<1>9. wait'.polls = 0 /\ 0 < Budget /\ Budget \in Nat
  BY <1>1, <1>2, WaitConstants DEF WaitInv, FreshWait
<1>10. FreshWait' /\ Wait!WithinBudget' /\ Wait!ReadyIsBuffered'
  BY <1>2, <1>9 DEF FreshWait, Wait!WithinBudget, Wait!ReadyIsBuffered
<1> QED
  BY <1>2, <1>6, <1>8, <1>10 DEF WaitInv, WaitSafe, Wait!WaitSafe

(* What a poll reads, and what a look at the cache may find.               *)
LEMMA ReadsTyped ==
    ASSUME wait \in WaitStates, NEW meter \in Meters, NEW own \in BOOLEAN
    PROVE  /\ Wait!Reads(meter, own) \in WaitStates
           /\ Wait!Reads(meter, own).at = wait.at
           /\ Wait!Reads(meter, own).start = wait.start
           /\ Wait!Reads(meter, own).polls = wait.polls + 1
           /\ Wait!Reads(meter, own).meter = meter
           /\ Wait!Reads(meter, own).own = own
<1>1. wait.polls + 1 \in Nat
  BY DEF WaitStates
<1>2. Wait!Reads(meter, own) \in WaitStates
  BY <1>1 DEF Wait!Reads, WaitStates
<1>3. /\ Wait!Reads(meter, own).at = wait.at
      /\ Wait!Reads(meter, own).start = wait.start
  BY DEF Wait!Reads, WaitStates
<1>4. Wait!Reads(meter, own).polls = wait.polls + 1
  BY DEF Wait!Reads, WaitStates
<1>5. Wait!Reads(meter, own).meter = meter
  BY DEF Wait!Reads, WaitStates
<1>6. Wait!Reads(meter, own).own = own
  BY DEF Wait!Reads, WaitStates
<1> QED
  BY <1>2, <1>3, <1>4, <1>5, <1>6

LEMMA LooksTyped ==
    ASSUME WaitInv, NEW after \in Wait!Looks
    PROVE  /\ after \in WaitStates
           /\ after.at = wait.at /\ after.start = wait.start /\ after.polls = wait.polls + 1
           /\ after.meter.of > 0 =>
                \E r \in server.readers :
                    /\ after.own = (r.owner = Wait!Ours)
                    /\ after.meter = Wait!WindowProgress(r, server.complete)
<1>1. wait \in WaitStates /\ server \in Servers
  BY DEF WaitInv
<1>3. CASE server.readers = {}
  <2>1. Wait!Nothing \in Meters /\ Wait!Nothing.of = 0
    BY DEF Wait!Nothing, Meters
  <2> DEFINE own == FALSE
  <2>2. own \in BOOLEAN /\ after = Wait!Reads(Wait!Nothing, own)
    BY <1>3 DEF Wait!Looks
  <2> HIDE DEF own
  <2> QED
    BY <1>1, <2>1, <2>2, ReadsTyped
<1>4. CASE server.readers # {}
  <2>1. PICK r \in server.readers :
            after = Wait!Reads(Wait!WindowProgress(r, server.complete), r.owner = Wait!Ours)
    BY <1>4 DEF Wait!Looks
  <2>2. Wait!WindowProgress(r, server.complete) \in Meters
    <3>1. r \in Readers /\ server.complete \in SUBSET Wait!Piece
      BY <1>1 DEF Servers
    <3> QED
      BY <3>1, WindowTyped
  <2> DEFINE own == r.owner = Wait!Ours
  <2>3. own \in BOOLEAN /\ after = Wait!Reads(Wait!WindowProgress(r, server.complete), own)
    BY <2>1
  <2>4. own = (r.owner = Wait!Ours)
    OBVIOUS
  <2> HIDE DEF own
  <2> QED
    BY <1>1, <2>2, <2>3, <2>4, ReadsTyped
<1> QED
  BY <1>3, <1>4

(* A look that finds its own reader ready finds the window read ahead of   *)
(* it nearly complete: the reader is the one of this wait.                 *)
LEMMA OwnLookIsBuffered ==
    ASSUME WaitInv, wait.at = "poll", NEW after \in Wait!Looks,
           after.own, after.meter.of > 0, Wait!IsReady(after.meter)
    PROVE  /\ after.meter.of = Wait!Min2(Needed, Wait!Reader(Wait!Ours, wait.start).end - wait.start)
           /\ after.meter.complete <= after.meter.of
           /\ after.meter.of < 20 => after.meter.complete = after.meter.of
           /\ 20 * (after.meter.of - after.meter.complete) <= after.meter.of
<1>1. PICK r \in server.readers :
          /\ r.owner = Wait!Ours
          /\ after.meter = Wait!WindowProgress(r, server.complete)
  BY LooksTyped
<1>2. r \in Readers /\ server.complete \in SUBSET Wait!Piece /\ wait.start \in Wait!Piece
  BY DEF WaitInv, Servers, WaitStates
<1>3. r = Wait!Reader(Wait!Ours, wait.start)
  <2>1. r \in Wait!Of(server.readers, Wait!Ours)
    BY <1>1 DEF Wait!Of
  <2> QED
    BY <2>1 DEF WaitInv, WaitSafe, Wait!WaitSafe, Wait!NoReaderIsLeft
<1>4. r.at = wait.start
  BY <1>3 DEF Wait!Reader
<1>5. /\ after.meter \in Meters
      /\ after.meter.of = Wait!Min2(r.at + Needed, r.end) - r.at
      /\ after.meter.complete <= after.meter.of
  BY <1>1, <1>2, WindowTyped
<1>6. Wait!Min2(r.at + Needed, r.end) - r.at = Wait!Min2(Needed, r.end - r.at)
  <2>1. r.at \in Nat /\ r.end \in Nat /\ Needed \in Nat
    BY <1>2, WaitConstants DEF Readers, Wait!Piece
  <2> QED
    BY <2>1 DEF Wait!Min2
<1>7. after.meter.of = Wait!Min2(Needed, Wait!Reader(Wait!Ours, wait.start).end - wait.start)
  BY <1>3, <1>4, <1>5, <1>6
<1> QED
  BY <1>5, <1>7, ReadyMisses

LEMMA PollCacheKeeps ==
    ASSUME WaitInv, Wait!PollCache
    PROVE  WaitInv'
<1> DEFINE isOver(after) == after.meter.of > 0 /\ Wait!IsReady(after.meter)
<1>1. wait \in WaitStates /\ server \in Servers /\ wait.at = "poll" /\ wait.polls < Budget
  BY DEF WaitInv, Wait!PollCache, WaitSafe, Wait!WaitSafe, Wait!WithinBudget
<1>2. PICK after \in Wait!Looks :
          IF isOver(after) \/ after.polls = Budget
          THEN /\ wait' = [after EXCEPT !.at = IF isOver(after) THEN "ready" ELSE "soft"]
               /\ server' = [server EXCEPT !.readers = Wait!Without(@, Wait!Ours)]
          ELSE wait' = after /\ UNCHANGED server
  BY DEF Wait!PollCache
<1>3. /\ after \in WaitStates
      /\ after.at = wait.at /\ after.start = wait.start /\ after.polls = wait.polls + 1
  BY LooksTyped
<1>4. wait.polls \in Nat /\ Budget \in Nat
  BY <1>1, WaitConstants DEF WaitStates
<1>5. CASE ~isOver(after) /\ after.polls # Budget
  <2>1. wait' = after /\ server' = server
    BY <1>2, <1>5
  <2>2. wait'.at = "poll" /\ wait'.start = wait.start /\ wait'.polls < Budget
    BY <2>1, <1>1, <1>3, <1>4, <1>5
  <2>3. Wait!NoReaderIsLeft'
    BY <1>1, <2>1, <2>2 DEF WaitInv, WaitSafe, Wait!WaitSafe, Wait!NoReaderIsLeft, Wait!Reader, Wait!Of, Wait!Min2
  <2>4. FreshWait' /\ Wait!WithinBudget' /\ Wait!ReadyIsBuffered'
    BY <2>2, <1>4, <2>1, <1>3 DEF FreshWait, Wait!WithinBudget, Wait!ReadyIsBuffered
  <2> QED
    BY <1>1, <1>3, <2>1, <2>3, <2>4 DEF WaitInv, WaitSafe, Wait!WaitSafe
<1>6. CASE isOver(after) \/ after.polls = Budget
  <2>1. /\ wait' = [after EXCEPT !.at = IF isOver(after) THEN "ready" ELSE "soft"]
        /\ server' = [server EXCEPT !.readers = Wait!Without(@, Wait!Ours)]
    BY <1>2, <1>6
  <2>2. /\ wait' \in WaitStates /\ wait'.at = (IF isOver(after) THEN "ready" ELSE "soft")
        /\ wait'.polls = after.polls /\ wait'.start = wait.start
        /\ wait'.meter = after.meter /\ wait'.own = after.own
    BY <2>1, <1>3 DEF WaitStates
  <2>3. server' \in Servers /\ Wait!Of(server'.readers, Wait!Ours) = {}
    BY <1>1, <2>1, ReadersWithout
  <2>4. FreshWait' /\ Wait!WithinBudget'
    BY <1>1, <1>3, <1>4, <2>2 DEF FreshWait, Wait!WithinBudget
  <2>5. Wait!ReadyIsBuffered'
    <3>1. SUFFICES ASSUME isOver(after), after.own
                   PROVE  Wait!ReadyIsBuffered'
      BY <2>2 DEF Wait!ReadyIsBuffered
    <3>2. /\ after.meter.of = Wait!Min2(Needed, Wait!Reader(Wait!Ours, wait.start).end - wait.start)
          /\ after.meter.complete <= after.meter.of
          /\ after.meter.of < 20 => after.meter.complete = after.meter.of
          /\ 20 * (after.meter.of - after.meter.complete) <= after.meter.of
      BY <1>1, <3>1, OwnLookIsBuffered
    <3> QED
      BY <2>2, <3>2 DEF Wait!ReadyIsBuffered, Wait!Reader, Wait!Min2
  <2> QED
    BY <2>2, <2>3, <2>4, <2>5, WithoutReaders
<1> QED
  BY <1>5, <1>6

LEMMA PollHeadKeeps ==
    ASSUME WaitInv, Wait!PollHead
    PROVE  WaitInv'
<1> DEFINE meter == IF Wait!IsStarted THEN Wait!HeadProgress ELSE Wait!Nothing
           after == Wait!Reads(meter, TRUE)
<1>1. wait \in WaitStates /\ server \in Servers /\ wait.at = "head" /\ wait.start = 0
  BY DEF WaitInv, FreshWait, Wait!PollHead
<1>2. /\ wait.polls \in Nat /\ Budget \in Nat /\ Grace \in Nat /\ wait.polls < Budget
      /\ ~Wait!IsStarted => wait.polls <= Grace
  BY <1>1, WaitConstants DEF WaitInv, WaitStates, WaitSafe, Wait!WaitSafe, Wait!WithinBudget
<1>3. meter \in Meters
  BY <1>1 DEF Wait!HeadProgress, Wait!Nothing, Meters, Servers, Wait!Min2
<1>4. /\ after \in WaitStates
      /\ after.at = "head" /\ after.start = 0 /\ after.polls = wait.polls + 1
  <2> HIDE DEF meter
  <2> QED
    BY <1>1, <1>3, ReadsTyped
<1>5. wait' = IF Wait!IsStarted /\ Wait!IsReady(Wait!HeadProgress) THEN [after EXCEPT !.at = "ready"]
              ELSE IF ~Wait!IsStarted /\ wait.polls >= Grace THEN [after EXCEPT !.at = "soft"]
              ELSE IF wait.polls + 1 = Budget THEN [after EXCEPT !.at = "failed"]
              ELSE after
  BY DEF Wait!PollHead
<1>6. server' = server
  BY DEF Wait!PollHead
<1> HIDE DEF meter, after
<1>7. /\ wait' \in WaitStates /\ wait'.start = 0 /\ wait'.polls = wait.polls + 1
      /\ wait'.at \in {"head", "ready", "soft", "failed"}
      /\ wait'.at = "head" => wait.polls + 1 # Budget /\ (Wait!IsStarted \/ wait.polls < Grace)
  BY <1>2, <1>4, <1>5 DEF WaitStates
<1>8. Wait!Of(server'.readers, Wait!Ours) = {}
  BY <1>1, <1>6 DEF WaitInv, WaitSafe, Wait!WaitSafe, Wait!NoReaderIsLeft
<1>9. Wait!IsStarted' <=> Wait!IsStarted
  BY <1>6 DEF Wait!IsStarted
<1>10. FreshWait' /\ Wait!WithinBudget' /\ Wait!ReadyIsBuffered'
  BY <1>2, <1>7, <1>9 DEF FreshWait, Wait!WithinBudget, Wait!ReadyIsBuffered
<1> QED
  BY <1>1, <1>6, <1>7, <1>8, <1>10, WithoutReaders

LEMMA ServesKeeps ==
    ASSUME WaitInv, Wait!Serves
    PROVE  WaitInv'
<1>1. wait' = wait /\ wait \in WaitStates /\ server \in Servers
  BY DEF WaitInv, Wait!Serves
<1>2. /\ server' \in Servers
      /\ Wait!Of(server'.readers, Wait!Ours) \subseteq Wait!Of(server.readers, Wait!Ours)
      /\ Wait!IsStarted => Wait!IsStarted'
  <2>1. CASE \E p \in Wait!Piece :
                server' = [server EXCEPT !.complete = IF p \in @ THEN @ \ {p} ELSE @ \cup {p}]
    BY <1>1, <2>1 DEF Servers, Wait!Of, Wait!IsStarted
  <2>2. CASE server' = [server EXCEPT !.preloads = TRUE]
    BY <1>1, <2>2 DEF Servers, Wait!Of, Wait!IsStarted
  <2>3. CASE server.preloads /\ server.size = 0 /\ server' = [server EXCEPT !.size = 2]
    BY <1>1, <2>3 DEF Servers, Wait!Of, Wait!IsStarted
  <2>4. CASE server.bytes < server.size /\ server' = [server EXCEPT !.bytes = @ + 1]
    BY <1>1, <2>4 DEF Servers, Wait!Of, Wait!IsStarted
  <2>5. CASE \E p \in Wait!Piece :
                server' = [server EXCEPT !.readers = @ \cup {Wait!Reader("theirs", p)}]
    <3>1. PICK p \in Wait!Piece :
              server' = [server EXCEPT !.readers = @ \cup {Wait!Reader("theirs", p)}]
      BY <2>5
    <3>2. Wait!Reader("theirs", p) \in Readers /\ Wait!Reader("theirs", p).owner = "theirs"
      BY ReaderTyped
    <3>3. server' \in Servers /\ (Wait!IsStarted => Wait!IsStarted')
      BY <1>1, <3>1, <3>2 DEF Servers, Wait!IsStarted
    <3>4. Wait!Of(server'.readers, Wait!Ours) \subseteq Wait!Of(server.readers, Wait!Ours)
      BY <1>1, <3>1, <3>2 DEF Servers, Wait!Of, Wait!Ours
    <3> QED
      BY <3>3, <3>4
  <2>6. CASE \E owner \in {Wait!Ours, "theirs"} :
                server' = [server EXCEPT !.readers = Wait!Without(@, owner)]
    <3>1. PICK owner \in {Wait!Ours, "theirs"} :
              server' = [server EXCEPT !.readers = Wait!Without(@, owner)]
      BY <2>6
    <3>2. Wait!Without(server.readers, owner) \subseteq server.readers
      BY DEF Wait!Without
    <3> QED
      BY <1>1, <3>1, <3>2 DEF Servers, Wait!Of, Wait!IsStarted
  <2> QED
    BY <2>1, <2>2, <2>3, <2>4, <2>5, <2>6 DEF Wait!Serves
<1>3. Wait!NoReaderIsLeft'
  BY <1>1, <1>2 DEF WaitInv, WaitSafe, Wait!WaitSafe, Wait!NoReaderIsLeft, Wait!Reader, Wait!Min2
<1>4. FreshWait' /\ Wait!WithinBudget' /\ Wait!ReadyIsBuffered'
  BY <1>1, <1>2 DEF WaitInv, WaitSafe, Wait!WaitSafe, FreshWait, Wait!WithinBudget, Wait!ReadyIsBuffered,
                    Wait!Reader, Wait!Min2
<1> QED
  BY <1>1, <1>2, <1>3, <1>4 DEF WaitInv, WaitSafe, Wait!WaitSafe

LEMMA WaitStart ==
    ASSUME Wait!WaitInit
    PROVE  WaitInv
<1>1. 0 \in Wait!Piece /\ 0 < Budget /\ Budget \in Nat
  BY WaitConstants DEF Wait!Piece
<1>2. wait \in WaitStates /\ wait.at = "none" /\ wait.polls = 0
  BY <1>1 DEF Wait!WaitInit, Wait!NoWait, Wait!Nothing, WaitStates, Meters
<1>3. server \in Servers /\ server.readers = {}
  BY DEF Wait!WaitInit, Servers
<1> QED
  BY <1>1, <1>2, <1>3 DEF WaitInv, FreshWait, WaitSafe, Wait!WaitSafe, Wait!NoReaderIsLeft, Wait!Of,
                          Wait!WithinBudget, Wait!ReadyIsBuffered

LEMMA WaitStep ==
    ASSUME WaitInv, [Wait!WaitNext]_preload
    PROVE  WaitInv'
<1>1. CASE \E at \in Wait!Piece, hasLength, hasRuntime \in BOOLEAN :
              Wait!Begin(at, hasLength, hasRuntime)
  BY <1>1, BeginKeeps
<1>2. CASE Wait!Abort
  BY <1>2, EndsKeeps DEF Wait!Abort
<1>3. CASE Wait!Opens
  BY <1>3, OpensKeeps
<1>4. CASE Wait!Fails
  BY <1>4, EndsKeeps DEF Wait!Fails
<1>5. CASE Wait!PollCache
  BY <1>5, PollCacheKeeps
<1>6. CASE Wait!PollHead
  BY <1>6, PollHeadKeeps
<1>7. CASE Wait!Serves
  BY <1>7, ServesKeeps
<1>8. CASE UNCHANGED preload
  BY <1>8 DEF preload, WaitInv, FreshWait, WaitSafe, Wait!WaitSafe, Wait!NoReaderIsLeft, Wait!Of, Wait!Reader,
              Wait!Min2, Wait!WithinBudget, Wait!IsStarted, Wait!ReadyIsBuffered
<1> QED
  BY <1>1, <1>2, <1>3, <1>4, <1>5, <1>6, <1>7, <1>8 DEF Wait!WaitNext

(* The wait moves by its own steps only.                                   *)
LEMMA WaitOnly ==
    ASSUME [PlaybackNext]_<<part, vars, segments, preload>>
    PROVE  [Wait!WaitNext]_preload
BY DEF PlaybackNext, preload

LEMMA WaitAlways == PlaybackSpec => []WaitInv
<1>1. PlaybackInit => WaitInv
  BY WaitStart DEF PlaybackInit
<1>2. WaitInv /\ [PlaybackNext]_<<part, vars, segments, preload>> => WaitInv'
  BY WaitOnly, WaitStep
<1> QED
  BY <1>1, <1>2, PTL DEF PlaybackSpec

(* However the waits begin, poll, fail and are aborted, and whatever the   *)
(* server lists, completes and drops: a wait leaves no reader behind, is   *)
(* within its budget and its grace, and is ready only over the window read *)
(* ahead of its own reader, one piece in twenty missing at the most.       *)
THEOREM WaitIsSafe == PlaybackSpec => []WaitSafe
<1>1. WaitInv => WaitSafe
  BY DEF WaitInv
<1> QED
  BY WaitAlways, <1>1, PTL
=============================================================================
