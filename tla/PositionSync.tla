---------------------------- MODULE PositionSync ----------------------------
(***************************************************************************)
(* Where the playback position of a file lives, and who may overwrite it.  *)
(*                                                                         *)
(* Four parties touch a position: the player of this device, which saves   *)
(* it to SQLite and sends it to TorrServer (screens/player/progress.rs);   *)
(* the job that opens a torrent and decides where its files resume         *)
(* (services/jobs/torrents.rs); the background pass that takes in what     *)
(* other clients left on the server (services/jobs/torrserver_sync.rs);    *)
(* and those other clients.  All of it is about one torrent of one title.  *)
(*                                                                         *)
(* A step is what runs between two awaits: one SQLite statement, one HTTP  *)
(* request, or the synchronous code of a frame.  Positions are seconds; a  *)
(* model may use a coarser unit as long as Tolerance is given in it.       *)
(***************************************************************************)
EXTENDS Integers

CONSTANTS
    File,           \* the playable files of the torrent
    Episode,        \* episode numbers a file name can be read as
    EpisodeOf,      \* the number parse_file_episode finds in each file's path
    IsShow,         \* the title is a TV show, not a movie
    Server,         \* TorrServer instances the settings may point at
    Tracks,         \* whether a server stores timecodes (its TrackTimecode)
    Task,           \* slots for save_progress calls that still run
    None,           \* no value: no row, no episode, no server
    MaxPos,         \* positions are 0 .. MaxPos
    Tolerance,      \* SEEN_TOLERANCE_SECS
    TrackOnly,      \* the track_timecode setting
    MaxPlays,       \* bound: save_progress calls of a behaviour
    MaxMoves,       \* bound: positions other clients write
    MaxToggles,     \* bound: changes of the sync_history setting
    BoundBefore,    \* a pass has bound the database to the server before
    MayOverlap,     \* jobs of the device may run while others do
    MayLose,        \* a viewed_set or a sync pass may fail
    MaySwitch       \* the server URL may be changed

Pos == 0 .. MaxPos

ASSUME ConstantsAssumption ==
    /\ MaxPos \in Nat /\ Tolerance \in Nat
    /\ MaxPlays \in Nat /\ MaxMoves \in Nat /\ MaxToggles \in Nat
    /\ EpisodeOf \in [File -> Episode \cup {None}]
    /\ Tracks \in [Server -> BOOLEAN]
    /\ {IsShow, TrackOnly, BoundBefore, MayOverlap, MayLose, MaySwitch} \subseteq BOOLEAN
    /\ None \notin Pos /\ None \notin Episode
    /\ None \notin File /\ None \notin Server

VARIABLES
    timeline,       \* watch_timeline: the local position under each key
    seen,           \* torrserver_viewed_seen: per file, last read or sent
    origin,         \* torrserver_origin: the server `seen` is about
    url,            \* settings.torrserver.url
    synced,         \* settings.torrserver.sync_history
    viewed,         \* per server and file: the row of /viewed
    save,           \* the database half of each save_progress call
    send,           \* the viewed_set half of each save_progress call
    open,           \* the open_magnet job
    sync,           \* the sync_from_server job
    left            \* what is left of the bounds

vars == <<timeline, seen, origin, url, synced, viewed, save, send, open,
          sync, left>>

(***************************************************************************)
(* Keys.  A movie's row has no episode (core WatchKey), but the open job   *)
(* and the player key a file by whatever number its name starts with.      *)
(***************************************************************************)
Key == Episode \cup {None}

OpenKey(f) == EpisodeOf[f]

SyncKey(f) == IF IsShow THEN EpisodeOf[f] ELSE None

\* watch_key gives up on a show's file that names no episode
HasSyncKey(f) == IsShow => EpisodeOf[f] # None

Within(p, q) == p - q \in -Tolerance .. Tolerance

\* Mutant: the zero of a server without timecodes counts as a position.
IsForeignZeroCounts(server, known) == known # None => ~Within(server, known)

\* Mutant: what this device has seen or sent does not count.
IsForeignForgets(server, known) == server > 0

\* is_foreign_timecode
IsForeign(server, known) ==
    /\ server > 0
    /\ known # None => ~Within(server, known)

\* Mutant: the local position always wins.
MergeLocalWins(local, server, known) == IF local # None THEN local ELSE server

\* merge_timecode
Merge(local, server, known) ==
    IF IsForeign(server, known) \/ local = None THEN server ELSE local

\* is_tracking_position
Tracking == TrackOnly \/ synced

\* A row of /viewed; `by` only records who wrote it and is read by no action.
Row == [time : Pos, by : {"nobody", "device", "other"}]

\* What a server keeps of a `set`: a zero unless its TrackTimecode is on.
Stored(s, p, who) == [time |-> IF Tracks[s] THEN p ELSE 0, by |-> who]

NoRow == [time |-> 0, by |-> "nobody"]
NoRows == [f \in File |-> NoRow]
NoFiles == [f \in File |-> None]

IdleSave == [pc |-> "idle", file |-> None, time |-> None, track |-> FALSE]
IdleSend == [file |-> None, time |-> None, server |-> None]

IdleOpen == [pc |-> "idle", server |-> None, synced |-> FALSE,
             track |-> FALSE, rows |-> NoRows, seen |-> NoFiles,
             todo |-> {}, file |-> None, resume |-> NoFiles]

IdleSync == [pc |-> "idle", server |-> None, rows |-> NoRows, todo |-> {},
             cur |-> None]

\* An import: the file, the key it is stored under and the row it came from.
Import == [file : File, key : Key, row : Row]

Init ==
    /\ timeline = [k \in Key |-> None]
    /\ seen = [f \in File |-> None]
    /\ url \in Server
    /\ origin = IF BoundBefore THEN url ELSE None
    /\ synced \in BOOLEAN
    /\ viewed = [s \in Server |-> NoRows]
    /\ save = [t \in Task |-> IdleSave]
    /\ send = [t \in Task |-> IdleSend]
    /\ open = IdleOpen
    /\ sync = IdleSync
    /\ left = [plays |-> MaxPlays, moves |-> MaxMoves, toggles |-> MaxToggles]

Free(t) == save[t].pc = "idle" /\ send[t].file = None

Quiet ==
    /\ \A t \in Task : Free(t)
    /\ open.pc \in {"idle", "done"}
    /\ sync.pc = "idle"

MayStart == MayOverlap \/ Quiet

(***************************************************************************)
(* The player: save_progress.  Two spawned tasks leave the frame, one that *)
(* writes the database in order and one that sends the position.  Neither  *)
(* waits for the other nor for those of an earlier call.                   *)
(***************************************************************************)
Save(t, f, p) ==
    /\ MayStart
    /\ Free(t)
    /\ left.plays > 0
    /\ save' = [save EXCEPT ![t] = [pc |-> "timeline", file |-> f, time |-> p,
                                    track |-> Tracking]]
    /\ send' = IF Tracking
               THEN [send EXCEPT ![t] = [file |-> f, time |-> p, server |-> url]]
               ELSE send
    /\ left' = [left EXCEPT !.plays = @ - 1]
    /\ UNCHANGED <<timeline, seen, origin, url, synced, viewed, open, sync>>

\* upsert_watch_timeline
SaveTimeline(t) ==
    /\ save[t].pc = "timeline"
    /\ timeline' = [timeline EXCEPT ![OpenKey(save[t].file)] = save[t].time]
    /\ save' = IF save[t].track THEN [save EXCEPT ![t].pc = "seen"]
                                ELSE [save EXCEPT ![t] = IdleSave]
    /\ UNCHANGED <<seen, origin, url, synced, viewed, send, open, sync, left>>

\* put_viewed_seen of the position that was sent
SaveSeen(t) ==
    /\ save[t].pc = "seen"
    /\ seen' = [seen EXCEPT ![save[t].file] = save[t].time]
    /\ save' = [save EXCEPT ![t] = IdleSave]
    /\ UNCHANGED <<timeline, origin, url, synced, viewed, send, open, sync, left>>

\* viewed_set reaches the server
Deliver(t) ==
    /\ send[t].file # None
    /\ viewed' = [viewed EXCEPT ![send[t].server][send[t].file] =
                     Stored(send[t].server, send[t].time, "device")]
    /\ send' = [send EXCEPT ![t] = IdleSend]
    /\ UNCHANGED <<timeline, seen, origin, url, synced, save, open, sync, left>>

\* viewed_set fails or times out; nothing retries it
Lose(t) ==
    /\ MayLose
    /\ send[t].file # None
    /\ send' = [send EXCEPT ![t] = IdleSend]
    /\ UNCHANGED <<timeline, seen, origin, url, synced, viewed, save, open,
                   sync, left>>

(***************************************************************************)
(* Other clients and the settings.                                         *)
(***************************************************************************)
Move(s, f, p) ==
    /\ left.moves > 0
    /\ viewed' = [viewed EXCEPT ![s][f] = Stored(s, p, "other")]
    /\ left' = [left EXCEPT !.moves = @ - 1]
    /\ UNCHANGED <<timeline, seen, origin, url, synced, save, send, open, sync>>

SwitchServer(s) ==
    /\ MaySwitch
    /\ left.toggles > 0
    /\ url # s
    /\ url' = s
    /\ left' = [left EXCEPT !.toggles = @ - 1]
    /\ UNCHANGED <<timeline, seen, origin, synced, viewed, save, send, open, sync>>

ToggleSync ==
    /\ left.toggles > 0
    /\ synced' = ~synced
    /\ left' = [left EXCEPT !.toggles = @ - 1]
    /\ UNCHANGED <<timeline, seen, origin, url, viewed, save, send, open, sync>>

(***************************************************************************)
(* Opening a torrent: open_magnet, decorate_files, resume_timecode.        *)
(***************************************************************************)
OpenStart ==
    /\ MayStart
    /\ open.pc \in {"idle", "done"}
    /\ open' = [IdleOpen EXCEPT !.pc = "list", !.server = url,
                                !.synced = synced, !.track = Tracking]
    /\ UNCHANGED <<timeline, seen, origin, url, synced, viewed, save, send,
                   sync, left>>

\* viewed_list; its failure leaves no rows
OpenList ==
    /\ open.pc = "list"
    /\ \E rows \in {viewed[open.server], NoRows} :
          /\ rows = NoRows => ~open.track \/ MayLose \/ viewed[open.server] = NoRows
          /\ open.track \/ rows = NoRows
          /\ open' = [open EXCEPT !.pc = "seen", !.rows = rows]
    /\ UNCHANGED <<timeline, seen, origin, url, synced, viewed, save, send,
                   sync, left>>

\* seen_positions
OpenSeen ==
    /\ open.pc = "seen"
    /\ open' = [open EXCEPT !.pc = "file", !.todo = File,
                            !.seen = IF open.synced THEN seen ELSE NoFiles]
    /\ UNCHANGED <<timeline, seen, origin, url, synced, viewed, save, send,
                   sync, left>>

\* resume_timecode up to its first write
OpenFile(f) ==
    LET local == timeline[OpenKey(f)]
        server == open.rows[f].time
        foreign == open.synced /\ IsForeign(server, open.seen[f])
        resume == IF open.synced THEN Merge(local, server, open.seen[f])
                  ELSE IF local = None THEN server ELSE local
    IN  /\ open.pc = "file"
        /\ f \in open.todo
        /\ open' = [open EXCEPT !.pc = IF foreign THEN "import" ELSE "file",
                                !.file = IF foreign THEN f ELSE None,
                                !.todo = @ \ {f},
                                !.resume[f] = resume]
        /\ UNCHANGED <<timeline, seen, origin, url, synced, viewed, save, send,
                       sync, left>>

\* import_watch_timeline
OpenImport ==
    /\ open.pc = "import"
    /\ timeline' = [timeline EXCEPT ![OpenKey(open.file)] = open.resume[open.file]]
    /\ open' = [open EXCEPT !.pc = "mark"]
    /\ UNCHANGED <<seen, origin, url, synced, viewed, save, send, sync, left>>

\* put_viewed_seen
OpenMark ==
    /\ open.pc = "mark"
    /\ seen' = [seen EXCEPT ![open.file] = open.rows[open.file].time]
    /\ open' = [open EXCEPT !.pc = "file", !.file = None]
    /\ UNCHANGED <<timeline, origin, url, synced, viewed, save, send, sync, left>>

OpenDone ==
    /\ open.pc = "file"
    /\ open.todo = {}
    /\ open' = [open EXCEPT !.pc = "done"]
    /\ UNCHANGED <<timeline, seen, origin, url, synced, viewed, save, send,
                   sync, left>>

(***************************************************************************)
(* A sync pass: sync_from_server and SyncPass::import_positions.  The      *)
(* title lookup and the details fetch run between SyncList and SyncSeen.   *)
(***************************************************************************)
SyncStart ==
    /\ MayStart
    /\ synced
    /\ sync.pc = "idle"
    /\ sync' = [IdleSync EXCEPT !.pc = "bind", !.server = url]
    /\ UNCHANGED <<timeline, seen, origin, url, synced, viewed, save, send,
                   open, left>>

\* Mutant: every pass empties the seen positions.
SyncBindForgets ==
    /\ sync.pc = "bind"
    /\ origin' = sync.server
    /\ seen' = NoFiles
    /\ sync' = [sync EXCEPT !.pc = "list"]
    /\ UNCHANGED <<timeline, url, synced, viewed, save, send, open, left>>

\* bind_torrserver
SyncBind ==
    /\ sync.pc = "bind"
    /\ origin' = sync.server
    /\ seen' = IF origin = sync.server THEN seen ELSE NoFiles
    /\ sync' = [sync EXCEPT !.pc = "list"]
    /\ UNCHANGED <<timeline, url, synced, viewed, save, send, open, left>>

\* viewed_all
SyncList ==
    /\ sync.pc = "list"
    /\ sync' = [sync EXCEPT !.pc = "seen", !.rows = viewed[sync.server]]
    /\ UNCHANGED <<timeline, seen, origin, url, synced, viewed, save, send,
                   open, left>>

\* viewed_seen, and the rows another client moved
SyncSeen ==
    /\ sync.pc = "seen"
    /\ sync' = [sync EXCEPT
          !.pc = "import",
          !.todo = { [file |-> f, key |-> SyncKey(f), row |-> sync.rows[f]] :
                        f \in { g \in File : /\ HasSyncKey(g)
                                             /\ IsForeign(sync.rows[g].time, seen[g]) } }]
    /\ UNCHANGED <<timeline, seen, origin, url, synced, viewed, save, send,
                   open, left>>

\* Imported::order: episodes ascending (no episode first), then positions
Number(k) == IF k = None THEN 0 ELSE k
Before(i, j) ==
    \/ Number(i.key) < Number(j.key)
    \/ Number(i.key) = Number(j.key) /\ i.row.time < j.row.time

IsNext(i) == i \in sync.todo /\ \A j \in sync.todo : ~Before(j, i)

\* Mutant: the import in progress is not remembered.
SyncImportLosesPlace(i) ==
    /\ sync.pc = "import"
    /\ IsNext(i)
    /\ timeline' = [timeline EXCEPT ![i.key] = i.row.time]
    /\ sync' = [sync EXCEPT !.pc = "mark", !.todo = @ \ {i}]
    /\ UNCHANGED <<seen, origin, url, synced, viewed, save, send, open, left>>

\* import_watch_timeline
SyncImport(i) ==
    /\ sync.pc = "import"
    /\ IsNext(i)
    /\ timeline' = [timeline EXCEPT ![i.key] = i.row.time]
    /\ sync' = [sync EXCEPT !.pc = "mark", !.todo = @ \ {i}, !.cur = i]
    /\ UNCHANGED <<seen, origin, url, synced, viewed, save, send, open, left>>

\* Mutant: an imported position is not marked seen.
SyncMarkForgets ==
    /\ sync.pc = "mark"
    /\ sync' = [sync EXCEPT !.pc = "import", !.cur = None]
    /\ UNCHANGED <<timeline, seen, origin, url, synced, viewed, save, send, open, left>>

\* put_viewed_seen
SyncMark ==
    /\ sync.pc = "mark"
    /\ seen' = [seen EXCEPT ![sync.cur.file] = sync.cur.row.time]
    /\ sync' = [sync EXCEPT !.pc = "import", !.cur = None]
    /\ UNCHANGED <<timeline, origin, url, synced, viewed, save, send, open, left>>

SyncDone ==
    /\ sync.pc = "import"
    /\ sync.todo = {}
    /\ sync' = IdleSync
    /\ UNCHANGED <<timeline, seen, origin, url, synced, viewed, save, send,
                   open, left>>

\* an error of any step: the torrent, or the whole pass, is given up
SyncFail ==
    /\ MayLose
    /\ sync.pc # "idle"
    /\ sync' = IdleSync
    /\ UNCHANGED <<timeline, seen, origin, url, synced, viewed, save, send,
                   open, left>>

SaveStep(t) == SaveTimeline(t) \/ SaveSeen(t)

OpenStep ==
    \/ OpenList \/ OpenSeen \/ OpenImport \/ OpenMark \/ OpenDone
    \/ \E f \in File : OpenFile(f)

SyncStep ==
    \/ SyncBind \/ SyncList \/ SyncSeen \/ SyncMark \/ SyncDone
    \/ \E i \in sync.todo : SyncImport(i)

Next ==
    \/ \E t \in Task, f \in File, p \in Pos : Save(t, f, p)
    \/ \E t \in Task : SaveStep(t) \/ Deliver(t) \/ Lose(t)
    \/ \E s \in Server, f \in File, p \in Pos : Move(s, f, p)
    \/ \E s \in Server : SwitchServer(s)
    \/ ToggleSync
    \/ OpenStart \/ OpenStep
    \/ SyncStart \/ SyncStep \/ SyncFail

(***************************************************************************)
(* What was started goes on: spawned tasks are polled by the runtime and   *)
(* every request has a timeout.  Nothing makes the user play, open a       *)
(* torrent or come back to the home screen, which starts a pass.           *)
(***************************************************************************)
Fairness ==
    /\ \A t \in Task : WF_vars(SaveStep(t)) /\ WF_vars(Deliver(t) \/ Lose(t))
    /\ WF_vars(OpenStep)
    /\ WF_vars(SyncStep)

Spec == Init /\ [][Next]_vars

FairSpec == Spec /\ Fairness

-----------------------------------------------------------------------------
MaybePos == Pos \cup {None}
MaybeFile == File \cup {None}
MaybeServer == Server \cup {None}

SaveJob == [pc : {"idle", "timeline", "seen"}, file : MaybeFile,
            time : MaybePos, track : BOOLEAN]

SendJob == [file : MaybeFile, time : MaybePos, server : MaybeServer]

OpenJob == [pc : {"idle", "list", "seen", "file", "import", "mark", "done"},
            server : MaybeServer, synced : BOOLEAN, track : BOOLEAN,
            rows : [File -> Row], seen : [File -> MaybePos],
            todo : SUBSET File, file : MaybeFile,
            resume : [File -> MaybePos]]

SyncJob == [pc : {"idle", "bind", "list", "seen", "import", "mark"},
            server : MaybeServer, rows : [File -> Row],
            todo : SUBSET Import, cur : Import \cup {None}]

\* The state stays within the values the code can store; a job past its start
\* knows its server, and one about to write knows its file.
TypeOK ==
    /\ timeline \in [Key -> MaybePos]
    /\ seen \in [File -> MaybePos]
    /\ origin \in MaybeServer
    /\ url \in Server
    /\ synced \in BOOLEAN
    /\ viewed \in [Server -> [File -> Row]]
    /\ save \in [Task -> SaveJob]
    /\ \A t \in Task : save[t].pc # "idle" => save[t].file \in File /\ save[t].time \in Pos
    /\ send \in [Task -> SendJob]
    /\ \A t \in Task : send[t].file # None => send[t].server \in Server /\ send[t].time \in Pos
    /\ open \in OpenJob
    /\ open.pc \notin {"idle", "done"} => open.server \in Server
    /\ open.pc \in {"import", "mark"} => open.file \in File
    /\ sync \in SyncJob
    /\ sync.pc # "idle" => sync.server \in Server
    /\ sync.pc = "mark" => sync.cur \in Import
    /\ left \in [plays : Nat, moves : Nat, toggles : Nat]

\* A position is taken in from the server only if another client wrote it,
\* never one this device sent itself (what is_foreign_timecode is documented
\* to tell, torrserver/viewed.rs).
OnlyOthersTakenIn ==
    /\ \A i \in sync.todo : i.row.by = "other"
    /\ sync.pc = "mark" => sync.cur.row.by = "other"
    /\ open.pc \in {"import", "mark"} => open.rows[open.file].by = "other"

(***************************************************************************)
(* Why OnlyOthersTakenIn holds of a device whose jobs take turns, whose    *)
(* requests succeed and which stays with the one server it is bound to.    *)
(***************************************************************************)
Calm == BoundBefore /\ ~MayOverlap /\ ~MayLose /\ ~MaySwitch

\* Everything that runs is about the one server.
OneServer ==
    /\ origin = url
    /\ open.pc \notin {"idle", "done"} => open.server = url
    /\ sync.pc # "idle" => sync.server = url
    /\ \A t \in Task : send[t].file # None => send[t].server = url

\* One job at a time.
TakingTurns ==
    /\ \A t, u \in Task : Free(t) \/ Free(u) \/ t = u
    /\ open.pc \notin {"idle", "done"} => sync.pc = "idle" /\ \A t \in Task : Free(t)
    /\ sync.pc # "idle" => \A t \in Task : Free(t)

\* The two halves of a save agree on the file and the position.
HalvesAgree ==
    \A t \in Task :
        /\ save[t].pc = "seen" => save[t].track
        /\ send[t].file # None =>
              IF save[t].pc = "idle"
              THEN seen[send[t].file] = send[t].time
              ELSE /\ save[t].track
                   /\ save[t].file = send[t].file
                   /\ save[t].time = send[t].time

\* A tracked save that is not complete yet.
Saving(t) == save[t].pc # "idle" /\ save[t].track

Settling(f) == \E t \in Task : send[t].file = f \/ (Saving(t) /\ save[t].file = f)

Mine(row) == row.by = "device" /\ row.time # 0

\* A row of this device holds what the device remembers, or is about to.
OwnRowsKnown ==
    \A f \in File : Mine(viewed[url][f]) =>
        /\ ~Settling(f) => seen[f] = viewed[url][f].time
        /\ \A t \in Task : Saving(t) /\ save[t].file = f /\ send[t].file = None =>
              save[t].time = viewed[url][f].time

NobodyWroteZero ==
    /\ \A s \in Server, f \in File : viewed[s][f].by = "nobody" => viewed[s][f].time = 0
    /\ \A f \in File : open.rows[f].by = "nobody" => open.rows[f].time = 0
    /\ \A f \in File : sync.rows[f].by = "nobody" => sync.rows[f].time = 0

\* What a job read stays true of the server until the job ends: no position
\* of another client is replaced by one of this device meanwhile.
ReadsHold ==
    \A f \in File :
        /\ open.pc \in {"seen", "file", "import", "mark"} /\ open.rows[f].by = "other" =>
              viewed[url][f].by = "other"
        /\ open.pc = "seen" /\ Mine(open.rows[f]) => seen[f] = open.rows[f].time
        /\ open.pc \in {"file", "import", "mark"} /\ open.synced /\ Mine(open.rows[f]) =>
              open.seen[f] = open.rows[f].time
        /\ sync.pc \in {"seen", "import", "mark"} /\ sync.rows[f].by = "other" =>
              viewed[url][f].by = "other"
        /\ sync.pc = "seen" /\ Mine(sync.rows[f]) => seen[f] = sync.rows[f].time

ImportsAreRows ==
    /\ \A i \in sync.todo : i.row = sync.rows[i.file]
    /\ sync.pc = "mark" => sync.cur.row = sync.rows[sync.cur.file]
    /\ sync.todo # {} => sync.pc \in {"import", "mark"}

OwnInv ==
    /\ OneServer /\ TakingTurns /\ HalvesAgree /\ OwnRowsKnown
    /\ NobodyWroteZero /\ ReadsHold /\ ImportsAreRows /\ OnlyOthersTakenIn

\* The player has stored the position of a row it sent, so a different local
\* one is a later one (no save of it has its database half to come).
IsStored(row, f) ==
    \A t \in Task : ~(save[t].pc = "timeline" /\ save[t].file = f /\ save[t].time = row.time)

\* A pass judges no older position of this device to be another client's, to
\* be imported over that of a later save: "what goes to /viewed below is this
\* device's own, so the sync must not take it back in" (save_progress).
\* Taking in what is already there, or what a save under way is about to
\* store, does no harm.
OwnNotTakenBack ==
    [][SyncSeen => \A i \in sync'.todo :
          i.row.by = "device" /\ IsStored(i.row, i.file) /\ timeline[i.key] \notin {None, 0} =>
              Within(i.row.time, timeline[i.key])]_vars

\* Nothing is taken in from a server that stores no timecodes: it answers a
\* zero to every client, and a zero, this device's own `set` included, must
\* not send local positions back to the start.
NothingFromUntracked ==
    /\ sync.todo # {} \/ sync.pc = "mark" => Tracks[sync.server]
    /\ open.pc \in {"import", "mark"} => Tracks[open.server]

\* A synced torrent list resumes each file where another client left it: a
\* position the sync pass took in earlier is found again when the torrent is
\* opened (torrserver_sync.rs, resume_timecode in jobs/torrents.rs).
ResumesWhereOtherLeft ==
    open.pc = "done" /\ open.synced =>
        \A f \in File :
            open.rows[f].by = "other" /\ open.rows[f].time > 0 =>
                /\ open.resume[f] # None
                /\ Within(open.resume[f], open.rows[f].time)

\* Every row of the current server is one the device has seen.
Settled == \A f \in File : HasSyncKey(f) => ~IsForeign(viewed[url][f].time, seen[f])

\* However saves, passes, opens and failures interleave, once nothing new is
\* written the completed passes agree with the server: nothing is taken in
\* over and over.
PassesConverge == []<><<SyncDone>>_vars => <>[]Settled

=============================================================================
