-------------------------- MODULE PositionSyncProofs --------------------------
(***************************************************************************)
(* Proofs about PositionSync, for every set of files, servers and save     *)
(* slots and every bound: the state stays well typed, and a device whose   *)
(* jobs do not overlap, whose requests succeed and whose database is bound *)
(* to its one server never takes its own position in from that server.     *)
(***************************************************************************)
EXTENDS PositionSync, TLAPS

LEMMA SyncKeyType == \A f \in File : SyncKey(f) \in Key
  BY ConstantsAssumption DEF SyncKey, Key

LEMMA OpenKeyType == \A f \in File : OpenKey(f) \in Key
  BY ConstantsAssumption DEF OpenKey, Key

LEMMA StoredType == \A s \in Server, p \in Pos, who \in {"device", "other"} :
                       Stored(s, p, who) \in Row
  BY ConstantsAssumption DEF Stored, Row, Pos

LEMMA NoRowsType == NoRows \in [File -> Row]
  BY ConstantsAssumption DEF NoRows, NoRow, Row, Pos

LEMMA MergeType == \A local \in MaybePos, server \in Pos, known \in MaybePos :
                      Merge(local, server, known) \in MaybePos
  BY DEF Merge, MaybePos

LEMMA JobTypes ==
    /\ IdleSave \in SaveJob /\ IdleSave.pc = "idle"
    /\ IdleSend \in SendJob /\ IdleSend.file = None
    /\ IdleOpen \in OpenJob /\ IdleOpen.pc = "idle"
    /\ IdleSync \in SyncJob /\ IdleSync.pc = "idle"
<1>1. IdleSave \in SaveJob /\ IdleSave.pc = "idle"
  BY DEF IdleSave, SaveJob, MaybeFile, MaybePos
<1>2. IdleSend \in SendJob /\ IdleSend.file = None
  BY DEF IdleSend, SendJob, MaybeFile, MaybePos, MaybeServer
<1>3. NoFiles \in [File -> MaybePos]
  BY DEF NoFiles, MaybePos
<1>4. IdleOpen \in OpenJob /\ IdleOpen.pc = "idle"
  BY <1>3, NoRowsType DEF IdleOpen, OpenJob, MaybeFile, MaybeServer
<1>5. IdleSync \in SyncJob /\ IdleSync.pc = "idle"
  BY NoRowsType DEF IdleSync, SyncJob, MaybeServer
<1> QED
  BY <1>1, <1>2, <1>4, <1>5

\* The state stays within the values the code can store, whatever the
\* constants: SQLite rows, job records and requests in flight.
THEOREM TypeCorrect == Spec => []TypeOK
<1>1. Init => TypeOK
  <2> SUFFICES ASSUME Init PROVE TypeOK
    OBVIOUS
  <2>1. seen \in [File -> MaybePos] /\ timeline \in [Key -> MaybePos]
    BY DEF Init, MaybePos
  <2>2. origin \in MaybeServer /\ url \in Server /\ synced \in BOOLEAN
    BY DEF Init, MaybeServer
  <2>3. viewed \in [Server -> [File -> Row]]
    BY NoRowsType DEF Init
  <2>4. left \in [plays : Nat, moves : Nat, toggles : Nat]
    BY ConstantsAssumption DEF Init
  <2> QED
    BY <2>1, <2>2, <2>3, <2>4, JobTypes DEF Init, TypeOK
<1>2. TypeOK /\ [Next]_vars => TypeOK'
  <2> SUFFICES ASSUME TypeOK, [Next]_vars PROVE TypeOK'
    OBVIOUS
  <2> USE DEF TypeOK
  <2>1. CASE UNCHANGED vars
    BY <2>1 DEF vars
  <2>2. ASSUME NEW t \in Task, NEW f \in File, NEW p \in Pos, Save(t, f, p)
        PROVE  TypeOK'
    <3>1. Tracking \in BOOLEAN
      BY ConstantsAssumption DEF Tracking
    <3>2. save' \in [Task -> SaveJob] /\ send' \in [Task -> SendJob]
      BY <2>2, <3>1 DEF Save, SaveJob, SendJob, MaybePos, MaybeFile, MaybeServer
    <3>3. \A u \in Task : save'[u].pc # "idle" => save'[u].file \in File /\ save'[u].time \in Pos
      BY <2>2 DEF Save
    <3>4. \A u \in Task : send'[u].file # None => send'[u].server \in Server /\ send'[u].time \in Pos
      BY <2>2 DEF Save
    <3>5. left' \in [plays : Nat, moves : Nat, toggles : Nat]
      BY <2>2 DEF Save
    <3> QED
      BY <2>2, <3>2, <3>3, <3>4, <3>5 DEF Save
  <2>3. ASSUME NEW t \in Task, SaveTimeline(t) PROVE TypeOK'
    <3>1. timeline' \in [Key -> MaybePos]
      BY <2>3, OpenKeyType DEF SaveTimeline, MaybePos
    <3>2. save' \in [Task -> SaveJob]
      BY <2>3, JobTypes DEF SaveTimeline, SaveJob
    <3>3. \A u \in Task : save'[u].pc # "idle" => save'[u].file \in File /\ save'[u].time \in Pos
      BY <2>3, JobTypes DEF SaveTimeline, SaveJob
    <3> QED
      BY <2>3, <3>1, <3>2, <3>3 DEF SaveTimeline
  <2>4. ASSUME NEW t \in Task, SaveSeen(t) PROVE TypeOK'
    <3>1. seen' \in [File -> MaybePos]
      BY <2>4 DEF SaveSeen, MaybePos
    <3>2. save' \in [Task -> SaveJob]
      BY <2>4, JobTypes DEF SaveSeen
    <3>3. \A u \in Task : save'[u].pc # "idle" => save'[u].file \in File /\ save'[u].time \in Pos
      BY <2>4, JobTypes DEF SaveSeen, SaveJob
    <3> QED
      BY <2>4, <3>1, <3>2, <3>3 DEF SaveSeen
  <2>5. ASSUME NEW t \in Task, Deliver(t) PROVE TypeOK'
    <3>1. viewed' \in [Server -> [File -> Row]]
      BY <2>5, StoredType DEF Deliver, SendJob, MaybeFile
    <3>2. send' \in [Task -> SendJob]
      BY <2>5, JobTypes DEF Deliver
    <3>3. \A u \in Task : send'[u].file # None => send'[u].server \in Server /\ send'[u].time \in Pos
      BY <2>5, JobTypes DEF Deliver, SendJob
    <3> QED
      BY <2>5, <3>1, <3>2, <3>3 DEF Deliver
  <2>6. ASSUME NEW t \in Task, Lose(t) PROVE TypeOK'
    <3>1. send' \in [Task -> SendJob]
      BY <2>6, JobTypes DEF Lose
    <3>2. \A u \in Task : send'[u].file # None => send'[u].server \in Server /\ send'[u].time \in Pos
      BY <2>6, JobTypes DEF Lose, SendJob
    <3> QED
      BY <2>6, <3>1, <3>2 DEF Lose
  <2>7. ASSUME NEW s \in Server, NEW f \in File, NEW p \in Pos, Move(s, f, p)
        PROVE  TypeOK'
    <3>1. viewed' \in [Server -> [File -> Row]]
      BY <2>7, StoredType DEF Move
    <3>2. left' \in [plays : Nat, moves : Nat, toggles : Nat]
      BY <2>7 DEF Move
    <3> QED
      BY <2>7, <3>1, <3>2 DEF Move
  <2>8. ASSUME NEW s \in Server, SwitchServer(s) PROVE TypeOK'
    BY <2>8 DEF SwitchServer
  <2>9. CASE ToggleSync
    BY <2>9 DEF ToggleSync
  <2>10. CASE OpenStart
    <3>0. Tracking \in BOOLEAN
      BY ConstantsAssumption DEF Tracking
    <3>1. open' \in OpenJob
      BY <2>10, <3>0, JobTypes DEF OpenStart, OpenJob, MaybeServer
    <3>2. open'.pc = "list" /\ open'.server = url
      BY <2>10 DEF OpenStart, IdleOpen
    <3> QED
      BY <2>10, <3>1, <3>2 DEF OpenStart
  <2>11. CASE OpenList
    <3>1. open' \in OpenJob /\ open'.pc = "seen" /\ open'.server = open.server
      BY <2>11, NoRowsType DEF OpenList, OpenJob
    <3> QED
      BY <2>11, <3>1 DEF OpenList
  <2>12. CASE OpenSeen
    <3>1. NoFiles \in [File -> MaybePos]
      BY DEF NoFiles, MaybePos
    <3>2. open' \in OpenJob /\ open'.pc = "file" /\ open'.server = open.server
      BY <2>12, <3>1 DEF OpenSeen, OpenJob
    <3> QED
      BY <2>12, <3>2 DEF OpenSeen
  <2>13. ASSUME NEW f \in File, OpenFile(f) PROVE TypeOK'
    <3>1. /\ timeline[OpenKey(f)] \in MaybePos
          /\ open.rows[f].time \in Pos
          /\ open.seen[f] \in MaybePos
      BY OpenKeyType DEF OpenJob, Row
    <3>2. Merge(timeline[OpenKey(f)], open.rows[f].time, open.seen[f]) \in MaybePos
      BY <3>1, MergeType
    <3>3. /\ open' \in OpenJob /\ open'.pc \in {"file", "import"}
          /\ open'.server = open.server
          /\ open'.pc = "import" => open'.file = f
      BY <2>13, <3>1, <3>2 DEF OpenFile, OpenJob, MaybePos, MaybeFile
    <3> QED
      BY <2>13, <3>3 DEF OpenFile
  <2>14. CASE OpenImport
    <3>1. timeline' \in [Key -> MaybePos]
      BY <2>14, OpenKeyType DEF OpenImport, OpenJob
    <3>2. open' \in OpenJob /\ open'.server = open.server /\ open'.file = open.file
      BY <2>14 DEF OpenImport, OpenJob
    <3> QED
      BY <2>14, <3>1, <3>2 DEF OpenImport
  <2>15. CASE OpenMark
    <3>1. seen' \in [File -> MaybePos]
      BY <2>15 DEF OpenMark, OpenJob, Row, MaybePos
    <3>2. open' \in OpenJob /\ open'.server = open.server /\ open'.pc = "file"
      BY <2>15 DEF OpenMark, OpenJob, MaybeFile
    <3> QED
      BY <2>15, <3>1, <3>2 DEF OpenMark
  <2>16. CASE OpenDone
    <3>1. open' \in OpenJob /\ open'.pc = "done"
      BY <2>16 DEF OpenDone, OpenJob
    <3> QED
      BY <2>16, <3>1 DEF OpenDone
  <2>17. CASE SyncStart
    <3>1. sync' \in SyncJob /\ sync'.pc = "bind" /\ sync'.server = url
      BY <2>17, JobTypes DEF SyncStart, SyncJob, IdleSync, MaybeServer
    <3> QED
      BY <2>17, <3>1 DEF SyncStart
  <2>18. CASE SyncBind
    <3>1. seen' \in [File -> MaybePos]
      BY <2>18 DEF SyncBind, NoFiles, MaybePos
    <3>2. sync' \in SyncJob /\ sync'.pc = "list" /\ sync'.server = sync.server
      BY <2>18 DEF SyncBind, SyncJob
    <3> QED
      BY <2>18, <3>1, <3>2 DEF SyncBind, SyncJob, MaybeServer
  <2>19. CASE SyncList
    <3>1. sync' \in SyncJob /\ sync'.pc = "seen" /\ sync'.server = sync.server
      BY <2>19 DEF SyncList, SyncJob
    <3> QED
      BY <2>19, <3>1 DEF SyncList
  <2>20. CASE SyncSeen
    <3>1. \A f \in File : [file |-> f, key |-> SyncKey(f), row |-> sync.rows[f]] \in Import
      BY SyncKeyType DEF Import, SyncJob
    <3> DEFINE moved == { g \in File : /\ HasSyncKey(g)
                                       /\ IsForeign(sync.rows[g].time, seen[g]) }
               todo == { [file |-> f, key |-> SyncKey(f), row |-> sync.rows[f]] : f \in moved }
    <3>2. todo \in SUBSET Import
      BY <3>1
    <3>3. sync' = [sync EXCEPT !.pc = "import", !.todo = todo]
      BY <2>20 DEF SyncSeen
    <3> HIDE DEF todo
    <3>4. sync' \in SyncJob /\ sync'.pc = "import" /\ sync'.server = sync.server
      BY <3>2, <3>3 DEF SyncJob
    <3> QED
      BY <2>20, <3>4 DEF SyncSeen
  <2>21. ASSUME NEW i \in sync.todo, SyncImport(i) PROVE TypeOK'
    <3>1. i \in Import
      BY <2>21 DEF SyncJob
    <3>2. timeline' \in [Key -> MaybePos]
      BY <2>21, <3>1 DEF SyncImport, Import, Row, MaybePos
    <3>3. /\ sync' \in SyncJob /\ sync'.pc = "mark"
          /\ sync'.server = sync.server /\ sync'.cur = i
      BY <2>21, <3>1 DEF SyncImport, SyncJob
    <3> QED
      BY <2>21, <3>1, <3>2, <3>3 DEF SyncImport
  <2>22. CASE SyncMark
    <3>1. seen' \in [File -> MaybePos]
      BY <2>22 DEF SyncMark, Import, Row, MaybePos
    <3>2. sync' \in SyncJob /\ sync'.pc = "import" /\ sync'.server = sync.server
      BY <2>22 DEF SyncMark, SyncJob
    <3> QED
      BY <2>22, <3>1, <3>2 DEF SyncMark
  <2>23. CASE SyncDone
    BY <2>23, JobTypes DEF SyncDone
  <2>24. CASE SyncFail
    BY <2>24, JobTypes DEF SyncFail
  <2> QED
    BY <2>1, <2>2, <2>3, <2>4, <2>5, <2>6, <2>7, <2>8, <2>9, <2>10, <2>11, <2>12,
       <2>13, <2>14, <2>15, <2>16, <2>17, <2>18, <2>19, <2>20, <2>21, <2>22,
       <2>23, <2>24
    DEF Next, SaveStep, OpenStep, SyncStep
<1> QED
  BY <1>1, <1>2, PTL DEF Spec

-------------------------------------------------------------------------------
LEMMA WithinItself == \A q \in Pos : Within(q, q)
  BY ConstantsAssumption DEF Within, Pos

LEMMA IdleRows ==
    /\ \A f \in File : NoRows[f].time = 0 /\ NoRows[f].by = "nobody"
    /\ IdleOpen.rows = NoRows /\ IdleSync.rows = NoRows
    /\ IdleSync.todo = {}
  BY DEF NoRows, NoRow, IdleOpen, IdleSync

LEMMA StoredFields == \A s \in Server, p \in Pos, who \in {"device", "other"} :
    /\ Stored(s, p, who).by = who
    /\ Stored(s, p, who).time \in {0, p}
  BY DEF Stored

\* What a position read back as known is never foreign; nor is a zero.
LEMMA OnlyOthersForeign ==
  ASSUME NEW row \in Row, NEW known \in MaybePos, IsForeign(row.time, known),
         Mine(row) => known = row.time,
         row.by = "nobody" => row.time = 0
  PROVE  row.by = "other"
<1>1. row.time \in Pos /\ row.time > 0
  BY DEF IsForeign, Row
<1>2. ~Mine(row)
  BY <1>1, WithinItself, ConstantsAssumption DEF IsForeign
<1> QED
  BY <1>1, <1>2 DEF Mine, Row, Pos

LEMMA OwnInvInit == Init /\ Calm => OwnInv
  BY ConstantsAssumption
  DEF Init, Calm, OwnInv, OneServer, TakingTurns, HalvesAgree, OwnRowsKnown,
      NobodyWroteZero, ReadsHold, ImportsAreRows, OnlyOthersTakenIn, IdleSave,
      IdleSend, IdleOpen, IdleSync, NoRows, NoRow, Free, Mine

(***************************************************************************)
(* Each action preserves OwnInv.  The parts an action cannot disturb come  *)
(* first, then one step per part it touches.                               *)
(***************************************************************************)
LEMMA SaveKeepsOwnInv ==
  ASSUME TypeOK, Calm, OwnInv, NEW t \in Task, NEW f \in File, NEW p \in Pos, Save(t, f, p)
  PROVE  OwnInv'
<1>1. NobodyWroteZero' /\ ReadsHold' /\ ImportsAreRows' /\ OnlyOthersTakenIn'
  BY DEF Save, OwnInv, NobodyWroteZero, ReadsHold, Mine, ImportsAreRows,
         OnlyOthersTakenIn
<1>2. OneServer'
  BY DEF OwnInv, TypeOK, Save, OneServer, SaveJob, SendJob
<1>3. TakingTurns'
  BY DEF OwnInv, TypeOK, Save, TakingTurns, Free, SaveJob, SendJob, Calm, MayStart,
         Quiet, Free
<1>4. HalvesAgree'
  BY DEF OwnInv, TypeOK, Save, HalvesAgree, SaveJob, SendJob, Calm, MayStart, Quiet,
         Free
<1>5. OwnRowsKnown'
  <2>1. \A u \in Task : Free(u)
    BY DEF Save, Calm, MayStart, Quiet
  <2>2. \A u \in Task \ {t} : save'[u] = save[u] /\ send'[u] = send[u]
    BY DEF Save, TypeOK
  <2>3. Saving(t)' => save'[t].file = f /\ send'[t].file = f /\ f # None
    BY ConstantsAssumption DEF Save, TypeOK, Saving
  <2>4. \A g \in File : ~Settling(g)
    BY <2>1, ConstantsAssumption DEF Settling, Saving, Free
  <2>5. \A u \in Task : Saving(u)' /\ send'[u].file = None => FALSE
    BY <2>1, <2>2, <2>3 DEF Saving, Free
  <2> QED
    BY <2>4, <2>5 DEF OwnInv, OwnRowsKnown, Save, Mine
<1> QED
  BY <1>1, <1>2, <1>3, <1>4, <1>5 DEF OwnInv

LEMMA SaveTimelineKeepsOwnInv ==
  ASSUME TypeOK, Calm, OwnInv, NEW t \in Task, SaveTimeline(t)
  PROVE  OwnInv'
<1>1. OneServer' /\ NobodyWroteZero' /\ ReadsHold' /\ ImportsAreRows' /\ OnlyOthersTakenIn'
  BY DEF SaveTimeline, OwnInv, OneServer, NobodyWroteZero, ReadsHold, Mine,
         ImportsAreRows, OnlyOthersTakenIn
<1>2. TakingTurns'
  BY JobTypes DEF OwnInv, TypeOK, SaveTimeline, TakingTurns, Free, SaveJob
<1>3. HalvesAgree'
  BY JobTypes
  DEF OwnInv, TypeOK, SaveTimeline, HalvesAgree, SaveJob, TakingTurns, Free
<1>4. OwnRowsKnown'
  BY JobTypes
  DEF OwnInv, TypeOK, SaveTimeline, OwnRowsKnown, Settling, Saving, Mine, SaveJob
<1> QED
  BY <1>1, <1>2, <1>3, <1>4 DEF OwnInv

LEMMA SaveSeenKeepsOwnInv ==
  ASSUME TypeOK, Calm, OwnInv, NEW t \in Task, SaveSeen(t)
  PROVE  OwnInv'
<1>1. OneServer' /\ NobodyWroteZero' /\ ImportsAreRows' /\ OnlyOthersTakenIn'
  BY DEF SaveSeen, OwnInv, OneServer, NobodyWroteZero, ImportsAreRows,
         OnlyOthersTakenIn
<1>2. TakingTurns'
  BY JobTypes DEF OwnInv, TypeOK, SaveSeen, TakingTurns, Free, SaveJob
<1>3. HalvesAgree'
  BY JobTypes DEF OwnInv, TypeOK, SaveSeen, HalvesAgree, SaveJob, TakingTurns, Free
<1>4. OwnRowsKnown'
  BY JobTypes
  DEF OwnInv, TypeOK, SaveSeen, OwnRowsKnown, Settling, Saving, Mine, SaveJob,
      HalvesAgree, TakingTurns, Free
<1>5. ReadsHold'
  BY DEF OwnInv, TypeOK, SaveSeen, ReadsHold, Mine, SaveJob, TakingTurns, Free
<1> QED
  BY <1>1, <1>2, <1>3, <1>4, <1>5 DEF OwnInv

LEMMA DeliverKeepsOwnInv ==
  ASSUME TypeOK, Calm, OwnInv, NEW t \in Task, Deliver(t)
  PROVE  OwnInv'
<1> DEFINE f == send[t].file
           p == send[t].time
           row == Stored(url, p, "device")
<1>a. /\ f \in File /\ p \in Pos /\ url \in Server /\ send[t].server = url
      /\ viewed' = [viewed EXCEPT ![url][f] = row]
      /\ row.by = "device" /\ row.time \in {0, p}
  BY StoredFields DEF Deliver, OwnInv, OneServer, TypeOK, SendJob, MaybeFile
<1>b. \A s \in Server, g \in File : viewed'[s][g] = IF s = url /\ g = f THEN row ELSE viewed[s][g]
  BY <1>a DEF TypeOK
<1>c. \A u \in Task \ {t} : Free(u) /\ send'[u] = send[u]
  BY DEF Deliver, OwnInv, TakingTurns, Free, TypeOK
<1>d. send'[t].file = None /\ save' = save /\ seen' = seen /\ url' = url
  BY JobTypes DEF Deliver, TypeOK
<1> HIDE DEF f, p, row
<1>1. ImportsAreRows' /\ OnlyOthersTakenIn'
  BY DEF Deliver, OwnInv, ImportsAreRows, OnlyOthersTakenIn
<1>2. OneServer'
  BY JobTypes DEF OwnInv, TypeOK, Deliver, OneServer, SendJob
<1>3. TakingTurns'
  BY JobTypes DEF OwnInv, TypeOK, Deliver, TakingTurns, Free, SendJob
<1>4. HalvesAgree'
  BY JobTypes DEF OwnInv, TypeOK, Deliver, HalvesAgree, SendJob
<1>5. OwnRowsKnown'
  <2>1. SUFFICES ASSUME NEW g \in File, Mine(viewed'[url][g])
                 PROVE  /\ ~Settling(g)' => seen[g] = viewed'[url][g].time
                        /\ \A u \in Task : Saving(u)' /\ save'[u].file = g /\ send'[u].file = None
                              => save'[u].time = viewed'[url][g].time
    BY <1>d DEF OwnRowsKnown, Mine
  <2>2. CASE g = f
    <3>1. viewed'[url][g].time = p
    BY <1>a, <1>b, <2>1, <2>2 DEF Mine
    <3>2. save[t].pc = "idle" => seen[g] = p
    BY <1>a, <2>2, ConstantsAssumption DEF OwnInv, HalvesAgree, f, p
    <3>3. save[t].pc # "idle" => Saving(t) /\ save[t].file = g /\ save[t].time = p
    BY <1>a, <2>2, ConstantsAssumption DEF OwnInv, HalvesAgree, Saving, f, p
    <3>4. \A u \in Task : Saving(u) => u = t
    BY <1>c DEF Saving, Free
    <3> QED
    BY <1>d, <3>1, <3>2, <3>3, <3>4 DEF Settling, Saving
  <2>3. CASE g # f
    <3>1. viewed'[url][g] = viewed[url][g]
    BY <1>a, <1>b, <2>3
    <3>2. Settling(g) => Settling(g)'
    BY <1>c, <1>d, <2>3 DEF Settling, Saving, f
    <3>3. Saving(t)' /\ save'[t].file = g => FALSE
    BY <1>a, <1>d, <2>3, ConstantsAssumption DEF OwnInv, HalvesAgree, Saving, f
    <3>4. \A u \in Task \ {t} : ~Saving(u)'
    BY <1>c, <1>d DEF Saving, Free
    <3> QED
    BY <2>1, <3>1, <3>2, <3>3, <3>4 DEF OwnInv, OwnRowsKnown
  <2> QED
    BY <2>2, <2>3
<1>6. NobodyWroteZero'
  BY <1>a, <1>b DEF OwnInv, NobodyWroteZero, Deliver
<1>7. ReadsHold'
  BY DEF OwnInv, TypeOK, Deliver, ReadsHold, Mine, SendJob, TakingTurns, Free,
         OneServer
<1> QED
  BY <1>1, <1>2, <1>3, <1>4, <1>5, <1>6, <1>7 DEF OwnInv

LEMMA MoveKeepsOwnInv ==
  ASSUME TypeOK, Calm, OwnInv, NEW s \in Server, NEW f \in File, NEW p \in Pos, Move(s, f, p)
  PROVE  OwnInv'
<1>a. \A u \in Server, g \in File :
        viewed'[u][g] = IF u = s /\ g = f THEN Stored(s, p, "other") ELSE viewed[u][g]
  BY DEF Move, TypeOK
<1>b. Stored(s, p, "other").by = "other"
  BY StoredFields
<1>c. /\ url \in Server /\ url' = url /\ save' = save /\ send' = send /\ seen' = seen
      /\ open' = open /\ sync' = sync
  BY DEF Move, TypeOK
<1>1. OneServer' /\ TakingTurns' /\ HalvesAgree' /\ ImportsAreRows' /\ OnlyOthersTakenIn'
  BY DEF Move, OwnInv, OneServer, TakingTurns, Free, HalvesAgree, ImportsAreRows,
         OnlyOthersTakenIn
<1>2. OwnRowsKnown'
  BY <1>a, <1>b, <1>c DEF OwnInv, OwnRowsKnown, Settling, Saving, Mine
<1>3. NobodyWroteZero'
  BY <1>a, <1>b, <1>c DEF OwnInv, NobodyWroteZero
<1>4. ReadsHold'
  BY <1>a, <1>b, <1>c DEF OwnInv, ReadsHold, Mine
<1> QED
  BY <1>1, <1>2, <1>3, <1>4 DEF OwnInv

LEMMA OpenStartKeepsOwnInv ==
  ASSUME TypeOK, Calm, OwnInv, OpenStart
  PROVE  OwnInv'
<1>1. HalvesAgree' /\ OwnRowsKnown' /\ ImportsAreRows'
  BY DEF OpenStart, OwnInv, HalvesAgree, OwnRowsKnown, Settling, Saving, Mine,
         ImportsAreRows
<1>2. OneServer'
  BY DEF OwnInv, TypeOK, OpenStart, OneServer, OpenJob
<1>3. TakingTurns'
  BY DEF OwnInv, TypeOK, OpenStart, TakingTurns, Free, OpenJob, Calm, MayStart,
         Quiet
<1>4. NobodyWroteZero'
  BY JobTypes, IdleRows DEF OwnInv, TypeOK, OpenStart, NobodyWroteZero, OpenJob
<1>5. ReadsHold'
  BY DEF OwnInv, TypeOK, OpenStart, ReadsHold, Mine, OpenJob, Calm, MayStart, Quiet
<1>6. OnlyOthersTakenIn'
  BY DEF OwnInv, TypeOK, OpenStart, OnlyOthersTakenIn, OpenJob
<1> QED
  BY <1>1, <1>2, <1>3, <1>4, <1>5, <1>6 DEF OwnInv

LEMMA OpenListKeepsOwnInv ==
  ASSUME TypeOK, Calm, OwnInv, OpenList
  PROVE  OwnInv'
<1>1. HalvesAgree' /\ OwnRowsKnown' /\ ImportsAreRows'
  BY DEF OpenList, OwnInv, HalvesAgree, OwnRowsKnown, Settling, Saving, Mine,
         ImportsAreRows
<1>2. OneServer'
  BY DEF OwnInv, TypeOK, OpenList, OneServer, OpenJob
<1>3. TakingTurns'
  BY DEF OwnInv, TypeOK, OpenList, TakingTurns, Free, OpenJob
<1>4. NobodyWroteZero'
  BY IdleRows DEF OwnInv, TypeOK, OpenList, NobodyWroteZero, OpenJob, OneServer
<1>5. ReadsHold'
  <2>1. \A g \in File : ~Settling(g)
    BY ConstantsAssumption DEF OpenList, OwnInv, TakingTurns, Free, Settling, Saving
  <2>2. sync.pc = "idle" /\ open.server = url /\ url \in Server
    BY DEF OpenList, OwnInv, TakingTurns, OneServer, TypeOK
  <2>3. open'.pc = "seen" /\ open'.rows \in {viewed[url], NoRows}
    BY <2>2 DEF OpenList, TypeOK, OpenJob
  <2> QED
    BY <2>1, <2>2, <2>3, IdleRows
    DEF OpenList, OwnInv, OwnRowsKnown, ReadsHold, Mine
<1>6. OnlyOthersTakenIn'
  BY DEF OwnInv, TypeOK, OpenList, OnlyOthersTakenIn, OpenJob
<1> QED
  BY <1>1, <1>2, <1>3, <1>4, <1>5, <1>6 DEF OwnInv

LEMMA OpenSeenKeepsOwnInv ==
  ASSUME TypeOK, Calm, OwnInv, OpenSeen
  PROVE  OwnInv'
<1>1. HalvesAgree' /\ OwnRowsKnown' /\ ImportsAreRows'
  BY DEF OpenSeen, OwnInv, HalvesAgree, OwnRowsKnown, Settling, Saving, Mine,
         ImportsAreRows
<1>2. OneServer'
  BY DEF OwnInv, TypeOK, OpenSeen, OneServer, OpenJob
<1>3. TakingTurns'
  BY DEF OwnInv, TypeOK, OpenSeen, TakingTurns, Free, OpenJob
<1>4. NobodyWroteZero'
  BY DEF OwnInv, TypeOK, OpenSeen, NobodyWroteZero, OpenJob
<1>5. ReadsHold'
  BY DEF OwnInv, TypeOK, OpenSeen, ReadsHold, Mine, OpenJob
<1>6. OnlyOthersTakenIn'
  BY DEF OwnInv, TypeOK, OpenSeen, OnlyOthersTakenIn, OpenJob
<1> QED
  BY <1>1, <1>2, <1>3, <1>4, <1>5, <1>6 DEF OwnInv

LEMMA OpenFileKeepsOwnInv ==
  ASSUME TypeOK, Calm, OwnInv, NEW f \in File, OpenFile(f)
  PROVE  OwnInv'
<1>1. HalvesAgree' /\ OwnRowsKnown' /\ ImportsAreRows'
  BY DEF OpenFile, OwnInv, HalvesAgree, OwnRowsKnown, Settling, Saving, Mine,
         ImportsAreRows
<1>2. OneServer'
  BY DEF OwnInv, TypeOK, OpenFile, OneServer, OpenJob
<1>3. TakingTurns'
  BY DEF OwnInv, TypeOK, OpenFile, TakingTurns, Free, OpenJob
<1>4. NobodyWroteZero'
  BY DEF OwnInv, TypeOK, OpenFile, NobodyWroteZero, OpenJob
<1>5. ReadsHold'
  BY DEF OwnInv, TypeOK, OpenFile, ReadsHold, Mine, OpenJob
<1>6. OnlyOthersTakenIn'
  <2>1. sync.todo = {} /\ sync.pc = "idle"
    BY DEF OpenFile, OwnInv, TakingTurns, ImportsAreRows
  <2>2. open'.pc \in {"import", "mark"} =>
            /\ open.synced /\ IsForeign(open.rows[f].time, open.seen[f])
            /\ open'.file = f /\ open'.rows = open.rows
    BY DEF OpenFile, TypeOK, OpenJob
  <2>3. open.rows[f] \in Row /\ open.seen[f] \in MaybePos
    BY DEF TypeOK, OpenJob
  <2>4. open.synced => (Mine(open.rows[f]) => open.seen[f] = open.rows[f].time)
    BY DEF OpenFile, OwnInv, ReadsHold
  <2>5. open.rows[f].by = "nobody" => open.rows[f].time = 0
    BY DEF OwnInv, NobodyWroteZero
  <2> QED
    BY <2>1, <2>2, <2>3, <2>4, <2>5, OnlyOthersForeign
    DEF OpenFile, OnlyOthersTakenIn
<1> QED
  BY <1>1, <1>2, <1>3, <1>4, <1>5, <1>6 DEF OwnInv

LEMMA OpenImportKeepsOwnInv ==
  ASSUME TypeOK, Calm, OwnInv, OpenImport
  PROVE  OwnInv'
<1>1. HalvesAgree' /\ OwnRowsKnown' /\ ImportsAreRows'
  BY DEF OpenImport, OwnInv, HalvesAgree, OwnRowsKnown, Settling, Saving, Mine,
         ImportsAreRows
<1>2. OneServer'
  BY DEF OwnInv, TypeOK, OpenImport, OneServer, OpenJob
<1>3. TakingTurns'
  BY DEF OwnInv, TypeOK, OpenImport, TakingTurns, Free, OpenJob
<1>4. NobodyWroteZero'
  BY DEF OwnInv, TypeOK, OpenImport, NobodyWroteZero, OpenJob
<1>5. ReadsHold'
  BY DEF OwnInv, TypeOK, OpenImport, ReadsHold, Mine, OpenJob
<1>6. OnlyOthersTakenIn'
  BY DEF OwnInv, TypeOK, OpenImport, OnlyOthersTakenIn, OpenJob
<1> QED
  BY <1>1, <1>2, <1>3, <1>4, <1>5, <1>6 DEF OwnInv

LEMMA OpenMarkKeepsOwnInv ==
  ASSUME TypeOK, Calm, OwnInv, OpenMark
  PROVE  OwnInv'
<1>a. open.file \in File /\ viewed[url][open.file].by = "other"
  BY DEF OpenMark, OwnInv, OnlyOthersTakenIn, ReadsHold, TypeOK
<1>b. (\A u \in Task : Free(u)) /\ sync.pc = "idle"
  BY DEF OpenMark, OwnInv, TakingTurns
<1>1. ImportsAreRows'
  BY DEF OpenMark, OwnInv, ImportsAreRows
<1>2. OneServer'
  BY DEF OwnInv, TypeOK, OpenMark, OneServer, OpenJob
<1>3. TakingTurns'
  BY DEF OwnInv, TypeOK, OpenMark, TakingTurns, Free, OpenJob
<1>4. HalvesAgree'
  BY <1>b DEF OpenMark, OwnInv, HalvesAgree, Free
<1>5. OwnRowsKnown'
  BY <1>a DEF OpenMark, OwnInv, OwnRowsKnown, Settling, Saving, Mine, TypeOK
<1>6. NobodyWroteZero'
  BY DEF OwnInv, TypeOK, OpenMark, NobodyWroteZero, OpenJob
<1>7. ReadsHold'
  BY <1>b DEF OpenMark, OwnInv, ReadsHold, Mine, TypeOK, OpenJob
<1>8. OnlyOthersTakenIn'
  BY DEF OwnInv, TypeOK, OpenMark, OnlyOthersTakenIn, OpenJob
<1> QED
  BY <1>1, <1>2, <1>3, <1>4, <1>5, <1>6, <1>7, <1>8 DEF OwnInv

LEMMA OpenDoneKeepsOwnInv ==
  ASSUME TypeOK, Calm, OwnInv, OpenDone
  PROVE  OwnInv'
<1>1. HalvesAgree' /\ OwnRowsKnown' /\ ImportsAreRows'
  BY DEF OpenDone, OwnInv, HalvesAgree, OwnRowsKnown, Settling, Saving, Mine,
         ImportsAreRows
<1>2. OneServer'
  BY DEF OwnInv, TypeOK, OpenDone, OneServer, OpenJob
<1>3. TakingTurns'
  BY DEF OwnInv, TypeOK, OpenDone, TakingTurns, Free, OpenJob
<1>4. NobodyWroteZero'
  BY DEF OwnInv, TypeOK, OpenDone, NobodyWroteZero, OpenJob
<1>5. ReadsHold'
  BY DEF OwnInv, TypeOK, OpenDone, ReadsHold, Mine, OpenJob
<1>6. OnlyOthersTakenIn'
  BY DEF OwnInv, TypeOK, OpenDone, OnlyOthersTakenIn, OpenJob
<1> QED
  BY <1>1, <1>2, <1>3, <1>4, <1>5, <1>6 DEF OwnInv

LEMMA SyncStartKeepsOwnInv ==
  ASSUME TypeOK, Calm, OwnInv, SyncStart
  PROVE  OwnInv'
<1>1. HalvesAgree' /\ OwnRowsKnown'
  BY DEF SyncStart, OwnInv, HalvesAgree, OwnRowsKnown, Settling, Saving, Mine
<1>2. OneServer'
  BY DEF OwnInv, TypeOK, SyncStart, OneServer, SyncJob
<1>3. TakingTurns'
  BY DEF OwnInv, TypeOK, SyncStart, TakingTurns, Free, SyncJob, Calm, MayStart,
         Quiet
<1>4. NobodyWroteZero'
  BY JobTypes, IdleRows DEF OwnInv, TypeOK, SyncStart, NobodyWroteZero, SyncJob
<1>5. ReadsHold'
  BY DEF OwnInv, TypeOK, SyncStart, ReadsHold, Mine, SyncJob
<1>6. ImportsAreRows'
  BY JobTypes, IdleRows DEF OwnInv, TypeOK, SyncStart, ImportsAreRows, SyncJob
<1>7. OnlyOthersTakenIn'
  BY JobTypes, IdleRows DEF OwnInv, TypeOK, SyncStart, OnlyOthersTakenIn, SyncJob
<1> QED
  BY <1>1, <1>2, <1>3, <1>4, <1>5, <1>6, <1>7 DEF OwnInv

LEMMA SyncBindKeepsOwnInv ==
  ASSUME TypeOK, Calm, OwnInv, SyncBind
  PROVE  OwnInv'
<1>1. OneServer'
  BY DEF OwnInv, TypeOK, SyncBind, OneServer, SyncJob
<1>2. TakingTurns'
  BY DEF OwnInv, TypeOK, SyncBind, TakingTurns, Free, SyncJob
<1>3. HalvesAgree'
  BY DEF OwnInv, TypeOK, SyncBind, HalvesAgree, SyncJob, OneServer
<1>4. OwnRowsKnown'
  BY DEF OwnInv, TypeOK, SyncBind, OwnRowsKnown, Settling, Saving, Mine, SyncJob,
         OneServer
<1>5. NobodyWroteZero'
  BY DEF OwnInv, TypeOK, SyncBind, NobodyWroteZero, SyncJob
<1>6. ReadsHold'
  BY DEF OwnInv, TypeOK, SyncBind, ReadsHold, Mine, SyncJob, OneServer
<1>7. ImportsAreRows'
  BY DEF OwnInv, TypeOK, SyncBind, ImportsAreRows, SyncJob
<1>8. OnlyOthersTakenIn'
  BY DEF OwnInv, TypeOK, SyncBind, OnlyOthersTakenIn, SyncJob
<1> QED
  BY <1>1, <1>2, <1>3, <1>4, <1>5, <1>6, <1>7, <1>8 DEF OwnInv

LEMMA SyncListKeepsOwnInv ==
  ASSUME TypeOK, Calm, OwnInv, SyncList
  PROVE  OwnInv'
<1>1. HalvesAgree' /\ OwnRowsKnown'
  BY DEF SyncList, OwnInv, HalvesAgree, OwnRowsKnown, Settling, Saving, Mine
<1>2. OneServer'
  BY DEF OwnInv, TypeOK, SyncList, OneServer, SyncJob
<1>3. TakingTurns'
  BY DEF OwnInv, TypeOK, SyncList, TakingTurns, Free, SyncJob
<1>4. NobodyWroteZero'
  BY DEF OwnInv, TypeOK, SyncList, NobodyWroteZero, SyncJob
<1>5. ReadsHold'
  <2>1. \A g \in File : ~Settling(g)
    BY ConstantsAssumption DEF SyncList, OwnInv, TakingTurns, Free, Settling, Saving
  <2>2. open.pc \in {"idle", "done"} /\ sync.server = url
    BY DEF SyncList, OwnInv, TakingTurns, OneServer, TypeOK, OpenJob
  <2>3. sync'.pc = "seen" /\ sync'.rows = viewed[url]
    BY <2>2 DEF SyncList, TypeOK, SyncJob
  <2> QED
    BY <2>1, <2>2, <2>3 DEF SyncList, OwnInv, OwnRowsKnown, ReadsHold, Mine
<1>6. ImportsAreRows'
  BY DEF OwnInv, TypeOK, SyncList, ImportsAreRows, SyncJob
<1>7. OnlyOthersTakenIn'
  BY DEF OwnInv, TypeOK, SyncList, OnlyOthersTakenIn, SyncJob
<1> QED
  BY <1>1, <1>2, <1>3, <1>4, <1>5, <1>6, <1>7 DEF OwnInv

LEMMA SyncSeenKeepsOwnInv ==
  ASSUME TypeOK, Calm, OwnInv, SyncSeen
  PROVE  OwnInv'
<1>1. HalvesAgree' /\ OwnRowsKnown'
  BY DEF SyncSeen, OwnInv, HalvesAgree, OwnRowsKnown, Settling, Saving, Mine
<1>2. OneServer'
  BY DEF OwnInv, TypeOK, SyncSeen, OneServer, SyncJob
<1>3. TakingTurns'
  BY DEF OwnInv, TypeOK, SyncSeen, TakingTurns, Free, SyncJob
<1>4. NobodyWroteZero'
  BY DEF OwnInv, TypeOK, SyncSeen, NobodyWroteZero, SyncJob
<1>5. ReadsHold'
  BY DEF OwnInv, TypeOK, SyncSeen, ReadsHold, Mine, SyncJob
<1>6. ImportsAreRows'
  BY DEF OwnInv, TypeOK, SyncSeen, ImportsAreRows, SyncJob
<1>7. OnlyOthersTakenIn'
  <2>1. open.pc \in {"idle", "done"}
    BY DEF SyncSeen, OwnInv, TakingTurns, TypeOK, OpenJob
  <2>2. SUFFICES ASSUME NEW i \in sync'.todo PROVE i.row.by = "other"
    BY <2>1 DEF SyncSeen, OnlyOthersTakenIn, TypeOK, SyncJob
  <2>3. PICK f \in File : i.row = sync.rows[f] /\ IsForeign(sync.rows[f].time, seen[f])
    BY DEF SyncSeen, TypeOK, SyncJob
  <2>4. sync.rows[f] \in Row /\ seen[f] \in MaybePos
    BY DEF TypeOK, SyncJob
  <2>5. Mine(sync.rows[f]) => seen[f] = sync.rows[f].time
    BY DEF SyncSeen, OwnInv, ReadsHold
  <2>6. sync.rows[f].by = "nobody" => sync.rows[f].time = 0
    BY DEF OwnInv, NobodyWroteZero
  <2> QED
    BY <2>3, <2>4, <2>5, <2>6, OnlyOthersForeign
<1> QED
  BY <1>1, <1>2, <1>3, <1>4, <1>5, <1>6, <1>7 DEF OwnInv

LEMMA SyncImportKeepsOwnInv ==
  ASSUME TypeOK, Calm, OwnInv, NEW i \in sync.todo, SyncImport(i)
  PROVE  OwnInv'
<1>1. HalvesAgree' /\ OwnRowsKnown'
  BY DEF SyncImport, OwnInv, HalvesAgree, OwnRowsKnown, Settling, Saving, Mine
<1>2. OneServer'
  BY DEF OwnInv, TypeOK, SyncImport, OneServer, SyncJob
<1>3. TakingTurns'
  BY DEF OwnInv, TypeOK, SyncImport, TakingTurns, Free, SyncJob
<1>4. NobodyWroteZero'
  BY DEF OwnInv, TypeOK, SyncImport, NobodyWroteZero, SyncJob
<1>5. ReadsHold'
  BY DEF OwnInv, TypeOK, SyncImport, ReadsHold, Mine, SyncJob
<1>6. ImportsAreRows'
  BY DEF OwnInv, TypeOK, SyncImport, ImportsAreRows, SyncJob
<1>7. OnlyOthersTakenIn'
  BY DEF OwnInv, TypeOK, SyncImport, OnlyOthersTakenIn, SyncJob
<1> QED
  BY <1>1, <1>2, <1>3, <1>4, <1>5, <1>6, <1>7 DEF OwnInv

LEMMA SyncMarkKeepsOwnInv ==
  ASSUME TypeOK, Calm, OwnInv, SyncMark
  PROVE  OwnInv'
<1>a. sync.cur.file \in File /\ viewed[url][sync.cur.file].by = "other"
  BY DEF SyncMark, OwnInv, OnlyOthersTakenIn, ReadsHold, ImportsAreRows, TypeOK,
         Import, Row
<1>b. (\A u \in Task : Free(u)) /\ open.pc \in {"idle", "done"}
  BY DEF SyncMark, OwnInv, TakingTurns, TypeOK, OpenJob
<1>1. OneServer'
  BY DEF OwnInv, TypeOK, SyncMark, OneServer, SyncJob
<1>2. TakingTurns'
  BY DEF OwnInv, TypeOK, SyncMark, TakingTurns, Free, SyncJob
<1>3. HalvesAgree'
  BY <1>b DEF SyncMark, OwnInv, HalvesAgree, Free
<1>4. OwnRowsKnown'
  BY <1>a DEF SyncMark, OwnInv, OwnRowsKnown, Settling, Saving, Mine, TypeOK
<1>5. NobodyWroteZero'
  BY DEF OwnInv, TypeOK, SyncMark, NobodyWroteZero, SyncJob
<1>6. ReadsHold'
  BY <1>b DEF SyncMark, OwnInv, ReadsHold, Mine, TypeOK, SyncJob
<1>7. ImportsAreRows'
  BY DEF OwnInv, TypeOK, SyncMark, ImportsAreRows, SyncJob
<1>8. OnlyOthersTakenIn'
  BY DEF OwnInv, TypeOK, SyncMark, OnlyOthersTakenIn, SyncJob
<1> QED
  BY <1>1, <1>2, <1>3, <1>4, <1>5, <1>6, <1>7, <1>8 DEF OwnInv

LEMMA SyncDoneKeepsOwnInv ==
  ASSUME TypeOK, Calm, OwnInv, SyncDone
  PROVE  OwnInv'
<1>1. HalvesAgree' /\ OwnRowsKnown'
  BY DEF SyncDone, OwnInv, HalvesAgree, OwnRowsKnown, Settling, Saving, Mine
<1>2. OneServer'
  BY JobTypes, IdleRows DEF OwnInv, TypeOK, SyncDone, OneServer, SyncJob
<1>3. TakingTurns'
  BY JobTypes, IdleRows DEF OwnInv, TypeOK, SyncDone, TakingTurns, Free, SyncJob
<1>4. NobodyWroteZero'
  BY JobTypes, IdleRows DEF OwnInv, TypeOK, SyncDone, NobodyWroteZero, SyncJob
<1>5. ReadsHold'
  BY JobTypes, IdleRows DEF OwnInv, TypeOK, SyncDone, ReadsHold, Mine, SyncJob
<1>6. ImportsAreRows'
  BY JobTypes, IdleRows DEF OwnInv, TypeOK, SyncDone, ImportsAreRows, SyncJob
<1>7. OnlyOthersTakenIn'
  BY JobTypes, IdleRows DEF OwnInv, TypeOK, SyncDone, OnlyOthersTakenIn, SyncJob
<1> QED
  BY <1>1, <1>2, <1>3, <1>4, <1>5, <1>6, <1>7 DEF OwnInv

\* On a device whose jobs take turns, whose requests succeed, and whose database
\* is bound to its one server, the two halves of a save agree, a row this device
\* wrote is one it remembers, and what a job has read stays true of the server
\* until the job ends (save_progress, decorate_files, SyncPass::import_positions).
THEOREM CalmKeepsOwnInv == Calm => (Spec => []OwnInv)
<1> SUFFICES ASSUME Calm PROVE Spec => []OwnInv
  OBVIOUS
<1>1. Init => OwnInv
  BY OwnInvInit
<1>2. TypeOK /\ OwnInv /\ [Next]_vars => OwnInv'
  <2> SUFFICES ASSUME TypeOK, OwnInv, [Next]_vars PROVE OwnInv'
    OBVIOUS
  <2>1. CASE UNCHANGED vars
    BY <2>1
    DEF vars, OwnInv, OneServer, TakingTurns, HalvesAgree, OwnRowsKnown, Free,
        NobodyWroteZero, ReadsHold, ImportsAreRows, OnlyOthersTakenIn, Settling,
        Saving, Mine
  <2>2. ASSUME NEW t \in Task, Lose(t) PROVE FALSE
    BY <2>2 DEF Lose, Calm
  <2>3. ASSUME NEW s \in Server, SwitchServer(s) PROVE FALSE
    BY <2>3 DEF SwitchServer, Calm
  <2>4. CASE ToggleSync
    BY <2>4
    DEF ToggleSync, OwnInv, OneServer, TakingTurns, HalvesAgree, OwnRowsKnown, Free,
        NobodyWroteZero, ReadsHold, ImportsAreRows, OnlyOthersTakenIn, Settling,
        Saving, Mine
  <2>5. ~SyncFail
    BY DEF SyncFail, Calm
  <2> QED
    BY <2>1, <2>2, <2>3, <2>4, <2>5, SaveKeepsOwnInv, SaveTimelineKeepsOwnInv,
       SaveSeenKeepsOwnInv, DeliverKeepsOwnInv, MoveKeepsOwnInv,
       OpenStartKeepsOwnInv, OpenListKeepsOwnInv, OpenSeenKeepsOwnInv,
       OpenFileKeepsOwnInv, OpenImportKeepsOwnInv, OpenMarkKeepsOwnInv,
       OpenDoneKeepsOwnInv, SyncStartKeepsOwnInv, SyncBindKeepsOwnInv,
       SyncListKeepsOwnInv, SyncSeenKeepsOwnInv, SyncImportKeepsOwnInv,
       SyncMarkKeepsOwnInv, SyncDoneKeepsOwnInv
    DEF Next, SaveStep, OpenStep, SyncStep
<1> QED
  BY <1>1, <1>2, TypeCorrect, PTL DEF Spec

\* A device whose jobs take turns, whose requests succeed, and whose database
\* is bound to its one server takes a position in only if another client wrote
\* it, whatever else happens: other clients writing at any time, sync_history
\* switched on and off, untracked playback in between, drifts within the
\* tolerance (is_foreign_timecode, put_viewed_seen).
THEOREM CalmTakesOnlyOthersIn == Calm => (Spec => []OnlyOthersTakenIn)
<1>1. OwnInv => OnlyOthersTakenIn
  BY DEF OwnInv
<1> QED
  BY <1>1, CalmKeepsOwnInv, PTL

-------------------------------------------------------------------------------
(***************************************************************************)
(* A server that stores no timecodes.                                      *)
(***************************************************************************)
\* Rows read from s are zeros if s stores no timecodes.
ZeroRows(s, rows) == ~Tracks[s] => \A f \in File : rows[f].time = 0

\* Such a server has zeros only, and so has every copy a job made of its rows.
UntrackedInv ==
    /\ \A s \in Server : ZeroRows(s, viewed[s])
    /\ open.pc \notin {"idle", "done"} => ZeroRows(open.server, open.rows)
    /\ sync.pc # "idle" => ZeroRows(sync.server, sync.rows)
    /\ sync.todo # {} => sync.pc \in {"import", "mark"}
    /\ NothingFromUntracked

LEMMA StoredZero ==
  ASSUME NEW s \in Server, NEW p \in Pos, NEW who \in {"device", "other"}, ~Tracks[s]
  PROVE  Stored(s, p, who).time = 0
  BY DEF Stored

LEMMA NoRowsZero == \A s : ZeroRows(s, NoRows)
  BY DEF ZeroRows, NoRows, NoRow

\* A row that is not a zero comes from a server that stores timecodes.
LEMMA NonZeroTracked ==
  ASSUME NEW s \in Server, NEW rows, NEW f \in File, ZeroRows(s, rows), rows[f].time > 0
  PROVE  Tracks[s]
  BY ConstantsAssumption DEF ZeroRows

\* A write to /viewed, of this device or of another client, keeps zeros zeros.
LEMMA WritesKeepZeroRows ==
  ASSUME TypeOK, UntrackedInv,
         NEW s \in Server, NEW f \in File, NEW p \in Pos, NEW who \in {"device", "other"},
         viewed' = [viewed EXCEPT ![s][f] = Stored(s, p, who)],
         UNCHANGED <<open, sync>>
  PROVE  UntrackedInv'
<1>1. \A u \in Server : ZeroRows(u, viewed'[u])
  BY StoredZero DEF TypeOK, UntrackedInv, ZeroRows
<1> QED
  BY <1>1 DEF UntrackedInv, NothingFromUntracked, ZeroRows

LEMMA OpenKeepsZeroRows ==
  ASSUME TypeOK, UntrackedInv, OpenStart \/ OpenStep
  PROVE  UntrackedInv'
<1>1. CASE OpenStart
  <2>1. open'.pc = "list" /\ open'.rows = NoRows
    BY <1>1 DEF OpenStart, IdleOpen
  <2> QED
    BY <1>1, <2>1, NoRowsZero DEF OpenStart, UntrackedInv, NothingFromUntracked
<1>2. CASE OpenList
  <2>1. /\ open'.pc = "seen" /\ open'.server = open.server /\ open.server \in Server
        /\ open'.rows \in {viewed[open.server], NoRows}
    BY <1>2 DEF OpenList, TypeOK, OpenJob
  <2> QED
    BY <1>2, <2>1, NoRowsZero DEF OpenList, UntrackedInv, NothingFromUntracked
<1>3. CASE OpenSeen
  BY <1>3 DEF OpenSeen, TypeOK, OpenJob, UntrackedInv, NothingFromUntracked
<1>4. ASSUME NEW f \in File, OpenFile(f) PROVE UntrackedInv'
  <2>1. /\ open'.pc \in {"file", "import"} /\ open'.server = open.server
        /\ open'.rows = open.rows
        /\ open'.pc = "import" => open.rows[f].time > 0
    BY <1>4 DEF OpenFile, TypeOK, OpenJob, IsForeign
  <2>2. open.server \in Server /\ ZeroRows(open.server, open.rows)
    BY <1>4 DEF OpenFile, TypeOK, UntrackedInv
  <2>3. open'.pc = "import" => Tracks[open.server]
    BY <2>1, <2>2, NonZeroTracked
  <2> QED
    BY <1>4, <2>1, <2>2, <2>3 DEF OpenFile, UntrackedInv, NothingFromUntracked
<1>5. CASE OpenImport
  BY <1>5 DEF OpenImport, TypeOK, OpenJob, UntrackedInv, NothingFromUntracked
<1>6. CASE OpenMark
  BY <1>6 DEF OpenMark, TypeOK, OpenJob, UntrackedInv, NothingFromUntracked
<1>7. CASE OpenDone
  BY <1>7 DEF OpenDone, TypeOK, OpenJob, UntrackedInv, NothingFromUntracked
<1> QED
  BY <1>1, <1>2, <1>3, <1>4, <1>5, <1>6, <1>7 DEF OpenStep

LEMMA SyncKeepsZeroRows ==
  ASSUME TypeOK, UntrackedInv, SyncStart \/ SyncStep \/ SyncFail
  PROVE  UntrackedInv'
<1>1. CASE SyncStart
  <2>1. sync'.pc = "bind" /\ sync'.rows = NoRows /\ sync'.todo = {}
    BY <1>1 DEF SyncStart, IdleSync
  <2> QED
    BY <1>1, <2>1, NoRowsZero DEF SyncStart, UntrackedInv, NothingFromUntracked
<1>2. CASE SyncBind
  BY <1>2 DEF SyncBind, TypeOK, SyncJob, UntrackedInv, NothingFromUntracked
<1>3. CASE SyncList
  BY <1>3 DEF SyncList, TypeOK, SyncJob, UntrackedInv, NothingFromUntracked
<1>4. CASE SyncSeen
  <2>1. /\ sync'.pc = "import" /\ sync'.server = sync.server /\ sync'.rows = sync.rows
        /\ sync'.todo # {} => \E f \in File : sync.rows[f].time > 0
    BY <1>4 DEF SyncSeen, TypeOK, SyncJob, IsForeign
  <2>2. sync.server \in Server /\ ZeroRows(sync.server, sync.rows)
    BY <1>4 DEF SyncSeen, TypeOK, UntrackedInv
  <2>3. sync'.todo # {} => Tracks[sync.server]
    BY <2>1, <2>2, NonZeroTracked
  <2> QED
    BY <1>4, <2>1, <2>2, <2>3 DEF SyncSeen, UntrackedInv, NothingFromUntracked
<1>5. ASSUME NEW i \in sync.todo, SyncImport(i) PROVE UntrackedInv'
  BY <1>5 DEF SyncImport, TypeOK, SyncJob, UntrackedInv, NothingFromUntracked
<1>6. CASE SyncMark
  BY <1>6 DEF SyncMark, TypeOK, SyncJob, UntrackedInv, NothingFromUntracked
<1>7. CASE SyncDone \/ SyncFail
  BY <1>7, JobTypes, IdleRows DEF SyncDone, SyncFail, UntrackedInv, NothingFromUntracked
<1> QED
  BY <1>1, <1>2, <1>3, <1>4, <1>5, <1>6, <1>7 DEF SyncStep

\* Nothing is taken in from a server that stores no timecodes, whatever fails,
\* overlaps, or is switched meanwhile: its zeros never send a local position
\* back to the start (is_foreign_timecode: a position of zero is not foreign).
THEOREM UntrackedGivesNothing == Spec => []NothingFromUntracked
<1>1. Init => UntrackedInv
  BY IdleRows, NoRowsZero, JobTypes DEF Init, UntrackedInv, NothingFromUntracked
<1>2. TypeOK /\ UntrackedInv /\ [Next]_vars => UntrackedInv'
  <2> SUFFICES ASSUME TypeOK, UntrackedInv, [Next]_vars PROVE UntrackedInv'
    OBVIOUS
  <2>1. CASE UNCHANGED <<viewed, open, sync>>
    BY <2>1 DEF UntrackedInv, NothingFromUntracked, ZeroRows
  <2>2. ASSUME NEW t \in Task, Deliver(t) PROVE UntrackedInv'
    <3>1. send[t].file \in File /\ send[t].server \in Server /\ send[t].time \in Pos
      BY <2>2 DEF Deliver, TypeOK, SendJob, MaybeFile
    <3> QED
      BY <2>2, <3>1, WritesKeepZeroRows DEF Deliver
  <2>3. ASSUME NEW s \in Server, NEW f \in File, NEW p \in Pos, Move(s, f, p)
        PROVE  UntrackedInv'
    BY <2>3, WritesKeepZeroRows DEF Move
  <2>4. CASE OpenStart \/ OpenStep
    BY <2>4, OpenKeepsZeroRows
  <2>5. CASE SyncStart \/ SyncStep \/ SyncFail
    BY <2>5, SyncKeepsZeroRows
  <2> QED
    BY <2>1, <2>2, <2>3, <2>4, <2>5
    DEF Next, vars, Save, SaveStep, SaveTimeline, SaveSeen, Lose, SwitchServer, ToggleSync
<1>3. UntrackedInv => NothingFromUntracked
  BY DEF UntrackedInv
<1> QED
  BY <1>1, <1>2, <1>3, TypeCorrect, PTL DEF Spec

-------------------------------------------------------------------------------
(***************************************************************************)
(* Where a torrent resumes.  Three things besides Calm have to hold: each  *)
(* file has a key of its own and both jobs use it, and no playback goes    *)
(* untracked while positions are taken in.                                 *)
(***************************************************************************)
KeysApart ==
    /\ \A f, g \in File : OpenKey(f) = OpenKey(g) => f = g
    /\ \A f \in File : HasSyncKey(f) => SyncKey(f) = OpenKey(f)

AlwaysTracked == TrackOnly \/ MaxToggles = 0

\* Whether tracked or not does not change, and a job is what the settings say.
TrackingHolds ==
    /\ TrackOnly \/ left.toggles = 0
    /\ \A t \in Task : save[t].pc = "timeline" => save[t].track = Tracking
    /\ open.synced => Tracking
    /\ sync.pc # "idle" => Tracking

\* A job is between its two writes about f.
HalfWritten(f) ==
    \/ \E t \in Task : Saving(t) /\ save[t].file = f
    \/ open.pc = "mark" /\ open.file = f
    \/ sync.pc = "mark" /\ sync.cur.file = f

\* The local position of a file is the one last read or sent for it.
Remembered ==
    Tracking => \A f \in File :
        seen[f] # None /\ ~HalfWritten(f) => timeline[OpenKey(f)] = seen[f]

\* What the second write of a job will record is what its first one stored.
SecondWriteAgrees ==
    /\ \A t \in Task : save[t].pc = "seen" => timeline[OpenKey(save[t].file)] = save[t].time
    /\ open.pc \in {"import", "mark"} =>
          /\ open.synced /\ open.file \notin open.todo
          /\ open.resume[open.file] = open.rows[open.file].time
    /\ open.pc = "mark" => timeline[OpenKey(open.file)] = open.rows[open.file].time
    /\ \A i \in sync.todo : i.key = OpenKey(i.file)
    /\ sync.pc = "mark" => timeline[OpenKey(sync.cur.file)] = sync.cur.row.time

\* Of a file it has not come to, the open job knows what is seen; one it has
\* done with resumes where the row says.
OpenedSoFar ==
    /\ open.pc \in {"file", "import", "mark"} /\ open.synced =>
          \A f \in open.todo : open.seen[f] = seen[f]
    /\ open.pc \in {"file", "import", "mark", "done"} /\ open.synced =>
          \A f \in File \ open.todo : open.rows[f].time > 0 =>
              /\ open.resume[f] # None
              /\ Within(open.resume[f], open.rows[f].time)
    /\ open.pc = "done" => open.todo = {}

ResumeInv == TrackingHolds /\ Remembered /\ SecondWriteAgrees /\ OpenedSoFar

LEMMA ToleranceNat == Tolerance \in Nat /\ \A q \in Pos : q \in Int
  BY ConstantsAssumption DEF Pos

LEMMA WithinBothWays == \A p, q \in Pos : Within(p, q) => Within(q, p)
  BY ToleranceNat DEF Within

\* What a synced open job resumes a file at is at the server's position, or
\* within the tolerance of it.
LEMMA MergeWithin ==
  ASSUME NEW server \in Pos, NEW known \in MaybePos, NEW local \in MaybePos,
         server > 0, known # None => local = known
  PROVE  /\ Merge(local, server, known) # None
         /\ Within(Merge(local, server, known), server)
<1>1. CASE IsForeign(server, known) \/ local = None
  BY <1>1, WithinItself, ConstantsAssumption DEF Merge
<1>2. CASE ~IsForeign(server, known) /\ local # None
  <2>1. known # None /\ Within(server, known) /\ local = known
    BY <1>2 DEF IsForeign
  <2> QED
    BY <1>2, <2>1, WithinBothWays DEF Merge, MaybePos
<1> QED
  BY <1>1, <1>2

LEMMA SaveKeepsResumeInv ==
  ASSUME TypeOK, Calm, OwnInv, ResumeInv, NEW t \in Task, NEW f \in File, NEW p \in Pos,
         Save(t, f, p)
  PROVE  ResumeInv'
<1>1. \A u \in Task : Free(u)
  BY DEF Save, Calm, MayStart, Quiet
<1>2. /\ save'[t] = [pc |-> "timeline", file |-> f, time |-> p, track |-> Tracking]
      /\ \A u \in Task \ {t} : save'[u] = save[u]
  BY DEF Save, TypeOK
<1>3. TrackingHolds'
  BY <1>2 DEF Save, ResumeInv, TrackingHolds, Tracking, TypeOK
<1>4. Remembered'
  <2>1. \A g \in File : HalfWritten(g) => HalfWritten(g)'
    BY <1>1 DEF Save, HalfWritten, Saving, Free
  <2> QED
    BY <2>1 DEF Save, ResumeInv, Remembered, Tracking
<1>5. SecondWriteAgrees' /\ OpenedSoFar'
  BY <1>2 DEF Save, ResumeInv, SecondWriteAgrees, OpenedSoFar
<1> QED
  BY <1>3, <1>4, <1>5 DEF ResumeInv

LEMMA SaveTimelineKeepsResumeInv ==
  ASSUME TypeOK, Calm, KeysApart, OwnInv, ResumeInv, NEW t \in Task, SaveTimeline(t)
  PROVE  ResumeInv'
<1> DEFINE f == save[t].file
<1>1. /\ f \in File /\ ~Free(t)
      /\ \A u \in Task \ {t} : Free(u) /\ save'[u] = save[u]
      /\ open.pc \in {"idle", "done"} /\ sync.pc = "idle"
  BY DEF SaveTimeline, OwnInv, TakingTurns, Free, TypeOK, OpenJob
<1>2. /\ \A g \in File \ {f} : timeline'[OpenKey(g)] = timeline[OpenKey(g)]
      /\ timeline'[OpenKey(f)] = save[t].time
  BY <1>1, OpenKeyType DEF SaveTimeline, KeysApart, TypeOK
<1>3. CASE save[t].track
  <2>1. /\ save'[t].pc = "seen" /\ save'[t].file = f /\ save'[t].time = save[t].time
        /\ save'[t].track
    BY <1>3 DEF SaveTimeline, TypeOK, SaveJob
  <2>2. TrackingHolds'
    BY <1>1, <2>1 DEF SaveTimeline, ResumeInv, TrackingHolds, Tracking
  <2>3. Remembered'
    <3>1. \A g \in File : g = f => HalfWritten(g)'
      BY <2>1 DEF HalfWritten, Saving
    <3>2. \A g \in File : HalfWritten(g) => HalfWritten(g)'
      BY <1>1, <2>1 DEF SaveTimeline, HalfWritten, Saving, Free
    <3> QED
      BY <1>2, <3>1, <3>2 DEF SaveTimeline, ResumeInv, Remembered, Tracking
  <2>4. SecondWriteAgrees'
    BY <1>1, <1>2, <2>1 DEF SaveTimeline, ResumeInv, SecondWriteAgrees, Free
  <2> QED
    BY <2>2, <2>3, <2>4 DEF SaveTimeline, ResumeInv, OpenedSoFar
<1>4. CASE ~save[t].track
  <2>1. save'[t].pc = "idle" /\ ~Tracking
    BY <1>4, JobTypes DEF SaveTimeline, TypeOK, ResumeInv, TrackingHolds
  <2>2. TrackingHolds'
    BY <1>1, <2>1 DEF SaveTimeline, ResumeInv, TrackingHolds, Tracking
  <2>3. Remembered'
    BY <2>1 DEF SaveTimeline, Remembered, Tracking
  <2>4. SecondWriteAgrees'
    BY <1>1, <2>1 DEF SaveTimeline, ResumeInv, SecondWriteAgrees, Free
  <2> QED
    BY <2>2, <2>3, <2>4 DEF SaveTimeline, ResumeInv, OpenedSoFar
<1> QED
  BY <1>3, <1>4

LEMMA SaveSeenKeepsResumeInv ==
  ASSUME TypeOK, Calm, OwnInv, ResumeInv, NEW t \in Task, SaveSeen(t)
  PROVE  ResumeInv'
<1> DEFINE f == save[t].file
<1>1. /\ f \in File /\ save[t].track
      /\ save'[t].pc = "idle"
      /\ \A u \in Task \ {t} : Free(u) /\ save'[u] = save[u]
      /\ open.pc \in {"idle", "done"} /\ sync.pc = "idle"
  BY JobTypes DEF SaveSeen, OwnInv, TakingTurns, HalvesAgree, Free, TypeOK, OpenJob
<1>2. /\ seen'[f] = save[t].time
      /\ \A g \in File \ {f} : seen'[g] = seen[g]
      /\ timeline[OpenKey(f)] = save[t].time
  BY DEF SaveSeen, ResumeInv, SecondWriteAgrees, TypeOK
<1>3. TrackingHolds'
  BY <1>1 DEF SaveSeen, ResumeInv, TrackingHolds, Tracking
<1>4. Remembered'
  <2>1. \A g \in File \ {f} : HalfWritten(g) => HalfWritten(g)'
    BY <1>1 DEF SaveSeen, HalfWritten, Saving, Free
  <2> QED
    BY <1>2, <2>1 DEF SaveSeen, ResumeInv, Remembered, Tracking
<1>5. SecondWriteAgrees'
  BY <1>1 DEF SaveSeen, ResumeInv, SecondWriteAgrees, Free
<1>6. OpenedSoFar'
  BY <1>1 DEF SaveSeen, ResumeInv, OpenedSoFar
<1> QED
  BY <1>3, <1>4, <1>5, <1>6 DEF ResumeInv

LEMMA OthersKeepResumeInv ==
  ASSUME ResumeInv,
         UNCHANGED <<timeline, seen, synced, save, open, sync, left.toggles>> \/ ToggleSync
  PROVE  ResumeInv'
<1>1. CASE ToggleSync
  <2>1. TrackOnly
    BY <1>1, ConstantsAssumption DEF ToggleSync, ResumeInv, TrackingHolds
  <2> QED
    BY <1>1, <2>1
    DEF ToggleSync, ResumeInv, TrackingHolds, Tracking, Remembered, HalfWritten, Saving,
        SecondWriteAgrees, OpenedSoFar
<1>2. CASE UNCHANGED <<timeline, seen, synced, save, open, sync, left.toggles>>
  BY <1>2
  DEF ResumeInv, TrackingHolds, Tracking, Remembered, HalfWritten, Saving,
      SecondWriteAgrees, OpenedSoFar
<1> QED
  BY <1>1, <1>2

LEMMA OpenKeepsResumeInv ==
  ASSUME TypeOK, Calm, KeysApart, OwnInv, ResumeInv, OpenStart \/ OpenStep
  PROVE  ResumeInv'
<1>1. CASE OpenStart
  <2>1. open'.pc = "list" /\ open'.synced = synced
    BY <1>1 DEF OpenStart, IdleOpen
  <2>2. \A f \in File : HalfWritten(f) => HalfWritten(f)'
    BY <1>1 DEF OpenStart, HalfWritten, Saving
  <2> QED
    BY <1>1, <2>1, <2>2
    DEF OpenStart, ResumeInv, TrackingHolds, Tracking, Remembered, SecondWriteAgrees, OpenedSoFar
<1>2. CASE OpenList
  <2>1. open'.pc = "seen" /\ open'.synced = open.synced
    BY <1>2 DEF OpenList, TypeOK, OpenJob
  <2>2. \A f \in File : HalfWritten(f) => HalfWritten(f)'
    BY <1>2 DEF OpenList, HalfWritten, Saving
  <2> QED
    BY <1>2, <2>1, <2>2
    DEF OpenList, ResumeInv, TrackingHolds, Tracking, Remembered, SecondWriteAgrees, OpenedSoFar
<1>3. CASE OpenSeen
  <2>1. /\ open'.pc = "file" /\ open'.synced = open.synced /\ open'.todo = File
        /\ open.synced => open'.seen = seen
    BY <1>3 DEF OpenSeen, TypeOK, OpenJob
  <2>2. \A f \in File : HalfWritten(f) => HalfWritten(f)'
    BY <1>3 DEF OpenSeen, HalfWritten, Saving
  <2> QED
    BY <1>3, <2>1, <2>2
    DEF OpenSeen, ResumeInv, TrackingHolds, Tracking, Remembered, SecondWriteAgrees, OpenedSoFar
<1>4. ASSUME NEW f \in File, OpenFile(f) PROVE ResumeInv'
  <2> DEFINE local == timeline[OpenKey(f)]
             server == open.rows[f].time
             known == open.seen[f]
             merged == Merge(local, server, known)
  <2>1. local \in MaybePos /\ server \in Pos /\ known \in MaybePos
    BY OpenKeyType DEF TypeOK, OpenJob, Row
  <2>2. /\ open'.pc = "import" => open.synced /\ IsForeign(server, known) /\ open'.file = f
        /\ open'.pc \in {"file", "import"}
        /\ open'.synced = open.synced /\ open'.rows = open.rows /\ open'.seen = open.seen
        /\ open'.todo = open.todo \ {f}
        /\ \A g \in File \ {f} : open'.resume[g] = open.resume[g]
        /\ open.synced => open'.resume[f] = merged
    BY <1>4 DEF OpenFile, TypeOK, OpenJob
  <2>3. /\ open.pc = "file" /\ f \in open.todo /\ sync.pc = "idle" /\ \A u \in Task : Free(u)
        /\ UNCHANGED <<timeline, seen, synced, save, sync, left>>
    BY <1>4 DEF OpenFile, OwnInv, TakingTurns
  <2>4. \A g \in File : ~HalfWritten(g)
    BY <2>3 DEF HalfWritten, Saving, Free
  <2>5. open.synced /\ known # None => local = known
    BY <2>3, <2>4 DEF ResumeInv, OpenedSoFar, Remembered, TrackingHolds
  <2>6. open.synced /\ server > 0 => merged # None /\ Within(merged, server)
    BY <2>1, <2>5, MergeWithin
  <2>7. open'.pc = "import" => merged = server
    BY <2>2 DEF Merge
  <2>8. SecondWriteAgrees'
    BY <2>2, <2>3, <2>7 DEF ResumeInv, SecondWriteAgrees
  <2>9. OpenedSoFar'
    <3> HIDE DEF merged
    <3>1. open'.pc # "done" /\ File \ open'.todo = (File \ open.todo) \cup {f}
      BY <2>2
    <3> QED
      BY <2>2, <2>3, <2>6, <3>1 DEF ResumeInv, OpenedSoFar
  <2>10. TrackingHolds' /\ Remembered'
    BY <2>2, <2>3, <2>4 DEF ResumeInv, TrackingHolds, Tracking, Remembered
  <2> QED
    BY <2>8, <2>9, <2>10 DEF ResumeInv
<1>5. CASE OpenImport
  <2> DEFINE f == open.file
  <2>1. /\ f \in File /\ open.synced /\ f \notin open.todo
        /\ open.resume[f] = open.rows[f].time
        /\ sync.pc = "idle" /\ sync.todo = {} /\ \A u \in Task : Free(u)
        /\ UNCHANGED <<seen, synced, save, sync, left>>
    BY <1>5 DEF OpenImport, TypeOK, ResumeInv, SecondWriteAgrees, OwnInv, TakingTurns, ImportsAreRows
  <2>2. open'.pc = "mark" /\ \A field \in DOMAIN open \ {"pc"} : open'[field] = open[field]
    BY <1>5 DEF OpenImport, TypeOK, OpenJob
  <2>3. DOMAIN open = {"pc", "server", "synced", "track", "rows", "seen", "todo", "file", "resume"}
    BY DEF TypeOK, OpenJob
  <2>4. /\ open'.synced = open.synced /\ open'.rows = open.rows /\ open'.seen = open.seen
        /\ open'.todo = open.todo /\ open'.file = f /\ open'.resume = open.resume
    BY <2>2, <2>3
  <2>5. /\ \A g \in File \ {f} : timeline'[OpenKey(g)] = timeline[OpenKey(g)]
        /\ timeline'[OpenKey(f)] = open.rows[f].time
    BY <1>5, <2>1, OpenKeyType DEF OpenImport, KeysApart, TypeOK
  <2>6. Remembered'
    <3>1. \A g \in File : ~HalfWritten(g) /\ (g = f => HalfWritten(g)')
      BY <1>5, <2>1, <2>2, <2>4 DEF OpenImport, HalfWritten, Saving, Free
    <3> QED
      BY <2>1, <2>5, <3>1 DEF ResumeInv, Remembered, Tracking
  <2>7. TrackingHolds' /\ SecondWriteAgrees'
    BY <2>1, <2>2, <2>4, <2>5 DEF ResumeInv, TrackingHolds, Tracking, SecondWriteAgrees, Free
  <2>8. OpenedSoFar'
    BY <1>5, <2>1, <2>2, <2>4 DEF OpenImport, ResumeInv, OpenedSoFar
  <2> QED
    BY <2>6, <2>7, <2>8 DEF ResumeInv
<1>6. CASE OpenMark
  <2> DEFINE f == open.file
  <2>1. /\ f \in File /\ open.synced /\ f \notin open.todo
        /\ timeline[OpenKey(f)] = open.rows[f].time
        /\ sync.pc = "idle" /\ sync.todo = {} /\ \A u \in Task : Free(u)
        /\ UNCHANGED <<timeline, synced, save, sync, left>>
    BY <1>6 DEF OpenMark, TypeOK, ResumeInv, SecondWriteAgrees, OwnInv, TakingTurns, ImportsAreRows
  <2>2. /\ open'.pc = "file" /\ open'.synced = open.synced /\ open'.rows = open.rows
        /\ open'.seen = open.seen /\ open'.todo = open.todo /\ open'.resume = open.resume
    BY <1>6 DEF OpenMark, TypeOK, OpenJob
  <2>3. seen'[f] = open.rows[f].time /\ \A g \in File \ {f} : seen'[g] = seen[g]
    BY <1>6, <2>1 DEF OpenMark, TypeOK
  <2>4. Remembered'
    <3>1. \A g \in File \ {f} : ~HalfWritten(g)
      BY <1>6, <2>1 DEF OpenMark, HalfWritten, Saving, Free
    <3> QED
      BY <2>1, <2>3, <3>1 DEF ResumeInv, Remembered, Tracking
  <2>5. TrackingHolds' /\ SecondWriteAgrees'
    BY <2>1, <2>2 DEF ResumeInv, TrackingHolds, Tracking, SecondWriteAgrees, Free
  <2>6. OpenedSoFar'
    <3>1. f \notin open'.todo /\ open'.todo \subseteq File
      BY <2>1, <2>2 DEF TypeOK, OpenJob
    <3> QED
      BY <1>6, <2>1, <2>2, <2>3, <3>1 DEF OpenMark, ResumeInv, OpenedSoFar
  <2> QED
    BY <2>4, <2>5, <2>6 DEF ResumeInv
<1>7. CASE OpenDone
  <2>1. /\ open'.pc = "done" /\ open'.synced = open.synced /\ open'.rows = open.rows
        /\ open'.todo = open.todo /\ open'.resume = open.resume
    BY <1>7 DEF OpenDone, TypeOK, OpenJob
  <2>2. \A f \in File : HalfWritten(f) => HalfWritten(f)'
    BY <1>7 DEF OpenDone, HalfWritten, Saving
  <2> QED
    BY <1>7, <2>1, <2>2
    DEF OpenDone, ResumeInv, TrackingHolds, Tracking, Remembered, SecondWriteAgrees, OpenedSoFar
<1> QED
  BY <1>1, <1>2, <1>3, <1>4, <1>5, <1>6, <1>7 DEF OpenStep

\* While a pass runs no torrent is being opened.
LEMMA PassKeepsOpened ==
  ASSUME OwnInv, ResumeInv, sync.pc # "idle", UNCHANGED open
  PROVE  OpenedSoFar'
  BY DEF OwnInv, TakingTurns, ResumeInv, OpenedSoFar

LEMMA SyncKeepsResumeInv ==
  ASSUME TypeOK, Calm, KeysApart, OwnInv, ResumeInv, SyncStart \/ SyncStep
  PROVE  ResumeInv'
<1>1. CASE SyncStart
  <2>1. /\ sync.pc = "idle" /\ sync'.pc = "bind" /\ sync'.todo = {} /\ synced
        /\ UNCHANGED <<timeline, seen, synced, save, open, left>>
    BY <1>1 DEF SyncStart, IdleSync
  <2> QED
    BY <2>1
    DEF ResumeInv, TrackingHolds, Tracking, Remembered, HalfWritten, Saving, SecondWriteAgrees,
        OpenedSoFar
<1>2. CASE SyncBind \/ SyncList
  <2>1. /\ sync.pc \in {"bind", "list"} /\ sync'.pc \in {"list", "seen"}
        /\ sync'.todo = sync.todo
        /\ UNCHANGED <<timeline, seen, synced, save, open, left>>
    BY <1>2 DEF SyncBind, SyncList, OwnInv, OneServer, TypeOK, SyncJob
  <2> QED
    BY <2>1, PassKeepsOpened
    DEF ResumeInv, TrackingHolds, Tracking, Remembered, HalfWritten, Saving, SecondWriteAgrees
<1>3. CASE SyncSeen
  <2>1. /\ sync.pc = "seen" /\ sync'.pc = "import"
        /\ UNCHANGED <<timeline, seen, synced, save, open, left>>
    BY <1>3 DEF SyncSeen, TypeOK, SyncJob
  <2>2. \A i \in sync'.todo : \E f \in File : HasSyncKey(f) /\ i.file = f /\ i.key = SyncKey(f)
    BY <1>3 DEF SyncSeen, TypeOK, SyncJob
  <2>3. \A i \in sync'.todo : i.key = OpenKey(i.file)
    BY <2>2 DEF KeysApart
  <2> QED
    BY <2>1, <2>3, PassKeepsOpened
    DEF ResumeInv, TrackingHolds, Tracking, Remembered, HalfWritten, Saving, SecondWriteAgrees
<1>4. ASSUME NEW i \in sync.todo, SyncImport(i) PROVE ResumeInv'
  <2>1. /\ i \in Import /\ i.file \in File /\ i.key = OpenKey(i.file)
        /\ \A u \in Task : Free(u)
        /\ open.pc \in {"idle", "done"} /\ sync.pc = "import"
        /\ UNCHANGED <<seen, synced, save, open, left>>
    BY <1>4
    DEF SyncImport, TypeOK, SyncJob, Import, ResumeInv, SecondWriteAgrees, OwnInv, TakingTurns, OpenJob
  <2>2. sync'.pc = "mark" /\ sync'.cur = i /\ sync'.todo \subseteq sync.todo
    BY <1>4 DEF SyncImport, TypeOK, SyncJob
  <2>3. /\ \A g \in File \ {i.file} : timeline'[OpenKey(g)] = timeline[OpenKey(g)]
        /\ timeline'[OpenKey(i.file)] = i.row.time
    BY <1>4, <2>1, OpenKeyType DEF SyncImport, KeysApart, TypeOK
  <2>4. Remembered'
    <3>1. \A g \in File : ~HalfWritten(g) /\ (g = i.file => HalfWritten(g)')
      BY <2>1, <2>2 DEF HalfWritten, Saving, Free
    <3> QED
      BY <2>1, <2>3, <3>1 DEF ResumeInv, Remembered, Tracking
  <2>5. TrackingHolds' /\ SecondWriteAgrees'
    BY <2>1, <2>2, <2>3 DEF ResumeInv, TrackingHolds, Tracking, SecondWriteAgrees, Free
  <2> QED
    BY <2>1, <2>4, <2>5, PassKeepsOpened DEF ResumeInv
<1>5. CASE SyncMark
  <2> DEFINE f == sync.cur.file
  <2>1. /\ f \in File /\ timeline[OpenKey(f)] = sync.cur.row.time
        /\ \A u \in Task : Free(u)
        /\ open.pc \in {"idle", "done"} /\ sync.pc = "mark"
        /\ UNCHANGED <<timeline, synced, save, open, left>>
    BY <1>5
    DEF SyncMark, TypeOK, Import, ResumeInv, SecondWriteAgrees, OwnInv, TakingTurns, OpenJob
  <2>2. sync'.pc = "import" /\ sync'.todo = sync.todo
    BY <1>5 DEF SyncMark, TypeOK, SyncJob
  <2>3. seen'[f] = sync.cur.row.time /\ \A g \in File \ {f} : seen'[g] = seen[g]
    BY <1>5, <2>1 DEF SyncMark, TypeOK
  <2>4. Remembered'
    <3>1. \A g \in File \ {f} : ~HalfWritten(g)
      BY <2>1 DEF HalfWritten, Saving, Free
    <3> QED
      BY <2>1, <2>3, <3>1 DEF ResumeInv, Remembered, Tracking
  <2>5. TrackingHolds' /\ SecondWriteAgrees'
    BY <2>1, <2>2 DEF ResumeInv, TrackingHolds, Tracking, SecondWriteAgrees, Free
  <2> QED
    BY <2>1, <2>4, <2>5, PassKeepsOpened DEF ResumeInv
<1>6. CASE SyncDone
  <2>1. /\ sync.pc = "import" /\ sync'.pc = "idle" /\ sync'.todo = {}
        /\ UNCHANGED <<timeline, seen, synced, save, open, left>>
    BY <1>6, JobTypes, IdleRows DEF SyncDone
  <2> QED
    BY <2>1, PassKeepsOpened
    DEF ResumeInv, TrackingHolds, Tracking, Remembered, HalfWritten, Saving, SecondWriteAgrees
<1> QED
  BY <1>1, <1>2, <1>3, <1>4, <1>5, <1>6 DEF SyncStep

\* A torrent opened with the history synced resumes each file within the
\* tolerance of where another client left it, a position that a pass took in
\* earlier included (resume_timecode, merge_timecode), on a calm device whose
\* files have each a key of their own and whose playback is always tracked.
THEOREM CalmResumesWhereOtherLeft ==
  Calm /\ KeysApart /\ AlwaysTracked => (Spec => []ResumesWhereOtherLeft)
<1> SUFFICES ASSUME Calm, KeysApart, AlwaysTracked PROVE Spec => []ResumesWhereOtherLeft
  OBVIOUS
<1>1. Init => ResumeInv
  <2> SUFFICES ASSUME Init PROVE ResumeInv
    OBVIOUS
  <2>1. /\ open.pc = "idle" /\ ~open.synced /\ sync.pc = "idle" /\ sync.todo = {}
        /\ \A t \in Task : save[t].pc = "idle"
    BY DEF Init, IdleOpen, IdleSync, IdleSave
  <2> QED
    BY <2>1
    DEF Init, AlwaysTracked, ResumeInv, TrackingHolds, Remembered, SecondWriteAgrees, OpenedSoFar
<1>2. TypeOK /\ OwnInv /\ ResumeInv /\ [Next]_vars => ResumeInv'
  <2> SUFFICES ASSUME TypeOK, OwnInv, ResumeInv, [Next]_vars PROVE ResumeInv'
    OBVIOUS
  <2>1. CASE UNCHANGED vars \/ (\E t \in Task : Deliver(t))
          \/ (\E s \in Server, f \in File, p \in Pos : Move(s, f, p))
    <3>1. UNCHANGED <<timeline, seen, synced, save, open, sync, left.toggles>>
      BY <2>1 DEF vars, Deliver, Move, TypeOK
    <3> QED
      BY <3>1, OthersKeepResumeInv
  <2>2. CASE ToggleSync
    BY <2>2, OthersKeepResumeInv
  <2>3. /\ \A t \in Task : ~Lose(t)
        /\ \A s \in Server : ~SwitchServer(s)
        /\ ~SyncFail
    BY DEF Lose, SwitchServer, SyncFail, Calm
  <2> QED
    BY <2>1, <2>2, <2>3, SaveKeepsResumeInv, SaveTimelineKeepsResumeInv, SaveSeenKeepsResumeInv,
       OpenKeepsResumeInv, SyncKeepsResumeInv
    DEF Next, SaveStep
<1>3. ResumeInv => ResumesWhereOtherLeft
  BY DEF ResumeInv, OpenedSoFar, ResumesWhereOtherLeft
<1> QED
  BY <1>1, <1>2, <1>3, TypeCorrect, CalmKeepsOwnInv, PTL DEF Spec

===============================================================================
