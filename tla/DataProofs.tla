----------------------------- MODULE DataProofs -----------------------------
(***************************************************************************)
(* Theorems about the data of the screens: about opening the database, for *)
(* any number of instances, versions and files; and, from the theorems     *)
(* about a page (SwrPagesProofs) and about a request (NetRouteProofs), the *)
(* properties of the composition MCData.                                   *)
(***************************************************************************)
EXTENDS MCData, Sequences, TLAPS

PP == INSTANCE SwrPagesProofs

RP == INSTANCE NetRouteProofs WITH
    Configs <- {[proxy |-> TRUE, bypass |-> TRUE, custom |-> FALSE],
                [proxy |-> FALSE, bypass |-> TRUE, custom |-> TRUE],
                [proxy |-> TRUE, bypass |-> FALSE, custom |-> FALSE]},
    Builtin <- {quad},
    Custom <- custom,
    System <- system,
    Names <- custom :> {near} @@ quad :> {far, sinkhole} @@ system :> {near, sinkhole},
    Public <- {near, far}

(* Past connect an instance has a file, and while it migrates more         *)
(* migrations are to come.                                                 *)
Staged(i) ==
    /\ i.at \in {"list", "apply", "open"} => i.file # 0
    /\ i.at # "closed" => i.version # 0
    /\ i.at = "apply" => i.known < i.version

Typed ==
    /\ TypeOK
    /\ \A p \in Proc : proc[p].file <= made /\ Staged(proc[p])

(* A file never loses a migration that an instance has seen it have. *)
Migrated ==
    /\ \A f \in File : files[f].old => files[f].applied = 0
    /\ \A p \in Proc :
          LET applied == files[proc[p].file].applied
          IN  /\ proc[p].at = "apply" => applied >= proc[p].known
              /\ proc[p].at = "open" => applied >= proc[p].version

LEMMA InitTyped == Init => Typed /\ Migrated
<1> SUFFICES ASSUME Init PROVE Typed /\ Migrated
  OBVIOUS
<1>1. Closed \in Instance /\ Staged(Closed) /\ Closed.file = 0
  BY OpenAssumption DEF Closed, Instance, Staged
<1>2. \A p \in Proc : proc[p] = Closed
  BY DEF Init
<1>3. proc \in [Proc -> Instance]
  BY <1>1 DEF Init
<1>4. Empty \in Content /\ [old |-> TRUE, applied |-> 0, rows |-> TRUE] \in Content
  BY OpenAssumption DEF Empty, Content
<1>5. files \in [File -> Content]
  BY <1>4 DEF Init
<1>6. disk \in 0..made /\ made \in 0..MaxFiles
  BY OpenAssumption DEF Init
<1>7. \A f \in File : files[f].applied = 0
  BY DEF Init, Empty
<1>8. Typed
  BY <1>1, <1>2, <1>3, <1>5, <1>6 DEF Typed, TypeOK
<1>9. Migrated
  <2>0. Closed.at = "closed"
    BY DEF Closed
  <2>1. \A p \in Proc : proc[p].at = "closed"
    BY <1>2, <2>0
  <2> QED
    BY <1>7, <2>1 DEF Migrated
<1> QED
  BY <1>8, <1>9

(* A step changes one instance, and it is enough to look at that one. *)
LEMMA OneMoves ==
    ASSUME Typed, NEW p \in Proc, NEW i \in Instance, Staged(i), i.file <= made',
           proc' = [proc EXCEPT ![p] = i],
           made' \in 0..MaxFiles, made <= made', disk' \in 0..made',
           files' \in [File -> Content]
    PROVE  Typed'
<1>1. proc' \in [Proc -> Instance]
  BY DEF Typed, TypeOK
<1>2. ASSUME NEW q \in Proc
      PROVE  proc'[q].file <= made' /\ Staged(proc'[q])
  <2>1. CASE q = p
    BY <2>1 DEF Typed, TypeOK
  <2>2. CASE q # p
    <3>1. proc'[q] = proc[q] /\ proc[q] \in Instance
      BY <2>2 DEF Typed, TypeOK
    <3>2. proc[q].file \in Nat /\ proc[q].file <= made /\ made \in Nat /\ made' \in Nat
      BY <3>1, OpenAssumption DEF Typed, TypeOK, Instance
    <3> QED
      BY <3>1, <3>2 DEF Typed
  <2> QED
    BY <2>1, <2>2
<1>3. (\A q \in Proc : proc[q].file <= made /\ Staged(proc[q]))'
  BY <1>2
<1> QED
  BY <1>1, <1>3 DEF Typed, TypeOK

(* What List, Apply and Use do: neither the path nor the files made.       *)
LEMMA Stays ==
    ASSUME Typed, NEW p \in Proc, NEW i \in Instance, Staged(i), i.file = proc[p].file,
           proc' = [proc EXCEPT ![p] = i], UNCHANGED <<disk, made>>,
           files' \in [File -> Content]
    PROVE  Typed'
<1>1. i.file <= made' /\ made' \in 0..MaxFiles /\ made <= made' /\ disk' \in 0..made'
  BY DEF Typed, TypeOK
<1> QED
  BY <1>1, OneMoves

LEMMA Fails ==
    ASSUME Typed, NEW p \in Proc, proc[p].at \in {"list", "apply"}, Moves(p, "failed"),
           UNCHANGED <<disk, made>>, files' \in [File -> Content]
    PROVE  Typed'
<1> DEFINE i == [proc[p] EXCEPT !.at = "failed"]
<1>1. proc[p] \in Instance /\ Staged(proc[p])
  BY DEF Typed, TypeOK
<1>2. i \in Instance /\ Staged(i) /\ i.file = proc[p].file
  BY <1>1 DEF Instance, Staged
<1>3. proc' = [proc EXCEPT ![p] = i]
  BY DEF Moves
<1> QED
  BY <1>2, <1>3, Stays

LEMMA Goes ==
    ASSUME Typed, NEW p \in Proc, proc[p].at \in {"list", "apply"},
           NEW n \in 0..MaxVersion, n <= proc[p].version,
           proc' = [proc EXCEPT ![p].at = Onward(p, n), ![p].known = n],
           UNCHANGED <<disk, made>>, files' \in [File -> Content]
    PROVE  Typed'
<1> DEFINE i == [proc[p] EXCEPT !.at = Onward(p, n), !.known = n]
<1>1. proc[p] \in Instance /\ Staged(proc[p])
  BY DEF Typed, TypeOK
<1>2. Onward(p, n) \in {"open", "apply"} /\ (Onward(p, n) = "apply" => n < proc[p].version)
  BY <1>1, OpenAssumption DEF Onward, Instance
<1> HIDE DEF Onward
<1>3. i \in Instance /\ Staged(i) /\ i.file = proc[p].file
  BY <1>1, <1>2 DEF Instance, Staged
<1>4. proc' = [proc EXCEPT ![p] = i]
  OBVIOUS
<1> QED
  BY <1>3, <1>4, Stays

(* An instance that lists or applies has one of the files. *)
LEMMA HasFile ==
    ASSUME Typed, NEW p \in Proc, proc[p].at \in {"list", "apply", "open"}
    PROVE  /\ proc[p].file \in File
           /\ files[proc[p].file] \in Content
           /\ proc[p].version \in 1..MaxVersion
           /\ proc[p].known \in 0..MaxVersion
<1>1. proc[p] \in Instance /\ Staged(proc[p])
  BY DEF Typed, TypeOK
<1>2. proc[p].file \in 0..MaxFiles /\ proc[p].file # 0
  BY <1>1 DEF Instance, Staged
<1>3. proc[p].version \in 0..MaxVersion /\ proc[p].version # 0 /\ proc[p].known \in 0..MaxVersion
  BY <1>1 DEF Instance, Staged
<1> QED
  BY <1>2, <1>3, OpenAssumption DEF Typed, TypeOK, File

LEMMA StepTyped ==
    ASSUME Typed, Migrated, [Next]_vars
    PROVE  Typed'
<1>1. ASSUME NEW p \in Proc, NEW version \in 1..MaxVersion, Start(p, version)
      PROVE  Typed'
  <2> DEFINE i == [Closed EXCEPT !.at = "connect", !.version = version]
  <2>0. /\ i.at = "connect" /\ i.version = version /\ i.file = 0
        /\ version \in 0..MaxVersion /\ version # 0
    BY OpenAssumption DEF Closed
  <2>1. i \in Instance /\ Staged(i) /\ i.file = 0
    <3>1. Closed \in Instance
      BY OpenAssumption DEF Closed, Instance
    <3>2. i \in Instance
      BY <3>1, <2>0 DEF Instance
    <3> HIDE DEF i
    <3> QED
      BY <3>2, <2>0 DEF Staged
  <2>2. proc' = [proc EXCEPT ![p] = i] /\ UNCHANGED <<disk, files, made>> /\ proc[p] = Closed
    BY <1>1 DEF Start
  <2> QED
    BY <2>1, <2>2, Stays DEF Closed, Typed, TypeOK
<1>2. ASSUME NEW p \in Proc, Connect(p)
      PROVE  Typed'
  <2> DEFINE i == [proc[p] EXCEPT !.at = "list", !.file = disk']
  <2>0. proc[p] \in Instance /\ Staged(proc[p]) /\ proc[p].at = "connect"
    BY <1>2 DEF Connect, Typed, TypeOK
  <2>1. made' \in 0..MaxFiles /\ made <= made' /\ disk' \in 1..made'
    BY <1>2, OpenAssumption DEF Connect, Typed, TypeOK
  <2>2. Empty \in Content
    BY OpenAssumption DEF Empty, Content
  <2>3. files' \in [File -> Content]
    BY <1>2, <2>2 DEF Connect, Typed, TypeOK
  <2>4. disk' \in 0..MaxFiles /\ disk' # 0 /\ disk' \in 0..made' /\ disk' <= made'
    BY <2>1, OpenAssumption
  <2>5. i \in Instance /\ Staged(i) /\ i.file = disk'
    BY <2>0, <2>4 DEF Instance, Staged
  <2>6. proc' = [proc EXCEPT ![p] = i]
    BY <1>2 DEF Connect
  <2> QED
    BY <2>1, <2>3, <2>4, <2>5, <2>6, OneMoves
<1>3. ASSUME NEW p \in Proc, List(p)
      PROVE  Typed'
  <2> DEFINE applied == files[proc[p].file].applied
  <2>1. proc[p].at = "list" /\ UNCHANGED <<disk, files, made>> /\ files' \in [File -> Content]
    BY <1>3 DEF List, Typed, TypeOK
  <2>2. applied \in 0..MaxVersion
    BY <2>1, HasFile DEF Content
  <2>3. CASE applied <= proc[p].version
    <3>1. proc' = [proc EXCEPT ![p].at = Onward(p, applied), ![p].known = applied]
      BY <1>3, <2>3 DEF List
    <3> HIDE DEF applied
    <3> QED
      BY <2>1, <2>2, <2>3, <3>1, Goes
  <2>4. CASE ~(applied <= proc[p].version)
    <3>1. Moves(p, "failed")
      BY <1>3, <2>4 DEF List
    <3> QED
      BY <2>1, <3>1, Fails
  <2> QED
    BY <2>3, <2>4
<1>4. ASSUME NEW p \in Proc, Apply(p)
      PROVE  Typed'
  <2> DEFINE file == proc[p].file
  <2>1. proc[p].at = "apply" /\ UNCHANGED <<disk, made>>
    BY <1>4 DEF Apply
  <2>2. /\ file \in File /\ files[file] \in Content
        /\ proc[p].version \in 1..MaxVersion /\ proc[p].known \in 0..MaxVersion
        /\ proc[p].known < proc[p].version
    BY <2>1, HasFile DEF Typed, Staged
  <2>3. CASE files[file].old \/ files[file].applied # proc[p].known
    <3>1. Moves(p, "failed") /\ files' \in [File -> Content]
      BY <1>4, <2>3 DEF Apply, Typed, TypeOK
    <3> QED
      BY <2>1, <3>1, Fails
  <2>4. CASE ~(files[file].old \/ files[file].applied # proc[p].known)
    <3>1. /\ files' = [files EXCEPT ![file].applied = @ + 1]
          /\ proc' = [proc EXCEPT ![p].at = Onward(p, proc[p].known + 1), ![p].known = @ + 1]
      BY <1>4, <2>4 DEF Apply
    <3>2. proc[p].known + 1 \in 0..MaxVersion /\ proc[p].known + 1 <= proc[p].version
      BY <2>2, OpenAssumption
    <3>3. [files[file] EXCEPT !.applied = @ + 1] \in Content
      BY <2>2, <2>4, <3>2 DEF Content
    <3>4. files' \in [File -> Content]
      BY <2>2, <3>1, <3>3 DEF Typed, TypeOK
    <3>5. proc' = [proc EXCEPT ![p].at = Onward(p, proc[p].known + 1),
                              ![p].known = proc[p].known + 1]
      BY <3>1
    <3> QED
      BY <2>1, <3>2, <3>4, <3>5, Goes
  <2> QED
    BY <2>3, <2>4
<1>5. ASSUME NEW p \in Proc, Break(p)
      PROVE  Typed'
  BY <1>5, Fails DEF Break, Typed, TypeOK
<1>6. ASSUME NEW p \in Proc, RemoveFiles(p)
      PROVE  Typed'
  <2> DEFINE i == [proc[p] EXCEPT !.at = "connect", !.retry = TRUE, !.file = 0]
  <2>1. proc[p] \in Instance /\ Staged(proc[p]) /\ proc[p].at = "failed"
    BY <1>6 DEF RemoveFiles, Typed, TypeOK
  <2>2. i \in Instance /\ Staged(i) /\ i.file = 0
    <3>1. 0 \in 0..MaxFiles
      BY OpenAssumption
    <3>2. i \in Instance
      BY <2>1, <3>1 DEF Instance
    <3>3. i.at = "connect" /\ i.version = proc[p].version /\ i.file = 0
      BY <2>1 DEF Instance
    <3>4. i.version # 0
      BY <2>1, <3>3 DEF Staged
    <3> HIDE DEF i
    <3> QED
      BY <3>2, <3>3, <3>4 DEF Staged
  <2>3. proc' = [proc EXCEPT ![p] = i] /\ UNCHANGED <<files, made>> /\ disk' \in {0, disk}
    BY <1>6 DEF RemoveFiles
  <2>4. made \in 0..MaxFiles /\ disk' \in 0..made /\ 0 <= made
    BY <2>3, OpenAssumption DEF Typed, TypeOK
  <2> QED
    BY <2>2, <2>3, <2>4, OneMoves DEF Typed, TypeOK
<1>7. ASSUME NEW p \in Proc, GiveUp(p) \/ Quit(p)
      PROVE  Typed'
  <2>1. proc' = [proc EXCEPT ![p] = Closed] /\ UNCHANGED <<disk, files, made>>
    BY <1>7 DEF GiveUp, Quit
  <2>2. Closed \in Instance /\ Staged(Closed) /\ Closed.file = 0
    BY OpenAssumption DEF Closed, Instance, Staged
  <2>3. made \in 0..MaxFiles /\ 0 <= made
    BY OpenAssumption DEF Typed, TypeOK
  <2> HIDE DEF Closed
  <2> QED
    BY <2>1, <2>2, <2>3, OneMoves DEF Typed, TypeOK
<1>8. ASSUME NEW p \in Proc, Use(p)
      PROVE  Typed'
  <2>1. files' \in [File -> Content]
    BY <1>8 DEF Use, Typed, TypeOK, Content
  <2> QED
    BY <1>8, <2>1 DEF Use, Typed, TypeOK
<1>9. CASE UNCHANGED vars
  BY <1>9 DEF vars, Typed, TypeOK
<1> QED
  BY <1>1, <1>2, <1>3, <1>4, <1>5, <1>6, <1>7, <1>8, <1>9 DEF Next

LEMMA StepMigrated ==
    ASSUME Typed, Migrated, [Next]_vars
    PROVE  Migrated'
<1> USE OpenAssumption
<1>1. ASSUME NEW p \in Proc, NEW version \in 1..MaxVersion, Start(p, version)
      PROVE  Migrated'
  BY <1>1 DEF Start, Typed, Migrated, TypeOK, Closed
<1>2. ASSUME NEW p \in Proc, Connect(p)
      PROVE  Migrated'
  BY <1>2 DEF Connect, Typed, Migrated, TypeOK, File, Content, Empty
<1>3. ASSUME NEW p \in Proc, List(p)
      PROVE  Migrated'
  <2> DEFINE applied == files[proc[p].file].applied
  <2>1. proc[p].at = "list" /\ UNCHANGED <<disk, files, made>>
    BY <1>3 DEF List
  <2>2. applied \in 0..MaxVersion /\ proc[p].version \in 1..MaxVersion
    BY <2>1, HasFile DEF Content
  <2>3. proc[p] \in Instance
    BY DEF Typed, TypeOK
  <2>4. /\ proc'[p].file = proc[p].file /\ proc'[p].version = proc[p].version
        /\ proc'[p].at = "apply" => proc'[p].known = applied
        /\ proc'[p].at = "open" => applied = proc[p].version
    BY <1>3, <2>3 DEF List, Moves, Onward, Instance, Typed, TypeOK
  <2>5. \A q \in Proc \ {p} : proc'[q] = proc[q]
    BY <1>3 DEF List, Moves, Typed, TypeOK
  <2> QED
    BY <2>1, <2>2, <2>4, <2>5 DEF Migrated
<1>4. ASSUME NEW p \in Proc, Apply(p)
      PROVE  Migrated'
  <2> DEFINE file == proc[p].file
             grown == files[file].applied + 1
  <2>1. proc[p].at = "apply" /\ proc[p] \in Instance
    BY <1>4 DEF Apply, Typed, TypeOK
  <2>2. /\ file \in File /\ files[file] \in Content
        /\ proc[p].version \in 1..MaxVersion /\ proc[p].known \in 0..MaxVersion
    BY <2>1, HasFile
  <2>3. CASE files[file].old \/ files[file].applied # proc[p].known
    <3>1. Moves(p, "failed") /\ UNCHANGED files
      BY <1>4, <2>3 DEF Apply
    <3>2. proc'[p].at = "failed" /\ \A q \in Proc \ {p} : proc'[q] = proc[q]
      BY <3>1 DEF Moves, Typed, TypeOK, Instance
    <3> QED
      BY <3>1, <3>2 DEF Migrated
  <2>4. CASE ~files[file].old /\ files[file].applied = proc[p].known
    <3>1. /\ files' = [files EXCEPT ![file].applied = @ + 1]
          /\ proc' = [proc EXCEPT ![p].at = Onward(p, proc[p].known + 1), ![p].known = @ + 1]
      BY <1>4, <2>4 DEF Apply
    <3>2. /\ files'[file].applied = grown /\ files'[file].old = FALSE
          /\ \A f \in File \ {file} : files'[f] = files[f]
      BY <2>2, <2>4, <3>1 DEF Typed, TypeOK, Content
    <3>3. /\ proc'[p].file = file /\ proc'[p].version = proc[p].version
          /\ proc'[p].known = grown
          /\ proc'[p].at = "open" => grown = proc[p].version
      BY <2>1, <2>4, <3>1 DEF Onward, Instance, Typed, TypeOK
    <3>4. \A q \in Proc \ {p} : proc'[q] = proc[q]
      BY <3>1 DEF Typed, TypeOK
    <3>5. grown \in Nat /\ files[file].applied <= grown
      BY <2>2, <2>4, OpenAssumption
    <3>6. ASSUME NEW q \in Proc \ {p}
          PROVE  /\ proc'[q].at = "apply" => files'[proc'[q].file].applied >= proc'[q].known
                 /\ proc'[q].at = "open" => files'[proc'[q].file].applied >= proc'[q].version
      <4>1. CASE proc[q].at \in {"apply", "open"}
        <5>1. /\ proc[q].file \in File /\ proc[q].version \in Nat /\ proc[q].known \in Nat
              /\ files[proc[q].file].applied \in Nat
          BY <4>1, HasFile, OpenAssumption DEF Content
        <5>2. files'[proc[q].file].applied >= files[proc[q].file].applied
              /\ files'[proc[q].file].applied \in Nat
          BY <5>1, <3>2, <3>5
        <5> QED
          BY <4>1, <5>1, <5>2, <3>4 DEF Migrated
      <4>2. CASE proc[q].at \notin {"apply", "open"}
        BY <4>2, <3>4
      <4> QED
        BY <4>1, <4>2
    <3>7. /\ proc'[p].at = "apply" => files'[proc'[p].file].applied >= proc'[p].known
          /\ proc'[p].at = "open" => files'[proc'[p].file].applied >= proc'[p].version
      BY <3>2, <3>3, <3>5
    <3>8. \A f \in File : files'[f].old => files'[f].applied = 0
      BY <3>2 DEF Migrated
    <3> HIDE DEF file, grown
    <3>9. \A q \in Proc :
             /\ proc'[q].at = "apply" => files'[proc'[q].file].applied >= proc'[q].known
             /\ proc'[q].at = "open" => files'[proc'[q].file].applied >= proc'[q].version
      BY <3>6, <3>7
    <3> QED
      BY <3>8, <3>9 DEF Migrated
  <2>5. files[file].old \in BOOLEAN
    BY <2>2 DEF Content
  <2> QED
    BY <2>3, <2>4, <2>5
<1>5. ASSUME NEW p \in Proc, Break(p)
      PROVE  Migrated'
  BY <1>5 DEF Break, Moves, Typed, Migrated, TypeOK
<1>6. ASSUME NEW p \in Proc, RemoveFiles(p)
      PROVE  Migrated'
  BY <1>6 DEF RemoveFiles, Typed, Migrated, TypeOK
<1>7. ASSUME NEW p \in Proc, GiveUp(p) \/ Quit(p)
      PROVE  Migrated'
  BY <1>7 DEF GiveUp, Quit, Closed, Typed, Migrated, TypeOK
<1>8. ASSUME NEW p \in Proc, Use(p)
      PROVE  Migrated'
  BY <1>8 DEF Use, Typed, Migrated, TypeOK, Content
<1>9. CASE UNCHANGED vars
  BY <1>9 DEF vars, Typed, Migrated, TypeOK
<1> QED
  BY <1>1, <1>2, <1>3, <1>4, <1>5, <1>6, <1>7, <1>8, <1>9 DEF Next

LEMMA Inductive == Spec => [](Typed /\ Migrated)
<1>1. Typed /\ Migrated /\ [Next]_vars => (Typed /\ Migrated)'
  BY StepTyped, StepMigrated
<1> QED
  BY <1>1, InitTyped, PTL DEF Spec

(* Instances and files are well typed. *)
THEOREM TypeCorrect == Spec => []TypeOK
<1>1. Typed => TypeOK
  BY DEF Typed
<1> QED
  BY <1>1, Inductive, PTL

(* What Store::open returns has every migration its version knows. *)
THEOREM OpensMigrated == Spec => []OpenIsMigrated
<1>1. Typed /\ Migrated => OpenIsMigrated
  <2> SUFFICES ASSUME Typed, Migrated, NEW p \in Proc, proc[p].at = "open"
               PROVE  /\ proc[p].file # 0
                      /\ ~files[proc[p].file].old
                      /\ files[proc[p].file].applied >= proc[p].version
    BY DEF OpenIsMigrated
  <2>1. proc[p].file \in File /\ proc[p].version \in 1..MaxVersion
    BY HasFile
  <2>2. files[proc[p].file].applied >= proc[p].version
    BY DEF Migrated
  <2>3. files[proc[p].file].applied # 0
    BY <2>1, <2>2, OpenAssumption
  <2> QED
    BY <2>1, <2>2, <2>3 DEF Migrated, File
<1> QED
  BY <1>1, Inductive, PTL

-----------------------------------------------------------------------------
(***************************************************************************)
(* The composition.                                                        *)
(***************************************************************************)

(* The page of MCData is the page of the proofs: what it paints, *)
LEMMA SamePaints == PP!PageSafe <=> Pages!PageSafe
<1>1. PP!Hydrated = Pages!Hydrated
  BY DEF
    PP!Hydrated, Pages!Hydrated, PP!Hydrate, Pages!Hydrate, PP!SyncLang, Pages!SyncLang, PP!Slot, Pages!Slot,
    PP!Name, Pages!Name, PP!Idle, Pages!Idle, PP!Invalidate, Pages!Invalidate, PP!Reset, Pages!Reset,
    PP!Fresh, Pages!Fresh
<1>2. PP!FrameAsks <=> Pages!FrameAsks
  BY <1>1 DEF PP!FrameAsks, Pages!FrameAsks, PP!Asks, Pages!Asks, PP!HasDisk, Pages!HasDisk
<1>3. PP!Frame = Pages!Frame
  BY <1>1, <1>2 DEF PP!Frame, Pages!Frame, PP!Name, Pages!Name
<1>4. \A c : PP!Painted(c) = Pages!Painted(c)
  BY DEF PP!Painted, Pages!Painted, PP!View, Pages!View, PP!HasDisk, Pages!HasDisk
<1>5. PP!Paints = Pages!Paints
  BY <1>1, <1>3, <1>4 DEF PP!Paints, Pages!Paints, PP!Blank, Pages!Blank
<1>6. PP!Name = Pages!Name /\ (PP!InUse <=> Pages!InUse)
  BY DEF PP!Name, Pages!Name, PP!InUse, Pages!InUse, PP!Usable, Pages!Usable
<1> QED
  BY <1>2, <1>3, <1>5, <1>6 DEF
    PP!PageSafe, Pages!PageSafe, PP!PaintsItsOwn, Pages!PaintsItsOwn, PP!StaleIsRevalidated,
    Pages!StaleIsRevalidated, PP!OpenPageRefetched, Pages!OpenPageRefetched

(* and what it does. *)
LEMMA SamePage ==
    /\ PP!PagesAssumption <=> Pages!PagesAssumption
    /\ PP!Init <=> Pages!Init
    /\ PP!Next <=> Pages!Next
    /\ PP!TypeOK <=> Pages!TypeOK
<1>1. PP!PagesAssumption <=> Pages!PagesAssumption
  BY DEF PP!PagesAssumption, Pages!PagesAssumption, PP!Names, Pages!Names
<1>2. PP!Init <=> Pages!Init
  BY DEF
      PP!Init, Pages!Init, PP!SettingsInit, Pages!SettingsInit, PP!Fresh, Pages!Fresh, PP!Names, Pages!Names,
      PP!Rows, Pages!Rows, PP!Settings, Pages!Settings, PP!Idle, Pages!Idle
<1>3. PP!Next <=> Pages!Next
  BY DEF
      PP!Next, Pages!Next, PP!Edit, Pages!Edit, PP!page, Pages!page, PP!Sync, Pages!Sync, PP!Draw, Pages!Draw,
      PP!Retry, Pages!Retry, PP!RefreshHome, Pages!RefreshHome, PP!ClearCache, Pages!ClearCache, PP!Open,
      Pages!Open, PP!ReadDisk, Pages!ReadDisk, PP!Fetched, Pages!Fetched, PP!Answered, Pages!Answered,
      PP!Rows, Pages!Rows, PP!KeepRow, Pages!KeepRow, PP!Names, Pages!Names, PP!Ages, Pages!Ages, PP!Compare,
      Pages!Compare, PP!ChangeFrom, Pages!ChangeFrom, PP!Forgets, Pages!Forgets, PP!Forgotten,
      Pages!Forgotten, PP!Dropped, Pages!Dropped, PP!Empty, Pages!Empty, PP!Usable, Pages!Usable, PP!Slot,
      Pages!Slot, PP!Frame, Pages!Frame, PP!FrameAsks, Pages!FrameAsks, PP!Name, Pages!Name, PP!settings,
      Pages!settings, PP!View, Pages!View, PP!Invalidate, Pages!Invalidate, PP!Retried, Pages!Retried,
      PP!Reset, Pages!Reset, PP!Snapshot, Pages!Snapshot, PP!Told, Pages!Told, PP!Fresh, Pages!Fresh,
      PP!ForgetLive, Pages!ForgetLive, PP!Hydrated, Pages!Hydrated, PP!Asks, Pages!Asks, PP!HasDisk,
      Pages!HasDisk, PP!Idle, Pages!Idle, PP!SlotOf, Pages!SlotOf, PP!Hydrate, Pages!Hydrate, PP!SyncLang,
      Pages!SyncLang
<1>4. PP!TypeOK <=> Pages!TypeOK
  BY DEF
      PP!TypeOK, Pages!TypeOK, PP!Settings, Pages!Settings, PP!Names, Pages!Names, PP!Rows, Pages!Rows,
      PP!SlotOf, Pages!SlotOf
<1> QED
  BY <1>1, <1>2, <1>3, <1>4

(* The request of MCData is the request of the proofs. *)
LEMMA SameRequest ==
    /\ RP!NetAssumption <=> Route!NetAssumption
    /\ RP!NetInit <=> Route!NetInit
    /\ RP!NetNext <=> Route!NetNext
    /\ RP!NetSafe <=> Route!NetSafe
<1>1. RP!NetAssumption <=> Route!NetAssumption
  BY DEF
      RP!NetAssumption, Route!NetAssumption, RP!Provider, Route!Provider, RP!Client, Route!Client, RP!Idle,
      Route!Idle
<1>2. RP!NetInit <=> Route!NetInit
  BY DEF
      RP!NetInit, Route!NetInit, RP!Idle, Route!Idle
<1>3. RP!NetNext <=> Route!NetNext
  BY DEF
      RP!NetNext, Route!NetNext, RP!Send, Route!Send, RP!Cached, Route!Cached, RP!Build, Route!Build,
      RP!Window, Route!Window, RP!Unreachable, Route!Unreachable, RP!TimedOut, Route!TimedOut, RP!Plain,
      Route!Plain, RP!Built, Route!Built, RP!AskSystem, Route!AskSystem, RP!Connect, Route!Connect, RP!Answer,
      Route!Answer, RP!Change, Route!Change, RP!Provider, Route!Provider, RP!Expire, Route!Expire, RP!Idle,
      Route!Idle, RP!Resolve, Route!Resolve, RP!Goes, Route!Goes, RP!Waiting, Route!Waiting, RP!Failed,
      Route!Failed, RP!Stored, Route!Stored, RP!PublicOf, Route!PublicOf
<1>4. RP!NetSafe <=> Route!NetSafe
  BY DEF
      RP!NetSafe, Route!NetSafe, RP!NothingLearnedIsLost, Route!NothingLearnedIsLost, RP!TriesWhatIsKnown,
      Route!TriesWhatIsKnown, RP!OnlyPublic, Route!OnlyPublic, RP!RouteAsSet, Route!RouteAsSet, RP!PublicOf,
      Route!PublicOf
<1> QED
  BY <1>1, <1>2, <1>3, <1>4

(* In the composition a database opens as it does alone (db.rs), so what   *)
(* open returns is migrated whatever else of the app a behaviour is about. *)
THEOREM OpensAsAlone == DataSpec => Spec /\ []OpenIsMigrated
<1>1. DataInit => Init
  BY DEF DataInit, StillOpen
<1>2. [DataNext]_<<part, vars, shared, page, gridded, routed>> => [Next]_vars
  BY DEF DataNext
<1> QED
  BY <1>1, <1>2, OpensMigrated, PTL DEF DataSpec, Spec

PageHolds == part = "page" => PP!PageInv
RequestHolds == part = "net" => RP!NetInv

(* Whatever answers late or is dropped, a page of the composition paints   *)
(* its own data, and stale data only while fresh is asked for (screens/swr.rs). *)
THEOREM PagesAreCurrent == DataSpec => []PageIsCurrent
<1>1. PP!PagesAssumption
  BY PagesAssumed, SamePage
<1>2. DataInit => PageHolds
  BY <1>1, SamePage, PP!PageInit DEF DataInit, PageHolds
<1>3. PageHolds /\ [DataNext]_<<part, vars, shared, page, gridded, routed>> => PageHolds'
  <2> SUFFICES ASSUME PageHolds, [DataNext]_<<part, vars, shared, page, gridded, routed>>, part' = "page"
               PROVE  PP!PageInv'
    BY DEF PageHolds
  <2>1. part = "page"
    BY DEF DataNext
  <2>2. PP!PageInv
    BY <2>1 DEF PageHolds
  <2>3. CASE Pages!Next
    BY <1>1, <2>2, <2>3, SamePage, PP!NextHolds
  <2>4. CASE UNCHANGED <<part, vars, shared, page, gridded, routed>>
    <3>1. UNCHANGED PP!vars
      BY <2>4 DEF shared, page, PP!vars, PP!page, PP!settings
    <3> QED
      BY <1>1, <2>2, <3>1, PP!NextHolds
  <2> QED
    BY <2>1, <2>3, <2>4 DEF DataNext
<1>4. PageHolds => PageIsCurrent
  BY <1>1, SamePage, SamePaints, PP!InvIsSafe DEF PageHolds, PageIsCurrent
<1> QED
  BY <1>2, <1>3, <1>4, PTL DEF DataSpec

(* Whatever lookup is late, a request of the composition goes to public    *)
(* addresses only, as the settings say, and what was learned is not lost   *)
(* (cinebox-http and cinebox-doh).                                         *)
THEOREM RequestsOfTheAppAreRouted == DataSpec => []RequestIsRouted
<1>1. RP!NetAssumption
  BY RouteAssumed, SameRequest
<1>2. DataInit => RequestHolds
  BY <1>1, SameRequest, RP!InitHolds DEF DataInit, RequestHolds
<1>3. RequestHolds /\ [DataNext]_<<part, vars, shared, page, gridded, routed>> => RequestHolds'
  <2> SUFFICES ASSUME RequestHolds, [DataNext]_<<part, vars, shared, page, gridded, routed>>, part' = "net"
               PROVE  RP!NetInv'
    BY DEF RequestHolds
  <2>1. part = "net"
    BY DEF DataNext
  <2>2. RP!NetInv
    BY <2>1 DEF RequestHolds
  <2>3. CASE Route!NetNext
    BY <1>1, <2>2, <2>3, SameRequest, RP!NextHolds
  <2>4. CASE UNCHANGED <<part, vars, shared, page, gridded, routed>>
    <3>1. UNCHANGED RP!netVars
      BY <2>4 DEF routed, RP!netVars
    <3> QED
      BY <1>1, <2>2, <3>1, RP!NextHolds
  <2> QED
    BY <2>1, <2>3, <2>4 DEF DataNext
<1>4. RequestHolds => RequestIsRouted
  BY <1>1, SameRequest, RP!InvIsSafe DEF RequestHolds, RequestIsRouted
<1> QED
  BY <1>2, <1>3, <1>4, PTL DEF DataSpec

-----------------------------------------------------------------------------
(* The endless grids (screens/paged.rs).  A grid is the pages 1, 2, ... up  *)
(* to the one it asks for next, all from one source, and the page on its   *)
(* way is that next one.  The list may have moved by one since the page    *)
(* before, so an answer may begin with what the grid ends with.            *)

(* extend_unique, over as much as a page brings. *)
Added(items, item) == IF Grids!Contains(items, item) THEN items ELSE Append(items, item)

(* extend_unique, over as much as a page brings.                           *)
LEMMA ExtendIs ==
    ASSUME NEW items, NEW incoming, Len(incoming) \in {0, 1, 2}
    PROVE  LET one == Added(items, incoming[1])
           IN  Grids!ExtendUnique(items, incoming) =
                   IF Len(incoming) = 0 THEN items
                   ELSE IF Len(incoming) = 1 THEN one ELSE Added(one, incoming[2])
<1> DEFINE n == Len(incoming)
           one == Added(items, incoming[1])
           two == Added(one, incoming[2])
           Is(f) == f = [k \in 0..n |-> IF k = 0 THEN items ELSE Added(f[k - 1], incoming[k])]
           some == [k \in 0..n |-> IF k = 0 THEN items ELSE IF k = 1 THEN one ELSE two]
           upTo == CHOOSE f : Is(f)
<1>1. Grids!ExtendUnique(items, incoming) = upTo[n]
  BY DEF Grids!ExtendUnique, Added
<1> HIDE DEF n
<1>2. n \in {0, 1, 2} /\ \A k \in 0..n : k \in {0, 1, 2}
  <2>1. n \in {0, 1, 2}
    BY DEF n
  <2>2. \A k \in 0..n : k \in Nat /\ k <= n
    BY <2>1
  <2> QED
    BY <2>1, <2>2
<1>3. Is(some)
  <2>1. \A k \in 0..n : some[k] = IF k = 0 THEN items ELSE Added(some[k - 1], incoming[k])
    <3> SUFFICES ASSUME NEW k \in 0..n
                 PROVE  some[k] = IF k = 0 THEN items ELSE Added(some[k - 1], incoming[k])
      OBVIOUS
    <3>1. CASE k = 0
      BY <3>1
    <3>2. CASE k = 1
      <4>1. some[1] = one /\ some[0] = items
        BY <1>2, <3>2
      <4> QED
        BY <3>2, <4>1
    <3>3. CASE k = 2
      <4>1. some[2] = two /\ some[1] = one
        BY <1>2, <3>3
      <4> QED
        BY <3>3, <4>1
    <3> QED
      BY <1>2, <3>1, <3>2, <3>3
  <2> QED
    BY <2>1
<1>4. Is(upTo)
  BY <1>3
<1> HIDE DEF upTo, one, two
<1>5. \A k \in 0..n : upTo[k] = IF k = 0 THEN items ELSE Added(upTo[k - 1], incoming[k])
  BY <1>4
<1>6. 0 \in 0..n /\ (n # 0 => 1 \in 0..n) /\ (n = 2 => 2 \in 0..n)
  BY <1>2
<1>7. upTo[0] = items
  BY <1>5, <1>6
<1>8. n # 0 => upTo[1] = one
  <2>1. n # 0 => upTo[1] = Added(upTo[1 - 1], incoming[1])
    BY <1>5, <1>6
  <2> QED
    BY <1>7, <2>1 DEF one
<1>9. n = 2 => upTo[2] = two
  <2>1. n = 2 => upTo[2] = Added(upTo[2 - 1], incoming[2])
    BY <1>5, <1>6
  <2>2. 2 - 1 = 1
    OBVIOUS
  <2> QED
    BY <1>2, <1>8, <2>1, <2>2 DEF two
<1>10. n = 0 \/ n = 1 \/ n = 2
  BY <1>2
<1> QED
  BY <1>1, <1>7, <1>8, <1>9, <1>10 DEF one, two, n

-----------------------------------------------------------------------------
Sources == [of : Shelf, tab : Tab \cup {None}, lang : Language]

Items == [n : Nat, of : Sources]

PageStates ==
    {[st |-> "idle"]} \cup
    [st : {"pending"}, of : Sources, n : Nat \ {0}] \cup
    [st : {"ok"}, items : Seq(Items), n : Nat \ {0}] \cup
    [st : {"err"}]

GridStates ==
    [items : Seq(Items), next : Nat \ {0}, more : BOOLEAN, loading : BOOLEAN, page : PageStates]

(* The pages up to the nth, all of one source.                             *)
PagesTo(items, n, s) ==
    /\ items \in Seq(Items)
    /\ Grids!InOrder(items, (1..n) \ EmptyPage)
    /\ \A i \in DOMAIN items : items[i].of = s

(* A grid whose pages are all of one source.                               *)
GridOf(g, s) ==
    /\ g \in GridStates
    /\ PagesTo(g.items, g.next - 1, s)
    /\ g.loading => g.page.st # "idle"
    /\ g.page.st = "pending" => g.page.n = g.next /\ g.page.of = s
    /\ g.page.st = "ok" => /\ g.page.n = g.next
                           /\ g.page.items \in Grids!PageOf([n |-> g.next, of |-> s])

(* What TMDB answers: nothing, the page, or the page after one item more.  *)
LEMMA PageBrings ==
    ASSUME NEW n \in Nat \ {0}, NEW s \in Sources,
           NEW items \in Grids!PageOf([n |-> n, of |-> s])
    PROVE  /\ items \in Seq(Items)
           /\ \/ n \in EmptyPage /\ Len(items) = 0
              \/ n \notin EmptyPage /\ Len(items) = 1 /\ items[1] = [n |-> n, of |-> s]
              \/ /\ n \notin EmptyPage /\ n - 1 \in (1..(n - 1)) \ EmptyPage /\ Len(items) = 2
                 /\ items[1] = [n |-> n - 1, of |-> s] /\ items[2] = [n |-> n, of |-> s]
<1> DEFINE last0 == [n |-> n, of |-> s]
           first == [n |-> n - 1, of |-> s]
<1>1. last0 \in Items /\ last0.n = n /\ last0.of = s
  BY DEF Items
<1>2. n > 1 => first \in Items /\ n - 1 \in 1..(n - 1)
  BY DEF Items
<1>3. Grids!PageOf(last0) =
        IF n \in EmptyPage THEN {<< >>}
        ELSE {<<last0>>} \cup (IF n > 1 /\ n - 1 \notin EmptyPage THEN {<<first, last0>>} ELSE {})
  BY <1>1 DEF Grids!PageOf
<1> HIDE DEF last0, first
<1>4. CASE n \in EmptyPage
  <2>1. items = << >>
    BY <1>3, <1>4 DEF last0
  <2> QED
    BY <1>4, <2>1
<1>5. CASE n \notin EmptyPage /\ items = <<last0>>
  BY <1>1, <1>5 DEF last0
<1>6. CASE n \notin EmptyPage /\ n > 1 /\ n - 1 \notin EmptyPage /\ items = <<first, last0>>
  <2>1. items \in Seq(Items) /\ Len(items) = 2 /\ items[1] = first /\ items[2] = last0
    BY <1>1, <1>2, <1>6
  <2> QED
    BY <1>2, <1>6, <2>1 DEF first, last0
<1> QED
  BY <1>3, <1>4, <1>5, <1>6 DEF last0

(* One more of a page that is all of one source, and in its place.         *)
LEMMA OneMore ==
    ASSUME NEW items, NEW n \in Nat \ {0}, NEW s \in Sources, n \notin EmptyPage,
           PagesTo(items, n - 1, s)
    PROVE  PagesTo(Added(items, [n |-> n, of |-> s]), n, s)
<1> DEFINE item == [n |-> n, of |-> s]
           more == Append(items, item)
           len == Len(items)
<1>0. /\ items \in Seq(Items) /\ Grids!InOrder(items, (1..(n - 1)) \ EmptyPage)
      /\ \A i \in DOMAIN items : items[i].of = s
  BY DEF PagesTo
<1>1. item \in Items /\ item.n = n /\ item.of = s
  BY DEF Items
<1> HIDE DEF item
<1>2. /\ more \in Seq(Items) /\ Len(more) = len + 1 /\ len \in Nat /\ more[len + 1] = item
      /\ \A i \in 1..len : more[i] = items[i]
      /\ DOMAIN items = 1..len /\ DOMAIN more = 1..(len + 1)
  BY <1>0, <1>1
<1>3. \A i \in 1..len : items[i].n \in (1..(n - 1)) \ EmptyPage
  BY <1>0, <1>2 DEF Grids!InOrder
<1>4. ~Grids!Contains(items, item)
  BY <1>1, <1>2, <1>3 DEF Grids!Contains
<1> HIDE DEF more, len
<1>5. {more[i].n : i \in 1..(len + 1)} = {items[i].n : i \in 1..len} \cup {n}
  <2>1. \A i \in 1..(len + 1) : i \in 1..len \/ i = len + 1
    BY <1>2
  <2>2. \A i \in 1..len : i \in 1..(len + 1) /\ more[i].n = items[i].n
    BY <1>2
  <2>3. len + 1 \in 1..(len + 1) /\ more[len + 1].n = n
    BY <1>1, <1>2
  <2> QED
    BY <2>1, <2>2, <2>3
<1>6. (1..n) \ EmptyPage = ((1..(n - 1)) \ EmptyPage) \cup {n}
  <2>1. 1..n = (1..(n - 1)) \cup {n}
    OBVIOUS
  <2> QED
    BY <2>1
<1>7. \A i, j \in 1..(len + 1) : i < j => more[i].n < more[j].n
  <2> SUFFICES ASSUME NEW i \in 1..(len + 1), NEW j \in 1..(len + 1), i < j
               PROVE  more[i].n < more[j].n
    OBVIOUS
  <2>1. i \in 1..len /\ more[i].n = items[i].n /\ items[i].n \in 1..(n - 1)
    BY <1>2, <1>3
  <2>2. CASE j \in 1..len
    <3>1. more[j].n = items[j].n
      BY <1>2, <2>2
    <3> QED
      BY <1>0, <1>2, <2>1, <2>2, <3>1 DEF Grids!InOrder
  <2>3. CASE j = len + 1
    BY <1>1, <1>2, <2>1, <2>3
  <2> QED
    BY <1>2, <2>2, <2>3
<1>8. Grids!InOrder(more, (1..n) \ EmptyPage)
  BY <1>0, <1>2, <1>5, <1>6, <1>7 DEF Grids!InOrder
<1>9. \A i \in DOMAIN more : more[i].of = s
  BY <1>0, <1>1, <1>2
<1>10. Added(items, item) = more
  BY <1>4 DEF Added, more
<1> QED
  BY <1>2, <1>8, <1>9, <1>10 DEF item, PagesTo

(* extend_unique: of what a page brings, what is new is its own.           *)
LEMMA ExtendKeeps ==
    ASSUME NEW items, NEW n \in Nat \ {0}, NEW s \in Sources, PagesTo(items, n - 1, s),
           NEW incoming \in Grids!PageOf([n |-> n, of |-> s])
    PROVE  PagesTo(Grids!ExtendUnique(items, incoming), n, s)
<1> DEFINE more == Grids!ExtendUnique(items, incoming)
<1>1. Len(incoming) \in {0, 1, 2}
  BY PageBrings
<1>2. CASE n \in EmptyPage
  <2>1. Len(incoming) = 0
    BY <1>2, PageBrings
  <2>2. more = items
    BY <1>1, <2>1, ExtendIs
  <2>3. (1..n) \ EmptyPage = (1..(n - 1)) \ EmptyPage
    <3>1. 1..n = (1..(n - 1)) \cup {n}
      OBVIOUS
    <3> QED
      BY <1>2, <3>1
  <2> QED
    BY <2>2, <2>3 DEF PagesTo
<1> DEFINE item == [n |-> n, of |-> s]
           before1 == [n |-> n - 1, of |-> s]
<1>3. \/ n \in EmptyPage /\ Len(incoming) = 0
      \/ n \notin EmptyPage /\ Len(incoming) = 1 /\ incoming[1] = item
      \/ /\ n \notin EmptyPage /\ n - 1 \in (1..(n - 1)) \ EmptyPage /\ Len(incoming) = 2
         /\ incoming[1] = before1 /\ incoming[2] = item
  BY PageBrings
<1>4. /\ Len(incoming) = 1 => more = Added(items, incoming[1])
      /\ Len(incoming) = 2 => more = Added(Added(items, incoming[1]), incoming[2])
  BY <1>1, ExtendIs
<1> HIDE DEF more, item, before1
<1>5. n \notin EmptyPage => PagesTo(Added(items, item), n, s)
  BY OneMore DEF item
<1>6. CASE n \notin EmptyPage /\ Len(incoming) = 1
  <2>1. more = Added(items, item)
    BY <1>6, <1>3, <1>4
  <2> QED
    BY <1>6, <1>5, <2>1 DEF more
<1>7. CASE n \notin EmptyPage /\ Len(incoming) = 2
  <2>1. incoming[1] = before1 /\ incoming[2] = item /\ n - 1 \in (1..(n - 1)) \ EmptyPage
    BY <1>7, <1>3
  <2>2. PICK i \in DOMAIN items : items[i].n = n - 1
    BY <2>1 DEF PagesTo, Grids!InOrder
  <2>3. items[i] = before1
    <3>1. items[i] \in Items /\ items[i].of = s
      BY <2>2 DEF PagesTo
    <3> QED
      BY <2>2, <3>1 DEF Items, before1
  <2>4. Added(items, before1) = items
    <3>1. DOMAIN items = 1..Len(items)
      BY DEF PagesTo
    <3> QED
      BY <2>2, <2>3, <3>1 DEF Added, Grids!Contains
  <2>5. more = Added(items, item)
    BY <1>7, <1>4, <2>1, <2>4
  <2> QED
    BY <1>7, <1>5, <2>5 DEF more
<1>8. n \in EmptyPage \/ Len(incoming) = 1 \/ Len(incoming) = 2
  BY PageBrings
<1> QED
  BY <1>2, <1>6, <1>7, <1>8

(* A grid without items has the pages before the first.                    *)
LEMMA NoPages == \A s : PagesTo(<< >>, 1 - 1, s)
<1>1. DOMAIN << >> = {} /\ 1..(1 - 1) = {} /\ << >> \in Seq(Items)
  OBVIOUS
<1> QED
  BY <1>1 DEF PagesTo, Grids!InOrder

(* A grid that starts over.                                                *)
LEMMA DefaultIs ==
    ASSUME NEW s \in Sources
    PROVE  GridOf(Grids!Default, s) /\ Grids!Default.page.st = "idle"
<1> DEFINE g == Grids!Default
<1>1. g = [items |-> << >>, next |-> 1, more |-> TRUE, loading |-> FALSE, page |-> [st |-> "idle"]]
  BY DEF Grids!Default, Grids!Idle
<1>2. g \in GridStates
  BY <1>1 DEF GridStates, PageStates
<1>3. g.items = << >> /\ g.next = 1 /\ g.page.st = "idle" /\ ~g.loading
  BY <1>1
<1> HIDE DEF g
<1>4. PagesTo(g.items, g.next - 1, s)
  BY <1>3, NoPages
<1> QED
  BY <1>2, <1>3, <1>4 DEF GridOf, g

(* seeded: an empty grid, or the first page of its list.                   *)
LEMMA SeededIs ==
    ASSUME NEW s \in Sources, NEW remote \in BOOLEAN, NEW items,
           items = << >> \/ (items = <<[n |-> 1, of |-> s]>> /\ 1 \notin EmptyPage)
    PROVE  LET g == Grids!Seeded(items, remote)
           IN  GridOf(g, s) /\ g.page.st = "idle" /\ g.more = remote
<1> DEFINE g == Grids!Seeded(items, remote)
           next == IF items = << >> THEN 1 ELSE 2
<1>1. g = [Grids!Default EXCEPT !.items = items, !.next = next, !.more = remote]
  BY DEF Grids!Seeded
<1>2. next \in Nat \ {0} /\ PagesTo(items, next - 1, s)
  <2>1. CASE items = << >>
    BY <2>1, NoPages
  <2>2. CASE items = <<[n |-> 1, of |-> s]>> /\ 1 \notin EmptyPage
    <3> DEFINE item == [n |-> 1, of |-> s]
    <3>1. item \in Items /\ item.n = 1 /\ item.of = s
      BY DEF Items
    <3> HIDE DEF item
    <3>2. /\ <<item>> \in Seq(Items) /\ DOMAIN <<item>> = {1} /\ <<item>>[1] = item
          /\ <<item>> # << >>
      BY <3>1
    <3>3. (1..1) \ EmptyPage = {1}
      BY <2>2
    <3>4. PagesTo(<<item>>, 1, s)
      BY <3>1, <3>2, <3>3 DEF PagesTo, Grids!InOrder
    <3>5. items = <<item>> /\ next = 2 /\ 2 - 1 = 1
      BY <2>2, <3>2 DEF item
    <3> QED
      BY <3>4, <3>5
  <2> QED
    BY <2>1, <2>2
<1>3. /\ Grids!Default \in GridStates /\ Grids!Default.page.st = "idle"
      /\ ~Grids!Default.loading
  <2>1. ~Grids!Default.loading
    BY DEF Grids!Default
  <2> QED
    BY <2>1, DefaultIs DEF GridOf
<1> HIDE DEF next
<1>4. /\ g \in GridStates /\ g.items = items /\ g.next = next /\ g.page.st = "idle"
      /\ ~g.loading /\ g.more = remote
  BY <1>1, <1>2, <1>3 DEF GridStates, PagesTo
<1> HIDE DEF g
<1> QED
  BY <1>2, <1>4 DEF GridOf, g

(* No request runs.                                                        *)
LEMMA IdleIs == Grids!Idle \in PageStates /\ Grids!Idle.st = "idle"
BY DEF Grids!Idle, PageStates

(* retry: the items stay, the page is asked for again.                     *)
LEMMA RetriedIs ==
    ASSUME NEW g, NEW s \in Sources, GridOf(g, s)
    PROVE  GridOf(Grids!Retried(g), s) /\ Grids!Retried(g).items = g.items
<1> DEFINE r == Grids!Retried(g)
<1>1. g \in GridStates
  BY DEF GridOf
<1>2. r = [g EXCEPT !.page = Grids!Idle, !.loading = FALSE]
  BY DEF Grids!Retried
<1>3. /\ r \in GridStates /\ r.items = g.items /\ r.next = g.next /\ r.page = Grids!Idle
      /\ ~r.loading
  BY <1>1, <1>2, IdleIs DEF GridStates
<1> HIDE DEF r
<1> QED
  BY <1>3, IdleIs DEF GridOf, r

(* request: the page that is asked for is the next one.                    *)
LEMMA RequestedIs ==
    ASSUME NEW g, NEW s \in Sources, GridOf(g, s)
    PROVE  GridOf(Grids!Requested(g, s), s)
<1> DEFINE page1 == IF g.page.st = "idle" THEN [st |-> "pending", of |-> s, n |-> g.next] ELSE g.page
           r == [g EXCEPT !.loading = TRUE, !.page = page1]
<1>1. g \in GridStates
  BY DEF GridOf
<1>2. Grids!Requested(g, s) = g \/ Grids!Requested(g, s) = r
  BY <1>1 DEF Grids!Requested, GridStates
<1>3. g.next \in Nat \ {0} /\ g.page \in PageStates
  BY <1>1 DEF GridStates
<1>4. /\ page1 \in PageStates /\ page1.st # "idle"
      /\ page1.st = "pending" => page1.n = g.next /\ page1.of = s
      /\ page1.st = "ok" => page1 = g.page
  <2>1. CASE g.page.st = "idle"
    BY <1>3, <2>1 DEF PageStates
  <2>2. CASE g.page.st # "idle"
    BY <1>3, <2>2 DEF GridOf
  <2> QED
    BY <2>1, <2>2
<1> HIDE DEF page1
<1>5. r \in GridStates /\ r.items = g.items /\ r.next = g.next /\ r.page = page1
  BY <1>1, <1>4 DEF GridStates
<1> HIDE DEF r
<1>6. GridOf(r, s)
  BY <1>4, <1>5 DEF GridOf
<1> QED
  BY <1>2, <1>6

(* take_page: the page that arrived is the next one, and is appended.      *)
LEMMA TakenIs ==
    ASSUME NEW g, NEW s \in Sources, GridOf(g, s)
    PROVE  GridOf(Grids!TakePage(g), s)
<1>1. g \in GridStates /\ g.next \in Nat \ {0} /\ g.items \in Seq(Items) /\ g.page \in PageStates
  BY DEF GridOf, GridStates
<1>2. CASE g.page.st = "err"
  <2> DEFINE r == [g EXCEPT !.loading = FALSE]
  <2>1. Grids!TakePage(g) = r
    BY <1>2 DEF Grids!TakePage
  <2>2. r \in GridStates /\ r.items = g.items /\ r.next = g.next /\ r.page = g.page /\ ~r.loading
    BY <1>1 DEF GridStates
  <2> HIDE DEF r
  <2> QED
    BY <1>2, <2>1, <2>2 DEF GridOf
<1>3. CASE g.page.st = "ok"
  <2> DEFINE incoming == g.page.items
             items == Grids!ExtendUnique(g.items, incoming)
             next == (IF g.page.n > g.next THEN g.page.n ELSE g.next) + 1
             more == g.page.n < Total
             r == [g EXCEPT !.items = items, !.next = next, !.more = more,
                            !.page = Grids!Idle, !.loading = FALSE]
  <2>1. Grids!TakePage(g) = r
    BY <1>1, <1>3 DEF Grids!TakePage, Grids!Applied, GridStates
  <2>2. g.page.n = g.next /\ incoming \in Grids!PageOf([n |-> g.next, of |-> s])
    BY <1>3 DEF GridOf
  <2>3. next = g.next + 1
    BY <1>1, <2>2
  <2>4. PagesTo(items, g.next, s)
    <3>1. PagesTo(g.items, g.next - 1, s)
      BY DEF GridOf
    <3> QED
      BY <1>1, <2>2, <3>1, ExtendKeeps
  <2>5. more \in BOOLEAN
    OBVIOUS
  <2> HIDE DEF items, next, more
  <2>8. next \in Nat \ {0} /\ next - 1 = g.next
    BY <1>1, <2>3
  <2>6. /\ r \in GridStates /\ r.items = items /\ r.next = next
        /\ r.page.st = "idle" /\ ~r.loading
    BY <1>1, <2>4, <2>5, <2>8, IdleIs DEF GridStates, PagesTo
  <2> HIDE DEF r
  <2> QED
    BY <2>1, <2>4, <2>6, <2>8 DEF GridOf
<1>4. CASE g.page.st # "err" /\ g.page.st # "ok"
  BY <1>4 DEF Grids!TakePage
<1> QED
  BY <1>2, <1>3, <1>4

(* What the answer of TMDB makes of the page a grid waits for.             *)
LEMMA AnsweredIs ==
    ASSUME NEW g, NEW s \in Sources, GridOf(g, s), g.page.st = "pending", NEW answer,
           \/ answer = [st |-> "err"]
           \/ \E items \in Grids!PageOf(g.page) : answer = [st |-> "ok", items |-> items, n |-> g.page.n]
    PROVE  GridOf([g EXCEPT !.page = answer], s)
<1> DEFINE r == [g EXCEPT !.page = answer]
<1>1. g \in GridStates /\ g.page \in PageStates /\ g.next \in Nat \ {0}
  BY DEF GridOf, GridStates
<1>2. g.page.n = g.next /\ g.page.of = s
  BY DEF GridOf
<1>3. Grids!PageOf(g.page) = Grids!PageOf([n |-> g.next, of |-> s])
  BY <1>2 DEF Grids!PageOf
<1>4. /\ answer \in PageStates /\ answer.st \in {"ok", "err"}
      /\ answer.st = "ok" => /\ answer.n = g.next
                             /\ answer.items \in Grids!PageOf([n |-> g.next, of |-> s])
  <2>1. CASE answer = [st |-> "err"]
    BY <2>1 DEF PageStates
  <2>2. ASSUME NEW items \in Grids!PageOf(g.page), answer = [st |-> "ok", items |-> items, n |-> g.page.n]
        PROVE  answer \in PageStates /\ answer.st = "ok" /\ answer.n = g.next /\ answer.items = items
    <3>1. items \in Seq(Items)
      BY <1>1, <1>3, PageBrings
    <3> QED
      BY <1>1, <1>2, <2>2, <3>1 DEF PageStates
  <2> QED
    BY <1>3, <2>1, <2>2
<1>5. r \in GridStates /\ r.items = g.items /\ r.next = g.next /\ r.page = answer /\ r.loading = g.loading
  BY <1>1, <1>4 DEF GridStates
<1> HIDE DEF r
<1> QED
  BY <1>4, <1>5 DEF GridOf, r

(* Where the pages of a tab are from.                                      *)
IsHere(t, s) ==
    Grids!IsRemote(list) /\ Grids!Usable(last) => s = [of |-> list, tab |-> t, lang |-> last.lang]

GridsInv ==
    /\ set \in Grids!Settings /\ last \in Grids!Settings
    /\ list \in Shelf /\ tab \in Grids!Tabs
    /\ grid \in [Grids!Tabs -> GridStates]
    /\ Grids!Usable(last) => seen \in {None, last.lang}
    /\ \A t \in Grids!Tabs : \E s \in Sources : GridOf(grid[t], s) /\ IsHere(t, s)
    /\ ~Grids!IsRemote(list) => \A t \in Grids!Tabs : grid[t].page.st = "idle" /\ ~grid[t].more

(* What a screen asks for is a source.                                     *)
LEMMA SourceIs ==
    ASSUME set \in Grids!Settings, NEW l \in Shelf, NEW t \in Grids!Tabs
    PROVE  [of |-> l, tab |-> t, lang |-> set.lang] \in Sources
BY DEF Grids!Settings, Grids!Tabs, Sources

(* A change of the settings that forgets nothing, to a key that is right.  *)
LEMMA NothingForgets ==
    ASSUME NEW old \in Grids!Settings, NEW new \in Grids!Settings, Grids!Usable(new),
           ~Grids!Forgets(Grids!ChangeFrom(old, new))
    PROVE  Grids!Usable(old) /\ new.lang = old.lang
<1> DEFINE cleared == new.key = NoKey /\ old.key # NoKey
           fetched == new.key # old.key \/ new.net # old.net
<1>1. Grids!ChangeFrom(old, new) \in {"key cleared", "catalog"} \/ (~cleared /\ ~fetched)
  BY DEF Grids!ChangeFrom
<1>2. ~cleared /\ ~fetched
  BY <1>1 DEF Grids!Forgets
<1>3. Grids!ChangeFrom(old, new) = IF new.lang # old.lang THEN "language" ELSE "none"
  BY <1>2 DEF Grids!ChangeFrom
<1> QED
  BY <1>2, <1>3 DEF Grids!Forgets, Grids!Usable

(* A screen opens with empty grids.                                        *)
LEMMA GridsStart == Grids!Init => GridsInv
<1> SUFFICES ASSUME Grids!Init PROVE GridsInv
  OBVIOUS
<1>1. set \in Grids!Settings /\ last = set /\ list \in Shelf /\ tab \in Grids!Tabs /\ seen = None
  BY DEF Grids!Init, Grids!SettingsInit
<1> DEFINE remote == Grids!IsRemote(list)
           empty0 == Grids!Seeded(<< >>, remote)
<1>2. grid = [t \in Grids!Tabs |-> empty0]
  BY DEF Grids!Init
<1>3. remote \in BOOLEAN
  BY DEF Grids!IsRemote
<1> HIDE DEF remote
<1>4. \A s \in Sources : GridOf(empty0, s) /\ empty0.page.st = "idle" /\ empty0.more = remote
  BY <1>3, SeededIs
<1> HIDE DEF empty0
<1>5. ASSUME NEW t \in Grids!Tabs
      PROVE  /\ grid[t] = empty0
             /\ \E s \in Sources : GridOf(grid[t], s) /\ IsHere(t, s)
             /\ empty0.page.st = "idle" /\ empty0.more = remote /\ empty0 \in GridStates
  <2> DEFINE s == [of |-> list, tab |-> t, lang |-> set.lang]
  <2>1. s \in Sources
    BY <1>1, SourceIs
  <2>2. IsHere(t, s)
    BY <1>1 DEF IsHere
  <2> HIDE DEF s
  <2>3. grid[t] = empty0
    BY <1>2
  <2>4. GridOf(grid[t], s) /\ empty0.page.st = "idle" /\ empty0.more = remote /\ empty0 \in GridStates
    BY <1>4, <2>1, <2>3 DEF GridOf
  <2> QED
    BY <2>1, <2>2, <2>3, <2>4
<1>6. grid \in [Grids!Tabs -> GridStates]
  BY <1>2, <1>5
<1> QED
  BY <1>1, <1>5, <1>6 DEF GridsInv, remote

(* Nothing but the settings moves.                                         *)
LEMMA EditKeeps ==
    ASSUME GridsInv, Grids!Edit, UNCHANGED Grids!grids
    PROVE  GridsInv'
<1>1. set' \in Grids!Settings /\ last' = last
  BY DEF GridsInv, Grids!Edit, Grids!Settings
<1>2. UNCHANGED <<kind, list, tab, grid, seen>>
  BY DEF Grids!grids
<1>3. Grids!Tabs' = Grids!Tabs /\ Grids!IsRemote(list)' = Grids!IsRemote(list)
  BY <1>2 DEF Grids!Tabs, Grids!IsRemote
<1>4. \A t, s : IsHere(t, s)' <=> IsHere(t, s)
  BY <1>1, <1>2, <1>3 DEF IsHere
<1> QED
  BY <1>1, <1>2, <1>3, <1>4 DEF GridsInv

(* sync_tmdb: what is left is of the settings there are now.               *)
LEMMA SyncKeeps ==
    ASSUME GridsInv, Grids!Sync
    PROVE  GridsInv'
<1>1. last' = set /\ set' = set /\ set \in Grids!Settings /\ last \in Grids!Settings
  BY DEF GridsInv, Grids!Sync, Grids!Compare
<1>2. UNCHANGED <<kind, list, tab>>
  BY DEF Grids!Sync
<1>3. Grids!Tabs' = Grids!Tabs /\ (Grids!IsRemote(list)' <=> Grids!IsRemote(list))
  BY <1>2 DEF Grids!Tabs, Grids!IsRemote
<1>4. CASE Grids!Forgets(Grids!ChangeFrom(last, set)) /\ Grids!IsRemote(list)
  <2>1. grid' = [t \in Grids!Tabs |-> Grids!Default] /\ seen' = None
    BY <1>4 DEF Grids!Sync, Grids!Cleared
  <2>2. ASSUME NEW t \in Grids!Tabs
        PROVE  /\ grid'[t] = Grids!Default /\ Grids!Default \in GridStates
               /\ GridOf(grid'[t], [of |-> list, tab |-> t, lang |-> set.lang])
               /\ [of |-> list, tab |-> t, lang |-> set.lang] \in Sources
    <3> DEFINE s == [of |-> list, tab |-> t, lang |-> set.lang]
    <3>1. s \in Sources
      BY <1>1, SourceIs DEF GridsInv
    <3> HIDE DEF s
    <3>2. GridOf(Grids!Default, s) /\ Grids!Default \in GridStates
      BY <3>1, DefaultIs DEF GridOf
    <3> QED
      BY <2>1, <3>1, <3>2 DEF s
  <2>3. grid' \in [Grids!Tabs -> GridStates]
    BY <2>1, <2>2
  <2>4. \A t \in Grids!Tabs : \E s \in Sources : GridOf(grid'[t], s) /\ IsHere(t, s)'
    BY <1>1, <1>2, <2>2 DEF IsHere
  <2>5. seen' \in {None, last'.lang} /\ Grids!IsRemote(list)'
    BY <1>3, <1>4, <2>1
  <2>6. set' \in Grids!Settings /\ last' \in Grids!Settings /\ list' \in Shelf /\ tab' \in Grids!Tabs
    BY <1>1, <1>2 DEF GridsInv
  <2> QED
    BY <1>3, <2>3, <2>4, <2>5, <2>6 DEF GridsInv
<1>5. CASE Grids!Forgets(Grids!ChangeFrom(last, set)) /\ ~Grids!IsRemote(list)
  <2>1. grid' = grid /\ seen' = None
    BY <1>5 DEF Grids!Sync
  <2>2. \A t, s : IsHere(t, s)'
    BY <1>3, <1>5 DEF IsHere
  <2> QED
    BY <1>1, <1>2, <1>3, <2>1, <2>2 DEF GridsInv
<1>6. CASE ~Grids!Forgets(Grids!ChangeFrom(last, set))
  <2>1. grid' = grid /\ seen' = seen
    BY <1>6 DEF Grids!Sync
  <2>2. Grids!Usable(set) => Grids!Usable(last) /\ set.lang = last.lang
    BY <1>1, <1>6, NothingForgets
  <2>3. Grids!Usable(last)' <=> Grids!Usable(set)
    BY <1>1 DEF Grids!Usable
  <2>4. \A t, s : IsHere(t, s) => IsHere(t, s)'
    BY <1>1, <1>2, <1>3, <2>2, <2>3 DEF IsHere
  <2> QED
    BY <1>1, <1>2, <1>3, <2>1, <2>2, <2>3, <2>4 DEF GridsInv
<1> QED
  BY <1>4, <1>5, <1>6

(* No language but that of the settings was seen: a frame keeps its grids. *)
LEMMA FollowedIs ==
    ASSUME GridsInv, set = last, Grids!IsRemote(list) => Grids!Usable(set)
    PROVE  Grids!Followed = grid
BY DEF GridsInv, Grids!Followed, Grids!Switched

(* A frame that draws a grid and asks for the page it wants.               *)
LEMMA DrawKeeps ==
    ASSUME GridsInv, NEW nearEnd, NEW retry, Grids!DrawAt(nearEnd, retry)
    PROVE  GridsInv'
<1> DEFINE old == grid[tab]
           g == Grids!TakePage(old)
           source == Grids!Source
<1>1. /\ set = last /\ (Grids!IsRemote(list) => Grids!Usable(set)) /\ seen' = set.lang
      /\ UNCHANGED <<set, last, kind, list, tab>>
  BY DEF Grids!DrawAt, Grids!Painted, Grids!settings
<1>2. Grids!Followed = grid
  BY <1>1, FollowedIs
<1> DEFINE new == CASE retry -> Grids!Retried(g)
                    [] ~retry /\ Grids!Wanted(g, nearEnd) -> Grids!Requested(g, source)
                    [] OTHER -> g
<1>3. grid' = [grid EXCEPT ![tab] = new] /\ (retry => Grids!HasError(g))
  BY <1>2 DEF Grids!DrawAt
<1>4. new = g \/ (retry /\ new = Grids!Retried(g))
      \/ (Grids!Wanted(g, nearEnd) /\ new = Grids!Requested(g, source))
  OBVIOUS
<1>5. tab \in Grids!Tabs /\ grid \in [Grids!Tabs -> GridStates] /\ set \in Grids!Settings
  BY <1>1 DEF GridsInv
<1>6. PICK s \in Sources : GridOf(old, s) /\ IsHere(tab, s)
  BY <1>5 DEF GridsInv
<1> HIDE DEF new, g, old
<1>7. GridOf(g, s)
  BY <1>6, TakenIs DEF g
<1>8. CASE Grids!IsRemote(list)
  <2>1. s = source
    BY <1>1, <1>6, <1>8 DEF IsHere, Grids!Source
  <2>2. GridOf(new, s)
    <3>1. GridOf(Grids!Retried(g), s) /\ GridOf(Grids!Requested(g, s), s)
      BY <1>7, RetriedIs, RequestedIs
    <3> QED
      BY <1>4, <1>7, <2>1, <3>1
  <2>3. grid' \in [Grids!Tabs -> GridStates]
    <3>1. new \in GridStates
      BY <2>2 DEF GridOf
    <3> QED
      BY <1>3, <1>5, <3>1
  <2>4. Grids!Tabs' = Grids!Tabs /\ (Grids!IsRemote(list)' <=> Grids!IsRemote(list))
        /\ (Grids!Usable(last)' <=> Grids!Usable(last))
    BY <1>1 DEF Grids!Tabs, Grids!IsRemote, Grids!Usable
  <2>5. \A t, x : IsHere(t, x)' <=> IsHere(t, x)
    BY <1>1, <2>4 DEF IsHere
  <2>6. \A t \in Grids!Tabs : \E x \in Sources : GridOf(grid'[t], x) /\ IsHere(t, x)
    <3> SUFFICES ASSUME NEW t \in Grids!Tabs
                 PROVE  \E x \in Sources : GridOf(grid'[t], x) /\ IsHere(t, x)
      OBVIOUS
    <3>1. CASE t = tab
      <4>1. grid'[t] = new
        BY <1>3, <1>5, <3>1
      <4> QED
        BY <1>6, <2>2, <3>1, <4>1
    <3>2. CASE t # tab
      <4>1. grid'[t] = grid[t]
        BY <1>3, <1>5, <3>2
      <4> QED
        BY <4>1 DEF GridsInv
    <3> QED
      BY <3>1, <3>2
  <2> QED
    BY <1>1, <1>8, <2>3, <2>4, <2>5, <2>6 DEF GridsInv
<1>9. CASE ~Grids!IsRemote(list)
  <2>1. old.page.st = "idle" /\ ~old.more
    BY <1>5, <1>9 DEF GridsInv, old
  <2>2. g = old
    BY <2>1 DEF g, Grids!TakePage
  <2>3. ~retry /\ ~Grids!Wanted(g, nearEnd)
    BY <1>3, <2>1, <2>2 DEF Grids!HasError, Grids!Wanted
  <2>4. new = old
    BY <1>4, <2>2, <2>3
  <2>5. grid' = grid
    BY <1>3, <1>5, <2>4 DEF old
  <2>6. Grids!Tabs' = Grids!Tabs /\ (Grids!IsRemote(list)' <=> Grids!IsRemote(list))
        /\ (Grids!Usable(last)' <=> Grids!Usable(last))
    BY <1>1 DEF Grids!Tabs, Grids!IsRemote, Grids!Usable
  <2>7. \A t, x : IsHere(t, x)'
    BY <1>9, <2>6 DEF IsHere
  <2> QED
    BY <1>1, <2>5, <2>6, <2>7 DEF GridsInv
<1> QED
  BY <1>8, <1>9

(* The grids start over, with pages of what the screen is about now.       *)
LEMMA StartsOver ==
    ASSUME set' \in Grids!Settings, last' \in Grids!Settings, list' \in Shelf,
           kind' = kind, tab' \in Grids!Tabs, Grids!Usable(last)' => seen' \in {None, last'.lang},
           grid' = [t \in Grids!Tabs |-> grid'[t]],
           \A t \in Grids!Tabs :
               /\ [of |-> list', tab |-> t, lang |-> last'.lang] \in Sources
               /\ GridOf(grid'[t], [of |-> list', tab |-> t, lang |-> last'.lang])
               /\ ~Grids!IsRemote(list)' => grid'[t].page.st = "idle" /\ ~grid'[t].more
    PROVE  GridsInv'
<1>1. Grids!Tabs' = Grids!Tabs
  BY DEF Grids!Tabs
<1>2. grid' \in [Grids!Tabs -> GridStates]
  BY DEF GridOf
<1>3. \A t \in Grids!Tabs : \E s \in Sources : GridOf(grid'[t], s) /\ IsHere(t, s)'
  BY DEF IsHere
<1> QED
  BY <1>1, <1>2, <1>3 DEF GridsInv

(* A screen is opened: its grids start over, a shelf from its first page.  *)
LEMMA OpenKeeps ==
    ASSUME GridsInv, NEW l \in Shelf, Grids!Open(l)
    PROVE  GridsInv'
<1>1. /\ set = last /\ (Grids!IsRemote(l) => Grids!Usable(set)) /\ list' = l
      /\ UNCHANGED <<set, last, kind, seen>>
  BY DEF Grids!Open, Grids!Painted, Grids!settings
<1>2. /\ set \in Grids!Settings /\ tab \in Grids!Tabs /\ (Grids!Usable(last) => seen \in {None, last.lang})
      /\ grid \in [Grids!Tabs -> GridStates]
  BY DEF GridsInv
<1>3. Grids!IsRemote(list)' <=> Grids!IsRemote(l)
  BY <1>1 DEF Grids!IsRemote
<1>4. \A t \in Grids!Tabs : [of |-> l, tab |-> t, lang |-> set.lang] \in Sources
  BY <1>2, SourceIs
<1>5. CASE kind = "category"
  <2> DEFINE here == [of |-> l, tab |-> None, lang |-> set.lang]
             remote == Grids!IsRemote(l)
  <2>1. Grids!Tabs = {None} /\ here \in Sources
    BY <1>4, <1>5 DEF Grids!Tabs
  <2>2. PICK items \in {<< >>} \cup {Grids!FirstPage(l) : n \in {1} \ EmptyPage} :
            grid' = [grid EXCEPT ![None] = Grids!Seeded(items, remote)] /\ tab' = tab
    BY <1>5 DEF Grids!Open
  <2>3. items = << >> \/ (items = <<[n |-> 1, of |-> here]>> /\ 1 \notin EmptyPage)
    BY <2>2 DEF Grids!FirstPage
  <2>4. remote \in BOOLEAN
    BY DEF Grids!IsRemote
  <2> HIDE DEF here, remote
  <2> DEFINE g == Grids!Seeded(items, remote)
  <2>5. GridOf(g, here) /\ g.page.st = "idle" /\ g.more = remote
    BY <2>1, <2>3, <2>4, SeededIs
  <2> HIDE DEF g
  <2>6. grid' = [t \in Grids!Tabs |-> grid'[t]] /\ grid'[None] = g
    BY <1>2, <2>1, <2>2 DEF g
  <2>7. \A t \in Grids!Tabs :
               /\ [of |-> list', tab |-> t, lang |-> last'.lang] \in Sources
               /\ GridOf(grid'[t], [of |-> list', tab |-> t, lang |-> last'.lang])
               /\ ~Grids!IsRemote(list)' => grid'[t].page.st = "idle" /\ ~grid'[t].more
    BY <1>1, <1>3, <2>1, <2>5, <2>6 DEF here, remote
  <2>8. tab' \in Grids!Tabs /\ (Grids!Usable(last)' => seen' \in {None, last'.lang})
    BY <1>1, <1>2, <2>2 DEF Grids!Usable
  <2> QED
    BY <1>1, <1>2, <2>6, <2>7, <2>8, StartsOver
<1>6. CASE kind # "category"
  <2>1. tab' \in Grids!Tabs /\ grid' = [t \in Grids!Tabs |-> Grids!Default]
    <3>1. CASE kind = "discover" /\ grid' = [grid EXCEPT ![None] = Grids!Default] /\ tab' = tab
      <4>1. Grids!Tabs = {None}
        BY <3>1 DEF Grids!Tabs
      <4> QED
        BY <1>2, <3>1, <4>1
    <3>2. CASE kind = "search" /\ grid' = [t \in Grids!Tabs |-> Grids!Default]
             /\ tab' = CHOOSE t \in Grids!Tabs : TRUE
      BY <1>2, <3>2
    <3> QED
      BY <1>6, <3>1, <3>2 DEF Grids!Open, Grids!Cleared
  <2>2. Grids!IsRemote(list)'
    BY <1>3, <1>6 DEF Grids!IsRemote
  <2>3. ASSUME NEW t \in Grids!Tabs
        PROVE  /\ [of |-> list', tab |-> t, lang |-> last'.lang] \in Sources
               /\ GridOf(grid'[t], [of |-> list', tab |-> t, lang |-> last'.lang])
    <3> DEFINE s == [of |-> l, tab |-> t, lang |-> set.lang]
    <3>1. s = [of |-> list', tab |-> t, lang |-> last'.lang]
      BY <1>1
    <3>2. s \in Sources
      BY <1>4
    <3> HIDE DEF s
    <3>3. GridOf(Grids!Default, s)
      BY <3>2, DefaultIs
    <3>4. grid'[t] = Grids!Default
      BY <2>1
    <3> QED
      BY <3>1, <3>2, <3>3, <3>4
  <2>4. Grids!Usable(last)' => seen' \in {None, last'.lang}
    BY <1>1, <1>2 DEF Grids!Usable
  <2>5. grid' = [t \in Grids!Tabs |-> grid'[t]]
    BY <2>1
  <2> QED
    BY <1>1, <1>2, <2>1, <2>2, <2>3, <2>4, <2>5, StartsOver
<1> QED
  BY <1>5, <1>6

(* The filters change: the grid starts over for the new ones.              *)
LEMMA FilterKeeps ==
    ASSUME GridsInv, NEW l \in Shelf, Grids!Filter(l)
    PROVE  GridsInv'
<1>1. /\ set = last /\ kind = "discover" /\ list' = l /\ seen' = set.lang
      /\ grid' = [grid EXCEPT ![None] = Grids!Default]
      /\ UNCHANGED <<set, last, kind, tab>>
  BY DEF Grids!Filter, Grids!Cleared, Grids!settings
<1>2. set \in Grids!Settings /\ tab \in Grids!Tabs /\ grid \in [Grids!Tabs -> GridStates]
  BY DEF GridsInv
<1>3. Grids!Tabs = {None} /\ Grids!IsRemote(list)'
  BY <1>1 DEF Grids!Tabs, Grids!IsRemote
<1>4. grid' = [t \in Grids!Tabs |-> grid'[t]] /\ \A t \in Grids!Tabs : grid'[t] = Grids!Default
  BY <1>1, <1>2, <1>3
<1>5. ASSUME NEW t \in Grids!Tabs
      PROVE  /\ [of |-> list', tab |-> t, lang |-> last'.lang] \in Sources
             /\ GridOf(grid'[t], [of |-> list', tab |-> t, lang |-> last'.lang])
  <2> DEFINE s == [of |-> l, tab |-> t, lang |-> set.lang]
  <2>1. s = [of |-> list', tab |-> t, lang |-> last'.lang]
    BY <1>1
  <2>2. s \in Sources
    BY <1>2, SourceIs
  <2> HIDE DEF s
  <2>3. GridOf(Grids!Default, s)
    BY <2>2, DefaultIs
  <2> QED
    BY <1>4, <2>1, <2>2, <2>3
<1> QED
  BY <1>1, <1>2, <1>3, <1>4, <1>5, StartsOver

(* Another tab: each tab keeps its own grid.                               *)
LEMMA SwitchTabKeeps ==
    ASSUME GridsInv, NEW t \in Tab, Grids!SwitchTab(t)
    PROVE  GridsInv'
<1>1. kind = "search" /\ tab' = t /\ UNCHANGED <<set, last, kind, list, grid, seen>>
  BY DEF Grids!SwitchTab, Grids!settings
<1>2. Grids!Tabs' = Grids!Tabs /\ tab' \in Grids!Tabs /\ (Grids!IsRemote(list)' <=> Grids!IsRemote(list))
      /\ (Grids!Usable(last)' <=> Grids!Usable(last))
  BY <1>1 DEF Grids!Tabs, Grids!IsRemote, Grids!Usable
<1>3. \A u, s : IsHere(u, s)' <=> IsHere(u, s)
  BY <1>1, <1>2 DEF IsHere
<1> QED
  BY <1>1, <1>2, <1>3 DEF GridsInv

(* A page lands in the grid that waits for it.                             *)
LEMMA AnswerKeeps ==
    ASSUME GridsInv, NEW t \in Grids!Tabs, Grids!Answer(t)
    PROVE  GridsInv'
<1> DEFINE old == grid[t]
<1>1. old.page.st = "pending" /\ UNCHANGED <<set, last, kind, list, tab, seen>>
  BY DEF Grids!Answer, Grids!settings
<1>2. PICK answer : /\ grid' = [grid EXCEPT ![t] = [old EXCEPT !.page = answer]]
                    /\ \/ answer = [st |-> "err"]
                       \/ \E items \in Grids!PageOf(old.page) :
                              answer = [st |-> "ok", items |-> items, n |-> old.page.n]
  <2>1. CASE grid' = [grid EXCEPT ![t].page = [st |-> "err"]]
    BY <2>1
  <2>2. ASSUME NEW items \in Grids!PageOf(old.page),
               grid' = [grid EXCEPT ![t].page = [st |-> "ok", items |-> items, n |-> @.n]]
        PROVE  \E answer :
                  /\ grid' = [grid EXCEPT ![t] = [old EXCEPT !.page = answer]]
                  /\ \E x \in Grids!PageOf(old.page) : answer = [st |-> "ok", items |-> x, n |-> old.page.n]
    <3>1. grid' = [grid EXCEPT ![t] = [old EXCEPT !.page = [st |-> "ok", items |-> items, n |-> old.page.n]]]
      BY <2>2
    <3> QED
      BY <3>1
  <2> QED
    BY <2>1, <2>2 DEF Grids!Answer
<1>3. PICK s \in Sources : GridOf(old, s) /\ IsHere(t, s)
  BY DEF GridsInv
<1> DEFINE new == [old EXCEPT !.page = answer]
<1>4. GridOf(new, s)
  BY <1>1, <1>2, <1>3, AnsweredIs
<1> HIDE DEF new, old
<1>5. grid \in [Grids!Tabs -> GridStates]
  BY DEF GridsInv
<1>6. grid' \in [Grids!Tabs -> GridStates] /\ grid'[t] = new
      /\ \A u \in Grids!Tabs : u # t => grid'[u] = grid[u]
  <2>1. new \in GridStates
    BY <1>4 DEF GridOf
  <2>2. grid' = [grid EXCEPT ![t] = new]
    BY <1>2 DEF new
  <2> QED
    BY <1>5, <2>1, <2>2
<1>7. Grids!Tabs' = Grids!Tabs /\ (Grids!IsRemote(list)' <=> Grids!IsRemote(list))
      /\ (Grids!Usable(last)' <=> Grids!Usable(last))
  BY <1>1 DEF Grids!Tabs, Grids!IsRemote, Grids!Usable
<1>8. \A u, x : IsHere(u, x)' <=> IsHere(u, x)
  BY <1>1, <1>7 DEF IsHere
<1>9. \A u \in Grids!Tabs : \E x \in Sources : GridOf(grid'[u], x) /\ IsHere(u, x)
  <2> SUFFICES ASSUME NEW u \in Grids!Tabs
               PROVE  \E x \in Sources : GridOf(grid'[u], x) /\ IsHere(u, x)
    OBVIOUS
  <2>1. CASE u = t
    BY <1>3, <1>4, <1>6, <2>1
  <2>2. CASE u # t
    <3>1. grid'[u] = grid[u]
      BY <1>6, <2>2
    <3> QED
      BY <3>1 DEF GridsInv
  <2> QED
    BY <2>1, <2>2
<1>10. Grids!IsRemote(list)
  BY <1>1 DEF GridsInv, old
<1> QED
  BY <1>1, <1>6, <1>7, <1>8, <1>9, <1>10 DEF GridsInv

(* Every step of a grid and of the settings keeps the invariant.           *)
LEMMA GridsNext ==
    ASSUME GridsInv, Grids!Next
    PROVE  GridsInv'
<1>1. CASE Grids!Edit /\ UNCHANGED Grids!grids
  BY <1>1, EditKeeps
<1>2. CASE Grids!Sync
  BY <1>2, SyncKeeps
<1>3. CASE Grids!Draw
  <2>1. PICK nearEnd \in BOOLEAN : Grids!DrawAt(nearEnd, FALSE)
    BY <1>3 DEF Grids!Draw
  <2> QED
    BY <2>1, DrawKeeps
<1>4. CASE Grids!Retry
  <2>1. Grids!DrawAt(FALSE, TRUE)
    BY <1>4 DEF Grids!Retry
  <2> QED
    BY <2>1, DrawKeeps
<1>5. ASSUME NEW l \in Shelf, Grids!Open(l)
      PROVE  GridsInv'
  BY <1>5, OpenKeeps
<1>6. ASSUME NEW l \in Shelf, Grids!Filter(l)
      PROVE  GridsInv'
  BY <1>6, FilterKeeps
<1>7. ASSUME NEW t \in Grids!Tabs, Grids!SwitchTab(t)
      PROVE  GridsInv'
  <2>1. t \in Tab
    BY <1>7 DEF Grids!SwitchTab, Grids!Tabs
  <2> QED
    BY <1>7, <2>1, SwitchTabKeeps
<1>8. ASSUME NEW t \in Grids!Tabs, Grids!Answer(t)
      PROVE  GridsInv'
  BY <1>8, AnswerKeeps
<1> QED
  BY <1>1, <1>2, <1>3, <1>4, <1>5, <1>6, <1>7, <1>8 DEF Grids!Next

(* What the invariant is for.                                              *)
LEMMA GridsAreSafe == GridsInv => Grids!GridSafe
<1> SUFFICES ASSUME GridsInv PROVE Grids!GridSafe
  OBVIOUS
<1>1. ASSUME NEW t \in Grids!Tabs
      PROVE  /\ Grids!InOrder(grid[t].items, Grids!Pages(grid[t]) \ EmptyPage)
             /\ grid[t].loading => grid[t].page.st # "idle"
  <2>1. PICK s \in Sources : GridOf(grid[t], s)
    BY DEF GridsInv
  <2> QED
    BY <2>1 DEF GridOf, PagesTo, Grids!Pages
<1>2. Grids!GridOfItsList
  <2> SUFFICES ASSUME set = last, Grids!Usable(set), Grids!IsRemote(list),
                      NEW i \in DOMAIN Grids!Followed[tab].items
               PROVE  Grids!Followed[tab].items[i].of = Grids!Source
    BY DEF Grids!GridOfItsList
  <2>1. Grids!Followed = grid
    BY FollowedIs
  <2>2. PICK s \in Sources : GridOf(grid[tab], s) /\ IsHere(tab, s)
    BY DEF GridsInv
  <2>3. s = Grids!Source
    BY <2>2 DEF IsHere, Grids!Source
  <2> QED
    BY <2>1, <2>2, <2>3 DEF GridOf, PagesTo
<1> QED
  BY <1>1, <1>2 DEF Grids!GridSafe, Grids!PagesInOrder, Grids!LoadingIsReal

(* Nothing of the grids moves.                                             *)
LEMMA GridsStay ==
    ASSUME GridsInv, UNCHANGED <<set, last, kind, list, tab, grid, seen>>
    PROVE  GridsInv'
<1>1. Grids!Tabs' = Grids!Tabs /\ (Grids!IsRemote(list)' <=> Grids!IsRemote(list))
      /\ (Grids!Usable(last)' <=> Grids!Usable(last))
  BY DEF Grids!Tabs, Grids!IsRemote, Grids!Usable
<1>2. \A t, s : IsHere(t, s)' <=> IsHere(t, s)
  BY <1>1 DEF IsHere
<1> QED
  BY <1>1, <1>2 DEF GridsInv

GridHolds == part = "grid" => GridsInv

(* Whatever page is late, doubled by a list that moved, lost to an error and  *)
(* asked for again, or answered to a grid that was reset, a grid of the       *)
(* composition holds the pages of its own list, in their order, each once     *)
(* (screens/paged.rs and the screens that own a grid).                        *)
THEOREM GridsAreInOrder == DataSpec => []GridIsInOrder
<1>1. DataInit => GridHolds
  BY GridsStart DEF DataInit, GridHolds
<1>2. GridHolds /\ [DataNext]_<<part, vars, shared, page, gridded, routed>> => GridHolds'
  <2> SUFFICES ASSUME GridHolds, [DataNext]_<<part, vars, shared, page, gridded, routed>>, part' = "grid"
               PROVE  GridsInv'
    BY DEF GridHolds
  <2>1. part = "grid"
    BY DEF DataNext
  <2>2. GridsInv
    BY <2>1 DEF GridHolds
  <2>3. CASE Grids!Next
    BY <2>2, <2>3, GridsNext
  <2>4. CASE UNCHANGED <<part, vars, shared, page, gridded, routed>>
    BY <2>2, <2>4, GridsStay DEF shared, gridded
  <2> QED
    BY <2>1, <2>3, <2>4 DEF DataNext
<1>3. GridHolds => GridIsInOrder
  BY GridsAreSafe DEF GridHolds, GridIsInOrder
<1> QED
  BY <1>1, <1>2, <1>3, PTL DEF DataSpec
=============================================================================
