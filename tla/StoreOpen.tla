----------------------------- MODULE StoreOpen -----------------------------
(***************************************************************************)
(* Opening the app database (Store::open in cinebox-core/src/db.rs): the   *)
(* file is connected to and migrated, and when the migration fails it is   *)
(* removed, made anew and migrated again.                                  *)
(*                                                                         *)
(* Nothing keeps a second instance of the app from starting.  The          *)
(* migrations are sqlx's, modelled from what Store::open makes of them:    *)
(* those applied are listed, and each that is missing is applied in a      *)
(* transaction of its own, which fails when the file has it already; a     *)
(* file with a migration this version does not know is refused.            *)
(***************************************************************************)
EXTENDS Naturals

CONSTANTS
    Proc,          \* the instances of the app
    MaxVersion,    \* version n of the app knows the migrations 1..n
    MayDowngrade,  \* an older version may be started on a newer file
    MayBreak,      \* a statement may fail for a passing reason: busy, full
    MaxFiles       \* bound on the files made

ASSUME OpenAssumption ==
    /\ {MaxVersion, MaxFiles} \subseteq Nat \ {0}
    /\ {MayDowngrade, MayBreak} \subseteq BOOLEAN

File == 1..MaxFiles

VARIABLES
    disk,    \* the file under the path, or 0
    files,   \* the files made so far, also those no longer under the path
    made,    \* how many
    proc     \* how far each instance is

vars == <<disk, files, made, proc>>

(* old: a rusqlite file; applied: its migrations; rows: it holds data of   *)
(* the user.                                                               *)
Content == [old : BOOLEAN, applied : 0..MaxVersion, rows : BOOLEAN]

Empty == [old |-> FALSE, applied |-> 0, rows |-> FALSE]

Instance ==
    [at : {"closed", "connect", "list", "apply", "failed", "open"},
     version : 0..MaxVersion, retry : BOOLEAN, file : 0..MaxFiles, known : 0..MaxVersion]

Closed == [at |-> "closed", version |-> 0, retry |-> FALSE, file |-> 0, known |-> 0]

Moves(p, at) == proc' = [proc EXCEPT ![p].at = at]

-----------------------------------------------------------------------------
Start(p, version) ==
    /\ proc[p] = Closed
    /\ ~MayDowngrade /\ disk # 0 => files[disk].applied <= version
    /\ proc' = [proc EXCEPT ![p] = [Closed EXCEPT !.at = "connect", !.version = version]]
    /\ UNCHANGED <<disk, files, made>>

(* connect: the file is made if it is missing. *)
Connect(p) ==
    /\ proc[p].at = "connect"
    /\ disk = 0 => made < MaxFiles
    /\ made' = IF disk = 0 THEN made + 1 ELSE made
    /\ files' = IF disk = 0 THEN [files EXCEPT ![made'] = Empty] ELSE files
    /\ disk' = IF disk = 0 THEN made' ELSE disk
    /\ proc' = [proc EXCEPT ![p].at = "list", ![p].file = disk']

(* Where the migration goes on with n migrations applied. *)
Onward(p, n) == IF n = proc[p].version THEN "open" ELSE "apply"

(* Mutant: what the file has is not validated. *)
ListUnchecked(p) ==
    LET applied == files[proc[p].file].applied
    IN  /\ proc[p].at = "list"
        /\ proc' = [proc EXCEPT ![p].at = Onward(p, applied), ![p].known = applied]
        /\ UNCHANGED <<disk, files, made>>

List(p) ==
    LET applied == files[proc[p].file].applied
    IN  /\ proc[p].at = "list"
        /\ IF applied <= proc[p].version
           THEN proc' = [proc EXCEPT ![p].at = Onward(p, applied), ![p].known = applied]
           ELSE Moves(p, "failed")
        /\ UNCHANGED <<disk, files, made>>

(* Mutant: the list is not gone through to its end. *)
ApplyOne(p) ==
    LET file == proc[p].file
    IN  /\ proc[p].at = "apply"
        /\ IF files[file].old \/ files[file].applied # proc[p].known
           THEN Moves(p, "failed") /\ UNCHANGED files
           ELSE /\ files' = [files EXCEPT ![file].applied = @ + 1]
                /\ Moves(p, "open")
        /\ UNCHANGED <<disk, made>>

Apply(p) ==
    LET file == proc[p].file
    IN  /\ proc[p].at = "apply"
        /\ IF files[file].old \/ files[file].applied # proc[p].known
           THEN Moves(p, "failed") /\ UNCHANGED files
           ELSE /\ files' = [files EXCEPT ![file].applied = @ + 1]
                /\ proc' = [proc EXCEPT ![p].at = Onward(p, proc[p].known + 1),
                                        ![p].known = @ + 1]
        /\ UNCHANGED <<disk, made>>

Break(p) ==
    /\ MayBreak
    /\ proc[p].at \in {"list", "apply"}
    /\ Moves(p, "failed")
    /\ UNCHANGED <<disk, files, made>>

InUse(p) == \E q \in Proc \ {p} : proc[q].file = disk /\ disk # 0

(* The first failure removes the file, which not every system does while   *)
(* another instance has it open; the second is returned, and the app runs  *)
(* without a database.                                                     *)
RemoveFiles(p) ==
    /\ proc[p].at = "failed" /\ ~proc[p].retry
    /\ disk' = 0 \/ (InUse(p) /\ disk' = disk)
    /\ proc' = [proc EXCEPT ![p].at = "connect", ![p].retry = TRUE, ![p].file = 0]
    /\ UNCHANGED <<files, made>>

GiveUp(p) ==
    /\ proc[p].at = "failed" /\ proc[p].retry
    /\ proc' = [proc EXCEPT ![p] = Closed]
    /\ UNCHANGED <<disk, files, made>>

(* History, lists and positions are written. *)
Use(p) ==
    /\ proc[p].at = "open"
    /\ files' = [files EXCEPT ![proc[p].file].rows = TRUE]
    /\ UNCHANGED <<disk, made, proc>>

(* The app is closed or killed. *)
Quit(p) ==
    /\ proc[p] # Closed
    /\ proc' = [proc EXCEPT ![p] = Closed]
    /\ UNCHANGED <<disk, files, made>>

(* A new installation, or one that still has the file of an older app. *)
Init ==
    /\ \/ disk = 0 /\ made = 0 /\ files = [f \in File |-> Empty]
       \/ /\ disk = 1 /\ made = 1
          /\ files = [f \in File |-> IF f = 1
                                     THEN [old |-> TRUE, applied |-> 0, rows |-> TRUE]
                                     ELSE Empty]
    /\ proc = [p \in Proc |-> Closed]

Next ==
    \E p \in Proc :
       \/ \E version \in 1..MaxVersion : Start(p, version)
       \/ Connect(p) \/ List(p) \/ Apply(p) \/ Break(p)
       \/ RemoveFiles(p) \/ GiveUp(p) \/ Use(p) \/ Quit(p)

Spec == Init /\ [][Next]_vars

-----------------------------------------------------------------------------
(* The type invariant. *)
TypeOK ==
    /\ disk \in 0..made
    /\ made \in 0..MaxFiles
    /\ files \in [File -> Content]
    /\ proc \in [Proc -> Instance]

(* Store::open returns only a database with every table this version uses, *)
(* however many instances opened, removed and migrated files meanwhile.    *)
OpenIsMigrated ==
    \A p \in Proc :
       proc[p].at = "open" =>
          /\ proc[p].file # 0
          /\ ~files[proc[p].file].old
          /\ files[proc[p].file].applied >= proc[p].version

(* "An older rusqlite file without `_sqlx_migrations` is deleted and       *)
(* rebuilt": no other file is.                                             *)
OnlyOldFilesGo ==
    [][disk # 0 /\ disk' # disk => files[disk].old]_vars
=============================================================================
