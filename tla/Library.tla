------------------------------ MODULE Library ------------------------------
(***************************************************************************)
(* The user's lists: the mirror in memory that the screens read            *)
(* (services/library.rs) and the library table that is written behind it   *)
(* (cinebox-core/src/db/library.rs), both through services.rs.             *)
(*                                                                         *)
(* Every change is made to the mirror and then, with the UI thread waiting *)
(* for it, to the table; when the write fails the app only logs it.  A     *)
(* start reads the table back.                                             *)
(***************************************************************************)
EXTENDS Naturals, Sequences, FiniteSets, SequencesExt

CONSTANTS
    Title,
    Card,      \* what is known of a title: section, name, poster, ...
    Status,    \* the watch statuses
    Watching,  \* the status that playing a title gives it
    None,
    MayFail,   \* writes, and the read at the start, may fail
    MaxSeq,    \* bound on the changes between two starts
    MaxNow     \* bound on the clock

Mark == [status : Status \cup {None}, liked : BOOLEAN]

Unmarked == [status |-> None, liked |-> FALSE]

Entry == [card : Card, mark : Mark \ {Unmarked}, seq : Nat]
Row == [card : Card, mark : Mark \ {Unmarked}, updated : 0..MaxNow]

ASSUME LibraryAssumption ==
    /\ IsFiniteSet(Title)
    /\ Watching \in Status
    /\ None \notin Status \cup Entry \cup Row
    /\ MayFail \in BOOLEAN
    /\ {MaxSeq, MaxNow} \subseteq Nat

VARIABLES
    slots,      \* the mirror: the entry of each title, or None
    next_seq,
    table,      \* the library table: the row of each title, or None
    rowids,     \* the titles that have a row, in rowid order
    now,        \* unix_now, in seconds
    doubtful    \* the titles that a logged failure was about, since the last start

vars == <<slots, next_seq, table, rowids, now, doubtful>>

(* The marks kept of title t, in the mirror or in the table. *)
MarkOf(kept, t) == IF kept[t] = None THEN Unmarked ELSE kept[t].mark

Kept(of) == {t \in Title : of[t] # None}

-----------------------------------------------------------------------------
(***************************************************************************)
(* The mirror.                                                             *)
(***************************************************************************)
Update(t, card, mark) ==
    /\ next_seq <= MaxSeq
    /\ slots' = [slots EXCEPT ![t] =
                    IF mark = Unmarked
                    THEN None
                    ELSE [card |-> card, mark |-> mark, seq |-> next_seq]]
    /\ next_seq' = IF mark = Unmarked THEN next_seq ELSE next_seq + 1

-----------------------------------------------------------------------------
(***************************************************************************)
(* The table.                                                              *)
(***************************************************************************)
(* An upsert: what has a row keeps its rowid. *)
Write(t, row) ==
    /\ table' = [table EXCEPT ![t] = row]
    /\ rowids' = IF row = None
                 THEN RemoveFirst(rowids, t)
                 ELSE IF table[t] = None THEN Append(rowids, t) ELSE rowids

(* warn_library_write *)
Fails(t) ==
    /\ MayFail
    /\ doubtful' = doubtful \cup {t}
    /\ UNCHANGED <<table, rowids>>

(* Mutant: the time of the change is only set when the row is inserted. *)
UpsertKeepsTime(t, card, mark) ==
    Write(t, IF mark = Unmarked
             THEN None
             ELSE [card |-> card, mark |-> mark,
                   updated |-> IF table[t] = None THEN now ELSE table[t].updated])

(* Mutant: without prune_empty. *)
UpsertUnpruned(t, card, mark) == Write(t, [card |-> card, mark |-> mark, updated |-> now])

(* set_library_status and set_library_liked: the card is replaced, and a   *)
(* row without marks is pruned.                                            *)
Upsert(t, card, mark) ==
    Write(t, IF mark = Unmarked THEN None ELSE [card |-> card, mark |-> mark, updated |-> now])

(* mark_watching_if_unset: the card of a row that exists stays. *)
FillStatus(t, card) ==
    \/ /\ table[t] = None
       /\ Write(t, [card |-> card, mark |-> [Unmarked EXCEPT !.status = Watching],
                    updated |-> now])
    \/ /\ table[t] # None /\ table[t].mark.status = None
       /\ Write(t, [table[t] EXCEPT !.mark.status = Watching, !.updated = now])
    \/ /\ table[t] # None /\ table[t].mark.status # None
       /\ UNCHANGED <<table, rowids>>

-----------------------------------------------------------------------------
(***************************************************************************)
(* What the app does with both.                                            *)
(***************************************************************************)
(* Mutant: the row is replaced and not updated. *)
SetListStatusAnew(t, card, s) ==
    /\ Update(t, card, [MarkOf(slots, t) EXCEPT !.status = s])
    /\ \/ Upsert(t, card, [Unmarked EXCEPT !.status = s]) /\ UNCHANGED doubtful
       \/ Fails(t)
    /\ UNCHANGED now

SetListStatus(t, card, s) ==
    /\ Update(t, card, [MarkOf(slots, t) EXCEPT !.status = s])
    /\ \/ Upsert(t, card, [MarkOf(table, t) EXCEPT !.status = s]) /\ UNCHANGED doubtful
       \/ Fails(t)
    /\ UNCHANGED now

SetLiked(t, card, liked) ==
    /\ Update(t, card, [MarkOf(slots, t) EXCEPT !.liked = liked])
    /\ \/ Upsert(t, card, [MarkOf(table, t) EXCEPT !.liked = liked]) /\ UNCHANGED doubtful
       \/ Fails(t)
    /\ UNCHANGED now

(* A title is played here, or a sync finds it was started elsewhere. *)
MarkWatchingIfUnset(t, card) ==
    /\ MarkOf(slots, t).status = None
    /\ Update(t, card, [MarkOf(slots, t) EXCEPT !.status = Watching])
    /\ \/ FillStatus(t, card) /\ UNCHANGED doubtful
       \/ Fails(t)
    /\ UNCHANGED now

(* ORDER BY updated_at DESC, rowid DESC *)
Newer(t, u) ==
    \/ table[t].updated > table[u].updated
    \/ /\ table[t].updated = table[u].updated
       /\ \E i, j \in DOMAIN rowids : rowids[i] = t /\ rowids[j] = u /\ i > j

(* from_entries: the rows are numbered from the newest, which gets the    *)
(* highest number.                                                         *)
NumberOf(t) == Cardinality(Kept(table)) - Cardinality({u \in Kept(table) : Newer(u, t)})

Entries ==
    [t \in Title |->
        IF table[t] = None
        THEN None
        ELSE [card |-> table[t].card, mark |-> table[t].mark, seq |-> NumberOf(t)]]

(* Mutant: the numbers go on from the one of the newest row. *)
RestartOnTop ==
    /\ slots' = Entries
    /\ next_seq' = Cardinality(Kept(table))
    /\ doubtful' = {}
    /\ UNCHANGED <<table, rowids, now>>

Restart ==
    /\ UNCHANGED <<table, rowids, now>>
    /\ doubtful' = {}
    /\ next_seq' = Cardinality(Kept(table)) + 1
    /\ slots' = Entries

(* library_entries fails: the app runs with empty lists. *)
RestartUnread ==
    /\ MayFail
    /\ slots' = [t \in Title |-> None]
    /\ next_seq' = 0
    /\ doubtful' = Title
    /\ UNCHANGED <<table, rowids, now>>

Tick ==
    /\ now < MaxNow
    /\ now' = now + 1
    /\ UNCHANGED <<slots, next_seq, table, rowids, doubtful>>

Init ==
    /\ slots = [t \in Title |-> None]
    /\ next_seq = 1
    /\ table = [t \in Title |-> None]
    /\ rowids = <<>>
    /\ now = 0
    /\ doubtful = {}

Next ==
    \/ \E t \in Title, card \in Card :
          \/ \E s \in Status \cup {None} : SetListStatus(t, card, s)
          \/ \E liked \in BOOLEAN : SetLiked(t, card, liked)
          \/ MarkWatchingIfUnset(t, card)
    \/ Restart
    \/ RestartUnread
    \/ Tick

Spec == Init /\ [][Next]_vars

-----------------------------------------------------------------------------
(* The type invariant.  What has no marks is neither kept nor stored.      *)
TypeOK ==
    /\ slots \in [Title -> Entry \cup {None}]
    /\ next_seq \in Nat
    /\ table \in [Title -> Row \cup {None}]
    /\ now \in 0..MaxNow
    /\ doubtful \subseteq Title

(* Library::list: the numbers in the mirror are all different and below    *)
(* the next one, and so are the rowids, so that the order of a list is     *)
(* never in doubt.                                                         *)
NoTies ==
    /\ ToSet(rowids) = Kept(table) /\ Len(rowids) = Cardinality(Kept(table))
    /\ \A t, u \in Kept(slots) :
          /\ slots[t].seq < next_seq
          /\ slots[t].seq = slots[u].seq => t = u

Lists == INSTANCE UserLists WITH marks <- [t \in Title |-> MarkOf(slots, t)]

(* What the screens show of a title is what was last chosen, over any      *)
(* number of restarts, but for the titles that a logged failure was about. *)
ListsSurvive == Lists!Spec

(* library_entries and Library::list say "most recently changed first": of *)
(* two titles that were changed in different seconds, a restart shows the  *)
(* one first that was shown first before it.  Within one second the row    *)
(* that was inserted later is taken for the newer one, and TLC refutes the *)
(* property without that condition.                                        *)
RestartKeepsOrder ==
    [][Restart => \A t, u \in (Kept(slots) \cap Kept(table)) \ doubtful :
          slots[t].seq < slots[u].seq /\ table[t].updated # table[u].updated
             => slots'[t].seq < slots'[u].seq]_vars
=============================================================================
