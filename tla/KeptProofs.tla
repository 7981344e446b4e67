---------------------------- MODULE KeptProofs ----------------------------
(***************************************************************************)
(* Theorems about what the app keeps on the disk.  The user's lists, for   *)
(* any titles, cards, statuses and bounds: what a restart shows of a title *)
(* is what was chosen, and the order of a list is total and survives the   *)
(* restart.  The settings, for any values, presets, languages and faults:  *)
(* the disk has what is shown and a verdict is of the value it is about.   *)
(* The TMDB tables, for any images, tasks and budget: the images fit the   *)
(* budget, what makes room is the coldest and no more than it takes, and a *)
(* boot that gets through leaves nothing old or unreferred.                *)
(***************************************************************************)
EXTENDS MCKept, FiniteSetTheorems, WellFoundedInduction, TLAPS

(* An entry or a row is never taken for an absent one. *)
LEMMA NoneIsNoRecord ==
    /\ None \notin Status
    /\ \A e \in Entry : e # None
    /\ \A r \in Row : r # None
BY LibraryAssumption

LEMMA MarksTyped ==
    ASSUME TypeOK, NEW t \in Title
    PROVE  MarkOf(slots, t) \in Mark /\ MarkOf(table, t) \in Mark
<1>1. Unmarked \in Mark
  BY DEF Unmarked, Mark
<1>2. slots[t] = None \/ slots[t].mark \in Mark
  BY DEF TypeOK, Entry
<1>3. table[t] = None \/ table[t].mark \in Mark
  BY DEF TypeOK, Row
<1> QED
  BY <1>1, <1>2, <1>3 DEF MarkOf

(* What a change of the mirror leaves in it. *)
LEMMA UpdateChanges ==
    ASSUME TypeOK, NEW t \in Title, NEW card \in Card, NEW mark \in Mark,
           Update(t, card, mark)
    PROVE  /\ slots' \in [Title -> Entry \cup {None}]
           /\ next_seq' \in Nat
           /\ \A u \in Title : MarkOf(slots', u) = IF u = t THEN mark ELSE MarkOf(slots, u)
<1> DEFINE new == IF mark = Unmarked THEN None
                  ELSE [card |-> card, mark |-> mark, seq |-> next_seq]
<1>1. slots' = [slots EXCEPT ![t] = new]
  BY DEF Update
<1>2. mark # Unmarked => [card |-> card, mark |-> mark, seq |-> next_seq] \in Entry
  BY DEF TypeOK, Entry
<1>3. new \in Entry \cup {None}
  BY <1>2
<1>4. (IF new = None THEN Unmarked ELSE new.mark) = mark
  <2>1. CASE mark = Unmarked
    BY <2>1
  <2>2. CASE mark # Unmarked
    <3>1. new # None
      BY <2>2, <1>2, NoneIsNoRecord
    <3> QED
      BY <2>2, <3>1
  <2> QED
    BY <2>1, <2>2
<1>5. slots' \in [Title -> Entry \cup {None}]
  BY <1>1, <1>3 DEF TypeOK
<1>6. next_seq' \in Nat
  BY DEF Update, TypeOK
<1>7. ASSUME NEW u \in Title
      PROVE  MarkOf(slots', u) = IF u = t THEN mark ELSE MarkOf(slots, u)
  <2>1. slots'[u] = IF u = t THEN new ELSE slots[u]
    BY <1>1 DEF TypeOK
  <2> HIDE DEF new
  <2> QED
    BY <2>1, <1>4 DEF MarkOf
<1> QED
  BY <1>5, <1>6, <1>7

(* What a write of a row, or of none, leaves in the table. *)
LEMMA WriteChanges ==
    ASSUME TypeOK, NEW t \in Title, NEW row \in Row \cup {None}, Write(t, row)
    PROVE  /\ table' \in [Title -> Row \cup {None}]
           /\ \A u \in Title :
                 MarkOf(table', u) = IF u = t
                                     THEN IF row = None THEN Unmarked ELSE row.mark
                                     ELSE MarkOf(table, u)
BY DEF Write, TypeOK, MarkOf

LEMMA UpsertChanges ==
    ASSUME TypeOK, NEW t \in Title, NEW card \in Card, NEW mark \in Mark,
           Upsert(t, card, mark)
    PROVE  /\ table' \in [Title -> Row \cup {None}]
           /\ \A u \in Title : MarkOf(table', u) = IF u = t THEN mark ELSE MarkOf(table, u)
<1>1. CASE mark = Unmarked
  <2>1. Write(t, None)
    BY <1>1 DEF Upsert
  <2> QED
    BY <1>1, <2>1, WriteChanges
<1>2. CASE mark # Unmarked
  <2> DEFINE row == [card |-> card, mark |-> mark, updated |-> now]
  <2>1. Write(t, row)
    BY <1>2 DEF Upsert
  <2>2. row \in Row
    BY <1>2 DEF Row, TypeOK
  <2>3. row # None /\ row.mark = mark
    BY <2>2, NoneIsNoRecord
  <2> HIDE DEF row
  <2> QED
    BY <2>1, <2>2, <2>3, WriteChanges
<1> QED
  BY <1>1, <1>2

LEMMA FillChanges ==
    ASSUME TypeOK, NEW t \in Title, NEW card \in Card, FillStatus(t, card)
    PROVE  /\ table' \in [Title -> Row \cup {None}]
           /\ MarkOf(table, t).status = None =>
                 \A u \in Title :
                    MarkOf(table', u) = IF u = t
                                        THEN [MarkOf(table, t) EXCEPT !.status = Watching]
                                        ELSE MarkOf(table, u)
           /\ MarkOf(table, t).status # None => UNCHANGED table
<1>0. Watching \in Status /\ Watching # None
  BY LibraryAssumption
<1>1. CASE table[t] = None
  <2> DEFINE row == [card |-> card, mark |-> [Unmarked EXCEPT !.status = Watching],
                     updated |-> now]
  <2>1. Write(t, row)
    BY <1>1 DEF FillStatus
  <2>2. row \in Row
    BY <1>0 DEF Row, TypeOK, Mark, Unmarked
  <2>3. row # None /\ row.mark = [Unmarked EXCEPT !.status = Watching]
    BY <2>2, NoneIsNoRecord
  <2>4. MarkOf(table, t) = Unmarked /\ MarkOf(table, t).status = None
    BY <1>1 DEF MarkOf, Unmarked
  <2> HIDE DEF row
  <2> QED
    BY <2>1, <2>2, <2>3, <2>4, WriteChanges
<1>2. CASE table[t] # None /\ table[t].mark.status = None
  <2> DEFINE row == [table[t] EXCEPT !.mark.status = Watching, !.updated = now]
  <2>1. Write(t, row)
    BY <1>2 DEF FillStatus
  <2>2. table[t] \in Row
    BY <1>2 DEF TypeOK
  <2>3. row \in Row
    BY <1>0, <2>2 DEF Row, TypeOK, Mark, Unmarked
  <2>4. row # None /\ row.mark = [table[t].mark EXCEPT !.status = Watching]
    BY <2>2, <2>3, NoneIsNoRecord DEF Row
  <2>5. MarkOf(table, t) = table[t].mark /\ MarkOf(table, t).status = None
    BY <1>2 DEF MarkOf
  <2> HIDE DEF row
  <2> QED
    BY <2>1, <2>3, <2>4, <2>5, WriteChanges
<1>3. CASE table[t] # None /\ table[t].mark.status # None
  BY <1>3 DEF FillStatus, TypeOK, MarkOf
<1> QED
  BY <1>1, <1>2, <1>3 DEF FillStatus

(* What a start reads back. *)
LEMMA EntriesTyped ==
    ASSUME TypeOK
    PROVE  /\ Entries \in [Title -> Entry \cup {None}]
           /\ Cardinality(Kept(table)) \in Nat
           /\ \A t \in Title : MarkOf(Entries, t) = MarkOf(table, t)
<1>1. IsFiniteSet(Kept(table)) /\ Cardinality(Kept(table)) \in Nat
  BY LibraryAssumption, FS_Subset, FS_CardinalityType DEF Kept
<1>2. ASSUME NEW t \in Title
      PROVE  NumberOf(t) \in Nat
  <2> DEFINE newer == {u \in Kept(table) : Newer(u, t)}
  <2>1. Cardinality(newer) \in Nat /\ Cardinality(newer) <= Cardinality(Kept(table))
    BY <1>1, FS_Subset, FS_CardinalityType
  <2> QED
    BY <1>1, <2>1 DEF NumberOf
<1>3. ASSUME NEW t \in Title, table[t] # None
      PROVE  [card |-> table[t].card, mark |-> table[t].mark, seq |-> NumberOf(t)] \in Entry
  BY <1>2, <1>3 DEF TypeOK, Row, Entry
<1>4. Entries \in [Title -> Entry \cup {None}]
  BY <1>3 DEF Entries
<1>5. ASSUME NEW t \in Title
      PROVE  MarkOf(Entries, t) = MarkOf(table, t)
  <2>1. CASE table[t] = None
    BY <2>1 DEF Entries, MarkOf
  <2>2. CASE table[t] # None
    <3>1. Entries[t] = [card |-> table[t].card, mark |-> table[t].mark, seq |-> NumberOf(t)]
      BY <2>2 DEF Entries
    <3>2. Entries[t] # None
      BY <3>1, <2>2, <1>3, NoneIsNoRecord
    <3> QED
      BY <2>2, <3>1, <3>2 DEF MarkOf
  <2> QED
    BY <2>1, <2>2
<1> QED
  BY <1>1, <1>4, <1>5

-----------------------------------------------------------------------------
(***************************************************************************)
(* The marks that the two actions of the user are called with.             *)
(***************************************************************************)
LEMMA ChosenMarks ==
    ASSUME TypeOK, NEW t \in Title
    PROVE  /\ \A s \in Status \cup {None} :
                 /\ [MarkOf(slots, t) EXCEPT !.status = s] \in Mark
                 /\ [MarkOf(table, t) EXCEPT !.status = s] \in Mark
           /\ \A liked \in BOOLEAN :
                 /\ [MarkOf(slots, t) EXCEPT !.liked = liked] \in Mark
                 /\ [MarkOf(table, t) EXCEPT !.liked = liked] \in Mark
BY MarksTyped DEF Mark

LEMMA TypeStep == TypeOK /\ [Next]_vars => TypeOK'
<1> SUFFICES ASSUME TypeOK, [Next]_vars PROVE TypeOK'
  OBVIOUS
<1>1. ASSUME NEW t \in Title, NEW card \in Card, NEW s \in Status \cup {None},
             SetListStatus(t, card, s)
      PROVE  TypeOK'
  BY <1>1, ChosenMarks, UpdateChanges, UpsertChanges DEF SetListStatus, Fails, TypeOK
<1>2. ASSUME NEW t \in Title, NEW card \in Card, NEW liked \in BOOLEAN,
             SetLiked(t, card, liked)
      PROVE  TypeOK'
  BY <1>2, ChosenMarks, UpdateChanges, UpsertChanges DEF SetLiked, Fails, TypeOK
<1>3. ASSUME NEW t \in Title, NEW card \in Card, MarkWatchingIfUnset(t, card)
      PROVE  TypeOK'
  <2>1. Watching \in Status \cup {None}
    BY LibraryAssumption
  <2> QED
    BY <1>3, <2>1, ChosenMarks, UpdateChanges, FillChanges
    DEF MarkWatchingIfUnset, Fails, TypeOK
<1>4. CASE Restart
  BY <1>4, EntriesTyped DEF Restart, TypeOK
<1>5. CASE RestartUnread
  BY <1>5 DEF RestartUnread, TypeOK
<1>6. CASE Tick
  BY <1>6, LibraryAssumption DEF Tick, TypeOK
<1>7. CASE UNCHANGED vars
  BY <1>7 DEF vars, TypeOK
<1> QED
  BY <1>1, <1>2, <1>3, <1>4, <1>5, <1>6, <1>7 DEF Next

(* Mirror and table are well typed, whatever fails. *)
THEOREM TypeCorrect == Spec => []TypeOK
<1>1. Init => TypeOK
  BY LibraryAssumption DEF Init, TypeOK
<1> QED
  BY <1>1, TypeStep, PTL DEF Spec

-----------------------------------------------------------------------------
(* The invariant of the refinement: the table says what the mirror says of *)
(* every title that no failure was about.                                  *)
Agree == \A t \in Title \ doubtful : MarkOf(slots, t) = MarkOf(table, t)

Shown == [t \in Title |-> MarkOf(slots, t)]

(* A mark that becomes m in the mirror is what the lists promise. *)
LEMMA ShownChanges ==
    ASSUME NEW t \in Title, NEW m,
           \A u \in Title : MarkOf(slots', u) = IF u = t THEN m ELSE MarkOf(slots, u)
    PROVE  Shown' = [Shown EXCEPT ![t] = m]
BY DEF Shown

(* Mirror and table still agree when the mirror gives a title mark m and   *)
(* the table does, or fails to.                                            *)
LEMMA AgreeAfter ==
    ASSUME Agree, NEW t \in Title, NEW m, NEW stored,
           \A u \in Title : MarkOf(slots', u) = IF u = t THEN m ELSE MarkOf(slots, u),
           \/ /\ UNCHANGED doubtful
              /\ \A u \in Title : MarkOf(table', u) = IF u = t THEN stored ELSE MarkOf(table, u)
           \/ Fails(t),
           t \notin doubtful => m = stored
    PROVE  Agree' /\ Lists!Stored(t)
<1>1. CASE Fails(t)
  <2>1. doubtful' = doubtful \cup {t} /\ UNCHANGED table /\ MayFail
    BY <1>1 DEF Fails
  <2>2. \A u \in Title : MarkOf(table', u) = MarkOf(table, u)
    BY <2>1 DEF MarkOf
  <2> QED
    BY <2>1, <2>2 DEF Agree, Lists!Stored
<1>2. CASE ~Fails(t)
  BY <1>2 DEF Agree, Lists!Stored
<1> QED
  BY <1>1, <1>2

LEMMA InitImplements == Init => Agree /\ Lists!Init
BY DEF Init, Agree, Lists!Init, Lists!Unmarked, MarkOf, Unmarked

LEMMA ChoosingImplements ==
    ASSUME TypeOK, Agree, NEW t \in Title, NEW card \in Card
    PROVE  /\ \A s \in Status \cup {None} :
                 SetListStatus(t, card, s) => Agree' /\ Lists!SetStatus(t, s)
           /\ \A liked \in BOOLEAN :
                 SetLiked(t, card, liked) => Agree' /\ Lists!SetLiked(t, liked)
<1>1. ASSUME NEW s \in Status \cup {None}, SetListStatus(t, card, s)
      PROVE  Agree' /\ Lists!SetStatus(t, s)
  <2> DEFINE m == [MarkOf(slots, t) EXCEPT !.status = s]
             stored == [MarkOf(table, t) EXCEPT !.status = s]
  <2>1. m \in Mark /\ stored \in Mark
    BY ChosenMarks
  <2>2. Update(t, card, m)
    BY <1>1 DEF SetListStatus
  <2>3. \A u \in Title : MarkOf(slots', u) = IF u = t THEN m ELSE MarkOf(slots, u)
    BY <2>1, <2>2, UpdateChanges
  <2>4. Fails(t) \/ (UNCHANGED doubtful /\ Upsert(t, card, stored))
    BY <1>1 DEF SetListStatus
  <2>5. t \notin doubtful => m = stored
    BY DEF Agree
  <2> HIDE DEF stored
  <2>6. \/ Fails(t)
        \/ /\ UNCHANGED doubtful
           /\ \A u \in Title : MarkOf(table', u) = IF u = t THEN stored ELSE MarkOf(table, u)
    BY <2>1, <2>4, UpsertChanges
  <2>7. Agree' /\ Lists!Stored(t)
    BY <2>3, <2>5, <2>6, AgreeAfter
  <2>8. Shown' = [Shown EXCEPT ![t] = m]
    BY <2>3, ShownChanges
  <2> QED
    BY <2>7, <2>8 DEF Lists!SetStatus, Shown
<1>2. ASSUME NEW liked \in BOOLEAN, SetLiked(t, card, liked)
      PROVE  Agree' /\ Lists!SetLiked(t, liked)
  <2> DEFINE m == [MarkOf(slots, t) EXCEPT !.liked = liked]
             stored == [MarkOf(table, t) EXCEPT !.liked = liked]
  <2>1. m \in Mark /\ stored \in Mark
    BY ChosenMarks
  <2>2. Update(t, card, m)
    BY <1>2 DEF SetLiked
  <2>3. \A u \in Title : MarkOf(slots', u) = IF u = t THEN m ELSE MarkOf(slots, u)
    BY <2>1, <2>2, UpdateChanges
  <2>4. Fails(t) \/ (UNCHANGED doubtful /\ Upsert(t, card, stored))
    BY <1>2 DEF SetLiked
  <2>5. t \notin doubtful => m = stored
    BY DEF Agree
  <2> HIDE DEF stored
  <2>6. \/ Fails(t)
        \/ /\ UNCHANGED doubtful
           /\ \A u \in Title : MarkOf(table', u) = IF u = t THEN stored ELSE MarkOf(table, u)
    BY <2>1, <2>4, UpsertChanges
  <2>7. Agree' /\ Lists!Stored(t)
    BY <2>3, <2>5, <2>6, AgreeAfter
  <2>8. Shown' = [Shown EXCEPT ![t] = m]
    BY <2>3, ShownChanges
  <2> QED
    BY <2>7, <2>8 DEF Lists!SetLiked, Shown
<1> QED
  BY <1>1, <1>2

(* A title that no failure was about has no stored status when the mirror  *)
(* shows none, so that both rules set one.                                 *)
LEMMA PlayingImplements ==
    ASSUME TypeOK, Agree, NEW t \in Title, NEW card \in Card, MarkWatchingIfUnset(t, card)
    PROVE  Agree' /\ Lists!MarkWatching(t)
<1> DEFINE m == [MarkOf(slots, t) EXCEPT !.status = Watching]
           stored == IF MarkOf(table, t).status = None
                     THEN [MarkOf(table, t) EXCEPT !.status = Watching]
                     ELSE MarkOf(table, t)
<1>1. Watching \in Status /\ m \in Mark
  BY LibraryAssumption, ChosenMarks
<1>2. MarkOf(slots, t).status = None /\ Update(t, card, m)
  BY DEF MarkWatchingIfUnset
<1>3. \A u \in Title : MarkOf(slots', u) = IF u = t THEN m ELSE MarkOf(slots, u)
  BY <1>1, <1>2, UpdateChanges
<1>4. Fails(t) \/ (UNCHANGED doubtful /\ FillStatus(t, card))
  BY DEF MarkWatchingIfUnset
<1>5. t \notin doubtful => m = stored
  BY <1>2 DEF Agree
<1>6. FillStatus(t, card)
        => \A u \in Title : MarkOf(table', u) = IF u = t THEN stored ELSE MarkOf(table, u)
  <2>1. CASE MarkOf(table, t).status = None
    BY <2>1, FillChanges
  <2>2. CASE MarkOf(table, t).status # None
    BY <2>2, FillChanges DEF MarkOf
  <2> QED
    BY <2>1, <2>2
<1> HIDE DEF stored
<1>7. Agree' /\ Lists!Stored(t)
  BY <1>3, <1>4, <1>5, <1>6, AgreeAfter
<1>8. Shown' = [Shown EXCEPT ![t] = m]
  BY <1>3, ShownChanges
<1> QED
  BY <1>2, <1>7, <1>8 DEF Lists!MarkWatching, Lists!SetStatus, Shown

(* Every step keeps mirror and table together, and is a step of the lists. *)
LEMMA StepImplements ==
    ASSUME TypeOK, Agree, [Next]_vars
    PROVE  Agree' /\ [Lists!Next]_<<Shown, doubtful>>
<1>1. ASSUME NEW t \in Title, NEW card \in Card, NEW s \in Status \cup {None},
             SetListStatus(t, card, s)
      PROVE  Agree' /\ Lists!Next
  BY <1>1, ChoosingImplements DEF Lists!Next
<1>2. ASSUME NEW t \in Title, NEW card \in Card, NEW liked \in BOOLEAN,
             SetLiked(t, card, liked)
      PROVE  Agree' /\ Lists!Next
  BY <1>2, ChoosingImplements DEF Lists!Next
<1>3. ASSUME NEW t \in Title, NEW card \in Card, MarkWatchingIfUnset(t, card)
      PROVE  Agree' /\ Lists!Next
  BY <1>3, PlayingImplements DEF Lists!Next
<1>4. CASE Restart
  <2>1. /\ doubtful' = {} /\ slots' = Entries /\ UNCHANGED table
        /\ \A t \in Title : MarkOf(slots', t) = MarkOf(table, t)
        /\ \A t \in Title : MarkOf(table', t) = MarkOf(table, t)
    BY <1>4, EntriesTyped DEF Restart, MarkOf
  <2>2. Shown' \in [Title -> Mark]
    BY <2>1, MarksTyped DEF Shown
  <2>3. \A t \in Title \ doubtful : Shown'[t] = Shown[t]
    BY <2>1 DEF Shown, Agree
  <2>4. Lists!Start
    BY <2>1, <2>2, <2>3 DEF Lists!Start, Lists!Mark, Mark, Shown
  <2> QED
    BY <2>1, <2>4 DEF Agree, Lists!Next
<1>5. CASE RestartUnread
  <2>1. MayFail /\ doubtful' = Title /\ \A t \in Title : MarkOf(slots', t) = Unmarked
    BY <1>5 DEF RestartUnread, MarkOf
  <2>2. Lists!StartUnread
    BY <2>1 DEF Lists!StartUnread, Lists!Unmarked, Unmarked
  <2> QED
    BY <2>1, <2>2 DEF Agree, Lists!Next
<1>6. CASE Tick
  BY <1>6 DEF Tick, Agree, Shown, MarkOf
<1>7. CASE UNCHANGED vars
  BY <1>7 DEF vars, Agree, Shown, MarkOf
<1> QED
  BY <1>1, <1>2, <1>3, <1>4, <1>5, <1>6, <1>7 DEF Next

(* What the screens show of any title is what was last chosen, over any    *)
(* number of restarts, but for the titles a logged failure was about.      *)
THEOREM ListsAreKept == Spec => ListsSurvive
<1>1. TypeOK /\ Agree /\ [Next]_vars => Agree'
  BY StepImplements
<1>2. TypeOK /\ Agree /\ [Next]_vars => [Lists!Next]_<<Shown, doubtful>>
  BY StepImplements
<1> QED
  BY <1>1, <1>2, InitImplements, TypeCorrect, PTL DEF Spec, ListsSurvive, Lists!Spec, Shown

-----------------------------------------------------------------------------
(***************************************************************************)
(* The order of the rows.                                                  *)
(***************************************************************************)
(* Each of the titles in set has one place in seq, and no other title does. *)
Ranks(seq, titles) ==
    /\ seq \in Seq(Title)
    /\ \A i \in 1..Len(seq) : seq[i] \in titles
    /\ \A t \in titles : \E i \in 1..Len(seq) : seq[i] = t
    /\ \A i, j \in 1..Len(seq) : seq[i] = seq[j] => i = j

LEMMA RanksCount ==
    ASSUME NEW seq, NEW titles \in SUBSET Title, Ranks(seq, titles)
    PROVE  ToSet(seq) = titles /\ Len(seq) = Cardinality(titles)
<1>1. Len(seq) \in Nat /\ DOMAIN seq = 1..Len(seq)
  BY DEF Ranks
<1>2. seq \in Bijection(1..Len(seq), titles)
  <2>1. seq \in [1..Len(seq) -> titles]
    BY <1>1 DEF Ranks
  <2>2. IsInjective(seq)
    BY <1>1 DEF Ranks, IsInjective
  <2> QED
    BY <2>1, <2>2 DEF Ranks, Bijection, Injection, Surjection
<1>3. Cardinality(titles) = Len(seq)
  BY <1>1, <1>2, FS_CountingElements DEF ExistsBijection
<1> QED
  BY <1>1, <1>3 DEF Ranks, ToSet

LEMMA RanksAppend ==
    ASSUME NEW seq, NEW titles \in SUBSET Title, Ranks(seq, titles), NEW t \in Title \ titles
    PROVE  Ranks(Append(seq, t), titles \cup {t})
<1> DEFINE up == Append(seq, t)
<1>1. /\ Len(seq) \in Nat /\ Len(up) = Len(seq) + 1 /\ up \in Seq(Title)
      /\ \A i \in 1..Len(seq) : up[i] = seq[i]
      /\ up[Len(seq) + 1] = t
  BY DEF Ranks
<1> HIDE DEF up
<1>2. \A u \in titles \cup {t} : \E i \in 1..Len(up) : up[i] = u
  <2>1. Len(seq) + 1 \in 1..Len(up) /\ \A i \in 1..Len(seq) : i \in 1..Len(up)
    BY <1>1
  <2> QED
    BY <1>1, <2>1 DEF Ranks
<1>3. \A i \in 1..Len(up) : i = Len(seq) + 1 \/ i \in 1..Len(seq)
  BY <1>1
<1>4. \A i, j \in 1..Len(up) : up[i] = up[j] => i = j
  BY <1>1, <1>3 DEF Ranks
<1>5. \A i \in 1..Len(up) : up[i] \in titles \cup {t}
  BY <1>1, <1>3 DEF Ranks
<1> QED
  BY <1>1, <1>2, <1>4, <1>5 DEF Ranks, up

LEMMA RanksRemove ==
    ASSUME NEW seq, NEW titles \in SUBSET Title, Ranks(seq, titles), NEW t \in Title
    PROVE  Ranks(RemoveFirst(seq, t), titles \ {t})
<1>1. CASE ~ \E i \in 1..Len(seq) : seq[i] = t
  <2>1. RemoveFirst(seq, t) = seq
    BY <1>1 DEF RemoveFirst
  <2> QED
    BY <1>1, <2>1 DEF Ranks
<1>2. CASE \E i \in 1..Len(seq) : seq[i] = t
  <2>1. PICK k \in 1..Len(seq) : seq[k] = t
    BY <1>2
  <2>2. {i \in 1..Len(seq) : seq[i] = t} = {k}
    BY <2>1 DEF Ranks
  <2>3. SelectInSeq(seq, LAMBDA v : v = t) = k
    <3>1. Min({k}) = k
      BY <2>1 DEF Min, Ranks
    <3> QED
      BY <2>2, <3>1 DEF SelectInSeq
  <2>4. RemoveFirst(seq, t) = RemoveAt(seq, k)
    BY <1>2, <2>3 DEF RemoveFirst
  <2> DEFINE less == RemoveAt(seq, k)
  <2>5. /\ Len(seq) \in Nat /\ k \in Nat /\ k >= 1 /\ k <= Len(seq)
    BY <2>1 DEF Ranks
  <2>6. /\ less \in Seq(Title) /\ Len(less) = Len(seq) - 1
        /\ \A i \in 1..Len(less) : less[i] = IF i < k THEN seq[i] ELSE seq[i + 1]
    <3> DEFINE before == SubSeq(seq, 1, k - 1)
               after == SubSeq(seq, k + 1, Len(seq))
    <3>1. /\ before \in Seq(Title) /\ Len(before) = k - 1
          /\ \A i \in 1..(k - 1) : before[i] = seq[i]
      BY <2>5 DEF Ranks
    <3>2. /\ after \in Seq(Title) /\ Len(after) = Len(seq) - k
          /\ \A i \in 1..(Len(seq) - k) : after[i] = seq[i + k]
      BY <2>5 DEF Ranks
    <3> HIDE DEF before, after
    <3>3. /\ before \o after \in Seq(Title) /\ Len(before \o after) = Len(seq) - 1
          /\ \A i \in 1..(Len(seq) - 1) :
                (before \o after)[i] = IF i < k THEN before[i] ELSE after[i - (k - 1)]
      <4>1. before \o after \in Seq(Title)
        BY <3>1, <3>2
      <4>0. before \in Seq(Title) /\ after \in Seq(Title)
        BY <3>1, <3>2
      <4>2. Len(before \o after) = Len(before) + Len(after)
        BY <4>0
      <4>3. \A i \in 1..(Len(before) + Len(after)) :
               (before \o after)[i] = IF i <= Len(before) THEN before[i] ELSE after[i - Len(before)]
        BY <3>1, <3>2
      <4> QED
        BY <2>5, <3>1, <3>2, <4>1, <4>2, <4>3
    <3>4. less = before \o after
      BY DEF before, after, RemoveAt
    <3>5. ASSUME NEW i \in 1..(Len(seq) - 1)
          PROVE  less[i] = IF i < k THEN seq[i] ELSE seq[i + 1]
      <4>1. CASE i < k
        BY <2>5, <3>1, <3>3, <3>4, <4>1
      <4>2. CASE ~(i < k)
        <5>1. i - (k - 1) \in 1..(Len(seq) - k) /\ i - (k - 1) + k = i + 1
          BY <2>5, <4>2
        <5> QED
          BY <3>2, <3>3, <3>4, <4>2, <5>1
      <4> QED
        BY <4>1, <4>2
    <3> HIDE DEF less
    <3> QED
      BY <3>3, <3>4, <3>5
  <2> HIDE DEF less
  <2>7. ASSUME NEW i \in 1..Len(less) PROVE less[i] \in titles \ {t}
    <3>1. /\ i \in 1..Len(seq) /\ i + 1 \in 1..Len(seq)
      BY <2>5, <2>6
    <3>2. seq[i] \in titles /\ seq[i + 1] \in titles
      BY <3>1 DEF Ranks
    <3>3. CASE i < k
      <4>1. i # k /\ less[i] = seq[i]
        BY <2>5, <2>6, <3>3
      <4> QED
        BY <2>1, <3>1, <3>2, <4>1 DEF Ranks
    <3>4. CASE ~(i < k)
      <4>1. i + 1 # k /\ less[i] = seq[i + 1]
        BY <2>5, <2>6, <3>1, <3>4
      <4> QED
        BY <2>1, <3>1, <3>2, <4>1 DEF Ranks
    <3> QED
      BY <3>3, <3>4
  <2>8. ASSUME NEW u \in titles \ {t} PROVE \E i \in 1..Len(less) : less[i] = u
    <3>1. PICK i \in 1..Len(seq) : seq[i] = u
      BY DEF Ranks
    <3>2. i # k
      BY <2>1, <3>1
    <3>3. CASE i < k
      BY <2>5, <2>6, <3>1, <3>3
    <3>4. CASE i > k
      <4>1. i - 1 \in 1..Len(less) /\ ~(i - 1 < k) /\ (i - 1) + 1 = i
        BY <2>5, <2>6, <3>1, <3>4
      <4>2. less[i - 1] = seq[i]
        BY <2>6, <4>1
      <4> QED
        BY <3>1, <4>1, <4>2
    <3> QED
      BY <2>5, <3>2, <3>3, <3>4
  <2>9. ASSUME NEW i \in 1..Len(less), NEW j \in 1..Len(less), less[i] = less[j] PROVE i = j
    <3> DEFINE o(x) == IF x < k THEN x ELSE x + 1
    <3>1. o(i) \in 1..Len(seq) /\ o(j) \in 1..Len(seq)
      BY <2>5, <2>6
    <3>2. seq[o(i)] = seq[o(j)]
      BY <2>6, <2>9
    <3>3. o(i) = o(j)
      <4> HIDE DEF o
      <4> QED BY <3>1, <3>2 DEF Ranks
    <3> QED
      BY <2>5, <3>3
  <2> QED
    BY <2>4, <2>6, <2>7, <2>8, <2>9 DEF Ranks, less
<1> QED
  BY <1>1, <1>2

(* Newer orders the rows: of two, one is newer, and never in a circle. *)
LEMMA NewerOrders ==
    ASSUME TypeOK, Ranks(rowids, Kept(table))
    PROVE  /\ \A t \in Kept(table) : ~Newer(t, t)
           /\ \A t, u \in Kept(table) : t # u => Newer(t, u) \/ Newer(u, t)
           /\ \A t, u, v \in Kept(table) : Newer(t, u) /\ Newer(u, v) => Newer(t, v)
           /\ \A t, u \in Kept(table) : Newer(t, u) => table[t].updated >= table[u].updated
<1>1. \A t \in Kept(table) : table[t].updated \in Nat
  BY LibraryAssumption DEF Kept, TypeOK, Row
<1>2. DOMAIN rowids = 1..Len(rowids) /\ Len(rowids) \in Nat
  BY DEF Ranks
<1>3. ASSUME NEW t \in Kept(table) PROVE ~Newer(t, t)
  BY <1>1, <1>2, <1>3 DEF Newer, Ranks
<1>4. ASSUME NEW t \in Kept(table), NEW u \in Kept(table), t # u PROVE Newer(t, u) \/ Newer(u, t)
  <2>1. PICK i, j \in DOMAIN rowids : rowids[i] = t /\ rowids[j] = u
    BY <1>2 DEF Ranks
  <2>2. i # j /\ i \in Nat /\ j \in Nat
    BY <1>2, <1>4, <2>1
  <2>3. i > j \/ j > i
    BY <2>2
  <2> QED
    BY <1>1, <2>1, <2>3 DEF Newer
<1>5. ASSUME NEW t \in Kept(table), NEW u \in Kept(table), NEW v \in Kept(table),
             Newer(t, u), Newer(u, v)
      PROVE  Newer(t, v)
  <2>1. /\ table[t].updated \in Nat /\ table[u].updated \in Nat /\ table[v].updated \in Nat
    BY <1>1
  <2>2. CASE table[t].updated = table[u].updated /\ table[u].updated = table[v].updated
    <3>1. PICK i, j \in DOMAIN rowids : rowids[i] = t /\ rowids[j] = u /\ i > j
      BY <1>5, <2>1, <2>2 DEF Newer
    <3>2. PICK k, l \in DOMAIN rowids : rowids[k] = u /\ rowids[l] = v /\ k > l
      BY <1>5, <2>1, <2>2 DEF Newer
    <3>3. j = k
      BY <1>2, <3>1, <3>2 DEF Ranks
    <3>4. i > l
      BY <1>2, <3>1, <3>2, <3>3
    <3> QED
      BY <2>2, <3>1, <3>2, <3>4 DEF Newer
  <2>3. CASE ~(table[t].updated = table[u].updated /\ table[u].updated = table[v].updated)
    <3>1. /\ table[t].updated >= table[u].updated
          /\ table[u].updated >= table[v].updated
      BY <1>5, <2>1 DEF Newer
    <3> QED
      BY <2>1, <2>3, <3>1 DEF Newer
  <2> QED
    BY <2>2, <2>3
<1>6. ASSUME NEW t \in Kept(table), NEW u \in Kept(table), Newer(t, u)
      PROVE  table[t].updated >= table[u].updated
  BY <1>1, <1>6 DEF Newer
<1> QED
  BY <1>3, <1>4, <1>5, <1>6

(* A start numbers the rows as they are ordered, up to their number. *)
LEMMA NumbersOrder ==
    ASSUME TypeOK, Ranks(rowids, Kept(table)), NEW t \in Kept(table)
    PROVE  /\ NumberOf(t) \in Nat /\ NumberOf(t) <= Cardinality(Kept(table))
           /\ \A u \in Kept(table) : Newer(u, t) => NumberOf(t) < NumberOf(u)
<1> DEFINE newer(x) == {v \in Kept(table) : Newer(v, x)}
<1>1. IsFiniteSet(Kept(table)) /\ Cardinality(Kept(table)) \in Nat
  BY LibraryAssumption, FS_Subset, FS_CardinalityType DEF Kept
<1>2. ASSUME NEW x \in Kept(table)
      PROVE  /\ IsFiniteSet(newer(x)) /\ Cardinality(newer(x)) \in Nat
             /\ Cardinality(newer(x)) <= Cardinality(Kept(table))
             /\ NumberOf(x) = Cardinality(Kept(table)) - Cardinality(newer(x))
  <2>1. newer(x) \in SUBSET Kept(table)
    OBVIOUS
  <2>2. IsFiniteSet(newer(x)) /\ Cardinality(newer(x)) <= Cardinality(Kept(table))
    BY <1>1, <2>1, FS_Subset
  <2>3. Cardinality(newer(x)) \in Nat
    BY <2>2, FS_CardinalityType
  <2> QED
    BY <2>2, <2>3 DEF NumberOf
<1>3. ASSUME NEW u \in Kept(table), Newer(u, t) PROVE NumberOf(t) < NumberOf(u)
  <2>1. newer(u) \in SUBSET newer(t) /\ u \in newer(t) /\ u \notin newer(u)
    BY <1>3, NewerOrders
  <2>2. Cardinality(newer(u)) <= Cardinality(newer(t)) /\ Cardinality(newer(u)) # Cardinality(newer(t))
    BY <1>2, <2>1, FS_Subset
  <2> HIDE DEF newer
  <2>3. /\ NumberOf(t) = Cardinality(Kept(table)) - Cardinality(newer(t))
        /\ NumberOf(u) = Cardinality(Kept(table)) - Cardinality(newer(u))
        /\ Cardinality(newer(t)) \in Nat /\ Cardinality(newer(u)) \in Nat
    BY <1>2
  <2> QED
    BY <1>1, <2>2, <2>3
<1> HIDE DEF newer
<1> QED
  BY <1>1, <1>2, <1>3

-----------------------------------------------------------------------------
(***************************************************************************)
(* The order of the lists: rowids rank the rows, the numbers of the mirror *)
(* are apart and below the next one, and no row is ahead of its time.      *)
(***************************************************************************)
Numbered ==
    \A t \in Kept(slots) :
       /\ slots[t].seq < next_seq
       /\ \A u \in Kept(slots) : slots[t].seq = slots[u].seq => t = u

Timed == \A t \in Kept(table) : table[t].updated <= now

(* What comes later in the mirror was not changed earlier in the table. *)
OrderAgrees ==
    \A t, u \in (Kept(slots) \cap Kept(table)) \ doubtful :
       slots[t].seq < slots[u].seq => table[t].updated <= table[u].updated

OrderInv ==
    /\ TypeOK
    /\ Agree
    /\ Ranks(rowids, Kept(table))
    /\ Numbered
    /\ Timed
    /\ OrderAgrees

LEMMA MirrorOnTop ==
    ASSUME TypeOK, Numbered, NEW t \in Title, NEW card \in Card, NEW mark \in Mark,
           Update(t, card, mark)
    PROVE  /\ Numbered'
           /\ \A u \in Title \ {t} : slots'[u] = slots[u]
           /\ t \in Kept(slots') =>
                 /\ slots'[t].seq = next_seq
                 /\ \A u \in Kept(slots) : slots[u].seq < slots'[t].seq
<1> DEFINE new == [card |-> card, mark |-> mark, seq |-> next_seq]
<1>1. \A u \in Kept(slots) : slots[u].seq \in Nat
  BY DEF Kept, TypeOK, Entry
<1>2. \A u \in Title \ {t} : slots'[u] = slots[u]
  BY DEF Update, TypeOK
<1>3. next_seq \in Nat
  BY DEF TypeOK
<1>4. CASE mark = Unmarked
  <2>1. slots'[t] = None /\ next_seq' = next_seq
    BY <1>4 DEF Update, TypeOK
  <2>2. \A u \in Kept(slots') : u \in Kept(slots) /\ slots'[u] = slots[u]
    BY <1>2, <2>1 DEF Kept
  <2>3. t \notin Kept(slots')
    BY <2>1 DEF Kept
  <2>4. Numbered'
    BY <2>1, <2>2 DEF Numbered
  <2> QED
    BY <1>2, <2>3, <2>4
<1>5. CASE mark # Unmarked
  <2>1. slots'[t] = new /\ next_seq' = next_seq + 1
    BY <1>5 DEF Update, TypeOK
  <2>2. \A u \in Kept(slots') : u # t => u \in Kept(slots) /\ slots'[u] = slots[u]
    BY <1>2 DEF Kept
  <2>3. slots'[t].seq = next_seq
    BY <2>1
  <2> HIDE DEF new
  <2>4. \A u \in Kept(slots) : slots[u].seq < slots'[t].seq
    BY <2>3 DEF Numbered
  <2>5. ASSUME NEW x \in Kept(slots')
        PROVE  /\ slots'[x].seq < next_seq'
               /\ \A u \in Kept(slots') : slots'[x].seq = slots'[u].seq => x = u
    BY <1>1, <1>3, <2>1, <2>2, <2>3, <2>4 DEF Numbered
  <2>6. Numbered'
    BY <2>5 DEF Numbered
  <2> QED
    BY <1>2, <2>3, <2>4, <2>6
<1> QED
  BY <1>4, <1>5

(* A write is of now, and leaves the rows ranked. *)
LEMMA RowsAfter ==
    ASSUME TypeOK, Timed, Ranks(rowids, Kept(table)), UNCHANGED now,
           NEW t \in Title, NEW row \in Row \cup {None}, Write(t, row),
           row # None => row.updated = now
    PROVE  /\ Ranks(rowids', Kept(table')) /\ Timed'
           /\ \A u \in Title \ {t} : table'[u] = table[u]
           /\ t \in Kept(table') => table'[t].updated = now
<1>1. table'[t] = row /\ \A u \in Title \ {t} : table'[u] = table[u]
  BY DEF Write, TypeOK
<1>2. Kept(table) \in SUBSET Title
  BY DEF Kept
<1>3. t \in Kept(table') => table'[t].updated = now
  BY <1>1 DEF Kept
<1>4. now \in Nat
  BY LibraryAssumption DEF TypeOK
<1>5. Timed'
  BY <1>1, <1>3, <1>4 DEF Timed, Kept
<1>6. CASE row = None
  <2>1. Kept(table') = Kept(table) \ {t}
    BY <1>1, <1>6 DEF Kept
  <2>2. rowids' = RemoveFirst(rowids, t)
    BY <1>6 DEF Write
  <2> QED
    BY <1>1, <1>2, <1>3, <1>5, <2>1, <2>2, RanksRemove
<1>7. CASE row # None /\ table[t] = None
  <2>1. Kept(table') = Kept(table) \cup {t} /\ t \in Title \ Kept(table)
    BY <1>1, <1>7 DEF Kept
  <2>2. rowids' = Append(rowids, t)
    BY <1>7 DEF Write
  <2> QED
    BY <1>1, <1>2, <1>3, <1>5, <2>1, <2>2, RanksAppend
<1>8. CASE row # None /\ table[t] # None
  <2>1. Kept(table') = Kept(table)
    BY <1>1, <1>8 DEF Kept
  <2>2. rowids' = rowids
    BY <1>8 DEF Write
  <2> QED
    BY <1>1, <1>3, <1>5, <2>1, <2>2
<1> QED
  BY <1>6, <1>7, <1>8

(* A change of title t: of the mirror, and now of the table too unless the *)
(* title is in doubt from there on.                                        *)
LEMMA OrderAfter ==
    ASSUME OrderInv, UNCHANGED now,
           NEW t \in Title, NEW card \in Card, NEW mark \in Mark, Update(t, card, mark),
           \/ \E row \in Row \cup {None} :
                 /\ Write(t, row) /\ (row # None => row.updated = now)
                 /\ UNCHANGED doubtful
           \/ /\ UNCHANGED <<table, rowids>>
              /\ t \in doubtful' /\ doubtful \subseteq doubtful'
    PROVE  Ranks(rowids', Kept(table')) /\ Numbered' /\ Timed' /\ OrderAgrees'
<1>1. /\ Numbered'
      /\ \A u \in Title \ {t} : slots'[u] = slots[u]
      /\ t \in Kept(slots') =>
            /\ slots'[t].seq = next_seq
            /\ \A u \in Kept(slots) : slots[u].seq < slots'[t].seq
  BY MirrorOnTop DEF OrderInv
<1>2. CASE \E row \in Row \cup {None} :
              /\ Write(t, row) /\ (row # None => row.updated = now)
              /\ UNCHANGED doubtful
  <2>1. PICK row \in Row \cup {None} :
              /\ Write(t, row) /\ (row # None => row.updated = now)
              /\ UNCHANGED doubtful
    BY <1>2
  <2>2. /\ Ranks(rowids', Kept(table')) /\ Timed'
        /\ \A u \in Title \ {t} : table'[u] = table[u]
        /\ t \in Kept(table') => table'[t].updated = now
    BY <2>1, RowsAfter DEF OrderInv
  <2>3. ASSUME NEW x \in ((Kept(slots) \cap Kept(table)) \ doubtful)',
               NEW u \in ((Kept(slots) \cap Kept(table)) \ doubtful)',
               slots'[x].seq < slots'[u].seq
        PROVE  table'[x].updated <= table'[u].updated
    <3>1. /\ slots'[x].seq \in Nat
          /\ table'[x].updated \in Nat /\ table'[x].updated <= now /\ now \in Nat
      <4>1. slots' \in [Title -> Entry \cup {None}] /\ x \in Title /\ slots'[x] # None
        BY UpdateChanges DEF OrderInv, Kept
      <4>2. table' \in [Title -> Row \cup {None}] /\ table'[x] # None
        BY <2>1, WriteChanges DEF OrderInv, Kept
      <4>3. table'[x].updated <= now'
        BY <2>2 DEF Timed
      <4> QED
        BY <4>1, <4>2, <4>3, LibraryAssumption DEF Entry, Row, OrderInv, TypeOK
    <3>2. CASE u = t
      BY <2>2, <3>1, <3>2 DEF Kept
    <3>3. CASE u # t
      <4>1. u \in Kept(slots) /\ u \in Kept(table) /\ u \notin doubtful /\ u \in Title
        BY <1>1, <2>1, <2>2, <3>3 DEF Kept
      <4>2. x # t
        <5>1. SUFFICES ASSUME x = t PROVE FALSE
          OBVIOUS
        <5>2. slots[u].seq < slots'[t].seq /\ slots'[u].seq = slots[u].seq
          BY <1>1, <3>3, <4>1, <5>1 DEF Kept
        <5>3. slots[u].seq \in Nat
          BY <4>1 DEF OrderInv, TypeOK, Kept, Entry
        <5> QED
          BY <2>3, <3>1, <5>1, <5>2, <5>3
      <4>3. x \in Kept(slots) /\ x \in Kept(table) /\ x \notin doubtful /\ x \in Title
        BY <1>1, <2>1, <2>2, <4>2 DEF Kept
      <4>4. slots[x].seq < slots[u].seq
        BY <1>1, <2>3, <3>3, <4>1, <4>2, <4>3
      <4> QED
        BY <2>2, <3>3, <4>1, <4>2, <4>3, <4>4 DEF OrderInv, OrderAgrees
    <3> QED
      BY <3>2, <3>3
  <2>4. OrderAgrees'
    BY <2>3 DEF OrderAgrees
  <2> QED
    BY <1>1, <2>2, <2>4
<1>3. CASE UNCHANGED <<table, rowids>> /\ t \in doubtful' /\ doubtful \subseteq doubtful'
  <2>1. OrderAgrees'
    <3>1. \A x \in ((Kept(slots) \cap Kept(table)) \ doubtful)' :
             /\ x \in (Kept(slots) \cap Kept(table)) \ doubtful
             /\ slots'[x] = slots[x] /\ table'[x] = table[x]
      BY <1>1, <1>3 DEF Kept
    <3> QED
      BY <3>1 DEF OrderInv, OrderAgrees
  <2>2. Ranks(rowids', Kept(table')) /\ Timed'
    BY <1>3 DEF OrderInv, Timed, Kept
  <2> QED
    BY <1>1, <2>1, <2>2
<1> QED
  BY <1>2, <1>3

LEMMA UpsertWrites ==
    ASSUME TypeOK, NEW t \in Title, NEW card \in Card, NEW mark \in Mark, Upsert(t, card, mark)
    PROVE  \E row \in Row \cup {None} : Write(t, row) /\ (row # None => row.updated = now)
<1>1. CASE mark = Unmarked
  BY <1>1 DEF Upsert
<1>2. CASE mark # Unmarked
  <2> DEFINE row == [card |-> card, mark |-> mark, updated |-> now]
  <2>1. Write(t, row) /\ row \in Row /\ row.updated = now
    BY <1>2 DEF Upsert, Row, TypeOK
  <2> HIDE DEF row
  <2> QED
    BY <2>1
<1> QED
  BY <1>1, <1>2

LEMMA FillWrites ==
    ASSUME TypeOK, NEW t \in Title, NEW card \in Card, FillStatus(t, card),
           MarkOf(table, t).status = None
    PROVE  \E row \in Row : Write(t, row) /\ row.updated = now
<1>0. Watching \in Status /\ Watching # None
  BY LibraryAssumption
<1>1. CASE table[t] = None
  <2> DEFINE row == [card |-> card, mark |-> [Unmarked EXCEPT !.status = Watching],
                     updated |-> now]
  <2>1. Write(t, row)
    BY <1>1 DEF FillStatus
  <2>2. row \in Row /\ row.updated = now
    BY <1>0 DEF Row, TypeOK, Mark, Unmarked
  <2> HIDE DEF row
  <2> QED
    BY <2>1, <2>2
<1>2. CASE table[t] # None
  <2> DEFINE row == [table[t] EXCEPT !.mark.status = Watching, !.updated = now]
  <2>1. table[t].mark.status = None /\ table[t] \in Row
    BY <1>2 DEF MarkOf, TypeOK
  <2>2. Write(t, row)
    BY <1>2, <2>1 DEF FillStatus
  <2>3. row \in Row /\ row.updated = now
    BY <1>0, <2>1 DEF Row, TypeOK, Mark, Unmarked
  <2> HIDE DEF row
  <2> QED
    BY <2>2, <2>3
<1> QED
  BY <1>1, <1>2

LEMMA OrderInit == Init => OrderInv
  BY InitImplements, LibraryAssumption
  DEF Init, OrderInv, TypeOK, Ranks, Kept, Numbered, Timed, OrderAgrees

(* What a start shows, and that it keeps the order. *)
LEMMA OrderAfterStart ==
    ASSUME OrderInv, Restart
    PROVE  /\ Ranks(rowids', Kept(table')) /\ Numbered' /\ Timed' /\ OrderAgrees'
           /\ \A t, u \in Kept(table) :
                 table[t].updated < table[u].updated => slots'[t].seq < slots'[u].seq
<1> DEFINE K == Kept(table)
<1>1. /\ slots' = Entries /\ next_seq' = Cardinality(K) + 1 /\ doubtful' = {}
      /\ UNCHANGED <<table, rowids, now>> /\ Kept(table') = K
  BY DEF Restart, Kept
<1>2. /\ Cardinality(K) \in Nat
      /\ \A t \in K : NumberOf(t) \in Nat /\ NumberOf(t) <= Cardinality(K)
      /\ \A t, u \in K : Newer(u, t) => NumberOf(t) < NumberOf(u)
  BY EntriesTyped, NumbersOrder DEF OrderInv
<1>3. Kept(slots') = K /\ \A t \in K : slots'[t].seq = NumberOf(t)
  <2>1. \A t \in Title : slots'[t] = None <=> table[t] = None
    <3>1. slots' \in [Title -> Entry \cup {None}]
      BY <1>1, EntriesTyped DEF OrderInv
    <3>2. \A t \in Title : table[t] # None =>
             [card |-> table[t].card, mark |-> table[t].mark, seq |-> NumberOf(t)] \in Entry
      BY <1>2 DEF Kept, OrderInv, TypeOK, Row, Entry
    <3> QED
      BY <1>1, <3>2, NoneIsNoRecord DEF Entries
  <2>2. \A t \in K : slots'[t].seq = NumberOf(t)
    BY <1>1 DEF Entries, Kept
  <2> QED
    BY <2>1, <2>2 DEF Kept
<1>4. /\ \A t, u \in K : t # u => Newer(t, u) \/ Newer(u, t)
      /\ \A t, u \in K : Newer(t, u) => table[t].updated >= table[u].updated
      /\ \A t \in K : table[t].updated \in Nat
  BY NewerOrders, LibraryAssumption DEF OrderInv, TypeOK, Row, Kept
<1> HIDE DEF K
<1>5. Numbered'
  <2>1. ASSUME NEW t \in K
        PROVE  /\ NumberOf(t) < Cardinality(K) + 1
               /\ \A u \in K : NumberOf(t) = NumberOf(u) => t = u
    <3>1. NumberOf(t) < Cardinality(K) + 1
      BY <1>2
    <3>2. ASSUME NEW u \in K, t # u PROVE NumberOf(t) # NumberOf(u)
      BY <1>2, <1>4, <3>2
    <3> QED
      BY <3>1, <3>2
  <2> QED
    BY <1>1, <1>3, <2>1 DEF Numbered
<1>6. ASSUME NEW t \in K, NEW u \in K, NumberOf(t) < NumberOf(u)
      PROVE  table[t].updated <= table[u].updated
  <2>1. t # u /\ ~Newer(t, u)
    BY <1>2, <1>6
  <2> QED
    BY <1>4, <2>1
<1>7. OrderAgrees'
  BY <1>1, <1>3, <1>6 DEF OrderAgrees
<1>8. ASSUME NEW t \in K, NEW u \in K, table[t].updated < table[u].updated
      PROVE  NumberOf(t) < NumberOf(u)
  <2>1. t # u /\ ~Newer(t, u)
    BY <1>4, <1>8
  <2> QED
    BY <1>2, <1>4, <2>1
<1>9. Ranks(rowids', Kept(table')) /\ Timed'
  BY <1>1 DEF OrderInv, Timed, K
<1> QED
  BY <1>3, <1>5, <1>7, <1>8, <1>9 DEF K

LEMMA OrderStep == OrderInv /\ [Next]_vars => OrderInv'
<1> SUFFICES ASSUME OrderInv, [Next]_vars PROVE OrderInv'
  OBVIOUS
<1>0. TypeOK /\ Agree
  BY DEF OrderInv
<1>1. ASSUME NEW t \in Title, NEW card \in Card, NEW s \in Status \cup {None},
             SetListStatus(t, card, s)
      PROVE  Ranks(rowids', Kept(table')) /\ Numbered' /\ Timed' /\ OrderAgrees'
  <2> DEFINE stored == [MarkOf(table, t) EXCEPT !.status = s]
             m == [MarkOf(slots, t) EXCEPT !.status = s]
  <2>1. stored \in Mark /\ m \in Mark
    BY <1>0, ChosenMarks
  <2>2. /\ Update(t, card, m) /\ UNCHANGED now
        /\ (Upsert(t, card, stored) /\ UNCHANGED doubtful) \/ Fails(t)
    BY <1>1 DEF SetListStatus
  <2> HIDE DEF stored, m
  <2> QED
    BY <1>0, <2>1, <2>2, UpsertWrites, OrderAfter DEF Fails
<1>2. ASSUME NEW t \in Title, NEW card \in Card, NEW liked \in BOOLEAN, SetLiked(t, card, liked)
      PROVE  Ranks(rowids', Kept(table')) /\ Numbered' /\ Timed' /\ OrderAgrees'
  <2> DEFINE stored == [MarkOf(table, t) EXCEPT !.liked = liked]
             m == [MarkOf(slots, t) EXCEPT !.liked = liked]
  <2>1. stored \in Mark /\ m \in Mark
    BY <1>0, ChosenMarks
  <2>2. /\ Update(t, card, m) /\ UNCHANGED now
        /\ (Upsert(t, card, stored) /\ UNCHANGED doubtful) \/ Fails(t)
    BY <1>2 DEF SetLiked
  <2> HIDE DEF stored, m
  <2> QED
    BY <1>0, <2>1, <2>2, UpsertWrites, OrderAfter DEF Fails
<1>3. ASSUME NEW t \in Title, NEW card \in Card, MarkWatchingIfUnset(t, card)
      PROVE  Ranks(rowids', Kept(table')) /\ Numbered' /\ Timed' /\ OrderAgrees'
  <2> DEFINE m == [MarkOf(slots, t) EXCEPT !.status = Watching]
  <2>1. m \in Mark
    BY <1>0, ChosenMarks, LibraryAssumption
  <2>2. /\ Update(t, card, m) /\ UNCHANGED now /\ MarkOf(slots, t).status = None
        /\ (FillStatus(t, card) /\ UNCHANGED doubtful) \/ Fails(t)
    BY <1>3 DEF MarkWatchingIfUnset
  <2> HIDE DEF m
  <2>3. CASE Fails(t)
    BY <2>1, <2>2, <2>3, OrderAfter DEF Fails
  <2>4. CASE FillStatus(t, card) /\ UNCHANGED doubtful /\ MarkOf(table, t).status = None
    BY <1>0, <2>1, <2>2, <2>4, FillWrites, OrderAfter
  <2>5. CASE FillStatus(t, card) /\ UNCHANGED doubtful /\ MarkOf(table, t).status # None
    <3>1. t \in doubtful
      BY <1>0, <2>2, <2>5 DEF Agree
    <3>2. UNCHANGED <<table, rowids>>
      BY <2>5 DEF FillStatus, MarkOf, Unmarked
    <3> QED
      BY <2>1, <2>2, <2>5, <3>1, <3>2, OrderAfter
  <2> QED
    BY <2>2, <2>3, <2>4, <2>5
<1>4. Ranks(rowids', Kept(table')) /\ Numbered' /\ Timed' /\ OrderAgrees'
  <2>1. CASE Restart
    BY <2>1, OrderAfterStart
  <2>2. CASE RestartUnread
    BY <2>2 DEF RestartUnread, OrderInv, Kept, Numbered, Timed, OrderAgrees
  <2>3. CASE Tick
    <3>1. \A t \in Kept(table) : table[t].updated \in Nat
      BY <1>0, LibraryAssumption DEF TypeOK, Row, Kept
    <3> QED
      BY <1>0, <2>3, <3>1, LibraryAssumption
      DEF Tick, OrderInv, TypeOK, Kept, Numbered, Timed, OrderAgrees
  <2>4. CASE UNCHANGED vars
    BY <2>4 DEF vars, OrderInv, Kept, Numbered, Timed, OrderAgrees
  <2> QED
    BY <1>1, <1>2, <1>3, <2>1, <2>2, <2>3, <2>4 DEF Next
<1>5. TypeOK'
  BY <1>0, TypeStep
<1>6. Agree'
  BY <1>0, StepImplements
<1> QED
  BY <1>4, <1>5, <1>6 DEF OrderInv, Kept

LEMMA OrderAlways == Spec => []OrderInv
  BY OrderInit, OrderStep, PTL DEF Spec

(***************************************************************************)
(* Library::list sorts by numbers that are all different, from_entries     *)
(* gives them and Library::set goes on above them: the order of a list is  *)
(* never in doubt, nor is that of the rows behind it.                      *)
(***************************************************************************)
THEOREM OrderIsTotal == Spec => []NoTies
<1>1. OrderInv => NoTies
  <2>1. Kept(table) \in SUBSET Title
    BY DEF Kept
  <2> QED
    BY <2>1, RanksCount DEF OrderInv, NoTies, Numbered
<1> QED
  BY <1>1, OrderAlways, PTL

(***************************************************************************)
(* A restart shows two titles that were changed in different seconds in    *)
(* the order it found them in, unless a logged failure was about one.      *)
(***************************************************************************)
THEOREM OrderIsKept == Spec => RestartKeepsOrder
<1>1. ASSUME OrderInv, Restart,
             NEW t \in (Kept(slots) \cap Kept(table)) \ doubtful,
             NEW u \in (Kept(slots) \cap Kept(table)) \ doubtful,
             slots[t].seq < slots[u].seq, table[t].updated # table[u].updated
      PROVE  slots'[t].seq < slots'[u].seq
  <2>1. table[t].updated <= table[u].updated
    BY <1>1 DEF OrderInv, OrderAgrees
  <2>2. table[t].updated \in Nat /\ table[u].updated \in Nat
    BY <1>1, LibraryAssumption DEF OrderInv, TypeOK, Row, Kept
  <2>3. table[t].updated < table[u].updated
    BY <1>1, <2>1, <2>2
  <2> QED
    BY <1>1, <2>3, OrderAfterStart
<1>2. OrderInv =>
        [Restart => \A t, u \in (Kept(slots) \cap Kept(table)) \ doubtful :
            slots[t].seq < slots[u].seq /\ table[t].updated # table[u].updated
              => slots'[t].seq < slots'[u].seq]_vars
  BY <1>1
<1> QED
  BY <1>2, OrderAlways, PTL DEF RestartKeepsOrder

-----------------------------------------------------------------------------
(***************************************************************************)
(* The settings.  What the disk has and the app runs with is typed; what   *)
(* is or will be on the disk is what is shown, up to the language of a     *)
(* first run; and a verdict is of the value it stands beside, but for the  *)
(* service whose check the save under way ends with.                       *)
(***************************************************************************)
Files == {Setup!Missing, Setup!Torn} \cup Setup!Settings

Saves == [to : SUBSET Setup!Settings, began : BOOLEAN, loud : BOOLEAN, check : SUBSET Setup!Service]

Apps == [on : BOOLEAN, set : Setup!Settings, save : Saves, save_error : BOOLEAN, load_error : BOOLEAN]

Finds == {Setup!Searching} \cup [parsers : SUBSET Preset, servers : SUBSET Values["torr"]]

Wizards == [open : BOOLEAN, step : STRING, found : Finds]

Verdict == {Setup!Idle} \cup
           [state : {"pending", "done"}, of : UNION {Setup!Worth(s) : s \in Setup!Service}]

SettingsTyped ==
    /\ file \in Files
    /\ app \in Apps
    /\ wizard \in Wizards
    /\ checks \in [Setup!Service -> Verdict]

(* What is shown while the disk has kept. *)
Same(kept, set) ==
    \/ kept = set
    \/ ~kept.onboarded /\ ~Setup!IsSet("tmdb", kept) /\ set = Setup!Greeted(kept)

DiskFollows ==
    /\ app.save = Setup!NotSaving /\ ~app.save_error => Same(Setup!Load(file), app.set)
    /\ \A set \in app.save.to : Same(set, app.set)
    /\ app.save # Setup!NotSaving /\ ~app.save.loud =>
          file \in {Setup!Missing, Setup!Torn} /\ Same(Setup!Defaults, app.set)

OfNow(s, set, binds) ==
    IF Setup!Checkable(s, set)
    THEN binds[s] # Setup!Idle /\ binds[s].of = set.at[s]
    ELSE binds[s] = Setup!Idle

VerdictsFollow ==
    app.on /\ wizard.open => \A s \in Setup!Service \ app.save.check : OfNow(s, app.set, checks)

SettingsInv == SettingsTyped /\ DiskFollows /\ VerdictsFollow

(* A file that says nothing is not taken for settings. *)
LEMMA FilesDiffer ==
    /\ Setup!Missing # Setup!Torn
    /\ Setup!Missing \notin Setup!Settings /\ Setup!Torn \notin Setup!Settings
<1>1. ASSUME NEW set \in Setup!Settings
      PROVE  "onboarded" \in DOMAIN set
  BY DEF Setup!Settings
<1>2. "onboarded" \notin DOMAIN Setup!Missing /\ "onboarded" \notin DOMAIN Setup!Torn
  BY DEF Setup!Missing, Setup!Torn
<1>3. "missing" \in DOMAIN Setup!Missing /\ "missing" \notin DOMAIN Setup!Torn
  BY DEF Setup!Missing, Setup!Torn
<1> QED
  BY <1>1, <1>2, <1>3

LEMMA DefaultsTyped ==
    /\ Setup!Defaults \in Setup!Settings
    /\ ~Setup!Defaults.onboarded
    /\ ~Setup!IsSet("tmdb", Setup!Defaults)
<1>1. \E l \in Language : l # Os
  BY SetupAssumed DEF Setup!SettingsAssumption
<1>2. (CHOOSE l \in Language : l # Os) \in Language
  BY <1>1
<1>3. \A s \in Setup!Service : Initial[s] \in Setup!Worth(s)
  BY SetupAssumed DEF Setup!SettingsAssumption, Setup!Worth
<1>4. Initial \in [Setup!Service -> UNION {Setup!Worth(s) : s \in Setup!Service}]
  BY <1>3, SetupAssumed DEF Setup!SettingsAssumption
<1>5. Setup!Defaults \in Setup!Settings
  BY <1>2, <1>3, <1>4 DEF Setup!Defaults, Setup!Settings
<1>6. ~Setup!Defaults.onboarded /\ Setup!Defaults.at = Initial
  BY DEF Setup!Defaults
<1> QED
  BY <1>5, <1>6, SetupAssumed DEF Setup!IsSet, Setup!SettingsAssumption

LEMMA LoadTyped ==
    ASSUME NEW f \in Files
    PROVE  Setup!Load(f) \in Setup!Settings
BY DefaultsTyped DEF Files, Setup!Load

(* What the app makes of the settings it has read. *)
LEMMA MarkedTyped ==
    ASSUME NEW set \in Setup!Settings
    PROVE  /\ Setup!Marked(set) \in Setup!Settings
           /\ Setup!Greeted(set) \in Setup!Settings
<1>1. Os \in Language
  BY SetupAssumed DEF Setup!SettingsAssumption
<1>2. set.onboarded \in BOOLEAN /\ set.at = [set EXCEPT !.onboarded = TRUE].at
  BY DEF Setup!Settings
<1>3. [set EXCEPT !.onboarded = TRUE] \in Setup!Settings
  BY DEF Setup!Settings
<1>4. [set EXCEPT !.lang = Os] \in Setup!Settings
  BY <1>1 DEF Setup!Settings
<1> QED
  BY <1>3, <1>4 DEF Setup!Marked, Setup!Greeted

(* The settings of a start follow those it has read. *)
LEMMA StartFollows ==
    ASSUME NEW set \in Setup!Settings, Setup!Marked(set) = set
    PROVE  Same(set, Setup!Greeted(set))
<1>1. CASE set.onboarded
  BY <1>1 DEF Same, Setup!Greeted
<1>2. CASE ~set.onboarded
  <2>1. [set EXCEPT !.onboarded = TRUE].onboarded
    BY DEF Setup!Settings
  <2>2. ~Setup!IsSet("tmdb", set)
    BY <1>2, <2>1 DEF Setup!Marked
  <2> QED
    BY <1>2, <2>2 DEF Same
<1> QED
  BY <1>1, <1>2

(* What a start makes of two that are the same to the user. *)
LEMMA SameStarts ==
    ASSUME NEW kept \in Setup!Settings, NEW set \in Setup!Settings, Same(kept, set)
    PROVE  /\ Setup!Greeted(kept) = Setup!Greeted(set)
           /\ Setup!Greeted(Setup!Marked(kept)) = Setup!Greeted(Setup!Marked(set))
<1>1. CASE kept = set
  BY <1>1
<1>2. CASE /\ ~kept.onboarded /\ ~Setup!IsSet("tmdb", kept)
           /\ set = Setup!Greeted(kept)
  <2>1. set = [kept EXCEPT !.lang = Os]
    BY <1>2 DEF Setup!Greeted
  <2>2. ~set.onboarded /\ set.at = kept.at /\ [set EXCEPT !.lang = Os] = set
    BY <1>2, <2>1 DEF Setup!Settings
  <2>3. ~Setup!IsSet("tmdb", set)
    BY <1>2, <2>2 DEF Setup!IsSet
  <2>4. Setup!Marked(kept) = kept /\ Setup!Marked(set) = set
    BY <1>2, <2>3 DEF Setup!Marked
  <2>5. Setup!Greeted(set) = set
    BY <2>2 DEF Setup!Greeted
  <2> QED
    BY <1>2, <2>4, <2>5
<1> QED
  BY <1>1, <1>2 DEF Same

LEMMA SavesTyped ==
    /\ Setup!NotSaving \in Saves
    /\ Setup!NotSaving.to = {} /\ ~Setup!NotSaving.began /\ Setup!NotSaving.check = {}
BY DEF Setup!NotSaving, Saves

LEMMA LoudTyped ==
    ASSUME NEW set \in Setup!Settings, NEW check \in SUBSET Setup!Service
    PROVE  LET save == Setup!Saving(set, TRUE, check)
           IN  /\ save \in Saves /\ save # Setup!NotSaving
               /\ save.to = {set} /\ save.loud = TRUE /\ save.check = check
BY SavesTyped DEF Setup!Saving, Saves

LEMMA QuietTyped ==
    ASSUME NEW set \in Setup!Settings
    PROVE  LET save == Setup!Saving(set, FALSE, {})
           IN  /\ save \in Saves /\ save # Setup!NotSaving
               /\ save.to = {set} /\ save.loud = FALSE /\ save.check = {}
BY SavesTyped DEF Setup!Saving, Saves

(* A verdict depends on the value it stands beside alone. *)
LEMMA OfNowStays ==
    ASSUME NEW s, NEW set, NEW other, NEW binds,
           set.at[s] = other.at[s], OfNow(s, set, binds)
    PROVE  OfNow(s, other, binds)
BY DEF OfNow, Setup!Checkable, Setup!IsSet

LEMMA AskedTyped ==
    ASSUME NEW set \in Setup!Settings, NEW s \in Setup!Service
    PROVE  /\ Setup!Asked(s, set) \in Verdict \ {Setup!Idle}
           /\ Setup!Asked(s, set).of = set.at[s]
           /\ Setup!Idle \in Verdict
<1>1. set.at[s] \in UNION {Setup!Worth(r) : r \in Setup!Service}
  BY DEF Setup!Settings
<1>2. Setup!Asked(s, set).state # Setup!Idle.state
  BY DEF Setup!Asked, Setup!Idle
<1>3. Setup!Asked(s, set) \in Verdict
  BY <1>1 DEF Setup!Asked, Verdict
<1> QED
  BY <1>2, <1>3 DEF Setup!Asked, Verdict

(* The wizard asks anew of all. *)
LEMMA OpenAsks ==
    ASSUME NEW set \in Setup!Settings, Setup!Open(set)
    PROVE  /\ wizard' \in Wizards /\ checks' \in [Setup!Service -> Verdict]
           /\ \A s \in Setup!Service : OfNow(s, set, checks')
<1>1. Setup!NoWizard \in Wizards
  BY SetupAssumed DEF Setup!NoWizard, Wizards, Finds, Setup!SettingsAssumption
<1>2. wizard' \in Wizards
  BY <1>1 DEF Setup!Open, Wizards
<1>3. ASSUME NEW s \in Setup!Service
      PROVE  checks'[s] = IF Setup!Checkable(s, set) THEN Setup!Asked(s, set) ELSE Setup!Idle
  BY DEF Setup!Open
<1>4. ASSUME NEW s \in Setup!Service
      PROVE  checks'[s] \in Verdict /\ OfNow(s, set, checks')
  BY <1>3, AskedTyped DEF OfNow
<1>5. checks' = [s \in Setup!Service |-> checks'[s]]
  BY DEF Setup!Open
<1> QED
  BY <1>2, <1>4, <1>5

(* A step that leaves the settings, the file and the verdicts. *)
LEMMA RestKeeps ==
    ASSUME SettingsInv, UNCHANGED <<file, app, checks>>, wizard' \in Wizards,
           wizard'.open => wizard.open
    PROVE  SettingsInv'
<1>1. SettingsTyped'
  BY DEF SettingsInv, SettingsTyped
<1>2. DiskFollows'
  BY DEF SettingsInv, DiskFollows
<1>3. VerdictsFollow'
  BY DEF SettingsInv, VerdictsFollow
<1> QED
  BY <1>1, <1>2, <1>3 DEF SettingsInv

(* The app stops, at rest or in the middle of a save. *)
LEMMA StopKeeps ==
    ASSUME SettingsInv, app' = [app EXCEPT !.on = FALSE], UNCHANGED <<file, wizard, checks>>
    PROVE  SettingsInv'
<1>1. /\ app' \in Apps /\ ~app'.on
      /\ app'.set = app.set /\ app'.save = app.save /\ app'.save_error = app.save_error
  BY DEF SettingsInv, SettingsTyped, Apps
<1>2. SettingsTyped'
  BY <1>1 DEF SettingsInv, SettingsTyped
<1>3. DiskFollows'
  BY <1>1 DEF SettingsInv, DiskFollows
<1>4. VerdictsFollow'
  BY <1>1 DEF VerdictsFollow
<1> QED
  BY <1>2, <1>3, <1>4 DEF SettingsInv

(* The settings become set and are saved, then what check names is asked. *)
LEMMA PersistKeeps ==
    ASSUME SettingsInv, Setup!Idles, UNCHANGED file,
           NEW set \in Setup!Settings, NEW check \in SUBSET Setup!Service,
           Setup!Persist(set, check),
           wizard' \in Wizards, checks' \in [Setup!Service -> Verdict],
           wizard'.open => /\ wizard.open /\ checks' = checks
                           /\ \A s \in Setup!Service \ check : set.at[s] = app.set.at[s]
    PROVE  SettingsInv'
<1> DEFINE save == Setup!Saving(set, TRUE, check)
<1>1. /\ save \in Saves /\ save # Setup!NotSaving
      /\ save.to = {set} /\ save.loud = TRUE /\ save.check = check
  BY LoudTyped
<1> HIDE DEF save
<1>2. app' = [app EXCEPT !.set = set, !.save_error = FALSE, !.save = save]
  BY DEF Setup!Persist, save
<1>3. /\ app' \in Apps /\ app'.on = app.on
      /\ app'.set = set /\ app'.save = save /\ app'.save_error = FALSE
  BY <1>1, <1>2 DEF SettingsInv, SettingsTyped, Apps
<1>4. SettingsTyped'
  BY <1>3 DEF SettingsInv, SettingsTyped
<1>5. DiskFollows'
  BY <1>1, <1>3 DEF DiskFollows, Same
<1>6. ASSUME app'.on, wizard'.open, NEW s \in Setup!Service \ app'.save.check
      PROVE  OfNow(s, app'.set, checks')
  <2>1. app.save.check = {}
    BY SavesTyped DEF Setup!Idles
  <2>2. OfNow(s, app.set, checks)
    BY <1>6, <2>1, <1>3 DEF SettingsInv, VerdictsFollow
  <2>3. set.at[s] = app.set.at[s] /\ checks' = checks
    BY <1>1, <1>3, <1>6
  <2> QED
    BY <1>3, <2>2, <2>3, OfNowStays
<1>7. VerdictsFollow'
  BY <1>6 DEF VerdictsFollow
<1> QED
  BY <1>4, <1>5, <1>7 DEF SettingsInv

LEMMA BootKeeps ==
    ASSUME SettingsInv, Setup!Boot
    PROVE  SettingsInv'
<1> DEFINE loaded == Setup!Load(file)
           set == Setup!Greeted(Setup!Marked(loaded))
           save == IF file = Setup!Missing THEN Setup!Saving(loaded, FALSE, {})
                   ELSE IF Setup!Marked(loaded) # loaded THEN Setup!Saving(set, TRUE, {}) ELSE Setup!NotSaving
<1>1. loaded \in Setup!Settings
  BY LoadTyped DEF SettingsInv, SettingsTyped
<1>2. set \in Setup!Settings
  BY <1>1, MarkedTyped
<1>3. /\ app' = [on |-> TRUE, set |-> set, save_error |-> FALSE,
                 load_error |-> file = Setup!Torn, save |-> save]
      /\ IF set.onboarded THEN wizard' = Setup!NoWizard /\ checks' = Setup!NoChecks ELSE Setup!Open(set)
      /\ file' = file
  BY DEF Setup!Boot
<1>4. \/ /\ file = Setup!Missing /\ save = Setup!Saving(loaded, FALSE, {})
      \/ /\ Setup!Marked(loaded) # loaded /\ save = Setup!Saving(set, TRUE, {})
      \/ /\ file # Setup!Missing /\ Setup!Marked(loaded) = loaded /\ save = Setup!NotSaving
  OBVIOUS
<1>5. /\ file = Setup!Missing => loaded = Setup!Defaults
      /\ file' \in Files
  BY <1>3 DEF SettingsInv, SettingsTyped, Setup!Load
<1>6. Setup!Marked(Setup!Defaults) = Setup!Defaults
  BY DefaultsTyped DEF Setup!Marked
<1>7. set.onboarded \in BOOLEAN
  BY <1>2 DEF Setup!Settings
<1>8. Setup!Marked(loaded) = loaded => Same(loaded, set)
  BY <1>1, StartFollows
<1>9. file = Setup!Missing => Same(Setup!Defaults, set)
  BY <1>5, <1>6, <1>8
<1>10. Setup!Load(file') = loaded
  BY <1>3
<1>17. file' = file
  BY <1>3
<1> DEFINE torn == file = Setup!Torn
<1>18. /\ app' = [on |-> TRUE, set |-> set, save_error |-> FALSE, load_error |-> torn, save |-> save]
       /\ torn \in BOOLEAN
  BY <1>3
<1> HIDE DEF loaded, set, save, torn
<1>11. save \in Saves /\ save.check = {}
  <2>1. {} \in SUBSET Setup!Service
    OBVIOUS
  <2>2. Setup!Saving(set, TRUE, {}) \in Saves /\ Setup!Saving(set, TRUE, {}).check = {}
    BY <2>1, <1>2, LoudTyped
  <2>3. Setup!Saving(loaded, FALSE, {}) \in Saves /\ Setup!Saving(loaded, FALSE, {}).check = {}
    BY <1>1, QuietTyped
  <2> QED
    BY <2>2, <2>3, <1>4, SavesTyped
<1>12. /\ app' \in Apps
       /\ app'.set = set /\ app'.save = save
  <2>1. app'.set = set /\ app'.save = save
    BY <1>18
  <2>2. app' \in Apps
    BY <1>2, <1>18, <1>11, Zenon DEF Apps
  <2> QED
    BY <2>1, <2>2
<1>13. DiskFollows'
  <2>1. CASE file = Setup!Missing /\ save = Setup!Saving(loaded, FALSE, {})
    <3>1. save # Setup!NotSaving /\ save.to = {loaded} /\ save.loud = FALSE
      BY <2>1, <1>1, QuietTyped
    <3>2. Same(Setup!Defaults, set) /\ file' = Setup!Missing /\ loaded = Setup!Defaults
      BY <2>1, <1>5, <1>9, <1>17
    <3>3. app'.save = save /\ app'.set = set
      BY <1>12
    <3>4. \A x \in app'.save.to : Same(x, app'.set)
      BY <3>1, <3>2, <3>3
    <3>5. app'.save # Setup!NotSaving
      BY <3>1, <3>3
    <3>6. file' \in {Setup!Missing, Setup!Torn} /\ Same(Setup!Defaults, app'.set)
      BY <3>2, <3>3
    <3> QED
      BY <3>4, <3>5, <3>6 DEF DiskFollows
  <2>2. CASE Setup!Marked(loaded) # loaded /\ save = Setup!Saving(set, TRUE, {})
    <3>1. save # Setup!NotSaving /\ save.to = {set} /\ save.loud = TRUE
      BY <2>2, <1>2, LoudTyped
    <3> QED
      BY <3>1, <1>12 DEF DiskFollows, Same
  <2>3. CASE Setup!Marked(loaded) = loaded /\ save = Setup!NotSaving
    BY <2>3, <1>8, <1>10, <1>12, SavesTyped DEF DiskFollows
  <2> QED
    BY <1>4, <2>1, <2>2, <2>3
<1>14. /\ wizard' \in Wizards /\ checks' \in [Setup!Service -> Verdict]
       /\ wizard'.open => \A s \in Setup!Service : OfNow(s, set, checks')
  <2>1. CASE ~set.onboarded
    BY <2>1, <1>2, <1>3, OpenAsks
  <2>2. CASE set.onboarded
    <3>1. wizard' = Setup!NoWizard /\ checks' = Setup!NoChecks
      BY <2>2, <1>3
    <3>2. Setup!NoWizard \in Wizards /\ ~Setup!NoWizard.open
      BY SetupAssumed DEF Setup!NoWizard, Wizards, Finds, Setup!SettingsAssumption
    <3>3. Setup!NoChecks \in [Setup!Service -> Verdict]
      BY DEF Setup!NoChecks, Verdict
    <3> QED
      BY <3>1, <3>2, <3>3
  <2> QED
    BY <2>1, <2>2
<1>15. SettingsTyped'
  BY <1>5, <1>12, <1>14 DEF SettingsTyped
<1>16. VerdictsFollow'
  BY <1>12, <1>14 DEF VerdictsFollow
<1> QED
  BY <1>13, <1>15, <1>16 DEF SettingsInv

LEMMA TruncateKeeps ==
    ASSUME SettingsInv, Setup!Truncate
    PROVE  SettingsInv'
<1>1. /\ app.on /\ app.save # Setup!NotSaving /\ file' = Setup!Torn
      /\ app' = [app EXCEPT !.save.began = TRUE] /\ wizard' = wizard /\ checks' = checks
  BY DEF Setup!Truncate, Setup!Idles, Setup!ui
<1>2. app.save \in Saves
  BY DEF SettingsInv, SettingsTyped, Apps
<1> DEFINE save == [app.save EXCEPT !.began = TRUE]
<1>3. /\ save \in Saves /\ save.began /\ save.to = app.save.to
      /\ save.loud = app.save.loud /\ save.check = app.save.check
  BY <1>2 DEF Saves
<1> HIDE DEF save
<1>4. app' = [app EXCEPT !.save = save]
  BY <1>1 DEF save, SettingsInv, SettingsTyped, Apps
<1>5. /\ app' \in Apps /\ app'.on = app.on /\ app'.set = app.set /\ app'.save = save
  BY <1>3, <1>4 DEF SettingsInv, SettingsTyped, Apps
<1>6. save # Setup!NotSaving
  BY <1>3, SavesTyped
<1>7. SettingsTyped'
  BY <1>1, <1>5 DEF SettingsInv, SettingsTyped, Files
<1>8. DiskFollows'
  BY <1>1, <1>3, <1>5, <1>6 DEF SettingsInv, DiskFollows
<1>9. VerdictsFollow'
  BY <1>1, <1>3, <1>5 DEF SettingsInv, VerdictsFollow
<1> QED
  BY <1>7, <1>8, <1>9 DEF SettingsInv

(* A save ends well, with the file written, or badly, with what was there. *)
LEMMA SaveEndKeeps ==
    ASSUME SettingsInv, app.on, app.save # Setup!NotSaving, file' \in Files,
           NEW failed \in BOOLEAN, Setup!SaveEnds(failed),
           ~failed => file' \in app.save.to,
           failed => file' = file
    PROVE  SettingsInv'
<1>1. app.save \in Saves /\ app.set \in Setup!Settings
  BY DEF SettingsInv, SettingsTyped, Apps
<1> DEFINE error == IF app.save.loud THEN failed ELSE app.save_error
<1>2. error \in BOOLEAN
  BY <1>1 DEF SettingsInv, SettingsTyped, Apps
<1>3. app' = [app EXCEPT !.save = Setup!NotSaving, !.save_error = error]
  BY DEF Setup!SaveEnds, SettingsInv, SettingsTyped, Apps
<1>4. /\ app' \in Apps /\ app'.on = app.on /\ app'.set = app.set
      /\ app'.save = Setup!NotSaving /\ app'.save_error = error
  <2> HIDE DEF error
  <2> QED
    BY <1>2, <1>3, SavesTyped DEF SettingsInv, SettingsTyped, Apps
<1>5. wizard' = wizard
  BY DEF Setup!SaveEnds
<1>6. ASSUME NEW s \in Setup!Service
      PROVE  /\ checks'[s] \in Verdict
             /\ s \in app.save.check => OfNow(s, app.set, checks')
             /\ s \notin app.save.check => checks'[s] = checks[s]
  <2>1. checks \in [Setup!Service -> Verdict]
    BY DEF SettingsInv, SettingsTyped
  <2>2. checks'[s] = IF s \in app.save.check THEN Setup!Recheck(s, app.set, checks)[s] ELSE checks[s]
    BY DEF Setup!SaveEnds
  <2>3. Setup!Recheck(s, app.set, checks)[s]
           = IF Setup!Checkable(s, app.set) THEN Setup!Asked(s, app.set) ELSE Setup!Idle
    BY <2>1 DEF Setup!Recheck
  <2> QED
    BY <2>1, <2>2, <2>3, <1>1, AskedTyped DEF OfNow
<1>7. checks' = [s \in Setup!Service |-> checks'[s]]
  BY DEF Setup!SaveEnds
<1>8. SettingsTyped'
  BY <1>4, <1>5, <1>6, <1>7 DEF SettingsInv, SettingsTyped
<1>9. ~error => Same(Setup!Load(file'), app.set)
  <2>1. CASE ~failed
    <3>1. Same(file', app.set) /\ file' \in Setup!Settings
      BY <2>1, <1>1 DEF SettingsInv, DiskFollows, Saves
    <3> QED
      BY <3>1, FilesDiffer DEF Setup!Load
  <2>2. CASE failed /\ ~app.save.loud
    BY <2>2 DEF SettingsInv, DiskFollows, Setup!Load
  <2> QED
    BY <2>1, <2>2
<1>10. DiskFollows'
  <2> HIDE DEF error
  <2> QED
    BY <1>4, <1>9, SavesTyped DEF DiskFollows
<1>11. ASSUME app'.on, wizard'.open, NEW s \in Setup!Service
       PROVE  OfNow(s, app.set, checks')
  <2>1. CASE s \in app.save.check
    BY <2>1, <1>6
  <2>2. CASE s \notin app.save.check
    <3>1. OfNow(s, app.set, checks)
      BY <2>2, <1>4, <1>5, <1>11 DEF SettingsInv, VerdictsFollow
    <3> QED
      BY <2>2, <3>1, <1>6 DEF OfNow
  <2> QED
    BY <2>1, <2>2
<1>12. VerdictsFollow'
  BY <1>4, <1>11 DEF VerdictsFollow
<1> QED
  BY <1>8, <1>10, <1>12 DEF SettingsInv

(* The value a service is given. *)
LEMMA SetTyped ==
    ASSUME NEW set \in Setup!Settings, NEW s \in Setup!Service, NEW v \in Setup!Worth(s)
    PROVE  /\ [set EXCEPT !.at[s] = v] \in Setup!Settings
           /\ \A r \in Setup!Service \ {s} : [set EXCEPT !.at[s] = v].at[r] = set.at[r]
<1> DEFINE Worths == UNION {Setup!Worth(r) : r \in Setup!Service}
           at == [set.at EXCEPT ![s] = v]
<1>1. set.at \in [Setup!Service -> Worths] /\ \A r \in Setup!Service : set.at[r] \in Setup!Worth(r)
  BY DEF Setup!Settings
<1>2. v \in Worths
  OBVIOUS
<1> HIDE DEF Worths
<1>3. /\ at \in [Setup!Service -> Worths]
      /\ \A r \in Setup!Service : at[r] = IF r = s THEN v ELSE set.at[r]
  BY <1>1, <1>2
<1>4. \A r \in Setup!Service : at[r] \in Setup!Worth(r)
  BY <1>1, <1>3
<1> HIDE DEF at
<1>5. [set EXCEPT !.at = at] \in Setup!Settings /\ [set EXCEPT !.at = at].at = at
  BY <1>3, <1>4 DEF Setup!Settings, Worths
<1>6. [set EXCEPT !.at[s] = v] = [set EXCEPT !.at = at]
  BY DEF at, Setup!Settings
<1> QED
  BY <1>3, <1>5, <1>6

LEMMA SpokenTyped ==
    ASSUME NEW set \in Setup!Settings, NEW l \in Language
    PROVE  /\ [set EXCEPT !.lang = l] \in Setup!Settings
           /\ [set EXCEPT !.lang = l].at = set.at
BY DEF Setup!Settings

LEMMA ServicesAre == "tmdb" \in Setup!Service /\ "parser" \in Setup!Service /\ "torr" \in Setup!Service
BY SetupAssumed DEF Setup!SettingsAssumption

LEMMA WizardKeeps ==
    ASSUME SettingsInv,
           \/ \E s \in Setup!Service : Setup!WizardSets(s)
           \/ Setup!WizardSpeaks
           \/ Setup!Pick
           \/ Setup!PickServer
    PROVE  SettingsInv'
<1>1. /\ Setup!Idles /\ file' = file /\ wizard' = wizard /\ checks' = checks
  BY DEF Setup!WizardSets, Setup!WizardSpeaks, Setup!Pick, Setup!PickServer, Setup!Walking, Setup!ui
<1>2. /\ app.set \in Setup!Settings
      /\ wizard' \in Wizards /\ checks' \in [Setup!Service -> Verdict] /\ wizard \in Wizards
  BY <1>1 DEF SettingsInv, SettingsTyped, Apps
<1>3. ASSUME NEW set \in Setup!Settings, NEW check \in SUBSET Setup!Service, Setup!Persist(set, check),
             \A s \in Setup!Service \ check : set.at[s] = app.set.at[s]
      PROVE  SettingsInv'
  BY <1>1, <1>2, <1>3, PersistKeeps
<1>4. ASSUME NEW s \in Setup!Service, NEW v \in Setup!Worth(s),
             Setup!Persist([app.set EXCEPT !.at[s] = v], {s})
      PROVE  SettingsInv'
  <2> DEFINE set == [app.set EXCEPT !.at[s] = v]
  <2>1. set \in Setup!Settings /\ \A r \in Setup!Service \ {s} : set.at[r] = app.set.at[r]
    BY <1>2, SetTyped
  <2>2. Setup!Persist(set, {s})
    BY <1>4
  <2> HIDE DEF set
  <2> QED
    BY <2>1, <2>2, <1>3
<1>5. CASE \E s \in Setup!Service : Setup!WizardSets(s)
  <2>3. PICK s \in Setup!Service : Setup!WizardSets(s)
    BY <1>5
  <2>1. PICK v \in Values[s] : Setup!Persist([app.set EXCEPT !.at[s] = v], {s})
    BY <2>3 DEF Setup!WizardSets
  <2>2. v \in Setup!Worth(s)
    BY DEF Setup!Worth
  <2> QED
    BY <2>1, <2>2, <1>4
<1>6. CASE Setup!WizardSpeaks
  <2>1. PICK l \in Language : Setup!Persist([app.set EXCEPT !.lang = l], {})
    BY <1>6 DEF Setup!WizardSpeaks
  <2> DEFINE set == [app.set EXCEPT !.lang = l]
  <2>2. set \in Setup!Settings /\ set.at = app.set.at
    BY <1>2, SpokenTyped
  <2>3. Setup!Persist(set, {})
    BY <2>1
  <2> HIDE DEF set
  <2> QED
    BY <2>2, <2>3, <1>3
<1>7. CASE Setup!Pick
  <2>1. PICK p \in wizard.found.parsers :
           Setup!Persist([app.set EXCEPT !.at["parser"] =
               [url |-> p.url, key |-> IF p.public THEN NoParserKey ELSE app.set.at["parser"].key]], {"parser"})
    BY <1>7 DEF Setup!Pick
  <2>2. p \in Preset
    BY <1>2, <1>7 DEF Setup!Pick, Wizards, Finds
  <2>3. app.set.at["parser"] \in Setup!Worth("parser")
    BY <1>2, ServicesAre DEF Setup!Settings
  <2>4. app.set.at["parser"].key \in {v.key : v \in Values["parser"]} \cup {NoParserKey}
    BY <2>3 DEF Setup!Worth
  <2> DEFINE v == [url |-> p.url, key |-> IF p.public THEN NoParserKey ELSE app.set.at["parser"].key]
  <2>5. v \in Setup!Worth("parser")
    BY <2>2, <2>4 DEF Setup!Worth
  <2>6. Setup!Persist([app.set EXCEPT !.at["parser"] = v], {"parser"})
    BY <2>1
  <2> HIDE DEF v
  <2> QED
    BY <2>5, <2>6, <1>4, ServicesAre
<1>8. CASE Setup!PickServer
  <2>1. PICK url \in wizard.found.servers : Setup!Persist([app.set EXCEPT !.at["torr"] = url], {"torr"})
    BY <1>8 DEF Setup!PickServer
  <2>2. url \in Setup!Worth("torr")
    BY <1>2, <1>8 DEF Setup!PickServer, Wizards, Finds, Setup!Worth
  <2> QED
    BY <2>1, <2>2, <1>4, ServicesAre
<1> QED
  BY <1>5, <1>6, <1>7, <1>8

LEMMA WindowKeeps ==
    ASSUME SettingsInv,
           Setup!DiscoveryEnds \/ Setup!SearchAgain \/ Setup!Walk \/ Setup!DrawerChecks
    PROVE  SettingsInv'
<1>1. file' = file /\ app' = app /\ checks' = checks /\ wizard \in Wizards
  BY DEF Setup!DiscoveryEnds, Setup!SearchAgain, Setup!Walk, Setup!DrawerChecks, SettingsInv, SettingsTyped
<1>2. ASSUME NEW found \in Finds, wizard' = [wizard EXCEPT !.found = found]
      PROVE  wizard' \in Wizards /\ wizard'.open = wizard.open
  BY <1>1, <1>2 DEF Wizards
<1>3. ASSUME NEW step \in STRING, wizard' = [wizard EXCEPT !.step = step]
      PROVE  wizard' \in Wizards /\ wizard'.open = wizard.open
  BY <1>1, <1>3 DEF Wizards
<1>4. wizard' \in Wizards /\ wizard'.open = wizard.open
  <2>1. CASE Setup!DiscoveryEnds
    <3>1. PICK answer \in [Preset -> {"ok", "refused", "silent"}], near \in SUBSET (Values["torr"] \ Unset) :
             wizard' = [wizard EXCEPT !.found = [parsers |-> Setup!FoundAmong(answer), servers |-> near]]
      BY <2>1 DEF Setup!DiscoveryEnds
    <3> DEFINE found == [parsers |-> Setup!FoundAmong(answer), servers |-> near]
    <3>2. found \in Finds
      BY DEF Finds, Setup!FoundAmong
    <3>3. wizard' = [wizard EXCEPT !.found = found]
      BY <3>1
    <3> HIDE DEF found
    <3> QED
      BY <3>2, <3>3, <1>2
  <2>2. CASE Setup!SearchAgain
    BY <2>2, <1>2 DEF Setup!SearchAgain, Finds
  <2>3. CASE Setup!Walk
    <3>1. ASSUME NEW by
          PROVE  Setup!StepAt(by) \in STRING
      <4>1. Route \in Seq(STRING)
        BY SetupAssumed DEF Setup!SettingsAssumption
      <4>2. \A k \in DOMAIN Route : Route[k] \in STRING
        BY <4>1
      <4> QED
        BY <4>2, <1>1 DEF Setup!StepAt, Wizards
    <3>2. \/ wizard' = [wizard EXCEPT !.step = Setup!StepAt(-1)]
          \/ wizard' = [wizard EXCEPT !.step = Setup!StepAt(1)]
      BY <2>3 DEF Setup!Walk
    <3> QED
      BY <3>1, <3>2, <1>3
  <2>4. CASE Setup!DrawerChecks
    BY <2>4, <1>1 DEF Setup!DrawerChecks
  <2> QED
    BY <2>1, <2>2, <2>3, <2>4
<1> QED
  BY <1>1, <1>4, RestKeeps

(* The wizard closes for good, or the drawer changes a setting under no    *)
(* wizard, or opens it.                                                    *)
LEMMA DrawerKeeps ==
    ASSUME SettingsInv, Setup!Finish \/ Setup!DrawerSets \/ Setup!OpenWizard
    PROVE  SettingsInv'
<1>1. /\ app.set \in Setup!Settings /\ wizard \in Wizards
      /\ checks \in [Setup!Service -> Verdict]
  BY DEF SettingsInv, SettingsTyped, Apps
<1>2. CASE Setup!Finish
  <2> DEFINE set == [app.set EXCEPT !.onboarded = TRUE]
  <2>1. set \in Setup!Settings
    BY <1>1 DEF Setup!Settings
  <2>2. /\ Setup!Idles /\ file' = file /\ Setup!Persist(set, {})
        /\ wizard' = Setup!NoWizard /\ checks' = Setup!NoChecks
    BY <1>2 DEF Setup!Finish
  <2>3. Setup!NoWizard \in Wizards /\ ~Setup!NoWizard.open
    BY SetupAssumed DEF Setup!NoWizard, Wizards, Finds, Setup!SettingsAssumption
  <2>4. Setup!NoChecks \in [Setup!Service -> Verdict]
    BY DEF Setup!NoChecks, Verdict
  <2>5. {} \in SUBSET Setup!Service
    OBVIOUS
  <2> HIDE DEF set
  <2> QED
    BY <2>1, <2>2, <2>3, <2>4, <2>5, PersistKeeps
<1>3. CASE Setup!DrawerSets
  <2>1. Setup!Idles /\ ~wizard.open /\ file' = file /\ wizard' = wizard /\ checks' = checks
    BY <1>3 DEF Setup!DrawerSets, Setup!AtDrawer, Setup!ui
  <2>2. ASSUME NEW set \in Setup!Settings, Setup!Persist(set, {})
        PROVE  SettingsInv'
    <3>1. {} \in SUBSET Setup!Service
      OBVIOUS
    <3> QED
      BY <1>1, <2>1, <2>2, <3>1, PersistKeeps
  <2>3. CASE \E s \in Setup!Service :
                \E v \in Values[s] \ {app.set.at[s]} : Setup!Persist([app.set EXCEPT !.at[s] = v], {})
    <3>1. PICK s \in Setup!Service :
             \E v \in Values[s] \ {app.set.at[s]} : Setup!Persist([app.set EXCEPT !.at[s] = v], {})
      BY <2>3
    <3>2. PICK v \in Values[s] : Setup!Persist([app.set EXCEPT !.at[s] = v], {})
      BY <3>1
    <3>3. v \in Setup!Worth(s)
      BY DEF Setup!Worth
    <3>4. [app.set EXCEPT !.at[s] = v] \in Setup!Settings
      BY <1>1, <3>3, SetTyped
    <3> QED
      BY <3>2, <3>4, <2>2
  <2>4. CASE \E l \in Language \ {app.set.lang} : Setup!Persist([app.set EXCEPT !.lang = l], {})
    <3>1. PICK l \in Language : Setup!Persist([app.set EXCEPT !.lang = l], {})
      BY <2>4
    <3>2. [app.set EXCEPT !.lang = l] \in Setup!Settings
      BY <1>1, SpokenTyped
    <3> QED
      BY <3>1, <3>2, <2>2
  <2> QED
    BY <1>3, <2>3, <2>4 DEF Setup!DrawerSets
<1>4. CASE Setup!OpenWizard
  <2>1. Setup!Open(app.set) /\ file' = file /\ app' = app
    BY <1>4 DEF Setup!OpenWizard
  <2>2. /\ wizard' \in Wizards /\ checks' \in [Setup!Service -> Verdict]
        /\ \A s \in Setup!Service : OfNow(s, app.set, checks')
    BY <1>1, <2>1, OpenAsks
  <2>3. SettingsTyped'
    BY <2>1, <2>2 DEF SettingsInv, SettingsTyped
  <2>4. DiskFollows'
    BY <2>1 DEF SettingsInv, DiskFollows
  <2>5. VerdictsFollow'
    BY <2>1, <2>2 DEF VerdictsFollow
  <2> QED
    BY <2>3, <2>4, <2>5 DEF SettingsInv
<1> QED
  BY <1>2, <1>3, <1>4

LEMMA AnswerKeeps ==
    ASSUME SettingsInv, Setup!Answer
    PROVE  SettingsInv'
<1>1. /\ file' = file /\ app' = app /\ wizard' = wizard /\ wizard \in Wizards
      /\ checks \in [Setup!Service -> Verdict]
  BY DEF Setup!Answer, SettingsInv, SettingsTyped
<1>2. CASE checks' = checks
  BY <1>1, <1>2, RestKeeps
<1>3. CASE \E r \in Setup!Service :
              checks[r].state = "pending" /\ checks' = [checks EXCEPT ![r].state = "done"]
  <2>1. PICK r \in Setup!Service :
           checks[r].state = "pending" /\ checks' = [checks EXCEPT ![r].state = "done"]
    BY <1>3
  <2> DEFINE answered == [checks[r] EXCEPT !.state = "done"]
  <2>2. checks[r] \in Verdict /\ checks[r] # Setup!Idle
    BY <1>1, <2>1 DEF Setup!Idle
  <2>3. answered \in Verdict /\ answered.of = checks[r].of /\ answered.state = "done"
    BY <2>2 DEF Verdict
  <2>4. answered # Setup!Idle
    BY <2>3 DEF Setup!Idle
  <2>5. checks' = [checks EXCEPT ![r] = answered]
    BY <1>1, <2>1
  <2> HIDE DEF answered
  <2>6. /\ checks' \in [Setup!Service -> Verdict]
        /\ \A s \in Setup!Service : checks'[s] = IF s = r THEN answered ELSE checks[s]
    BY <1>1, <2>3, <2>5
  <2>7. SettingsTyped'
    BY <1>1, <2>6 DEF SettingsInv, SettingsTyped
  <2>8. DiskFollows'
    BY <1>1 DEF SettingsInv, DiskFollows
  <2>9. ASSUME NEW s \in Setup!Service, OfNow(s, app.set, checks)
        PROVE  OfNow(s, app.set, checks')
    <3>1. CASE s = r
      BY <3>1, <2>2, <2>3, <2>4, <2>6, <2>9 DEF OfNow
    <3>2. CASE s # r
      BY <3>2, <2>6, <2>9 DEF OfNow
    <3> QED
      BY <3>1, <3>2
  <2>10. VerdictsFollow'
    BY <1>1, <2>9 DEF SettingsInv, VerdictsFollow
  <2> QED
    BY <2>7, <2>8, <2>10 DEF SettingsInv
<1> QED
  BY <1>2, <1>3 DEF Setup!Answer

LEMMA SettingsStart == Setup!SettingsInit => SettingsInv
<1> SUFFICES ASSUME Setup!SettingsInit
             PROVE  SettingsInv
  OBVIOUS
<1>1. file \in Files /\ Setup!Load(file) \in Setup!Settings
  <2>1. CASE file = Setup!Missing
    BY <2>1, LoadTyped DEF Files
  <2>2. CASE \E k \in Values["tmdb"] : file = [Setup!Defaults EXCEPT !.at["tmdb"] = k]
    <3>1. PICK k \in Values["tmdb"] : file = [Setup!Defaults EXCEPT !.at["tmdb"] = k]
      BY <2>2
    <3>2. k \in Setup!Worth("tmdb")
      BY DEF Setup!Worth
    <3>3. file \in Setup!Settings
      BY <3>1, <3>2, DefaultsTyped, ServicesAre, SetTyped
    <3> QED
      BY <3>3, LoadTyped DEF Files
  <2> QED
    BY <2>1, <2>2 DEF Setup!SettingsInit
<1>2. /\ app = [on |-> FALSE, set |-> Setup!Load(file), save |-> Setup!NotSaving,
                save_error |-> FALSE, load_error |-> FALSE]
      /\ wizard = Setup!NoWizard /\ checks = Setup!NoChecks
  BY DEF Setup!SettingsInit
<1>3. /\ app \in Apps /\ ~app.on
      /\ app.set = Setup!Load(file) /\ app.save = Setup!NotSaving
  BY <1>1, <1>2, SavesTyped DEF Apps
<1>4. wizard \in Wizards
  BY <1>2, SetupAssumed DEF Setup!NoWizard, Wizards, Finds, Setup!SettingsAssumption
<1>5. checks \in [Setup!Service -> Verdict]
  BY <1>2 DEF Setup!NoChecks, Verdict
<1>6. DiskFollows
  BY <1>3, SavesTyped DEF DiskFollows, Same
<1>7. VerdictsFollow
  BY <1>3 DEF VerdictsFollow
<1> QED
  BY <1>1, <1>3, <1>4, <1>5, <1>6, <1>7 DEF SettingsInv, SettingsTyped

LEMMA SettingsStep == SettingsInv /\ [Setup!SettingsNext]_settings => SettingsInv'
<1> SUFFICES ASSUME SettingsInv, [Setup!SettingsNext]_settings
             PROVE  SettingsInv'
  OBVIOUS
<1>1. CASE Setup!Boot
  BY <1>1, BootKeeps
<1>2. CASE Setup!Close \/ Setup!Kill
  BY <1>2, StopKeeps DEF Setup!Close, Setup!Kill, Setup!ui
<1>3. CASE Setup!Truncate
  BY <1>3, TruncateKeeps
<1>4. CASE Setup!Written
  <2>1. app.on /\ app.save.began /\ file' \in app.save.to /\ Setup!SaveEnds(FALSE)
    BY <1>4 DEF Setup!Written
  <2>2. app.save # Setup!NotSaving
    BY <2>1, SavesTyped
  <2>3. file' \in Files
    BY <2>1 DEF SettingsInv, SettingsTyped, Apps, Saves, Files
  <2> QED
    BY <2>1, <2>2, <2>3, SaveEndKeeps
<1>5. CASE Setup!SaveFails
  <2>1. app.on /\ app.save # Setup!NotSaving /\ file' = file /\ Setup!SaveEnds(TRUE)
    BY <1>5 DEF Setup!SaveFails, Setup!Idles
  <2>2. file' \in Files
    BY <2>1 DEF SettingsInv, SettingsTyped
  <2> QED
    BY <2>1, <2>2, SaveEndKeeps
<1>6. CASE \/ \E s \in Setup!Service : Setup!WizardSets(s)
           \/ Setup!WizardSpeaks \/ Setup!Pick \/ Setup!PickServer
  BY <1>6, WizardKeeps
<1>7. CASE Setup!DiscoveryEnds \/ Setup!SearchAgain \/ Setup!Walk \/ Setup!DrawerChecks
  BY <1>7, WindowKeeps
<1>8. CASE Setup!Finish \/ Setup!DrawerSets \/ Setup!OpenWizard
  BY <1>8, DrawerKeeps
<1>9. CASE Setup!Answer
  BY <1>9, AnswerKeeps
<1>10. CASE UNCHANGED settings
  <2>1. wizard' \in Wizards
    BY <1>10 DEF settings, SettingsInv, SettingsTyped
  <2> QED
    BY <1>10, <2>1, RestKeeps DEF settings
<1> QED
  BY <1>1, <1>2, <1>3, <1>4, <1>5, <1>6, <1>7, <1>8, <1>9, <1>10 DEF Setup!SettingsNext

(* What the invariant says between two handlers. *)
LEMMA SettingsShown ==
    ASSUME SettingsInv
    PROVE  Setup!ShownIsSaved /\ Setup!VerdictIsOfNow
<1>1. /\ app.set \in Setup!Settings /\ file \in Files
  BY DEF SettingsInv, SettingsTyped, Apps
<1>2. Setup!Load(file) \in Setup!Settings
  BY <1>1, LoadTyped
<1>3. ASSUME Setup!Idles, ~app.save_error
      PROVE  Setup!Greeted(Setup!Load(file)) = Setup!Greeted(app.set)
  <2>1. Same(Setup!Load(file), app.set)
    BY <1>3 DEF SettingsInv, DiskFollows, Setup!Idles
  <2> QED
    BY <2>1, <1>1, <1>2, SameStarts
<1>4. ASSUME Setup!Idles, wizard.open, NEW s \in Setup!Service
      PROVE  OfNow(s, app.set, checks)
  BY <1>4, SavesTyped DEF SettingsInv, VerdictsFollow, Setup!Idles
<1>5. Setup!ShownIsSaved
  BY <1>3 DEF Setup!ShownIsSaved
<1>6. Setup!VerdictIsOfNow
  BY <1>4 DEF Setup!VerdictIsOfNow, OfNow
<1> QED
  BY <1>5, <1>6

LEMMA StartKeeps ==
    ASSUME SettingsInv, [Setup!SettingsNext]_settings
    PROVE  Setup!RestartKeeps
<1> SUFFICES ASSUME ~app.on, app'.on
             PROVE  /\ app.save = Setup!NotSaving /\ ~app.save_error /\ file # Setup!Torn
                           => app'.set = Setup!Greeted(Setup!Marked(app.set))
                    /\ wizard'.open /\ file # Setup!Torn
                           => file = Setup!Missing \/ (~file.onboarded /\ ~Setup!IsSet("tmdb", file))
  BY DEF Setup!RestartKeeps
<1>1. Setup!Boot
  <2>1. ~Setup!Idles
    BY DEF Setup!Idles
  <2>2. app' # app
    OBVIOUS
  <2> QED
    BY <2>1, <2>2 DEF Setup!SettingsNext, settings, Setup!Close, Setup!Kill, Setup!Truncate, Setup!Written,
          Setup!SaveFails, Setup!WizardSets, Setup!WizardSpeaks, Setup!Pick, Setup!PickServer, Setup!Walking,
          Setup!DiscoveryEnds, Setup!SearchAgain, Setup!Walk, Setup!Finish, Setup!DrawerSets,
          Setup!DrawerChecks, Setup!OpenWizard, Setup!AtDrawer, Setup!Answer
<1> DEFINE set == Setup!Greeted(Setup!Marked(Setup!Load(file)))
<1>2. /\ app'.set = set
      /\ set.onboarded => wizard' = Setup!NoWizard
  BY <1>1 DEF Setup!Boot
<1>3. /\ app.set \in Setup!Settings /\ file \in Files
  BY DEF SettingsInv, SettingsTyped, Apps
<1>4. Setup!Load(file) \in Setup!Settings
  BY <1>3, LoadTyped
<1>5. ASSUME app.save = Setup!NotSaving, ~app.save_error
      PROVE  app'.set = Setup!Greeted(Setup!Marked(app.set))
  <2>1. Same(Setup!Load(file), app.set)
    BY <1>5 DEF SettingsInv, DiskFollows
  <2> QED
    BY <2>1, <1>2, <1>3, <1>4, SameStarts
<1>6. ASSUME wizard'.open, file # Setup!Torn, file # Setup!Missing
      PROVE  ~file.onboarded /\ ~Setup!IsSet("tmdb", file)
  <2>1. Setup!Load(file) = file
    BY <1>6 DEF Setup!Load
  <2>2. ~Setup!NoWizard.open
    BY DEF Setup!NoWizard
  <2>3. ~set.onboarded
    BY <1>2, <1>6, <2>2
  <2>4. ~Setup!Marked(file).onboarded
    BY <2>1, <2>3 DEF Setup!Greeted
  <2>5. [file EXCEPT !.onboarded = TRUE].onboarded
    BY <1>4, <2>1 DEF Setup!Settings
  <2> QED
    BY <2>4, <2>5 DEF Setup!Marked
<1> QED
  BY <1>5, <1>6

LEMMA SettingsOnly == [KeptNext]_<<part, vars, store, settings>> => [Setup!SettingsNext]_settings
BY DEF KeptNext

LEMMA SettingsAlways == KeptSpec => []SettingsInv
<1>1. KeptInit => SettingsInv
  BY SettingsStart DEF KeptInit
<1>2. SettingsInv /\ [KeptNext]_<<part, vars, store, settings>> => SettingsInv'
  BY SettingsStep, SettingsOnly
<1> QED
  BY <1>1, <1>2, PTL DEF KeptSpec

(* persist, load, mark_existing_setup_onboarded, check_configured: through *)
(* kills and failed saves the disk has what is shown, a start brings it    *)
(* back and opens the wizard only for an install without a key, and every  *)
(* verdict of the wizard is of the value it stands beside.                 *)
THEOREM SettingsAreSafe == KeptSpec => SettingsSafe
<1>1. SettingsInv => Setup!ShownIsSaved /\ Setup!VerdictIsOfNow
  BY SettingsShown
<1>2. SettingsInv /\ [KeptNext]_<<part, vars, store, settings>> => [Setup!RestartKeeps]_Setup!all
  BY StartKeeps, SettingsOnly
<1> QED
  BY <1>1, <1>2, SettingsAlways, PTL DEF KeptSpec, SettingsSafe, Setup!SettingsSafe

-----------------------------------------------------------------------------
(***************************************************************************)
(* The TMDB tables.  The bytes of disjoint sets of images add up; the rows *)
(* before a row in the window weigh less than those before a warmer one;   *)
(* so what eviction frees covers the excess, and but for one row does not. *)
(***************************************************************************)
LEMMA LeastNatural ==
    ASSUME NEW some \in SUBSET Nat, some # {}
    PROVE  \E n \in some : \A m \in some : n <= m
<1> DEFINE less == OpToRel(<, Nat)
<1>1. IsWellFoundedOn(less, Nat)
  BY NatLessThanWellFounded
<1>2. \A m, n \in Nat : m < n => <<m, n>> \in less
  BY DEF OpToRel
<1> HIDE DEF less
<1>3. PICK n \in some : \A m \in some : ~(<<m, n>> \in less)
  BY <1>1, WFMin
<1>4. \A m \in some : ~(m < n) /\ m \in Nat /\ n \in Nat
  BY <1>2, <1>3
<1> QED
  BY <1>4

BytesOf(i) == {i} \X (1..Length[i])
BytesIn(some) == UNION {BytesOf(i) : i \in some}

LEMMA BytesCount == \A some : Store!Bytes(some) = Cardinality(BytesIn(some))
<1>1. \A S : Store!Cardinality(S) = Cardinality(S)
  BY DEF Store!Cardinality, Cardinality
<1> QED
  BY <1>1 DEF Store!Bytes, BytesIn, BytesOf

LEMMA BytesOfOne ==
    ASSUME NEW i \in Image
    PROVE  IsFiniteSet(BytesOf(i)) /\ Cardinality(BytesOf(i)) = Length[i] /\ Length[i] \in Nat \ {0}
<1>1. Length[i] \in Nat \ {0} /\ 1 \in Int /\ Length[i] \in Int
  BY StoreAssumed DEF Store!StoreAssumption
<1>2. IsFiniteSet(1..Length[i]) /\ Cardinality(1..Length[i]) = Length[i]
  BY SMTT(30), <1>1, FS_Interval
<1>3. IsFiniteSet({i}) /\ Cardinality({i}) = 1
  BY FS_Singleton
<1>4. /\ IsFiniteSet({i} \X (1..Length[i]))
      /\ Cardinality({i} \X (1..Length[i])) = Cardinality({i}) * Cardinality(1..Length[i])
  BY <1>2, <1>3, FS_Product
<1>5. Cardinality(BytesOf(i)) = 1 * Length[i]
  BY <1>2, <1>3, <1>4 DEF BytesOf
<1> QED
  BY <1>1, <1>4, <1>5 DEF BytesOf

LEMMA BytesAreFinite ==
    ASSUME NEW some \in SUBSET Image, IsFiniteSet(some)
    PROVE  IsFiniteSet(BytesIn(some)) /\ Store!Bytes(some) \in Nat
<1> DEFINE parts == {BytesOf(i) : i \in some}
<1>1. IsFiniteSet(parts)
  <2> DEFINE f == [i \in some |-> BytesOf(i)]
  <2>1. f \in Surjection(some, parts)
    BY DEF Surjection
  <2> QED
    BY <2>1, FS_Surjection
<1>2. \A each \in parts : IsFiniteSet(each)
  BY BytesOfOne
<1>3. IsFiniteSet(UNION parts)
  BY <1>1, <1>2, FS_UNION
<1> QED
  BY <1>3, FS_CardinalityType, BytesCount DEF BytesIn

LEMMA BytesAdd ==
    ASSUME NEW some \in SUBSET Image, NEW others \in SUBSET Image, some \cap others = {},
           IsFiniteSet(some), IsFiniteSet(others)
    PROVE  Store!Bytes(some \cup others) = Store!Bytes(some) + Store!Bytes(others)
<1>1. BytesIn(some \cup others) = BytesIn(some) \cup BytesIn(others)
  BY DEF BytesIn
<1>2. BytesIn(some) \cap BytesIn(others) = {}
  BY DEF BytesIn, BytesOf
<1>3. IsFiniteSet(BytesIn(some)) /\ IsFiniteSet(BytesIn(others))
  BY BytesAreFinite
<1> DEFINE this == BytesIn(some)
           that == BytesIn(others)
<1>4. Cardinality(this \cup that) = Cardinality(this) + Cardinality(that) - Cardinality(this \cap that)
  BY <1>3, FS_Union
<1>5. Cardinality(this \cap that) = 0
  BY <1>2, FS_EmptySet
<1>6. Cardinality(BytesIn(some)) \in Nat /\ Cardinality(BytesIn(others)) \in Nat
  BY <1>3, FS_CardinalityType
<1>7. Cardinality(BytesIn(some \cup others)) = Cardinality(BytesIn(some)) + Cardinality(BytesIn(others))
  <2>1. Cardinality(BytesIn(some \cup others)) = Cardinality(this \cup that)
    BY <1>1, Zenon
  <2> QED
    BY <1>4, <1>5, <1>6, <2>1
<1> QED
  BY <1>7, BytesCount

LEMMA BytesOfNone == Store!Bytes({}) = 0
<1>1. BytesIn({}) = {}
  BY DEF BytesIn
<1> QED
  BY <1>1, FS_EmptySet, BytesCount

LEMMA BytesOfImage ==
    ASSUME NEW i \in Image
    PROVE  Store!Bytes({i}) = Length[i]
<1>1. BytesIn({i}) = BytesOf(i)
  BY DEF BytesIn
<1> QED
  BY <1>1, BytesOfOne, BytesCount

(* Of more images there are no fewer bytes.                                *)
LEMMA BytesGrow ==
    ASSUME NEW all \in SUBSET Image, IsFiniteSet(all), NEW some \in SUBSET all
    PROVE  /\ Store!Bytes(some) \in Nat /\ Store!Bytes(all) \in Nat
           /\ Store!Bytes(all) = Store!Bytes(some) + Store!Bytes(all \ some)
           /\ Store!Bytes(some) <= Store!Bytes(all)
<1>1. /\ some \in SUBSET Image /\ all \ some \in SUBSET Image
      /\ IsFiniteSet(some) /\ IsFiniteSet(all \ some)
  BY FS_Subset
<1>2. some \cap (all \ some) = {} /\ some \cup (all \ some) = all
  OBVIOUS
<1>3. Store!Bytes(some \cup (all \ some)) = Store!Bytes(some) + Store!Bytes(all \ some)
  BY <1>1, <1>2, BytesAdd
<1>4. Store!Bytes(some) \in Nat /\ Store!Bytes(all \ some) \in Nat /\ Store!Bytes(all) \in Nat
  BY <1>1, BytesAreFinite
<1> QED
  BY <1>2, <1>3, <1>4

StoreTyped == Store!TypeOK /\ IsFiniteSet(Store!Stored)

(* The window of a row.                                                    *)
LEMMA WindowOf ==
    ASSUME StoreTyped, NEW some \in SUBSET Store!Stored
    PROVE  /\ some \in SUBSET Image /\ IsFiniteSet(some)
           /\ \A i \in some : /\ Store!Colder(some, i) \in SUBSET some
                              /\ i \notin Store!Colder(some, i)
                              /\ Store!Before(some, i) \in Nat
                              /\ images[i].accessed \in Nat
           /\ \A i, j \in some : i = j \/ i \in Store!Colder(some, j) \/ j \in Store!Colder(some, i)
<1>1. some \in SUBSET Image /\ IsFiniteSet(some)
  BY FS_Subset DEF StoreTyped, Store!TypeOK
<1>2. \A i \in some : images[i].accessed \in Nat
  <2>1. images \in [Store!Stored -> Store!Row] /\ clock \in Nat
    BY DEF StoreTyped, Store!TypeOK
  <2> QED
    BY <2>1, StoreAssumed DEF Store!Row, Store!StoreAssumption
<1>3. ASSUME NEW i \in some
      PROVE  /\ Store!Colder(some, i) \in SUBSET some /\ i \notin Store!Colder(some, i)
             /\ Store!Before(some, i) \in Nat
  <2>1. Store!Colder(some, i) \in SUBSET some
    BY DEF Store!Colder
  <2>2. i \notin Store!Colder(some, i)
    BY <1>2 DEF Store!Colder, StoreTyped, Store!TypeOK
  <2>3. Store!Bytes(Store!Colder(some, i)) \in Nat
    BY <1>1, <2>1, BytesGrow
  <2> QED
    BY <2>1, <2>2, <2>3 DEF Store!Before
<1>4. ASSUME NEW i \in some, NEW j \in some, i # j
      PROVE  i \in Store!Colder(some, j) \/ j \in Store!Colder(some, i)
  <2>1. <<i, j>> \in order \/ <<j, i>> \in order
    BY <1>4 DEF StoreTyped, Store!TypeOK
  <2> QED
    BY <1>2, <2>1 DEF Store!Colder
<1> QED
  BY <1>1, <1>2, <1>3, <1>4

(* The rows before a colder one, and that one, are before a warmer.        *)
LEMMA WindowGrows ==
    ASSUME StoreTyped, NEW some \in SUBSET Store!Stored,
           NEW i \in some, NEW j \in some, i \in Store!Colder(some, j)
    PROVE  Store!Before(some, i) + Length[i] <= Store!Before(some, j) /\ Length[i] \in Nat \ {0}
<1> DEFINE this == Store!Colder(some, i)
           that == Store!Colder(some, j)
<1>1. /\ some \in SUBSET Image /\ IsFiniteSet(some) /\ this \in SUBSET some /\ that \in SUBSET some
      /\ i \notin this
  BY WindowOf
<1>2. this \cup {i} \in SUBSET that
  <2>1. \A k \in some : images[k].accessed \in Nat
    BY WindowOf
  <2>2. \A k \in some : <<k, i>> \in order /\ <<i, j>> \in order => <<k, j>> \in order
    BY DEF StoreTyped, Store!TypeOK
  <2>3. ASSUME NEW k \in this PROVE k \in that
    BY <2>1, <2>2 DEF Store!Colder
  <2> QED
    BY <2>3
<1>3. /\ IsFiniteSet(that) /\ that \in SUBSET Image /\ IsFiniteSet(this) /\ this \in SUBSET Image
      /\ IsFiniteSet({i}) /\ {i} \in SUBSET Image /\ this \cap {i} = {}
  BY <1>1, FS_Subset, FS_Singleton
<1> HIDE DEF this, that
<1>4. Store!Bytes(this \cup {i}) = Store!Bytes(this) + Store!Bytes({i})
  BY <1>3, BytesAdd
<1>5. Store!Bytes(this \cup {i}) <= Store!Bytes(that)
  BY <1>2, <1>3, BytesGrow
<1>6. Store!Bytes({i}) = Length[i] /\ Length[i] \in Nat \ {0}
  BY <1>1, BytesOfImage, BytesOfOne
<1> QED
  BY <1>4, <1>5, <1>6 DEF this, that, Store!Before

(* evict_over_budget: of the rows that stay the coldest has the excess     *)
(* before it, and nothing that is before it stays.                         *)
LEMMA EvictFrees ==
    ASSUME StoreTyped, NEW some \in SUBSET Store!Stored, NEW excess \in Nat
    PROVE  LET kept == Store!Evict(some, excess)
           IN  kept = {} \/ Store!Bytes(kept) + excess <= Store!Bytes(some)
<1> DEFINE kept == Store!Evict(some, excess)
<1> SUFFICES ASSUME kept # {} PROVE Store!Bytes(kept) + excess <= Store!Bytes(some)
  OBVIOUS
<1>1. kept \in SUBSET some
  BY DEF Store!Evict
<1> DEFINE weights == {Store!Before(some, i) : i \in kept}
<1>2. weights \in SUBSET Nat /\ weights # {}
  <2>1. \A i \in kept : Store!Before(some, i) \in Nat
    BY <1>1, WindowOf
  <2> HIDE DEF kept
  <2> QED
    BY <2>1
<1>3. PICK least \in weights : \A n \in weights : least <= n
  BY <1>2, LeastNatural
<1>4. PICK k \in kept : least = Store!Before(some, k)
  BY <1>3
<1>5. \A i \in kept : Store!Before(some, k) <= Store!Before(some, i)
  BY <1>3, <1>4
<1>6. kept \cap Store!Colder(some, k) = {}
  <2>1. ASSUME NEW i \in kept, i \in Store!Colder(some, k) PROVE FALSE
    <3>1. i \in some /\ k \in some
      BY <1>1
    <3>2. Store!Before(some, i) \in Nat /\ Store!Before(some, k) \in Nat
      BY <3>1, WindowOf
    <3>3. Store!Before(some, i) + Length[i] <= Store!Before(some, k) /\ Length[i] \in Nat \ {0}
      BY <2>1, <3>1, WindowGrows
    <3> QED
      BY <1>5, <2>1, <3>2, <3>3
  <2> QED
    BY <2>1
<1>7. Store!Bytes(Store!Colder(some, k)) >= excess
  BY DEF Store!Evict, Store!Before
<1> DEFINE rest == Store!Colder(some, k)
<1>8. /\ some \in SUBSET Image /\ IsFiniteSet(some) /\ rest \in SUBSET some
  BY <1>1, WindowOf
<1> HIDE DEF kept, rest
<1>9. Store!Bytes(rest) \in Nat /\ Store!Bytes(kept) \in Nat /\ Store!Bytes(some) \in Nat
  BY <1>1, <1>8, BytesGrow
<1>10. Store!Bytes(kept \cup rest) = Store!Bytes(kept) + Store!Bytes(rest)
  <2>1. IsFiniteSet(kept) /\ IsFiniteSet(rest) /\ kept \in SUBSET Image /\ rest \in SUBSET Image
    BY <1>1, <1>8, FS_Subset
  <2>2. kept \cap rest = {}
    BY <1>6 DEF rest
  <2> QED
    BY <2>1, <2>2, BytesAdd
<1>11. Store!Bytes(kept \cup rest) <= Store!Bytes(some)
  BY <1>1, <1>8, BytesGrow
<1>12. Store!Bytes(rest) >= excess
  BY <1>7 DEF rest
<1> QED
  BY <1>9, <1>10, <1>11, <1>12

(* What eviction leaves of any rows fits the budget.                       *)
LEMMA EvictFits ==
    ASSUME StoreTyped, NEW some \in SUBSET Store!Stored, NEW excess \in Nat,
           excess >= Store!ExcessOf(some)
    PROVE  Store!Bytes(Store!Evict(some, excess)) <= Budget
<1>1. Store!Bytes(some) \in Nat /\ Store!Bytes(Store!Evict(some, excess)) \in Nat
  <2>1. Store!Evict(some, excess) \in SUBSET some
    BY DEF Store!Evict
  <2> QED
    BY <2>1, WindowOf, BytesGrow
<1>2. Budget \in Nat
  BY StoreAssumed DEF Store!StoreAssumption
<1>3. Store!Bytes(some) <= Budget + excess
  BY <1>1, <1>2 DEF Store!ExcessOf
<1>4. CASE Store!Evict(some, excess) = {}
  BY <1>2, <1>4, BytesOfNone
<1>5. CASE Store!Bytes(Store!Evict(some, excess)) + excess <= Store!Bytes(some)
  BY <1>1, <1>2, <1>3, <1>5
<1> QED
  BY <1>4, <1>5, EvictFrees

(* evict_over_budget: some row goes, and what goes is covered by the       *)
(* warmest of it and the rows before that, which fall short of the excess. *)
LEMMA EvictCrosses ==
    ASSUME StoreTyped, NEW excess \in Nat, excess > 0, excess = Store!ExcessOf(Store!Stored)
    PROVE  LET kept == Store!Evict(Store!Stored, excess)
           IN  \E i \in Store!Stored \ kept : Store!Bytes(kept) + Length[i] > Budget
<1> DEFINE kept == Store!Evict(Store!Stored, excess)
           gone == Store!Stored \ kept
<1>1. /\ kept \in SUBSET Store!Stored /\ gone \in SUBSET Store!Stored /\ Store!Stored \ gone = kept
      /\ \A i \in gone : Store!Before(Store!Stored, i) \in Nat /\ Store!Before(Store!Stored, i) < excess
  <2>1. \A i \in Store!Stored : Store!Before(Store!Stored, i) \in Nat
    BY WindowOf
  <2> QED
    BY <2>1 DEF Store!Evict
<1>2. Store!Stored \in SUBSET Image /\ IsFiniteSet(Store!Stored)
  BY WindowOf
<1>3. Budget \in Nat /\ Store!Bytes(Store!Stored) \in Nat
  BY <1>2, BytesAreFinite, StoreAssumed DEF Store!StoreAssumption
<1>4. Store!Bytes(Store!Stored) = Budget + excess
  BY <1>3 DEF Store!ExcessOf
<1> HIDE DEF gone
<1>5. gone # {}
  <2> SUFFICES ASSUME gone = {} PROVE FALSE
    OBVIOUS
  <2>1. Store!Evict(Store!Stored, excess) = Store!Stored
    BY <1>1
  <2>2. Store!Bytes(Store!Stored) <= Budget
    BY <2>1, EvictFits
  <2> QED
    BY <1>3, <1>4, <2>2
<1> DEFINE spare == {excess - Store!Before(Store!Stored, i) : i \in gone}
<1>6. spare \in SUBSET Nat /\ spare # {}
  <2>1. \A i \in gone : excess - Store!Before(Store!Stored, i) \in Nat
    BY <1>1
  <2> QED
    BY <1>5, <2>1
<1>7. PICK least \in spare : \A n \in spare : least <= n
  BY <1>6, LeastNatural
<1>8. PICK r \in gone : least = excess - Store!Before(Store!Stored, r)
  BY <1>7
<1>9. \A i \in gone : Store!Before(Store!Stored, i) <= Store!Before(Store!Stored, r)
  <2>1. \A i \in gone : excess - Store!Before(Store!Stored, r) <= excess - Store!Before(Store!Stored, i)
    BY <1>7, <1>8
  <2> QED
    BY <1>1, <2>1
<1> DEFINE rest == Store!Colder(Store!Stored, r)
<1>10. gone \in SUBSET (rest \cup {r})
  <2>1. ASSUME NEW i \in gone, i # r, i \notin rest PROVE FALSE
    <3>1. i \in Store!Stored /\ r \in Store!Stored /\ Store!Stored \in SUBSET Store!Stored
      BY <1>1
    <3>2. r \in Store!Colder(Store!Stored, i)
      BY <2>1, <3>1, WindowOf
    <3>3. Store!Before(Store!Stored, r) + Length[r] <= Store!Before(Store!Stored, i)
          /\ Length[r] \in Nat \ {0}
      BY <3>1, <3>2, WindowGrows
    <3> QED
      BY <1>1, <1>9, <2>1, <3>3
  <2> QED
    BY <2>1
<1>11. r \in Image /\ rest \in SUBSET Store!Stored /\ r \notin rest /\ rest \cup {r} \in SUBSET Store!Stored
  BY <1>1, <1>2, WindowOf
<1>12. Store!Bytes(rest) < excess /\ Store!Bytes(rest) \in Nat
  BY <1>1 DEF Store!Before
<1> HIDE DEF rest, kept
<1>13. Store!Bytes(rest \cup {r}) = Store!Bytes(rest) + Length[r] /\ Length[r] \in Nat
  <2>1. IsFiniteSet(rest) /\ IsFiniteSet({r}) /\ rest \in SUBSET Image /\ {r} \in SUBSET Image
    BY <1>2, <1>11, FS_Subset, FS_Singleton
  <2>2. rest \cap {r} = {}
    BY <1>11
  <2>3. Store!Bytes(rest \cup {r}) = Store!Bytes(rest) + Store!Bytes({r})
    BY <2>1, <2>2, BytesAdd
  <2> QED
    BY <1>11, <2>3, BytesOfImage, BytesOfOne
<1>14. Store!Bytes(gone) <= Store!Bytes(rest \cup {r}) /\ Store!Bytes(gone) \in Nat
  <2>1. rest \cup {r} \in SUBSET Image /\ IsFiniteSet(rest \cup {r})
    BY <1>2, <1>11, FS_Subset
  <2> QED
    BY <1>10, <2>1, BytesGrow
<1>15. Store!Bytes(Store!Stored) = Store!Bytes(gone) + Store!Bytes(kept) /\ Store!Bytes(kept) \in Nat
  BY <1>1, <1>2, BytesGrow
<1>16. Store!Bytes(kept) + Length[r] > Budget
  BY <1>3, <1>4, <1>12, <1>13, <1>14, <1>15
<1>17. r \in Store!Stored \ kept
  BY DEF gone
<1> QED
  BY <1>16, <1>17 DEF kept

(* evict_over_budget: with a row goes every row that was read before it.   *)
LEMMA EvictColdest ==
    ASSUME StoreTyped, NEW excess \in Nat,
           NEW kept \in Store!Evict(Store!Stored, excess),
           NEW gone \in Store!Stored \ Store!Evict(Store!Stored, excess)
    PROVE  images[gone].accessed <= images[kept].accessed
<1>1. /\ kept \in Store!Stored /\ Store!Before(Store!Stored, kept) >= excess
      /\ gone \in Store!Stored /\ ~(Store!Before(Store!Stored, gone) >= excess)
  BY DEF Store!Evict
<1>2. /\ images[gone].accessed \in Nat /\ images[kept].accessed \in Nat
      /\ Store!Before(Store!Stored, gone) \in Nat /\ Store!Before(Store!Stored, kept) \in Nat
  BY <1>1, WindowOf
<1>3. ASSUME images[kept].accessed < images[gone].accessed PROVE FALSE
  <2>1. kept \in Store!Colder(Store!Stored, gone)
    BY <1>1, <1>3 DEF Store!Colder
  <2>2. Store!Before(Store!Stored, kept) + Length[kept] <= Store!Before(Store!Stored, gone)
        /\ Length[kept] \in Nat \ {0}
    BY <1>1, <2>1, WindowGrows
  <2> QED
    BY <1>1, <1>2, <2>2
<1> QED
  BY <1>2, <1>3

(* The rows: stored images, in one order.                                  *)
RowsTyped ==
    /\ Store!Stored \subseteq Image /\ IsFiniteSet(Store!Stored)
    /\ images \in [Store!Stored -> Store!Row]
    /\ order \subseteq Store!Stored \X Store!Stored
    /\ \A i, j \in Store!Stored : i = j \/ <<i, j>> \in order \/ <<j, i>> \in order
    /\ \A i \in Store!Stored : <<i, i>> \notin order
    /\ \A i, j, k \in Store!Stored : <<i, j>> \in order /\ <<j, k>> \in order => <<i, k>> \in order

Who == Task \cup {Ui}

Steps == {"idle", "sum", "evict", "touch", "sizes", "images", "pages",
          "purge", "dangling", "old", "list"}

Run == [step : Steps, image : Image \cup {None}, excess : Nat, sizes : SUBSET Size]

OthersTyped ==
    /\ pages \in [Page -> 0..MaxClock \cup {None}]
    /\ refs \subseteq Page \X Path
    /\ run \in [Who -> Run]
    /\ boot \in 0..MaxClock \cup {None}
    /\ clock \in 0..MaxClock
    /\ cut \in BOOLEAN

LEMMA StoreTypedIs == StoreTyped <=> RowsTyped /\ OthersTyped
BY DEF StoreTyped, RowsTyped, OthersTyped, Store!TypeOK, Who, Run, Steps

LEMMA InsertTyped ==
    ASSUME RowsTyped, clock \in 0..MaxClock, NEW i \in Image, Store!Insert(i)
    PROVE  RowsTyped' /\ Store!Stored' = Store!Stored \cup {i}
<1>1. Store!Stored' = Store!Stored \cup {i}
  BY DEF Store!Insert, Store!Stored
<1>2. [fetched |-> clock, accessed |-> clock] \in Store!Row
  BY DEF Store!Row
<1>3. images' \in [Store!Stored \cup {i} -> Store!Row]
  BY <1>2 DEF Store!Insert, RowsTyped
<1>4. IsFiniteSet(Store!Stored')
  BY <1>1, FS_AddElement DEF RowsTyped
<1>5. \A j, k \in Store!Stored' : <<j, k>> \in order' <=>
          \/ j # i /\ k # i /\ <<j, k>> \in order
          \/ j # i /\ k = i
  BY <1>1 DEF Store!Insert, RowsTyped
<1>6. order' \subseteq Store!Stored' \X Store!Stored'
  BY <1>1 DEF Store!Insert, RowsTyped
<1>7. \A j \in Store!Stored' : j # i => j \in Store!Stored
  BY <1>1
<1>8. \A j, k \in Store!Stored' : j = k \/ <<j, k>> \in order' \/ <<k, j>> \in order'
  BY <1>5, <1>7 DEF RowsTyped
<1>9. \A j \in Store!Stored' : <<j, j>> \notin order'
  BY <1>5, <1>7 DEF RowsTyped
<1>10. \A j, k, m \in Store!Stored' :
          <<j, k>> \in order' /\ <<k, m>> \in order' => <<j, m>> \in order'
  <2> SUFFICES ASSUME NEW j \in Store!Stored', NEW k \in Store!Stored', NEW m \in Store!Stored',
                      <<j, k>> \in order', <<k, m>> \in order'
               PROVE  <<j, m>> \in order'
    OBVIOUS
  <2>1. k # i /\ j # i /\ <<j, k>> \in order
    BY <1>5
  <2>2. CASE m = i
    BY <1>5, <2>1, <2>2
  <2>3. CASE m # i
    <3>1. j \in Store!Stored /\ k \in Store!Stored /\ m \in Store!Stored /\ <<k, m>> \in order
      BY <1>5, <1>7, <2>1, <2>3
    <3>2. <<j, m>> \in order
      BY <2>1, <3>1 DEF RowsTyped
    <3> QED
      BY <1>5, <2>1, <2>3, <3>2
  <2> QED
    BY <2>2, <2>3
<1> QED
  BY <1>1, <1>3, <1>4, <1>6, <1>8, <1>9, <1>10 DEF RowsTyped

LEMMA LeavesTyped ==
    ASSUME RowsTyped, NEW kept \in SUBSET Store!Stored, Store!Leaves(kept)
    PROVE  RowsTyped' /\ Store!Stored' = kept /\ \A i \in kept : images'[i] = images[i]
<1>1. images' = [i \in kept |-> images[i]] /\ Store!Stored' = kept
  BY DEF Store!Leaves, Store!Restrict, Store!Stored
<1>2. IsFiniteSet(kept)
  BY FS_Subset DEF RowsTyped
<1>3. images' \in [kept -> Store!Row]
  BY <1>1 DEF RowsTyped
<1>4. order' = order \cap (kept \X kept)
  BY DEF Store!Leaves
<1>5. \A i, j \in kept : <<i, j>> \in order' <=> <<i, j>> \in order
  BY <1>4
<1>6. /\ order' \subseteq kept \X kept
      /\ \A i, j \in kept : i = j \/ <<i, j>> \in order' \/ <<j, i>> \in order'
      /\ \A i \in kept : <<i, i>> \notin order'
  BY <1>4, <1>5 DEF RowsTyped
<1>7. \A i, j, k \in kept : <<i, j>> \in order' /\ <<j, k>> \in order' => <<i, k>> \in order'
  BY <1>5 DEF RowsTyped
<1> QED
  BY <1>1, <1>2, <1>3, <1>6, <1>7 DEF RowsTyped

LEMMA TouchTyped ==
    ASSUME RowsTyped, clock \in 0..MaxClock, NEW t \in Task, Store!Touch(t)
    PROVE  RowsTyped' /\ Store!Stored' = Store!Stored
<1>1. Store!Stored' = Store!Stored /\ order' = order
  BY DEF Store!Touch, Store!Stored
<1>2. \A r \in Store!Row : [r EXCEPT !.accessed = clock] \in Store!Row
  BY DEF Store!Row
<1>3. images' \in [Store!Stored -> Store!Row]
  BY <1>2 DEF Store!Touch, RowsTyped
<1> QED
  BY <1>1, <1>3 DEF RowsTyped

(* What a step does to the rows.                                           *)
LEMMA RowsStep ==
    ASSUME RowsTyped, clock \in 0..MaxClock, [Store!Next]_(Store!vars)
    PROVE  /\ RowsTyped'
           /\ \/ \E t \in Task, i \in Image : Store!PutImage(t, i)
              \/ Store!Stored' \in SUBSET Store!Stored
<1>1. ASSUME NEW kept \in SUBSET Store!Stored, Store!Leaves(kept)
      PROVE  RowsTyped' /\ Store!Stored' \in SUBSET Store!Stored
  BY <1>1, LeavesTyped
<1>2. ASSUME UNCHANGED <<images, order>>
      PROVE  RowsTyped' /\ Store!Stored' \in SUBSET Store!Stored
  BY <1>2 DEF RowsTyped, Store!Stored
<1>3. ASSUME NEW t \in Who, Store!ReadExcess(t) \/ Store!DeleteExcess(t)
      PROVE  RowsTyped' /\ Store!Stored' \in SUBSET Store!Stored
  <2>1. Store!Evict(Store!Stored, run[t].excess) \in SUBSET Store!Stored
    BY DEF Store!Evict
  <2> QED
    BY <1>1, <1>2, <1>3, <2>1 DEF Store!ReadExcess, Store!DeleteExcess
<1>4. ASSUME NEW t \in Task, Store!Touch(t)
      PROVE  RowsTyped' /\ Store!Stored' \in SUBSET Store!Stored
  BY <1>4, TouchTyped
<1>5. ASSUME NEW t \in Task, NEW i \in Image, Store!PutImage(t, i)
      PROVE  RowsTyped'
  BY <1>5, InsertTyped DEF Store!PutImage
<1>6. ASSUME NEW t \in Task, NEW i \in Image, Store!GetImage(t, i)
      PROVE  RowsTyped' /\ Store!Stored' \in SUBSET Store!Stored
  BY <1>2, <1>6 DEF Store!GetImage
<1>7. CASE Store!DeleteSize
  <2>1. PICK s \in run[Ui].sizes : Store!Leaves({i \in Store!Stored : Store!SizeOf(i) # s})
    BY <1>7 DEF Store!DeleteSize
  <2> QED
    BY <1>1, <2>1
<1>8. CASE Store!CollectUnreferenced
  <2>1. Store!Referenced(Store!Stored, refs) \in SUBSET Store!Stored
    BY DEF Store!Referenced
  <2> QED
    BY <1>1, <1>8, <2>1 DEF Store!CollectUnreferenced
<1>9. CASE Store!ClearRefs \/ Store!ClearImages \/ Store!ClearPages \/ Store!Tick
  <2>1. {} \in SUBSET Store!Stored
    OBVIOUS
  <2> QED
    BY <1>1, <1>2, <1>9, <2>1 DEF Store!ClearRefs, Store!ClearImages, Store!ClearPages, Store!Tick
<1>10. ASSUME NEW p \in Page, NEW paths \in SUBSET Path, Store!PutPage(p, paths)
      PROVE  RowsTyped' /\ Store!Stored' \in SUBSET Store!Stored
  BY <1>2, <1>10 DEF Store!PutPage
<1>11. ASSUME NEW allowed \in SUBSET Size, Store!Collect(allowed)
      PROVE  RowsTyped' /\ Store!Stored' \in SUBSET Store!Stored
  BY <1>2, <1>11 DEF Store!Collect
<1>13. ASSUME NEW t \in Who, Store!Fails(t)
      PROVE  RowsTyped' /\ Store!Stored' \in SUBSET Store!Stored
  BY <1>2, <1>13 DEF Store!Fails
<1>14. CASE Store!Restart \/ Store!PurgePages \/ Store!PurgeRefs
  BY <1>2, <1>14 DEF Store!Restart, Store!PurgePages, Store!PurgeRefs
<1>15. CASE Store!PurgeImages
  <2>1. {i \in Store!Stored : ~Store!IsExpired(images[i].fetched)} \in SUBSET Store!Stored
    OBVIOUS
  <2> QED
    BY <1>1, <1>15, <2>1 DEF Store!PurgeImages
<1>12. CASE UNCHANGED Store!vars
  BY <1>2, <1>12 DEF Store!vars
<1> QED
  BY <1>3, <1>4, <1>5, <1>6, <1>7, <1>8, <1>9, <1>10, <1>11, <1>12, <1>13, <1>14, <1>15
     DEF Store!Next, Who

LEMMA RunTyped ==
    ASSUME NEW t \in Who, NEW step \in Steps, OthersTyped
    PROVE  [run EXCEPT ![t].step = step] \in [Who -> Run]
BY DEF OthersTyped, Run

LEMMA IdleTyped ==
    ASSUME NEW t \in Who, OthersTyped
    PROVE  [run EXCEPT ![t] = Store!Idle] \in [Who -> Run]
<1>1. Store!Idle \in Run
  BY DEF Store!Idle, Run, Steps
<1> QED
  BY <1>1 DEF OthersTyped

LEMMA OthersStep ==
    ASSUME StoreTyped, [Store!Next]_(Store!vars)
    PROVE  OthersTyped'
<1>0. RowsTyped /\ OthersTyped
  BY StoreTypedIs
<1>1. ASSUME NEW t \in Who, Store!ReadExcess(t) \/ Store!DeleteExcess(t)
      PROVE  OthersTyped'
  <2>1. Store!ExcessOf(Store!Stored) \in Nat
    <3>1. Store!Bytes(Store!Stored) \in Nat /\ Budget \in Nat
      BY <1>0, BytesAreFinite, StoreAssumed DEF RowsTyped, Store!StoreAssumption
    <3> QED
      BY <3>1 DEF Store!ExcessOf
  <2>2. [run EXCEPT ![t].step = "evict", ![t].excess = Store!ExcessOf(Store!Stored)] \in [Who -> Run]
    <3>1. ASSUME NEW r \in Run
          PROVE  [r EXCEPT !.step = "evict", !.excess = Store!ExcessOf(Store!Stored)] \in Run
      BY <2>1 DEF Run, Steps
    <3> QED
      BY <1>0, <3>1 DEF OthersTyped
  <2>3. run' \in [Who -> Run]
    BY ZenonT(30), <1>0, <1>1, <2>2, IdleTyped DEF Store!ReadExcess, Store!DeleteExcess, Store!Finish
  <2>4. boot' \in 0..MaxClock \cup {None} /\ cut' \in BOOLEAN
    BY <1>0, <1>1 DEF OthersTyped, Store!ReadExcess, Store!DeleteExcess, Store!Finish
  <2> QED
    BY <1>0, <1>1, <2>3, <2>4 DEF OthersTyped, Store!ReadExcess, Store!DeleteExcess
<1>2. ASSUME NEW t \in Task, Store!Touch(t) \/ \E i \in Image : Store!PutImage(t, i)
      PROVE  OthersTyped'
  <2>1. t \in Who
    BY DEF Who
  <2>2. run' \in [Who -> Run]
    <3>1. CASE Store!Touch(t)
      BY <1>0, <2>1, <3>1, IdleTyped DEF Store!Touch, Store!Finish
    <3>2. CASE \E i \in Image : Store!PutImage(t, i)
      <4>1. run' = [run EXCEPT ![t].step = "sum"]
        BY <3>2 DEF Store!PutImage, Store!Begins
      <4> QED
        BY <1>0, <2>1, <4>1, RunTyped DEF Steps
    <3> QED
      BY <1>2, <3>1, <3>2
  <2>3. boot' \in 0..MaxClock \cup {None} /\ cut' = cut
    BY <1>0, <1>2 DEF OthersTyped, Store!Touch, Store!PutImage, Store!Finish, Store!Begins
  <2> QED
    BY <1>0, <1>2, <2>2, <2>3 DEF OthersTyped, Store!Touch, Store!PutImage
<1>3. ASSUME NEW t \in Task, NEW i \in Image, Store!GetImage(t, i)
      PROVE  OthersTyped'
  <2>1. t \in Who
    BY DEF Who
  <2>2. run' \in [Who -> Run]
    BY ZenonT(30), <1>0, <1>3, <2>1 DEF OthersTyped, Run, Steps, Store!GetImage
  <2> QED
    BY <1>0, <1>3, <2>2 DEF OthersTyped, Store!GetImage
<1>4. Ui \in Who
  BY DEF Who
<1>5. CASE Store!DeleteSize
  <2>1. run' \in [Who -> Run]
    BY <1>0, <1>4, <1>5 DEF OthersTyped, Run, Store!DeleteSize
  <2> QED
    BY <1>0, <1>5, <2>1 DEF OthersTyped, Store!DeleteSize
<1>6. CASE \/ Store!CollectUnreferenced \/ Store!ClearImages
           \/ Store!PurgePages \/ Store!PurgeRefs \/ Store!PurgeImages
  <2>1. PICK step \in Steps : Store!Goes(Ui, step)
    BY <1>6 DEF Store!CollectUnreferenced, Store!ClearImages, Store!PurgePages, Store!PurgeRefs,
                Store!PurgeImages, Steps
  <2>2. run' \in [Who -> Run] /\ boot' = boot /\ cut' = cut
    BY <1>0, <1>4, <2>1, RunTyped DEF Store!Goes
  <2>3. pages' \in [Page -> 0..MaxClock \cup {None}]
    BY <1>0, <1>6 DEF OthersTyped, Store!CollectUnreferenced, Store!ClearImages, Store!PurgePages,
                      Store!PurgeRefs, Store!PurgeImages
  <2>4. refs' \subseteq Page \X Path
    BY <1>0, <1>6 DEF OthersTyped, Store!CollectUnreferenced, Store!ClearImages, Store!PurgePages,
                      Store!PurgeRefs, Store!PurgeImages
  <2>5. clock' = clock
    BY <1>6 DEF Store!CollectUnreferenced, Store!ClearImages, Store!PurgePages, Store!PurgeRefs,
                Store!PurgeImages
  <2> QED
    BY <1>0, <2>2, <2>3, <2>4, <2>5 DEF OthersTyped
<1>7. CASE Store!ClearRefs \/ Store!ClearPages
  <2>1. run' \in [Who -> Run]
    <3>1. CASE Store!ClearRefs
      <4>1. run' = [run EXCEPT ![Ui].step = "images"] /\ "images" \in Steps
        BY <3>1 DEF Store!ClearRefs, Store!Begins, Steps
      <4> QED
        BY <1>0, <1>4, <4>1, RunTyped
    <3>2. CASE Store!ClearPages
      BY <1>0, <1>4, <3>2, IdleTyped DEF Store!ClearPages, Store!Finish
    <3> QED
      BY <1>7, <3>1, <3>2
  <2>2. boot' \in 0..MaxClock \cup {None} /\ cut' = cut
    BY <1>0, <1>7 DEF OthersTyped, Store!ClearRefs, Store!ClearPages, Store!Begins, Store!Finish
  <2> QED
    BY <1>0, <1>7, <2>1, <2>2 DEF OthersTyped, Store!ClearRefs, Store!ClearPages
<1>8. CASE Store!Tick
  <2>1. clock' \in 0..MaxClock
    BY <1>0, <1>8, StoreAssumed DEF OthersTyped, Store!Tick, Store!StoreAssumption
  <2> QED
    BY <1>0, <1>8, <2>1 DEF OthersTyped, Store!Tick
<1>9. ASSUME NEW p \in Page, NEW paths \in SUBSET Path, Store!PutPage(p, paths)
      PROVE  OthersTyped'
  BY <1>0, <1>9 DEF OthersTyped, Store!PutPage
<1>10. ASSUME NEW allowed \in SUBSET Size, Store!Collect(allowed)
      PROVE  OthersTyped'
  <2>1. Store!Barred(allowed) \in SUBSET Size
    BY <1>0, StoreAssumed DEF Store!Barred, RowsTyped, Store!SizeOf, Store!StoreAssumption
  <2>2. run' \in [Who -> Run]
    BY ZenonT(30), <1>0, <1>4, <1>10, <2>1 DEF OthersTyped, Run, Steps, Store!Collect
  <2> QED
    BY <1>0, <1>10, <2>2 DEF OthersTyped, Store!Collect
<1>12. CASE Store!Restart
  <2>1. run' \in [Who -> Run]
    <3>1. Store!Idle \in Run /\ [Store!Idle EXCEPT !.step = "purge"] \in Run
      BY DEF Store!Idle, Run, Steps
    <3> QED
      BY <1>12, <3>1 DEF Store!Restart, Who
  <2>2. cut' \in BOOLEAN /\ boot' \in 0..MaxClock
    BY <1>0, <1>12 DEF OthersTyped, Store!Restart
  <2> QED
    BY <1>0, <1>12, <2>1, <2>2 DEF OthersTyped, Store!Restart
<1>13. ASSUME NEW t \in Who, Store!Fails(t)
      PROVE  OthersTyped'
  <2>1. run' = [run EXCEPT ![t] = Store!Idle] /\ boot' \in 0..MaxClock \cup {None} /\ cut' \in BOOLEAN
    BY <1>0, <1>13 DEF OthersTyped, Store!Fails, Store!Finish
  <2>2. run' \in [Who -> Run]
    BY <1>0, <2>1, IdleTyped
  <2> QED
    BY <1>0, <1>13, <2>1, <2>2 DEF OthersTyped, Store!Fails
<1>11. CASE UNCHANGED Store!vars
  BY <1>0, <1>11 DEF OthersTyped, Store!vars
<1> QED
  BY <1>1, <1>2, <1>3, <1>5, <1>6, <1>7, <1>8, <1>9, <1>10, <1>11, <1>12, <1>13 DEF Store!Next, Who

(* A put is still to be summed, or is about to delete no less than the     *)
(* excess there is: what others delete meanwhile only lowers it.  An       *)
(* eviction that is cut off may have been the one.                         *)
Covers(t) ==
    \/ run[t].step = "sum"
    \/ run[t].step = "evict" /\ run[t].excess >= Store!ExcessOf(Store!Stored)

ExcessIsCovered ==
    /\ \A t \in Who : run[t].step = "evict" => run[t].excess > 0
    /\ cut \/ Store!Bytes(Store!Stored) <= Budget \/ \E t \in Who : Covers(t)

(* A boot has the store to itself, and what its statements have deleted    *)
(* does not come back.                                                     *)
BootIsUnderWay ==
    /\ boot \in Nat /\ boot <= clock
    /\ \A t \in Task : run[t] = Store!Idle
    /\ run[Ui].step \in {"purge", "dangling", "old", "list", "sizes", "sum", "evict"}

PagesAreYoung == \A p \in Page : pages[p] # None => ~Store!IsExpired(pages[p])

RefsHavePages == \A r \in refs : pages[r[1]] # None

ImagesAreYoung == \A i \in Store!Stored : ~Store!IsExpired(images[i].fetched)

ImagesAreWanted ==
    \A i \in Store!Stored :
       (\E r \in refs : r[2] = Store!PathOf(i)) \/ images[i].accessed + Grace >= boot

BootTidiesSoFar ==
    /\ run[Ui].step # "purge" => PagesAreYoung
    /\ run[Ui].step \notin {"purge", "dangling"} => RefsHavePages
    /\ run[Ui].step \notin {"purge", "dangling", "old"} => ImagesAreYoung
    /\ run[Ui].step \in {"sum", "evict"} => ImagesAreWanted

BootInv == boot # None => BootIsUnderWay /\ BootTidiesSoFar

StoreInv == StoreTyped /\ ExcessIsCovered /\ BootInv

LEMMA ExcessTyped ==
    ASSUME StoreTyped, NEW some \in SUBSET Store!Stored
    PROVE  /\ Store!Bytes(some) \in Nat /\ Store!Bytes(Store!Stored) \in Nat /\ Budget \in Nat
           /\ Store!Bytes(some) <= Store!Bytes(Store!Stored)
           /\ Store!ExcessOf(some) \in Nat
           /\ Store!ExcessOf(some) = 0 <=> Store!Bytes(some) <= Budget
           /\ Store!ExcessOf(some) <= Store!ExcessOf(Store!Stored)
<1>1. /\ Store!Bytes(some) \in Nat /\ Store!Bytes(Store!Stored) \in Nat /\ Budget \in Nat
      /\ Store!Bytes(some) <= Store!Bytes(Store!Stored)
  BY StoreTypedIs, BytesGrow, StoreAssumed DEF RowsTyped, Store!StoreAssumption
<1>2. /\ Store!ExcessOf(some) \in Nat
      /\ Store!ExcessOf(some) = 0 <=> Store!Bytes(some) <= Budget
      /\ Store!ExcessOf(some) <= Store!ExcessOf(Store!Stored)
  BY <1>1 DEF Store!ExcessOf
<1> QED
  BY <1>1, <1>2

LEMMA CoverStays ==
    ASSUME StoreTyped, StoreTyped', Store!Stored' \in SUBSET Store!Stored,
           NEW t \in Who, Covers(t), run'[t] = run[t]
    PROVE  Covers(t)'
<1>1. /\ Store!ExcessOf(Store!Stored') <= Store!ExcessOf(Store!Stored)
      /\ Store!ExcessOf(Store!Stored') \in Nat /\ Store!ExcessOf(Store!Stored) \in Nat
  BY ExcessTyped
<1>2. Store!ExcessOf(Store!Stored)' = Store!ExcessOf(Store!Stored')
  BY DEF Store!ExcessOf, Store!Bytes
<1>3. run[t].excess \in Nat
  BY StoreTypedIs DEF OthersTyped, Run
<1> QED
  BY <1>1, <1>2, <1>3 DEF Covers

LEMMA LessIsCovered ==
    ASSUME StoreTyped, StoreTyped', ExcessIsCovered, Store!Stored' \in SUBSET Store!Stored, cut => cut',
           \A t \in Who : \/ run'[t] = run[t]
                          \/ run[t].step \notin {"sum", "evict"} /\ run'[t].step # "evict"
    PROVE  ExcessIsCovered'
<1>1. \A t \in Who : (run[t].step = "evict" => run[t].excess > 0)'
  BY DEF ExcessIsCovered
<1>2. CASE Store!Bytes(Store!Stored) <= Budget
  <2>1. Store!Bytes(Store!Stored') <= Budget
    BY <1>2, ExcessTyped
  <2>2. Store!Bytes(Store!Stored)' = Store!Bytes(Store!Stored')
    BY DEF Store!Bytes
  <2> QED
    BY <1>1, <2>1, <2>2 DEF ExcessIsCovered
<1>3. CASE \E t \in Who : Covers(t)
  <2>1. PICK t \in Who : Covers(t)
    BY <1>3
  <2>2. run'[t] = run[t]
    BY <2>1 DEF Covers
  <2>3. Covers(t)'
    BY <2>1, <2>2, CoverStays
  <2> QED
    BY <1>1, <2>3 DEF ExcessIsCovered
<1>4. CASE cut
  BY <1>1, <1>4 DEF ExcessIsCovered
<1> QED
  BY <1>2, <1>3, <1>4 DEF ExcessIsCovered

LEMMA ReadIsCovered ==
    ASSUME StoreTyped, ExcessIsCovered, NEW t \in Who, Store!ReadExcess(t)
    PROVE  ExcessIsCovered'
<1> DEFINE excess == Store!ExcessOf(Store!Stored)
<1>1. Store!Stored' = Store!Stored /\ Store!Bytes(Store!Stored)' = Store!Bytes(Store!Stored)
      /\ Store!ExcessOf(Store!Stored)' = excess
  BY DEF Store!ReadExcess, Store!Stored, Store!Bytes, Store!ExcessOf
<1>2. excess \in Nat /\ (excess = 0 <=> Store!Bytes(Store!Stored) <= Budget)
  BY ExcessTyped
<1>3. run \in [Who -> Run]
  BY StoreTypedIs DEF OthersTyped
<1>4. CASE excess = 0
  <2>1. \A u \in Who : run'[u] = run[u] \/ run'[u].step = "idle"
    BY <1>3, <1>4 DEF Store!ReadExcess, Store!Finish, Store!Idle
  <2> QED
    BY <1>1, <1>2, <1>4, <2>1 DEF ExcessIsCovered
<1>5. CASE excess # 0
  <2>1. /\ run'[t].step = "evict" /\ run'[t].excess = excess
        /\ \A u \in Who \ {t} : run'[u] = run[u]
    BY <1>3, <1>5 DEF Store!ReadExcess, Run
  <2> HIDE DEF excess
  <2>2. Covers(t)'
    BY <1>1, <1>2, <2>1 DEF Covers
  <2>3. \A u \in Who : (run[u].step = "evict" => run[u].excess > 0)'
    BY <1>2, <1>5, <2>1 DEF ExcessIsCovered
  <2> QED
    BY <2>2, <2>3 DEF ExcessIsCovered
<1> QED
  BY <1>4, <1>5

LEMMA DeleteIsCovered ==
    ASSUME StoreTyped, StoreTyped', ExcessIsCovered, NEW t \in Who, Store!DeleteExcess(t)
    PROVE  ExcessIsCovered'
<1> DEFINE kept == Store!Evict(Store!Stored, run[t].excess)
<1>1. kept \in SUBSET Store!Stored
  BY DEF Store!Evict
<1>2. Store!Stored' = kept /\ Store!Bytes(Store!Stored)' = Store!Bytes(kept)
  <2>1. Store!Stored' = kept
    BY <1>1, LeavesTyped, StoreTypedIs DEF Store!DeleteExcess
  <2> QED
    BY <2>1 DEF Store!Bytes
<1>3. /\ \A u \in Who \ {t} : run'[u] = run[u]
      /\ run'[t].step = "idle" /\ run[t].step = "evict" /\ run[t].excess \in Nat
  BY StoreTypedIs DEF Store!DeleteExcess, Store!Finish, Store!Idle, OthersTyped, Run
<1>4. \A u \in Who : (run[u].step = "evict" => run[u].excess > 0)'
  BY <1>3 DEF ExcessIsCovered
<1>8. CASE cut
  BY <1>4, <1>8 DEF ExcessIsCovered, Store!DeleteExcess
<1>5. CASE Store!Bytes(Store!Stored) <= Budget
  <2>1. Store!Bytes(kept) <= Budget
    BY <1>1, <1>5, ExcessTyped
  <2> QED
    BY <1>2, <1>4, <2>1 DEF ExcessIsCovered
<1>6. CASE \E u \in Who \ {t} : Covers(u)
  <2>1. PICK u \in Who \ {t} : Covers(u)
    BY <1>6
  <2>2. Covers(u)'
    BY <1>1, <1>2, <1>3, <2>1, CoverStays
  <2> QED
    BY <1>4, <2>2 DEF ExcessIsCovered
<1>7. CASE Covers(t)
  <2>1. run[t].excess >= Store!ExcessOf(Store!Stored)
    BY <1>3, <1>7 DEF Covers
  <2>2. Store!Bytes(kept) <= Budget
    BY <1>3, <2>1, EvictFits
  <2> QED
    BY <1>2, <1>4, <2>2 DEF ExcessIsCovered
<1> QED
  BY <1>5, <1>6, <1>7, <1>8 DEF ExcessIsCovered

LEMMA CoverStep ==
    ASSUME StoreInv, [Store!Next]_(Store!vars)
    PROVE  StoreTyped' /\ ExcessIsCovered'
<1>0. StoreTyped /\ ExcessIsCovered /\ run \in [Who -> Run] /\ Ui \in Who /\ Task \subseteq Who
  BY StoreTypedIs DEF StoreInv, OthersTyped, Who
<1>1. StoreTyped' /\ (\/ \E t \in Task, i \in Image : Store!PutImage(t, i)
                      \/ Store!Stored' \in SUBSET Store!Stored)
  <2>1. RowsTyped /\ clock \in 0..MaxClock
    BY <1>0, StoreTypedIs DEF OthersTyped
  <2>2. RowsTyped' /\ (\/ \E t \in Task, i \in Image : Store!PutImage(t, i)
                       \/ Store!Stored' \in SUBSET Store!Stored)
    BY <2>1, RowsStep
  <2>3. OthersTyped'
    BY <1>0, OthersStep
  <2> QED
    BY <2>2, <2>3 DEF StoreTyped, RowsTyped, OthersTyped, Store!TypeOK, Who, Run, Steps
<1>2. ASSUME Store!Stored' \in SUBSET Store!Stored, cut => cut',
             \A t \in Who : \/ run'[t] = run[t]
                            \/ run[t].step \notin {"sum", "evict"} /\ run'[t].step # "evict"
      PROVE  ExcessIsCovered'
  BY <1>0, <1>1, <1>2, LessIsCovered
<1>3. ASSUME NEW t \in Task, NEW i \in Image, Store!PutImage(t, i)
      PROVE  ExcessIsCovered'
  <2>1. run'[t].step = "sum" /\ \A u \in Who \ {t} : run'[u] = run[u]
    BY <1>0, <1>3 DEF Store!PutImage, Store!Begins, Run
  <2>2. Covers(t)'
    BY <2>1 DEF Covers
  <2> QED
    BY <1>0, <2>1, <2>2 DEF ExcessIsCovered
<1> SUFFICES ASSUME Store!Stored' \in SUBSET Store!Stored PROVE ExcessIsCovered'
  BY <1>1, <1>3
<1>4. ASSUME NEW t \in Task, Store!Touch(t) \/ \E i \in Image : Store!GetImage(t, i)
      PROVE  ExcessIsCovered'
  <2>1. /\ run[t].step \notin {"sum", "evict"} /\ run'[t].step # "evict"
        /\ \A u \in Who \ {t} : run'[u] = run[u]
    <3>1. CASE Store!Touch(t)
      BY <1>0, <3>1 DEF Store!Touch, Store!Finish, Store!Idle
    <3>2. CASE \E i \in Image : Store!GetImage(t, i)
      BY <1>0, <3>2 DEF Store!GetImage, Store!Idle, Run
    <3> QED
      BY <1>4, <3>1, <3>2
  <2>2. cut' = cut
    BY <1>4 DEF Store!Touch, Store!GetImage
  <2> QED
    BY <1>2, <2>1, <2>2
<1>5. CASE \/ Store!DeleteSize \/ Store!CollectUnreferenced
           \/ Store!ClearRefs \/ Store!ClearImages \/ Store!ClearPages
           \/ \E allowed \in SUBSET Size : Store!Collect(allowed)
           \/ Store!PurgePages \/ Store!PurgeRefs \/ Store!PurgeImages
  <2>1. \A u \in Who \ {Ui} : run'[u] = run[u]
    BY <1>0, <1>5 DEF Store!DeleteSize, Store!CollectUnreferenced, Store!ClearRefs, Store!ClearImages,
                      Store!ClearPages, Store!Collect, Store!Begins, Store!Goes, Store!Finish,
                      Store!PurgePages, Store!PurgeRefs, Store!PurgeImages
  <2>2. run[Ui].step \notin {"sum", "evict"}
    BY <1>5 DEF Store!DeleteSize, Store!CollectUnreferenced, Store!ClearRefs, Store!ClearImages,
                Store!ClearPages, Store!Collect, Store!Begins, Store!Idle,
                Store!PurgePages, Store!PurgeRefs, Store!PurgeImages
  <2>4. cut' = cut
    BY <1>5 DEF Store!DeleteSize, Store!CollectUnreferenced, Store!ClearRefs, Store!ClearImages,
                Store!ClearPages, Store!Collect, Store!Begins, Store!Goes,
                Store!PurgePages, Store!PurgeRefs, Store!PurgeImages
  <2>3. run'[Ui].step # "evict"
    <3>1. CASE Store!DeleteSize
      BY <1>0, <3>1 DEF Store!DeleteSize, Run
    <3>2. CASE Store!CollectUnreferenced \/ Store!ClearRefs \/ Store!ClearImages
      BY <1>0, <3>2 DEF Store!CollectUnreferenced, Store!ClearRefs, Store!ClearImages, Store!Begins,
                        Store!Goes, Run
    <3>3. CASE Store!ClearPages
      BY <1>0, <3>3 DEF Store!ClearPages, Store!Finish, Store!Idle
    <3>4. CASE \E allowed \in SUBSET Size : Store!Collect(allowed)
      BY <1>0, <3>4 DEF Store!Collect, Run
    <3>5. CASE Store!PurgePages \/ Store!PurgeRefs \/ Store!PurgeImages
      BY <1>0, <3>5 DEF Store!PurgePages, Store!PurgeRefs, Store!PurgeImages, Store!Goes, Run
    <3> QED
      BY <1>5, <3>1, <3>2, <3>3, <3>4, <3>5
  <2> QED
    BY <1>2, <2>1, <2>2, <2>3, <2>4
<1>6. CASE \/ Store!Tick \/ UNCHANGED Store!vars
           \/ \E p \in Page, paths \in SUBSET Path : Store!PutPage(p, paths)
  <2>1. run' = run /\ cut' = cut
    BY <1>6 DEF Store!Tick, Store!vars, Store!PutPage
  <2> QED
    BY <1>2, <2>1
<1>7. CASE Store!Restart
  <2>1. \A t \in Who : run'[t].step # "evict"
    BY <1>7 DEF Store!Restart, Store!Idle, Who
  <2>2. CASE cut \/ \E t \in Who : Store!IsEvicting(t)
    BY <1>7, <2>1, <2>2 DEF Store!Restart, Who, ExcessIsCovered
  <2>3. CASE ~cut /\ \A t \in Who : ~Store!IsEvicting(t)
    <3>1. Store!Bytes(Store!Stored) <= Budget
      BY <1>0, <2>3 DEF ExcessIsCovered, Covers, Store!IsEvicting
    <3>2. Store!Bytes(Store!Stored)' = Store!Bytes(Store!Stored)
      BY <1>7 DEF Store!Restart, Store!Bytes, Store!Stored
    <3> QED
      BY <2>1, <3>1, <3>2 DEF ExcessIsCovered
  <2> QED
    BY <2>2, <2>3
<1>9. ASSUME NEW t \in Who, Store!Fails(t)
      PROVE  ExcessIsCovered'
  <2>1. /\ \A u \in Who \ {t} : run'[u] = run[u]
        /\ run'[t].step # "evict"
    BY <1>0, <1>9 DEF Store!Fails, Store!Finish, Store!Idle
  <2>2. CASE Store!IsEvicting(t)
    <3>1. cut'
      BY <1>9, <2>2 DEF Store!Fails
    <3> QED
      BY <1>0, <2>1, <3>1 DEF ExcessIsCovered
  <2>3. CASE ~Store!IsEvicting(t)
    <3>1. run[t].step \notin {"sum", "evict"}
      BY <2>3 DEF Store!IsEvicting
    <3>2. cut => cut'
      BY <1>9 DEF Store!Fails
    <3> QED
      BY <1>2, <2>1, <3>1, <3>2
  <2> QED
    BY <2>2, <2>3
<1>8. ASSUME NEW t \in Who, Store!ReadExcess(t) \/ Store!DeleteExcess(t)
      PROVE  ExcessIsCovered'
  BY <1>0, <1>1, <1>8, ReadIsCovered, DeleteIsCovered
<1> QED
  BY <1>3, <1>4, <1>5, <1>6, <1>7, <1>8, <1>9 DEF Store!Next, Who

(* A statement of a boot ends and the next one is up.                      *)
LEMMA BootGoesOn ==
    ASSUME StoreTyped, BootIsUnderWay, boot' = boot, clock' = clock,
           NEW step \in {"dangling", "old", "list", "sum"}, Store!Goes(Ui, step)
    PROVE  BootIsUnderWay' /\ run'[Ui].step = step
<1>1. run \in [Who -> Run] /\ Ui \in Who /\ Task \subseteq Who /\ Ui \notin Task
  BY StoreTypedIs, StoreAssumed DEF OthersTyped, Who, Store!StoreAssumption
<1>2. run'[Ui].step = step /\ \A t \in Task : run'[t] = run[t]
  BY <1>1 DEF Store!Goes, Run
<1> QED
  BY <1>2 DEF BootIsUnderWay, Store!Idle

(* What is tidy stays tidy while rows only go.                             *)
LEMMA TidyStays ==
    ASSUME boot' = boot, pages' = pages, refs' \subseteq refs,
           Store!Stored' \in SUBSET Store!Stored, \A i \in Store!Stored' : images'[i] = images[i]
    PROVE  /\ PagesAreYoung => PagesAreYoung'
           /\ RefsHavePages => RefsHavePages'
           /\ ImagesAreYoung => ImagesAreYoung'
           /\ refs' = refs /\ ImagesAreWanted => ImagesAreWanted'
<1>1. PagesAreYoung => PagesAreYoung'
  BY DEF PagesAreYoung, Store!IsExpired
<1>2. RefsHavePages => RefsHavePages'
  BY DEF RefsHavePages
<1>3. ImagesAreYoung => ImagesAreYoung'
  BY DEF ImagesAreYoung, Store!IsExpired
<1>4. refs' = refs /\ ImagesAreWanted => ImagesAreWanted'
  BY DEF ImagesAreWanted, Store!PathOf
<1> QED
  BY <1>1, <1>2, <1>3, <1>4

LEMMA RestartBoots == StoreTyped /\ Store!Restart => BootInv'
<1> SUFFICES ASSUME StoreTyped, Store!Restart PROVE BootInv'
  OBVIOUS
<1>1. Ui \notin Task /\ MaxClock \in Nat /\ clock \in 0..MaxClock
  BY StoreTypedIs, StoreAssumed DEF OthersTyped, Store!StoreAssumption
<1>2. /\ run'[Ui].step = "purge" /\ \A t \in Task : run'[t] = Store!Idle
      /\ boot' = clock /\ clock' = clock
  BY <1>1 DEF Store!Restart, Store!Idle
<1>3. BootIsUnderWay'
  BY <1>1, <1>2 DEF BootIsUnderWay, Store!Idle
<1>4. BootTidiesSoFar'
  BY <1>2 DEF BootTidiesSoFar
<1> QED
  BY <1>3, <1>4 DEF BootInv

LEMMA OnlyRestartBoots ==
    ASSUME boot = None, [Store!Next]_(Store!vars), ~Store!Restart
    PROVE  boot' = None
<1>1. ASSUME NEW t \in Who, Store!ReadExcess(t) \/ Store!DeleteExcess(t) \/ Store!Fails(t) \/ Store!Touch(t)
      PROVE  boot' = None
  BY <1>1 DEF Store!ReadExcess, Store!DeleteExcess, Store!Fails, Store!Touch, Store!Finish
<1>2. ASSUME NEW t \in Task, NEW i \in Image, Store!PutImage(t, i) \/ Store!GetImage(t, i)
      PROVE  boot' = None
  BY <1>2 DEF Store!PutImage, Store!GetImage, Store!Begins
<1>3. CASE \/ Store!DeleteSize \/ Store!CollectUnreferenced
           \/ Store!ClearRefs \/ Store!ClearImages \/ Store!ClearPages
  BY <1>3 DEF Store!DeleteSize, Store!CollectUnreferenced, Store!ClearRefs, Store!ClearImages,
              Store!ClearPages, Store!Begins, Store!Goes, Store!Finish
<1>4. CASE \/ \E p \in Page, paths \in SUBSET Path : Store!PutPage(p, paths)
           \/ \E allowed \in SUBSET Size : Store!Collect(allowed)
           \/ Store!Tick \/ UNCHANGED Store!vars
  BY <1>4 DEF Store!PutPage, Store!Collect, Store!Tick, Store!vars
<1>5. CASE Store!PurgePages \/ Store!PurgeRefs \/ Store!PurgeImages
  BY <1>5 DEF Store!PurgePages, Store!PurgeRefs, Store!PurgeImages, Store!Goes
<1> QED
  BY <1>1, <1>2, <1>3, <1>4, <1>5 DEF Store!Next, Who

(* purge_expired, gc_images: each statement of a boot does its part.       *)
LEMMA BootStep ==
    ASSUME StoreInv, StoreTyped', [Store!Next]_(Store!vars)
    PROVE  BootInv'
<1>1. CASE Store!Restart
  BY <1>1, RestartBoots DEF StoreInv
<1>2. CASE boot = None /\ ~Store!Restart
  BY <1>2, OnlyRestartBoots DEF BootInv
<1> SUFFICES ASSUME boot # None, boot' # None, ~Store!Restart
             PROVE  BootIsUnderWay' /\ BootTidiesSoFar'
  BY <1>1, <1>2 DEF BootInv
<1>3. /\ StoreTyped /\ BootIsUnderWay /\ BootTidiesSoFar
      /\ run \in [Who -> Run] /\ Ui \in Who /\ Task \subseteq Who /\ Ui \notin Task
  BY StoreTypedIs, StoreAssumed DEF StoreInv, BootInv, OthersTyped, Who, Store!StoreAssumption
<1>4. \A t \in Task : run[t].step = "idle"
  BY <1>3 DEF BootIsUnderWay, Store!Idle
<1>5. run[Ui].step \in {"purge", "dangling", "old", "list", "sizes", "sum", "evict"}
  BY <1>3 DEF BootIsUnderWay
<1>6. CASE Store!PurgePages
  <2>1. BootIsUnderWay' /\ run'[Ui].step = "dangling"
    BY <1>3, <1>6, BootGoesOn DEF Store!PurgePages, Store!Goes
  <2>2. boot' = boot /\ pages' = [p \in Page |-> IF pages[p] # None /\ Store!IsExpired(pages[p])
                                                    THEN None ELSE pages[p]]
    BY <1>6 DEF Store!PurgePages, Store!Goes
  <2>3. PagesAreYoung'
    BY <2>2 DEF PagesAreYoung, Store!IsExpired
  <2> QED
    BY <2>1, <2>3 DEF BootTidiesSoFar
<1>7. CASE Store!PurgeRefs
  <2>1. BootIsUnderWay' /\ run'[Ui].step = "old" /\ run[Ui].step = "dangling"
    BY <1>3, <1>7, BootGoesOn DEF Store!PurgeRefs, Store!Goes
  <2>2. boot' = boot /\ pages' = pages /\ refs' = {r \in refs : pages[r[1]] # None}
    BY <1>7 DEF Store!PurgeRefs, Store!Goes
  <2>3. PagesAreYoung' /\ RefsHavePages'
    BY <1>3, <2>1, <2>2 DEF PagesAreYoung, RefsHavePages, BootTidiesSoFar, Store!IsExpired
  <2> QED
    BY <2>1, <2>3 DEF BootTidiesSoFar
<1>8. ASSUME NEW kept \in SUBSET Store!Stored, Store!Leaves(kept), UNCHANGED <<pages, refs, boot>>
      PROVE  /\ Store!Stored' = kept /\ \A i \in kept : images'[i] = images[i]
             /\ PagesAreYoung => PagesAreYoung'
             /\ RefsHavePages => RefsHavePages'
             /\ ImagesAreYoung => ImagesAreYoung'
             /\ ImagesAreWanted => ImagesAreWanted'
  BY <1>3, <1>8, LeavesTyped, StoreTypedIs, TidyStays
<1>9. CASE Store!PurgeImages
  <2> DEFINE kept == {i \in Store!Stored : ~Store!IsExpired(images[i].fetched)}
  <2>1. BootIsUnderWay' /\ run'[Ui].step = "list" /\ run[Ui].step = "old"
    BY <1>3, <1>9, BootGoesOn DEF Store!PurgeImages, Store!Goes
  <2>2. kept \in SUBSET Store!Stored /\ Store!Leaves(kept) /\ UNCHANGED <<pages, refs, boot>>
    BY <1>9 DEF Store!PurgeImages, Store!Goes
  <2>3. /\ Store!Stored' = kept /\ \A i \in kept : images'[i] = images[i]
        /\ PagesAreYoung' /\ RefsHavePages'
    BY <1>3, <1>8, <2>1, <2>2 DEF BootTidiesSoFar
  <2>4. ImagesAreYoung'
    BY <2>2, <2>3 DEF ImagesAreYoung, Store!IsExpired
  <2> QED
    BY <2>1, <2>3, <2>4 DEF BootTidiesSoFar
<1>10. ASSUME NEW allowed \in SUBSET Size, Store!Collect(allowed)
       PROVE  BootIsUnderWay' /\ BootTidiesSoFar'
  <2>1. run[Ui].step = "list"
    BY <1>5, <1>10 DEF Store!Collect, Store!Idle
  <2>2. run'[Ui].step = "sizes" /\ \A t \in Task : run'[t] = run[t]
    BY <1>3, <1>10 DEF Store!Collect, Run
  <2>3. UNCHANGED <<pages, refs, images, boot, clock>>
    BY <1>10 DEF Store!Collect
  <2>4. PagesAreYoung' /\ RefsHavePages' /\ ImagesAreYoung'
    BY <1>3, <2>1, <2>3 DEF BootTidiesSoFar, PagesAreYoung, RefsHavePages, ImagesAreYoung,
                            Store!IsExpired, Store!Stored
  <2> QED
    BY <1>3, <2>2, <2>3, <2>4 DEF BootTidiesSoFar, BootIsUnderWay, Store!Idle
<1>11. CASE Store!DeleteSize
  <2>1. PICK s \in run[Ui].sizes :
           /\ Store!Leaves({i \in Store!Stored : Store!SizeOf(i) # s})
           /\ run' = [run EXCEPT ![Ui].sizes = @ \ {s}]
    BY <1>11 DEF Store!DeleteSize
  <2>2. /\ run[Ui].step = "sizes" /\ run'[Ui].step = "sizes" /\ \A t \in Task : run'[t] = run[t]
        /\ UNCHANGED <<pages, refs, boot, clock>>
    BY <1>3, <1>11, <2>1 DEF Store!DeleteSize, Run
  <2>3. {i \in Store!Stored : Store!SizeOf(i) # s} \in SUBSET Store!Stored
    OBVIOUS
  <2>4. PagesAreYoung' /\ RefsHavePages' /\ ImagesAreYoung'
    BY <1>3, <1>8, <2>1, <2>2, <2>3 DEF BootTidiesSoFar
  <2> QED
    BY <1>3, <2>2, <2>4 DEF BootTidiesSoFar, BootIsUnderWay, Store!Idle
<1>12. CASE Store!CollectUnreferenced
  <2> DEFINE kept == Store!Referenced(Store!Stored, refs)
  <2>1. BootIsUnderWay' /\ run'[Ui].step = "sum" /\ run[Ui].step = "sizes"
    BY <1>3, <1>12, BootGoesOn DEF Store!CollectUnreferenced, Store!Goes
  <2>2. kept \in SUBSET Store!Stored /\ Store!Leaves(kept) /\ UNCHANGED <<pages, refs, boot>>
    BY <1>12 DEF Store!CollectUnreferenced, Store!Goes, Store!Referenced
  <2>3. /\ Store!Stored' = kept /\ \A i \in kept : images'[i] = images[i]
        /\ PagesAreYoung' /\ RefsHavePages' /\ ImagesAreYoung'
    BY <1>3, <1>8, <2>1, <2>2 DEF BootTidiesSoFar
  <2>4. ASSUME NEW i \in kept
        PROVE  (\E r \in refs : r[2] = Store!PathOf(i)) \/ images[i].accessed + Grace >= boot
    <3>1. (\E r \in refs : r[2] = Store!PathOf(i)) \/ images[i].accessed + Grace >= clock
      BY DEF Store!Referenced
    <3>2. images[i].accessed \in Nat /\ Grace \in Nat /\ clock \in Nat /\ boot \in Nat /\ boot <= clock
      BY <1>3, StoreTypedIs, StoreAssumed
         DEF RowsTyped, OthersTyped, BootIsUnderWay, Store!Row, Store!Referenced, Store!StoreAssumption
    <3> QED
      BY <3>1, <3>2
  <2> HIDE DEF kept
  <2>5. ImagesAreWanted'
    BY <2>2, <2>3, <2>4 DEF ImagesAreWanted, Store!PathOf
  <2> QED
    BY <2>1, <2>3, <2>5 DEF BootTidiesSoFar
<1>13. ASSUME NEW t \in Who, Store!ReadExcess(t)
       PROVE  BootIsUnderWay' /\ BootTidiesSoFar'
  <2>1. t = Ui /\ run[Ui].step = "sum"
    BY <1>4, <1>13 DEF Store!ReadExcess, Who
  <2>2. /\ run' = [run EXCEPT ![Ui].step = "evict", ![Ui].excess = Store!ExcessOf(Store!Stored)]
        /\ UNCHANGED <<pages, refs, images, boot, clock>>
    BY <1>13, <2>1 DEF Store!ReadExcess, Store!Finish
  <2>3. run'[Ui].step = "evict" /\ \A u \in Task : run'[u] = run[u]
    BY <1>3, <2>2 DEF Run
  <2>4. PagesAreYoung' /\ RefsHavePages' /\ ImagesAreYoung' /\ ImagesAreWanted'
    BY <1>3, <2>1, <2>2 DEF BootTidiesSoFar, PagesAreYoung, RefsHavePages, ImagesAreYoung,
                            ImagesAreWanted, Store!IsExpired, Store!PathOf, Store!Stored
  <2> QED
    BY <1>3, <2>2, <2>3, <2>4 DEF BootTidiesSoFar, BootIsUnderWay, Store!Idle
<1>14. CASE Store!Tick \/ UNCHANGED Store!vars
  <2>1. UNCHANGED <<pages, refs, images, run, boot>>
    BY <1>14 DEF Store!Tick, Store!vars
  <2>2. boot' <= clock'
    <3>1. clock \in Nat /\ boot \in Nat /\ boot <= clock
      BY <1>3, StoreTypedIs DEF OthersTyped, BootIsUnderWay
    <3>2. clock' = clock \/ clock' = clock + 1
      BY <1>14 DEF Store!Tick, Store!vars
    <3> QED
      BY <2>1, <3>1, <3>2
  <2>3. BootTidiesSoFar'
    BY <1>3, <2>1 DEF BootTidiesSoFar, PagesAreYoung, RefsHavePages, ImagesAreYoung,
                      ImagesAreWanted, Store!IsExpired, Store!PathOf, Store!Stored
  <2> QED
    BY <1>3, <2>1, <2>2, <2>3 DEF BootIsUnderWay, Store!Idle
<1>15. ASSUME NEW t \in Who, Store!DeleteExcess(t) \/ Store!Fails(t)
       PROVE  FALSE
  <2>1. t = Ui
    BY <1>4, <1>15 DEF Store!DeleteExcess, Store!Fails, Who
  <2> QED
    BY <1>15, <2>1 DEF Store!DeleteExcess, Store!Fails, Store!Finish
<1>16. ASSUME NEW t \in Task, NEW i \in Image,
              Store!PutImage(t, i) \/ Store!GetImage(t, i)
       PROVE  FALSE
  BY <1>4, <1>16 DEF Store!PutImage, Store!GetImage, Store!Begins
<1>17. ASSUME \/ Store!ClearRefs \/ Store!ClearImages \/ Store!ClearPages
              \/ \E p \in Page, paths \in SUBSET Path : Store!PutPage(p, paths)
       PROVE  FALSE
  BY <1>5, <1>17 DEF Store!ClearRefs, Store!ClearImages, Store!ClearPages, Store!PutPage, Store!Begins
<1>18. ASSUME NEW t \in Task, Store!Touch(t)
       PROVE  FALSE
  BY <1>4, <1>18 DEF Store!Touch
<1> QED
  BY <1>6, <1>7, <1>9, <1>10, <1>11, <1>12, <1>13, <1>14, <1>15, <1>16, <1>17, <1>18 DEF Store!Next, Who

LEMMA StoreStep ==
    ASSUME StoreInv, [Store!Next]_(Store!vars)
    PROVE  StoreInv'
<1>1. StoreTyped' /\ ExcessIsCovered'
  BY CoverStep
<1>2. BootInv'
  BY <1>1, BootStep
<1> QED
  BY <1>1, <1>2 DEF StoreInv

(* A boot that gets through ends with evict_over_budget.                   *)
LEMMA BootEnds ==
    ASSUME [Store!Next]_(Store!vars), boot # None, boot' = None, BootIsUnderWay, clock # None,
           Store!IsEvicting(Ui), ~cut', Ui \in Who
    PROVE  Store!ReadExcess(Ui) \/ Store!DeleteExcess(Ui)
<1>1. \A t \in Task : run[t].step = "idle"
  BY DEF BootIsUnderWay, Store!Idle
<1>2. run[Ui].step \in {"sum", "evict"}
  BY DEF Store!IsEvicting
<1>3. ASSUME NEW t \in Who, Store!ReadExcess(t) \/ Store!DeleteExcess(t) \/ Store!Fails(t)
      PROVE  Store!ReadExcess(Ui) \/ Store!DeleteExcess(Ui)
  <2>1. t = Ui
    BY <1>1, <1>3 DEF Store!ReadExcess, Store!DeleteExcess, Store!Fails, Who
  <2>2. ~Store!Fails(Ui)
    BY DEF Store!Fails
  <2> QED
    BY <1>3, <2>1, <2>2
<1>4. ASSUME NEW t \in Task, Store!Touch(t)
      PROVE  FALSE
  BY <1>1, <1>4 DEF Store!Touch
<1>5. ASSUME NEW t \in Task, NEW i \in Image, Store!PutImage(t, i) \/ Store!GetImage(t, i)
      PROVE  FALSE
  BY <1>5 DEF Store!PutImage, Store!GetImage, Store!Begins
<1>6. ASSUME \/ Store!ClearRefs \/ Store!ClearImages \/ Store!ClearPages
             \/ Store!DeleteSize \/ Store!CollectUnreferenced
             \/ Store!PurgePages \/ Store!PurgeRefs \/ Store!PurgeImages
      PROVE  FALSE
  BY <1>2, <1>6 DEF Store!ClearRefs, Store!ClearImages, Store!ClearPages, Store!Begins, Store!DeleteSize,
     Store!CollectUnreferenced, Store!PurgePages, Store!PurgeRefs, Store!PurgeImages
<1>7. ASSUME \/ \E p \in Page, paths \in SUBSET Path : Store!PutPage(p, paths)
             \/ \E allowed \in SUBSET Size : Store!Collect(allowed)
             \/ Store!Tick \/ UNCHANGED Store!vars
      PROVE  FALSE
  BY <1>7 DEF Store!PutPage, Store!Collect, Store!Tick, Store!vars
<1>8. ASSUME Store!Restart
      PROVE  FALSE
  BY <1>8 DEF Store!Restart
<1> QED
  BY <1>3, <1>4, <1>5, <1>6, <1>7, <1>8 DEF Store!Next, Who

LEMMA StoreStart == Store!Init => StoreInv
<1> SUFFICES ASSUME Store!Init PROVE StoreInv
  OBVIOUS
<1>1. Store!Stored = {} /\ order = {} /\ images = << >>
  BY DEF Store!Init, Store!Stored
<1>2. RowsTyped
  BY <1>1, FS_EmptySet DEF RowsTyped
<1>3. run \in [Who -> Run] /\ \A t \in Who : run[t].step = "idle"
  <2>1. Store!Idle \in Run
    BY DEF Store!Idle, Run, Steps
  <2> QED
    BY <2>1 DEF Store!Init, Store!Idle, Who
<1>4. OthersTyped
  <2>1. clock = 0 /\ 0 \in 0..MaxClock
    BY StoreAssumed DEF Store!Init, Store!StoreAssumption
  <2>2. pages \in [Page -> 0..MaxClock \cup {None}] /\ refs \subseteq Page \X Path
    BY DEF Store!Init
  <2>3. boot = None /\ cut \in BOOLEAN
    BY DEF Store!Init
  <2> QED
    BY <1>3, <2>1, <2>2, <2>3 DEF OthersTyped
<1>5. ExcessIsCovered
  BY <1>1, <1>3, BytesOfNone, StoreAssumed DEF ExcessIsCovered, Store!StoreAssumption
<1>6. BootInv
  BY DEF Store!Init, BootInv
<1> QED
  BY <1>2, <1>4, <1>5, <1>6, StoreTypedIs DEF StoreInv

LEMMA StoreOnly == [KeptNext]_<<part, vars, store, settings>> => [Store!Next]_(Store!vars)
BY DEF KeptNext, store, Store!vars

LEMMA StoreAlways == KeptSpec => []StoreInv
<1>1. KeptInit => StoreInv
  BY StoreStart DEF KeptInit
<1>2. StoreInv /\ [KeptNext]_<<part, vars, store, settings>> => StoreInv'
  BY StoreStep, StoreOnly
<1> QED
  BY <1>1, <1>2, PTL DEF KeptSpec

(* put_image, evict_over_budget: for any images, tasks and bounds, and     *)
(* however the statements interleave, the rows keep to one order, and fit  *)
(* the budget once no put is at work.                                      *)
THEOREM ImagesFitTheBudget == KeptSpec => []StoreWithinBudget
<1>1. StoreInv => StoreWithinBudget
  BY DEF StoreInv, StoreTyped, ExcessIsCovered, Covers, StoreWithinBudget,
         Store!WithinBudget, Store!IsEvicting, Who
<1> QED
  BY <1>1, StoreAlways, PTL

LEMMA DeleteEvicts ==
    ASSUME StoreInv, NEW t \in Who, Store!DeleteExcess(t)
    PROVE  /\ run[t].excess \in Nat /\ run[t].excess > 0
           /\ Store!Stored' = Store!Evict(Store!Stored, run[t].excess)
           /\ \A i \in Store!Stored' : images'[i] = images[i]
<1>1. StoreTyped /\ RowsTyped /\ run[t] \in Run /\ run[t].step = "evict"
  BY StoreTypedIs DEF StoreInv, OthersTyped, Store!DeleteExcess
<1>2. run[t].excess \in Nat /\ run[t].excess > 0
  BY <1>1 DEF StoreInv, ExcessIsCovered, Run
<1>3. Store!Evict(Store!Stored, run[t].excess) \in SUBSET Store!Stored
  BY DEF Store!Evict
<1> QED
  BY <1>1, <1>2, <1>3, LeavesTyped DEF Store!DeleteExcess

(* evict_over_budget: with some row that went the images would be over the *)
(* budget again.                                                           *)
THEOREM NoMoreGoes == KeptSpec => EvictsTheExcess
<1> DEFINE Crosses == \A t \in Who :
        Store!DeleteExcess(t) /\ run[t].excess = Store!ExcessOf(Store!Stored) => Store!CrossesBudget
<1>1. StoreInv => Crosses
  <2> SUFFICES ASSUME StoreInv, NEW t \in Who, Store!DeleteExcess(t),
                      run[t].excess = Store!ExcessOf(Store!Stored)
               PROVE  Store!CrossesBudget
    OBVIOUS
  <2> DEFINE kept == Store!Evict(Store!Stored, run[t].excess)
  <2>1. run[t].excess \in Nat /\ run[t].excess > 0 /\ Store!Stored' = kept /\ StoreTyped
    BY DeleteEvicts DEF StoreInv
  <2>2. PICK i \in Store!Stored \ kept : Store!Bytes(kept) + Length[i] > Budget
    BY <2>1, EvictCrosses
  <2>3. i \in Store!Evicted /\ Store!Bytes(Store!Stored') + Length[i] > Budget
    BY <2>1, <2>2 DEF Store!Evicted
  <2> QED
    BY <2>3 DEF Store!CrossesBudget
<1>2. StoreInv => [Crosses]_(Store!vars)
  BY <1>1
<1> QED
  BY <1>2, StoreAlways, PTL DEF Crosses, EvictsTheExcess, Store!EvictsTheExcess, Who

(* evict_over_budget: what goes was read no later than what stays.         *)
THEOREM ColdestGo == KeptSpec => ColdestGoFirst
<1> DEFINE Coldest == \A t \in Who : Store!DeleteExcess(t)
          => \A gone \in Store!Evicted, kept \in Store!Stored' :
                images[gone].accessed <= images'[kept].accessed
<1>1. StoreInv => Coldest
  <2> SUFFICES ASSUME StoreInv, NEW t \in Who, Store!DeleteExcess(t),
                      NEW gone \in Store!Evicted, NEW kept \in Store!Stored'
               PROVE  images[gone].accessed <= images'[kept].accessed
    OBVIOUS
  <2>1. /\ run[t].excess \in Nat /\ StoreTyped
        /\ Store!Stored' = Store!Evict(Store!Stored, run[t].excess)
        /\ images'[kept] = images[kept]
    BY DeleteEvicts DEF StoreInv
  <2>2. gone \in Store!Stored \ Store!Evict(Store!Stored, run[t].excess)
    BY <2>1 DEF Store!Evicted
  <2> QED
    BY <2>1, <2>2, EvictColdest
<1>2. StoreInv => [Coldest]_(Store!vars)
  BY <1>1
<1> QED
  BY <1>2, StoreAlways, PTL DEF Coldest, ColdestGoFirst, Store!ColdestGoFirst, Who

(* maintenance: for any pages, images, ages and bounds, and whatever       *)
(* failures, kills and clearing left behind, a boot that gets through its  *)
(* statements leaves no reference without its page, nothing past its age   *)
(* and no image that is neither referred to nor read in the grace time.    *)
THEOREM BootLeavesItTidy == KeptSpec => BootTidies
<1> DEFINE Tidies == boot # None /\ boot' = None /\ Store!IsEvicting(Ui) /\ ~cut'
          => /\ \A r \in refs' : pages'[r[1]] # None
             /\ \A p \in Page : pages'[p] # None => ~Store!IsExpired(pages'[p])
             /\ \A i \in Store!Stored' :
                   /\ ~Store!IsExpired(images'[i].fetched)
                   /\ \/ \E r \in refs' : r[2] = Store!PathOf(i)
                      \/ images'[i].accessed + Grace >= boot
<1>1. StoreInv /\ [Store!Next]_(Store!vars) => Tidies
  <2> SUFFICES ASSUME StoreInv, [Store!Next]_(Store!vars),
                      boot # None, boot' = None, Store!IsEvicting(Ui), ~cut'
               PROVE  Tidies
    OBVIOUS
  <2>1. /\ StoreTyped /\ BootIsUnderWay /\ Ui \in Who
        /\ PagesAreYoung /\ RefsHavePages /\ ImagesAreYoung /\ ImagesAreWanted
    BY DEF StoreInv, BootInv, BootTidiesSoFar, Store!IsEvicting, Who
  <2>2. \/ Store!ReadExcess(Ui) \/ Store!DeleteExcess(Ui)
    <3>1. clock # None
      BY <2>1, StoreTypedIs, StoreAssumed DEF OthersTyped, Store!StoreAssumption
    <3> QED
      BY <2>1, <3>1, BootEnds
  <2>3. /\ pages' = pages /\ refs' = refs
        /\ Store!Stored' \in SUBSET Store!Stored /\ \A i \in Store!Stored' : images'[i] = images[i]
    <3>1. CASE Store!ReadExcess(Ui)
      BY <3>1 DEF Store!ReadExcess, Store!Stored
    <3>2. CASE Store!DeleteExcess(Ui)
      <4>1. Store!Stored' = Store!Evict(Store!Stored, run[Ui].excess)
            /\ \A i \in Store!Stored' : images'[i] = images[i]
        BY <2>1, <3>2, DeleteEvicts
      <4> QED
        BY <3>2, <4>1 DEF Store!DeleteExcess, Store!Evict
    <3> QED
      BY <2>2, <3>1, <3>2
  <2>4. \A r \in refs' : pages'[r[1]] # None
    BY <2>1, <2>3 DEF RefsHavePages
  <2>5. \A p \in Page : pages'[p] # None => ~Store!IsExpired(pages'[p])
    BY <2>1, <2>3 DEF PagesAreYoung
  <2>6. \A i \in Store!Stored' : ~Store!IsExpired(images'[i].fetched)
    BY <2>1, <2>3 DEF ImagesAreYoung
  <2>7. \A i \in Store!Stored' : \/ \E r \in refs' : r[2] = Store!PathOf(i)
                                 \/ images'[i].accessed + Grace >= boot
    BY <2>1, <2>3 DEF ImagesAreWanted
  <2> QED
    BY <2>4, <2>5, <2>6, <2>7
<1>2. StoreInv /\ [KeptNext]_<<part, vars, store, settings>> => [Tidies]_(Store!vars)
  BY <1>1, StoreOnly
<1> QED
  BY <1>2, StoreAlways, PTL DEF KeptSpec, Tidies, BootTidies, Store!BootTidies
=============================================================================
