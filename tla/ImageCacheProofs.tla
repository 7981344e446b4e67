-------------------------- MODULE ImageCacheProofs --------------------------
(***************************************************************************)
(* Theorems about the image cache, for any URLs, sizes, budget, number of  *)
(* fetches and bounds; no step below depends on which victims trim         *)
(* chooses.                                                                *)
(***************************************************************************)
EXTENDS ImageCache, FiniteSetTheorems, TLAPS

(***************************************************************************)
(* What a fetch that starts, moves on and ends does to the task slots.     *)
(***************************************************************************)
LEMMA EnsureTypes ==
    ASSUME TypeOK, NEW u \in Url, Ensure(u)
    PROVE  /\ pending' \subseteq Url
           /\ task' \in [Task -> Fetch \cup {Idle}]
BY SMTT(30) DEF Ensure, TypeOK, Fetch

LEMMA SendTypes ==
    ASSUME TypeOK, NEW t \in Task, NEW ok \in BOOLEAN,
           task[t] # Idle, Send(t, ok)
    PROVE  /\ task' \in [Task -> Fetch \cup {Idle}]
           /\ channel' \in Seq(Result)
<1>1. task[t] \in Fetch
  BY DEF TypeOK
<1>2. task[t].url \in Url
  BY <1>1 DEF Fetch
<1>3. [url |-> task[t].url, ok |-> ok] \in Result
  BY <1>2 DEF Result
<1> QED
  BY <1>3 DEF Send, TypeOK

(* A task at one of its steps is a fetch. *)
LEMMA StepIsFetch ==
    ASSUME TypeOK, NEW t \in Task, task[t].at \in {"table", "network", "keep"}
    PROVE  /\ task[t] \in Fetch
           /\ task[t] # Idle
BY DEF TypeOK, Idle

LEMMA TaskTypes ==
    ASSUME TypeOK, NEW t \in Task, TaskStep(t)
    PROVE  /\ task' \in [Task -> Fetch \cup {Idle}]
           /\ channel' \in Seq(Result)
           /\ stored' \in [Url -> Row]
           /\ UNCHANGED <<cacheVars, clears>>
<1>1. CASE ReadTable(t)
  <2>1. task[t] \in Fetch /\ task[t] # Idle
    BY <1>1, StepIsFetch DEF ReadTable
  <2>2. CASE task' = [task EXCEPT ![t].at = "network"] /\ UNCHANGED channel
    <3>1. [task[t] EXCEPT !.at = "network"] \in Fetch
      BY <1>1, <2>1 DEF ReadTable, Fetch
    <3> QED
      BY <1>1, <2>2, <3>1 DEF ReadTable, TypeOK
  <2>3. CASE Send(t, stored[task[t].url] = "good")
    <3>1. (stored[task[t].url] = "good") \in BOOLEAN
      OBVIOUS
    <3> QED
      BY <1>1, <2>1, <2>3, <3>1, SendTypes DEF ReadTable, TypeOK
  <2> QED
    BY <1>1, <2>2, <2>3 DEF ReadTable
<1>2. CASE Download(t)
  <2>1. task[t] \in Fetch /\ task[t] # Idle
    BY <1>2, StepIsFetch DEF Download
  <2>2. CASE Send(t, FALSE)
    BY <1>2, <2>1, <2>2, SendTypes DEF Download, TypeOK
  <2>3. ASSUME NEW body \in Body,
               task' = [task EXCEPT ![t].at = "keep", ![t].body = body], UNCHANGED channel
        PROVE  task' \in [Task -> Fetch \cup {Idle}] /\ channel' \in Seq(Result)
    <3>1. [task[t] EXCEPT !.at = "keep", !.body = body] \in Fetch
      BY <2>1 DEF Fetch
    <3> QED
      BY <2>3, <3>1 DEF TypeOK
  <2> QED
    BY <1>2, <2>2, <2>3 DEF Download, TypeOK
<1>3. CASE Keep(t)
  <2>1. task[t] \in Fetch /\ task[t] # Idle
    BY <1>3, StepIsFetch DEF Keep
  <2>2. task[t].url \in Url /\ task[t].body \in Row
    BY <1>3, <2>1 DEF Keep, Fetch, Row, Body
  <2>3. stored' \in [Url -> Row]
    BY <1>3, <2>2 DEF Keep, TypeOK
  <2>4. Send(t, task[t].body = "good") /\ (task[t].body = "good") \in BOOLEAN
    BY <1>3 DEF Keep
  <2> QED
    BY <1>3, <2>1, <2>3, <2>4, SendTypes DEF Keep
<1> QED
  BY <1>1, <1>2, <1>3 DEF TaskStep

(***************************************************************************)
(* The set of failures keeps to its cap.                                   *)
(***************************************************************************)
LEMMA FailedKeepsToCap ==
    ASSUME TypeOK, NEW u \in Url, RememberFailed(u)
    PROVE  failed' \subseteq Url /\ Cardinality(failed') <= FailedCap
<1> DEFINE kept == IF Cardinality(failed) >= FailedCap THEN {} ELSE failed
<1>1. IsFiniteSet(failed)
  BY FS_Subset, CacheAssumption DEF TypeOK
<1>2. IsFiniteSet(kept) /\ Cardinality(kept) < FailedCap
  BY <1>1, FS_EmptySet, FS_CardinalityType, CacheAssumption
<1> HIDE DEF kept
<1>3. /\ IsFiniteSet(kept \cup {u})
      /\ Cardinality(kept \cup {u})
            = IF u \in kept THEN Cardinality(kept) ELSE Cardinality(kept) + 1
  BY <1>2, FS_AddElement
<1>4. Cardinality(kept) \in Nat
  BY <1>2, FS_CardinalityType
<1>5. Cardinality(kept \cup {u}) <= FailedCap
  BY <1>2, <1>3, <1>4, CacheAssumption
<1>6. failed' = kept \cup {u} /\ kept \subseteq failed
  BY DEF RememberFailed, kept
<1> QED
  BY <1>5, <1>6 DEF TypeOK

LEMMA FailedShrinks ==
    ASSUME TypeOK, NEW u, failed' = failed \ {u}
    PROVE  failed' \subseteq Url /\ Cardinality(failed') <= FailedCap
<1>1. IsFiniteSet(failed)
  BY FS_Subset, CacheAssumption DEF TypeOK
<1>2. Cardinality(failed') <= Cardinality(failed) /\ Cardinality(failed') \in Nat
  BY <1>1, FS_Subset, FS_CardinalityType
<1> QED
  BY <1>1, <1>2, FS_CardinalityType, CacheAssumption DEF TypeOK

(***************************************************************************)
(* The type invariant.                                                     *)
(***************************************************************************)
LEMMA InitTypes == Init => TypeOK
<1> SUFFICES ASSUME Init PROVE TypeOK
  OBVIOUS
<1>1. Cardinality({}) = 0
  BY FS_EmptySet
<1>2. Resident = {} /\ textures \in [Resident -> 0..MaxEpoch]
  BY DEF Init, Resident
<1>3. channel \in Seq(Result) /\ task \in [Task -> Fetch \cup {Idle}]
  BY DEF Init
<1> QED
  BY <1>1, <1>2, <1>3, CacheAssumption DEF Init, TypeOK, Row, Body

LEMMA LookupTypes ==
    ASSUME TypeOK, NEW u \in Url, Lookup(u)
    PROVE  TypeOK'
<1>1. CASE u \in Resident
  <2>1. textures' = [textures EXCEPT ![u] = epoch] /\ UNCHANGED <<pending, task>>
    BY <1>1 DEF Lookup
  <2>2. Resident' = Resident /\ textures' \in [Resident' -> 0..MaxEpoch]
    BY <2>1 DEF TypeOK, Resident
  <2> QED
    BY <2>1, <2>2 DEF Lookup, TypeOK
<1>2. CASE u \notin Resident
  <2>1. Ensure(u) /\ UNCHANGED textures
    BY <1>2 DEF Lookup
  <2> QED
    BY <2>1, EnsureTypes DEF Lookup, TypeOK, Resident
<1> QED
  BY <1>1, <1>2

LEMMA PollTypes ==
    ASSUME TypeOK, Poll
    PROVE  TypeOK'
<1> DEFINE u == Head(channel).url
<1>1. Head(channel) \in Result /\ Tail(channel) \in Seq(Result)
  BY DEF Poll, TypeOK
<1>2. u \in Url
  BY <1>1 DEF Result
<1>3. /\ pending' \subseteq Url /\ channel' \in Seq(Result)
      /\ UNCHANGED <<epoch, task, stored, clears>>
  BY <1>1 DEF Poll, TypeOK
<1>4. CASE Head(channel).ok
  <2>1. failed' = failed \ {u} /\ InsertTexture(u)
    BY <1>4 DEF Poll
  <2>2. Resident' = Resident \cup {u} /\ textures' \in [Resident' -> 0..MaxEpoch]
    BY <2>1 DEF InsertTexture, TypeOK, Resident
  <2>3. failed' \subseteq Url /\ Cardinality(failed') <= FailedCap
    BY <2>1, FailedShrinks
  <2> QED
    BY <1>2, <1>3, <2>2, <2>3 DEF TypeOK
<1>5. CASE ~Head(channel).ok
  <2>1. RememberFailed(u) /\ UNCHANGED <<textures, resident>>
    BY <1>5 DEF Poll
  <2>2. failed' \subseteq Url /\ Cardinality(failed') <= FailedCap
    BY <1>2, <2>1, FailedKeepsToCap
  <2> QED
    BY <1>3, <2>1, <2>2 DEF TypeOK, Resident
<1> QED
  BY <1>4, <1>5

LEMMA EndFrameTypes ==
    ASSUME TypeOK, EndFrame
    PROVE  TypeOK'
<1>1. PICK gone \in SUBSET Cold : textures' = Restrict(textures, Resident \ gone)
  BY DEF EndFrame
<1>2. Resident' = Resident \ gone /\ textures' \in [Resident' -> 0..MaxEpoch]
  BY <1>1 DEF Restrict, Resident, TypeOK
<1>3. epoch' \in 0..MaxEpoch
  BY CacheAssumption DEF EndFrame, TypeOK
<1> QED
  BY <1>2, <1>3 DEF EndFrame, TypeOK

LEMMA ClearTypes ==
    ASSUME TypeOK, ClearImages \/ ClearTmdbCache
    PROVE  TypeOK'
<1>1. Clear /\ stored' \in [Url -> Row]
  BY DEF ClearImages, ClearTmdbCache, TypeOK, Row, Body
<1>2. Resident' = {} /\ textures' \in [Resident' -> 0..MaxEpoch]
  BY <1>1 DEF Clear, Resident
<1>3. Cardinality(failed') <= FailedCap
  BY <1>1, FS_EmptySet, CacheAssumption DEF Clear
<1> QED
  BY <1>1, <1>2, <1>3, CacheAssumption DEF Clear, TypeOK

LEMMA NextTypes == TypeOK /\ [Next]_vars => TypeOK'
<1> SUFFICES ASSUME TypeOK, [Next]_vars PROVE TypeOK'
  OBVIOUS
<1>1. CASE \E u \in Url : Lookup(u)
  BY <1>1, LookupTypes
<1>2. CASE \E u \in Url : RowGoes(u)
  BY <1>2 DEF RowGoes, cacheVars, TypeOK, Row, Resident
<1>3. CASE \E t \in Task : TaskStep(t)
  BY <1>3, TaskTypes DEF cacheVars, TypeOK, Resident
<1>4. CASE Poll
  BY <1>4, PollTypes
<1>5. CASE EndFrame
  BY <1>5, EndFrameTypes
<1>6. CASE ClearImages \/ ClearTmdbCache
  BY <1>6, ClearTypes
<1>7. CASE UNCHANGED vars
  BY <1>7 DEF vars, TypeOK, Resident
<1> QED
  BY <1>1, <1>2, <1>3, <1>4, <1>5, <1>6, <1>7 DEF Next

(* Every reachable state is well typed, and the failures keep to their cap. *)
THEOREM TypeCorrect == Spec => []TypeOK
<1>1. Init => TypeOK
  BY InitTypes
<1>2. TypeOK /\ [Next]_vars => TypeOK'
  BY NextTypes
<1> QED
  BY <1>1, <1>2, PTL DEF Spec

-----------------------------------------------------------------------------
(***************************************************************************)
(* Nothing stays pending without a fetch or a result on its way.           *)
(*                                                                         *)
(* A step keeps a URL carried when its fetch goes on or its result stays   *)
(* in the channel; poll takes the first result and, in the same step, its  *)
(* URL from what is pending.                                               *)
(***************************************************************************)
LEMMA SendCarries ==
    ASSUME TypeOK, NEW t \in Task, NEW ok, Send(t, ok),
           NEW u, Fetched(u) \/ Answered(u)
    PROVE  Fetched(u)' \/ Answered(u)'
<1>1. /\ Len(channel') = Len(channel) + 1
      /\ \A i \in DOMAIN channel : i \in DOMAIN channel' /\ channel'[i] = channel[i]
      /\ Len(channel) + 1 \in DOMAIN channel'
      /\ channel'[Len(channel) + 1].url = task[t].url
  BY DEF Send, TypeOK
<1>2. CASE Answered(u)
  BY <1>1, <1>2 DEF Answered
<1>3. CASE Fetched(u)
  <2>1. PICK s \in Task : task[s] # Idle /\ task[s].url = u
    BY <1>3 DEF Fetched
  <2>2. CASE s = t
    BY <1>1, <2>1, <2>2 DEF Answered
  <2>3. CASE s # t
    BY <2>1, <2>3 DEF Send, TypeOK, Fetched
  <2> QED
    BY <2>2, <2>3
<1> QED
  BY <1>2, <1>3

LEMMA TaskCarries ==
    ASSUME TypeOK, NEW t \in Task, TaskStep(t), NEW u, Fetched(u) \/ Answered(u)
    PROVE  Fetched(u)' \/ Answered(u)'
<1>1. CASE \E ok : Send(t, ok)
  BY <1>1, SendCarries
<1>2. ASSUME NEW at \in {"network", "keep"}, NEW body,
             \/ task' = [task EXCEPT ![t].at = at]
             \/ task' = [task EXCEPT ![t].at = at, ![t].body = body],
             UNCHANGED channel, task[t] # Idle, task[t] \in Fetch
      PROVE  Fetched(u)' \/ Answered(u)'
  <2>1. CASE Answered(u)
    BY <1>2, <2>1 DEF Answered
  <2>2. CASE Fetched(u)
    <3>1. PICK s \in Task : task[s] # Idle /\ task[s].url = u
      BY <2>2 DEF Fetched
    <3>2. task'[s].url = u
      BY <1>2, <3>1 DEF TypeOK, Fetch
    <3>3. CASE s = t
      <4>1. task'[s].at = at
        BY <1>2, <3>3 DEF TypeOK, Fetch
      <4> QED
        BY <3>2, <4>1 DEF Fetched, Idle
    <3>4. CASE s # t
      BY <1>2, <3>1, <3>2, <3>4 DEF TypeOK, Fetched
    <3> QED
      BY <3>3, <3>4
  <2> QED
    BY <2>1, <2>2
<1>3. CASE ReadTable(t)
  <2>1. task[t] # Idle /\ task[t] \in Fetch
    BY <1>3, StepIsFetch DEF ReadTable
  <2> QED
    BY <1>1, <1>2, <1>3, <2>1 DEF ReadTable
<1>4. CASE Download(t)
  <2>1. task[t] # Idle /\ task[t] \in Fetch
    BY <1>4, StepIsFetch DEF Download
  <2> QED
    BY <1>1, <1>2, <1>4, <2>1 DEF Download
<1>5. CASE Keep(t)
  BY <1>1, <1>5 DEF Keep
<1> QED
  BY <1>3, <1>4, <1>5 DEF TaskStep

LEMMA EnsureCarries ==
    ASSUME TypeOK, NEW v \in Url, Ensure(v), NoLostLoading, UNCHANGED channel
    PROVE  NoLostLoading'
<1>1. CASE v \in failed \cup pending
  BY <1>1 DEF Ensure, NoLostLoading, Fetched, Answered
<1>2. CASE v \notin failed \cup pending
  <2>1. PICK t \in Task :
           /\ task[t] = Idle
           /\ task' = [task EXCEPT ![t] = [url |-> v, at |-> "table", body |-> "none"]]
    BY <1>2 DEF Ensure
  <2>2. pending' = pending \cup {v}
    BY <1>2 DEF Ensure
  <2>3. Fetched(v)'
    BY <2>1 DEF Fetched, Idle, TypeOK
  <2>4. \A u : Fetched(u) => Fetched(u)'
    BY <2>1 DEF Fetched, TypeOK
  <2>5. \A u : Answered(u) => Answered(u)'
    BY DEF Answered
  <2> QED
    BY <2>2, <2>3, <2>4, <2>5 DEF NoLostLoading
<1> QED
  BY <1>1, <1>2

LEMMA PollCarries ==
    ASSUME TypeOK, Poll, NoLostLoading
    PROVE  NoLostLoading'
<1> SUFFICES ASSUME NEW u \in pending'
             PROVE  Fetched(u)' \/ Answered(u)'
  BY DEF NoLostLoading
<1>1. u \in pending /\ u # Head(channel).url /\ UNCHANGED task /\ channel' = Tail(channel)
  BY DEF Poll
<1>2. CASE Fetched(u)
  BY <1>1, <1>2 DEF Fetched
<1>3. CASE Answered(u)
  <2>1. PICK i \in DOMAIN channel : channel[i].url = u
    BY <1>3 DEF Answered
  <2>2. i # 1 /\ i \in 1..Len(channel) /\ Len(channel) \in Nat
    BY <1>1, <2>1 DEF TypeOK, Poll
  <2>3. i - 1 \in DOMAIN channel' /\ channel'[i - 1] = channel[i]
    BY <1>1, <2>2 DEF TypeOK, Poll
  <2> QED
    BY <2>1, <2>3 DEF Answered
<1> QED
  BY <1>1, <1>2, <1>3 DEF NoLostLoading

LEMMA NextCarries == TypeOK /\ NoLostLoading /\ [Next]_vars => NoLostLoading'
<1> SUFFICES ASSUME TypeOK, NoLostLoading, [Next]_vars PROVE NoLostLoading'
  OBVIOUS
<1>1. ASSUME NEW v \in Url, Lookup(v) PROVE NoLostLoading'
  <2>1. UNCHANGED channel
    BY <1>1 DEF Lookup
  <2>2. CASE v \in Resident
    BY <1>1, <2>1, <2>2 DEF Lookup, NoLostLoading, Fetched, Answered
  <2>3. CASE v \notin Resident
    BY <1>1, <2>1, <2>3, EnsureCarries DEF Lookup
  <2> QED
    BY <2>2, <2>3
<1>2. ASSUME NEW t \in Task, TaskStep(t) PROVE NoLostLoading'
  <2>1. pending' = pending
    BY <1>2, TaskTypes DEF cacheVars
  <2> QED
    BY <1>2, <2>1, TaskCarries DEF NoLostLoading
<1>3. CASE Poll
  BY <1>3, PollCarries
<1>4. CASE UNCHANGED <<pending, task, channel>>
  BY <1>4 DEF NoLostLoading, Fetched, Answered
<1>5. CASE (\E u \in Url : RowGoes(u)) \/ EndFrame
  BY <1>4, <1>5 DEF RowGoes, EndFrame, cacheVars
<1>6. CASE ClearImages \/ ClearTmdbCache
  BY <1>6 DEF ClearImages, ClearTmdbCache, Clear, NoLostLoading
<1>7. CASE UNCHANGED vars
  BY <1>4, <1>7 DEF vars
<1> QED
  BY <1>1, <1>2, <1>3, <1>5, <1>6, <1>7 DEF Next

(* A pending URL is being fetched or answered, whatever was cleared.       *)
THEOREM LoadingIsNeverLost == Spec => []NoLostLoading
<1>1. Init => NoLostLoading
  BY DEF Init, NoLostLoading
<1>2. TypeOK /\ NoLostLoading /\ [Next]_vars => NoLostLoading'
  BY NextCarries
<1> QED
  BY <1>1, <1>2, TypeCorrect, PTL DEF Spec

-----------------------------------------------------------------------------
(***************************************************************************)
(* While nothing is cleared each URL is loaded once at a time, so what     *)
(* trim drops is not remembered as failed.                                 *)
(***************************************************************************)
LEMMA SendKeepsOneCarrier ==
    ASSUME TypeOK, OneCarrier, NEW t \in Task, task[t] # Idle, NEW ok,
           Send(t, ok)
    PROVE  /\ OneCarrier'
           /\ \A u : Carried(u)' => Carried(u)
<1>1. /\ Len(channel) \in Nat
      /\ DOMAIN channel = 1..Len(channel)
      /\ DOMAIN channel' = 1..(Len(channel) + 1)
      /\ \A i \in DOMAIN channel : channel'[i] = channel[i]
      /\ channel'[Len(channel) + 1].url = task[t].url
  BY DEF Send, TypeOK
<1>2. /\ task'[t] = Idle
      /\ \A s \in Task : s # t => task'[s] = task[s]
  BY DEF Send, TypeOK
<1>3. \A s, r \in Task :
         s # r /\ task'[s] # Idle /\ task'[r] # Idle => task'[s].url # task'[r].url
  BY <1>2 DEF OneCarrier
<1>4. \A s \in Task, i \in DOMAIN channel' : task'[s] # Idle => task'[s].url # channel'[i].url
  <2> SUFFICES ASSUME NEW s \in Task, NEW i \in DOMAIN channel', task'[s] # Idle
               PROVE  task'[s].url # channel'[i].url
    OBVIOUS
  <2>1. CASE i = Len(channel) + 1
    BY <1>1, <1>2, <2>1 DEF OneCarrier
  <2>2. CASE i \in DOMAIN channel
    BY <1>1, <1>2, <2>2 DEF OneCarrier
  <2> QED
    BY <1>1, <2>1, <2>2
<1>5. \A i, j \in DOMAIN channel' : i # j => channel'[i].url # channel'[j].url
  <2> SUFFICES ASSUME NEW i \in DOMAIN channel', NEW j \in DOMAIN channel', i # j
               PROVE  channel'[i].url # channel'[j].url
    OBVIOUS
  <2>1. CASE i \in DOMAIN channel /\ j \in DOMAIN channel
    BY <1>1, <2>1 DEF OneCarrier
  <2>2. CASE i = Len(channel) + 1 /\ j \in DOMAIN channel
    BY <1>1, <2>2 DEF OneCarrier
  <2>3. CASE j = Len(channel) + 1 /\ i \in DOMAIN channel
    BY <1>1, <2>3 DEF OneCarrier
  <2> QED
    BY <1>1, <2>1, <2>2, <2>3
<1>6. ASSUME NEW u, Carried(u)' PROVE Carried(u)
  <2>1. CASE Fetched(u)'
    BY <1>2, <2>1 DEF Fetched, Carried
  <2>2. CASE Answered(u)'
    <3>1. PICK i \in DOMAIN channel' : channel'[i].url = u
      BY <2>2 DEF Answered
    <3>2. CASE i = Len(channel) + 1
      BY <1>1, <3>1, <3>2 DEF Fetched, Carried
    <3>3. CASE i \in DOMAIN channel
      BY <1>1, <3>1, <3>3 DEF Answered, Carried
    <3> QED
      BY <1>1, <3>2, <3>3
  <2> QED
    BY <1>6, <2>1, <2>2 DEF Carried
<1> QED
  BY <1>3, <1>4, <1>5, <1>6 DEF OneCarrier

(* A task that goes on to its next step keeps its URL. *)
LEMMA GoesOn ==
    ASSUME TypeOK, OneCarrier, NEW t \in Task, task[t] # Idle, task[t] \in Fetch,
           NEW at, NEW body,
           \/ task' = [task EXCEPT ![t].at = at]
           \/ task' = [task EXCEPT ![t].at = at, ![t].body = body],
           UNCHANGED channel
    PROVE  /\ OneCarrier'
           /\ \A u : Carried(u)' => Carried(u)
<1>1. task'[t].url = task[t].url /\ \A s \in Task : s # t => task'[s] = task[s]
  BY DEF TypeOK, Fetch
<1>2. \A s \in Task : task'[s] # Idle => task[s] # Idle /\ task'[s].url = task[s].url
  BY <1>1
<1> QED
  BY <1>2 DEF OneCarrier, Carried, Fetched, Answered

LEMMA TaskKeepsOneCarrier ==
    ASSUME TypeOK, OneCarrier, NEW t \in Task, TaskStep(t)
    PROVE  /\ OneCarrier'
           /\ \A u : Carried(u)' => Carried(u)
<1>1. task[t] # Idle /\ task[t] \in Fetch
  BY StepIsFetch DEF TaskStep, ReadTable, Download, Keep
<1>2. CASE \E ok : Send(t, ok)
  BY <1>1, <1>2, SendKeepsOneCarrier
<1>3. CASE ReadTable(t)
  BY <1>1, <1>2, <1>3, GoesOn DEF ReadTable
<1>4. CASE Download(t)
  BY <1>1, <1>2, <1>4, GoesOn DEF Download
<1>5. CASE Keep(t)
  BY <1>2, <1>5 DEF Keep
<1> QED
  BY <1>3, <1>4, <1>5 DEF TaskStep

LEMMA LookupLoadsOnce ==
    ASSUME TypeOK, LoadedOnce, NEW v \in Url, Lookup(v)
    PROVE  LoadedOnce'
<1>1. CASE v \in Resident \/ v \in failed \cup pending
  <2>1. Resident' = Resident /\ UNCHANGED <<pending, task, channel, failed>>
    BY <1>1 DEF Lookup, Ensure, TypeOK, Resident
  <2> QED
    BY <2>1 DEF LoadedOnce, OneCarrier, Carried, Fetched, Answered
<1>2. CASE v \notin Resident /\ v \notin failed \cup pending
  <2>1. /\ pending' = pending \cup {v}
        /\ UNCHANGED <<textures, channel, failed>>
    BY <1>2 DEF Lookup, Ensure
  <2>2. PICK t \in Task :
           /\ task[t] = Idle
           /\ task' = [task EXCEPT ![t] = [url |-> v, at |-> "table", body |-> "none"]]
    BY <1>2 DEF Lookup, Ensure
  <2>3. task'[t].url = v /\ \A s \in Task : s # t => task'[s] = task[s]
    BY <2>2 DEF TypeOK
  <2>4. ~Carried(v)
    BY <1>2 DEF LoadedOnce
  <2>5. \A s \in Task : task[s] # Idle => task[s].url # v
    BY <2>4 DEF Carried, Fetched
  <2>6. \A i \in DOMAIN channel : channel[i].url # v
    BY <2>4 DEF Carried, Answered
  <2>7. OneCarrier'
    BY <2>1, <2>3, <2>5, <2>6 DEF LoadedOnce, OneCarrier
  <2>8. \A u : Carried(u)' => Carried(u) \/ u = v
    BY <2>1, <2>3 DEF Carried, Fetched, Answered
  <2>9. Resident' = Resident
    BY <2>1 DEF Resident
  <2> QED
    BY <1>2, <2>1, <2>7, <2>8, <2>9 DEF LoadedOnce
<1> QED
  BY <1>1, <1>2

LEMMA PollLoadsOnce ==
    ASSUME TypeOK, LoadedOnce, Poll
    PROVE  LoadedOnce'
<1> DEFINE u == Head(channel).url
<1>1. /\ Len(channel) \in Nat /\ 1 \in DOMAIN channel /\ channel[1].url = u
      /\ DOMAIN channel = 1..Len(channel)
      /\ \A i \in DOMAIN channel' : i \in Nat /\ i + 1 \in DOMAIN channel /\ i + 1 # 1
                                  /\ channel'[i] = channel[i + 1]
  BY DEF Poll, TypeOK
<1>2. u \in Url
  <2>1. Head(channel) \in Result
    BY DEF Poll, TypeOK
  <2> QED
    BY <2>1 DEF Result
<1>3. pending' = pending \ {u} /\ UNCHANGED task
  BY DEF Poll
<1>4. u \in pending
  BY <1>1, <1>2 DEF LoadedOnce, Carried, Answered
<1>5. OneCarrier'
  <2>1. \A i, j \in DOMAIN channel' : i # j => channel'[i].url # channel'[j].url
    BY <1>1 DEF LoadedOnce, OneCarrier
  <2>2. \A t \in Task, i \in DOMAIN channel' : task[t] # Idle => task[t].url # channel'[i].url
    BY <1>1 DEF LoadedOnce, OneCarrier
  <2> QED
    BY <1>3, <2>1, <2>2 DEF LoadedOnce, OneCarrier
<1>6. ASSUME NEW v, Carried(v)' PROVE Carried(v) /\ v # u
  <2>1. CASE Fetched(v)'
    BY <1>1, <1>3, <2>1 DEF Fetched, Carried, LoadedOnce, OneCarrier
  <2>2. CASE Answered(v)'
    BY <1>1, <2>2 DEF Answered, Carried, LoadedOnce, OneCarrier
  <2> QED
    BY <1>6, <2>1, <2>2 DEF Carried
<1>7. /\ failed' \cap pending' = {}
      /\ Resident' \cap pending' = {}
      /\ failed' \cap Resident' = {}
  <2>1. CASE Head(channel).ok
    <3>1. failed' = failed \ {u} /\ Resident' = Resident \cup {u}
      BY <2>1 DEF Poll, InsertTexture, Resident
    <3> QED
      BY <1>3, <3>1 DEF LoadedOnce
  <2>2. CASE ~Head(channel).ok
    <3>1. failed' \subseteq failed \cup {u} /\ Resident' = Resident
      BY <2>2 DEF Poll, RememberFailed, Resident
    <3> QED
      BY <1>3, <1>4, <3>1 DEF LoadedOnce
  <2> QED
    BY <2>1, <2>2
<1> QED
  BY <1>3, <1>5, <1>6, <1>7 DEF LoadedOnce

LEMMA NextLoadsOnce ==
    ASSUME TypeOK, LoadedOnce, clears' = 0, [Next]_vars
    PROVE  LoadedOnce'
<1>1. ASSUME NEW v \in Url, Lookup(v) PROVE LoadedOnce'
  BY <1>1, LookupLoadsOnce
<1>2. ASSUME NEW t \in Task, TaskStep(t) PROVE LoadedOnce'
  <2>1. UNCHANGED <<textures, pending, failed>>
    BY <1>2, TaskTypes DEF cacheVars
  <2>2. OneCarrier' /\ \A u : Carried(u)' => Carried(u)
    BY <1>2, TaskKeepsOneCarrier DEF LoadedOnce
  <2> QED
    BY <2>1, <2>2 DEF LoadedOnce, Resident
<1>3. CASE Poll
  BY <1>3, PollLoadsOnce
<1>4. CASE EndFrame
  <2>1. PICK gone \in SUBSET Cold : textures' = Restrict(textures, Resident \ gone)
    BY <1>4 DEF EndFrame
  <2>2. Resident' = Resident \ gone
    BY <2>1 DEF Restrict, Resident
  <2>3. UNCHANGED <<pending, failed, task, channel>>
    BY <1>4 DEF EndFrame
  <2> QED
    BY <2>2, <2>3 DEF LoadedOnce, OneCarrier, Carried, Fetched, Answered
<1>5. ASSUME \/ \E u \in Url : RowGoes(u)
             \/ UNCHANGED vars
      PROVE  LoadedOnce'
  BY <1>5 DEF RowGoes, cacheVars, vars, LoadedOnce, OneCarrier, Carried, Fetched, Answered, Resident
<1>6. ~(ClearImages \/ ClearTmdbCache)
  BY CacheAssumption DEF ClearImages, ClearTmdbCache, Clear, TypeOK
<1> QED
  BY <1>1, <1>2, <1>3, <1>4, <1>5, <1>6 DEF Next

(* Until the first clear, no texture that trim drops is remembered as      *)
(* failed.                                                                 *)
THEOREM WhatIsEvictedCanReload == Spec => EvictedCanReload
<1> DEFINE Inv == clears = 0 => LoadedOnce
<1>1. Init => Inv
  BY DEF Init, LoadedOnce, OneCarrier, Carried, Fetched, Answered, Resident
<1>2. TypeOK /\ Inv /\ [Next]_vars => Inv'
  <2> SUFFICES ASSUME TypeOK, Inv, [Next]_vars, clears' = 0 PROVE LoadedOnce'
    OBVIOUS
  <2>1. CASE ClearImages \/ ClearTmdbCache
    BY <2>1, CacheAssumption DEF ClearImages, ClearTmdbCache, Clear, TypeOK
  <2>2. CASE \E t \in Task : TaskStep(t)
    BY <2>2, TaskTypes, NextLoadsOnce
  <2>3. CASE UNCHANGED clears
    BY <2>3, NextLoadsOnce
  <2>4. \/ ClearImages \/ ClearTmdbCache
        \/ \E t \in Task : TaskStep(t)
        \/ UNCHANGED clears
    BY DEF Next, Lookup, RowGoes, Poll, EndFrame, vars
  <2> QED
    BY <2>1, <2>2, <2>3, <2>4
<1>3. Inv /\ [Next]_vars
        => [clears = 0 /\ epoch' = epoch + 1
              => (Resident \ DOMAIN textures') \cap failed = {}]_vars
  BY DEF LoadedOnce
<1> QED
  BY <1>1, <1>2, <1>3, TypeCorrect, PTL DEF Spec, EvictedCanReload

-----------------------------------------------------------------------------
(***************************************************************************)
(* The byte count.  The bytes of disjoint sets of images add up.           *)
(***************************************************************************)
BytesOf(u) == {u} \X (1..Bytes[u])
BytesIn(urls) == UNION {BytesOf(u) : u \in urls}

LEMMA SizeIsBytes == \A urls : Size(urls) = Cardinality(BytesIn(urls))
BY DEF Size, BytesIn, BytesOf

LEMMA BytesOfOne ==
    ASSUME NEW u \in Url
    PROVE  IsFiniteSet(BytesOf(u)) /\ Cardinality(BytesOf(u)) = Bytes[u] /\ Bytes[u] \in Nat \ {0}
<1>1. Bytes[u] \in Nat \ {0} /\ 1 \in Int /\ Bytes[u] \in Int
  BY CacheAssumption
<1>2. IsFiniteSet(1..Bytes[u]) /\ Cardinality(1..Bytes[u]) = Bytes[u]
  BY SMTT(30), <1>1, FS_Interval
<1>3. IsFiniteSet({u}) /\ Cardinality({u}) = 1
  BY FS_Singleton
<1>4. /\ IsFiniteSet({u} \X (1..Bytes[u]))
      /\ Cardinality({u} \X (1..Bytes[u])) = Cardinality({u}) * Cardinality(1..Bytes[u])
  BY <1>2, <1>3, FS_Product
<1>5. Cardinality(BytesOf(u)) = 1 * Bytes[u]
  BY <1>2, <1>3, <1>4 DEF BytesOf
<1> QED
  BY <1>1, <1>4, <1>5 DEF BytesOf

LEMMA BytesAreFinite ==
    ASSUME NEW urls \in SUBSET Url
    PROVE  IsFiniteSet(BytesIn(urls)) /\ Size(urls) \in Nat
<1>1. IsFiniteSet(urls)
  BY FS_Subset, CacheAssumption
<1> DEFINE parts == {BytesOf(u) : u \in urls}
<1>2. IsFiniteSet(parts)
  <2> DEFINE f == [u \in urls |-> BytesOf(u)]
  <2>1. f \in Surjection(urls, parts)
    BY DEF Surjection
  <2> QED
    BY <1>1, <2>1, FS_Surjection
<1>3. \A part \in parts : IsFiniteSet(part)
  BY BytesOfOne
<1>4. IsFiniteSet(UNION parts)
  BY <1>2, <1>3, FS_UNION
<1> QED
  BY <1>4, FS_CardinalityType, SizeIsBytes DEF BytesIn

LEMMA SizesAdd ==
    ASSUME NEW some \in SUBSET Url, NEW others \in SUBSET Url, some \cap others = {}
    PROVE  Size(some \cup others) = Size(some) + Size(others)
<1>1. BytesIn(some \cup others) = BytesIn(some) \cup BytesIn(others)
  BY DEF BytesIn
<1>2. BytesIn(some) \cap BytesIn(others) = {}
  BY DEF BytesIn, BytesOf
<1>3. IsFiniteSet(BytesIn(some)) /\ IsFiniteSet(BytesIn(others))
  BY BytesAreFinite
<1> DEFINE this == BytesIn(some)
           that == BytesIn(others)
<1>4. Cardinality(this \cup that) = Cardinality(this) + Cardinality(that) - Cardinality(this \cap that)
  BY <1>3, FS_Union
<1>5. Cardinality(this \cap that) = 0
  BY <1>2, FS_EmptySet
<1>6. Cardinality(BytesIn(some)) \in Nat /\ Cardinality(BytesIn(others)) \in Nat
  BY <1>3, FS_CardinalityType
<1>7. Cardinality(BytesIn(some \cup others)) = Cardinality(BytesIn(some)) + Cardinality(BytesIn(others))
  <2>1. Cardinality(BytesIn(some \cup others)) = Cardinality(this \cup that)
    BY <1>1, Zenon
  <2> QED
    BY <1>4, <1>5, <1>6, <2>1
<1> QED
  BY <1>7, SizeIsBytes

LEMMA SizeOfNone == Size({}) = 0
<1>1. BytesIn({}) = {}
  BY DEF BytesIn
<1> QED
  BY <1>1, FS_EmptySet, SizeIsBytes

LEMMA SizeOfOne ==
    ASSUME NEW u \in Url
    PROVE  Size({u}) = Bytes[u]
<1>1. BytesIn({u}) = BytesOf(u)
  BY DEF BytesIn
<1> QED
  BY <1>1, BytesOfOne, SizeIsBytes

(* What is left weighs what goes less.                                     *)
LEMMA SizeLess ==
    ASSUME NEW urls \in SUBSET Url, NEW gone \in SUBSET urls
    PROVE  Size(urls \ gone) = Size(urls) - Size(gone) /\ Size(gone) <= Size(urls)
<1>1. urls \ gone \in SUBSET Url /\ gone \in SUBSET Url
  OBVIOUS
<1>2. (urls \ gone) \cap gone = {} /\ (urls \ gone) \cup gone = urls
  OBVIOUS
<1>3. Size(urls) = Size(urls \ gone) + Size(gone)
  BY <1>1, <1>2, SizesAdd
<1>4. Size(urls \ gone) \in Nat /\ Size(gone) \in Nat
  BY <1>1, BytesAreFinite
<1> QED
  BY <1>3, <1>4

(* A texture that is replaced counts once.                                 *)
LEMMA InsertCounts ==
    ASSUME TypeOK, Counted, NEW u \in Url, InsertTexture(u)
    PROVE  Counted'
<1>1. Resident \in SUBSET Url /\ Resident' = Resident \cup {u}
  BY DEF TypeOK, InsertTexture, Resident
<1>2. Size(Resident) \in Nat /\ Bytes[u] \in Nat /\ Size({u}) = Bytes[u]
  BY <1>1, BytesAreFinite, BytesOfOne, SizeOfOne
<1>3. resident' = Size(Resident) - (IF u \in Resident THEN Bytes[u] ELSE 0) + Bytes[u]
  BY DEF InsertTexture, Counted
<1>4. CASE u \in Resident
  <2>1. Resident' = Resident
    BY <1>1, <1>4
  <2> QED
    BY <1>2, <1>3, <1>4, <2>1 DEF Counted
<1>5. CASE u \notin Resident
  <2>1. Size(Resident \cup {u}) = Size(Resident) + Size({u})
    BY <1>1, <1>5, SizesAdd
  <2> QED
    BY <1>1, <1>2, <1>3, <1>5, <2>1 DEF Counted
<1> QED
  BY <1>4, <1>5

(* A texture was used in a frame that has been: what trim keeps of the     *)
(* frame, it keeps because nothing is newer.                               *)
UsedByNow == \A u \in Resident : textures[u] <= epoch

LEMMA NextCounts == TypeOK /\ Counted /\ UsedByNow /\ [Next]_vars => Counted' /\ UsedByNow'
<1> SUFFICES ASSUME TypeOK, Counted, UsedByNow, [Next]_vars PROVE Counted' /\ UsedByNow'
  OBVIOUS
<1>0. epoch \in Nat /\ textures \in [Resident -> Nat] /\ Resident \in SUBSET Url
  BY DEF TypeOK
<1>1. CASE \E u \in Url : Lookup(u)
  <2>1. PICK u \in Url : Lookup(u)
    BY <1>1
  <2>2. \/ UNCHANGED textures
        \/ u \in Resident /\ textures' = [textures EXCEPT ![u] = epoch]
    BY <2>1 DEF Lookup
  <2>3. UNCHANGED <<resident, epoch>> /\ Resident' = Resident
    BY <2>1, <2>2 DEF Lookup, Resident
  <2> QED
    BY <1>0, <2>2, <2>3 DEF Counted, UsedByNow, Resident
<1>2. CASE Poll
  <2> DEFINE u == Head(channel).url
  <2>1. u \in Url
    <3>1. Head(channel) \in Result
      BY <1>2 DEF Poll, TypeOK
    <3> QED
      BY <3>1 DEF Result
  <2>2. CASE Head(channel).ok
    <3>1. InsertTexture(u) /\ epoch' = epoch
      BY <1>2, <2>2 DEF Poll
    <3>2. UsedByNow'
      BY <1>0, <3>1 DEF InsertTexture, UsedByNow, Resident
    <3> QED
      BY <2>1, <3>1, <3>2, InsertCounts
  <2>3. CASE ~Head(channel).ok
    BY <1>2, <2>3 DEF Poll, Counted, UsedByNow, Resident
  <2> QED
    BY <2>2, <2>3
<1>3. CASE EndFrame
  <2>1. PICK gone \in SUBSET Cold :
            /\ textures' = Restrict(textures, Resident \ gone)
            /\ resident' = resident - Size(gone)
    BY <1>3 DEF EndFrame
  <2>2. Resident' = Resident \ gone /\ \A u \in Resident' : textures'[u] = textures[u]
    BY <2>1 DEF Restrict, Resident
  <2>3. gone \in SUBSET Resident
    BY DEF Cold
  <2>4. Counted'
    BY <1>0, <2>1, <2>2, <2>3, SizeLess DEF Counted
  <2>5. UsedByNow'
    <3>1. epoch' = epoch + 1
      BY <1>3 DEF EndFrame
    <3>2. \A u \in Resident' : textures'[u] = textures[u] /\ textures[u] \in Nat /\ textures[u] <= epoch
      BY <1>0, <2>2 DEF UsedByNow
    <3> QED
      BY <1>0, <3>1, <3>2 DEF UsedByNow
  <2> QED
    BY <2>4, <2>5
<1>4. CASE ClearImages \/ ClearTmdbCache
  <2>1. Resident' = {} /\ resident' = 0
    BY <1>4 DEF ClearImages, ClearTmdbCache, Clear, Resident
  <2> QED
    BY <2>1, SizeOfNone DEF Counted, UsedByNow
<1>5. CASE \/ \E u \in Url : RowGoes(u)
           \/ \E t \in Task : TaskStep(t)
           \/ UNCHANGED vars
  <2>1. UNCHANGED cacheVars
    BY <1>5, TaskTypes DEF RowGoes, vars, cacheVars
  <2> QED
    BY <2>1 DEF cacheVars, Counted, UsedByNow, Resident
<1> QED
  BY <1>1, <1>2, <1>3, <1>4, <1>5 DEF Next

LEMMA CountsAlways == Spec => [](TypeOK /\ Counted /\ UsedByNow)
<1>1. Init => TypeOK /\ Counted /\ UsedByNow
  <2>1. Init => Resident = {} /\ resident = 0
    BY DEF Init, Resident
  <2> QED
    BY <2>1, InitTypes, SizeOfNone DEF Counted, UsedByNow
<1>2. TypeOK /\ Counted /\ UsedByNow /\ [Next]_vars => (TypeOK /\ Counted /\ UsedByNow)'
  BY NextTypes, NextCounts
<1> QED
  BY <1>1, <1>2, PTL DEF Spec

(* The bytes that the budget is held against are those of what is resident.*)
THEOREM BytesAreCounted == Spec => []Counted
BY CountsAlways, PTL

(* A frame ends within the budget, or with nothing but what it showed; and *)
(* nothing it showed is dropped.                                           *)
THEOREM FramesTrim == Spec => TrimsToBudget
<1> DEFINE Trimmed ==
        /\ \/ Size(DOMAIN textures') <= Budget
           \/ \A u \in DOMAIN textures' : textures[u] = epoch
        /\ \A u \in Resident : textures[u] = epoch => u \in DOMAIN textures'
<1>1. TypeOK /\ Counted /\ UsedByNow /\ [Next]_vars /\ epoch' = epoch + 1 => Trimmed
  <2> SUFFICES ASSUME TypeOK, Counted, UsedByNow, [Next]_vars, epoch' = epoch + 1
               PROVE  Trimmed
    OBVIOUS
  <2>0. epoch \in Nat /\ textures \in [Resident -> Nat] /\ Resident \in SUBSET Url
    BY DEF TypeOK
  <2>1. EndFrame
    <3>1. epoch' # epoch /\ epoch' # 0
      BY <2>0
    <3>2. ASSUME NEW u \in Url, Lookup(u) \/ RowGoes(u) PROVE FALSE
      BY <3>1, <3>2 DEF Lookup, RowGoes, cacheVars
    <3>3. ASSUME NEW t \in Task, TaskStep(t) PROVE FALSE
      BY <3>1, <3>3, TaskTypes DEF cacheVars
    <3>4. ~Poll /\ ~ClearImages /\ ~ClearTmdbCache /\ ~UNCHANGED vars
      BY <3>1 DEF Poll, ClearImages, ClearTmdbCache, Clear, vars
    <3> QED
      BY <3>2, <3>3, <3>4 DEF Next
  <2>2. PICK gone \in SUBSET Cold :
            IsVictims(gone) /\ textures' = Restrict(textures, Resident \ gone)
    BY <2>1 DEF EndFrame
  <2>3. DOMAIN textures' = Resident \ gone
    BY <2>2 DEF Restrict
  <2>4. gone \in SUBSET Resident /\ \A u \in gone : textures[u] < epoch
    BY DEF Cold
  <2>5. \A u \in Resident : textures[u] = epoch => u \in DOMAIN textures'
    BY <2>0, <2>3, <2>4
  <2>6. CASE gone = Cold
    <3>1. \A u \in DOMAIN textures' : textures[u] <= epoch /\ ~(textures[u] < epoch)
      BY <2>3, <2>6 DEF Cold, UsedByNow
    <3>2. \A u \in DOMAIN textures' : textures[u] \in Nat
      BY <2>0, <2>3
    <3>3. \A u \in DOMAIN textures' : textures[u] = epoch
      BY <2>0, <3>1, <3>2
    <3> QED
      BY <2>5, <3>3
  <2>7. CASE resident - Size(gone) <= Budget
    <3>1. Size(Resident \ gone) = Size(Resident) - Size(gone)
      BY <2>0, <2>4, SizeLess
    <3> QED
      BY <2>3, <2>5, <2>7, <3>1 DEF Counted
  <2> QED
    BY <2>2, <2>6, <2>7 DEF IsVictims
<1> QED
  BY <1>1, CountsAlways, PTL DEF Spec, TrimsToBudget
=============================================================================
