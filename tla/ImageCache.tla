----------------------------- MODULE ImageCache -----------------------------
(***************************************************************************)
(* The poster and backdrop cache of the UI thread (services/images.rs).    *)
(*                                                                         *)
(* A tile that paints asks for its image by URL.  A missing one is fetched *)
(* by a task on the runtime: from the image table if it has a row, else    *)
(* from the network, storing the bytes before decoding them.  The result   *)
(* comes back through a channel that poll reads once a frame.  After the   *)
(* paint, textures that were not shown are dropped, oldest first, until    *)
(* the rest fits the budget.  Changing the key, the network settings or    *)
(* the poster size clears the cache while tasks are still running.         *)
(*                                                                         *)
(* The byte counts are per URL and coarse; the image table is only what a  *)
(* fetch can see of it (TmdbStore has the table itself).                   *)
(***************************************************************************)
EXTENDS Naturals, Sequences, FiniteSets, Functions

CONSTANTS
    Url,
    Bytes,       \* the size of each decoded image
    Budget,      \* TEXTURE_BUDGET
    FailedCap,   \* FAILED_CAP
    Task,        \* slots for fetches: the bound on how many run at a time
    Garbled,     \* a server may answer with a body that does not decode
    MaxWaiting,  \* bound on results in the channel
    MaxEpoch,    \* bound on frames since the last clear
    MaxClears    \* bound on clears

ASSUME CacheAssumption ==
    /\ Bytes \in [Url -> Nat \ {0}]
    /\ IsFiniteSet(Url)
    /\ Budget \in Nat
    /\ FailedCap \in Nat \ {0}
    /\ Garbled \in BOOLEAN
    /\ {MaxWaiting, MaxEpoch, MaxClears} \subseteq Nat

VARIABLES
    textures,   \* resident images: the epoch each was last used in
    resident,   \* resident_bytes
    epoch,
    pending,
    failed,
    task,       \* the fetches that are running
    channel,    \* their results, not yet polled
    stored,     \* the image table: what the row of a URL holds
    clears

cacheVars == <<textures, resident, epoch, pending, failed>>
vars == <<textures, resident, epoch, pending, failed, task, channel, stored, clears>>

Body == {"good", "garbled"}
Row == Body \cup {"none"}

Fetch == [url : Url, at : {"table", "network"}, body : {"none"}]
         \cup [url : Url, at : {"keep"}, body : Body]
Idle == [at |-> "idle"]

Result == [url : Url, ok : BOOLEAN]

(* The bytes of some images, counted. *)
Size(urls) == Cardinality(UNION {{u} \X (1..Bytes[u]) : u \in urls})

Resident == DOMAIN textures

-----------------------------------------------------------------------------
(* Mutant: a URL that is being fetched is fetched again. *)
EnsureAgain(u) ==
    IF u \in failed
    THEN UNCHANGED <<pending, task>>
    ELSE /\ pending' = pending \cup {u}
         /\ \E t \in Task :
               /\ task[t] = Idle
               /\ task' = [task EXCEPT ![t] = [url |-> u, at |-> "table", body |-> "none"]]

(* ensure: a fetch starts unless one is known or the last one failed. *)
Ensure(u) ==
    IF u \in failed \cup pending
    THEN UNCHANGED <<pending, task>>
    ELSE /\ pending' = pending \cup {u}
         /\ \E t \in Task :
               /\ task[t] = Idle
               /\ task' = [task EXCEPT ![t] = [url |-> u, at |-> "table", body |-> "none"]]

(* lookup: a tile that paints. *)
Lookup(u) ==
    /\ IF u \in Resident
       THEN /\ textures' = [textures EXCEPT ![u] = epoch]
            /\ UNCHANGED <<pending, task>>
       ELSE /\ Ensure(u)
            /\ UNCHANGED textures
    /\ UNCHANGED <<resident, epoch, failed, channel, stored, clears>>

Send(t, ok) ==
    /\ Len(channel) < MaxWaiting
    /\ channel' = Append(channel, [url |-> task[t].url, ok |-> ok])
    /\ task' = [task EXCEPT ![t] = Idle]

(* load_image: a row is decoded, whatever it holds; a missing one, or one  *)
(* that cannot be read, sends the fetch to the network.                    *)
ReadTable(t) ==
    /\ task[t].at = "table"
    /\ \/ /\ task' = [task EXCEPT ![t].at = "network"]
          /\ UNCHANGED channel
       \/ /\ stored[task[t].url] # "none"
          /\ Send(t, stored[task[t].url] = "good")
    /\ UNCHANGED <<cacheVars, stored, clears>>

(* Mutant: a download that fails is tried again, without a limit. *)
DownloadRetries(t) ==
    /\ task[t].at = "network"
    /\ \/ \E body \in Body :
             /\ body = "garbled" => Garbled
             /\ task' = [task EXCEPT ![t].at = "keep", ![t].body = body]
       \/ task' = [task EXCEPT ![t].at = "table"]
    /\ UNCHANGED <<cacheVars, stored, clears, channel>>

Download(t) ==
    /\ task[t].at = "network"
    /\ \/ \E body \in Body :
             /\ body = "garbled" => Garbled
             /\ task' = [task EXCEPT ![t].at = "keep", ![t].body = body]
             /\ UNCHANGED channel
       \/ Send(t, FALSE)
    /\ UNCHANGED <<cacheVars, stored, clears>>

(* put_image and then decode; a write that fails is only logged. *)
Keep(t) ==
    /\ task[t].at = "keep"
    /\ \/ stored' = [stored EXCEPT ![task[t].url] = task[t].body]
       \/ UNCHANGED stored
    /\ Send(t, task[t].body = "good")
    /\ UNCHANGED <<cacheVars, clears>>

TaskStep(t) == ReadTable(t) \/ Download(t) \/ Keep(t)

-----------------------------------------------------------------------------
(* Mutant: the texture that is replaced still counts. *)
InsertTextureOver(u) ==
    /\ resident' = resident + Bytes[u]
    /\ textures' = [x \in Resident \cup {u} |-> IF x = u THEN epoch ELSE textures[x]]

InsertTexture(u) ==
    /\ resident' = resident - (IF u \in Resident THEN Bytes[u] ELSE 0) + Bytes[u]
    /\ textures' = [x \in Resident \cup {u} |-> IF x = u THEN epoch ELSE textures[x]]

(* Mutant: the failures are never forgotten. *)
RememberEveryFailed(u) == failed' = failed \cup {u}

RememberFailed(u) ==
    failed' = (IF Cardinality(failed) >= FailedCap THEN {} ELSE failed) \cup {u}

(* Mutant: a failed fetch stays pending. *)
PollKeepsPending ==
    /\ channel # <<>>
    /\ LET u == Head(channel).url
       IN  IF Head(channel).ok
           THEN /\ pending' = pending \ {u}
                /\ failed' = failed \ {u}
                /\ InsertTexture(u)
           ELSE /\ RememberFailed(u)
                /\ UNCHANGED <<textures, resident, pending>>
    /\ channel' = Tail(channel)
    /\ UNCHANGED <<epoch, task, stored, clears>>

(* poll reads until the channel is empty; a result that a task sends a     *)
(* moment later waits for the next frame, so one result at a time has the  *)
(* same behaviours.                                                        *)
Poll ==
    /\ channel # <<>>
    /\ LET u == Head(channel).url
       IN  /\ pending' = pending \ {u}
           /\ IF Head(channel).ok
              THEN /\ failed' = failed \ {u}
                   /\ InsertTexture(u)
              ELSE /\ RememberFailed(u)
                   /\ UNCHANGED <<textures, resident>>
    /\ channel' = Tail(channel)
    /\ UNCHANGED <<epoch, task, stored, clears>>

(* Mutant: what was shown in this frame counts as cold. *)
ColdAll == {u \in Resident : textures[u] <= epoch}

(* victims: the cold textures sorted by last use, then the larger first;   *)
(* as many from the front as it takes to get within the budget.            *)
Cold == {u \in Resident : textures[u] < epoch}

SortsBefore(a, b) ==
    \/ textures[a] < textures[b]
    \/ textures[a] = textures[b] /\ Bytes[a] > Bytes[b]

IsVictims(gone) ==
    /\ \A g \in gone, k \in Cold \ gone : ~SortsBefore(k, g)
    /\ gone = Cold \/ resident - Size(gone) <= Budget
    /\ gone # {} =>
          \E last \in gone :
             /\ \A g \in gone : ~SortsBefore(last, g)
             /\ resident - Size(gone \ {last}) > Budget

EndFrame ==
    /\ epoch < MaxEpoch
    /\ epoch' = epoch + 1
    /\ \E gone \in SUBSET Cold :
          /\ IsVictims(gone)
          /\ textures' = Restrict(textures, Resident \ gone)
          /\ resident' = resident - Size(gone)
    /\ UNCHANGED <<pending, failed, task, channel, stored, clears>>

(* clear: the fetches that are running are not stopped. *)
Clear ==
    /\ clears < MaxClears
    /\ clears' = clears + 1
    /\ textures' = [u \in {} |-> 0]
    /\ resident' = 0
    /\ epoch' = 0
    /\ pending' = {}
    /\ failed' = {}
    /\ UNCHANGED <<task, channel>>

(* Clearing for a new key, network or poster size, and with the table. *)
ClearImages == Clear /\ UNCHANGED stored
ClearTmdbCache == Clear /\ stored' = [u \in Url |-> "none"]

(* The table drops rows over its own budget or past their age. *)
RowGoes(u) ==
    /\ stored[u] # "none"
    /\ stored' = [stored EXCEPT ![u] = "none"]
    /\ UNCHANGED <<cacheVars, task, channel, clears>>

Init ==
    /\ textures = [u \in {} |-> 0]
    /\ resident = 0
    /\ epoch = 0
    /\ pending = {}
    /\ failed = {}
    /\ task = [t \in Task |-> Idle]
    /\ channel = <<>>
    /\ stored \in [Url -> {"none", "good"}]
    /\ clears = 0

Next ==
    \/ \E u \in Url : Lookup(u) \/ RowGoes(u)
    \/ \E t \in Task : TaskStep(t)
    \/ Poll
    \/ EndFrame
    \/ ClearImages
    \/ ClearTmdbCache

Spec == Init /\ [][Next]_vars

(* Fetches end (each request has a time limit) and the app polls every     *)
(* frame; nothing makes a tile paint again.                                *)
FairSpec ==
    /\ Spec
    /\ WF_vars(Poll)
    /\ \A t \in Task : WF_vars(TaskStep(t))

-----------------------------------------------------------------------------
(* The type invariant. *)
TypeOK ==
    /\ Resident \subseteq Url
    /\ textures \in [Resident -> 0..MaxEpoch]
    /\ epoch \in 0..MaxEpoch
    /\ pending \subseteq Url
    /\ failed \subseteq Url
    /\ Cardinality(failed) <= FailedCap
    /\ task \in [Task -> Fetch \cup {Idle}]
    /\ channel \in Seq(Result)
    /\ stored \in [Url -> Row]
    /\ clears \in 0..MaxClears

(* resident_bytes is the size of what is resident, over inserts,           *)
(* replacements, trims and clears: the budget is held against it.          *)
Counted == resident = Size(Resident)

Fetched(u) == \E t \in Task : task[t] # Idle /\ task[t].url = u
Answered(u) == \E i \in DOMAIN channel : channel[i].url = u

(* ImageSlot::Loading: a URL that is pending is being fetched or its       *)
(* result waits in the channel, also across a clear; otherwise its tile    *)
(* would say Loading for good.                                             *)
NoLostLoading == \A u \in pending : Fetched(u) \/ Answered(u)

(* Loading ends: a pending URL turns into a texture or a failure. *)
LoadingEnds == \A u \in Url : u \in pending ~> u \notin pending

(* TEXTURE_BUDGET: after a frame the textures fit the budget, or none but  *)
(* those shown in that frame are left; and none of those is dropped.       *)
TrimsToBudget ==
    [][epoch' = epoch + 1
          => /\ \/ Size(DOMAIN textures') <= Budget
                \/ \A u \in DOMAIN textures' : textures[u] = epoch
             /\ \A u \in Resident : textures[u] = epoch => u \in DOMAIN textures']_vars

(* Reloads come from SQLite: until the cache is first cleared, a texture   *)
(* that trim drops can be fetched again, since nothing remembers its URL   *)
(* as failed.  A fetch from before a clear may fail after the one started  *)
(* after it succeeded, and the URL of a resident texture is in failed: TLC *)
(* refutes the property without its first condition.                       *)
EvictedCanReload ==
    [][clears = 0 /\ epoch' = epoch + 1
          => (Resident \ DOMAIN textures') \cap failed = {}]_vars

(* Why it holds while nothing is cleared: a URL is carried by one fetch or *)
(* one result at most, exactly while it is pending, and is then neither    *)
(* resident nor remembered as failed.                                      *)
Carried(u) == Fetched(u) \/ Answered(u)

OneCarrier ==
    /\ \A s, t \in Task :
          s # t /\ task[s] # Idle /\ task[t] # Idle => task[s].url # task[t].url
    /\ \A t \in Task, i \in DOMAIN channel : task[t] # Idle => task[t].url # channel[i].url
    /\ \A i, j \in DOMAIN channel : i # j => channel[i].url # channel[j].url

LoadedOnce ==
    /\ OneCarrier
    /\ \A u \in Url : Carried(u) => u \in pending
    /\ pending \cap failed = {}
    /\ pending \cap Resident = {}
    /\ failed \cap Resident = {}
=============================================================================
