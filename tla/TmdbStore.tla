----------------------------- MODULE TmdbStore -----------------------------
(***************************************************************************)
(* The TMDB tables of the app database (cinebox-core/src/db/cache.rs):     *)
(* cached pages, the image paths each page refers to, and image blobs      *)
(* under a byte budget, coldest out first.                                 *)
(*                                                                         *)
(* put_json is one transaction; every other operation is a few statements  *)
(* with awaits between them, run by tasks that share a pool of             *)
(* connections, so statements of two operations interleave.  The UI thread *)
(* waits for its own operations (clearing, collecting), so it has one at a *)
(* time; it runs maintenance at boot, before any task.  Each statement may *)
(* fail: its operation ends there, with what it has done, and the app only *)
(* warns.                                                                  *)
(***************************************************************************)
EXTENDS Naturals, FiniteSets, Functions

CONSTANTS
    Page,      \* keys of tmdb_cache
    Path,      \* image paths
    Size,      \* image sizes
    Image,     \* the images that are fetched: pairs of a size and a path
    Length,    \* the bytes of each
    Budget,    \* IMAGE_BUDGET_BYTES
    MaxAge,    \* MAX_AGE
    Grace,     \* IMAGE_GC_GRACE
    Task,      \* image fetches under way at once
    Ui,        \* the UI thread
    None,
    MaxNow     \* bound on the clock

StoreAssumption ==
    /\ Image \subseteq Size \X Path
    /\ Length \in [Image -> Nat \ {0}]
    /\ {Budget, MaxAge, Grace, MaxNow} \subseteq Nat
    /\ None \notin Nat
    /\ Ui \notin Task

VARIABLES
    pages,    \* tmdb_cache: when each page was fetched, or None
    refs,     \* tmdb_image_ref
    images,   \* tmdb_image: when each stored image was fetched and last read
    order,    \* its rowids: the pairs of images of which the first was stored first
    run,      \* the operations that are running, by who runs them
    boot,     \* when the maintenance of a boot began, while it runs, or None
    now,
    cut       \* an eviction was cut off since the sum was last read; only properties

vars == <<pages, refs, images, order, run, boot, now, cut>>

Row == [fetched : 0..MaxNow, accessed : 0..MaxNow]

Idle == [step |-> "idle", image |-> None, excess |-> 0, sizes |-> {}]

Stored == DOMAIN images

SizeOf(image) == image[1]
PathOf(image) == image[2]

(* SUM(LENGTH(bytes)) of some images. *)
Bytes(some) == Cardinality(UNION {{i} \X (1..Length[i]) : i \in some})

-----------------------------------------------------------------------------
(***************************************************************************)
(* The statements.                                                         *)
(***************************************************************************)
(* INSERT OR REPLACE: the new row comes last. *)
Insert(image) ==
    /\ images' = [i \in Stored \cup {image} |->
                     IF i = image THEN [fetched |-> now, accessed |-> now] ELSE images[i]]
    /\ order' = {b \in order : image \notin {b[1], b[2]}} \cup ((Stored \ {image}) \X {image})

(* DELETE: the rows that stay. *)
Leaves(kept) ==
    /\ images' = Restrict(images, kept)
    /\ order' = order \cap (kept \X kept)

(* What no page refers to goes once nothing has read it for a while. *)
Referenced(some, held) ==
    {i \in some : (\E h \in held : h[2] = PathOf(i)) \/ images[i].accessed + Grace >= now}

(* The sizes to delete: no list of the allowed ones allows all. *)
Barred(allowed) == IF allowed = {} THEN {} ELSE {SizeOf(i) : i \in Stored} \ allowed

ExcessOf(some) == IF Bytes(some) > Budget THEN Bytes(some) - Budget ELSE 0

(* Mutant: the rows are summed in the order they were stored. *)
ColderByRow(some, image) == {i \in some : <<i, image>> \in order}

(* The window of SUM OVER (ORDER BY accessed_at, rowid), without the row. *)
Colder(some, image) == {i \in some :
    \/ images[i].accessed < images[image].accessed
    \/ images[i].accessed = images[image].accessed /\ <<i, image>> \in order}

Before(some, image) == Bytes(Colder(some, image))

(* Mutant: the row that would cross the excess is kept. *)
EvictShort(some, excess) == {i \in some : Before(some, i) + Length[i] > excess}

(* Mutant: the row after the one that crosses it goes as well. *)
EvictOneMore(some, excess) == {i \in some : Before(some, i) > excess}

(* DELETE ... WHERE running - len < excess: what stays. *)
Evict(some, excess) == {i \in some : Before(some, i) >= excess}

-----------------------------------------------------------------------------
(***************************************************************************)
(* The operations, statement by statement.                                 *)
(***************************************************************************)
Begins(t, step) ==
    /\ boot = None
    /\ run[t] = Idle
    /\ run' = [run EXCEPT ![t].step = step]
    /\ UNCHANGED <<boot, cut>>

Goes(t, step) ==
    /\ run' = [run EXCEPT ![t].step = step]
    /\ UNCHANGED <<boot, cut>>

Finish(t) ==
    /\ run' = [run EXCEPT ![t] = Idle]
    /\ boot' = IF t = Ui THEN None ELSE boot

(* A statement fails, and with it the operation. *)
IsEvicting(t) == run[t].step \in {"sum", "evict"}

Fails(t) ==
    /\ run[t].step # "idle"
    /\ Finish(t)
    /\ cut' = (cut \/ IsEvicting(t))
    /\ UNCHANGED <<pages, refs, images, order, now>>

(* put_image *)
PutImage(t, image) ==
    /\ Begins(t, "sum")
    /\ Insert(image)
    /\ UNCHANGED <<pages, refs, now>>

(* evict_over_budget: one statement reads the excess, the next deletes it. *)
ReadExcess(t) ==
    /\ run[t].step = "sum"
    /\ \/ /\ ExcessOf(Stored) = 0
          /\ Finish(t)
       \/ /\ ExcessOf(Stored) > 0
          /\ run' = [run EXCEPT ![t].step = "evict", ![t].excess = ExcessOf(Stored)]
          /\ UNCHANGED boot
    /\ cut' = FALSE
    /\ UNCHANGED <<pages, refs, images, order, now>>

DeleteExcess(t) ==
    /\ run[t].step = "evict"
    /\ Leaves(Evict(Stored, run[t].excess))
    /\ Finish(t)
    /\ UNCHANGED <<pages, refs, now, cut>>

(* get_image: a hit that is young enough is touched by a second statement. *)
GetImage(t, image) ==
    /\ boot = None
    /\ run[t] = Idle
    /\ image \in Stored /\ now < images[image].fetched + MaxAge
    /\ run' = [run EXCEPT ![t].step = "touch", ![t].image = image]
    /\ UNCHANGED <<pages, refs, images, order, boot, now, cut>>

Touch(t) ==
    /\ run[t].step = "touch"
    /\ images' = [i \in Stored |->
                     IF i = run[t].image THEN [images[i] EXCEPT !.accessed = now] ELSE images[i]]
    /\ Finish(t)
    /\ UNCHANGED <<pages, refs, order, now, cut>>

(* put_json: the page and its references, in one transaction. *)
PutPage(p, paths) ==
    /\ boot = None
    /\ pages' = [pages EXCEPT ![p] = now]
    /\ refs' = {r \in refs : r[1] # p} \cup ({p} \X paths)
    /\ UNCHANGED <<images, order, run, boot, now, cut>>

(* gc_images, when the poster size changes and last at boot: the sizes no  *)
(* longer allowed are listed, then deleted one by one.                     *)
Collect(allowed) ==
    /\ run[Ui] = Idle \/ run[Ui].step = "list"
    /\ run' = [run EXCEPT ![Ui].step = "sizes", ![Ui].sizes = Barred(allowed)]
    /\ UNCHANGED <<pages, refs, images, order, boot, now, cut>>

DeleteSize ==
    /\ run[Ui].step = "sizes"
    /\ \E s \in run[Ui].sizes :
          /\ Leaves({i \in Stored : SizeOf(i) # s})
          /\ run' = [run EXCEPT ![Ui].sizes = @ \ {s}]
    /\ UNCHANGED <<pages, refs, boot, now, cut>>

CollectUnreferenced ==
    /\ run[Ui].step = "sizes" /\ run[Ui].sizes = {}
    /\ Leaves(Referenced(Stored, refs))
    /\ Goes(Ui, "sum")
    /\ UNCHANGED <<pages, refs, now>>

(* clear_tmdb: three tables, one after another. *)
ClearRefs ==
    /\ Begins(Ui, "images")
    /\ refs' = {}
    /\ UNCHANGED <<pages, images, order, now>>

ClearImages ==
    /\ run[Ui].step = "images"
    /\ Leaves({})
    /\ Goes(Ui, "pages")
    /\ UNCHANGED <<pages, refs, now>>

ClearPages ==
    /\ run[Ui].step = "pages"
    /\ pages' = [p \in Page |-> None]
    /\ Finish(Ui)
    /\ UNCHANGED <<refs, images, order, now, cut>>

Tick ==
    /\ now < MaxNow
    /\ now' = now + 1
    /\ UNCHANGED <<pages, refs, images, order, run, boot, cut>>

(* The app is closed or killed, and maintenance begins at the next boot:   *)
(* purge_expired, with the clock it read first, then gc_images.            *)
Restart ==
    /\ run' = [t \in Task \cup {Ui} |->
                  IF t = Ui THEN [Idle EXCEPT !.step = "purge"] ELSE Idle]
    /\ boot' = now
    /\ cut' = (cut \/ \E t \in Task \cup {Ui} : IsEvicting(t))
    /\ UNCHANGED <<pages, refs, images, order, now>>

IsExpired(fetched) == fetched + MaxAge < boot

(* Mutant: the references of the pages that expire stay. *)
PurgePagesAlone ==
    /\ run[Ui].step = "purge"
    /\ pages' = [p \in Page |-> IF pages[p] # None /\ IsExpired(pages[p]) THEN None ELSE pages[p]]
    /\ Goes(Ui, "old")
    /\ UNCHANGED <<refs, images, order, now>>

PurgePages ==
    /\ run[Ui].step = "purge"
    /\ pages' = [p \in Page |-> IF pages[p] # None /\ IsExpired(pages[p]) THEN None ELSE pages[p]]
    /\ Goes(Ui, "dangling")
    /\ UNCHANGED <<refs, images, order, now>>

(* References without a row: of those pages, and of a page that was stored *)
(* while the tables were being cleared.                                    *)
PurgeRefs ==
    /\ run[Ui].step = "dangling"
    /\ refs' = {r \in refs : pages[r[1]] # None}
    /\ Goes(Ui, "old")
    /\ UNCHANGED <<pages, images, order, now>>

PurgeImages ==
    /\ run[Ui].step = "old"
    /\ Leaves({i \in Stored : ~IsExpired(images[i].fetched)})
    /\ Goes(Ui, "list")
    /\ UNCHANGED <<pages, refs, now>>

Init ==
    /\ pages = [p \in Page |-> None]
    /\ refs = {}
    /\ images = << >>
    /\ order = {}
    /\ run = [t \in Task \cup {Ui} |-> Idle]
    /\ boot = None
    /\ now = 0
    /\ cut = FALSE

Next ==
    \/ \E t \in Task \cup {Ui} : ReadExcess(t) \/ DeleteExcess(t) \/ Fails(t)
    \/ \E t \in Task : Touch(t) \/ \E image \in Image : PutImage(t, image) \/ GetImage(t, image)
    \/ DeleteSize \/ CollectUnreferenced
    \/ ClearRefs \/ ClearImages \/ ClearPages
    \/ \E p \in Page, paths \in SUBSET Path : PutPage(p, paths)
    \/ \E allowed \in SUBSET Size : Collect(allowed)
    \/ Restart \/ PurgePages \/ PurgeRefs \/ PurgeImages
    \/ Tick

Spec == Init /\ [][Next]_vars

-----------------------------------------------------------------------------
(* The type invariant, with the rowids: they put all rows in one order,    *)
(* which breaks the ties of eviction.                                      *)
TypeOK ==
    /\ pages \in [Page -> 0..MaxNow \cup {None}]
    /\ refs \subseteq Page \X Path
    /\ Stored \subseteq Image /\ images \in [Stored -> Row]
    /\ order \subseteq Stored \X Stored
    /\ \A i, j \in Stored : i = j \/ <<i, j>> \in order \/ <<j, i>> \in order
    /\ \A i \in Stored : <<i, i>> \notin order
    /\ \A i, j, k \in Stored : <<i, j>> \in order /\ <<j, k>> \in order => <<i, k>> \in order
    /\ run \in [Task \cup {Ui} ->
          [step : {"idle", "sum", "evict", "touch", "sizes", "images", "pages",
                   "purge", "dangling", "old", "list"},
           image : Image \cup {None}, excess : Nat, sizes : SUBSET Size]]
    /\ boot \in 0..MaxNow \cup {None}
    /\ now \in 0..MaxNow
    /\ cut \in BOOLEAN

(* evict_over_budget: once the puts that run have got to the end, the      *)
(* images fit the budget, however their statements interleaved.  A put or  *)
(* a boot whose eviction fails or is killed may leave them over it, until  *)
(* the next one has read their sum.                                        *)
WithinBudget ==
    (\A t \in Task \cup {Ui} : ~IsEvicting(t)) /\ ~cut => Bytes(Stored) <= Budget

Evicted == Stored \ Stored'

CrossesBudget == \E image \in Evicted : Bytes(Stored') + Length[image] > Budget

(* evict_over_budget: when the excess is still what was read, no more goes *)
(* than gets back within the budget: with some row that went the images    *)
(* would be over it again.  Two puts may read the same excess and delete   *)
(* it twice; TLC refutes the property without that condition.              *)
EvictsTheExcess ==
    [][\A t \in Task \cup {Ui} :
          DeleteExcess(t) /\ run[t].excess = ExcessOf(Stored) => CrossesBudget]_vars

(* evict_over_budget: what makes room was read no later than what stays,   *)
(* also when it was read between the two statements.                       *)
ColdestGoFirst ==
    [][\A t \in Task \cup {Ui} : DeleteExcess(t)
          => \A gone \in Evicted, kept \in Stored' :
                images[gone].accessed <= images'[kept].accessed]_vars

(* maintenance: pages and images expire, pages are stored while the tables *)
(* are cleared, and statements fail or the app is killed between any two.  *)
(* A boot that gets through to its eviction leaves no reference without    *)
(* its page, no page or image past its age, and no image that no page      *)
(* refers to and nothing has read for the grace time.                      *)
BootTidies ==
    [][boot # None /\ boot' = None /\ IsEvicting(Ui) /\ ~cut'
          => /\ \A r \in refs' : pages'[r[1]] # None
             /\ \A p \in Page : pages'[p] # None => ~IsExpired(pages'[p])
             /\ \A i \in Stored' :
                   /\ ~IsExpired(images'[i].fetched)
                   /\ \/ \E r \in refs' : r[2] = PathOf(i)
                      \/ images'[i].accessed + Grace >= boot]_vars
=============================================================================
