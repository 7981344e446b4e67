------------------------------ MODULE SwrPages ------------------------------
(***************************************************************************)
(* A page over a Cached value (screens/swr.rs): Home, a section hub, or    *)
(* the page of a title or a person.  It paints the answer of the network,  *)
(* or a snapshot of the database while there is none, and asks the network *)
(* unless the snapshot is within its time.  The jobs that load a page      *)
(* (services/jobs/catalog.rs) keep every row that loaded in the database,  *)
(* and go on when the page that asked for them does not wait any more.     *)
(***************************************************************************)
EXTENDS TmdbSettings, FiniteSets, Naturals

CONSTANTS
    Subject,      \* sections, or titles
    Row,          \* the shelves of Home and of a hub
    None

VARIABLES
    kind,         \* "home", "section" or "title"
    subject,      \* what the page on screen is about
    cache,        \* [slot -> Cached]
    jobs,         \* loads that run
    db,           \* [language and subject -> [row -> "none", "fresh" or "old"]]
    owed          \* the data on screen was to be fetched anew (history)

page == <<kind, subject, cache, jobs, db, owed>>
vars == <<settings, page>>

Names == [lang: Language, of: Subject]

(* A title loads as a whole, Home and a hub by rows. *)
Rows == IF kind = "title" THEN {None} ELSE Row

(* A hub has a cache per section, the other screens have one. *)
Slot == IF kind = "section" THEN subject ELSE None

(* None is no language, no subject and no snapshot. *)
PagesAssumption ==
    /\ None \notin Language \cup Subject
    /\ None \notin [name: Names, late: SUBSET (Row \cup {None})]

Idle == [st |-> "idle"]

Fresh == [live |-> Idle, disk |-> None, reading |-> Idle, checked |-> FALSE, lang |-> None, force |-> FALSE]

-----------------------------------------------------------------------------
(* Cached, by its methods.  A value of a bind that is dropped never lands. *)

ResetKeepsRead(c) == [Fresh EXCEPT !.lang = c.lang, !.reading = c.reading]

(* What a bind or a read of the database held, or will hold, is gone. *)
Reset(c) == [Fresh EXCEPT !.lang = c.lang]

Invalidate(c) == [Reset(c) EXCEPT !.force = TRUE]

ForgetLive(c) == [Invalidate(c) EXCEPT !.lang = None]

SyncLang(c, lang) ==
    CASE c.lang = lang -> c
      [] c.lang = None -> [c EXCEPT !.lang = lang]
      [] OTHER -> [Invalidate(c) EXCEPT !.lang = lang]

Retried(c) == [c EXCEPT !.live = Idle, !.force = TRUE]

(* hydrate: ask for the snapshot once, take it when it is there. *)
Hydrate(c, name) ==
    CASE c.checked -> c
      [] ~c.checked /\ c.reading.st = "ok" ->
            [c EXCEPT !.disk = c.reading.value, !.reading = Idle, !.checked = TRUE]
      [] ~c.checked /\ c.reading.st = "pending" -> c
      [] OTHER -> [c EXCEPT !.reading = [st |-> "pending", name |-> name]]

HasDisk(c) == c.disk # None

(* resolve: no snapshot within its time spares the network a page that is forced. *)
Asks(c) ==
    /\ c.live.st = "idle"
    /\ ~(HasDisk(c) /\ c.disk.late = {} /\ ~c.force)

View(c) ==
    CASE c.live.st = "ok" -> "live"
      [] c.live.st # "ok" /\ HasDisk(c) -> "disk"
      [] c.live.st = "err" /\ ~HasDisk(c) -> "failed"
      [] OTHER -> "pending"

(* What the frame paints of c. *)
Painted(c) ==
    CASE View(c) = "live" -> [view |-> "live", of |-> c.live.name, late |-> {}, waits |-> FALSE]
      [] View(c) = "disk" -> [view |-> "disk", of |-> c.disk.name, late |-> c.disk.late, waits |-> c.live.st = "pending"]
      [] OTHER -> [view |-> View(c), of |-> None, late |-> {}, waits |-> c.live.st = "pending"]

Blank == [view |-> "pending", of |-> None, late |-> {}, waits |-> FALSE]

-----------------------------------------------------------------------------
Init ==
    /\ SettingsInit
    /\ kind \in {"home", "section", "title"}
    /\ subject \in Subject
    /\ cache = [s \in Subject \cup {None} |-> Fresh]
    /\ jobs = {}
    /\ db = [n \in Names |-> [r \in Rows |-> "none"]]
    /\ owed = FALSE

(* One frame of the page, after the comparison of the settings. *)
Name == [lang |-> set.lang, of |-> subject]

Hydrated == Hydrate(SyncLang(cache[Slot], set.lang), Name)

FrameAsks == Hydrated.checked /\ Asks(Hydrated)

Frame ==
    [Hydrated EXCEPT !.live = IF FrameAsks THEN [st |-> "pending", name |-> Name] ELSE @,
                     !.force = @ /\ ~(Hydrated.checked /\ Hydrated.live.st = "ok")]

Paints == IF Hydrated.checked THEN Painted(Frame) ELSE Blank

Draw ==
    /\ set = last /\ Usable(set)
    /\ cache' = [cache EXCEPT ![Slot] = Frame]
    /\ jobs' = IF FrameAsks THEN jobs \cup {[name |-> Name, todo |-> Rows, got |-> FALSE, live |-> TRUE]} ELSE jobs
    /\ owed' = (owed /\ ~FrameAsks)
    /\ UNCHANGED <<settings, kind, subject, db>>

(* What the cache of the screen held is dropped: nobody waits for its job. *)
Dropped == {[j EXCEPT !.live = FALSE]: j \in jobs}

(* Another section or another title. *)
Open(s) ==
    /\ kind # "home" /\ s # subject
    /\ subject' = s
    /\ owed' = FALSE
    /\ IF kind = "title"
       THEN cache' = [cache EXCEPT ![None] = Reset(@)] /\ jobs' = Dropped
       ELSE UNCHANGED <<cache, jobs>>
    /\ UNCHANGED <<settings, kind, db>>

Retry ==
    /\ set = last /\ Usable(set)
    /\ cache[Slot].checked /\ View(cache[Slot]) = "failed"
    /\ cache' = [cache EXCEPT ![Slot] = IF kind = "home" THEN Invalidate(@) ELSE Retried(@)]
    /\ UNCHANGED <<settings, kind, subject, jobs, db, owed>>

(* forget_live of the screen. *)
Forgotten ==
    CASE kind = "home"    -> [cache EXCEPT ![None] = Invalidate(@)]
      [] kind = "section" -> [s \in DOMAIN cache |-> Fresh]
      [] kind = "title"   -> [cache EXCEPT ![None] = ForgetLive(@)]

Empty == [n \in Names |-> [r \in Rows |-> "none"]]

(* sync_tmdb; without a key the cached data goes too. *)
Sync ==
    /\ Compare
    /\ LET change == ChangeFrom(last, set) IN
       /\ IF Forgets(change)
          THEN cache' = Forgotten /\ jobs' = Dropped
          ELSE UNCHANGED <<cache, jobs>>
       /\ db' = IF change = "key cleared" THEN Empty ELSE db
       /\ owed' = (owed \/ change = "catalog")
    /\ UNCHANGED <<kind, subject>>

(* Home is told of a change of the lists or of the watch history. *)
RefreshHome ==
    /\ kind = "home"
    /\ cache' = [cache EXCEPT ![None] = Invalidate(@)]
    /\ jobs' = Dropped
    /\ UNCHANGED <<settings, kind, subject, db, owed>>

(* The row of the settings that clears the cache; Home refreshes, the other pages stay. *)
ClearCache ==
    /\ db' = Empty
    /\ IF kind = "home"
       THEN cache' = [cache EXCEPT ![None] = Invalidate(@)] /\ jobs' = Dropped
       ELSE UNCHANGED <<cache, jobs>>
    /\ UNCHANGED <<settings, kind, subject, owed>>

-----------------------------------------------------------------------------
(* cached_section, home_catalog and get_json: the rows there are, and which of *)
(* them are missing or past their time.  Home shows its history without any.   *)
Snapshot(name) ==
    LET late == {r \in Rows: db[name][r] # "fresh"} IN
    IF \A r \in Rows: db[name][r] = "none"
    THEN {None} \cup (IF kind = "home" THEN {[name |-> name, late |-> Rows]} ELSE {})
    ELSE {[name |-> name, late |-> late]}

ReadDisk(s) ==
    /\ cache[s].reading.st = "pending"
    /\ \E v \in Snapshot(cache[s].reading.name):
          cache' = [cache EXCEPT ![s].reading = [st |-> "ok", value |-> v]]
    /\ UNCHANGED <<settings, kind, subject, jobs, db, owed>>

(* The bind that waits for j. *)
SlotOf(j) == IF kind = "section" THEN j.name.of ELSE None

Told(j, live) == IF j.live THEN [cache EXCEPT ![SlotOf(j)].live = live] ELSE cache

(* The network answers: rows one by one for Home and a hub, a title or nothing. *)
Fetched(j) ==
    /\ ~j.got
    /\ \/ /\ jobs' = (jobs \ {j}) \cup {[j EXCEPT !.got = TRUE]}
          /\ UNCHANGED cache
       \/ /\ kind = "title"
          /\ jobs' = jobs \ {j}
          /\ cache' = Told(j, [st |-> "err"])
    /\ UNCHANGED <<settings, kind, subject, db, owed>>

(* A row that loaded is kept; one that did not leaves the last that did. *)
KeepRow(j, r) ==
    /\ j.got /\ r \in j.todo
    /\ \/ db' = [db EXCEPT ![j.name][r] = "fresh"]
       \/ kind # "title" /\ UNCHANGED db
    /\ jobs' = (jobs \ {j}) \cup {[j EXCEPT !.todo = @ \ {r}]}
    /\ UNCHANGED <<settings, kind, subject, cache, owed>>

Answered(j) ==
    /\ j.got /\ j.todo = {}
    /\ jobs' = jobs \ {j}
    /\ cache' = Told(j, [st |-> "ok", name |-> j.name])
    /\ UNCHANGED <<settings, kind, subject, db, owed>>

(* A row passes its time, or the six months after which it is not read. *)
Ages(n, r) ==
    /\ db[n][r] # "none"
    /\ db' = [db EXCEPT ![n][r] = IF @ = "fresh" THEN "old" ELSE "none"]
    /\ UNCHANGED <<settings, kind, subject, cache, jobs, owed>>

Next ==
    \/ Edit /\ UNCHANGED page
    \/ Sync
    \/ Draw
    \/ Retry
    \/ RefreshHome
    \/ ClearCache
    \/ \E s \in Subject: Open(s)
    \/ \E s \in DOMAIN cache: ReadDisk(s)
    \/ \E j \in jobs: Fetched(j) \/ Answered(j) \/ \E r \in Rows: KeepRow(j, r)
    \/ \E n \in Names, r \in Rows: Ages(n, r)

Spec == Init /\ [][Next]_vars

-----------------------------------------------------------------------------
TypeOK ==
    /\ set \in Settings /\ last \in Settings
    /\ subject \in Subject
    /\ db \in [Names -> [Rows -> {"none", "fresh", "old"}]]
    /\ \A s \in DOMAIN cache:
          /\ cache[s].live.st \in {"idle", "pending", "ok", "err"}
          /\ cache[s].live.st = "pending" <=> \E j \in jobs: j.live /\ SlotOf(j) = s
    /\ \A j \in jobs: j.name \in Names /\ j.todo \subseteq Rows

InUse == set = last /\ Usable(set)

(* Whatever answers late, a frame paints data of the subject on screen in *)
(* the language of the settings.                                          *)
PaintsItsOwn ==
    (InUse /\ Paints.of # None) => Paints.of = Name

(* A snapshot with a row missing or past its time is painted only while the *)
(* network is asked, or after it failed.                                    *)
StaleIsRevalidated ==
    (InUse /\ Paints.view = "disk" /\ ~Paints.waits) => Paints.late = {} \/ Frame.live.st = "err"

(* Home and the page of a title that were on screen when the key or the     *)
(* network changed are not painted from the snapshot before the network was *)
(* asked again.                                                             *)
OpenPageRefetched ==
    (InUse /\ owed /\ kind # "section" /\ Paints.view = "disk") => FrameAsks

PageSafe == PaintsItsOwn /\ StaleIsRevalidated /\ OpenPageRefetched

(* sync_tmdb says of a change of the key or the network: refetch everything. *)
HubRefetched ==
    (InUse /\ owed /\ Paints.view = "disk") => FrameAsks
=============================================================================
