--------------------------- MODULE SwrPagesProofs ---------------------------
(***************************************************************************)
(* Theorems about a page over a Cached value, for any keys, languages,     *)
(* networks, subjects and shelves: whatever is late, dropped or changed    *)
(* meanwhile, what a frame paints is its own, and fresh or asked for.      *)
(***************************************************************************)
EXTENDS SwrPages, TLAPS

Snapshots == [name : Names, late : SUBSET Rows]

Live == {Idle} \cup {[st |-> "err"]} \cup [st : {"pending", "ok"}, name : Names]
Reading == {Idle} \cup [st : {"pending"}, name : Names] \cup [st : {"ok"}, value : {None} \cup Snapshots]

Cached == [live : Live, disk : {None} \cup Snapshots, reading : Reading,
           checked : BOOLEAN, lang : Language \cup {None}, force : BOOLEAN]

Job == [name : Names, todo : SUBSET Rows, got : BOOLEAN, live : BOOLEAN]

Slots == Subject \cup {None}

(* What c holds, or waits for, is called n. *)
Holds(c, n) ==
    /\ c.live.st \in {"pending", "ok"} => c.live.name = n
    /\ c.disk # None => c.disk.name = n
    /\ c.reading.st = "pending" => c.reading.name = n
    /\ c.reading.st = "ok" /\ c.reading.value # None => c.reading.value.name = n

(* What the cache of slot s is about. *)
Owner(s) == IF kind = "section" THEN s ELSE subject

Typed ==
    /\ set \in Settings /\ last \in Settings
    /\ kind \in {"home", "section", "title"}
    /\ subject \in Subject
    /\ cache \in [Slots -> Cached]
    /\ jobs \subseteq Job
    /\ db \in [Names -> [Rows -> {"none", "fresh", "old"}]]
    /\ owed \in BOOLEAN

(* Nothing in a cache is of another subject or another language. *)
HoldsItsOwn == \A s \in Slots : Holds(cache[s], [lang |-> cache[s].lang, of |-> Owner(s)])

(* A cache waits for one job, and only that one will tell it. *)
JobsAwaited ==
    /\ \A j \in jobs : j.live => cache[SlotOf(j)].live = [st |-> "pending", name |-> j.name]
    /\ \A j, k \in jobs : j.live /\ k.live /\ SlotOf(j) = SlotOf(k) => j = k
    /\ \A s \in Slots : cache[s].live.st = "pending" => \E j \in jobs : j.live /\ SlotOf(j) = s

(* While there is a key, nobody waits for an answer in another language. *)
AwaitsInLanguage ==
    Usable(last) => \A s \in Slots : cache[s].live.st = "pending" => cache[s].lang = last.lang

(* Only a hub has a cache per subject. *)
OneCache == kind # "section" => \A s \in Subject : cache[s] = Fresh

(* A page that is owed a fetch is forced to ask, and has not asked. *)
OwedIsForced ==
    owed /\ kind # "section" => cache[None].force /\ cache[None].live.st = "idle"

PageInv ==
    /\ Typed
    /\ HoldsItsOwn
    /\ JobsAwaited
    /\ AwaitsInLanguage
    /\ OneCache
    /\ OwedIsForced

-----------------------------------------------------------------------------
(***************************************************************************)
(* The methods of Cached.                                                  *)
(***************************************************************************)
LEMMA SlotIsThere ==
    ASSUME Typed
    PROVE  /\ Slot \in Slots /\ Owner(Slot) = subject
           /\ \A j \in Job : SlotOf(j) \in Slots
  BY DEF Typed, Slot, Slots, Owner, SlotOf, Job, Names

LEMMA EmptyCaches ==
    ASSUME NEW c \in Cached, NEW n
    PROVE  /\ Fresh \in Cached /\ Holds(Fresh, n) /\ Fresh.live.st = "idle"
           /\ /\ Reset(c) \in Cached /\ Holds(Reset(c), n) /\ Reset(c).live.st = "idle"
              /\ Reset(c).lang = c.lang
           /\ /\ Invalidate(c) \in Cached /\ Holds(Invalidate(c), n)
              /\ Invalidate(c).live.st = "idle" /\ Invalidate(c).force /\ Invalidate(c).lang = c.lang
           /\ /\ ForgetLive(c) \in Cached /\ Holds(ForgetLive(c), n)
              /\ ForgetLive(c).live.st = "idle" /\ ForgetLive(c).force
<1>1. Idle \in Live /\ Idle \in Reading /\ Idle.st = "idle"
  BY DEF Idle, Live, Reading
<1>2. c.lang \in Language \cup {None}
  BY DEF Cached
<1>3. Fresh \in Cached /\ Holds(Fresh, n) /\ Fresh.live.st = "idle"
  BY <1>1 DEF Fresh, Cached, Holds
<1>4. /\ Fresh \in Cached /\ Fresh.live = Idle /\ Fresh.disk = None /\ Fresh.reading = Idle
  BY <1>3 DEF Fresh
<1>5. /\ Reset(c) \in Cached /\ Reset(c).lang = c.lang
      /\ Reset(c).live = Idle /\ Reset(c).disk = None /\ Reset(c).reading = Idle
  BY <1>2, <1>4 DEF Reset, Cached
<1>6. /\ Invalidate(c) \in Cached /\ Invalidate(c).lang = c.lang /\ Invalidate(c).force
      /\ Invalidate(c).live = Idle /\ Invalidate(c).disk = None /\ Invalidate(c).reading = Idle
  BY <1>5 DEF Invalidate, Cached
<1>7. /\ ForgetLive(c) \in Cached /\ ForgetLive(c).force
      /\ ForgetLive(c).live = Idle /\ ForgetLive(c).disk = None /\ ForgetLive(c).reading = Idle
  BY <1>6 DEF ForgetLive, Cached
<1> QED
  BY <1>1, <1>3, <1>5, <1>6, <1>7 DEF Holds

(* In another language a cache starts anew; in none yet it holds nothing. *)
LEMMA SyncLangHolds ==
    ASSUME PagesAssumption, NEW c \in Cached, NEW of, NEW lang \in Language,
           Holds(c, [lang |-> c.lang, of |-> of])
    PROVE  LET d == SyncLang(c, lang)
           IN  /\ d \in Cached /\ d.lang = lang /\ Holds(d, [lang |-> lang, of |-> of])
               /\ c.live.st = "idle" => d.live.st = "idle"
               /\ d.live = c.live \/ d.live.st = "idle"
               /\ c.lang \in {lang, None} => d.live = c.live
               /\ c.force => d.force
<1> DEFINE d == SyncLang(c, lang)
<1>1. CASE c.lang = lang
  <2>1. d = c
    BY <1>1 DEF SyncLang, PagesAssumption
  <2>2. Holds(c, [lang |-> lang, of |-> of])
    BY <1>1
  <2> HIDE DEF d
  <2>3. /\ d \in Cached /\ d.lang = lang /\ Holds(d, [lang |-> lang, of |-> of])
        /\ c.live.st = "idle" => d.live.st = "idle"
        /\ d.live = c.live \/ d.live.st = "idle"
        /\ c.lang \in {lang, None} => d.live = c.live
        /\ c.force => d.force
    BY <1>1, <2>1, <2>2
  <2> QED
    BY <2>3 DEF d
<1>2. CASE c.lang # lang /\ c.lang = None
  <2>1. d = [c EXCEPT !.lang = lang]
    BY <1>2 DEF SyncLang
  <2>2. /\ d \in Cached /\ d.lang = lang
        /\ d.live = c.live /\ d.disk = c.disk /\ d.reading = c.reading /\ d.force = c.force
    BY <2>1 DEF Cached
  <2>3. \A n \in Names : n # [lang |-> None, of |-> of]
    BY DEF Names, PagesAssumption
  <2>4. /\ c.live.st \notin {"pending", "ok"} /\ c.disk = None
        /\ c.reading.st # "pending" /\ (c.reading.st = "ok" => c.reading.value = None)
    BY <1>2, <2>3 DEF Holds, Cached, Live, Reading, Snapshots, Idle
  <2>5. Holds(d, [lang |-> lang, of |-> of])
    BY <2>2, <2>4 DEF Holds
  <2> QED
    BY <2>2, <2>5
<1>3. CASE c.lang # lang /\ c.lang # None
  <2> DEFINE e == Invalidate(c)
  <2>1. d = [e EXCEPT !.lang = lang]
    BY <1>3 DEF SyncLang
  <2>2. /\ e \in Cached /\ Holds(e, [lang |-> lang, of |-> of])
        /\ e.live.st = "idle" /\ e.force
    BY EmptyCaches
  <2> HIDE DEF e
  <2>3. /\ d \in Cached /\ d.lang = lang
        /\ d.live = e.live /\ d.disk = e.disk /\ d.reading = e.reading /\ d.force = e.force
    BY <2>1, <2>2 DEF Cached
  <2> HIDE DEF d
  <2>4. Holds(d, [lang |-> lang, of |-> of])
    BY <2>2, <2>3 DEF Holds
  <2> QED
    BY <1>3, <2>2, <2>3, <2>4 DEF d
<1> QED
  BY <1>1, <1>2, <1>3

(* The snapshot that is asked for or taken is of that name. *)
LEMMA HydrateHolds ==
    ASSUME NEW c \in Cached, NEW n \in Names, Holds(c, n)
    PROVE  LET d == Hydrate(c, n)
           IN  /\ d \in Cached /\ Holds(d, n)
               /\ d.live = c.live /\ d.lang = c.lang /\ d.force = c.force
<1> DEFINE d == Hydrate(c, n)
<1>1. CASE c.checked \/ c.reading.st = "pending"
  BY <1>1 DEF Hydrate
<1>2. CASE ~c.checked /\ c.reading.st = "ok"
  <2>1. d = [c EXCEPT !.disk = c.reading.value, !.reading = Idle, !.checked = TRUE]
    BY <1>2 DEF Hydrate
  <2>2. c.reading.value \in {None} \cup Snapshots /\ Idle \in Reading /\ Idle.st = "idle"
    BY <1>2 DEF Cached, Reading, Idle
  <2>3. /\ d \in Cached /\ d.live = c.live /\ d.disk = c.reading.value /\ d.reading = Idle
        /\ d.lang = c.lang /\ d.force = c.force
    BY <2>1, <2>2 DEF Cached
  <2> QED
    BY <1>2, <2>2, <2>3 DEF Holds
<1>3. CASE ~c.checked /\ c.reading.st \notin {"ok", "pending"}
  <2> DEFINE r == [st |-> "pending", name |-> n]
  <2>1. d = [c EXCEPT !.reading = r]
    BY <1>3 DEF Hydrate
  <2>2. r \in Reading /\ r.st = "pending" /\ r.name = n
    BY DEF Reading
  <2> HIDE DEF r
  <2>3. /\ d \in Cached /\ d.live = c.live /\ d.disk = c.disk /\ d.reading = r
        /\ d.lang = c.lang /\ d.force = c.force
    BY <2>1, <2>2 DEF Cached
  <2> QED
    BY <2>2, <2>3 DEF Holds
<1> QED
  BY <1>1, <1>2, <1>3

(* What a frame makes of the cache of the page on screen. *)
LEMMA FrameFacts ==
    ASSUME PagesAssumption, PageInv
    PROVE  /\ Name \in Names /\ Hydrated \in Cached /\ Holds(Hydrated, Name) /\ Hydrated.lang = set.lang
           /\ Frame \in Cached /\ Holds(Frame, Name) /\ Frame.lang = set.lang
           /\ Frame.live = IF FrameAsks THEN [st |-> "pending", name |-> Name] ELSE Hydrated.live
           /\ Frame.disk = Hydrated.disk
           /\ Frame.force = (Hydrated.force /\ ~(Hydrated.checked /\ Hydrated.live.st = "ok"))
           /\ cache[Slot].live.st = "idle" => Hydrated.live.st = "idle"
           /\ Hydrated.live = cache[Slot].live \/ Hydrated.live.st = "idle"
           /\ cache[Slot].lang \in {set.lang, None} => Hydrated.live = cache[Slot].live
           /\ cache[Slot].force => Hydrated.force
<1> DEFINE c == SyncLang(cache[Slot], set.lang)
           h == Hydrate(c, Name)
<1>1. /\ Slot \in Slots /\ Owner(Slot) = subject /\ cache[Slot] \in Cached
      /\ set.lang \in Language
  BY SlotIsThere DEF PageInv, Typed, Settings
<1>2. Name \in Names /\ Name = [lang |-> set.lang, of |-> subject]
  BY <1>1 DEF Name, Names, PageInv, Typed
<1>3. Holds(cache[Slot], [lang |-> cache[Slot].lang, of |-> subject])
  BY <1>1 DEF PageInv, HoldsItsOwn
<1>4. /\ c \in Cached /\ c.lang = set.lang /\ Holds(c, Name)
      /\ cache[Slot].live.st = "idle" => c.live.st = "idle"
      /\ c.live = cache[Slot].live \/ c.live.st = "idle"
      /\ cache[Slot].lang \in {set.lang, None} => c.live = cache[Slot].live
      /\ cache[Slot].force => c.force
  BY <1>1, <1>2, <1>3, SyncLangHolds
<1> HIDE DEF c
<1>5. /\ h \in Cached /\ Holds(h, Name)
      /\ h.live = c.live /\ h.lang = c.lang /\ h.force = c.force
  BY <1>2, <1>4, HydrateHolds
<1>6. Hydrated = h
  BY DEF Hydrated, c
<1> DEFINE asks == FrameAsks
           live == IF asks THEN [st |-> "pending", name |-> Name] ELSE h.live
           force == h.force /\ ~(h.checked /\ h.live.st = "ok")
<1>7. Frame = [h EXCEPT !.live = live, !.force = force]
  BY <1>6 DEF Frame
<1> HIDE DEF h
<1>8. live \in Live /\ force \in BOOLEAN
  BY <1>2, <1>5 DEF Live, Cached
<1>9. live.st \in {"pending", "ok"} => live.name = Name
  BY <1>5 DEF Holds
<1> HIDE DEF live, force, asks
<1>10. /\ Frame \in Cached /\ Frame.live = live /\ Frame.force = force /\ Frame.disk = h.disk
       /\ Frame.reading = h.reading /\ Frame.lang = h.lang
  BY <1>5, <1>7, <1>8 DEF Cached
<1>11. Holds(Frame, Name)
  BY <1>5, <1>9, <1>10 DEF Holds
<1>12. live = IF FrameAsks THEN [st |-> "pending", name |-> Name] ELSE h.live
  BY DEF live, asks
<1>13. force = (h.force /\ ~(h.checked /\ h.live.st = "ok"))
  BY DEF force
<1> QED
  BY <1>2, <1>4, <1>5, <1>6, <1>10, <1>11, <1>12, <1>13

-----------------------------------------------------------------------------
(***************************************************************************)
(* What actions have in common.                                            *)
(***************************************************************************)
LEMMA DroppedJobs ==
    ASSUME Typed
    PROVE  Dropped \subseteq Job /\ \A j \in Dropped : ~j.live
  BY DEF Typed, Dropped, Job

(* The slot of a job that is awaited is one, and waits. *)
LEMMA SomebodyWaits ==
    ASSUME Typed, JobsAwaited, NEW j \in jobs, j.live
    PROVE  SlotOf(j) \in Slots /\ cache[SlotOf(j)].live.st = "pending"
<1>1. SlotOf(j) \in Slots
  BY SlotIsThere DEF Typed
<1>2. cache[SlotOf(j)].live = [st |-> "pending", name |-> j.name]
  BY DEF JobsAwaited
<1> QED
  BY <1>1, <1>2

(* All that was awaited is forgotten. *)
LEMMA EmptiedHolds ==
    ASSUME PagesAssumption, PageInv, kind' = kind, jobs' = Dropped, subject' \in Subject,
           set' \in Settings, last' \in Settings, owed' \in BOOLEAN,
           db' \in [Names -> [Rows' -> {"none", "fresh", "old"}]],
           NEW e \in Cached, e.live.st = "idle", \A n : Holds(e, n),
           \/ kind = "section" /\ cache' = [s \in Slots |-> Fresh]
           \/ kind # "section" /\ cache' = [cache EXCEPT ![None] = e],
           owed' /\ kind # "section" => e.force
    PROVE  PageInv'
<1>1. jobs' \subseteq Job /\ \A j \in jobs' : ~j.live
  BY DroppedJobs DEF PageInv
<1>2. /\ Fresh \in Cached /\ Fresh.live.st = "idle" /\ \A n : Holds(Fresh, n)
  BY EmptyCaches
<1>3. None \in Slots
  BY DEF Slots
<1>4. /\ cache' \in [Slots -> Cached]
      /\ \A s \in Slots : cache'[s].live.st = "idle" /\ \A n : Holds(cache'[s], n)
      /\ kind # "section" => (\A s \in Subject : cache'[s] = Fresh) /\ cache'[None] = e
  <2>1. CASE kind = "section"
    BY <1>2, <2>1
  <2>2. CASE kind # "section"
    BY <1>2, <1>3, <2>2 DEF PageInv, Typed, OneCache, Slots, PagesAssumption
  <2> QED
    BY <2>1, <2>2
<1>5. Typed'
  BY <1>1, <1>4 DEF PageInv, Typed, Cached, Live, Reading, Snapshots, Rows, Job, Slots
<1>6. JobsAwaited' /\ AwaitsInLanguage' /\ OneCache'
  BY <1>1, <1>4 DEF JobsAwaited, AwaitsInLanguage, OneCache
<1>7. HoldsItsOwn' /\ OwedIsForced'
  BY <1>4 DEF HoldsItsOwn, OwedIsForced
<1> QED
  BY <1>5, <1>6, <1>7 DEF PageInv

(* One cache changes. *)
LEMMA OneSlotHolds ==
    ASSUME PagesAssumption, PageInv, NEW s \in Slots, NEW d \in Cached, cache' = [cache EXCEPT ![s] = d],
           UNCHANGED <<set, last, kind, subject, db>>, jobs' \subseteq Job, owed' \in BOOLEAN,
           Holds(d, [lang |-> d.lang, of |-> Owner(s)]),
           JobsAwaited',
           d.live.st = "pending" /\ Usable(last) => d.lang = last.lang,
           kind # "section" => s = None,
           owed' /\ kind # "section" => d.force /\ d.live.st = "idle"
    PROVE  PageInv'
<1>1. /\ cache' \in [Slots -> Cached] /\ cache'[s] = d
      /\ \A u \in Slots \ {s} : cache'[u] = cache[u]
  BY DEF PageInv, Typed
<1>2. Typed'
  BY <1>1 DEF PageInv, Typed, Cached, Live, Reading, Snapshots, Rows, Job
<1>3. HoldsItsOwn'
  BY <1>1 DEF PageInv, HoldsItsOwn, Owner
<1>4. AwaitsInLanguage'
  BY <1>1 DEF PageInv, AwaitsInLanguage
<1>5. OneCache' /\ OwedIsForced'
  BY <1>1 DEF PageInv, OneCache, OwedIsForced, Slots, PagesAssumption
<1> QED
  BY <1>2, <1>3, <1>4, <1>5 DEF PageInv

-----------------------------------------------------------------------------
(***************************************************************************)
(* The actions.                                                            *)
(***************************************************************************)
LEMMA PageInit == PagesAssumption /\ Init => PageInv
<1> SUFFICES ASSUME PagesAssumption, Init PROVE PageInv
  OBVIOUS
<1>1. /\ Fresh \in Cached /\ Fresh.live.st = "idle" /\ \A n : Holds(Fresh, n)
  <2>1. Idle \in Live /\ Idle \in Reading /\ Idle.st = "idle"
    BY DEF Idle, Live, Reading
  <2> QED
    BY <2>1 DEF Fresh, Cached, Holds
<1>2. /\ cache \in [Slots -> Cached]
      /\ \A s \in Slots : cache[s] = Fresh
  BY <1>1 DEF Init, Slots
<1>3. Typed
  BY <1>2 DEF Init, SettingsInit, Typed
<1>4. HoldsItsOwn /\ AwaitsInLanguage /\ OneCache
  BY <1>1, <1>2 DEF HoldsItsOwn, AwaitsInLanguage, OneCache, Slots
<1>5. JobsAwaited
  BY <1>1, <1>2 DEF JobsAwaited, Init
<1>6. OwedIsForced
  BY DEF OwedIsForced, Init
<1> QED
  BY <1>3, <1>4, <1>5, <1>6 DEF PageInv

LEMMA EditHolds ==
    ASSUME PageInv, Edit, UNCHANGED page
    PROVE  PageInv'
<1>1. set' \in Settings
  <2>1. set \in Settings
    BY DEF PageInv, Typed
  <2>2. CASE \E k \in Key \cup {NoKey, Malformed}: set' = [set EXCEPT !.key = k]
    BY <2>1, <2>2 DEF Settings
  <2>3. CASE \E l \in Language: set' = [set EXCEPT !.lang = l]
    BY <2>1, <2>3 DEF Settings
  <2>4. CASE \E n \in Net: set' = [set EXCEPT !.net = n]
    BY <2>1, <2>4 DEF Settings
  <2> QED
    BY <2>2, <2>3, <2>4 DEF Edit
<1> QED
  BY <1>1 DEF Edit, page, PageInv, Typed, HoldsItsOwn, JobsAwaited, AwaitsInLanguage, OneCache,
              OwedIsForced, Cached, Live, Reading, Snapshots, Rows, Job, Owner, SlotOf

(* A change that makes the screens forget nothing changes no language. *)
LEMMA NothingForgotten ==
    ASSUME ~Forgets(ChangeFrom(last, set)), Usable(set)
    PROVE  Usable(last) /\ set.lang = last.lang
  BY DEF Forgets, ChangeFrom, Usable

(* What forget_live leaves of the screen. *)
LEMMA ForgottenCaches ==
    ASSUME Typed
    PROVE  \E e \in Cached :
             /\ e.live.st = "idle" /\ \A n : Holds(e, n)
             /\ kind # "section" => e.force
             /\ \/ kind = "section" /\ Forgotten = [s \in Slots |-> Fresh]
                \/ kind # "section" /\ Forgotten = [cache EXCEPT ![None] = e]
<1>1. None \in Slots /\ cache[None] \in Cached /\ DOMAIN cache = Slots
  BY DEF Typed, Slots
<1>2. /\ Fresh \in Cached /\ Fresh.live.st = "idle" /\ \A n : Holds(Fresh, n)
      /\ Invalidate(cache[None]) \in Cached /\ Invalidate(cache[None]).live.st = "idle"
      /\ Invalidate(cache[None]).force /\ \A n : Holds(Invalidate(cache[None]), n)
      /\ ForgetLive(cache[None]) \in Cached /\ ForgetLive(cache[None]).live.st = "idle"
      /\ ForgetLive(cache[None]).force /\ \A n : Holds(ForgetLive(cache[None]), n)
  BY <1>1, EmptyCaches
<1>3. CASE kind = "home"
  BY <1>2, <1>3 DEF Forgotten
<1>4. CASE kind = "section"
  BY <1>1, <1>2, <1>4 DEF Forgotten
<1>5. CASE kind = "title"
  BY <1>2, <1>5 DEF Forgotten
<1> QED
  BY <1>3, <1>4, <1>5 DEF Typed

LEMMA EmptyIsTyped == Empty \in [Names -> [Rows -> {"none", "fresh", "old"}]]
  BY DEF Empty

LEMMA SyncHolds ==
    ASSUME PagesAssumption, PageInv, Sync
    PROVE  PageInv'
<1> DEFINE change == ChangeFrom(last, set)
<1>1. /\ set # last /\ last' = set /\ set' = set /\ UNCHANGED <<kind, subject>>
      /\ db' = IF change = "key cleared" THEN Empty ELSE db
      /\ owed' = (owed \/ change = "catalog")
  BY DEF Sync, Compare
<1>2. db' \in [Names -> [Rows' -> {"none", "fresh", "old"}]] /\ Rows' = Rows
  BY <1>1, EmptyIsTyped DEF PageInv, Typed, Rows
<1>3. owed' \in BOOLEAN /\ set' \in Settings /\ last' \in Settings /\ subject' \in Subject
  BY <1>1 DEF PageInv, Typed
<1>4. CASE Forgets(change)
  <2>1. cache' = Forgotten /\ jobs' = Dropped
    BY <1>4 DEF Sync
  <2>2. PICK e \in Cached :
             /\ e.live.st = "idle" /\ \A n : Holds(e, n)
             /\ kind # "section" => e.force
             /\ \/ kind = "section" /\ Forgotten = [s \in Slots |-> Fresh]
                \/ kind # "section" /\ Forgotten = [cache EXCEPT ![None] = e]
    BY ForgottenCaches DEF PageInv
  <2> QED
    BY <1>1, <1>2, <1>3, <2>1, <2>2, EmptiedHolds
<1>5. CASE ~Forgets(change)
  <2>1. UNCHANGED <<cache, jobs>>
    BY <1>5 DEF Sync
  <2>2. owed' = owed
    BY <1>1, <1>5 DEF Forgets, PageInv, Typed
  <2>3. Usable(set) => Usable(last) /\ set.lang = last.lang
    BY <1>5, NothingForgotten
  <2>4. AwaitsInLanguage'
    BY <1>1, <2>1, <2>3 DEF PageInv, AwaitsInLanguage, Usable
  <2>5. Typed'
    BY <1>1, <1>2, <1>3, <2>1 DEF PageInv, Typed, Cached, Live, Reading, Snapshots, Rows, Job, Slots
  <2>6. HoldsItsOwn'
    BY <1>1, <2>1 DEF PageInv, HoldsItsOwn, Owner, Slots
  <2>7. JobsAwaited'
    BY <1>1, <2>1 DEF PageInv, JobsAwaited, SlotOf, Slots
  <2>8. OneCache'
    BY <1>1, <2>1 DEF PageInv, OneCache
  <2>10. kind' = kind
    BY <1>1
  <2>9. OwedIsForced'
    BY <2>1, <2>2, <2>10 DEF PageInv, OwedIsForced
  <2> QED
    BY <2>4, <2>5, <2>6, <2>7, <2>8, <2>9 DEF PageInv
<1> QED
  BY <1>4, <1>5

LEMMA DrawHolds ==
    ASSUME PagesAssumption, PageInv, Draw
    PROVE  PageInv'
<1> DEFINE new == [name |-> Name, todo |-> Rows, got |-> FALSE, live |-> TRUE]
<1>1. /\ set = last /\ Usable(set)
      /\ cache' = [cache EXCEPT ![Slot] = Frame]
      /\ jobs' = IF FrameAsks THEN jobs \cup {new} ELSE jobs
      /\ owed' = (owed /\ ~FrameAsks)
      /\ UNCHANGED <<set, last, kind, subject, db>>
  BY DEF Draw, settings
<1>2. /\ Name \in Names /\ Frame \in Cached /\ Holds(Frame, Name) /\ Frame.lang = set.lang
      /\ Frame.live = IF FrameAsks THEN [st |-> "pending", name |-> Name] ELSE Hydrated.live
      /\ Frame.force = (Hydrated.force /\ ~(Hydrated.checked /\ Hydrated.live.st = "ok"))
      /\ cache[Slot].live.st = "idle" => Hydrated.live.st = "idle"
      /\ Hydrated.live = cache[Slot].live \/ Hydrated.live.st = "idle"
      /\ cache[Slot].lang \in {set.lang, None} => Hydrated.live = cache[Slot].live
      /\ cache[Slot].force => Hydrated.force
  BY FrameFacts
<1>3. Slot \in Slots /\ Owner(Slot) = subject /\ \A j \in Job : SlotOf(j) \in Slots
  BY SlotIsThere DEF PageInv
<1>4. Name = [lang |-> Frame.lang, of |-> Owner(Slot)]
  BY <1>2, <1>3 DEF Name
<1>5. new \in Job /\ new.live /\ SlotOf(new) = Slot /\ new.name = Name
  BY <1>2 DEF Job, SlotOf, Slot, Name
<1> HIDE DEF new
<1>6. cache[Slot].live.st = "pending" => Hydrated.live = cache[Slot].live
  BY <1>1, <1>2, <1>3 DEF PageInv, AwaitsInLanguage
<1>7. FrameAsks => Hydrated.live.st = "idle"
  BY DEF FrameAsks, Asks
<1>8. /\ cache'[Slot] = Frame /\ \A s \in Slots \ {Slot} : cache'[s] = cache[s]
  BY <1>1, <1>3 DEF PageInv, Typed
<1>13. ASSUME \A j \in jobs' : j.live => cache'[SlotOf(j)].live = [st |-> "pending", name |-> j.name],
              \A j, k \in jobs' : j.live /\ k.live /\ SlotOf(j) = SlotOf(k) => j = k,
              \A s \in Slots : cache'[s].live.st = "pending" => \E j \in jobs' : j.live /\ SlotOf(j) = s
       PROVE  JobsAwaited'
  <2>1. kind' = kind
    BY <1>1
  <2>2. \A j \in jobs' : j.live => cache'[SlotOf(j)'].live = [st |-> "pending", name |-> j.name]
    BY <1>13, <2>1 DEF SlotOf
  <2>3. \A j, k \in jobs' : j.live /\ k.live /\ SlotOf(j)' = SlotOf(k)' => j = k
    BY <1>13, <2>1 DEF SlotOf
  <2>4. \A s \in Slots : cache'[s].live.st = "pending" => \E j \in jobs' : j.live /\ SlotOf(j)' = s
    BY <1>13, <2>1 DEF SlotOf
  <2> QED
    BY <2>2, <2>3, <2>4 DEF JobsAwaited, Slots, SlotOf
<1>9. JobsAwaited'
  <2>1. CASE FrameAsks
    <3>1. cache[Slot].live.st # "pending"
      BY <1>6, <1>7, <2>1
    <3>2. \A j \in jobs : j.live => SlotOf(j) # Slot
      BY <3>1, SomebodyWaits DEF PageInv
    <3>3. Frame.live = [st |-> "pending", name |-> Name] /\ jobs' = jobs \cup {new}
      BY <1>1, <1>2, <2>1
    <3>4. \A j \in jobs' : j = new \/ (j \in jobs /\ (j.live => SlotOf(j) \in Slots \ {Slot}))
      BY <1>3, <3>2, <3>3 DEF PageInv, Typed
    <3>5. \A j \in jobs' : j.live => cache'[SlotOf(j)].live = [st |-> "pending", name |-> j.name]
      BY <1>5, <1>8, <3>3, <3>4 DEF PageInv, JobsAwaited
    <3>6. \A j, k \in jobs' : j.live /\ k.live /\ SlotOf(j) = SlotOf(k) => j = k
      BY <1>5, <3>4 DEF PageInv, JobsAwaited
    <3>7. \A s \in Slots : cache'[s].live.st = "pending" => \E j \in jobs' : j.live /\ SlotOf(j) = s
      BY <1>5, <1>8, <3>3 DEF PageInv, JobsAwaited
    <3> QED
      BY <1>13, <3>5, <3>6, <3>7
  <2>2. CASE ~FrameAsks
    <3>1. Frame.live = Hydrated.live /\ jobs' = jobs
      BY <1>1, <1>2, <2>2
    <3>2. \A s \in Slots : cache[s].live.st = "pending" => cache'[s].live = cache[s].live
      BY <1>6, <1>8, <3>1
    <3>3. \A s \in Slots : cache'[s].live.st = "pending" => cache[s].live.st = "pending"
      BY <1>2, <1>8, <3>1
    <3>4. \A j \in jobs : j.live => SlotOf(j) \in Slots /\ cache[SlotOf(j)].live.st = "pending"
      BY SomebodyWaits DEF PageInv
    <3>5. \A j \in jobs' : j.live => cache'[SlotOf(j)].live = [st |-> "pending", name |-> j.name]
      BY <3>1, <3>2, <3>4 DEF PageInv, JobsAwaited
    <3>6. \A s \in Slots : cache'[s].live.st = "pending" => \E j \in jobs' : j.live /\ SlotOf(j) = s
      BY <3>1, <3>3 DEF PageInv, JobsAwaited
    <3>7. \A j, k \in jobs' : j.live /\ k.live /\ SlotOf(j) = SlotOf(k) => j = k
      BY <3>1 DEF PageInv, JobsAwaited
    <3> QED
      BY <1>13, <3>5, <3>6, <3>7
  <2> QED
    BY <2>1, <2>2
<1>10. jobs' \subseteq Job /\ owed' \in BOOLEAN
  BY <1>1, <1>5 DEF PageInv, Typed
<1>11. kind # "section" => Slot = None
  BY DEF Slot
<1>12. owed' /\ kind # "section" => Frame.force /\ Frame.live.st = "idle"
  BY <1>1, <1>2, <1>11 DEF PageInv, OwedIsForced
<1> QED
  BY <1>1, <1>2, <1>3, <1>4, <1>9, <1>10, <1>11, <1>12, OneSlotHolds

(* A job goes on, for the same slot. *)
LEMMA JobMoves ==
    ASSUME PageInv, NEW j \in jobs, NEW k \in Job, k.name = j.name, k.live = j.live,
           jobs' = (jobs \ {j}) \cup {k},
           UNCHANGED <<set, last, kind, subject, cache, owed>>,
           db' \in [Names -> [Rows' -> {"none", "fresh", "old"}]]
    PROVE  PageInv'
<1>1. kind' = kind /\ cache' = cache /\ subject' = subject
  OBVIOUS
<1>2. SlotOf(k) = SlotOf(j)
  BY DEF SlotOf
<1>3. Typed'
  BY DEF PageInv, Typed, Cached, Live, Reading, Snapshots, Rows, Job, Slots
<1>4. HoldsItsOwn' /\ AwaitsInLanguage' /\ OneCache'
  BY DEF PageInv, HoldsItsOwn, AwaitsInLanguage, OneCache, Owner, Slots
<1>5. OwedIsForced'
  BY DEF PageInv, OwedIsForced
<1>6. \A m \in jobs' : m.live => cache[SlotOf(m)].live = [st |-> "pending", name |-> m.name]
  BY <1>2 DEF PageInv, JobsAwaited
<1>7. \A m, n \in jobs' : m.live /\ n.live /\ SlotOf(m) = SlotOf(n) => m = n
  BY <1>2 DEF PageInv, JobsAwaited
<1>8. \A s \in Slots : cache[s].live.st = "pending" => \E m \in jobs' : m.live /\ SlotOf(m) = s
  <2> SUFFICES ASSUME NEW s \in Slots, cache[s].live.st = "pending"
               PROVE  \E m \in jobs' : m.live /\ SlotOf(m) = s
    OBVIOUS
  <2>1. PICK m \in jobs : m.live /\ SlotOf(m) = s
    BY DEF PageInv, JobsAwaited
  <2> QED
    BY <1>2, <2>1
<1>9. JobsAwaited'
  BY <1>1, <1>6, <1>7, <1>8 DEF JobsAwaited, SlotOf, Slots
<1> QED
  BY <1>3, <1>4, <1>5, <1>9 DEF PageInv

(* The answer of j is told to the slot that waits for it, if there is one. *)
LEMMA JobEnds ==
    ASSUME PagesAssumption, PageInv, NEW j \in jobs, NEW live \in Live,
           \/ live.st = "err"
           \/ live.st = "ok" /\ live.name = j.name,
           jobs' = jobs \ {j}, cache' = Told(j, live),
           UNCHANGED <<set, last, kind, subject, db, owed>>
    PROVE  PageInv'
<1> DEFINE s == SlotOf(j)
           d == [cache[s] EXCEPT !.live = live]
<1>1. kind' = kind
  OBVIOUS
<1>2. jobs' \subseteq Job /\ s \in Slots /\ owed' \in BOOLEAN
  BY SlotIsThere DEF PageInv, Typed
<1>3. CASE j.live
  <2>1. cache[s].live = [st |-> "pending", name |-> j.name] /\ cache[s].live.st = "pending"
    BY <1>3, SomebodyWaits DEF PageInv, JobsAwaited
  <2>2. cache[s] \in Cached /\ Holds(cache[s], [lang |-> cache[s].lang, of |-> Owner(s)])
    BY <1>2 DEF PageInv, Typed, HoldsItsOwn
  <2>3. /\ d \in Cached /\ d.live = live /\ d.disk = cache[s].disk
        /\ d.reading = cache[s].reading /\ d.lang = cache[s].lang
    BY <2>2 DEF Cached
  <2>4. cache' = [cache EXCEPT ![s] = d]
    BY <1>3 DEF Told
  <2> HIDE DEF d
  <2>5. j.name = [lang |-> d.lang, of |-> Owner(s)]
    BY <2>1, <2>2, <2>3 DEF Holds
  <2>6. live.st # "pending"
    OBVIOUS
  <2>7. Holds(d, [lang |-> d.lang, of |-> Owner(s)])
    BY <2>2, <2>3, <2>5, <2>6 DEF Holds
  <2>8. \A m \in jobs' : m \in jobs /\ (m.live => SlotOf(m) # s)
    BY <1>3 DEF PageInv, JobsAwaited
  <2>9. cache'[s] = d /\ \A u \in Slots \ {s} : cache'[u] = cache[u]
    BY <1>2, <2>4 DEF PageInv, Typed
  <2>10. \A m \in jobs' : m.live => cache'[SlotOf(m)].live = [st |-> "pending", name |-> m.name]
    BY <1>2, <2>8, <2>9, SomebodyWaits DEF PageInv, JobsAwaited
  <2>11. \A m, n \in jobs' : m.live /\ n.live /\ SlotOf(m) = SlotOf(n) => m = n
    BY <2>8 DEF PageInv, JobsAwaited
  <2>12. \A u \in Slots : cache'[u].live.st = "pending" => \E m \in jobs' : m.live /\ SlotOf(m) = u
    <3> SUFFICES ASSUME NEW u \in Slots, cache'[u].live.st = "pending"
                 PROVE  \E m \in jobs' : m.live /\ SlotOf(m) = u
      OBVIOUS
    <3>1. u # s /\ cache[u].live.st = "pending"
      BY <2>3, <2>6, <2>9
    <3>2. PICK m \in jobs : m.live /\ SlotOf(m) = u
      BY <3>1 DEF PageInv, JobsAwaited
    <3> QED
      BY <3>1, <3>2
  <2>13. JobsAwaited'
    BY <1>1, <2>10, <2>11, <2>12 DEF JobsAwaited, SlotOf, Slots
  <2>14. kind # "section" => s = None
    BY DEF SlotOf
  <2>15. ~(owed' /\ kind # "section")
    BY <2>1, <2>14 DEF PageInv, OwedIsForced
  <2> HIDE DEF s
  <2> QED
    BY <1>2, <2>3, <2>4, <2>6, <2>7, <2>13, <2>14, <2>15, OneSlotHolds
<1>4. CASE ~j.live
  <2>1. cache' = cache
    BY <1>4 DEF Told
  <2>2. Typed'
    BY <1>2, <2>1 DEF PageInv, Typed, Cached, Live, Reading, Snapshots, Rows, Job, Slots
  <2>3. HoldsItsOwn' /\ AwaitsInLanguage' /\ OneCache'
    BY <2>1 DEF PageInv, HoldsItsOwn, AwaitsInLanguage, OneCache, Owner, Slots
  <2>4. OwedIsForced'
    BY <2>1 DEF PageInv, OwedIsForced
  <2>5. \A m \in jobs' : m.live => cache[SlotOf(m)].live = [st |-> "pending", name |-> m.name]
    BY DEF PageInv, JobsAwaited
  <2>6. \A m, n \in jobs' : m.live /\ n.live /\ SlotOf(m) = SlotOf(n) => m = n
    BY DEF PageInv, JobsAwaited
  <2>7. \A u \in Slots : cache[u].live.st = "pending" => \E m \in jobs' : m.live /\ SlotOf(m) = u
    <3> SUFFICES ASSUME NEW u \in Slots, cache[u].live.st = "pending"
                 PROVE  \E m \in jobs' : m.live /\ SlotOf(m) = u
      OBVIOUS
    <3>1. PICK m \in jobs : m.live /\ SlotOf(m) = u
      BY DEF PageInv, JobsAwaited
    <3> QED
      BY <1>4, <3>1
  <2>8. JobsAwaited'
    BY <1>1, <2>1, <2>5, <2>6, <2>7 DEF JobsAwaited, SlotOf, Slots
  <2> QED
    BY <2>2, <2>3, <2>4, <2>8 DEF PageInv
<1>5. j.live \in BOOLEAN
  BY DEF PageInv, Typed, Job
<1> QED
  BY <1>3, <1>4, <1>5

LEMMA OpenHolds ==
    ASSUME PagesAssumption, PageInv, NEW s \in Subject, Open(s)
    PROVE  PageInv'
<1>1. /\ kind # "home" /\ subject' = s /\ owed' = FALSE
      /\ UNCHANGED <<set, last, kind, db>>
  BY DEF Open, settings
<1>2. kind \in {"section", "title"}
  BY <1>1 DEF PageInv, Typed
<1>3. db' \in [Names -> [Rows' -> {"none", "fresh", "old"}]] /\ Rows' = Rows
  BY <1>1 DEF PageInv, Typed, Rows
<1>4. CASE kind = "title"
  <2>1. cache' = [cache EXCEPT ![None] = Reset(cache[None])] /\ jobs' = Dropped
    BY <1>4 DEF Open
  <2>2. cache[None] \in Cached
    BY DEF PageInv, Typed, Slots
  <2>3. /\ Reset(cache[None]) \in Cached /\ Reset(cache[None]).live.st = "idle"
        /\ \A n : Holds(Reset(cache[None]), n)
    BY <2>2, EmptyCaches
  <2>4. set' \in Settings /\ last' \in Settings /\ subject' \in Subject /\ owed' \in BOOLEAN
    BY <1>1 DEF PageInv, Typed
  <2> QED
    BY <1>1, <1>3, <1>4, <2>1, <2>3, <2>4, EmptiedHolds
<1>5. CASE kind = "section"
  <2>1. UNCHANGED <<cache, jobs>>
    BY <1>5 DEF Open
  <2>2. Typed'
    BY <1>1, <1>3, <2>1 DEF PageInv, Typed, Cached, Live, Reading, Snapshots, Rows, Job, Slots
  <2>3. HoldsItsOwn' /\ AwaitsInLanguage' /\ OneCache' /\ OwedIsForced'
    BY <1>1, <1>5, <2>1 DEF PageInv, HoldsItsOwn, AwaitsInLanguage, OneCache, OwedIsForced, Owner, Slots
  <2>4. JobsAwaited'
    BY <1>1, <2>1 DEF PageInv, JobsAwaited, SlotOf, Slots
  <2> QED
    BY <2>2, <2>3, <2>4 DEF PageInv
<1> QED
  BY <1>2, <1>4, <1>5

LEMMA RetryHolds ==
    ASSUME PagesAssumption, PageInv, Retry
    PROVE  PageInv'
<1> DEFINE c == cache[Slot]
           d == IF kind = "home" THEN Invalidate(c) ELSE Retried(c)
<1>1. /\ View(c) = "failed" /\ cache' = [cache EXCEPT ![Slot] = d]
      /\ UNCHANGED <<set, last, kind, subject, jobs, db, owed>>
  BY DEF Retry, settings
<1>2. Slot \in Slots /\ c \in Cached /\ Holds(c, [lang |-> c.lang, of |-> Owner(Slot)])
  BY SlotIsThere DEF PageInv, Typed, HoldsItsOwn
<1>3. c.live.st = "err"
  BY <1>1 DEF View, HasDisk
<1>4. /\ d \in Cached /\ d.live.st = "idle" /\ d.force
      /\ Holds(d, [lang |-> d.lang, of |-> Owner(Slot)])
  <2>1. CASE kind = "home"
    BY <1>2, <2>1, EmptyCaches
  <2>2. CASE kind # "home"
    <3>1. d = [c EXCEPT !.live = Idle, !.force = TRUE]
      BY <2>2 DEF Retried
    <3>2. Idle \in Live /\ Idle.st = "idle"
      BY DEF Live, Idle
    <3> HIDE DEF c, d
    <3>3. /\ d \in Cached /\ d.live = Idle /\ d.force /\ d.disk = c.disk
          /\ d.reading = c.reading /\ d.lang = c.lang
      BY <1>2, <3>1, <3>2 DEF Cached
    <3> QED
      BY <1>2, <3>2, <3>3 DEF Holds
  <2> QED
    BY <2>1, <2>2
<1> HIDE DEF d
<1>5. cache'[Slot] = d /\ \A s \in Slots \ {Slot} : cache'[s] = cache[s]
  BY <1>1, <1>2 DEF PageInv, Typed
<1>6. JobsAwaited'
  <2>1. \A j \in jobs : j.live => SlotOf(j) \in Slots \ {Slot}
    BY <1>3, SomebodyWaits DEF PageInv
  <2>2. kind' = kind /\ jobs' = jobs
    BY <1>1
  <2>3. \A j \in jobs : j.live => cache'[SlotOf(j)].live = [st |-> "pending", name |-> j.name]
    BY <1>5, <2>1 DEF PageInv, JobsAwaited
  <2>4. \A s \in Slots : cache'[s].live.st = "pending" => \E j \in jobs : j.live /\ SlotOf(j) = s
    BY <1>4, <1>5 DEF PageInv, JobsAwaited
  <2> QED
    BY <2>2, <2>3, <2>4 DEF PageInv, JobsAwaited, SlotOf, Slots
<1>7. jobs' \subseteq Job /\ owed' \in BOOLEAN
  BY <1>1 DEF PageInv, Typed
<1>8. kind # "section" => Slot = None
  BY DEF Slot
<1> QED
  BY <1>1, <1>2, <1>4, <1>6, <1>7, <1>8, OneSlotHolds

(* Home is emptied and told to ask. *)
LEMMA HomeIsEmptied ==
    ASSUME PagesAssumption, PageInv, kind = "home", jobs' = Dropped,
           cache' = [cache EXCEPT ![None] = Invalidate(cache[None])],
           UNCHANGED <<set, last, kind, subject, owed>>,
           db' \in [Names -> [Rows' -> {"none", "fresh", "old"}]]
    PROVE  PageInv'
<1>1. cache[None] \in Cached
  BY DEF PageInv, Typed, Slots
<1>2. /\ Invalidate(cache[None]) \in Cached /\ Invalidate(cache[None]).live.st = "idle"
      /\ Invalidate(cache[None]).force /\ \A n : Holds(Invalidate(cache[None]), n)
  BY <1>1, EmptyCaches
<1>3. set' \in Settings /\ last' \in Settings /\ subject' \in Subject /\ owed' \in BOOLEAN
  BY DEF PageInv, Typed
<1> QED
  BY <1>2, <1>3, EmptiedHolds

(* The database alone changes. *)
LEMMA DiskChanges ==
    ASSUME PageInv, UNCHANGED <<set, last, kind, subject, cache, jobs, owed>>,
           db' \in [Names -> [Rows' -> {"none", "fresh", "old"}]]
    PROVE  PageInv'
<1>1. Typed'
  BY DEF PageInv, Typed, Cached, Live, Reading, Snapshots, Rows, Job, Slots
<1>2. HoldsItsOwn' /\ AwaitsInLanguage' /\ OneCache'
  BY DEF PageInv, HoldsItsOwn, AwaitsInLanguage, OneCache, Owner, Slots
<1>3. OwedIsForced' /\ JobsAwaited'
  BY DEF PageInv, OwedIsForced, JobsAwaited, SlotOf, Slots
<1> QED
  BY <1>1, <1>2, <1>3 DEF PageInv

LEMMA RefreshHolds ==
    ASSUME PagesAssumption, PageInv, RefreshHome \/ ClearCache
    PROVE  PageInv'
<1>1. UNCHANGED <<set, last, kind, subject, owed>> /\ Rows' = Rows
  BY DEF RefreshHome, ClearCache, settings, Rows
<1>2. db' \in [Names -> [Rows' -> {"none", "fresh", "old"}]]
  BY <1>1, EmptyIsTyped DEF PageInv, Typed, RefreshHome, ClearCache
<1>3. CASE kind = "home"
  <2>1. cache' = [cache EXCEPT ![None] = Invalidate(cache[None])] /\ jobs' = Dropped
    BY <1>3 DEF RefreshHome, ClearCache
  <2> QED
    BY <1>1, <1>2, <1>3, <2>1, HomeIsEmptied
<1>4. CASE kind # "home"
  <2>1. UNCHANGED <<cache, jobs>>
    BY <1>4 DEF RefreshHome, ClearCache
  <2> QED
    BY <1>1, <1>2, <2>1, DiskChanges
<1> QED
  BY <1>3, <1>4

LEMMA ReadDiskHolds ==
    ASSUME PagesAssumption, PageInv, NEW s \in Slots, ReadDisk(s)
    PROVE  PageInv'
<1> DEFINE c == cache[s]
<1>1. c \in Cached /\ Holds(c, [lang |-> c.lang, of |-> Owner(s)]) /\ c.reading.st = "pending"
  BY DEF PageInv, Typed, HoldsItsOwn, ReadDisk
<1>2. PICK v \in Snapshot(c.reading.name) :
           cache' = [cache EXCEPT ![s].reading = [st |-> "ok", value |-> v]]
  BY DEF ReadDisk
<1> DEFINE r == [st |-> "ok", value |-> v]
           d == [c EXCEPT !.reading = r]
<1>3. c.reading.name \in Names
  BY <1>1 DEF Cached, Reading, Idle
<1>4. v \in {None} \cup Snapshots /\ (v # None => v.name = c.reading.name)
  BY <1>3 DEF Snapshot, Snapshots
<1>5. r \in Reading /\ r.st = "ok" /\ r.value = v
  BY <1>4 DEF Reading
<1>6. cache' = [cache EXCEPT ![s] = d]
  BY <1>2
<1> HIDE DEF r
<1>7. /\ d \in Cached /\ d.live = c.live /\ d.disk = c.disk /\ d.reading = r
      /\ d.lang = c.lang /\ d.force = c.force
  BY <1>1, <1>5 DEF Cached
<1> HIDE DEF d
<1>8. Holds(d, [lang |-> d.lang, of |-> Owner(s)])
  BY <1>1, <1>4, <1>5, <1>7 DEF Holds
<1>9. UNCHANGED <<set, last, kind, subject, jobs, db, owed>>
  BY DEF ReadDisk, settings
<1>10. cache'[s] = d /\ \A u \in Slots \ {s} : cache'[u] = cache[u]
  BY <1>6 DEF PageInv, Typed
<1>11. JobsAwaited'
  <2>1. \A u \in Slots : cache'[u].live = cache[u].live
    BY <1>7, <1>10
  <2>2. \A j \in jobs : j.live => cache'[SlotOf(j)].live = [st |-> "pending", name |-> j.name]
    BY <2>1, SomebodyWaits DEF PageInv, JobsAwaited
  <2>3. \A u \in Slots : cache'[u].live.st = "pending" => \E j \in jobs : j.live /\ SlotOf(j) = u
    BY <2>1 DEF PageInv, JobsAwaited
  <2>4. kind' = kind /\ jobs' = jobs
    BY <1>9
  <2> QED
    BY <2>2, <2>3, <2>4 DEF PageInv, JobsAwaited, SlotOf, Slots
<1>12. jobs' \subseteq Job /\ owed' \in BOOLEAN
  BY <1>9 DEF PageInv, Typed
<1>13. kind # "section" => s = None
  <2>1. Fresh.reading.st = "idle"
    BY DEF Fresh, Idle
  <2> QED
    BY <1>1, <2>1 DEF PageInv, OneCache, Slots
<1>14. d.live.st = "pending" /\ Usable(last) => d.lang = last.lang
  BY <1>7 DEF PageInv, AwaitsInLanguage
<1>15. owed' /\ kind # "section" => d.force /\ d.live.st = "idle"
  BY <1>7, <1>9, <1>13 DEF PageInv, OwedIsForced
<1> HIDE DEF c
<1> QED
  BY <1>6, <1>7, <1>8, <1>9, <1>11, <1>12, <1>13, <1>14, <1>15, OneSlotHolds

LEMMA LoadHolds ==
    ASSUME PagesAssumption, PageInv, NEW j \in jobs,
           Fetched(j) \/ Answered(j) \/ \E r \in Rows : KeepRow(j, r)
    PROVE  PageInv'
<1>1. j \in Job /\ Rows' = Rows
  BY DEF PageInv, Typed, Rows, Fetched, Answered, KeepRow
<1>2. db \in [Names -> [Rows -> {"none", "fresh", "old"}]]
  BY DEF PageInv, Typed
<1>3. CASE Fetched(j) /\ jobs' = (jobs \ {j}) \cup {[j EXCEPT !.got = TRUE]} /\ UNCHANGED cache
  <2>1. [j EXCEPT !.got = TRUE] \in Job
    BY <1>1 DEF Job
  <2>2. [j EXCEPT !.got = TRUE].name = j.name /\ [j EXCEPT !.got = TRUE].live = j.live
    BY <1>1 DEF Job
  <2> DEFINE k == [j EXCEPT !.got = TRUE]
  <2>3. UNCHANGED <<set, last, kind, subject, db, owed>>
    BY <1>3 DEF Fetched, settings
  <2>4. k \in Job /\ k.name = j.name /\ k.live = j.live /\ jobs' = (jobs \ {j}) \cup {k}
    BY <1>3, <2>1, <2>2
  <2> HIDE DEF k
  <2> QED
    BY <1>1, <1>2, <1>3, <2>3, <2>4, JobMoves
<1>4. CASE Fetched(j) /\ jobs' = jobs \ {j} /\ cache' = Told(j, [st |-> "err"])
  <2> DEFINE live == [st |-> "err"]
  <2>1. live \in Live /\ live.st = "err"
    BY DEF Live
  <2>2. cache' = Told(j, live) /\ jobs' = jobs \ {j} /\ UNCHANGED <<set, last, kind, subject, db, owed>>
    BY <1>4 DEF Fetched, settings
  <2> HIDE DEF live
  <2> QED
    BY <2>1, <2>2, JobEnds
<1>5. CASE Answered(j)
  <2> DEFINE live == [st |-> "ok", name |-> j.name]
  <2>1. live \in Live /\ live.st = "ok" /\ live.name = j.name
    BY <1>1 DEF Live, Job
  <2>2. cache' = Told(j, live) /\ jobs' = jobs \ {j} /\ UNCHANGED <<set, last, kind, subject, db, owed>>
    BY <1>5 DEF Answered, settings
  <2> HIDE DEF live
  <2> QED
    BY <2>1, <2>2, JobEnds
<1>6. CASE \E r \in Rows : KeepRow(j, r)
  <2>1. PICK r \in Rows : KeepRow(j, r)
    BY <1>6
  <2> DEFINE k == [j EXCEPT !.todo = j.todo \ {r}]
  <2>2. k \in Job /\ k.name = j.name /\ k.live = j.live
    BY <1>1 DEF Job
  <2>3. jobs' = (jobs \ {j}) \cup {k} /\ UNCHANGED <<set, last, kind, subject, cache, owed>>
    BY <2>1 DEF KeepRow, settings
  <2>4. j.name \in Names
    BY <1>1 DEF Job
  <2>5. db' \in [Names -> [Rows -> {"none", "fresh", "old"}]]
    <3>1. CASE db' = [db EXCEPT ![j.name][r] = "fresh"]
      <4>1. db' = [db EXCEPT ![j.name] = [db[j.name] EXCEPT ![r] = "fresh"]]
        BY <3>1
      <4>2. [db[j.name] EXCEPT ![r] = "fresh"] \in [Rows -> {"none", "fresh", "old"}]
        BY <1>2, <2>4
      <4> QED
        BY <1>2, <4>1, <4>2
    <3>2. CASE UNCHANGED db
      BY <1>2, <3>2
    <3> QED
      BY <2>1, <3>1, <3>2 DEF KeepRow
  <2> HIDE DEF k
  <2> QED
    BY <1>1, <2>2, <2>3, <2>5, JobMoves
<1> QED
  BY <1>3, <1>4, <1>5, <1>6 DEF Fetched

LEMMA AgesHolds ==
    ASSUME PageInv, NEW n \in Names, NEW r \in Rows, Ages(n, r)
    PROVE  PageInv'
<1>1. db \in [Names -> [Rows -> {"none", "fresh", "old"}]]
  BY DEF PageInv, Typed
<1>2. UNCHANGED <<set, last, kind, subject, cache, jobs, owed>> /\ Rows' = Rows
  BY DEF Ages, settings, Rows
<1> DEFINE age == IF db[n][r] = "fresh" THEN "old" ELSE "none"
<1>3. db' = [db EXCEPT ![n] = [db[n] EXCEPT ![r] = age]]
  BY DEF Ages
<1>4. age \in {"none", "fresh", "old"}
  OBVIOUS
<1> HIDE DEF age
<1>5. [db[n] EXCEPT ![r] = age] \in [Rows -> {"none", "fresh", "old"}]
  BY <1>1, <1>4
<1>6. db' \in [Names -> [Rows -> {"none", "fresh", "old"}]]
  BY <1>1, <1>3, <1>5
<1> QED
  BY <1>2, <1>6, DiskChanges

LEMMA NextHolds ==
    ASSUME PagesAssumption, PageInv, [Next]_vars
    PROVE  PageInv'
<1>1. CASE Edit /\ UNCHANGED page
  BY <1>1, EditHolds
<1>2. CASE Sync
  BY <1>2, SyncHolds
<1>3. CASE Draw
  BY <1>3, DrawHolds
<1>4. CASE Retry
  BY <1>4, RetryHolds
<1>5. CASE RefreshHome \/ ClearCache
  BY <1>5, RefreshHolds
<1>6. CASE \E s \in Subject : Open(s)
  BY <1>6, OpenHolds
<1>7. CASE \E s \in DOMAIN cache : ReadDisk(s)
  <2>1. DOMAIN cache = Slots
    BY DEF PageInv, Typed
  <2> QED
    BY <1>7, <2>1, ReadDiskHolds
<1>8. CASE \E j \in jobs : Fetched(j) \/ Answered(j) \/ \E r \in Rows : KeepRow(j, r)
  BY <1>8, LoadHolds
<1>9. CASE \E n \in Names, r \in Rows : Ages(n, r)
  BY <1>9, AgesHolds
<1>10. CASE UNCHANGED vars
  <2>1. UNCHANGED <<set, last, kind, subject, cache, jobs, db, owed>>
    BY <1>10 DEF vars, page, settings
  <2>2. db' \in [Names -> [Rows' -> {"none", "fresh", "old"}]]
    BY <2>1 DEF PageInv, Typed, Rows
  <2> QED
    BY <2>1, <2>2, DiskChanges
<1> QED
  BY <1>1, <1>2, <1>3, <1>4, <1>5, <1>6, <1>7, <1>8, <1>9, <1>10 DEF Next

(* What a frame paints in a state of the invariant. *)
LEMMA InvIsSafe ==
    ASSUME PagesAssumption, PageInv
    PROVE  TypeOK /\ PageSafe
<1>1. /\ Name \in Names /\ Hydrated \in Cached /\ Holds(Hydrated, Name)
      /\ Frame \in Cached /\ Holds(Frame, Name)
      /\ Frame.live = IF FrameAsks THEN [st |-> "pending", name |-> Name] ELSE Hydrated.live
      /\ Frame.disk = Hydrated.disk
      /\ cache[Slot].live.st = "idle" => Hydrated.live.st = "idle"
      /\ cache[Slot].force => Hydrated.force
  BY FrameFacts
<1>2. \A c \in Cached : c.live.st \in {"idle", "pending", "ok", "err"}
  BY DEF Cached, Live, Idle
<1>3. TypeOK
  <2>1. DOMAIN cache = Slots /\ \A s \in Slots : cache[s] \in Cached
    BY DEF PageInv, Typed
  <2>2. \A s \in Slots : cache[s].live.st = "pending" <=> \E j \in jobs : j.live /\ SlotOf(j) = s
    BY SomebodyWaits DEF PageInv, JobsAwaited
  <2>3. \A j \in jobs : j.name \in Names /\ j.todo \subseteq Rows
    BY DEF PageInv, Typed, Job
  <2> QED
    BY <1>2, <2>1, <2>2, <2>3 DEF PageInv, Typed, TypeOK
<1>4. /\ Painted(Frame).view = View(Frame)
      /\ Painted(Frame).of # None => Painted(Frame).of = Name
      /\ View(Frame) = "disk" =>
           /\ Painted(Frame).late = Frame.disk.late
           /\ Painted(Frame).waits = (Frame.live.st = "pending")
           /\ HasDisk(Frame) /\ Frame.live.st # "ok"
  <2>1. View(Frame) \in {"live", "disk", "failed", "pending"}
    BY DEF View
  <2>2. View(Frame) = "live" => Frame.live.st = "ok"
    BY DEF View, HasDisk
  <2>3. View(Frame) = "disk" => HasDisk(Frame) /\ Frame.live.st # "ok"
    BY DEF View, HasDisk
  <2>4. Frame.live.st = "ok" => Frame.live.name = Name
    BY <1>1 DEF Holds
  <2>5. HasDisk(Frame) => Frame.disk.name = Name
    BY <1>1 DEF Holds, HasDisk
  <2> QED
    BY <2>1, <2>2, <2>3, <2>4, <2>5 DEF Painted
<1>5. Blank.of = None /\ Blank.view = "pending"
  BY DEF Blank
<1>6. PaintsItsOwn
  BY <1>4, <1>5 DEF PaintsItsOwn, Paints
<1>7. StaleIsRevalidated
  <2> SUFFICES ASSUME Paints.view = "disk", ~Paints.waits
               PROVE  Paints.late = {} \/ Frame.live.st = "err"
    BY DEF StaleIsRevalidated
  <2>1. Hydrated.checked /\ Paints = Painted(Frame)
    BY <1>5 DEF Paints
  <2>2. HasDisk(Frame) /\ Frame.live.st \notin {"ok", "pending"} /\ Paints.late = Frame.disk.late
    BY <1>4, <2>1
  <2>3. ~FrameAsks
    BY <1>1, <2>2
  <2>4. Frame.live = Hydrated.live
    BY <1>1, <2>3
  <2>5. CASE Frame.live.st = "idle"
    BY <1>1, <2>1, <2>2, <2>3, <2>4, <2>5 DEF FrameAsks, Asks, HasDisk
  <2> QED
    BY <1>1, <1>2, <2>2, <2>5
<1>8. OpenPageRefetched
  <2> SUFFICES ASSUME owed, kind # "section", Paints.view = "disk"
               PROVE  FrameAsks
    BY DEF OpenPageRefetched
  <2>1. Hydrated.checked
    BY <1>5 DEF Paints
  <2>2. cache[Slot].force /\ cache[Slot].live.st = "idle"
    BY DEF PageInv, OwedIsForced, Slot
  <2> QED
    BY <1>1, <2>1, <2>2 DEF FrameAsks, Asks
<1> QED
  BY <1>3, <1>6, <1>7, <1>8 DEF PageSafe

(* A frame paints the data of the subject on screen in the language of the *)
(* settings, a snapshot that is past its time only while the network is    *)
(* asked or after it failed, and Home or a title whose key changed only    *)
(* together with a request (Cached and its screens, screens/swr.rs).       *)
THEOREM PageIsSafe ==
    ASSUME PagesAssumption
    PROVE  Spec => [](TypeOK /\ PageSafe)
<1>1. Init => PageInv
  BY PageInit
<1>2. PageInv /\ [Next]_vars => PageInv'
  BY NextHolds
<1>3. PageInv => TypeOK /\ PageSafe
  BY InvIsSafe
<1> QED
  BY <1>1, <1>2, <1>3, PTL DEF Spec
=============================================================================
