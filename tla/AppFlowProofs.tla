---------------------------- MODULE AppFlowProofs ----------------------------
(***************************************************************************)
(* Theorems about the screens of the app, for any titles, releases, pages, *)
(* servers and depth of the stack, on a TV or not: the state is well typed *)
(* and the way from a title to a film and back is safe.  And about its     *)
(* fields as they are typed on the soft keyboard of Android, for any       *)
(* fields, texts and length of the queues between the two copies.          *)
(***************************************************************************)
EXTENDS MCAppFlow, WellFoundedInduction, TLAPS

(* What a screen needs to have below it. *)
Follows(below, s) ==
    /\ s.at = "torrents" => below = Screen("media", s.of)
    /\ s.at = "player" => below.at \in {"media", "torrents"} /\ below.of = s.of

(* Home at the bottom, and each screen where it was opened from. *)
Shape(stack) ==
    /\ stack \in Seq(Screens) /\ Len(stack) >= 1
    /\ stack[1] = Home
    /\ \A i \in 2..Len(stack) : Follows(stack[i - 1], stack[i])

IsTopPlayer(stack, i) ==
    /\ i \in 1..Len(stack) /\ stack[i].at = "player"
    /\ \A j \in 1..Len(stack) : stack[j].at = "player" => j <= i

(* The topmost player of the stack, if there is one, is of title t. *)
TopPlayerOf(stack, t) == \A i \in 1..Len(stack) : IsTopPlayer(stack, i) => stack[i].of = t

FilmUnderItsPlayer == film # None => TopPlayerOf(nav, film.of)

(* What is on its way to the torrents page is what the page asked for. *)
TorrentsAsked(t) ==
    /\ t.job.st # "idle" => t.job.of = t.of
    /\ t.files = "loading" => t.open.of = t.pending /\ t.pending # None
    /\ t.files = "ready" => t.shown = t.pending /\ t.pending # None
    /\ t.hits = "ready" => t.hitsOf = t.of
    /\ t.marks \in {None, t.of}

(* The inductive invariant. *)
FlowInv ==
    /\ TypeOK
    /\ Shape(nav)
    /\ FilmUnderItsPlayer
    /\ TorrentsAsked(torr)
    /\ MemoryFollowsScreen

-----------------------------------------------------------------------------
(***************************************************************************)
(* The stack.                                                              *)
(***************************************************************************)
LEMMA ScreenTypes ==
    /\ \A t \in Titles : /\ Screen("media", t) \in Screens
                         /\ Screen("torrents", t) \in Screens
                         /\ Screen("player", t) \in Screens
    /\ \A at \in {"home", "search"} \cup Pages : Screen(at, None) \in Screens
    /\ Home \in Screens /\ Search \in Screens
  BY DEF Screen, Screens, Home, Search

(* Which screens are of a title. *)
LEMMA OfATitle ==
    ASSUME NEW s \in Screens
    PROVE  /\ s.at \in {"media", "torrents", "player"} <=> s.of \in Titles
           /\ s = Screen(s.at, s.of)
  BY AppFlowAssumption DEF Screens, Screen

LEMMA PushedShape ==
    ASSUME NEW stack, Shape(stack), NEW s \in Screens, Follows(Last(stack), s)
    PROVE  Shape(Pushed(stack, s))
<1>1. CASE Last(stack) = s
  BY <1>1 DEF Pushed
<1>2. CASE Last(stack) # s
  <2> DEFINE up == Append(stack, s)
  <2>1. /\ up \in Seq(Screens) /\ Len(up) = Len(stack) + 1
        /\ \A i \in 1..Len(stack) : up[i] = stack[i]
        /\ up[Len(stack) + 1] = s
    BY DEF Shape
  <2>2. Last(stack) = stack[Len(stack)]
    BY DEF Last
  <2> HIDE DEF up
  <2>3. \A i \in 2..Len(up) : Follows(up[i - 1], up[i])
    BY <2>1, <2>2 DEF Shape
  <2> QED
    BY <1>2, <2>1, <2>3 DEF Shape, Pushed, up
<1> QED
  BY <1>1, <1>2

LEMMA PoppedShape ==
    ASSUME NEW stack, Shape(stack)
    PROVE  Shape(Popped(stack))
<1>1. CASE Len(stack) > 1
  <2> DEFINE down == Front(stack)
  <2>1. /\ down \in Seq(Screens) /\ Len(down) = Len(stack) - 1
        /\ \A i \in 1..Len(down) : down[i] = stack[i]
    BY <1>1 DEF Shape, Front
  <2> HIDE DEF down
  <2> QED
    BY SMTT(30), <1>1, <2>1 DEF Shape, Popped, down
<1> QED
  BY <1>1 DEF Popped

(* A screen put on top, if it is a player of title t or no player at all. *)
LEMMA PushedTopPlayer ==
    ASSUME NEW stack, Shape(stack), NEW s \in Screens, NEW t,
           \/ s.at = "player" /\ s.of = t
           \/ s.at # "player" /\ TopPlayerOf(stack, t)
    PROVE  TopPlayerOf(Pushed(stack, s), t)
<1>1. CASE Last(stack) = s
  <2>1. Pushed(stack, s) = stack /\ stack[Len(stack)] = s /\ Len(stack) \in 1..Len(stack)
    BY <1>1 DEF Pushed, Last, Shape
  <2>2. s.at = "player" => \A i \in 1..Len(stack) : IsTopPlayer(stack, i) => i = Len(stack)
    BY <2>1 DEF IsTopPlayer, Shape
  <2> QED
    BY <2>1, <2>2 DEF TopPlayerOf
<1>2. CASE Last(stack) # s
  <2> DEFINE up == Append(stack, s)
  <2>1. /\ Len(stack) \in Nat /\ Len(up) = Len(stack) + 1
        /\ \A i \in 1..Len(stack) : up[i] = stack[i]
        /\ up[Len(stack) + 1] = s
    BY DEF Shape
  <2>2. Pushed(stack, s) = up
    BY <1>2 DEF Pushed
  <2> HIDE DEF up
  <2>3. ASSUME NEW i \in 1..Len(up), IsTopPlayer(up, i) PROVE up[i].of = t
    <3>1. CASE i = Len(stack) + 1
      BY <2>1, <2>3, <3>1 DEF IsTopPlayer
    <3>2. CASE i # Len(stack) + 1
      <4>1. i \in 1..Len(stack) /\ s.at # "player"
        BY <2>1, <2>3, <3>2 DEF IsTopPlayer
      <4>2. IsTopPlayer(stack, i)
        BY <2>1, <2>3, <4>1 DEF IsTopPlayer
      <4> QED
        BY <2>1, <4>1, <4>2 DEF TopPlayerOf
    <3> QED
      BY <3>1, <3>2
  <2> QED
    BY <2>2, <2>3 DEF TopPlayerOf
<1> QED
  BY <1>1, <1>2

(* The side menu leaves Home and the page it opens: no player. *)
LEMMA SwitchedShape ==
    ASSUME NEW stack, Shape(stack), NEW at \in {"home"} \cup Pages
    PROVE  /\ Shape(SwitchedTop(stack, Screen(at, None)))
           /\ \A t : TopPlayerOf(SwitchedTop(stack, Screen(at, None)), t)
<1> DEFINE s == Screen(at, None)
           to == SwitchedTop(stack, s)
<1>1. s \in Screens /\ s.at = at /\ at \notin {"torrents", "player"}
  BY ScreenTypes, AppFlowAssumption DEF Screen
<1>2. to = Pushed(<<Home>>, s)
  BY DEF SwitchedTop, Shape
<1>3. Home.at = "home" /\ Home \in Screens
  BY ScreenTypes DEF Home, Screen
<1>4. Shape(<<Home>>)
  BY <1>3 DEF Shape
<1>5. Follows(Last(<<Home>>), s)
  BY <1>1 DEF Follows
<1>6. \A t : TopPlayerOf(<<Home>>, t)
  BY <1>3 DEF TopPlayerOf, IsTopPlayer
<1> HIDE DEF to, s
<1>7. Shape(to)
  BY <1>1, <1>2, <1>4, <1>5, PushedShape
<1>8. \A t : TopPlayerOf(to, t)
  BY <1>1, <1>2, <1>4, <1>6, PushedTopPlayer
<1> QED
  BY <1>7, <1>8 DEF to, s

(* A screen taken off, if it is no player. *)
LEMMA PoppedTopPlayer ==
    ASSUME NEW stack, Shape(stack), NEW t, TopPlayerOf(stack, t), Last(stack).at # "player"
    PROVE  TopPlayerOf(Popped(stack), t)
<1>1. CASE Len(stack) > 1
  <2> DEFINE down == Front(stack)
  <2>1. /\ Len(stack) \in Nat /\ Len(down) = Len(stack) - 1
        /\ \A i \in 1..Len(down) : down[i] = stack[i]
        /\ stack[Len(stack)].at # "player"
    BY <1>1 DEF Shape, Front, Last
  <2>2. Popped(stack) = down
    BY <1>1 DEF Popped
  <2> HIDE DEF down
  <2>3. ASSUME NEW i \in 1..Len(down), IsTopPlayer(down, i) PROVE down[i].of = t
    <3>1. IsTopPlayer(stack, i) /\ i \in 1..Len(stack)
      BY <2>1, <2>3 DEF IsTopPlayer
    <3> QED
      BY <2>1, <2>3, <3>1 DEF TopPlayerOf
  <2> QED
    BY <2>2, <2>3 DEF TopPlayerOf
<1> QED
  BY <1>1 DEF Popped

(* A stack with a player has a topmost one. *)
LEMMA TopPlayerExists ==
    ASSUME NEW stack \in Seq(Screens), NEW i \in 1..Len(stack), stack[i].at = "player"
    PROVE  \E k \in 1..Len(stack) : IsTopPlayer(stack, k)
<1> DEFINE players == {k \in 1..Len(stack) : stack[k].at = "player"}
           depths == {Len(stack) - k : k \in players}
<1>1. depths \subseteq Nat /\ depths # {}
  OBVIOUS
<1> DEFINE less == {p \in Nat \X Nat : p[1] < p[2]}
<1>w. IsWellFoundedOn(less, Nat)
  BY NatLessThanWellFounded DEF OpToRel
<1> HIDE DEF depths, less
<1>2. PICK d \in depths : \A e \in depths : ~ (<<e, d>> \in less)
  BY <1>w, <1>1, WFMin
<1> USE DEF depths
<1>3. \A e \in depths : ~ (e < d)
  BY <1>1, <1>2 DEF less
<1>4. PICK k \in players : d = Len(stack) - k
  BY <1>2
<1>5. ASSUME NEW j \in players PROVE j <= k
  <2>1. Len(stack) - j \in depths /\ Len(stack) \in Nat /\ j \in Nat /\ k \in Nat
    OBVIOUS
  <2>2. ~ (Len(stack) - j < Len(stack) - k)
    BY <2>1, <1>3, <1>4
  <2> QED
    BY <2>1, <2>2
<1> QED
  BY <1>4, <1>5 DEF IsTopPlayer

-----------------------------------------------------------------------------
(***************************************************************************)
(* The torrents page: what it holds, and what is on its way to it.         *)
(***************************************************************************)
PageState ==
    [of : Titles \cup {None}, hits : {"loading", "ready", "failed", "noparser"},
     hitsOf : Titles \cup {None}, marks : Titles \cup {None}, job : Job(Titles),
     files : {"closed", "loading", "ready", "failed"}, shown : Releases \cup {None},
     pending : Releases \cup {None}, open : Job(Releases), filters : Drawer, onScreen : BOOLEAN]

GoodPage(t) == t \in PageState /\ TorrentsAsked(t)

LEMMA FreshPage ==
    ASSUME NEW of \in Titles \cup {None}
    PROVE  GoodPage(FreshTorrents(of))
  BY DEF GoodPage, PageState, TorrentsAsked, FreshTorrents, NoJob, Job, Drawer

(* Being on screen and the filters are no part of what was asked. *)
LEMMA PageChrome ==
    ASSUME NEW t, GoodPage(t), NEW b \in BOOLEAN, NEW drawer \in Drawer
    PROVE  /\ GoodPage([t EXCEPT !.onScreen = b])
           /\ GoodPage([t EXCEPT !.filters = drawer])
           /\ GoodPage([t EXCEPT !.onScreen = b, !.filters = drawer])
<1>1. GoodPage([t EXCEPT !.onScreen = b])
  BY DEF GoodPage, PageState, TorrentsAsked
<1>2. GoodPage([t EXCEPT !.filters = drawer])
  BY DEF GoodPage, PageState, TorrentsAsked
<1>3. GoodPage([t EXCEPT !.onScreen = b, !.filters = drawer])
  <2> DEFINE u == [t EXCEPT !.onScreen = b, !.filters = drawer]
  <2>1. u \in PageState
    BY DEF GoodPage, PageState
  <2>2. /\ u.of = t.of /\ u.hits = t.hits /\ u.hitsOf = t.hitsOf /\ u.marks = t.marks
        /\ u.job = t.job /\ u.files = t.files /\ u.shown = t.shown
        /\ u.pending = t.pending /\ u.open = t.open
    BY DEF GoodPage, PageState
  <2> HIDE DEF u
  <2> QED
    BY <2>1, <2>2 DEF GoodPage, TorrentsAsked, u
<1> QED
  BY <1>1, <1>2, <1>3

(* Without its list of files, or with an error in its place, the page still *)
(* holds what it asked for.                                                 *)
LEMMA PageWithoutFiles ==
    ASSUME NEW t, GoodPage(t)
    PROVE  GoodPage([t EXCEPT !.files = "closed"]) /\ GoodPage([t EXCEPT !.files = "failed"])
<1>1. GoodPage([t EXCEPT !.files = "closed"])
  BY DEF GoodPage, PageState, TorrentsAsked
<1>2. GoodPage([t EXCEPT !.files = "failed"])
  BY DEF GoodPage, PageState, TorrentsAsked
<1> QED
  BY <1>1, <1>2

LEMMA EnsuredPage ==
    ASSUME GoodPage(torr), NEW of \in Titles \cup {None}
    PROVE  GoodPage(Ensured(of))
<1>1. torr.onScreen \in BOOLEAN
  BY DEF GoodPage, PageState
<1> QED
  BY <1>1, FreshPage, PageChrome DEF Ensured, Drawer

(* A request for the files of a release. *)
LEMMA AskedPage ==
    ASSUME GoodPage(torr), NEW rel \in Releases
    PROVE  GoodPage(Asked(rel))
<1> DEFINE open == [st |-> "run", of |-> rel]
<1>1. open \in Job(Releases) /\ open.of = rel /\ rel # None
  BY AppFlowAssumption DEF Job
<1> HIDE DEF open
<1>2. Asked(rel) = [torr EXCEPT !.files = "loading", !.pending = rel, !.open = open]
  BY DEF Asked, open
<1>3. Asked(rel) \in PageState
  BY <1>1, <1>2 DEF GoodPage, PageState
<1>4. TorrentsAsked(Asked(rel))
  BY <1>1, <1>2 DEF GoodPage, PageState, TorrentsAsked
<1> QED
  BY <1>3, <1>4 DEF GoodPage

(* The answer to a request, or to a search, is of what was asked. *)
LEMMA JobPage ==
    ASSUME GoodPage(torr), JobDone
    PROVE  GoodPage(torr')
<1>1. PICK job \in {"job", "open"}, st \in {"ok", "err"} :
         torr[job].st = "run" /\ torr' = [torr EXCEPT ![job].st = st]
  BY DEF JobDone
<1>2. CASE job = "job"
  BY <1>1, <1>2 DEF GoodPage, PageState, TorrentsAsked, Job
<1>3. CASE job = "open"
  BY <1>1, <1>3 DEF GoodPage, PageState, TorrentsAsked, Job
<1> QED
  BY <1>2, <1>3

LEMMA HitsPage ==
    ASSUME GoodPage(torr), PollHits
    PROVE  GoodPage(torr')
<1>1. CASE torr' = SetHits("noparser", None) \/ torr' = SetHits("failed", None)
  BY ZenonT(30), <1>1 DEF GoodPage, PageState, TorrentsAsked, SetHits
<1>2. CASE torr.job.st = "ok" /\ torr' = SetHits("ready", torr.job.of)
  BY <1>2 DEF GoodPage, PageState, TorrentsAsked, SetHits, Job
<1>3. CASE torr' = [torr EXCEPT !.job = [st |-> "run", of |-> torr.of]]
  BY <1>3 DEF GoodPage, PageState, TorrentsAsked, Job
<1> QED
  BY <1>1, <1>2, <1>3 DEF PollHits

LEMMA OpenedPage ==
    ASSUME GoodPage(torr), PollOpened
    PROVE  GoodPage(torr')
<1>1. CASE torr' = [torr EXCEPT !.files = "ready", !.shown = torr.open.of]
  <2>1. torr.files = "loading" /\ torr.open.of \in Releases \cup {None}
    BY DEF PollOpened, GoodPage, PageState, Job
  <2> QED
    BY <1>1, <2>1 DEF GoodPage, PageState, TorrentsAsked
<1>2. CASE torr' = Refused
  BY <1>2, PageWithoutFiles DEF Refused
<1> QED
  BY <1>1, <1>2 DEF PollOpened

LEMMA MarksPage ==
    ASSUME GoodPage(torr), ApplyLocalHits
    PROVE  GoodPage(torr')
  BY DEF GoodPage, PageState, TorrentsAsked, ApplyLocalHits

-----------------------------------------------------------------------------
(***************************************************************************)
(* The steps: those that stay on the screen, and those that leave it.      *)
(***************************************************************************)
MediaState ==
    [of : Titles \cup {None}, data : {"none", "loading", "ready", "failed"},
     over : {"none", "lists", "list", "resolving", "failed"}]

FilmState == {None} \cup [of : Titles, rel : Releases \cup {None}, playing : BOOLEAN]

(* The invariant, with the names of its parts. *)
LEMMA FlowParts ==
    FlowInv <=> /\ Shape(nav) /\ Len(nav) <= MaxStack /\ drawn \in BOOLEAN
                /\ panel \in Drawer /\ urls \subseteq Servers
                /\ media \in MediaState /\ GoodPage(torr)
                /\ tags \in Titles \cup {None} /\ film \in FilmState
                /\ FilmUnderItsPlayer /\ MemoryFollowsScreen
<1>1. Shape(nav) => nav \in Seq(Screens) /\ nav # <<>>
  BY DEF Shape
<1> QED
  BY <1>1 DEF FlowInv, TypeOK, MediaState, FilmState, GoodPage, PageState

(* The screen on top is a screen. *)
LEMMA TopScreen ==
    ASSUME FlowInv
    PROVE  /\ Top \in Screens /\ Top = nav[Len(nav)]
           /\ On("media") \/ On("torrents") \/ On("player") => Top.of \in Titles
<1>1. Top \in Screens /\ Top = nav[Len(nav)]
  BY DEF FlowInv, Shape, Top, Last
<1> QED
  BY <1>1, OfATitle DEF On

(* What may change while the screen on top stays. *)
LEMMA Stayed ==
    ASSUME FlowInv, Stay,
           panel' \in Drawer, urls' \subseteq Servers,
           media' \in MediaState, media'.of = media.of,
           media.data # "none" => media'.data # "none",
           GoodPage(torr'), tags' \in Titles \cup {None}, film' \in FilmState,
           film' # None => film # None /\ film'.of = film.of
    PROVE  FlowInv'
<1>1. /\ Shape(nav) /\ Len(nav) <= MaxStack /\ drawn \in BOOLEAN
      /\ FilmUnderItsPlayer /\ MemoryFollowsScreen
  BY FlowParts
<1>2. nav' = nav /\ drawn' = drawn
  BY DEF Stay
<1>3. FilmUnderItsPlayer'
  BY <1>1, <1>2 DEF FilmUnderItsPlayer
<1>4. MemoryFollowsScreen'
  BY <1>1, <1>2 DEF MemoryFollowsScreen, On, Top
<1>5. Shape(nav') /\ Len(nav') <= MaxStack /\ drawn' \in BOOLEAN
  BY <1>1, <1>2
<1> QED
  BY <1>3, <1>4, <1>5 DEF FlowInv, TypeOK, MediaState, FilmState, GoodPage, PageState, Shape

(* What may change when another screen comes on top. *)
LEMMA WentTo ==
    ASSUME FlowInv, NEW to, Shape(to), Go(to), UNCHANGED chrome,
           media' \in MediaState,
           to = nav => media'.of = media.of /\ (media.data # "none" => media'.data # "none"),
           GoodPage(torr'), tags' \in Titles \cup {None}, film' \in FilmState,
           film' # None => TopPlayerOf(to, film'.of)
    PROVE  FlowInv'
<1>1. /\ drawn \in BOOLEAN /\ MemoryFollowsScreen
      /\ panel \in Drawer /\ urls \subseteq Servers
  BY FlowParts
<1>2. nav' = to /\ Len(to) <= MaxStack /\ (drawn' <=> drawn /\ to = nav) /\ drawn' \in BOOLEAN
  BY <1>1 DEF Go
<1>3. FilmUnderItsPlayer'
  BY <1>2 DEF FilmUnderItsPlayer
<1>4. MemoryFollowsScreen'
  BY <1>1, <1>2 DEF MemoryFollowsScreen, On, Top
<1>5. panel' \in Drawer /\ urls' \subseteq Servers
  BY <1>1 DEF chrome
<1>6. nav' \in Seq(Screens) /\ nav' # <<>> /\ Len(nav') <= MaxStack /\ Shape(nav')
  BY <1>2 DEF Shape
<1> QED
  BY <1>2, <1>3, <1>4, <1>5, <1>6 DEF FlowInv, TypeOK, MediaState, FilmState, GoodPage, PageState

-----------------------------------------------------------------------------
(***************************************************************************)
(* A frame, and what happens on the screen on top.                         *)
(***************************************************************************)
LEMMA DrawKeeps ==
    ASSUME FlowInv, Draw
    PROVE  FlowInv'
<1>1. /\ Shape(nav) /\ Len(nav) <= MaxStack /\ FilmUnderItsPlayer
      /\ panel \in Drawer /\ urls \subseteq Servers
      /\ media \in MediaState /\ GoodPage(torr)
      /\ tags \in Titles \cup {None} /\ film \in FilmState
  BY FlowParts
<1>2. nav' = nav /\ drawn' = TRUE /\ panel' = panel /\ urls' = urls /\ film' = film
  BY DEF Draw, chrome, pages
<1>3. GoodPage(torr')
  <2>1. Hide => GoodPage(torr')
    BY <1>1, PageChrome DEF Hide, Drawer
  <2>2. DrawTorrents => GoodPage(torr')
    BY <1>1, PageChrome DEF DrawTorrents
  <2> QED
    BY <1>1, <2>1, <2>2 DEF Draw, pages
<1>4. tags' \in Titles \cup {None}
  BY <1>1 DEF Draw, DrawTorrents, GoodPage, PageState, pages
<1>5. media' \in MediaState /\ (On("media") => media'.of = Top.of /\ media'.data # "none")
  <2>1. CASE On("media")
    <3> DEFINE was == IF media.of = Top.of THEN media ELSE FreshMedia(Top.of)
    <3>1. was \in MediaState /\ was.of = Top.of
      BY <1>1, <2>1, TopScreen DEF MediaState, FreshMedia
    <3>2. media' = [was EXCEPT !.data = IF @ = "none" THEN "loading" ELSE @]
      BY <2>1 DEF Draw, DrawMedia, DrawTorrents, On
    <3> HIDE DEF was
    <3> QED
      BY <3>1, <3>2 DEF MediaState
  <2>2. CASE ~On("media")
    BY <1>1, <2>2 DEF Draw, DrawMedia, pages
  <2> QED
    BY <2>1, <2>2
<1>6. MemoryFollowsScreen' /\ FilmUnderItsPlayer'
  BY <1>1, <1>2, <1>5 DEF MemoryFollowsScreen, FilmUnderItsPlayer, On, Top
<1> QED
  BY <1>1, <1>2, <1>3, <1>4, <1>5, <1>6
     DEF FlowInv, TypeOK, MediaState, FilmState, GoodPage, PageState, Shape

(* The drawers. *)
LEMMA DrawersKeep ==
    ASSUME FlowInv, DrawerGone \/ OpenSettings \/ EditUrl
    PROVE  FlowInv'
<1>1. /\ panel \in Drawer /\ urls \subseteq Servers
      /\ media \in MediaState /\ GoodPage(torr)
      /\ tags \in Titles \cup {None} /\ film \in FilmState
  BY FlowParts
<1>2. CASE DrawerGone
  <2>1. GoodPage(torr')
    BY <1>1, <1>2, PageChrome DEF DrawerGone, Drawer
  <2> QED
    BY <1>1, <1>2, <2>1, Stayed DEF DrawerGone, Drawer
<1>3. CASE OpenSettings
  BY <1>1, <1>3, Stayed DEF OpenSettings, Toggled, Drawer, pages
<1>4. CASE EditUrl
  BY <1>1, <1>4, Stayed, AppFlowAssumption DEF EditUrl, pages
<1> QED
  BY <1>2, <1>3, <1>4

(* The media page stays of its title, and has its data once it has asked. *)
LEMMA MediaKeeps ==
    ASSUME FlowInv, MediaArrives \/ UseMedia \/ TrailerFails
    PROVE  FlowInv'
<1>1. /\ panel \in Drawer /\ urls \subseteq Servers
      /\ media \in MediaState /\ GoodPage(torr)
      /\ tags \in Titles \cup {None} /\ film \in FilmState
  BY FlowParts
<1>2. Stay /\ UNCHANGED <<chrome, torr, tags, film>>
  BY DEF MediaArrives, UseMedia, TrailerFails
<1>3. /\ media' \in MediaState /\ media'.of = media.of
      /\ media.data # "none" => media'.data # "none"
  <2>1. CASE MediaArrives
    BY <1>1, <2>1 DEF MediaArrives, MediaState
  <2>2. CASE UseMedia
    BY <1>1, <2>2 DEF UseMedia, MediaState
  <2>3. CASE TrailerFails
    BY <1>1, <2>3 DEF TrailerFails, MediaState
  <2> QED
    BY <2>1, <2>2, <2>3
<1> QED
  BY <1>1, <1>2, <1>3, Stayed DEF chrome

(* The torrents page. *)
TorrentsStep ==
    \/ ApplyLocalHits \/ JobDone \/ PollHits \/ RefreshHits \/ PollOpened \/ RetryFiles
    \/ CloseFiles \/ FixInSettings \/ ToggleFilters
    \/ \E rel \in Releases : PickTorrent(rel)

LEMMA TorrentsKeep ==
    ASSUME FlowInv, TorrentsStep
    PROVE  FlowInv'
<1>1. /\ panel \in Drawer /\ urls \subseteq Servers
      /\ media \in MediaState /\ GoodPage(torr)
      /\ tags \in Titles \cup {None} /\ film \in FilmState
  BY FlowParts
<1>2. /\ Stay /\ panel' \in Drawer /\ UNCHANGED <<urls, media, film>>
      /\ tags' \in Titles \cup {None}
  BY <1>1 DEF TorrentsStep, ApplyLocalHits, JobDone, PollHits, RefreshHits, PollOpened, RetryFiles,
     CloseFiles, FixInSettings, ToggleFilters, PickTorrent, OnlyTorrents, chrome, Drawer
<1>3. ASSUME RefreshHits PROVE GoodPage(torr')
  BY <1>1, <1>3 DEF RefreshHits, GoodPage, PageState, TorrentsAsked, NoJob, Job
<1>4. ASSUME RetryFiles PROVE GoodPage(torr')
  <2>1. torr.pending \in Releases
    BY <1>1, <1>4 DEF RetryFiles, GoodPage, PageState
  <2> QED
    BY <1>1, <1>4, <2>1, AskedPage, PageWithoutFiles DEF RetryFiles, Refused
<1>5. ASSUME CloseFiles \/ FixInSettings PROVE GoodPage(torr')
  BY <1>1, <1>5, PageWithoutFiles DEF CloseFiles, FixInSettings
<1>6. ASSUME ToggleFilters PROVE GoodPage(torr')
  <2>1. Toggled(torr.filters) \in Drawer
    BY DEF Toggled, Drawer
  <2>2. torr' = [torr EXCEPT !.filters = Toggled(torr.filters)]
    BY <1>6 DEF ToggleFilters
  <2> QED
    BY <1>1, <2>1, <2>2, PageChrome
<1>7. ASSUME NEW rel \in Releases, PickTorrent(rel) PROVE GoodPage(torr')
  BY <1>1, <1>7, AskedPage, PageWithoutFiles DEF PickTorrent, Refused
<1>8. GoodPage(torr')
  BY <1>1, <1>3, <1>4, <1>5, <1>6, <1>7, JobPage, HitsPage, OpenedPage, MarksPage DEF TorrentsStep
<1> QED
  BY <1>1, <1>2, <1>8, Stayed

(* The film stays of its title. *)
LEMMA FilmKeeps ==
    ASSUME FlowInv, PlayerCommand \/ PauseInBackground
    PROVE  FlowInv'
<1>1. /\ panel \in Drawer /\ urls \subseteq Servers
      /\ media \in MediaState /\ GoodPage(torr)
      /\ tags \in Titles \cup {None} /\ film \in FilmState
  BY FlowParts
<1>2. Stay /\ UNCHANGED <<chrome, media, torr, tags>> /\ film # None
  BY DEF PlayerCommand, PauseInBackground, OnlyFilm
<1>3. film' \in FilmState /\ film'.of = film.of
  BY <1>1, <1>2 DEF PlayerCommand, PauseInBackground, Backgrounded, FilmState
<1> QED
  BY <1>1, <1>2, <1>3, Stayed DEF chrome

-----------------------------------------------------------------------------
(***************************************************************************)
(* Navigation.                                                             *)
(***************************************************************************)
(* Another screen is opened from the one on top, and no film with it. *)
LEMMA OpenedScreen ==
    ASSUME FlowInv, NEW s \in Screens, Follows(Top, s), s.at # "player",
           Go(Pushed(nav, s)), UNCHANGED <<chrome, tags, film>>,
           media' \in MediaState, GoodPage(torr'),
           Top = s => media'.of = media.of /\ (media.data # "none" => media'.data # "none")
    PROVE  FlowInv'
<1> DEFINE to == Pushed(nav, s)
<1>1. Shape(nav) /\ FilmUnderItsPlayer /\ tags \in Titles \cup {None} /\ film \in FilmState
  BY FlowParts
<1>2. Shape(to)
  BY <1>1, PushedShape DEF Top
<1>3. film' # None => TopPlayerOf(to, film'.of)
  BY <1>1, PushedTopPlayer DEF FilmUnderItsPlayer
<1>4. to = nav => Top = s
  BY <1>1 DEF Pushed, Top, Shape
<1> HIDE DEF to
<1> QED
  BY <1>1, <1>2, <1>3, <1>4, WentTo DEF to

LEMMA NavigationKeeps ==
    ASSUME FlowInv,
           OpenRail \/ OpenPage \/ OpenSearch \/ (\E t \in Titles : OpenMedia(t)) \/ WatchTorrents
    PROVE  FlowInv'
<1>1. /\ Shape(nav) /\ media \in MediaState /\ GoodPage(torr)
      /\ tags \in Titles \cup {None} /\ film \in FilmState
  BY FlowParts
<1>2. CASE OpenRail
  <2>1. PICK at \in {"home"} \cup Pages : Go(SwitchedTop(nav, Screen(at, None)))
    BY <1>2 DEF OpenRail
  <2> QED
    BY <1>1, <1>2, <2>1, SwitchedShape, WentTo DEF OpenRail, pages
<1>3. CASE OpenPage
  <2>1. PICK page \in Pages : Go(Pushed(nav, Screen(page, None)))
    BY <1>3 DEF OpenPage
  <2> DEFINE s == Screen(page, None)
  <2>2. s \in Screens /\ s.at \notin {"torrents", "player"} /\ Follows(Top, s)
    BY ScreenTypes, AppFlowAssumption DEF Screen, Follows
  <2> HIDE DEF s
  <2>3. Go(Pushed(nav, s))
    BY <2>1 DEF s
  <2> QED
    BY <1>1, <1>3, <2>2, <2>3, OpenedScreen DEF OpenPage, pages
<1>4. CASE OpenSearch
  <2>1. Search \in Screens /\ Search.at = "search" /\ Follows(Top, Search)
    BY ScreenTypes DEF Search, Screen, Follows
  <2>2. Go(Pushed(nav, Search))
    BY <1>4 DEF OpenSearch, Searched, Pushed
  <2> QED
    BY <1>1, <1>4, <2>1, <2>2, OpenedScreen DEF OpenSearch, pages
<1>5. ASSUME NEW t \in Titles, OpenMedia(t) PROVE FlowInv'
  <2> DEFINE s == Screen("media", t)
  <2>1. s \in Screens /\ s.at = "media" /\ s.of = t /\ Follows(Top, s)
    BY ScreenTypes DEF Screen, Follows
  <2>2. media' \in MediaState
    BY <1>1, <1>5 DEF OpenMedia, Seeded, FreshMedia, MediaState
  <2>3. ASSUME Top = s
        PROVE  media'.of = media.of /\ (media.data # "none" => media'.data # "none")
    <3>1. media.of = t
      BY <1>5, <2>1, <2>3, FlowParts DEF OpenMedia, PageFree, MemoryFollowsScreen, On
    <3> QED
      BY <1>1, <1>5, <3>1 DEF OpenMedia, Seeded, MediaState
  <2> HIDE DEF s
  <2>4. Go(Pushed(nav, s)) /\ UNCHANGED <<chrome, torr, tags, film>>
    BY <1>5 DEF OpenMedia, s
  <2> QED
    BY <1>1, <2>1, <2>2, <2>3, <2>4, OpenedScreen
<1>6. CASE WatchTorrents
  <2> DEFINE s == Screen("torrents", Top.of)
  <2>1. On("media") /\ Top.of \in Titles /\ Top = Screen("media", Top.of)
    BY <1>6, TopScreen, OfATitle DEF WatchTorrents, On
  <2>2. s \in Screens /\ s.at = "torrents" /\ s.of = Top.of /\ Follows(Top, s)
    BY <2>1, ScreenTypes DEF Screen, Follows
  <2>3. GoodPage(torr')
    BY <1>1, <1>6, EnsuredPage DEF WatchTorrents, MediaState
  <2> HIDE DEF s
  <2>4. Go(Pushed(nav, s)) /\ UNCHANGED <<chrome, media, tags, film>>
    BY <1>6 DEF WatchTorrents, s
  <2> QED
    BY <1>1, <2>2, <2>3, <2>4, OpenedScreen
<1> QED
  BY <1>2, <1>3, <1>4, <1>5, <1>6

(* The player is left: no film is on. *)
LEMMA Left ==
    ASSUME FlowInv, NEW stack, Shape(stack), LeftPlayer(stack), UNCHANGED <<chrome, torr>>,
           media' \in MediaState, media'.of = media.of, media'.data = media.data
    PROVE  FlowInv'
<1>1. GoodPage(torr) /\ tags \in Titles \cup {None} /\ torr.of \in Titles \cup {None}
  BY FlowParts DEF GoodPage, PageState
<1>2. Shape(Popped(stack)) /\ Go(Popped(stack))
  BY PoppedShape DEF LeftPlayer
<1>3. film' = None /\ tags' \in Titles \cup {None}
  BY <1>1 DEF LeftPlayer
<1> QED
  BY <1>1, <1>2, <1>3, WentTo DEF FilmState

(* A film is started from a page of its title. *)
LEMMA Started ==
    ASSUME FlowInv, On("media") \/ On("torrents"),
           NEW of, of = Top.of, NEW rel \in Releases \cup {None},
           StartFilm(of, rel), UNCHANGED <<chrome, torr>>,
           media' \in MediaState, media'.of = media.of, media'.data = media.data
    PROVE  FlowInv'
<1> DEFINE s == Screen("player", of)
           stack == Pushed(nav, s)
<1>1. Shape(nav) /\ GoodPage(torr) /\ tags \in Titles \cup {None} /\ Top.of \in Titles
  BY FlowParts, TopScreen
<1>2. s \in Screens /\ s.at = "player" /\ s.of = of /\ Follows(Top, s)
  BY <1>1, ScreenTypes DEF Screen, Follows, On
<1>3. Search \in Screens /\ Search.at = "search" /\ \A below : Follows(below, Search)
  BY ScreenTypes DEF Search, Screen, Follows
<1> HIDE DEF s
<1>4. Shape(stack) /\ TopPlayerOf(stack, of)
  BY <1>1, <1>2, PushedShape, PushedTopPlayer DEF Top
<1> HIDE DEF stack
<1>5. Shape(Searched(stack)) /\ TopPlayerOf(Searched(stack), of)
  <2>1. Searched(stack) = Pushed(stack, Search)
    BY DEF Searched, Pushed
  <2> QED
    BY <1>3, <1>4, <2>1, PushedShape, PushedTopPlayer
<1>6. ASSUME NEW to \in {stack, Searched(stack)}, Go(to),
             film' = [of |-> of, rel |-> rel, playing |-> TRUE], UNCHANGED tags
      PROVE  FlowInv'
  <2>1. Shape(to) /\ TopPlayerOf(to, of)
    BY <1>4, <1>5
  <2>2. film' \in FilmState /\ film'.of = of
    BY <1>1, <1>6 DEF FilmState
  <2> QED
    BY <1>1, <1>6, <2>1, <2>2, WentTo
<1>7. CASE LeftPlayer(stack)
  BY <1>4, <1>7, Left
<1> QED
  BY <1>6, <1>7 DEF StartFilm, stack, s

LEMMA FilmsKeep ==
    ASSUME FlowInv, TrailerPlays \/ PickFile
    PROVE  FlowInv'
<1>1. media \in MediaState /\ GoodPage(torr) /\ MemoryFollowsScreen
  BY FlowParts
<1>2. CASE TrailerPlays
  <2>1. On("media") /\ media.of = Top.of
    BY <1>1, <1>2 DEF TrailerPlays, MemoryFollowsScreen
  <2>2. media' \in MediaState /\ media'.of = media.of /\ media'.data = media.data
    BY <1>1, <1>2 DEF TrailerPlays, MediaState
  <2> QED
    BY <1>2, <2>1, <2>2, Started DEF TrailerPlays
<1>3. CASE PickFile
  <2>1. On("torrents") /\ torr.of = Top.of /\ torr.shown \in Releases \cup {None}
    BY <1>1, <1>3 DEF PickFile, TorrentsShown, GoodPage, PageState
  <2> QED
    BY <1>1, <1>3, <2>1, Started DEF PickFile
<1> QED
  BY <1>2, <1>3

-----------------------------------------------------------------------------
(***************************************************************************)
(* Back.                                                                   *)
(***************************************************************************)
(* The layers that keep the screen. *)
LEMMA LayersKeep ==
    ASSUME FlowInv, UNCHANGED urls,
           \/ BackInSettings
           \/ UNCHANGED panel /\ (BackInMedia \/ BackInDiscover \/ BackInTorrents \/ BackToRail)
    PROVE  FlowInv'
<1>1. /\ panel \in Drawer /\ urls \subseteq Servers
      /\ media \in MediaState /\ GoodPage(torr)
      /\ tags \in Titles \cup {None} /\ film \in FilmState
  BY FlowParts
<1>2. CASE BackInSettings
  BY <1>1, <1>2, Stayed DEF BackInSettings, Drawer, pages
<1>3. CASE BackInMedia /\ UNCHANGED panel
  <2>1. media' \in MediaState /\ media'.of = media.of /\ media'.data = media.data
    BY <1>1, <1>3 DEF BackInMedia, MediaState
  <2> QED
    BY <1>1, <1>3, <2>1, Stayed DEF BackInMedia
<1>4. CASE (BackInDiscover \/ BackToRail) /\ UNCHANGED panel
  BY <1>1, <1>4, Stayed DEF BackInDiscover, BackToRail, pages
<1>5. CASE BackInTorrents /\ UNCHANGED panel
  <2>1. GoodPage(torr')
    BY <1>1, <1>5, PageChrome, PageWithoutFiles DEF BackInTorrents, Drawer
  <2> QED
    BY <1>1, <1>5, <2>1, Stayed DEF BackInTorrents
<1> QED
  BY <1>2, <1>3, <1>4, <1>5

LEMMA BackKeeps ==
    ASSUME FlowInv, Back
    PROVE  FlowInv'
<1>1. /\ Shape(nav) /\ FilmUnderItsPlayer
      /\ panel \in Drawer /\ urls \subseteq Servers
      /\ media \in MediaState /\ GoodPage(torr)
      /\ tags \in Titles \cup {None} /\ film \in FilmState
  BY FlowParts
<1>2. CASE On("player") /\ LeftPlayer(nav) /\ UNCHANGED <<media, torr, chrome>>
  BY <1>1, <1>2, Left
<1>3. CASE ~On("player") /\ Go(Popped(nav)) /\ UNCHANGED <<pages, chrome>>
  <2>1. Shape(Popped(nav))
    BY <1>1, PoppedShape
  <2>2. film # None => TopPlayerOf(Popped(nav), film.of)
    BY <1>1, <1>3, PoppedTopPlayer DEF FilmUnderItsPlayer, On, Top
  <2> QED
    BY <1>1, <1>3, <2>1, <2>2, WentTo DEF pages
<1>4. \/ BackInSettings
      \/ UNCHANGED panel /\ (BackInMedia \/ BackInDiscover \/ BackInTorrents \/ BackToRail)
      \/ On("player") /\ LeftPlayer(nav) /\ UNCHANGED <<media, torr, chrome>>
      \/ ~On("player") /\ Go(Popped(nav)) /\ UNCHANGED <<pages, chrome>>
  BY DEF Back, GoBack, chrome
<1> QED
  BY <1>2, <1>3, <1>4, LayersKeep DEF Back

-----------------------------------------------------------------------------
LEMMA FlowInit == Init => FlowInv
<1> SUFFICES ASSUME Init PROVE FlowInv
  OBVIOUS
<1>1. nav = <<Home>> /\ Home \in Screens /\ Home.at = "home"
  BY ScreenTypes DEF Init, Home, Screen
<1>2. Shape(nav) /\ Len(nav) <= MaxStack
  BY <1>1, AppFlowAssumption DEF Shape
<1>3. drawn = FALSE
  BY DEF Init
<1>4. GoodPage(torr)
  BY FreshPage DEF Init
<1>5. FilmUnderItsPlayer /\ MemoryFollowsScreen
  BY <1>3 DEF Init, FilmUnderItsPlayer, MemoryFollowsScreen
<1> QED
  BY <1>2, <1>4, <1>5, FlowParts DEF Init, Drawer, MediaState, FreshMedia, FilmState

LEMMA FlowStep == FlowInv /\ [Next]_vars => FlowInv'
<1> SUFFICES ASSUME FlowInv, [Next]_vars PROVE FlowInv'
  OBVIOUS
<1>1. CASE Next
  BY <1>1, DrawKeeps, DrawersKeep, MediaKeeps, TorrentsKeep, FilmKeeps, NavigationKeeps,
     FilmsKeep, BackKeeps DEF Next, Navigation, TorrentsStep
<1>2. CASE UNCHANGED vars
  <2>1. UNCHANGED <<nav, drawn, panel, urls, media, torr, tags, film>>
    BY <1>2 DEF vars
  <2>2. /\ panel \in Drawer /\ urls \subseteq Servers
        /\ media \in MediaState /\ GoodPage(torr)
        /\ tags \in Titles \cup {None} /\ film \in FilmState
    BY FlowParts
  <2> QED
    BY <2>1, <2>2, Stayed DEF Stay
<1> QED
  BY <1>1, <1>2

LEMMA FlowAlways == Spec => []FlowInv
  BY FlowInit, FlowStep, PTL DEF Spec

(* The state of the app is well typed in every run. *)
THEOREM TypeCorrect == Spec => []TypeOK
<1>1. FlowInv => TypeOK
  BY DEF FlowInv
<1> QED
  BY <1>1, FlowAlways, PTL

(* Whatever the user opens, searches for, picks or leaves, and however late *)
(* the answers come: Back leads to where each screen was opened from, a     *)
(* film plays under the player of its title, the lists are of what was      *)
(* asked last, and the page in memory is the one on screen.                 *)
THEOREM FlowIsSafe == Spec => []FlowSafe
<1>1. FlowInv => FlowSafe
  <2> SUFFICES ASSUME FlowInv PROVE FlowSafe
    OBVIOUS
  <2>1. StackShape
    BY DEF FlowInv, Shape, Follows, StackShape
  <2>2. FilmOnTopmostPlayer
    <3> SUFFICES ASSUME film # None, NEW i \in Players
                 PROVE  nav[CHOOSE k \in Players : \A j \in Players : j <= k].of = film.of
      BY DEF FilmOnTopmostPlayer
    <3>1. nav \in Seq(Screens) /\ i \in 1..Len(nav) /\ nav[i].at = "player"
      BY DEF FlowInv, TypeOK, Players
    <3>2. \E k \in Players : \A j \in Players : j <= k
      BY <3>1, TopPlayerExists DEF IsTopPlayer, Players
    <3> DEFINE top == CHOOSE k \in Players : \A j \in Players : j <= k
    <3>3. top \in Players /\ \A j \in Players : j <= top
      BY <3>2
    <3> HIDE DEF top
    <3>4. IsTopPlayer(nav, top) /\ top \in 1..Len(nav)
      BY <3>3 DEF IsTopPlayer, Players
    <3>5. nav[top].of = film.of
      BY <3>4 DEF FlowInv, FilmUnderItsPlayer, TopPlayerOf
    <3> QED
      BY <3>5 DEF top
  <2>3. ListsOfTheirTitle /\ MemoryFollowsScreen
    BY DEF FlowInv, TorrentsAsked, ListsOfTheirTitle
  <2> QED
    BY <2>1, <2>2, <2>3 DEF FlowSafe
<1> QED
  BY <1>1, FlowAlways, PTL

-----------------------------------------------------------------------------
(***************************************************************************)
(* The soft keyboard.  What the commands on their way will make of the     *)
(* view is the field the app has open (ViewFollows); what the app will     *)
(* have once it has heard the edits on their way is what the keyboard      *)
(* shows (Knows); and Done speaks of both (DoneIsOfNow).                   *)
(***************************************************************************)
NoField == Keyboard!Nothing

Drafts == [text : Texts, saved : Texts, pending : BOOLEAN]

Command ==
    [kind : {"start"}, of : Field, text : Texts, own : {TRUE}] \cup
    [kind : {"update"}, text : Texts, own : {TRUE}] \cup
    [kind : {"stop"}, own : {FALSE}]

EventOf ==
    [kind : {"edited"}, text : Texts] \cup
    [kind : {"action"}, text : Texts, of : Field \cup {NoField}, clear : BOOLEAN] \cup
    [kind : {"hidden"}]

Uis == [open : Field \cup {NoField}, has : Texts \cup {NoField},
        edited : {NoField} \cup [text : Texts, met : Field \cup {NoField}]]

Views == [editing : BOOLEAN, text : Texts, reported : Texts, of : Field \cup {NoField}]

KeyboardTyped ==
    /\ fields \in [Field -> Drafts]
    /\ ui \in Uis
    /\ view \in Views
    /\ commands \in Seq(Command)
    /\ events \in Seq(EventOf)
    /\ crossed \in BOOLEAN

(* What decides which field the view is for, and which text it has. *)
Turns == {i \in 1..Len(commands) : commands[i].kind # "update"}
Owns == {i \in 1..Len(commands) : commands[i].own}

IsLastOf(i, some) == i \in some /\ \A j \in some : j <= i

TurnsTo(c) == IF c.kind = "start" THEN ui.open = c.of ELSE ui.open = NoField

ViewFollows ==
    \/ /\ Turns = {}
       /\ view.editing => ui.open # NoField /\ view.of = ui.open
       /\ ~view.editing => ui.open = NoField \/ Keyboard!Heard("hidden")
    \/ \E i \in Turns : IsLastOf(i, Turns) /\ TurnsTo(commands[i])

(* The text the app has of the keyboard once it has heard what is on its way. *)
Hears == IF Keyboard!Edits = {} THEN ui.has ELSE Keyboard!LastEdit.text

Knows ==
    ui.open # NoField /\ ~crossed =>
        \/ Owns = {} /\ (view.editing => view.reported = Hears)
        \/ Keyboard!Edits = {} /\ \E i \in Owns : IsLastOf(i, Owns) /\ commands[i].text = ui.has

HasShown == ui.open # NoField => ui.has = fields[ui.open].text /\ ui.edited = NoField

DraftsArePending == \A f \in Field : ~fields[f].pending => fields[f].saved = fields[f].text

DoneIsOfNow ==
    events # << >> =>
        LET e == events[Len(events)]
        IN  e.kind = "action" /\ e.clear => ui.open # NoField /\ e.of = ui.open /\ e.text = Hears

KeyboardInv ==
    KeyboardTyped /\ ViewFollows /\ Knows /\ HasShown /\ DraftsArePending /\ DoneIsOfNow

LEMMA NothingIsNoField == NoField \notin Field
BY KeyboardAssumed DEF Keyboard!KeyboardAssumption, NoField

LEMMA EditIsNotNone == \A e \in [text : Texts, met : Field \cup {NoField}] : e # NoField
<1> SUFFICES ASSUME NEW e \in [text : Texts, met : Field \cup {NoField}], e = NoField PROVE FALSE
  OBVIOUS
<1>1. DOMAIN e = {"text", "met"} /\ DOMAIN NoField = {"nothing"}
  BY DEF NoField, Keyboard!Nothing
<1> QED
  BY <1>1

(* The greatest of the places of a queue.                                  *)
LEMMA GreatestPlace ==
    ASSUME NEW n \in Nat, NEW some \in SUBSET (1..n), some # {}
    PROVE  \E i \in some : IsLastOf(i, some)
<1> DEFINE less == OpToRel(<, Nat)
           rest == {n - i : i \in some}
<1>1. IsWellFoundedOn(less, Nat)
  BY NatLessThanWellFounded
<1>2. \A k, m \in Nat : k < m => <<k, m>> \in less
  BY DEF OpToRel
<1>3. rest \in SUBSET Nat /\ rest # {}
  <2>1. \A i \in some : n - i \in Nat
    OBVIOUS
  <2> QED
    BY <2>1
<1> HIDE DEF less
<1>4. PICK least \in rest : \A m \in rest : ~(<<m, least>> \in less)
  BY <1>1, <1>3, WFMin
<1>5. PICK i \in some : least = n - i
  BY <1>4
<1>6. \A j \in some : ~(n - j < n - i)
  BY <1>2, <1>3, <1>4, <1>5
<1>7. \A j \in some : j <= i
  BY <1>6
<1> QED
  BY <1>7 DEF IsLastOf

LEMMA LastIsMax ==
    ASSUME NEW n \in Nat, NEW some \in SUBSET (1..n), NEW i, IsLastOf(i, some)
    PROVE  Keyboard!Max(some) = i
<1>1. i \in some /\ \A j \in some : i >= j
  BY DEF IsLastOf
<1>2. \A k \in some : (\A j \in some : k >= j) => k = i
  BY <1>1
<1> QED
  BY <1>1, <1>2 DEF Keyboard!Max

(* A queue with one more at the end, and without the first.                *)
LEMMA AppendIs ==
    ASSUME NEW S, NEW s \in Seq(S), NEW e \in S
    PROVE  /\ Append(s, e) \in Seq(S) /\ Len(Append(s, e)) = Len(s) + 1 /\ Len(s) \in Nat
           /\ \A i \in 1..Len(s) : Append(s, e)[i] = s[i]
           /\ Append(s, e)[Len(s) + 1] = e
OBVIOUS

LEMMA TailIs ==
    ASSUME NEW S, NEW s \in Seq(S), s # << >>
    PROVE  /\ Tail(s) \in Seq(S) /\ Len(Tail(s)) = Len(s) - 1 /\ Len(s) \in Nat /\ Len(s) >= 1
           /\ s[1] \in S
           /\ \A i \in 1..(Len(s) - 1) : Tail(s)[i] = s[i + 1]
OBVIOUS

(* What the app hears last is an edit.                                     *)
LEMMA HearsIs ==
    ASSUME KeyboardTyped
    PROVE  /\ Keyboard!Edits # {} =>
                 \E i \in Keyboard!Edits : /\ IsLastOf(i, Keyboard!Edits)
                                           /\ Keyboard!LastEdit = events[i]
                                           /\ Keyboard!LastEdit.text \in Texts
           /\ Keyboard!Fed.open = ui.open
           /\ Keyboard!Fed.has = Hears
           /\ Keyboard!Edits = {} => Keyboard!Fed = ui
           /\ Keyboard!Edits # {} =>
                 Keyboard!Fed.edited = [text |-> Keyboard!LastEdit.text, met |-> ui.open]
           /\ Keyboard!Fed \in Uis
<1>1. ASSUME Keyboard!Edits # {}
      PROVE  \E i \in Keyboard!Edits : /\ IsLastOf(i, Keyboard!Edits)
                                       /\ Keyboard!LastEdit = events[i]
                                       /\ Keyboard!LastEdit.text \in Texts
  <2>1. Len(events) \in Nat /\ Keyboard!Edits \in SUBSET (1..Len(events))
    BY DEF KeyboardTyped, Keyboard!Edits
  <2>2. PICK i \in Keyboard!Edits : IsLastOf(i, Keyboard!Edits)
    BY <1>1, <2>1, GreatestPlace
  <2>3. Keyboard!LastEdit = events[i]
    BY <2>1, <2>2, LastIsMax DEF Keyboard!LastEdit
  <2>4. events[i] \in EventOf /\ events[i].kind = "edited"
    BY <2>1, <2>2 DEF KeyboardTyped, Keyboard!Edits, Keyboard!IsEdit
  <2> QED
    BY <2>2, <2>3, <2>4 DEF EventOf
<1>2. CASE Keyboard!Edits = {}
  BY <1>2 DEF Keyboard!Fed, Hears, KeyboardTyped
<1>3. CASE Keyboard!Edits # {}
  <2>1. Keyboard!LastEdit.text \in Texts
    BY <1>1, <1>3
  <2>2. Keyboard!Fed = [ui EXCEPT !.has = Keyboard!LastEdit.text,
                                  !.edited = [text |-> Keyboard!LastEdit.text, met |-> ui.open]]
    BY <1>3 DEF Keyboard!Fed
  <2>3. ui \in Uis /\ [text |-> Keyboard!LastEdit.text, met |-> ui.open]
                          \in [text : Texts, met : Field \cup {NoField}]
    BY <2>1 DEF KeyboardTyped, Uis
  <2>4. /\ Keyboard!Fed.open = ui.open /\ Keyboard!Fed.has = Keyboard!LastEdit.text
        /\ Keyboard!Fed.edited = [text |-> Keyboard!LastEdit.text, met |-> ui.open]
    BY <2>2, <2>3 DEF Uis
  <2>5. Keyboard!Fed \in Uis
    BY <2>1, <2>2, <2>3 DEF Uis
  <2> QED
    BY <1>1, <1>3, <2>4, <2>5 DEF Hears
<1> QED
  BY <1>2, <1>3

LEMMA EventsGrow ==
    ASSUME KeyboardTyped, NEW e \in EventOf, events' = Append(events, e), ui' = ui
    PROVE  /\ events' \in Seq(EventOf)
           /\ events' # << >> /\ events'[Len(events')] = e
           /\ e.kind # "edited" => Keyboard!Edits' = Keyboard!Edits /\ Hears' = Hears
           /\ e.kind = "edited" => Hears' = e.text
           /\ Keyboard!Heard("hidden") => Keyboard!Heard("hidden")'
           /\ e.kind = "hidden" => Keyboard!Heard("hidden")'
<1> DEFINE n == Len(events)
<1>1. /\ events' \in Seq(EventOf) /\ Len(events') = n + 1 /\ n \in Nat
      /\ \A i \in 1..n : events'[i] = events[i]
      /\ events'[n + 1] = e
  <2>1. events \in Seq(EventOf)
    BY DEF KeyboardTyped
  <2> QED
    BY <2>1, AppendIs
<1>2. Keyboard!Edits \in SUBSET (1..n)
  BY DEF Keyboard!Edits
<1>3. Keyboard!Edits' = Keyboard!Edits \cup {i \in {n + 1} : e.kind = "edited"}
  BY <1>1 DEF Keyboard!Edits, Keyboard!IsEdit
<1> HIDE DEF n
<1>4. ASSUME e.kind # "edited"
      PROVE  Keyboard!Edits' = Keyboard!Edits /\ Hears' = Hears
  <2>1. Keyboard!Edits' = Keyboard!Edits
    BY <1>3, <1>4
  <2>2. CASE Keyboard!Edits = {}
    BY <2>1, <2>2 DEF Hears
  <2>3. CASE Keyboard!Edits # {}
    <3>1. PICK i \in Keyboard!Edits : IsLastOf(i, Keyboard!Edits) /\ Keyboard!LastEdit = events[i]
      BY <2>3, HearsIs
    <3>2. Keyboard!LastEdit' = events'[i]
      <4>1. Keyboard!Max(Keyboard!Edits) = i
        BY <1>1, <1>2, <3>1, LastIsMax
      <4>2. Keyboard!Max(Keyboard!Edits)' = i
        BY <2>1, <4>1 DEF Keyboard!Max
      <4> QED
        BY <4>2 DEF Keyboard!LastEdit
    <3>3. events'[i] = events[i]
      BY <1>1, <1>2, <3>1
    <3> QED
      BY <2>1, <2>3, <3>1, <3>2, <3>3 DEF Hears
  <2> QED
    BY <2>1, <2>2, <2>3
<1>5. ASSUME e.kind = "edited" PROVE Hears' = e.text
  <2>1. n + 1 \in Keyboard!Edits' /\ \A j \in Keyboard!Edits' : j <= n + 1 /\ j \in 1..(n + 1)
    BY <1>1, <1>2, <1>3, <1>5
  <2>2. \A k \in Keyboard!Edits' : (\A j \in Keyboard!Edits' : k >= j) => k = n + 1
    BY <1>1, <2>1
  <2>3. Keyboard!Max(Keyboard!Edits)' = n + 1
    <3>1. \A j \in Keyboard!Edits' : n + 1 >= j
      BY <1>1, <2>1
    <3> QED
      BY <2>1, <2>2, <3>1 DEF Keyboard!Max
  <2>4. Keyboard!LastEdit' = e
    BY <1>1, <2>3 DEF Keyboard!LastEdit
  <2> QED
    BY <2>1, <2>4 DEF Hears
<1>6. Keyboard!Heard("hidden") => Keyboard!Heard("hidden")'
  BY <1>1 DEF Keyboard!Heard
<1>7. e.kind = "hidden" => Keyboard!Heard("hidden")'
  BY <1>1 DEF Keyboard!Heard
<1> QED
  BY <1>1, <1>4, <1>5, <1>6, <1>7

LEMMA ComposeKeeps ==
    ASSUME KeyboardInv, NEW text \in Texts, Keyboard!Compose(text)
    PROVE  KeyboardInv'
<1>1. view' \in Views /\ view'.editing = view.editing /\ view'.of = view.of /\ view'.reported = view.reported
  BY DEF KeyboardInv, KeyboardTyped, Keyboard!Compose, Views
<1>2. UNCHANGED <<fields, ui, commands, events, crossed>>
  BY DEF Keyboard!Compose
<1>3. KeyboardTyped' /\ HasShown' /\ DraftsArePending'
  BY <1>1, <1>2 DEF KeyboardInv, KeyboardTyped, HasShown, DraftsArePending
<1>4. Turns' = Turns /\ Owns' = Owns /\ Keyboard!Edits' = Keyboard!Edits /\ Hears' = Hears
      /\ Keyboard!Heard("hidden")' = Keyboard!Heard("hidden")
  BY <1>2 DEF Turns, Owns, Keyboard!Edits, Hears, Keyboard!LastEdit, Keyboard!Heard
<1>5. ViewFollows'
  BY <1>1, <1>2, <1>4 DEF KeyboardInv, ViewFollows, TurnsTo
<1>6. Knows'
  BY <1>1, <1>2, <1>4 DEF KeyboardInv, Knows
<1>7. DoneIsOfNow'
  BY <1>2, <1>4 DEF KeyboardInv, DoneIsOfNow
<1> QED
  BY <1>3, <1>5, <1>6, <1>7 DEF KeyboardInv

LEMMA SettleKeeps ==
    ASSUME KeyboardInv, NEW text \in Texts, Keyboard!Settle(text)
    PROVE  KeyboardInv'
<1> DEFINE e == [kind |-> "edited", text |-> text]
<1>1. e \in EventOf /\ e.kind = "edited" /\ e.text = text
  BY DEF EventOf
<1>2. events' = Append(events, e) /\ UNCHANGED <<fields, ui, commands>>
      /\ crossed' = (\E i \in 1..Len(commands) : commands[i].own)
  BY DEF Keyboard!Settle, Keyboard!Report
<1> HIDE DEF e
<1>3. view' \in Views /\ view'.editing = view.editing /\ view'.of = view.of /\ view'.reported = text
  BY DEF KeyboardInv, KeyboardTyped, Keyboard!Settle, Keyboard!Report, Views
<1>4. /\ events' \in Seq(EventOf) /\ events' # << >> /\ events'[Len(events')] = e
      /\ Hears' = text
      /\ Keyboard!Heard("hidden") => Keyboard!Heard("hidden")'
  BY <1>1, <1>2, EventsGrow DEF KeyboardInv
<1>5. KeyboardTyped' /\ HasShown' /\ DraftsArePending'
  <2>1. crossed' \in BOOLEAN
    BY <1>2
  <2> QED
    BY <1>2, <1>3, <1>4, <2>1 DEF KeyboardInv, KeyboardTyped, HasShown, DraftsArePending
<1>6. Turns' = Turns /\ Owns' = Owns
  BY <1>2 DEF Turns, Owns
<1>7. ViewFollows'
  BY <1>2, <1>3, <1>4, <1>6 DEF KeyboardInv, ViewFollows, TurnsTo
<1>8. Knows'
  BY <1>2, <1>3, <1>4, <1>6 DEF Knows, Owns
<1>9. DoneIsOfNow'
  BY <1>1, <1>4 DEF DoneIsOfNow
<1> QED
  BY <1>5, <1>7, <1>8, <1>9 DEF KeyboardInv

LEMMA DoneKeeps ==
    ASSUME KeyboardInv, Keyboard!Done
    PROVE  KeyboardInv'
<1> DEFINE e == [kind |-> "action", text |-> view.text, of |-> view.of,
                 clear |-> commands = << >> /\ ~crossed]
<1>1. view.editing /\ view.text = view.reported /\ events' = Append(events, e)
      /\ UNCHANGED <<fields, ui, view, commands, crossed>>
  BY DEF Keyboard!Done
<1>2. e \in EventOf /\ e.kind = "action" /\ e.text = view.text /\ e.of = view.of
      /\ (e.clear => commands = << >> /\ ~crossed)
  <2>1. view \in Views /\ (commands = << >> /\ ~crossed) \in BOOLEAN
    BY DEF KeyboardInv, KeyboardTyped
  <2> QED
    BY <2>1 DEF EventOf, Views
<1> HIDE DEF e
<1>3. /\ events' \in Seq(EventOf) /\ events' # << >> /\ events'[Len(events')] = e
      /\ Keyboard!Edits' = Keyboard!Edits /\ Hears' = Hears
      /\ Keyboard!Heard("hidden") => Keyboard!Heard("hidden")'
  BY <1>1, <1>2, EventsGrow DEF KeyboardInv
<1>4. KeyboardTyped' /\ HasShown' /\ DraftsArePending'
  BY <1>1, <1>3 DEF KeyboardInv, KeyboardTyped, HasShown, DraftsArePending
<1>5. Turns' = Turns /\ Owns' = Owns
  BY <1>1 DEF Turns, Owns
<1>6. ViewFollows'
  BY <1>1, <1>3, <1>5 DEF KeyboardInv, ViewFollows, TurnsTo
<1>7. Knows'
  BY <1>1, <1>3, <1>5 DEF KeyboardInv, Knows
<1>8. DoneIsOfNow'
  <2> SUFFICES ASSUME e.clear PROVE ui.open # NoField /\ e.of = ui.open /\ e.text = Hears
    BY <1>1, <1>3 DEF DoneIsOfNow
  <2>1. commands = << >> /\ ~crossed /\ Turns = {} /\ Owns = {}
    BY <1>2 DEF Turns, Owns
  <2>2. ui.open # NoField /\ view.of = ui.open
    BY <1>1, <2>1 DEF KeyboardInv, ViewFollows
  <2>3. view.reported = Hears
    BY <1>1, <2>1, <2>2 DEF KeyboardInv, Knows
  <2> QED
    BY <1>1, <1>2, <2>2, <2>3
<1> QED
  BY <1>4, <1>6, <1>7, <1>8 DEF KeyboardInv

LEMMA HiddenKeeps ==
    ASSUME KeyboardInv, Keyboard!Back
    PROVE  KeyboardInv'
<1> DEFINE e == [kind |-> "hidden"]
<1>1. e \in EventOf /\ e.kind = "hidden"
  BY DEF EventOf
<1>2. events' = Append(events, e) /\ UNCHANGED <<fields, ui, commands, crossed>>
  BY DEF Keyboard!Back
<1> HIDE DEF e
<1>3. view' \in Views /\ ~view'.editing
  BY DEF KeyboardInv, KeyboardTyped, Keyboard!Back, Keyboard!Stopped, Views
<1>4. /\ events' \in Seq(EventOf) /\ events' # << >> /\ events'[Len(events')] = e
      /\ Keyboard!Edits' = Keyboard!Edits /\ Hears' = Hears
      /\ Keyboard!Heard("hidden")'
  BY <1>1, <1>2, EventsGrow DEF KeyboardInv
<1>5. KeyboardTyped' /\ HasShown' /\ DraftsArePending'
  BY <1>2, <1>3, <1>4 DEF KeyboardInv, KeyboardTyped, HasShown, DraftsArePending
<1>6. Turns' = Turns /\ Owns' = Owns
  BY <1>2 DEF Turns, Owns
<1>7. ViewFollows'
  BY <1>2, <1>3, <1>4, <1>6 DEF KeyboardInv, ViewFollows, TurnsTo
<1>8. Knows'
  BY <1>2, <1>3, <1>4, <1>6 DEF KeyboardInv, Knows
<1>9. DoneIsOfNow'
  BY <1>1, <1>4 DEF DoneIsOfNow
<1> QED
  BY <1>5, <1>7, <1>8, <1>9 DEF KeyboardInv

LEMMA RunKeeps ==
    ASSUME KeyboardInv, Keyboard!Run
    PROVE  KeyboardInv'
<1> DEFINE c == commands[1]
           n == Len(commands)
<1>1. commands # << >> /\ commands' = Tail(commands) /\ UNCHANGED <<fields, ui, events, crossed>>
  BY DEF Keyboard!Run
<1>2. /\ commands' \in Seq(Command) /\ Len(commands') = n - 1 /\ n \in Nat /\ n >= 1
      /\ c \in Command
      /\ \A i \in 1..(n - 1) : commands'[i] = commands[i + 1]
  <2>1. commands \in Seq(Command)
    BY DEF KeyboardInv, KeyboardTyped
  <2> QED
    BY <1>1, <2>1, TailIs
<1>3. c.kind \in {"start", "update", "stop"} /\ (c.own <=> c.kind # "stop")
      /\ (c.kind = "start" => c.of \in Field) /\ (c.own => c.text \in Texts)
  BY <1>2 DEF Command
<1>4. view \in Views
  BY DEF KeyboardInv, KeyboardTyped
<1> DEFINE replaced == [view EXCEPT !.text = c.text, !.reported = c.text]
<1>5. c.own => /\ replaced \in Views /\ replaced.reported = c.text
               /\ replaced.editing = view.editing /\ replaced.of = view.of
  BY <1>3, <1>4 DEF Views
<1> HIDE DEF replaced
<1> DEFINE Ran ==
      /\ view' \in Views
      /\ c.kind = "start" => view'.editing /\ view'.of = c.of /\ view'.reported = c.text
      /\ c.kind = "update" => /\ view'.editing = view.editing /\ view'.of = view.of
                              /\ view.editing => view'.reported = c.text
      /\ c.kind = "stop" => ~view'.editing
<1>7. Ran
  <2>1. CASE c.kind = "start"
    <3>1. view' = [replaced EXCEPT !.editing = TRUE, !.of = c.of]
      BY <2>1 DEF Keyboard!Run, replaced
    <3>2. view' \in Views /\ view'.editing /\ view'.of = c.of /\ view'.reported = c.text
      BY <1>3, <1>5, <2>1, <3>1 DEF Views
    <3> QED
      BY <2>1, <3>2
  <2>2. CASE c.kind = "update"
    <3>1. view' = IF view.editing /\ c.text # view.reported THEN replaced ELSE view
      BY <2>2 DEF Keyboard!Run, replaced
    <3> QED
      BY <1>3, <1>4, <1>5, <2>2, <3>1
  <2>3. CASE c.kind = "stop"
    <3>1. view' = [view EXCEPT !.editing = FALSE]
      BY <2>3 DEF Keyboard!Run, Keyboard!Stopped
    <3> QED
      BY <1>4, <2>3, <3>1 DEF Views
  <2> QED
    BY <1>3, <2>1, <2>2, <2>3
<1> HIDE DEF Ran
<1>8. KeyboardTyped' /\ HasShown' /\ DraftsArePending'
  BY <1>1, <1>2, <1>7 DEF KeyboardInv, KeyboardTyped, HasShown, DraftsArePending, Ran
<1>9. Keyboard!Edits' = Keyboard!Edits /\ Hears' = Hears
      /\ Keyboard!Heard("hidden")' = Keyboard!Heard("hidden")
  BY <1>1 DEF Keyboard!Edits, Hears, Keyboard!LastEdit, Keyboard!Heard
<1>10. Turns \in SUBSET (1..n) /\ Owns \in SUBSET (1..n) /\ (1 \in Turns <=> c.kind # "update")
       /\ (1 \in Owns <=> c.own)
  BY <1>2 DEF Turns, Owns
<1>11. Turns' = {i \in 1..(n - 1) : i + 1 \in Turns} /\ Owns' = {i \in 1..(n - 1) : i + 1 \in Owns}
  BY <1>2 DEF Turns, Owns
<1> HIDE DEF c, n
<1>12. ASSUME NEW some \in SUBSET (1..n), NEW i \in some, IsLastOf(i, some)
       PROVE  LET less == {j \in 1..(n - 1) : j + 1 \in some}
              IN  /\ i = 1 => less = {}
                  /\ i # 1 => IsLastOf(i - 1, less) /\ i - 1 \in 1..(n - 1)
  <2> DEFINE less == {j \in 1..(n - 1) : j + 1 \in some}
  <2>1. i \in 1..n /\ \A j \in less : j + 1 <= i
    BY <1>12 DEF IsLastOf
  <2>2. i = 1 => less = {}
    BY <1>2, <2>1
  <2>3. i # 1 => i - 1 \in less /\ \A j \in less : j <= i - 1
    BY <1>2, <2>1
  <2> QED
    BY <2>2, <2>3 DEF IsLastOf
<1>16. \A i \in 1..n : i - 1 \in 1..(n - 1) => commands'[i - 1] = commands[i]
  <2> SUFFICES ASSUME NEW i \in 1..n, i - 1 \in 1..(n - 1) PROVE commands'[i - 1] = commands[i]
    OBVIOUS
  <2>1. commands'[i - 1] = commands[(i - 1) + 1]
    BY <1>2
  <2>2. (i - 1) + 1 = i
    BY <1>2
  <2> QED
    BY <2>1, <2>2
<1>13. ViewFollows'
  <2>1. CASE Turns = {}
    <3>1. c.kind = "update" /\ Turns' = {}
      BY <1>10, <1>11, <2>1
    <3>2. view.editing => ui.open # NoField /\ view.of = ui.open
      BY <2>1 DEF KeyboardInv, ViewFollows
    <3>3. ~view.editing => ui.open = NoField \/ Keyboard!Heard("hidden")
      BY <2>1 DEF KeyboardInv, ViewFollows
    <3> QED
      BY <1>1, <1>7, <1>9, <3>1, <3>2, <3>3 DEF ViewFollows, Ran
  <2>2. CASE Turns # {}
    <3>1. PICK i \in Turns : IsLastOf(i, Turns) /\ TurnsTo(commands[i])
      BY <2>2 DEF KeyboardInv, ViewFollows
    <3>2. CASE i = 1
      <4>1. Turns' = {} /\ c.kind # "update" /\ TurnsTo(c)
        BY <1>10, <1>11, <1>12, <3>1, <3>2 DEF c
      <4>2. CASE c.kind = "start"
        BY <1>1, <1>3, <1>7, <4>1, <4>2, NothingIsNoField DEF ViewFollows, TurnsTo, Ran
      <4>3. CASE c.kind = "stop"
        BY <1>1, <1>7, <4>1, <4>3 DEF ViewFollows, TurnsTo, Ran
      <4> QED
        BY <1>3, <4>1, <4>2, <4>3
    <3>3. CASE i # 1
      <4>1. IsLastOf(i - 1, Turns') /\ i - 1 \in 1..(n - 1)
        BY <1>10, <1>11, <1>12, <3>1, <3>3
      <4>2. commands'[i - 1] = commands[i]
        BY <1>10, <1>16, <3>1, <4>1
      <4>3. /\ commands'[i - 1].kind = "start" => ui'.open = commands'[i - 1].of
            /\ commands'[i - 1].kind # "start" => ui'.open = NoField
        BY <1>1, <3>1, <4>2 DEF TurnsTo
      <4>4. IF commands'[i - 1].kind = "start"
            THEN ui'.open = commands'[i - 1].of ELSE ui'.open = NoField
        BY <4>3
      <4>5. i - 1 \in Turns'
        BY <4>1 DEF IsLastOf
      <4>6. \E k \in Turns' : /\ IsLastOf(k, Turns')
                              /\ IF commands'[k].kind = "start"
                                 THEN ui'.open = commands'[k].of ELSE ui'.open = NoField
        BY <4>1, <4>4, <4>5
      <4> QED
        BY <4>6 DEF ViewFollows, TurnsTo
    <3> QED
      BY <3>2, <3>3
  <2> QED
    BY <2>1, <2>2
<1>14. Knows'
  <2> SUFFICES ASSUME ui.open # NoField, ~crossed
               PROVE  \/ Owns' = {} /\ (view'.editing => view'.reported = Hears)
                      \/ Keyboard!Edits = {} /\ \E i \in Owns' : IsLastOf(i, Owns') /\ commands'[i].text = ui.has
    BY <1>1, <1>9 DEF Knows
  <2>1. CASE Owns = {} /\ (view.editing => view.reported = Hears)
    <3>1. c.kind = "stop" /\ Owns' = {}
      BY <1>3, <1>10, <1>11, <2>1
    <3> QED
      BY <1>7, <3>1 DEF Ran
  <2>2. CASE Keyboard!Edits = {} /\ \E i \in Owns : IsLastOf(i, Owns) /\ commands[i].text = ui.has
    <3>1. PICK i \in Owns : IsLastOf(i, Owns) /\ commands[i].text = ui.has
      BY <2>2
    <3>2. CASE i = 1
      <4>1. Owns' = {} /\ c.own /\ c.text = ui.has /\ Hears = ui.has
        BY <1>10, <1>11, <1>12, <2>2, <3>1, <3>2 DEF Hears, c
      <4>2. view'.editing => view'.reported = c.text
        BY <1>3, <1>7, <4>1 DEF Ran
      <4> QED
        BY <4>1, <4>2
    <3>3. CASE i # 1
      <4>1. IsLastOf(i - 1, Owns') /\ i - 1 \in 1..(n - 1)
        BY <1>10, <1>11, <1>12, <3>1, <3>3
      <4>2. commands'[i - 1] = commands[i]
        BY <1>10, <1>16, <3>1, <4>1
      <4> QED
        BY <2>2, <3>1, <4>1, <4>2 DEF IsLastOf
    <3> QED
      BY <3>2, <3>3
  <2> QED
    BY <2>1, <2>2 DEF KeyboardInv, Knows
<1>15. DoneIsOfNow'
  BY <1>1, <1>9 DEF KeyboardInv, DoneIsOfNow
<1> QED
  BY <1>8, <1>13, <1>14, <1>15 DEF KeyboardInv

LEMMA InputIs ==
    ASSUME NEW input \in Keyboard!Inputs
    PROVE  /\ input.kind = "type" => input.text \in Texts
           /\ input.kind = "touch" => input.at \in Field \cup {NoField}
BY DEF Keyboard!Inputs, NoField

(* The edit the frame has for the open field is the last it heard.         *)
LEMMA EditIsHeard ==
    ASSUME KeyboardInv, ui.open # NoField
    PROVE  /\ Keyboard!Edits # {} => /\ Keyboard!Fed.edited # NoField
                                     /\ Keyboard!Fed.edited.text = Hears
                                     /\ Keyboard!Fed.edited.met = ui.open
           /\ Keyboard!Edits = {} => /\ Keyboard!Fed.edited = NoField
                                     /\ fields[ui.open].text = Hears
<1>1. CASE Keyboard!Edits # {}
  <2>1. Keyboard!Fed.edited = [text |-> Keyboard!LastEdit.text, met |-> ui.open]
        /\ Keyboard!LastEdit.text \in Texts /\ ui.open \in Field \cup {NoField}
    BY <1>1, HearsIs DEF KeyboardInv, KeyboardTyped, Uis
  <2>2. Keyboard!Fed.edited \in [text : Texts, met : Field \cup {NoField}]
    BY <2>1
  <2> QED
    BY <1>1, <2>1, <2>2, EditIsNotNone DEF Hears
<1>2. CASE Keyboard!Edits = {}
  <2>1. Keyboard!Fed = ui
    BY <1>2, HearsIs DEF KeyboardInv
  <2> QED
    BY <1>2, <2>1 DEF KeyboardInv, HasShown, Hears
<1> QED
  BY <1>1, <1>2

LEMMA ShownIs ==
    ASSUME KeyboardInv, NEW input \in Keyboard!Inputs
    PROVE  LET shown == Keyboard!Shown(Keyboard!Fed, input)
           IN  /\ shown \in [Field -> Texts]
               /\ \A g \in Field : g # ui.open => shown[g] = fields[g].text
               /\ ui.open \in Field =>
                      /\ Keyboard!Edits # {} \/ input.kind # "type" => shown[ui.open] = Hears
                      /\ Keyboard!Edits = {} /\ input.kind # "type" =>
                             shown[ui.open] = fields[ui.open].text
<1> DEFINE shown == Keyboard!Shown(Keyboard!Fed, input)
           edited == Keyboard!Fed.edited
<1>1. Keyboard!Fed.open = ui.open /\ Keyboard!Fed \in Uis /\ fields \in [Field -> Drafts]
  BY HearsIs DEF KeyboardInv, KeyboardTyped
<1>2. shown = [g \in Field |->
                  IF ui.open = g /\ edited # NoField THEN edited.text
                  ELSE IF input.kind = "type" /\ g = ui.open THEN input.text
                  ELSE fields[g].text]
  BY <1>1 DEF Keyboard!Shown, NoField
<1>3. edited \in {NoField} \cup [text : Texts, met : Field \cup {NoField}]
  BY <1>1 DEF Uis
<1>4. edited # NoField => edited.text \in Texts
  BY <1>3
<1>5. input.kind = "type" => input.text \in Texts
  BY InputIs
<1>6. \A g \in Field : fields[g].text \in Texts
  BY <1>1 DEF Drafts
<1> HIDE DEF shown, edited
<1>7. shown \in [Field -> Texts]
  BY <1>2, <1>4, <1>5, <1>6
<1>8. \A g \in Field : g # ui.open => shown[g] = fields[g].text
  BY <1>2
<1>9. ASSUME ui.open \in Field
      PROVE  /\ Keyboard!Edits # {} \/ input.kind # "type" => shown[ui.open] = Hears
             /\ Keyboard!Edits = {} /\ input.kind # "type" =>
                    shown[ui.open] = fields[ui.open].text
  <2>1. ui.open # NoField
    BY <1>9, NothingIsNoField
  <2>2. CASE Keyboard!Edits # {}
    <3>1. edited # NoField /\ edited.text = Hears
      BY <2>1, <2>2, EditIsHeard DEF edited
    <3> QED
      BY <1>2, <1>9, <2>2, <3>1
  <2>3. CASE Keyboard!Edits = {}
    <3>1. edited = NoField /\ fields[ui.open].text = Hears
      BY <2>1, <2>3, EditIsHeard DEF edited
    <3> QED
      BY <1>2, <1>9, <2>3, <3>1
  <2> QED
    BY <2>2, <2>3
<1> QED
  BY <1>7, <1>8, <1>9 DEF shown

(* committed_edit, over any texts of the fields.                           *)
LEMMA CommittedIs ==
    ASSUME KeyboardInv, NEW input \in Keyboard!Inputs, NEW target,
           fields' = Keyboard!Committed(Keyboard!Shown(Keyboard!Fed, input), Keyboard!Fed, target, input)
    PROVE  LET shown == Keyboard!Shown(Keyboard!Fed, input)
           IN  /\ fields' \in [Field -> Drafts]
               /\ DraftsArePending'
               /\ target \in Field => fields'[target].text = shown[target]
               /\ ui.open \in Field /\ target # ui.open /\ input.kind # "type" =>
                      fields'[ui.open].saved = Hears
<1> DEFINE shown == Keyboard!Shown(Keyboard!Fed, input)
           changed(g) == \/ ui.open = g /\ Keyboard!Fed.edited # NoField
                         \/ input.kind = "type" /\ g = ui.open
           pending(g) == fields[g].pending \/ changed(g)
           commits(g) == pending(g) /\ ((ui.open = g /\ target # g) \/ (input.kind = "idle" /\ ~changed(g)))
<1>1. Keyboard!Fed.open = ui.open /\ fields \in [Field -> Drafts]
  BY HearsIs DEF KeyboardInv, KeyboardTyped
<1>2. fields' = [g \in Field |->
            [text |-> IF pending(g) \/ target = g THEN shown[g] ELSE fields[g].saved,
             saved |-> IF commits(g) THEN shown[g] ELSE fields[g].saved,
             pending |-> pending(g) /\ ~commits(g)]]
  BY <1>1 DEF Keyboard!Committed, NoField
<1>3. shown \in [Field -> Texts]
  BY ShownIs
<1>4. ASSUME NEW g \in Field, ~changed(g) PROVE shown[g] = fields[g].text
  <2>1. CASE g # ui.open
    BY <2>1, ShownIs
  <2>2. CASE g = ui.open
    <3>1. Keyboard!Fed.edited = NoField /\ input.kind # "type" /\ ui.open # NoField
      BY <1>4, <2>2, NothingIsNoField
    <3>2. Keyboard!Edits = {}
      BY <3>1, EditIsHeard
    <3> QED
      BY <2>2, <3>1, <3>2, ShownIs
  <2> QED
    BY <2>1, <2>2
<1>5. \A g \in Field : fields[g].text \in Texts /\ fields[g].saved \in Texts /\ fields[g].pending \in BOOLEAN
  BY <1>1 DEF Drafts
<1>6. \A g \in Field : (pending(g) /\ ~commits(g)) \in BOOLEAN /\ (commits(g) => pending(g))
  OBVIOUS
<1>7. ui.open \in Field /\ input.kind # "type" => shown[ui.open] = Hears
  BY ShownIs
<1>8. ui.open \in Field => (commits(ui.open) <=> pending(ui.open)) \/ target = ui.open
  OBVIOUS
<1>9. \A g \in Field : ~pending(g) => ~fields[g].pending /\ ~changed(g)
  OBVIOUS
<1> HIDE DEF shown, changed, pending, commits
<1>10. \A g \in Field :
          /\ fields'[g].text = (IF pending(g) \/ target = g THEN shown[g] ELSE fields[g].saved)
          /\ fields'[g].saved = (IF commits(g) THEN shown[g] ELSE fields[g].saved)
          /\ fields'[g].pending = (pending(g) /\ ~commits(g))
  BY <1>2
<1>11. fields' \in [Field -> Drafts]
  <2>1. \A g \in Field :
            [text |-> IF pending(g) \/ target = g THEN shown[g] ELSE fields[g].saved,
             saved |-> IF commits(g) THEN shown[g] ELSE fields[g].saved,
             pending |-> pending(g) /\ ~commits(g)] \in Drafts
    BY <1>3, <1>5, <1>6 DEF Drafts
  <2> QED
    BY <1>2, <2>1
<1>12. \A g \in Field : ~pending(g) => fields[g].saved = shown[g]
  BY <1>4, <1>9 DEF KeyboardInv, DraftsArePending
<1>13. DraftsArePending'
  <2> SUFFICES ASSUME NEW g \in Field, ~fields'[g].pending
               PROVE  fields'[g].saved = fields'[g].text
    BY DEF DraftsArePending
  <2>1. pending(g) => commits(g)
    BY <1>10
  <2> QED
    BY <1>6, <1>10, <1>12, <2>1
<1>14. ui.open \in Field /\ target # ui.open /\ input.kind # "type" => fields'[ui.open].saved = Hears
  BY <1>7, <1>8, <1>10, <1>12
<1>15. target \in Field => fields'[target].text = shown[target]
  BY <1>10
<1> QED
  BY <1>11, <1>13, <1>14, <1>15 DEF shown

LEMMA FocusIs ==
    ASSUME KeyboardInv, ~TouchAndBack, NEW input \in Keyboard!Inputs, Keyboard!Frame(input)
    PROVE  LET target == Keyboard!FocusAfter(input)
           IN  /\ target \in Field \cup {NoField}
               /\ target = ui.open /\ ui.open # NoField => ~Keyboard!Heard("hidden")
               /\ Keyboard!Heard("action") /\ ui.open # NoField => target # ui.open
<1>1. ui.open \in Field \cup {NoField}
  BY DEF KeyboardInv, KeyboardTyped, Uis
<1>2. input.kind = "touch" => input.at # ui.open /\ input.at \in Field \cup {NoField}
  BY InputIs DEF Keyboard!Frame
<1> QED
  BY <1>1, <1>2 DEF Keyboard!FocusAfter, NoField

(* What the app knows of the field as the frame has taken its edit.        *)
LEMMA TakenIs ==
    ASSUME KeyboardInv
    PROVE  LET taken == Keyboard!Taken(Keyboard!Fed)
           IN  /\ taken \in Uis /\ taken.open = ui.open /\ taken.has = Hears
               /\ ui.open # NoField => taken.edited = NoField
<1>1. /\ Keyboard!Fed \in Uis /\ Keyboard!Fed.open = ui.open /\ Keyboard!Fed.has = Hears
  BY HearsIs DEF KeyboardInv
<1> DEFINE fed == Keyboard!Fed
<1>2. Keyboard!Taken(fed) = IF fed.open = NoField THEN fed ELSE [fed EXCEPT !.edited = NoField]
  BY DEF Keyboard!Taken, NoField
<1> HIDE DEF fed
<1>3. fed \in Uis /\ fed.open = ui.open /\ fed.has = Hears
  BY <1>1 DEF fed
<1>4. /\ [fed EXCEPT !.edited = NoField] \in Uis
      /\ [fed EXCEPT !.edited = NoField].open = ui.open
      /\ [fed EXCEPT !.edited = NoField].has = Hears
      /\ [fed EXCEPT !.edited = NoField].edited = NoField
  BY <1>3 DEF Uis
<1> QED
  BY <1>2, <1>3, <1>4 DEF fed

(* With one more command, the last of its kind.                            *)
LEMMA CommandsGrow ==
    ASSUME KeyboardTyped, NEW c \in Command, commands' = Append(commands, c)
    PROVE  LET n == Len(commands)
           IN  /\ commands' \in Seq(Command)
               /\ c.kind # "update" => IsLastOf(n + 1, Turns') /\ n + 1 \in Turns'
               /\ c.kind = "update" => Turns' = Turns
               /\ c.own => IsLastOf(n + 1, Owns') /\ n + 1 \in Owns'
               /\ commands'[n + 1] = c
               /\ \A i \in Turns : commands'[i] = commands[i]
<1> DEFINE n == Len(commands)
<1>1. /\ commands' \in Seq(Command) /\ Len(commands') = n + 1 /\ n \in Nat
      /\ \A i \in 1..n : commands'[i] = commands[i]
      /\ commands'[n + 1] = c
  <2>1. commands \in Seq(Command)
    BY DEF KeyboardTyped
  <2> QED
    BY <2>1, AppendIs
<1>2. Turns \in SUBSET (1..n)
  BY DEF Turns
<1>3. Turns' = Turns \cup {i \in {n + 1} : c.kind # "update"}
  BY <1>1 DEF Turns
<1>4. Owns' \in SUBSET (1..(n + 1)) /\ (c.own => n + 1 \in Owns')
  BY <1>1 DEF Owns
<1> HIDE DEF n
<1>5. c.kind # "update" => IsLastOf(n + 1, Turns') /\ n + 1 \in Turns'
  BY <1>1, <1>2, <1>3 DEF IsLastOf
<1>6. c.own => IsLastOf(n + 1, Owns') /\ n + 1 \in Owns'
  BY <1>1, <1>4 DEF IsLastOf
<1>7. c.kind = "update" => Turns' = Turns
  BY <1>3
<1> QED
  BY <1>1, <1>2, <1>5, <1>6, <1>7 DEF n

(* A frame that opens a field, or closes the one that was.                 *)
LEMMA FocusMoves ==
    ASSUME KeyboardInv, NEW input \in Keyboard!Inputs, Keyboard!Frame(input),
           NEW target \in Field \cup {NoField}, target = Keyboard!FocusAfter(input), target # ui.open
    PROVE  KeyboardInv'
<1> DEFINE shown == Keyboard!Shown(Keyboard!Fed, input)
           taken == Keyboard!Taken(Keyboard!Fed)
           c == IF target = NoField THEN [kind |-> "stop", own |-> FALSE]
                ELSE [kind |-> "start", of |-> target, text |-> shown[target], own |-> TRUE]
<1>1. shown \in [Field -> Texts]
  BY ShownIs
<1>2. /\ fields' \in [Field -> Drafts] /\ DraftsArePending'
      /\ target \in Field => fields'[target].text = shown[target]
  BY CommittedIs DEF Keyboard!Frame
<1>3. taken.open = ui.open
  BY TakenIs
<1>4. UNCHANGED view /\ events' = << >> /\ Keyboard!Sync(taken, target, shown, input)
  BY DEF Keyboard!Frame
<1>5. Keyboard!Call(taken, target, shown, input) = c
  BY <1>3 DEF Keyboard!Call, NoField
<1> HIDE DEF taken, shown
<1>6. c \in Command
  <2>1. CASE target = NoField
    BY <2>1 DEF Command
  <2>2. CASE target # NoField
    <3>1. target \in Field /\ shown[target] \in Texts
      BY <1>1, <2>2
    <3> QED
      BY <2>2, <3>1 DEF Command
  <2> QED
    BY <2>1, <2>2
<1>7. c # NoField
  <2>1. c.own \in BOOLEAN /\ DOMAIN NoField = {"nothing"} /\ "own" \in DOMAIN c
    BY DEF NoField, Keyboard!Nothing
  <2> QED
    BY <2>1
<1>8. c.kind # "update" /\ (c.kind = "start" <=> target # NoField)
      /\ (target # NoField => c.of = target /\ c.text = shown[target] /\ c.own)
  OBVIOUS
<1> HIDE DEF c
<1>9. ui' = Keyboard!Opened(taken, target, shown)
  BY <1>3, <1>4 DEF Keyboard!Sync
<1>10. commands' = Append(commands, c) /\ ~crossed' /\ crossed' \in BOOLEAN
  BY <1>4, <1>5, <1>7 DEF Keyboard!Sync, NoField
<1>11. ui' = [open |-> target, edited |-> NoField,
              has |-> IF target = NoField THEN NoField ELSE shown[target]]
  BY <1>9 DEF Keyboard!Opened, NoField
<1>12. /\ ui'.open = target /\ ui'.edited = NoField
       /\ target # NoField => ui'.has = shown[target]
  BY <1>11
<1>13. ui' \in Uis
  <2>1. (IF target = NoField THEN NoField ELSE shown[target]) \in Texts \cup {NoField}
    BY <1>1
  <2> QED
    BY <1>11, <2>1 DEF Uis
<1>14. /\ commands' \in Seq(Command)
       /\ IsLastOf(Len(commands) + 1, Turns') /\ Len(commands) + 1 \in Turns'
       /\ c.own => IsLastOf(Len(commands) + 1, Owns') /\ Len(commands) + 1 \in Owns'
       /\ commands'[Len(commands) + 1] = c
  BY <1>6, <1>8, <1>10, CommandsGrow DEF KeyboardInv
<1>15. KeyboardTyped'
  BY <1>2, <1>4, <1>10, <1>13, <1>14 DEF KeyboardInv, KeyboardTyped
<1>16. ViewFollows'
  <2>1. IF c.kind = "start" THEN ui'.open = c.of ELSE ui'.open = NoField
    BY <1>8, <1>12
  <2> QED
    BY <1>14, <2>1 DEF ViewFollows, TurnsTo
<1>17. Keyboard!Edits' = {}
  BY <1>4 DEF Keyboard!Edits
<1>18. Knows'
  BY <1>8, <1>12, <1>14, <1>17 DEF Knows
<1>19. HasShown'
  BY <1>2, <1>12 DEF HasShown
<1>20. DoneIsOfNow'
  BY <1>4 DEF DoneIsOfNow
<1> QED
  BY <1>2, <1>15, <1>16, <1>18, <1>19, <1>20 DEF KeyboardInv

(* A frame with no field open before it and after it.                      *)
LEMMA NoFieldStays ==
    ASSUME KeyboardInv, NEW input \in Keyboard!Inputs, Keyboard!Frame(input),
           Keyboard!FocusAfter(input) = ui.open, ui.open = NoField
    PROVE  KeyboardInv'
<1> DEFINE shown == Keyboard!Shown(Keyboard!Fed, input)
           taken == Keyboard!Taken(Keyboard!Fed)
<1>1. fields' \in [Field -> Drafts] /\ DraftsArePending'
  BY CommittedIs DEF Keyboard!Frame
<1>2. taken \in Uis /\ taken.open = NoField
  BY TakenIs
<1>3. UNCHANGED view /\ events' = << >> /\ Keyboard!Sync(taken, NoField, shown, input)
  BY DEF Keyboard!Frame
<1> HIDE DEF taken, shown
<1>4. Keyboard!Call(taken, NoField, shown, input) = NoField
  BY <1>2 DEF Keyboard!Call, NoField
<1>5. ui' = taken /\ commands' = commands /\ crossed' = crossed
  <2>1. crossed \in BOOLEAN
    BY DEF KeyboardInv, KeyboardTyped
  <2> QED
    BY <1>2, <1>3, <1>4, <2>1 DEF Keyboard!Sync, NoField
<1>6. KeyboardTyped'
  BY <1>1, <1>2, <1>3, <1>5 DEF KeyboardInv, KeyboardTyped
<1>7. ui'.open = NoField
  BY <1>2, <1>5
<1>8. Turns' = Turns
  BY <1>5 DEF Turns
<1>9. ViewFollows'
  <2>1. CASE Turns = {}
    <3>1. ~view.editing
      BY <2>1 DEF KeyboardInv, ViewFollows
    <3> QED
      BY <1>3, <1>7, <1>8, <2>1, <3>1 DEF ViewFollows
  <2>2. CASE Turns # {}
    <3>1. PICK i \in Turns : IsLastOf(i, Turns) /\ TurnsTo(commands[i])
      BY <2>2 DEF KeyboardInv, ViewFollows
    <3>2. IF commands'[i].kind = "start" THEN ui'.open = commands'[i].of ELSE ui'.open = NoField
      BY <1>5, <1>7, <3>1 DEF TurnsTo
    <3> QED
      BY <1>8, <3>1, <3>2 DEF ViewFollows, TurnsTo
  <2> QED
    BY <2>1, <2>2
<1>10. Knows' /\ HasShown'
  BY <1>7 DEF Knows, HasShown
<1>11. DoneIsOfNow'
  BY <1>3 DEF DoneIsOfNow
<1> QED
  BY <1>1, <1>6, <1>9, <1>10, <1>11 DEF KeyboardInv

(* A frame that leaves the field open: the view is told of a change of the *)
(* app's own, and of nothing it said itself.                               *)
LEMMA FieldStays ==
    ASSUME KeyboardInv, NEW input \in Keyboard!Inputs, Keyboard!Frame(input),
           ui.open \in Field, Keyboard!FocusAfter(input) = ui.open, ~Keyboard!Heard("hidden")
    PROVE  KeyboardInv'
<1> DEFINE shown == Keyboard!Shown(Keyboard!Fed, input)
           taken == Keyboard!Taken(Keyboard!Fed)
           open == ui.open
           text == shown[open]
           c == [kind |-> "update", text |-> text, own |-> input.kind = "type"]
<1>1. shown \in [Field -> Texts]
  BY ShownIs
<1>2. /\ fields' \in [Field -> Drafts] /\ DraftsArePending'
      /\ fields'[open].text = text
  BY CommittedIs DEF Keyboard!Frame
<1>3. taken \in Uis /\ taken.open = open /\ taken.has = Hears /\ taken.edited = NoField /\ open # NoField
  BY TakenIs, NothingIsNoField
<1>4. UNCHANGED view /\ events' = << >> /\ Keyboard!Sync(taken, open, shown, input)
  BY DEF Keyboard!Frame
<1>5. text = Hears \/ (input.kind = "type" /\ Keyboard!Edits = {})
  BY ShownIs
<1>6. text \in Texts
  BY <1>1
<1>7. Keyboard!Call(taken, open, shown, input) = IF Hears = text THEN NoField ELSE c
  BY <1>3 DEF Keyboard!Call, NoField
<1> HIDE DEF taken, shown, text
<1>8. Keyboard!Edits' = {}
  BY <1>4 DEF Keyboard!Edits
<1>9. DoneIsOfNow'
  BY <1>4 DEF DoneIsOfNow
<1>10. crossed \in BOOLEAN /\ commands \in Seq(Command) /\ view \in Views /\ ui \in Uis
  BY DEF KeyboardInv, KeyboardTyped
<1>11. CASE Hears = text
  <2>1. ui' = taken /\ commands' = commands /\ crossed' = crossed
    BY <1>3, <1>4, <1>7, <1>10, <1>11 DEF Keyboard!Sync, NoField, text
  <2>2. KeyboardTyped'
    BY <1>2, <1>3, <1>4, <1>10, <2>1 DEF KeyboardTyped
  <2>3. ui'.open = open /\ ui'.has = Hears /\ ui'.edited = NoField
    BY <1>3, <2>1
  <2>4. Turns' = Turns /\ Owns' = Owns
    BY <2>1 DEF Turns, Owns
  <2>5. ViewFollows'
    BY <1>3, <1>4, <2>1, <2>3, <2>4 DEF KeyboardInv, ViewFollows, TurnsTo
  <2>6. Knows'
    <3>1. Hears' = Hears
      BY <1>8, <2>3 DEF Hears
    <3>2. Keyboard!Edits = {} => ui.has = Hears
      BY DEF Hears
    <3> QED
      BY <1>3, <1>4, <1>8, <2>1, <2>3, <2>4, <3>1, <3>2 DEF KeyboardInv, Knows
  <2>7. HasShown'
    BY <1>2, <1>11, <2>3 DEF HasShown
  <2> QED
    BY <1>2, <1>9, <2>2, <2>5, <2>6, <2>7 DEF KeyboardInv
<1>12. CASE Hears # text
  <2>1. c \in Command /\ c.kind = "update" /\ c.own /\ c.text = text
    <3>1. (input.kind = "type") \in {TRUE}
      BY <1>5, <1>12
    <3> QED
      BY <1>6, <3>1 DEF Command
  <2>2. c # NoField
    <3>1. DOMAIN NoField = {"nothing"} /\ "text" \in DOMAIN c
      BY DEF NoField, Keyboard!Nothing
    <3> QED
      BY <3>1
  <2> HIDE DEF c
  <2>3. ui' = [taken EXCEPT !.has = text] /\ commands' = Append(commands, c) /\ ~crossed'
        /\ crossed' \in BOOLEAN
    BY <1>3, <1>4, <1>7, <1>12, <2>1, <2>2 DEF Keyboard!Sync, NoField
  <2>4. ui' \in Uis /\ ui'.open = open /\ ui'.has = text /\ ui'.edited = NoField
    BY <1>3, <1>6, <2>3 DEF Uis
  <2>5. /\ commands' \in Seq(Command) /\ Turns' = Turns
        /\ IsLastOf(Len(commands) + 1, Owns') /\ Len(commands) + 1 \in Owns'
        /\ commands'[Len(commands) + 1] = c
        /\ \A i \in Turns : commands'[i] = commands[i]
    BY <2>1, <2>3, CommandsGrow DEF KeyboardInv
  <2>6. KeyboardTyped'
    BY <1>2, <1>4, <1>10, <2>3, <2>4, <2>5 DEF KeyboardTyped
  <2>7. ViewFollows'
    BY <1>3, <1>4, <2>4, <2>5 DEF KeyboardInv, ViewFollows, TurnsTo
  <2>8. Knows'
    BY <1>8, <2>1, <2>4, <2>5 DEF Knows
  <2>9. HasShown'
    BY <1>2, <2>4 DEF HasShown
  <2> QED
    BY <1>2, <1>9, <2>6, <2>7, <2>8, <2>9 DEF KeyboardInv
<1> QED
  BY <1>11, <1>12

LEMMA FrameKeeps ==
    ASSUME KeyboardInv, ~TouchAndBack, NEW input \in Keyboard!Inputs, Keyboard!Frame(input)
    PROVE  KeyboardInv'
<1>1. /\ Keyboard!FocusAfter(input) \in Field \cup {NoField} /\ ui.open \in Field \cup {NoField}
      /\ Keyboard!FocusAfter(input) = ui.open /\ ui.open # NoField => ~Keyboard!Heard("hidden")
  BY FocusIs DEF KeyboardInv, KeyboardTyped, Uis
<1>2. CASE Keyboard!FocusAfter(input) # ui.open
  BY <1>1, <1>2, FocusMoves
<1>3. CASE Keyboard!FocusAfter(input) = ui.open /\ ui.open = NoField
  BY <1>3, NoFieldStays
<1>4. CASE Keyboard!FocusAfter(input) = ui.open /\ ui.open \in Field
  BY <1>1, <1>4, FieldStays, NothingIsNoField
<1> QED
  BY <1>1, <1>2, <1>3, <1>4

LEMMA KeyboardStart == Keyboard!KeyboardInit => KeyboardInv
<1> SUFFICES ASSUME Keyboard!KeyboardInit PROVE KeyboardInv
  OBVIOUS
<1>1. /\ fields = [f \in Field |-> [text |-> Blank, saved |-> Blank, pending |-> FALSE]]
      /\ ui = [open |-> NoField, has |-> NoField, edited |-> NoField]
      /\ view = [editing |-> FALSE, text |-> Blank, reported |-> Blank, of |-> NoField]
      /\ commands = << >> /\ events = << >> /\ crossed = FALSE
  BY DEF Keyboard!KeyboardInit, NoField
<1>2. Blank \in Texts
  BY KeyboardAssumed DEF Keyboard!KeyboardAssumption
<1>3. KeyboardTyped
  <2>1. fields \in [Field -> Drafts]
    BY <1>1, <1>2 DEF Drafts
  <2>2. ui \in Uis
    BY <1>1 DEF Uis
  <2>3. view \in Views
    BY <1>1, <1>2 DEF Views
  <2> QED
    <3>1. commands \in Seq(Command) /\ events \in Seq(EventOf) /\ crossed \in BOOLEAN
      <4>1. << >> \in Seq(Command) /\ << >> \in Seq(EventOf)
        OBVIOUS
      <4> QED
        BY <1>1, <4>1
    <3> QED
      BY <2>1, <2>2, <2>3, <3>1 DEF KeyboardTyped
<1>4. ViewFollows
  BY <1>1 DEF ViewFollows, Turns
<1>5. Knows /\ HasShown /\ DoneIsOfNow
  BY <1>1 DEF Knows, HasShown, DoneIsOfNow
<1>6. DraftsArePending
  BY <1>1 DEF DraftsArePending
<1> QED
  BY <1>3, <1>4, <1>5, <1>6 DEF KeyboardInv

LEMMA KeyboardStep ==
    ASSUME ~TouchAndBack, KeyboardInv, [Keyboard!KeyboardNext]_(Keyboard!keyboardVars)
    PROVE  KeyboardInv'
<1>1. CASE Keyboard!KeyboardNext
  <2>1. ASSUME NEW t \in Texts, Keyboard!Compose(t) PROVE KeyboardInv'
    BY <2>1, ComposeKeeps
  <2>2. ASSUME NEW t \in Texts, Keyboard!Settle(t) PROVE KeyboardInv'
    BY <2>2, SettleKeeps
  <2>3. CASE Keyboard!Done
    BY <2>3, DoneKeeps
  <2>4. CASE Keyboard!Back
    BY <2>4, HiddenKeeps
  <2>5. CASE Keyboard!Run
    BY <2>5, RunKeeps
  <2>6. ASSUME NEW input \in Keyboard!Inputs, Keyboard!Frame(input) PROVE KeyboardInv'
    BY <2>6, FrameKeeps
  <2> QED
    BY <1>1, <2>1, <2>2, <2>3, <2>4, <2>5, <2>6 DEF Keyboard!KeyboardNext
<1>2. CASE UNCHANGED Keyboard!keyboardVars
  <2>1. UNCHANGED <<fields, ui, view, commands, events, crossed>>
    BY <1>2 DEF Keyboard!keyboardVars
  <2>2. Turns' = Turns /\ Owns' = Owns /\ Keyboard!Edits' = Keyboard!Edits /\ Hears' = Hears
        /\ Keyboard!Heard("hidden")' = Keyboard!Heard("hidden")
    BY <2>1 DEF Turns, Owns, Keyboard!Edits, Hears, Keyboard!LastEdit, Keyboard!Heard
  <2>3. KeyboardTyped' /\ HasShown' /\ DraftsArePending'
    BY <2>1 DEF KeyboardInv, KeyboardTyped, HasShown, DraftsArePending
  <2>4. ViewFollows' /\ Knows' /\ DoneIsOfNow'
    BY <2>1, <2>2 DEF KeyboardInv, ViewFollows, TurnsTo, Knows, DoneIsOfNow
  <2> QED
    BY <2>3, <2>4 DEF KeyboardInv
<1> QED
  BY <1>1, <1>2

LEMMA KeyboardOnly ==
    [AppNext]_<<part, vars, typing, looking>> => [Keyboard!KeyboardNext]_(Keyboard!keyboardVars)
BY DEF AppNext, typing, Keyboard!keyboardVars

(* With nothing on its way the two copies of the field agree.              *)
LEMMA RestIsSafe == KeyboardInv => Keyboard!KeyboardFollows /\ Keyboard!SameText
<1> SUFFICES ASSUME KeyboardInv, Keyboard!AtRest
             PROVE  Keyboard!KeyboardFollows /\ Keyboard!SameText
  BY DEF Keyboard!KeyboardFollows, Keyboard!SameText
<1>1. Turns = {} /\ Owns = {} /\ Keyboard!Edits = {} /\ ~Keyboard!Heard("hidden")
  BY DEF Keyboard!AtRest, Turns, Owns, Keyboard!Edits, Keyboard!Heard
<1>2. /\ view.editing => ui.open # NoField /\ view.of = ui.open
      /\ ~view.editing => ui.open = NoField
  BY <1>1 DEF KeyboardInv, ViewFollows
<1>3. view.editing /\ ~crossed => view.reported = fields[ui.open].text
  BY <1>1, <1>2 DEF KeyboardInv, Knows, HasShown, Hears
<1>4. view.editing \in BOOLEAN
  BY DEF KeyboardInv, KeyboardTyped, Views
<1> QED
  BY <1>2, <1>3, <1>4 DEF Keyboard!KeyboardFollows, Keyboard!SameText, NoField

LEMMA StepIsSafe ==
    ASSUME ~TouchAndBack, KeyboardInv, Keyboard!KeyboardNext
    PROVE  Keyboard!IntoItsField /\ Keyboard!DoneSaves
<1>1. CASE put' = NoField
  BY <1>1 DEF Keyboard!IntoItsField, Keyboard!DoneSaves, NoField
<1>2. ASSUME NEW input \in Keyboard!Inputs, Keyboard!Frame(input)
      PROVE  Keyboard!IntoItsField /\ Keyboard!DoneSaves
  <2> DEFINE settled == IF events # << >> /\ events[Len(events)].kind = "action"
                        THEN events[Len(events)] ELSE NoField
             edit == IF Keyboard!Fed.open = NoField THEN NoField ELSE Keyboard!Fed.edited
             target == Keyboard!FocusAfter(input)
  <2>1. put' = [edit |-> edit, into |-> Keyboard!Fed.open, settled |-> settled, input |-> input.kind]
    BY <1>2 DEF Keyboard!Frame, Keyboard!Last, NoField
  <2>2. Keyboard!Fed.open = ui.open
    BY HearsIs DEF KeyboardInv
  <2>3. ASSUME edit # NoField PROVE edit.met = ui.open
    <3>1. ui.open # NoField /\ edit = Keyboard!Fed.edited
      BY <2>2, <2>3
    <3> QED
      BY <2>3, <3>1, EditIsHeard
  <2>4. ASSUME settled # NoField, settled.clear, input.kind # "type"
        PROVE  fields'[settled.of].saved = settled.text
    <3>1. events # << >> /\ settled = events[Len(events)] /\ settled.kind = "action"
      BY <2>4
    <3>2. ui.open # NoField /\ settled.of = ui.open /\ settled.text = Hears
      BY <2>4, <3>1 DEF KeyboardInv, DoneIsOfNow
    <3>3. Keyboard!Heard("action")
      <4>1. Len(events) \in 1..Len(events)
        BY <3>1 DEF KeyboardInv, KeyboardTyped
      <4> QED
        BY <3>1, <4>1 DEF Keyboard!Heard
    <3>4. target # ui.open
      BY <1>2, <3>2, <3>3, FocusIs
    <3>5. ui.open \in Field
      BY <3>2 DEF KeyboardInv, KeyboardTyped, Uis
    <3>6. fields'[ui.open].saved = Hears
      BY <1>2, <2>4, <3>4, <3>5, CommittedIs DEF Keyboard!Frame
    <3> QED
      BY <3>2, <3>6
  <2> HIDE DEF edit, settled
  <2>5. put'.edit = edit /\ put'.into = ui.open /\ put'.settled = settled /\ put'.input = input.kind
    BY <2>1, <2>2
  <2>6. Keyboard!IntoItsField
    BY <2>3, <2>5 DEF Keyboard!IntoItsField, NoField
  <2>7. Keyboard!DoneSaves
    BY <2>4, <2>5 DEF Keyboard!DoneSaves, NoField
  <2> QED
    BY <2>6, <2>7
<1>3. put' = NoField \/ \E input \in Keyboard!Inputs : Keyboard!Frame(input)
  BY DEF Keyboard!KeyboardNext, Keyboard!Compose, Keyboard!Settle, Keyboard!Done, Keyboard!Back,
         Keyboard!Run, NoField
<1> QED
  BY <1>1, <1>2, <1>3

(* text_input.rs and TextInputView.java, for any fields and texts, unless  *)
(* the open field is touched in the frame that learns of Back: whenever    *)
(* nothing is on its way the keyboard is up for the field that is open and *)
(* has its text; what is put into a field was learned of while it was      *)
(* open; and Done saves what the keyboard showed.                          *)
THEOREM KeyboardIsSafe == ~TouchAndBack => (AppSpec => KeyboardSafe)
<1> SUFFICES ASSUME ~TouchAndBack PROVE AppSpec => KeyboardSafe
  OBVIOUS
<1> DEFINE Rests == Keyboard!KeyboardFollows /\ Keyboard!SameText
           Steps == Keyboard!IntoItsField /\ Keyboard!DoneSaves
<1>1. AppInit => KeyboardInv
  BY KeyboardStart DEF AppInit
<1>2. KeyboardInv /\ [AppNext]_<<part, vars, typing, looking>> => KeyboardInv'
  BY KeyboardStep, KeyboardOnly
<1>3. KeyboardInv => Rests
  BY RestIsSafe
<1>4. KeyboardInv /\ [AppNext]_<<part, vars, typing, looking>> => [Steps]_(Keyboard!keyboardVars)
  <2> SUFFICES ASSUME KeyboardInv, [AppNext]_<<part, vars, typing, looking>>,
                      ~ UNCHANGED Keyboard!keyboardVars
               PROVE  Steps
    OBVIOUS
  <2>1. Keyboard!KeyboardNext
    BY KeyboardOnly
  <2> QED
    BY <2>1, StepIsSafe
<1> QED
  BY <1>1, <1>2, <1>3, <1>4, PTL DEF AppSpec, KeyboardSafe, Keyboard!KeyboardSafe
=============================================================================
