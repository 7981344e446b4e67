------------------------------ MODULE AppFlow ------------------------------
(***************************************************************************)
(* The screens of the app and what leads from one to another: the stack of *)
(* app/nav.rs, what a navigation does to it (app/routing.rs), the frame    *)
(* that draws the screen on top (app.rs, app/shell.rs), the input of the   *)
(* device (app/device.rs), and the state that the screens on the way from  *)
(* a title to a film keep between visits: the media page and its trailers, *)
(* the torrents page with its hits and its list of files, and the film.    *)
(*                                                                         *)
(* There is one media page, one torrents page and one film in memory,      *)
(* whatever the number of screens of the stack that stand for them.        *)
(***************************************************************************)
EXTENDS Naturals, Sequences, SequencesExt

CONSTANTS
    Titles, Releases,
    None,
    Tv,        \* the profile of a TV: a remote, voice, and the player always fills the screen
    Pages,     \* the pages besides Home, Search and those of a title
    Editable,  \* the servers whose addresses the user changes
    MaxStack   \* bound on the screens of the stack

Servers == {"parser", "torrserver"}

ASSUME AppFlowAssumption ==
    /\ Tv \in BOOLEAN
    /\ Pages \subseteq {"library", "discover", "person"}
    /\ None \notin Titles \cup Releases
    /\ Editable \subseteq Servers
    /\ MaxStack \in Nat \ {0}

VARIABLES
    nav,         \* Nav::stack
    drawn,       \* the screen on top has been drawn since it came there
    panel,       \* the settings drawer, over every screen
    urls,        \* which of the parser and TorrServer have an address
    media,       \* MediaScreen, with its TrailersModal
    torr,        \* TorrentsScreen and its TorrentState
    tags,        \* the title whose watched releases are being looked up
    film         \* PlayerScreen::phase

vars == <<nav, drawn, panel, urls, media, torr, tags, film>>
pages == <<media, torr, tags, film>>
chrome == <<panel, urls>>

Drawer == {"shut", "open", "closing"}

Screen(at, of) == [at |-> at, of |-> of]
Home == Screen("home", None)
Search == Screen("search", None)

Screens == [at : {"home", "search"} \cup Pages, of : {None}]
             \cup [at : {"media", "torrents", "player"}, of : Titles]

Top == Last(nav)
On(at) == Top.at = at

NoJob == [st |-> "idle", of |-> None]

FreshMedia(of) == [of |-> of, data |-> "none", over |-> "none"]

(* from_details, and the binds that ensure_open replaces *)
FreshTorrents(of) ==
    [of |-> of, hits |-> "loading", hitsOf |-> None, marks |-> None, job |-> NoJob,
     files |-> "closed", shown |-> None, pending |-> None, open |-> NoJob,
     filters |-> "shut", onScreen |-> FALSE]

Init ==
    /\ nav = <<Home>>
    /\ drawn = FALSE
    /\ panel = "shut"
    /\ urls \in SUBSET Servers
    /\ media = FreshMedia(None)
    /\ torr = FreshTorrents(None)
    /\ tags = None
    /\ film = None

-----------------------------------------------------------------------------
(***************************************************************************)
(* The stack.                                                              *)
(***************************************************************************)
Pushed(stack, s) == IF Last(stack) = s THEN stack ELSE Append(stack, s)

(* Mutant: nothing keeps Home at the bottom. *)
PoppedAlways(stack) == Front(stack)

Popped(stack) == IF Len(stack) > 1 THEN Front(stack) ELSE stack

SwitchedTop(stack, s) == Pushed(<<Head(stack)>>, s)

(* The stack becomes `to`; what is on top then has to be drawn. *)
Go(to) ==
    /\ Len(to) <= MaxStack
    /\ nav' = to
    /\ drawn' = (drawn /\ to = nav)

Stay == UNCHANGED <<nav, drawn>>

ShowsRail == Top.at \in {"home", "library", "discover", "search"}

(* Nothing of the screen on top that is in front of its header is open. *)
NoModal == ~ (On("torrents") /\ torr.files # "closed") /\ ~ (On("media") /\ media.over \in {"list", "resolving", "failed"})

(* The header is there, and can be reached. *)
HeaderFree == drawn /\ NoModal /\ ~ (Tv /\ On("player"))

(* The page can be reached, its modals included. *)
PageFree == drawn /\ panel = "shut"

-----------------------------------------------------------------------------
(***************************************************************************)
(* A frame draws the screen on top.  The first one after it came there     *)
(* takes in what is new; the pages away from a torrents page hide it.      *)
(***************************************************************************)
DrawMedia ==
    /\ On("media")
    /\ media' = [(IF media.of = Top.of THEN media ELSE FreshMedia(Top.of))
                    EXCEPT !.data = IF @ = "none" THEN "loading" ELSE @]

DrawTorrents ==
    /\ On("torrents")
    /\ torr' = [torr EXCEPT !.onScreen = TRUE]
    /\ tags' = IF torr.of = Top.of /\ ~torr.onScreen THEN torr.of ELSE tags

Hide == torr' = [torr EXCEPT !.onScreen = FALSE, !.filters = "shut"]

Draw ==
    /\ ~drawn
    /\ drawn' = TRUE
    /\ \/ DrawMedia /\ Hide /\ UNCHANGED <<tags, film>>
       \/ DrawTorrents /\ UNCHANGED <<media, film>>
       \/ On("player") /\ UNCHANGED pages
       \/ Top.at \notin {"media", "torrents", "player"} /\ Hide /\ UNCHANGED <<media, tags, film>>
    /\ UNCHANGED <<nav, chrome>>

(* An animation ends: the drawer is gone. *)
DrawerGone ==
    /\ \/ panel = "closing" /\ panel' = "shut" /\ UNCHANGED torr
       \/ /\ torr.filters = "closing"
          /\ torr' = [torr EXCEPT !.filters = "shut"]
          /\ UNCHANGED panel
    /\ Stay
    /\ UNCHANGED <<urls, media, tags, film>>

-----------------------------------------------------------------------------
(***************************************************************************)
(* Navigation.                                                             *)
(***************************************************************************)
Toggled(drawer) == IF drawer = "open" THEN "closing" ELSE "open"

OpenSettings ==
    /\ HeaderFree
    /\ panel' = Toggled(panel)
    /\ Stay
    /\ UNCHANGED <<urls, pages>>

EditUrl ==
    /\ panel = "open"
    /\ \E server \in Editable :
         urls' = IF server \in urls THEN urls \ {server} ELSE urls \cup {server}
    /\ Stay
    /\ UNCHANGED <<panel, pages>>

(* The side menu: what was above Home is gone. *)
OpenRail ==
    /\ PageFree /\ ShowsRail
    /\ \E at \in {"home"} \cup (Pages \cap {"library"}) : Go(SwitchedTop(nav, Screen(at, None)))
    /\ UNCHANGED <<chrome, pages>>

OpenPage ==
    /\ PageFree /\ NoModal
    /\ \E page \in Pages :
         /\ Top.at \in (IF page = "person" THEN {"media", "search"} ELSE {"home"})
         /\ Go(Pushed(nav, Screen(page, None)))
    /\ UNCHANGED <<chrome, pages>>

Searched(stack) == IF Last(stack) = Search THEN stack ELSE Append(stack, Search)

(* Typed into the header, or heard: a TV listens on every screen, with *)
(* whatever is open over it.                                           *)
OpenSearch ==
    /\ HeaderFree \/ Tv
    /\ Go(Searched(nav))
    /\ UNCHANGED <<chrome, pages>>

(* MediaScreen::seed: another title starts over, and no trailers stay open. *)
Seeded(t) ==
    [(IF media.of = t THEN media ELSE FreshMedia(t)) EXCEPT !.over = "none"]

OpenMedia(t) ==
    /\ PageFree /\ NoModal
    /\ Top.at \notin {"torrents", "player"}
    /\ Go(Pushed(nav, Screen("media", t)))
    /\ media' = Seeded(t)
    /\ UNCHANGED <<chrome, torr, tags, film>>

(* Mutant: a page of another title takes over what was on its way. *)
EnsuredKeepsJob(t) ==
    IF torr.of = t THEN torr ELSE [FreshTorrents(t) EXCEPT !.onScreen = torr.onScreen, !.job = torr.job]

(* TorrentsScreen::ensure_open *)
Ensured(t) == IF torr.of = t THEN torr ELSE [FreshTorrents(t) EXCEPT !.onScreen = torr.onScreen]

WatchTorrents ==
    /\ PageFree /\ NoModal
    /\ On("media")
    /\ media.data = "ready"
    /\ Go(Pushed(nav, Screen("torrents", Top.of)))
    /\ torr' = Ensured(media.of)
    /\ UNCHANGED <<chrome, media, tags, film>>

-----------------------------------------------------------------------------
(***************************************************************************)
(* Back.  Each disjunct is a layer, in the order in which they take it.    *)
(***************************************************************************)
(* What leaving the player does: the film stops, and a torrents page looks *)
(* up again which of its releases were watched.                            *)
LeftPlayer(stack) ==
    /\ Go(Popped(stack))
    /\ film' = None
    /\ tags' = IF Last(Popped(stack)).at = "torrents" /\ torr.of # None THEN torr.of ELSE tags

(* A page of the drawer is left before the drawer closes, and a drawer that *)
(* is closing swallows Back.                                                *)
BackInSettings ==
    /\ panel # "shut"
    /\ panel' \in (IF panel = "open" THEN {"open", "closing"} ELSE {panel})
    /\ Stay
    /\ UNCHANGED pages

BackInMedia ==
    /\ On("media") /\ media.over # "none"
    /\ media' = [media EXCEPT !.over = "none"]
    /\ Stay
    /\ UNCHANGED <<torr, tags, film>>

(* The filters drawer of Discover, or on a TV the side menu of a page that *)
(* was opened from it, may take Back first.                                *)
BackInDiscover == On("discover") /\ Stay /\ UNCHANGED pages

BackToRail == Tv /\ Top.at \in {"home", "library"} /\ Stay /\ UNCHANGED pages

(* Asked on every screen, whichever is on top. *)
BackInTorrents ==
    /\ torr.files # "closed" \/ torr.filters # "shut"
    /\ torr' = IF torr.files # "closed" THEN [torr EXCEPT !.files = "closed"]
               ELSE [torr EXCEPT !.filters = "closing"]
    /\ Stay
    /\ UNCHANGED <<media, tags, film>>

GoBack ==
    \/ BackInSettings
    \/ /\ panel = "shut"
       /\ UNCHANGED panel
       /\ \/ On("player") /\ LeftPlayer(nav) /\ UNCHANGED <<media, torr>>
          \/ BackInMedia
          \/ BackInDiscover
          \/ /\ ~On("player") /\ ~ (On("media") /\ media.over # "none")
             /\ \/ BackInTorrents
                \/ /\ torr.files = "closed" /\ torr.filters = "shut"
                   /\ BackToRail \/ (Go(Popped(nav)) /\ UNCHANGED pages)

(* Escape, or Back of the remote, when neither the onboarding is open nor a *)
(* text field, a dropdown or the microphone takes it.                       *)
Back ==
    /\ drawn
    /\ GoBack
    /\ UNCHANGED urls

-----------------------------------------------------------------------------
(***************************************************************************)
(* The media page.                                                         *)
(***************************************************************************)
MediaArrives ==
    /\ media.data = "loading"
    /\ \E data \in {"ready", "failed"} : media' = [media EXCEPT !.data = data]
    /\ Stay
    /\ UNCHANGED <<chrome, torr, tags, film>>

(* The buttons of the page, of the menu of lists and of the trailers, one *)
(* of which is over the page at a time.                                   *)
UseMedia ==
    /\ PageFree /\ On("media")
    /\ \/ NoModal /\ media.data = "failed" /\ media' = [media EXCEPT !.data = "loading"]
       \/ /\ NoModal /\ media.data = "ready"
          /\ \E over \in {"lists", "list"} : media' = [media EXCEPT !.over = over]
       \/ media.over \in {"list", "failed"} /\ media' = [media EXCEPT !.over = "resolving"]
       \/ media.over # "none" /\ media' = [media EXCEPT !.over = "none"]
    /\ Stay
    /\ UNCHANGED <<chrome, torr, tags, film>>

TrailerFails ==
    /\ drawn /\ On("media") /\ media.over = "resolving"
    /\ media' = [media EXCEPT !.over = "failed"]
    /\ Stay
    /\ UNCHANGED <<chrome, torr, tags, film>>

(* take_pending_play comes before the navigation of the frame: the player  *)
(* is on top of the stack when Back or a search takes effect.              *)
StartFilm(of, rel) ==
    LET stack == Pushed(nav, Screen("player", of)) IN
    \/ /\ \E to \in {stack, Searched(stack)} : Go(to)
       /\ film' = [of |-> of, rel |-> rel, playing |-> TRUE]
       /\ UNCHANGED tags
    \/ LeftPlayer(stack)

(* The address of the trailer is there: only its own page looks for it. *)
TrailerPlays ==
    /\ drawn /\ On("media") /\ media.over = "resolving"
    /\ StartFilm(media.of, None)
    /\ media' = [media EXCEPT !.over = "list"]
    /\ UNCHANGED <<chrome, torr>>

-----------------------------------------------------------------------------
(***************************************************************************)
(* The torrents page.                                                      *)
(***************************************************************************)
(* TorrentState::matches, and the rest of TorrentsScreen::ui with it *)
TorrentsShown == drawn /\ On("torrents") /\ torr.of = Top.of

OnlyTorrents == Stay /\ UNCHANGED <<chrome, media, film>>

ApplyLocalHits ==
    /\ TorrentsShown /\ tags # None
    /\ tags' = None
    /\ torr' = IF torr.of = tags /\ torr.hits = "ready" THEN [torr EXCEPT !.marks = tags] ELSE torr
    /\ OnlyTorrents

(* A search or a release in the background is done, well or not. *)
JobDone ==
    /\ \E job \in {"job", "open"}, st \in {"ok", "err"} :
         /\ torr[job].st = "run"
         /\ torr' = [torr EXCEPT ![job].st = st]
    /\ OnlyTorrents
    /\ UNCHANGED tags

Settled(job) == job.st \in {"ok", "err"}

SetHits(hits, of) == [torr EXCEPT !.hits = hits, !.hitsOf = of, !.marks = None]

PollHits ==
    /\ TorrentsShown
    /\ \/ "parser" \notin urls /\ torr' = SetHits("noparser", None)
       \/ /\ "parser" \in urls
          /\ ~ (Settled(torr.job) /\ torr.hits # "loading")
          /\ \/ torr.job.st = "idle" /\ torr' = [torr EXCEPT !.job = [st |-> "run", of |-> torr.of]]
             \/ torr.job.st = "ok" /\ torr' = SetHits("ready", torr.job.of)
             \/ torr.job.st = "err" /\ torr' = SetHits("failed", None)
    /\ OnlyTorrents
    /\ UNCHANGED tags

(* Retry on the error in place of the hits. *)
RefreshHits ==
    /\ TorrentsShown /\ PageFree /\ NoModal
    /\ torr.hits \in {"failed", "noparser"}
    /\ torr' = [torr EXCEPT !.job = NoJob, !.hits = "loading"]
    /\ OnlyTorrents
    /\ UNCHANGED tags

Asked(rel) ==
    [torr EXCEPT !.files = "loading", !.pending = rel, !.open = [st |-> "run", of |-> rel]]

Refused == [torr EXCEPT !.files = "failed"]

PickTorrent(rel) ==
    /\ TorrentsShown /\ PageFree /\ NoModal /\ torr.filters = "shut"
    /\ torr.hits = "ready"
    /\ torr' = IF "torrserver" \in urls THEN Asked(rel) ELSE Refused
    /\ OnlyTorrents
    /\ UNCHANGED tags

RetryFiles ==
    /\ TorrentsShown /\ PageFree
    /\ torr.files = "failed" /\ torr.pending # None
    /\ torr' = IF "torrserver" \in urls THEN Asked(torr.pending) ELSE Refused
    /\ OnlyTorrents
    /\ UNCHANGED tags

PollOpened ==
    /\ TorrentsShown
    /\ torr.files = "loading" /\ Settled(torr.open)
    /\ torr' = IF torr.open.st = "ok"
               THEN [torr EXCEPT !.files = "ready", !.shown = torr.open.of]
               ELSE Refused
    /\ OnlyTorrents
    /\ UNCHANGED tags

CloseFiles ==
    /\ TorrentsShown /\ PageFree /\ torr.files # "closed"
    /\ torr' = [torr EXCEPT !.files = "closed"]
    /\ OnlyTorrents
    /\ UNCHANGED tags

(* "Open settings" on an error of the hits or of the files. *)
FixInSettings ==
    /\ TorrentsShown /\ PageFree
    /\ torr.files = "failed" \/ (NoModal /\ torr.hits \in {"failed", "noparser"})
    /\ torr' = [torr EXCEPT !.files = "closed"]
    /\ panel' = "open"
    /\ Stay
    /\ UNCHANGED <<urls, media, tags, film>>

ToggleFilters ==
    /\ TorrentsShown /\ PageFree /\ NoModal
    /\ torr' = [torr EXCEPT !.filters = Toggled(@)]
    /\ OnlyTorrents
    /\ UNCHANGED tags

PickFile ==
    /\ TorrentsShown /\ PageFree
    /\ torr.files = "ready"
    /\ StartFilm(torr.of, torr.shown)
    /\ UNCHANGED <<chrome, media, torr>>

-----------------------------------------------------------------------------
(***************************************************************************)
(* The film.                                                               *)
(***************************************************************************)
OnlyFilm == Stay /\ UNCHANGED <<chrome, media, torr, tags>>

(* Paused or resumed, once it has buffered: only with the player on top. *)
PlayerCommand ==
    /\ On("player") /\ film # None
    /\ film' = [film EXCEPT !.playing = ~@]
    /\ OnlyFilm

(* What another app on top makes of the film *)
Backgrounded == IF On("player") THEN [film EXCEPT !.playing = FALSE] ELSE film

PauseInBackground ==
    /\ Tv /\ film # None
    /\ film' = Backgrounded
    /\ OnlyFilm

-----------------------------------------------------------------------------
Navigation ==
    \/ OpenSettings \/ EditUrl
    \/ OpenRail \/ OpenPage \/ OpenSearch
    \/ (\E t \in Titles : OpenMedia(t))
    \/ WatchTorrents \/ Back

Next ==
    \/ Draw \/ DrawerGone \/ Navigation
    \/ MediaArrives \/ UseMedia \/ TrailerFails \/ TrailerPlays
    \/ ApplyLocalHits \/ JobDone \/ PollHits \/ RefreshHits \/ PollOpened \/ RetryFiles
    \/ CloseFiles \/ FixInSettings \/ ToggleFilters \/ PickFile
    \/ (\E rel \in Releases : PickTorrent(rel))
    \/ PlayerCommand \/ PauseInBackground

Spec == Init /\ [][Next]_vars

-----------------------------------------------------------------------------
(***************************************************************************)
(* Properties.                                                             *)
(***************************************************************************)
Job(of) == [st : {"idle", "run", "ok", "err"}, of : of \cup {None}]

(* The state of the app is what its types in Rust say it is (App, Nav, *)
(* MediaScreen, TrailersModal, TorrentsScreen, PlayerPhase).           *)
TypeOK ==
    /\ nav \in Seq(Screens) /\ nav # <<>> /\ Len(nav) <= MaxStack
    /\ drawn \in BOOLEAN
    /\ panel \in Drawer
    /\ urls \subseteq Servers
    /\ media \in [of : Titles \cup {None}, data : {"none", "loading", "ready", "failed"},
                  over : {"none", "lists", "list", "resolving", "failed"}]
    /\ torr \in [of : Titles \cup {None}, hits : {"loading", "ready", "failed", "noparser"},
                 hitsOf : Titles \cup {None}, marks : Titles \cup {None}, job : Job(Titles),
                 files : {"closed", "loading", "ready", "failed"}, shown : Releases \cup {None},
                 pending : Releases \cup {None}, open : Job(Releases), filters : Drawer, onScreen : BOOLEAN]
    /\ tags \in Titles \cup {None}
    /\ film \in {None} \cup [of : Titles, rel : Releases \cup {None}, playing : BOOLEAN]

(* A torrents page is opened from the page of its title and a player from a *)
(* page of its film's title, so that Back always leads to where the user    *)
(* came from, whatever the one media page in memory has shown meanwhile.    *)
StackShape ==
    /\ nav[1] = Home
    /\ \A i \in 2..Len(nav) :
         LET below == nav[i - 1] IN
         /\ nav[i].at = "torrents" => below = Screen("media", nav[i].of)
         /\ nav[i].at = "player" => below.at \in {"media", "torrents"} /\ below.of = nav[i].of

Players == {i \in 1..Len(nav) : nav[i].at = "player"}

(* A film that plays under a player screen plays under the topmost one, and *)
(* it is of its title: leaving that screen stops it.                        *)
FilmOnTopmostPlayer ==
    film # None /\ Players # {} => nav[CHOOSE i \in Players : \A j \in Players : j <= i].of = film.of

(* The list of files is the answer to the last request, never the late one  *)
(* to an earlier pick, and hits and marks are of the title of the page.     *)
ListsOfTheirTitle ==
    /\ torr.files = "ready" => torr.shown = torr.pending /\ torr.pending # None
    /\ torr.hits = "ready" => torr.hitsOf = torr.of
    /\ torr.marks \in {None, torr.of}

(* The title on screen is the one in memory once the page is drawn; only a  *)
(* torrents page can lag behind its screen (and then shows a spinner).      *)
MemoryFollowsScreen == drawn /\ On("media") => media.of = Top.of /\ media.data # "none"

(* The safety of the way from a title to a film and back. *)
FlowSafe == StackShape /\ FilmOnTopmostPlayer /\ ListsOfTheirTitle /\ MemoryFollowsScreen

(* app/device.rs:10, "Home button or another app on top: the film should not *)
(* keep playing unseen": whatever is on top of the film's player.            *)
NoFilmUnseen == Tv /\ film # None => ~Backgrounded.playing
=============================================================================
