# Cinebox in TLA+

Formal models of Cinebox, a Rust client (desktop and Android TV) that browses
films and shows from TMDB, searches torrents through a parser (Jackett or
Prowlarr), streams them through TorrServer and plays them with libmpv or
ExoPlayer. The models are translated from the code of this repository; file
names below are relative to `src/cinebox/src` (the app) or `src/crates`.

Contents: [how to run](#how-to-run), [inventory](#inventory),
[modules](#the-modules), [runs](#the-runs), [fairness](#fairness),
[proofs](#the-proofs), [findings](#findings),
[settings under which a property fails](#settings-under-which-a-property-fails),
[what is not modelled](#what-is-not-modelled), [plan](#plan).

## How to run

    tlc -config PositionSync_calm.cfg MCPositionSync.tla     # a run
    tlapm ImageCacheProofs.tla                               # the proofs of a module

A configuration is named after the module it is about and the question it
asks, or after what its run is about where several modules share one. Three
runs are expected to end in a counterexample (see Findings). The largest run
has 1.2 million distinct states and the longest takes about three minutes.
Definitions under a comment that starts with "Mutant:" are the code with a
plausible mistake; they show that each property can fail, and nothing uses
them. `PROJECT.json` maps every definition to the lines it models.

## Inventory

The app is one process. The **UI thread** draws frames (`App::logic`, then
`App::ui`); its state is plain fields, with no locks. Slow work runs as tasks
on a tokio runtime: a screen holds a `Bind` (egui-async) that starts a future
and is read in later frames; dropping or clearing a `Bind` drops the answer but
the task runs on. The tasks share one SQLite pool of four connections; for its
own writes the UI thread blocks on the pool (`db_block_on`). On Android the
player lives on a third thread, the main thread of the activity. Outside the
process there are TorrServer (with other clients), TMDB, the parsers, and
sometimes a second instance of the app on the same files.

| Component | State | Operations | Interacts through |
|---|---|---|---|
| Watch positions and TorrServer sync (`screens/player/progress.rs`, `services/jobs/{torrents,torrserver_sync}.rs`, `cinebox-core/src/db/{torrserver,watch}.rs`, `cinebox-torrserver/src/viewed.rs`) | tables of positions, of what was seen or sent, and of the server they are about; `/viewed` on the server | save (a database half and a request half), open a torrent, sync pass | SQLite statements and HTTP requests, each an await |
| Player screen (`screens/player.rs`, `player/{buffering,progress}.rs`) | phase and its state, last save, pending preload wait | start, stop, tick, toggle, seek, nudge, skip, jump to a file | polls the video player's fields once a frame, spawns saves and waits |
| Video player (`cinebox-android/src/player.rs`, `VideoPlayer.java`; `cinebox-player/src/mpv.rs`) | the loaded stream; six published fields | load, stop, seek, pause; publish | commands posted to the main thread, fields read one by one |
| Image cache (`services/images.rs`) | textures, bytes, epoch, pending, failed, results channel | look up, fetch, poll, trim after the frame, clear | a channel from tasks to the UI thread, the image table |
| TMDB cache (`cinebox-core/src/db/cache.rs`) | pages, references, image blobs by rowid | put, get, collect, clear, maintenance at boot | statements of many tasks on one pool |
| User lists (`services/library.rs`, `cinebox-core/src/db/library.rs`, `services.rs`) | a mirror in memory and a table | set status, like, mark as watched on play, read at start | mirror first, table after it, failure only logged |
| Opening the database (`cinebox-core/src/db.rs`) | the file, its migrations | connect, migrate, remove and start again | the file system, a second instance |
| App shell (`app.rs`, `app/*`) | stack of screens, the settings drawer, the frame's events | push, pop, switch, back, take a play request | calls every screen; starts a sync on entering Home, polls images, ticks the player only while it is on top |
| Torrents screen, media page (`screens/torrents*`, `screens/media*`) | one state for one title, search and open jobs | search, filter, open a torrent, pick a file, go back | one instance under possibly several screens of the stack |
| Swr cache, paged grids (`screens/{swr,paged}.rs`) | live request, disk snapshot, language; items and next page | hydrate, resolve, retry, invalidate; request, take, reset | `Bind` against disk and network |
| Browse screens (`screens/*.rs`) | one Swr cache or grid each | paint, seed, follow the language, the key and the network | as above |
| Settings and onboarding (`cinebox-core/src/settings.rs`, `services/settings_input.rs`, `screens/{settings,onboarding}*`) | a file, the settings in use, the step of the wizard, its checks | load, save, edit, check a server, walk, finish | a file written in place; checks answer late |
| Discovery, presets (`services/discovery.rs`, `cinebox-core/src/presets.rs`) | found servers, presets of a day | scan (2 s), ping (5 s), rank | mDNS, HTTP |
| Skip segments (`screens/player/skip*.rs`, `cinebox-skip`) | segments of the current file, what was skipped, the choices of a title | load, merge, offer, skip, cancel | HTTP, chapters of the player, a table |
| Preload of TorrServer (`cinebox-torrserver/src/{stream,cache}.rs`) | the poll of one wait | begin, poll, abort | poll against trigger; readers of other devices |
| TorrServer client (`cinebox-torrserver`) | none between calls | list, add, viewed, cache, stream | HTTP |
| HTTP client (`cinebox-net`) | a client for each set of settings, what its resolvers remember | proxy, direct, DoH, fall back | resolvers answer at different times, requests share a client |
| Text input (`platform/text_input.rs`, `widgets/field.rs`, `TextInputView.java`) | a copy of the field on each of two threads | open, edit, Done, Back | a queue each way |
| Focus (`widgets/focus*`, `widgets/{drawer,combo,flyout}.rs`) | the fields of the hook, what popups are open | before a frame, during, after | egui's memory of two frames |
| Indexer, TMDB, YouTube, typograf | caches of a run at most | parsing and mapping | pure, over HTTP |
| Rest of the Android bridge (`cinebox-android`, the Java classes) | queue of device events, speech, media session | post, take | JNI, two threads |
| Other widgets, platform, theme, i18n | scroll of a frame | paint | the frame |

What makes each of them correct, and where it is hard:

- **Positions.** A file resumes where it was left, here or in another client.
  The position exists four times (local row, seen row, server row, screen) and
  is written by jobs that interleave at every await; requests fail, time out
  and arrive late; zero means "none", "not stored" and "the start".
- **Player.** What a tick reads must be about the file on screen: commands are
  posted, fields are published later and read one by one. An end hands over
  only once; a file opened at its end starts over; a wait that is not waited
  for any longer is stopped.
- **Images.** A tile never says Loading for good; memory stays in the budget; a
  clear does not confuse what was started before it with what comes after.
- **TMDB cache.** Statements of several puts interleave and the images still fit
  their budget, coldest out first; a kill between statements is repaired at the
  next boot.
- **Lists.** What the user chose is what a restart shows, in the same order,
  although mirror and table change by different rules and clocks.
- **Database.** What `open` returns has all tables, and only a file of the old
  format is thrown away.
- **Shell.** Back leads from every screen to the one it was opened from,
  although one media page, one torrents page and one film stand for all screens
  of the stack, and answers arrive after the title has changed.
- **Pages and grids.** What is painted is of the subject and language on screen;
  nothing stale stands without a request; pages are appended in order.
- **Settings.** The disk has what is shown; a kill in the middle of a save costs
  no more than it must; a verdict is about the value it stands beside.
- **Skips and waits.** A countdown skips only what was asked for, once, in this
  file; a wait ends within its budget and leaves nothing on the server.
- **Network.** A request goes past the proxy or the system's resolver only if
  its settings let it, and tries all that is known.
- **Text and focus.** Two copies of a field agree although edits cross; the
  remote never acts under a popup, and comes back from it.

Every concrete hazard has an entry in `PROJECT.json` with its line and the
properties that watch it, or the reason why none does. Five have none: the order
of two writes of one timeline row, fields that still tell of the file before
when a tick reads them, a save that comes within ten seconds of the
save of another title, the timeout of a stalled YouTube stream, and a start that
cannot read the lists.

## The modules

Nearly every module is a state machine: the state as VARIABLES, one action per
handler or per piece of it between two awaits, `Next`, `Spec`, and `FairSpec`
where liveness is checked. MC modules give the constants of a run their values;
Proofs modules hold theorems and use nothing but the module they are about:
`KeptProofs`, `PlaybackProofs` and `DataProofs` a composition (below) and the
machines in it, the others a module of the code.

Four MC modules host several machines that share no state, because one question
("what does the app keep?") is asked of all of them: `MCKept`, `MCData`,
`MCPlayback` and `MCAppFlow`. A variable `part` says which of them a behaviour
is about; the others rest. It is a disjoint union of state spaces, not a product,
and each property speaks of its part.

### PositionSync

*Code:* `save_progress`; `open_magnet`, `decorate_files`, `resume_timecode`;
`sync_from_server`, `import_positions`; the statements of `db/torrserver.rs` and
`db/watch.rs` they use; `is_foreign_timecode`, `merge_timecode`, `viewed_set`.

| Variable | Code |
|---|---|
| `timeline` | `watch_timeline`, the local position by key (the number of the episode, or none) |
| `seen`, `origin` | `torrserver_viewed_seen` and the server it is bound to |
| `viewed` | the rows of `/viewed` of each server; the writer of a row is kept for the properties only |
| `url`, `synced` | the settings the jobs read when they start |
| `save`, `send` | the two tasks each call of `save_progress` spawns: the statements in order, and the request |
| `open`, `sync` | the job that opens a torrent and the sync pass, with what each has read so far |
| `left` | what is left of the bounds on plays, moves of other clients, and settings changed |

A step is what runs between two awaits. `Save` is the synchronous call, then
`SaveTimeline` and `SaveSeen` are its statements and `Deliver` or `Lose` its
request, in any order with them. A pass is `SyncStart`, `SyncBind`, `SyncList`
(it reads `/viewed` once), `SyncSeen` (the rows of `seen`, much later), then
`SyncImport` and `SyncMark` for each file in the order of `Imported::order`, and
`SyncDone`, or `SyncFail` anywhere. Opening is `OpenStart` .. `OpenDone`
likewise. `Move` is another client. The constants `MayOverlap`, `MayLose`,
`MaySwitch`, `BoundBefore` say which troubles a run has; the code has them all.

The history rows and cards a pass writes, the search by name of a torrent
without a card, and the choice of the torrents to look at are left out: they
decide nothing about positions.

### VideoPlayer and PlayerScreen

*Code:* `VideoPlayer.java`, `cinebox-android/src/player.rs` (and `mpv.rs` for
what differs); `screens/player.rs`, `player/progress.rs`, `player/buffering.rs`.

`VideoPlayer` is three parties: the `queue` of commands posted to the main
thread, `exo` (the player behind it: which file, where, in which state), and the
published fields `shown`, with the `writes` that are still to come when fields
are written one by one (`Torn`). `MasksStart` tells ExoPlayer, which reports the
start point of a file while it opens, from libmpv, which reports no time.

`PlayerScreen` EXTENDS it with the screen: phase and its state (`screen`), the
positions of the files (`timecode`), whether the last save was less than ten
seconds ago (`recent`), the running preload tasks (`waits`). The methods of the
screen are operators from a world (what they read and write) to a world, so that
`tick` calling `track_tail` calling `next_file` calling `save_progress` is one
step, as it is in the code. Only `tick` is split in three, `TickFlags`,
`TickPosition`, `TickRest`, because between its reads the other thread writes.
`looked`, `asked` and `exo.early` are history that properties and `Prompt` use.

A search may be opened over the player (`Cover`), which leaves it as it is: it
is not ticked while it is `covered`, and Back shows it again (`Uncover`) or
another film is started over it (`Start`), whatever it was left in, a preload
wait that runs included. That is the case `begin_load` aborts the wait for. A
stream may fail at any time (`Fails`): while it opens, or later, when the player
keeps the position it had.

`Prompt` lets a frame run only when the main thread is done with everything
posted and published, which is what the screen's code takes for granted.
YouTube sources with their stall timeout, volume, tracks and popups are left out.

### ChapterMarks and SkipSegments

*Code:* `cinebox-skip` (chapters, the provider); `screens/player/skip.rs` and the
calls the screen makes of it; the table of choices.

`ChapterMarks` is the pure part: which ranges the chapters of a file give
(`SegmentsFromChapters`, a fold), which answers of the provider are of this cut,
and a second definition of the first, chapter by chapter (`MarksAreRead`), that
it is checked against. `SkipSegments` EXTENDS it with `skip` (SkipState), `play`
(the file and the playhead), the `table` and the `saves` on their way to it.
`Late` is the player of Android, whose duration may be that of the file before;
`AutoNext` is the setting without which a skip past the end seeks, as in
`skip_or_next`.

### PreloadWait

*Code:* `stream.rs` and `cache.rs` of `cinebox-torrserver`, `begin_load`,
`abort_buffering`.

`wait` is the task (waiting for the head of a file, opening a range, polling, how
it ended), `server` the torrent: the set of its readers, any of which may be
listed first, and its pieces. With `MayShare` another device reads it too. `PlayerScreen` sees of all this the
single action `WaitEnds`.

### ImageCache

*Code:* all of `services/images.rs`, `load_image` included.

`textures` (URL to the epoch it was last shown in), `resident` bytes, `epoch`,
`pending` and `failed` are the fields; a `task` is a fetch at the table, at the
network or keeping what it downloaded; `channel` holds the results in order.
`Lookup` is a tile that paints, `Poll` takes one result (the code takes all that
are there; one at a time includes that), `EndFrame` is `end_frame` with its
trim, `ClearImages` and `ClearTmdbCache` are the two clears, `RowGoes` is the
image table dropping a row under its own budget. A fetch whose row is missing, or
cannot be read, goes on to the network (`ReadTable`).

### TmdbStore

*Code:* all of `db/cache.rs`, and maintenance at boot.

`images` has, of each stored image, when it was fetched and last read; `order` is
the order of the rowids, as pairs; `Bytes` is `SUM(LENGTH(bytes))`, counted as the
size of a set (see Image table below).
Each operation is its statements: `PutImage` (INSERT OR REPLACE, which puts the
row last in rowid order), `ReadExcess` and `DeleteExcess` (the two of
`evict_over_budget`), `GetImage` and `Touch`, `Collect`, `DeleteSize`,
`CollectUnreferenced`, `ClearRefs`, `ClearImages`, `ClearPages`. `PutPage` is one
step, since it is one transaction. `run` says how far the operation of each task,
and of the UI thread, has got, and any of them may fail there (`Fails`): what its
earlier statements did stays, the rest is left out.

`Restart` kills whatever runs and begins the maintenance of the next boot, one
statement at a time: `PurgePages`, `PurgeRefs`, `PurgeImages`, then the
collection (`Collect`, `DeleteSize`, `CollectUnreferenced`) with its own
eviction. A boot whose maintenance fails goes on without it, as the code only
warns. `boot` is the clock the boot in progress has read, and `cut` remembers that an eviction
was cut short since the excess was last read.

### UserLists and Library

*Code:* `services/library.rs`, `db/library.rs`, the list functions of
`services.rs`.

`UserLists` is the promise: a mark for each title, changed by what the user
does, and kept by a start; `doubtful` are the titles a logged failure was
about, of which a start promises nothing. `Library` is the code: `slots` is the
mirror with its sequence numbers, `table` and `rowids` the table, `now` the
clock in whole seconds. Each action changes the mirror and then the table or,
with `MayFail`, logs. `Lists == INSTANCE UserLists WITH marks <- ...` is the
refinement mapping: what the mirror shows. `Restart` reads the table back,
`RestartUnread` is the start that cannot.

### StoreOpen

*Code:* `Store::open`, `connect`, `migrate`, `remove_db_files` of `db.rs`. The
migrator of sqlx is modelled from how it is used.

Instances `proc` of the app, each in a version, connect to the file under the
path (`disk`), list its migrations, apply the missing ones each in a
transaction, and on a failure remove the file once and start over. A file is a
value of its own (`files`), so that an instance may go on with one that is no
longer under the path. `Break` is a passing failure, `Quit` a kill.

### SettingsStore

*Code:* load and save of `settings.rs`, the setters of `services.rs` and
`settings_input.rs`, the wizard (`screens/onboarding*`), the checks of the
drawer, what is listed of a discovery.

`file` is the disk, `app` the copy in use and the save it is in, `wizard` the
step and what it found, `checks` and `tried` the verdicts of the wizard and the
drawer. A save is `Truncate`, then `Written` or `SaveFails`, and `Kill` may come
between; no other handler runs until it ends, since it is a step of the UI
thread. Which values a field may have is a constant (`Values`, and `Worth` of a
field), as are the presets, the language of the system and the order of the
wizard's steps. `MaxFaults` bounds kills and failed saves.

### TmdbSettings, SwrPages, PagedGrids

*Code:* `app/tmdb.rs`; `screens/swr.rs` and the screens over one `Cached` value
(Home, hubs, titles, persons) with `services/jobs/catalog.rs`;
`screens/paged.rs` with category, discover and search.

`TmdbSettings` is the comparison a frame makes of the key, the language and the
network with those of the frame before, and what it asks the screens to forget;
the two others EXTEND it. `SwrPages` has the `Cached` values by subject (`live`,
`disk`, `reading`, `checked`, `force`, `lang` are its fields), the `jobs` that
load and keep rows, and the `db`. `PagedGrids` has a grid per tab and the list it
is of. A `Bind` is external: a value whose bind was dropped never lands, while
its job goes on.

### NetRoute

*Code:* `client.rs` and `doh.rs` of `cinebox-net`.

`net` are the settings, `clients` the DoH client of each of them with what its
resolvers remember, `req` the requests (each with a copy of the settings it
started with), `lookups` the questions under way. The steps of a request are
`Send`, `Plain`, `Cached` or `Build` and `Built`, `Resolve` within them, `Answer`
and `Window`, `AskSystem`, `Connect`, `Unreachable`, `TimedOut`.

### AppFlow

*Code:* `app/{nav,routing,shell,device}.rs`, `app.rs`, and the state that
`screens/{media,torrents}*` keep between visits.

`nav` is the stack; `media`, `torr`, `tags` and `film` are the one media page, the
one torrents page, its lookup of marks and the one film of the app, whatever the
number of screens of the stack that stand for them. One action per navigation,
per answer and per thing a user presses on these pages; `Draw` is what a frame
does because a screen is on top (`ensure_open`). A search may be
spoken over anything, and pages besides these are one kind of screen (`Pages`).

### SoftKeyboard

*Code:* `platform/text_input.rs`, `take_input` and `end_frame` of `platform.rs`,
`committed_edit` of `widgets/field.rs`, `TextInputView.java`.

Two threads with a copy of the field each, `ui` and `view`, and the queues
`commands` and `events`. A `Frame` takes all events, puts an edit into the field
that is open, moves the focus and sends what changed. A text is a value with its
selection; nothing is composed character by character.

### FocusNav

*Code:* `widgets/focus/*`, `drawer.rs`, `combo.rs`, `flyout.rs`,
`player/input.rs`.

`Frame(key)` is a whole frame: the hook before it (`KeptInModal`, `Begun`), which
decides from what the last two frames showed, then what the frame moves, closes,
clicks and opens, the step of an arrow after it, and egui dropping the focus of
what is not shown. Geometry is abstract: the next stop is any that takes input.
`owed` and `idle` say since when the opener of a closed popup has the focus
coming, `pressed` what was clicked; only properties read them.

## The runs

| Run | Question | Instance and why it is enough |
|---|---|---|
| `sync_calm` | Do positions go the right way on a device whose jobs take turns? `OnlyOthersTakenIn`, `ResumesWhereOtherLeft`, and the invariant of the proof, `OwnInv` | Two files of a show, positions 0..2, two plays, two moves of others: a file is played, moved elsewhere, taken in by either reader, and moved again |
| `sync_overlap` | Do completed passes settle, whatever interleaves and fails? `PassesConverge` (fair) | One file, two save slots, an open and a pass at once, lost requests; another client adds nothing a second save does not |
| `sync_servers` | Is anything taken in from a server that stores no timecodes? `NothingFromUntracked` | A server that does and one that does not, two changes of URL or sync: there and back |
| `sync_stale_pass` | Is an own position never taken back in? **violated** | Two plays, of which one has its database half done and its request under way while a pass runs |
| `playback` | Are a handover, an error, a start over and a save about the file they should be about? `EndHandsOverOnceSeen`, `OnlyFinishedStartsOver`, `ErrorIsOfThisFile`, `OpeningKeepsPosition`, `HandedOverIsFinished`. Does a countdown skip as asked, and does a wait end well? `SkipSafe`, `WaitSafe` | Two files of different lengths, each opened at its start, inside, or at its end, three inputs, seeks, a search over the player, streams that fail at any time; two episodes with marks in order, out of order and over half the file, answers of this cut and of another, both players; four pieces, three polls, one other device |
| `player_chain` | Does an evening of auto-next reach its end, and no wait go on? `ReachesLastEnd` (fair), `NoStaleWait` | Three files, of which the middle one is finished; any three inputs, a search over the player and another start from there included; preload waits, fields written one by one, streams that are refused or fail at any time. `Seekable` is empty: the user moves in a file by nudges only |
| `player_zero` | Does libmpv keep the resume position of a file that is opening? **violated** | As above without seeks |
| `images_frames` | Memory in its budget, no tile Loading for good: `Counted`, `NoLostLoading`, `TrimsToBudget`, `EvictedCanReload`, `LoadingEnds` (fair) | Two images of which one fits, two fetches at once, one clear, a failure set of one, so that every limit is met |
| `kept` | Does what the app keeps survive? Lists: `NoTies`, `ListsSurvive`, `RestartKeepsOrder`; TMDB tables: `StoreWithinBudget`, `EvictsTheExcess`, `ColdestGoFirst`, `BootTidies`; settings: `SettingsSafe` | Two titles, both statuses and liked, failures, one clock tick (of two titles the one was changed before the other, or in the same second), any number of restarts; two posters over a budget of two, the second of which fills it, two tasks and the UI thread, statements that fail, and a clock of two ticks for an age of one, so that pages and images expire; a key that is blank, odd or good, a public parser and one with a key, one kill or failed save |
| `data` | Does data come from where it should? `OpenIsMigrated`, `PageIsCurrent`, `GridIsInOrder`, `RequestIsRouted` | Two instances of two versions, passing failures, kills, three files; two subjects, languages and networks, two shelves of a page, a key that goes and comes back; four pages of which the third is empty, so that an item doubled by a list that moved is met; two lists, two tabs; two requests, three network settings, a provider of the user's, one with a sinkhole in its answer |
| `app_flow` | Do the screens fit together? `FlowSafe`; `KeyboardSafe`, `FocusSafe` | Two titles and two releases, a stack of four, late and failed answers, an address that is missing; two fields, three texts, queues of two; a drawer with a dropdown, a player with a menu |
| `open_downgrade` | Does only an old file go? **violated** | One instance that is replaced by an older version |

Each run has the type invariant of its module once (`TypeOK`). All runs but the
three with a counterexample end with the whole state space searched, within the
constraint where there is one. Deadlock is not checked: when the bounds are used
up and nobody acts, the system rests.

Constraints and symmetry, which keep three runs small:

- `Focused` (`app_flow`): of four things out of the ordinary (two titles in
  memory, another page in the stack, the settings open or an address missing,
  the filters out) at most one at a time; two at once are not searched.
- `Few` (`data`): of a page at most two loads at a time, and three of caches in
  use, entries and loads; of the network one DoH client, since the clients of two
  settings never meet.
- `OneWindow` (`kept`): the checks of the drawer are over when the wizard opens.
- Titles, releases, fields and texts that are not blank (`app_flow`), and
  languages, subjects and rows of a page (`data`) are interchangeable: the models
  compare them with each other only. No liveness is checked in a run with
  symmetry.

`MaxQueue` bounds the queues of the keyboard: a side that is full waits, and the
longest crossing the code tells apart is of one message each way. `MaxStack`
bounds the stack of screens at four, Home, a title, its torrents and its player,
or Search and another title between them.

What the properties say is written above each in its module. Those that took
the most thought:

- `ResumesWhereOtherLeft` relates two readers of one server row that may come
  in either order: what the pass took in must be found by the open job under
  the key the open job computes.
- `PassesConverge` is what a missing mark would break: a pass that imports the
  same rows for ever.
- `EndHandsOverOnceSeen` is about three reads of fields of which any may still
  be of the file before; it needs `Prompt`, and the section on settings says
  what happens without.
- `EvictedCanReload`, with `LoadedOnce` behind it: the URL of a texture that is
  dropped is not remembered as failed.
- `WithinBudget` and `EvictsTheExcess`: two concurrent "read the excess, delete
  that much" leave no more than the budget, but for an eviction that failed or
  was killed, which the next whole one makes good; and one that read a current
  value deletes no row too many.
- `BootTidies`: pages and images expire, references are left over from pages that
  were stored while the tables were being cleared, statements fail and the app is
  killed between any two; a boot that gets through its maintenance leaves
  nothing past its age, no reference without its page and no image that nobody
  wants. Each statement relies on those before it, and none may undo them.
- `SettingsSafe`: `ShownIsSaved` with `RestartKeeps` says that what a start shows
  is what was last seen, unless a save did not end well, through a file that is
  truncated and then written; `VerdictIsOfNow` is broken by a check that answers
  after the field it was about was edited.
- `PageIsCurrent`: an answer in the language before, a snapshot with a row past
  its time, a forced page after a key came back; each needs a load that is late
  and a setting that changes under it.
- `GridIsInOrder`: pages are fetched one by one while the list moves, some are
  empty, some fail; the grid has each title once and no page missing.
- `RequestIsRouted`: two requests that build a client at once must not lose what
  the other has learned, and an expired answer must not be needed.
- `FlowSafe`: `FilmOnTopmostPlayer` and `ListsOfTheirTitle` relate a stack of
  screens to the single objects behind them, after any order of visits.
- `KeyboardSafe`: what a user types goes to the field it was typed for, and the
  copies agree once nothing is on its way, unless an edit and a change crossed.
- `FocusSafe`: nothing under a popup is pressed once the popup shows a stop, and
  two frames after a dropdown or menu is gone its opener has the focus.
- `SkipSafe`: a countdown is the product of a choice read late, marks or answers,
  and the playhead; it must be for a segment that lies ahead, of this file.
- `WaitSafe`: a wait that read its own reader and called it ready has the pieces
  it needs, all but one in twenty, and its reader is on the server only while it
  is polled.
- `ListsSurvive` is a refinement: a mirror and a table, changed by rules that
  are written twice, agree for every order of changes.

## Fairness

`FairSpec` assumes of `PositionSync` that what was started goes on: a spawned
task is polled by the runtime and each request has a timeout. Nobody has to
play, open a torrent or come Home, which is what starts a pass; hence the
property speaks of passes that complete again and again.

Of `PlayerScreen`: frames are drawn while the player is open (`App::logic` asks
for a repaint every 250 ms), the main thread of Android runs what is posted and
publishes, a preload wait ends (it has at most 90 attempts), and playback goes on
(strongly fair: a pause and a resume do not keep it from playing).
`ReachesLastEnd` adds that the user has done all that the bound allows and leaves
it alone with the player on top, not paused, and that no stream fails. What the
player posts on its own, the stop of a handover to a file it waits for included,
is no way out: whatever file the user left it in, it goes on to the end of the
last one. Not covered is a file that the user moved in and that is in its tail
before a tick saw the rest of it (`asked`, `TailIsNoSurprise`).

Of `ImageCache`: fetches end (a time limit on each request) and the app polls
each frame. No tile has to paint again.

The other runs are about safety and assume no fairness.

## The proofs

| Theorem | Says, for every value of the constants |
|---|---|
| `PositionSyncProofs!TypeCorrect` | the types, and that a job past its start knows its server and file |
| `PositionSyncProofs!CalmTakesOnlyOthersIn` | with `Calm`, `Spec => []OnlyOthersTakenIn` |
| `PositionSyncProofs!CalmKeepsOwnInv` | with `Calm`, `Spec => []OwnInv`, the invariant the run checks |
| `PositionSyncProofs!UntrackedGivesNothing` | `Spec => []NothingFromUntracked`, whatever fails or overlaps |
| `PositionSyncProofs!CalmResumesWhereOtherLeft` | with `Calm`, `KeysApart` and `AlwaysTracked`, `Spec => []ResumesWhereOtherLeft` |
| `PlaybackProofs!TypeCorrect` | the types |
| `PlaybackProofs!NoWaitIsStale` | `Spec => []NoStaleWait` |
| `PlaybackProofs!EndIsOfAFileSeen` | with `KeepsUp`, `Spec => EndHandsOverOnceSeen` |
| `PlaybackProofs!StartsOverOnceFinished` | with `KeepsUp`, `Spec => OnlyFinishedStartsOver` |
| `PlaybackProofs!ErrorIsItsOwn` | with `KeepsUp`, `Spec => ErrorIsOfThisFile` |
| `PlaybackProofs!EndIsStored` | with `KeepsUp`, `Spec => HandedOverIsFinished` |
| `PlaybackProofs!OpeningLosesNothing` | with `OpensWhereAsked`, `Spec => OpeningKeepsPosition` |
| `PlaybackProofs!WaitIsSafe` | `PlaybackSpec => []WaitSafe` |
| `AppFlowProofs!TypeCorrect` | the types |
| `AppFlowProofs!FlowIsSafe` | `Spec => []FlowSafe` |
| `AppFlowProofs!KeyboardIsSafe` | without `TouchAndBack`, `AppSpec => KeyboardSafe` |
| `ImageCacheProofs!TypeCorrect` | the types, and the cap of `failed` |
| `ImageCacheProofs!LoadingIsNeverLost` | `Spec => []NoLostLoading` |
| `ImageCacheProofs!WhatIsEvictedCanReload` | `Spec => EvictedCanReload` |
| `ImageCacheProofs!BytesAreCounted` | `Spec => []Counted` |
| `ImageCacheProofs!FramesTrim` | `Spec => TrimsToBudget` |
| `KeptProofs!TypeCorrect` | the types; nothing without a mark is kept |
| `KeptProofs!ListsAreKept` | `Spec => ListsSurvive`: the code implements `UserLists` |
| `KeptProofs!OrderIsTotal` | `Spec => []NoTies` |
| `KeptProofs!OrderIsKept` | `Spec => RestartKeepsOrder` |
| `KeptProofs!SettingsAreSafe` | `KeptSpec => SettingsSafe` |
| `KeptProofs!ImagesFitTheBudget` | `KeptSpec => []StoreWithinBudget` |
| `KeptProofs!NoMoreGoes` | `KeptSpec => EvictsTheExcess` |
| `KeptProofs!ColdestGo` | `KeptSpec => ColdestGoFirst` |
| `KeptProofs!BootLeavesItTidy` | `KeptSpec => BootTidies` |
| `DataProofs!TypeCorrect` | the types of an opening database |
| `DataProofs!OpensMigrated` | `Spec => []OpenIsMigrated` of `StoreOpen` |
| `DataProofs!OpensAsAlone` | `DataSpec => Spec /\ []OpenIsMigrated`: in the composition a database opens as it does alone |
| `DataProofs!PagesAreCurrent` | `DataSpec => []PageIsCurrent` |
| `DataProofs!GridsAreInOrder` | `DataSpec => []GridIsInOrder` |
| `DataProofs!RequestsOfTheAppAreRouted` | `DataSpec => []RequestIsRouted` |
| `SwrPagesProofs!PageIsSafe` | `Spec => [](TypeOK /\ PageSafe)` of `SwrPages` |
| `NetRouteProofs!TypeCorrect` | the types |
| `NetRouteProofs!RequestsAreRouted` | `NetSpec => []NetSafe` |

The assumptions are the ASSUMEs of the modules, and those of the machines an MC
module instantiates, which it has TLC evaluate: ranges of the bounds, that `None`
is no position, title, server, language, subject, snapshot or field, that the provider
of the user and the resolver of the system are not built in, that a fresh setup
has no key and its wizard a step, and that a wait has a window and a budget.
Nothing else is assumed, and every theorem has a proof down to its leaves.

**Own positions.** `OnlyOthersTakenIn` is not inductive: whether a row is
foreign is told by comparing numbers, so one has to know that the numbers of own
rows are remembered. `OwnInv` adds: there is one server and one job at a time
(`OneServer`, `TakingTurns`); the two halves of a save are about the same
position (`HalvesAgree`); a row this device wrote holds what `seen` holds, or is
about to hold (`OwnRowsKnown`); what a job read is still true of the server, but
for another client's newer row (`ReadsHold`); imports are rows that were read
(`ImportsAreRows`). Each action has a lemma. `Calm` is needed: without any one
of its four conjuncts TLC refutes `OnlyOthersTakenIn`, in the ways the findings
and the settings below describe.

`NothingFromUntracked` needs no `Calm`: a job that reads a server without
timecodes has the flag of that server with it until it ends. For
`ResumesWhereOtherLeft`, `Calm` is joined by two conditions. `KeysApart` says
that no two files of a torrent are read as the same episode, or both as none:
they would share one local row, and the code has no other key; and that the pass,
where it finds a key for a file, finds the one the open job uses. `AlwaysTracked`
says that a play of this device is recorded with the synced server: a play
against another server, or with the sync off, changes the local row and not the
server's, and which of the two is the place where one left is then a matter of
taste. TLC refutes the property without either.

**Player.** `BaseInv` holds however late the main thread is: the types, that
only the phases that have a wait have one and the wait that runs is the one of
the screen, that the queue speaks of files of the torrent. `NoStaleWait` follows.
What a tick concludes is about three reads of six fields another thread writes,
after commands that wait in a queue, so the invariant of the other theorems,
`PromptInv`, is about the future: what the fields will be once the writes on
their way are done (`ShownFacts`), and what the player will have loaded once the
queue has run, which must be the file on screen at the place the screen asked
for (`Matches`). Between the reads of a tick it says that the tick is either
`Quiet`, with everything up to date and nobody to change it, or `Fresh`, the one
that ended a preload wait and posted the load, with nothing opened
(`TickFacts`). `KeepsUp` is `Prompt`, the
main thread has run and published all that was posted before the next frame,
and that a player takes a load. The code checks neither; without `Prompt` the
first tick after a load reads the fields of the file before, and after a refused
load the old file plays on under the new one's name (TLC refutes
`EndHandsOverOnceSeen` and `HandedOverIsFinished`). `OpeningKeepsPosition` also
rests on the player telling where it is about to start (`MasksStart`, ExoPlayer;
finding 2 is libmpv), on no preload wait and on positions within the file
(`Fits`: a seek past the end ends at the end); its invariant `OpenInv` adds that
a file that is still opening is at a place it was asked for (`AskedFor`).

**Screens.** `FlowInv` gives the stack a shape (`Shape`): Home at the bottom,
torrents directly above the page of their title, a player directly above the page
or the torrents of its title. Above it stand that the film is of the topmost
player (`FilmUnderItsPlayer`), that what the torrents page has asked for is of its
title (`TorrentsAsked`), and that once a frame has drawn the page of a title the
page in memory is of that title and has its data (`MemoryFollowsScreen`, which
needs the stack to be inductive). Every navigation is one lemma.

**Keyboard.** The app and the view hold a copy of a field each, and what is said
of them when the queues are empty has to be said of the queues when they are not.
`KeyboardInv` does, in both directions. What the commands on their way will make
of the view is the field the app has open (`ViewFollows`): the last of them that
starts or stops decides, and with none the view is that field's already, or was
closed with Back, which is then still to be heard. What the app will have of the
keyboard once it has heard the edits on their way (`Hears`, the last of them
alone) is what the keyboard shows, or will show when the last change of the app's
own has arrived, unless an edit crossed such a change (`Knows`). From it follows
that a frame without a key typed in the field never sends an update: the app
tells the keyboard of nothing it said itself (`FieldStays`). A field the focus
leaves is committed in the same frame, so Done, which is the last of its batch
(`DoneIsOfNow`), saves what the keyboard showed.

**Waits.** `WaitSafe` needs two facts about how a wait begins (`FreshWait`): a
range that is opened has not been polled, and the head is only waited for from
the start. What a wait finds ready is a count of pieces of the first reader
listed; that it has its window follows when that reader is its own, which is the
one `NoReaderIsLeft` says it has, from the size of an interval (`WindowTyped`) and
from the arithmetic of ninety-five in a hundred (`ReadyMisses`): in a window of
fewer than twenty pieces none is missing, else one in twenty at most.

**Images.** A pending URL is carried by a task or a result (`NoLostLoading`,
inductive as it stands, across clears because a clear empties `pending`). For
`EvictedCanReload`, `LoadedOnce` adds that until the first clear a URL is
carried once at most and exactly while it is pending, and is then neither
resident nor failed. Sizes are counted as sets, an image of four bytes being four
pairs, so that the bytes of disjoint sets of images add up (`SizesAdd`) by what
the library knows of cardinalities. That a frame which is still over the budget
holds nothing but what it showed needs one fact more: no texture was used in a
frame to come (`UsedByNow`).

**Image table.** The budget is kept by two statements with others between them.
`ExcessIsCovered` says why it works: while the images are over the budget and no
eviction was cut short, some
put is still to be summed or is about to delete no less than the excess there is,
since whatever happens between the two statements but another put only lowers it,
and another put is then the one to be summed. That a deletion frees the excess
(`EvictFrees`), that with some row of it kept it would not (`EvictCrosses`), and
that nothing colder stays (`EvictColdest`) follow from one fact about the window:
the rows before a row, and that row, weigh no more than those before a warmer one
(`WindowGrows`). The coldest row that stays and the warmest that goes exist since
a set of naturals has a least member (`LeastNatural`); that times and rowids put
the rows in one order is part of the type invariant.

`BootTidies` is the end of `BootInv`: a boot has the store to itself
(`BootIsUnderWay`), and what each of its statements has made true stays true
until the last (`BootTidiesSoFar`): first no page is past its age, then every
reference has its page, then no image is past its age, then each is wanted. An
eviction takes images away and leaves the pages alone.

**Lists.** The invariant `Agree` of the refinement: but for the doubtful titles,
mirror and table have the same marks. Each action is shown to be the action of
`UserLists` on the marks of the mirror, the two upserts of `db/library.rs`
(`UpsertChanges`, `FillChanges`) being lemmas of their own.

The order needs more (`OrderInv`): every kept row has one place in rowid order
(`Ranks`), the numbers of the mirror differ and the next is above them
(`Numbered`), no row is from the future (`Timed`), and of two titles no logged
failure was about, the one with the higher number was not changed earlier in the
table (`OrderAgrees`). A start sorts by second and rowid, a strict total order
(`NewerOrders`), so that the places it deals out (`NumberOf`) differ and follow it
(`NumbersOrder`). `OrderAgrees` is what fails first: a mirror that numbered a
title anew and a table that kept its time would agree until the next start.

**Settings.** Three statements about a file, a copy in memory and checks that
answer late (`SettingsInv`). The file is the settings, or it is missing or torn
and a save failed or was cut short, or the app has just started on defaults
(`DiskFollows`); the one thing a start may change is the language it adopts from
the system and does not save (`Same`). What makes it inductive is that the only
save whose failure is silent is that of a first start, when there is no file to
lose. A verdict that stands, or that a check in flight will give, is of the value
the field has now, since every setter that changes a value asks again or takes
the verdict away (`VerdictsFollow`).

**Pages.** What a frame paints follows from four facts about the caches
(`PageInv`). What a cache holds, in the answer, the snapshot or the read that is
under way, is named by its language and by the subject it belongs to
(`HoldsItsOwn`): that a language is only ever taken on by a cache that holds
nothing yet, and that a title's cache is emptied by the action that changes the
title, is why a late answer cannot be painted as another's. A cache waits for one
job at most, which waits for it, and every other job is dropped (`JobsAwaited`).
Nobody waits for an answer in another language while the key is there
(`AwaitsInLanguage`): without it a change of language could leave a cache idle
with a job that still answers. A page that is owed a fetch is forced and idle
(`OwedIsForced`). That the frame then paints what it should is `FrameFacts` with
`SyncLangHolds` and `HydrateHolds`, the methods of `Cached` one by one.
`MCData` is about one part at a time, so `DataProofs` carries the invariant of
each part through it; the instances of `SwrPages` and `NetRoute` it checks and
those the proofs are about are shown to be the same (`SamePage`, `SameRequest`).

**Grids.** A grid is the pages up to the one it asks for next, and the page that
is on its way is that next one (`GridOf`): this is what an error and its retry,
and a request while one runs, keep. All of a grid, the page on its way included,
is from one source, and while the key is there that source is the list on screen,
the tab of the grid and the language of the settings (`GridsInv`, `IsHere`); that
follows since whatever changes one of the three starts the grid over, and a reset
gives up the page on its way. Without the key nothing is painted and the
language may differ; before a key makes a difference again the grids are
forgotten (`NothingForgets`). The page after a list that moved begins with what
the grid ends with, which `extend_unique` leaves out (`ExtendKeeps`). A list of
the user has no pages to ask for.

**Opening.** `Migrated`: a file never loses a migration an instance has seen it
have, since files are removed but never emptied, and each step applies the next
one in a transaction.

**Network.** `NetSafe` is about requests that are over; `NetInv` says how far the
settings have let one come at every stage (`RouteSoFar`), that what was known
when it began to resolve is among its addresses, then among those it tried
(`KnownSoFar`), and that only a client that is kept makes lookups
(`ClientsAreKept`), without which an answer might be learned by nobody. Most
actions are a step of one request that leaves the clients alone (`RequestStep`);
`ResolveIsSound` is what a cached and a new client have in common.

With TLC alone stay: liveness (`PassesConverge`, `ReachesLastEnd`,
`LoadingEnds`); ChapterMarks and SkipSegments, which filter and sort sequences by
an operator, of which the provers know nothing;
and FocusNav, which has no parameter but a name, so that the run decides it.

## Findings

Three runs end in a counterexample to a sentence of the repository.

1. **A pass takes this device's own older position back in**
   (`sync_stale_pass`). The pass reads `/viewed` once and each torrent's seen
   rows after requests to TMDB. It lists the row of an earlier save, before a
   later one has got to the server, and reads the seen position after the
   database has that later one: the own row looks foreign and is imported over the newer
   position (in TLC's trace 1 over 2). `player/progress.rs` says that "the sync must not take it back in".
2. **libmpv loses the resume position of a file that is left before it opens**
   (`player_zero`). `mpv.rs` reports 0.0 while there is no time; a tick copies
   it over the start point, and stopping saves it. The repository's README
   promises "Resume from the last position per movie or episode". ExoPlayer
   reports the start point meanwhile, and `playback` shows the property.
3. **Any failure of a migration removes the database** (`open_downgrade`): an
   older version of the app, a full disk, a busy file. The comment of
   `Store::open` speaks of old rusqlite files only.

## Settings under which a property fails

Each was found by TLC with the setting named, and is why the property has its
condition or its run its setting.

- `OnlyOthersTakenIn` with `MayLose`: a `viewed_set` that is lost
  leaves the older own row on the server while the database records the newer
  one as sent, and the next pass takes the older one in (`OwnNotTakenBack` fails
  too). With `BoundBefore`
  FALSE: the first pass binds the tables and empties what was seen, so own
  positions sent before it look foreign. With `MaySwitch`: between a change of
  URL and the next pass, opening judges the rows of one server by what was seen
  on the other.
- `ResumesWhereOtherLeft` with `IsShow` FALSE and a number in the file's name
  ("12 Angry Men.mkv"): the pass stores the position of a movie under no
  episode, the open job looks under episode 12.
- `ResumesWhereOtherLeft` where two files of a torrent are read as the same
  episode: they share one local row, and the position of one is where the other
  resumes.
- `EndHandsOverOnceSeen`, `OnlyFinishedStartsOver`, `ErrorIsOfThisFile` with
  `Prompt` FALSE: the first tick after a load reads fields of the file that was
  replaced, so that its end, its tail or its error is taken for the new one's.
  So does `ReachesLastEnd`: a file judged by such fields does not hand over.
  `EndHandsOverOnceSeen` and `HandedOverIsFinished` also with `MayRefuse`: a
  refused load leaves the old file playing under the new one's name.
- `OpeningKeepsPosition` with `WaitPreload`, even over ExoPlayer: the tick that
  ends the wait posts the load and goes on to read the position, which is still
  zero, and saves it at once. If the file is left before it opens, its place is
  lost.
- `ReachesLastEnd` without its conditions on `asked`, on seeks that are posted or
  on `TailIsNoSurprise`: the user moves into the tail before a tick saw the file
  play, or it plays on into it under a search; it is then never taken as played,
  and auto-next does not happen.
- `EvictedCanReload` after a clear: of two fetches of one URL, one from before
  the clear and one from after, the first may fail after the second succeeded;
  the texture stays, and once it is dropped its URL is not asked for again.
- A body that does not decode is stored before it is decoded. The next fetch
  takes it from the table and fails without the network being asked, until the
  row goes (`LoadingEnds` still holds: it ends in a failure).
- `EvictsTheExcess` without "the excess is still what was read": two puts read
  the same excess and each delete that much.
- `RestartKeepsOrder` for changes within one second: the clock of the table has
  whole seconds and ties go by rowid, which an update does not change. Playing
  a liked title renews the card in the mirror, while the table keeps the old
  one, so that a restart shows the old card (no property of `UserLists`, which
  has no cards).
- `OnlyOldFilesGo` with two instances of one version: both list the same
  migrations, one applies them, the other fails on a table that exists and
  removes the file.

- `NoFilmUnseen` (`AppFlow`, checked by no run; the comment of `app/device.rs:10`
  says "the film should not keep playing unseen"): `pause_in_background` pauses
  only a film whose player is on top, so with a search spoken over the player
  the app goes to the background and the film plays on. From there the rail
  drops the player's screen without stopping the film.
- `HubRefetched` (`SwrPages`): `forget_live` of a section clears its caches
  without forcing them, so that after a change of the key or the network a hub
  is painted from a fresh snapshot and nothing is asked, although the comment of
  `app/tmdb.rs` speaks of fetching everything anew. Home and titles do ask.
- `KeyboardFollows` with `TouchAndBack`: the open field is touched in the very
  frame that learns that Back closed the keyboard; the field stays open and the
  keyboard down.
- A press with the focus nowhere always places it (no property): the frame in
  which a drawer or a dropdown in it vanishes may have placed it on what vanishes.

What else was seen while modelling, which no property claims otherwise:

- **Screens.** Back on a search over a torrents page closes the list of files
  that is not shown. A torrents page over which another title's was opened shows
  a spinner for good when one comes back. A missing parser address that is
  blanked and restored leaves the error until Retry. A player screen below
  another is never painted again but as "Loading". Replacing a film loses what
  was played since its last save. Retry after a pick that was refused for want
  of a TorrServer address opens the pick before it.
- **Pages.** A load that is under way when the key is cleared writes its rows
  into the table that was just emptied. After a refresh that failed the snapshot
  stands until the next change.
- **Skips.** The countdown runs on through a pause. Paused within a segment and
  moved elsewhere, the banner stays and Skip goes to the old segment's end. A
  banner that was dismissed is back when the segment is entered again. Choices
  read late replace what Cancel disarmed, and two saves of a choice may land in
  any order. Merged chapters may be over half the file. On Android the provider
  may be asked with the duration of the file before, once.
- **Waits.** A preload of size zero counts as complete. The meter of a wait in
  the middle is of the first reader of the torrent, whoever it is of.
- **Settings.** After a torn file the defaults are kept for good by the next
  save, and the wizard comes up again. The language adopted from the system is
  not saved, and at the next start replaces one chosen in a wizard that was not
  finished. A key entered in a wizard that was left counts as a finished setup. A
  verdict of the drawer stands beside an address edited after it. A failure to
  write the defaults of a first start is only logged.
- **Text.** An edit that arrives as the focus goes to another field is put into
  that field. After an edit crossed a change of the app the copies differ until
  the next edit. Text typed while `stop` is under way is dropped. A final result
  of speech that was queued before `stop_voice` still searches.
- **Network.** The provider of the user is asked together with the built-in ones,
  not "before" them, as the comment of `NetConfig` has it. A client built while
  the name of that provider did not resolve stays without it until the settings
  change. A request that times out drops its lookups.
- **Focus.** A drawer closed with Back is shut after the frame was ended, and
  while it slides out the next hook takes its row for what had the focus before
  it; once it is gone nothing gives the focus back, and the next press starts at
  the page's first stop. `Returned` is about dropdowns and menus, which vanish
  at once; of these it holds.

## What is not modelled

`PROJECT.json` lists every part with its status. In short: painting, geometry of
the focus, scrolling and animation; toasts; wording and translation; parsing of
JSON, of the names of releases and files and of HTML, with the filters over
them; the mapping of TMDB's answers to shelves; the JavaScript interpreter of
the YouTube extractor and the typography rules, which are ports of other
libraries with golden tests; sockets, mDNS and the reading of the systems' proxy
settings; packaging. Together they are most of the lines of the repository, and
nearly all of their behaviour is a function of their input, on strings and
rectangles, which its own unit tests cover better than a model of it would.
External code (SQLite, sqlx, TorrServer, ExoPlayer, libmpv, egui, egui-async) is
modelled only by what the code here sees of it.

The modules are composed where they share state: PlayerScreen with VideoPlayer,
SwrPages and PagedGrids with TmdbSettings, SkipSegments with ChapterMarks,
Library with UserLists. Between the others only an abstraction is seen: AppFlow
has of a film its title, its release and whether it plays; PlayerScreen has of a
preload its end.

## Plan

Done, the most important behaviour first: PositionSync; VideoPlayer and
PlayerScreen; ImageCache; TmdbStore; UserLists and Library; StoreOpen; AppFlow;
SwrPages and PagedGrids over TmdbSettings; PreloadWait; ChapterMarks and
SkipSegments; SettingsStore; NetRoute; SoftKeyboard; FocusNav. The number of
runs is kept at a dozen, one per question.

What is left, in the order of what it would add:

1. Theorems about SkipSegments over `MCPlayback`.
2. That PreloadWait implements the `WaitEnds` of PlayerScreen.
3. The YouTube source of the player with its stall timeout.
4. Pure algorithms as functions, checked against reference definitions: the
   reading of a file path (`cinebox-torrserver/src/episode.rs`), the filter of
   releases (`cinebox-indexer/src/{filter,title}.rs`), shelves
   (`cinebox-tmdb/src/shelves.rs`).

The map covers the storage, sync, image, playback, settings, navigation and
network core, about an eighth of the lines of the repository.
