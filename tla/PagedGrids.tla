----------------------------- MODULE PagedGrids -----------------------------
(***************************************************************************)
(* The endless grids of posters (screens/paged.rs) and the screens that    *)
(* own one: the whole of a shelf (category), the discover page with its    *)
(* filters, and the search with a grid per tab.  A grid asks for a page at *)
(* a time and appends what is new; the page of a grid that was reset runs  *)
(* on and has nowhere to land.                                             *)
(***************************************************************************)
EXTENDS TmdbSettings, SequencesExt, Naturals

CONSTANTS
    Shelf,        \* shelves, sets of filters or queries
    Local,        \* the shelves among them that are lists of the user
    Tab,          \* tabs of the search
    Total,        \* pages of a list
    Empty,        \* pages the filter on the original language empties
    None

VARIABLES
    kind,         \* "category", "discover" or "search"
    list,         \* what the screen is about
    tab,          \* the tab on screen
    grid,         \* [tab -> PagedGrid]
    seen          \* the language of the last frame

grids == <<kind, list, tab, grid, seen>>
vars == <<settings, grids>>

IsRemote(l) == kind # "category" \/ l \notin Local

Tabs == IF kind = "search" THEN Tab ELSE {None}

Idle == [st |-> "idle"]

Default == [items |-> <<>>, next |-> 1, more |-> TRUE, loading |-> FALSE, page |-> Idle]

(* What a request asks for and where an item is from. *)
Source == [of |-> list, tab |-> tab, lang |-> set.lang]

-----------------------------------------------------------------------------
(* PagedGrid, by its methods. *)

(* A shelf shows the first page of its list; a list of the user is all there is. *)
Seeded(items, remote) ==
    [Default EXCEPT !.items = items, !.next = IF items = <<>> THEN 1 ELSE 2, !.more = remote]

ClearedKeepsPage(g) == [Default EXCEPT !.page = g.page]

(* A page that is on its way has no grid to land in. *)
Cleared(g) == Default

Retried(g) == [g EXCEPT !.page = Idle, !.loading = FALSE]

HasError(g) == g.page.st = "err"

(* A request while an error stands asks for nothing. *)
Requested(g, source) ==
    IF g.loading \/ ~g.more THEN g
    ELSE [g EXCEPT !.loading = TRUE,
                   !.page = IF @.st = "idle" THEN [st |-> "pending", of |-> source, n |-> g.next] ELSE @]

ExtendUnique(items, incoming) ==
    LET upTo[k \in 0..Len(incoming)] ==
            IF k = 0 THEN items
            ELSE IF Contains(upTo[k - 1], incoming[k]) THEN upTo[k - 1]
                 ELSE Append(upTo[k - 1], incoming[k])
    IN  upTo[Len(incoming)]

Applied(g, page) ==
    [g EXCEPT !.items = ExtendUnique(@, page.items),
              !.next = (IF page.n > @ THEN page.n ELSE @) + 1,
              !.more = page.n < Total,
              !.page = Idle, !.loading = FALSE]

TakePage(g) ==
    CASE g.page.st = "err" -> [g EXCEPT !.loading = FALSE]
      [] g.page.st = "ok"  -> Applied(g, g.page)
      [] OTHER             -> g

Wanted(g, nearEnd) == (g.items = <<>> \/ nearEnd) /\ g.more /\ ~g.loading /\ ~HasError(g)

-----------------------------------------------------------------------------
Init ==
    /\ SettingsInit
    /\ kind \in {"category", "discover", "search"}
    /\ list \in Shelf
    /\ tab \in Tabs
    /\ grid = [t \in Tabs |-> Seeded(<<>>, IsRemote(list))]
    /\ seen = None

(* seed: a category starts from the items of the shelf, in the language they *)
(* were painted in; a search for what was searched last stays as it is.      *)
FirstPage(l) == <<[n |-> 1, of |-> [of |-> l, tab |-> None, lang |-> set.lang]]>>

(* What is of TMDB is not painted without its key. *)
Painted(l) == set = last /\ (IsRemote(l) => Usable(set))

Open(l) ==
    /\ Painted(l)
    /\ \/ /\ kind = "category"
          /\ \E items \in {<<>>} \cup {FirstPage(l): n \in {1} \ Empty}:
                grid' = [grid EXCEPT ![None] = Seeded(items, IsRemote(l))]
          /\ UNCHANGED tab
       \/ /\ kind = "discover"
          /\ grid' = [grid EXCEPT ![None] = Cleared(@)]
          /\ UNCHANGED tab
       \/ /\ kind = "search" /\ l # list
          /\ grid' = [t \in Tabs |-> Cleared(grid[t])]
          /\ tab' = CHOOSE t \in Tabs: TRUE
    /\ list' = l
    /\ UNCHANGED <<settings, kind, seen>>

(* A language other than that of the last frame starts the remote grids over. *)
Switched == seen # None /\ seen # set.lang /\ IsRemote(list)

Followed == IF Switched THEN [t \in Tabs |-> Cleared(grid[t])] ELSE grid

(* A frame of the screen, near the end of its grid or not; the button that   *)
(* retries an error keeps this frame from asking.                            *)
DrawAt(nearEnd, retry) ==
    /\ Painted(list)
    /\ LET g == TakePage(Followed[tab]) IN
       /\ retry => HasError(g)
       /\ grid' = [Followed EXCEPT ![tab] =
                     CASE retry -> Retried(g)
                       [] ~retry /\ Wanted(g, nearEnd) -> Requested(g, Source)
                       [] OTHER -> g]
    /\ seen' = set.lang
    /\ UNCHANGED <<settings, kind, list, tab>>

Draw == \E nearEnd \in BOOLEAN: DrawAt(nearEnd, FALSE)

Retry == DrawAt(FALSE, TRUE)

(* A frame in which the user changes the filters: the grid starts over. *)
Filter(l) ==
    /\ kind = "discover" /\ l # list
    /\ set = last /\ Usable(set)
    /\ list' = l
    /\ grid' = [grid EXCEPT ![None] = Cleared(@)]
    /\ seen' = set.lang
    /\ UNCHANGED <<settings, kind, tab>>

SwitchTab(t) ==
    /\ kind = "search" /\ t # tab
    /\ set = last /\ Usable(set)
    /\ tab' = t
    /\ UNCHANGED <<settings, kind, list, grid, seen>>

(* TMDB answers; the list may have moved by one since the page before. *)
PageOf(p) ==
    IF p.n \in Empty THEN {<<>>}
    ELSE {<<[n |-> p.n, of |-> p.of]>>} \cup
         (IF p.n > 1 /\ p.n - 1 \notin Empty
          THEN {<<[n |-> p.n - 1, of |-> p.of], [n |-> p.n, of |-> p.of]>>} ELSE {})

Answer(t) ==
    /\ grid[t].page.st = "pending"
    /\ \/ \E items \in PageOf(grid[t].page):
             grid' = [grid EXCEPT ![t].page = [st |-> "ok", items |-> items, n |-> @.n]]
       \/ grid' = [grid EXCEPT ![t].page = [st |-> "err"]]
    /\ UNCHANGED <<settings, kind, list, tab, seen>>

(* sync_tmdb and forget_live: a list of the user stays. *)
Sync ==
    /\ Compare
    /\ IF Forgets(ChangeFrom(last, set))
       THEN /\ grid' = IF IsRemote(list) THEN [t \in Tabs |-> Cleared(grid[t])] ELSE grid
            /\ seen' = None
       ELSE UNCHANGED <<grid, seen>>
    /\ UNCHANGED <<kind, list, tab>>

Next ==
    \/ Edit /\ UNCHANGED grids
    \/ Sync
    \/ Draw
    \/ Retry
    \/ \E l \in Shelf: Open(l) \/ Filter(l)
    \/ \E t \in Tabs: SwitchTab(t) \/ Answer(t)

Spec == Init /\ [][Next]_vars

-----------------------------------------------------------------------------
Pages(g) == 1..(g.next - 1)

(* What a grid holds are the pages before the next one, in their order, each  *)
(* once, with no gap after an error and its retry.                            *)
InOrder(items, pages) ==
    /\ {items[i].n: i \in DOMAIN items} = pages
    /\ \A i, j \in DOMAIN items: i < j => items[i].n < items[j].n

PagesInOrder == \A t \in Tabs: InOrder(grid[t].items, Pages(grid[t]) \ Empty)

(* Whatever a frame paints is of the list and the tab on screen and in the    *)
(* language of the settings, the answers of grids that were reset included.   *)
GridOfItsList ==
    (set = last /\ Usable(set) /\ IsRemote(list)) =>
        \A i \in DOMAIN Followed[tab].items: Followed[tab].items[i].of = Source

(* The spinner is over a request that runs, or an answer the next frame takes. *)
LoadingIsReal ==
    \A t \in Tabs: grid[t].loading => grid[t].page.st # "idle"

GridSafe == PagesInOrder /\ GridOfItsList /\ LoadingIsReal
=============================================================================
