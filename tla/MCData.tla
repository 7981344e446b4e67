------------------------------- MODULE MCData -------------------------------
(***************************************************************************)
(* Where the screens of the catalog have their data from, in one run: the  *)
(* database as it is opened (StoreOpen), a page over a Cached value        *)
(* (SwrPages), a grid that is paged (PagedGrids), and the way a request    *)
(* leaves the machine (NetRoute).  A behaviour is about one of them and    *)
(* the others do not move.                                                 *)
(***************************************************************************)
EXTENDS StoreOpen, FiniteSets, TLC

CONSTANTS
    p1, p2, Key, NoKey, Malformed, Language, Net, Subject, Row, None,
    Shelf, Local, Tab, Total, EmptyPage,
    Request, custom, quad, system, near, far, sinkhole

VARIABLES
    part,      \* what the behaviour is about
    set, last, kind, subject, cache, jobs, db, owed, list, tab, grid, seen

VARIABLES net, clients, req, lookups, learned

Pages == INSTANCE SwrPages
Grids == INSTANCE PagedGrids WITH Empty <- EmptyPage

(* Three settings of the network; a sinkhole in the answers of two.        *)
Route == INSTANCE NetRoute WITH
    Configs <- {[proxy |-> TRUE, bypass |-> TRUE, custom |-> FALSE],
                [proxy |-> FALSE, bypass |-> TRUE, custom |-> TRUE],
                [proxy |-> TRUE, bypass |-> FALSE, custom |-> FALSE]},
    Builtin <- {quad},
    Custom <- custom,
    System <- system,
    Names <- custom :> {near} @@ quad :> {far, sinkhole} @@ system :> {near, sinkhole},
    Public <- {near, far}

ASSUME RouteAssumed == Route!NetAssumption

ASSUME PagesAssumed == Pages!PagesAssumption

shared == <<set, last, kind>>
page == <<subject, cache, jobs, db, owed>>
gridded == <<list, tab, grid, seen>>
routed == <<net, clients, req, lookups, learned>>

StillOpen ==
    /\ Init
    /\ disk = 0

StillPage ==
    /\ subject = CHOOSE s \in Subject: TRUE
    /\ cache = <<>> /\ jobs = {} /\ db = <<>> /\ owed = FALSE

StillGrid ==
    /\ list = CHOOSE l \in Shelf: TRUE
    /\ tab = None /\ grid = <<>> /\ seen = None

StillRoute ==
    /\ net = None
    /\ clients = <<>> /\ req = <<>> /\ lookups = {} /\ learned = <<>>

DataInit ==
    \/ part = "open" /\ Init /\ set = <<>> /\ last = <<>> /\ kind = "none" /\ StillPage /\ StillGrid /\ StillRoute
    \/ part = "page" /\ Pages!Init /\ StillOpen /\ StillGrid /\ StillRoute
    \/ part = "grid" /\ Grids!Init /\ StillOpen /\ StillPage /\ StillRoute
    \/ part = "net" /\ Route!NetInit /\ set = <<>> /\ last = <<>> /\ kind = "none" /\ StillOpen /\ StillPage /\ StillGrid

DataNext ==
    \/ part = "open" /\ Next /\ UNCHANGED <<part, shared, page, gridded, routed>>
    \/ part = "page" /\ Pages!Next /\ UNCHANGED <<part, vars, gridded, routed>>
    \/ part = "grid" /\ Grids!Next /\ UNCHANGED <<part, vars, page, routed>>
    \/ part = "net" /\ Route!NetNext /\ UNCHANGED <<part, vars, shared, page, gridded>>

DataSpec == DataInit /\ [][DataNext]_<<part, vars, shared, page, gridded, routed>>

(* Of a page: at most two loads run, and the caches in use, the entries of  *)
(* the database and the loads are at most three.  Of the network: one DoH   *)
(* client, since those of two settings never meet.                          *)
Few ==
    /\ part = "page" =>
        /\ Cardinality(jobs) <= 2
        /\ Cardinality({s \in DOMAIN cache: cache[s] # Pages!Fresh})
               + Cardinality({n \in Pages!Names: db[n] # Pages!Empty[n]}) + Cardinality(jobs) <= 3
    /\ Cardinality({c \in DOMAIN clients: clients[c] # None}) <= 1

Interchangeable == Permutations(Language) \cup Permutations(Subject) \cup Permutations(Row)

(* Late answers, stale snapshots and changed keys: what a page paints. *)
PageIsCurrent == part = "page" => Pages!TypeOK /\ Pages!PageSafe

(* Late pages, errors and retries: what a grid holds. *)
GridIsInOrder == part = "grid" => Grids!GridSafe

(* Late lookups, shared clients, sinkholes: what a request is sent to. *)
RequestIsRouted == part = "net" => Route!NetSafe
=============================================================================
