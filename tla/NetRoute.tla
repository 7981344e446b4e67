------------------------------ MODULE NetRoute ------------------------------
(***************************************************************************)
(* How a request leaves the machine (cinebox-net): by the plain client,    *)
(* over the system's proxy if it is on, or directly with the host resolved *)
(* over DoH.  Requests of several tasks share one DoH client for each set  *)
(* of network settings, and with it what its resolvers remember.           *)
(*                                                                         *)
(* Every request is for one host and opens a connection; timeout and user  *)
(* agent, which are part of the key of a client too, are the same for all, *)
(* and resolvers and clients can always be built.  Sockets, the resolvers  *)
(* and the proxies of the systems are external.                            *)
(***************************************************************************)
CONSTANTS
    Configs,   \* NetConfig: [proxy, bypass, custom |-> BOOLEAN], the last: is there a custom URL
    Request,   \* those that may run at once
    Builtin,   \* PROVIDERS
    Custom,    \* the provider behind the custom URL
    System,    \* the resolver of the system
    Names,     \* the addresses each of them has for the host
    Public,    \* those among them that are no sinkhole
    None

Provider == Builtin \cup {Custom}

Client == [providers: SUBSET Provider, cached: SUBSET Provider]

NetAssumption ==
    /\ Configs \subseteq [proxy: BOOLEAN, bypass: BOOLEAN, custom: BOOLEAN]
    /\ Custom \notin Builtin
    /\ System \notin Provider
    /\ None \notin Request \cup Configs \cup Client

VARIABLES
    net,       \* the settings a request is sent with
    clients,   \* CLIENTS: the DoH client of each NetConfig, the providers it has and those whose
               \* answer its resolvers remember
    req,       \* what each request has come to; Idle once it is answered, or is over otherwise
               \* than by an address that is missing or takes no connection
    lookups,   \* the lookups that run, by a request or detached from it
    learned    \* the providers that have answered a lookup made with a NetConfig, until the
               \* answer runs out; only properties read it

netVars == <<net, clients, req, lookups, learned>>

Idle ==
    [net |-> None, stage |-> "idle", plain |-> None, asked |-> {}, addrs |-> {}, tried |-> {},
     knew |-> {}]

(* public_addrs *)
PublicOf(providers) == {a \in Public: \E p \in providers: a \in Names[p]}

Waiting(r) == {l \in lookups: l.by = r}

Goes(r, stage) == req' = [req EXCEPT ![r].stage = stage]
Failed(r) == [req[r] EXCEPT !.stage = "failed"]

-----------------------------------------------------------------------------
(* send_resilient: the settings decide on the first route. *)
Send(r) ==
    /\ req[r].stage \in {"idle", "failed"}
    /\ req' = [req EXCEPT ![r] =
           [Idle EXCEPT !.net = net, !.stage = IF net.bypass /\ ~net.proxy THEN "client" ELSE "plain"]]
    /\ UNCHANGED <<net, clients, lookups, learned>>

(* The request over plain_client; send_primary_then_doh, when the proxy is on. *)
Plain(r, outcome) ==
    LET c == req[r].net
        again == c.proxy /\ c.bypass /\ outcome = "transport"
    IN  /\ req[r].stage = "plain"
        /\ req' = [req EXCEPT ![r] =
               IF again THEN [@ EXCEPT !.stage = "client", !.plain = outcome] ELSE Idle]
        /\ UNCHANGED <<net, clients, lookups, learned>>

(* lookup_all: every provider at once; what is remembered is there at once. *)
Resolve(r, client) ==
    LET c == req[r].net
    IN  /\ req' = [req EXCEPT ![r] =
               [req[r] EXCEPT !.stage = "lookup", !.asked = client.providers,
                              !.addrs = PublicOf(client.cached), !.knew = learned[c]]]
        /\ lookups' = lookups \cup
               {[by |-> r, net |-> c, of |-> p]: p \in client.providers \ client.cached}

(* doh_client, when there is one. *)
Cached(r) ==
    /\ req[r].stage = "client"
    /\ clients[req[r].net] # None
    /\ Resolve(r, clients[req[r].net])
    /\ UNCHANGED <<net, clients, learned>>

(* doh_client, on to DohResolve::new. *)
Build(r) ==
    /\ req[r].stage = "client"
    /\ clients[req[r].net] = None
    /\ Goes(r, "build")
    /\ UNCHANGED <<net, clients, lookups, learned>>

(* Mutant: the client that was built last is stored over another task's. *)
StoredLast(c, client) == [clients EXCEPT ![c] = client]

(* store_client: the first that is stored stays. *)
Stored(c, client) == IF clients[c] = None THEN [clients EXCEPT ![c] = client] ELSE clients

(* The custom host is resolved by the system once; if that fails, the      *)
(* client goes without it.                                                 *)
Built(r, bootstrapped) ==
    LET c == req[r].net
        own == [providers |-> Builtin \cup (IF bootstrapped THEN {Custom} ELSE {}), cached |-> {}]
    IN  /\ req[r].stage = "build"
        /\ bootstrapped => c.custom
        /\ clients' = Stored(c, own)
        /\ Resolve(r, clients'[c])
        /\ UNCHANGED <<net, learned>>

-----------------------------------------------------------------------------
(* A lookup ends; a failed one is not remembered. *)
Answer(l, answered) ==
    LET c == l.net
        waits == answered /\ l.by # None
    IN  /\ lookups' = lookups \ {l}
        /\ learned' = IF answered THEN [learned EXCEPT ![c] = @ \cup {l.of}] ELSE learned
        /\ clients' = IF answered THEN [clients EXCEPT ![c].cached = @ \cup {l.of}] ELSE clients
        /\ req' = IF waits THEN [req EXCEPT ![l.by].addrs = @ \cup PublicOf({l.of})] ELSE req
        /\ UNCHANGED <<net>>

(* lookup_all: once there is an address, MORE_ANSWERS passes or nothing is *)
(* left to wait for; lookups still running go on.                          *)
Window(r) ==
    /\ req[r].stage = "lookup"
    /\ req[r].addrs # {}
    /\ Goes(r, "connect")
    /\ lookups' = (lookups \ Waiting(r)) \cup {[l EXCEPT !.by = None]: l \in Waiting(r)}
    /\ UNCHANGED <<net, clients, learned>>

(* resolve: the system is asked only if no provider gave a public address, *)
(* and believed only if it gives one.                                      *)
AskSystem(r, answered) ==
    LET found == IF answered THEN PublicOf({System}) ELSE {}
    IN  /\ req[r].stage = "lookup"
        /\ req[r].addrs = {}
        /\ Waiting(r) = {}
        /\ req' = [req EXCEPT ![r] =
               [(IF found = {} THEN Failed(r) ELSE [req[r] EXCEPT !.stage = "connect"])
                   EXCEPT !.asked = req[r].asked \cup {System}, !.addrs = found]]
        /\ UNCHANGED <<net, clients, lookups, learned>>

(* The connector tries the addresses in turn. *)
Connect(r, a, taken) ==
    /\ req[r].stage = "connect"
    /\ a \in req[r].addrs \ req[r].tried
    /\ req' = [req EXCEPT ![r] =
           IF taken THEN Idle ELSE [req[r] EXCEPT !.tried = @ \cup {a}]]
    /\ UNCHANGED <<net, clients, lookups, learned>>

Unreachable(r) ==
    /\ req[r].stage = "connect"
    /\ req[r].tried = req[r].addrs
    /\ req' = [req EXCEPT ![r] = Failed(r)]
    /\ UNCHANGED <<net, clients, lookups, learned>>

(* The connect timeout takes in the resolving: its lookups are dropped. *)
TimedOut(r) ==
    /\ req[r].stage \in {"lookup", "connect"}
    /\ req' = [req EXCEPT ![r] = Idle]
    /\ lookups' = lookups \ Waiting(r)
    /\ UNCHANGED <<net, clients, learned>>

-----------------------------------------------------------------------------
(* The settings change; requests under way keep theirs. *)
Change(c) ==
    /\ c # net
    /\ net' = c
    /\ UNCHANGED <<clients, req, lookups, learned>>

(* The time an answer is good for runs out. *)
Expire(c, p) ==
    /\ clients[c] # None
    /\ p \in clients[c].cached
    /\ clients' = [clients EXCEPT ![c].cached = @ \ {p}]
    /\ learned' = [learned EXCEPT ![c] = @ \ {p}]
    /\ UNCHANGED <<net, req, lookups>>

NetInit ==
    /\ net \in Configs
    /\ clients = [c \in Configs |-> None]
    /\ req = [r \in Request |-> Idle]
    /\ lookups = {}
    /\ learned = [c \in Configs |-> {}]

NetNext ==
    \/ \E r \in Request:
           \/ Send(r) \/ Cached(r) \/ Build(r) \/ Window(r) \/ Unreachable(r) \/ TimedOut(r)
           \/ \E outcome \in {"answer", "other", "transport"}: Plain(r, outcome)
           \/ \E yes \in BOOLEAN:
                  Built(r, yes) \/ AskSystem(r, yes) \/ \E a \in Public: Connect(r, a, yes)
    \/ \E l \in lookups, yes \in BOOLEAN: Answer(l, yes)
    \/ \E c \in Configs: Change(c) \/ \E p \in Provider: Expire(c, p)

NetSpec == NetInit /\ [][NetNext]_netVars

-----------------------------------------------------------------------------
(* What one request has learned, whichever client it built, the next one   *)
(* with these settings starts from.                                        *)
NothingLearnedIsLost == \A c \in Configs: clients[c] # None => learned[c] \subseteq clients[c].cached

(* A request that fails within its time has tried every address that was   *)
(* known when it began to resolve, and has not gone past it to the system. *)
TriesWhatIsKnown ==
    \A r \in Request: req[r].stage = "failed" =>
        /\ PublicOf(req[r].knew) \subseteq req[r].tried
        /\ System \in req[r].asked => PublicOf(req[r].knew) = {}

(* The local addresses of a sinkhole are never among those it tries.       *)
OnlyPublic == \A r \in Request: req[r].addrs \subseteq Public

(* It goes past the proxy, and past the system's DNS, only if its settings *)
(* let it and, with the proxy on, after the proxy has failed it.           *)
RouteAsSet ==
    \A r \in Request: req[r].asked # {} =>
        /\ req[r].net.bypass
        /\ req[r].plain = IF req[r].net.proxy THEN "transport" ELSE None
        /\ Custom \in req[r].asked => req[r].net.custom

NetSafe == NothingLearnedIsLost /\ TriesWhatIsKnown /\ OnlyPublic /\ RouteAsSet
=============================================================================
