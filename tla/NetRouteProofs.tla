--------------------------- MODULE NetRouteProofs ---------------------------
(***************************************************************************)
(* Theorems of NetRoute: a request is sent where its settings let it, and  *)
(* tries what is known, whatever clients the requests share, with proofs.  *)
(***************************************************************************)
EXTENDS NetRoute, TLAPS

Asking == {"client", "build"}
Resolving == {"lookup", "connect", "failed"}

RequestState ==
    [net: Configs \cup {None}, stage: {"idle", "plain"} \cup Asking \cup Resolving,
     plain: {None, "transport"}, asked: SUBSET (Provider \cup {System}),
     addrs: SUBSET Public, tried: SUBSET Public, knew: SUBSET Provider]

NetTypeOK ==
    /\ net \in Configs
    /\ clients \in [Configs -> Client \cup {None}]
    /\ req \in [Request -> RequestState]
    /\ lookups \subseteq [by: Request \cup {None}, net: Configs, of: Provider]
    /\ learned \in [Configs -> SUBSET Provider]

(* Only a client that is kept makes lookups, and has the custom provider   *)
(* only for settings that name one.                                        *)
ClientsAreKept ==
    /\ \A c \in Configs:
          IF clients[c] = None THEN learned[c] = {}
          ELSE Custom \in clients[c].providers => c.custom
    /\ \A l \in lookups: clients[l.net] # None

(* How far the settings have let a request come. *)
RouteSoFar(r) ==
    /\ r.stage # "idle" => r.net \in Configs
    /\ r.stage = "plain" => r.plain = None
    /\ r.stage \in Asking \cup Resolving =>
          r.net.bypass /\ r.plain = IF r.net.proxy THEN "transport" ELSE None
    /\ r.asked # {} => r.stage \in Resolving
    /\ Custom \in r.asked => r.net.custom

(* What a request knows as it resolves is among what it goes on to try. *)
KnownSoFar(r) ==
    /\ r.stage \in {"lookup", "connect"} => PublicOf(r.knew) \subseteq r.addrs
    /\ r.stage = "lookup" => System \notin r.asked
    /\ r.stage \in Resolving /\ System \in r.asked => PublicOf(r.knew) = {}
    /\ r.stage = "failed" => PublicOf(r.knew) \subseteq r.tried

(* The inductive invariant. *)
NetInv ==
    /\ NetTypeOK
    /\ ClientsAreKept
    /\ NothingLearnedIsLost
    /\ \A r \in Request: RouteSoFar(req[r]) /\ KnownSoFar(req[r])

-----------------------------------------------------------------------------
LEMMA PublicOfIsPublic ==
    ASSUME NEW S
    PROVE  PublicOf(S) \subseteq Public
BY DEF PublicOf

LEMMA PublicOfGrows ==
    ASSUME NEW S, NEW T, S \subseteq T
    PROVE  PublicOf(S) \subseteq PublicOf(T)
BY DEF PublicOf

LEMMA IdleIsSound ==
    Idle \in RequestState /\ RouteSoFar(Idle) /\ KnownSoFar(Idle)
BY DEF Idle, RequestState, RouteSoFar, KnownSoFar, Asking, Resolving

(* A client that is there is a client, and has its settings. *)
LEMMA ClientIsThere ==
    ASSUME NetTypeOK, NEW c \in Configs, clients[c] # None
    PROVE  clients[c] \in Client
BY DEF NetTypeOK

(* Most steps are one of a request, which leaves the clients alone. *)
LEMMA RequestStep ==
    ASSUME NetInv, NEW r \in Request, NEW v \in RequestState,
           RouteSoFar(v), KnownSoFar(v),
           req' = [req EXCEPT ![r] = v],
           lookups' \subseteq [by: Request \cup {None}, net: Configs, of: Provider],
           \A l \in lookups': clients[l.net] # None,
           UNCHANGED <<net, clients, learned>>
    PROVE  NetInv'
<1>1. NetTypeOK'
  BY DEF NetInv, NetTypeOK
<1>2. ClientsAreKept' /\ NothingLearnedIsLost'
  BY DEF NetInv, ClientsAreKept, NothingLearnedIsLost
<1>3. \A q \in Request: RouteSoFar(req'[q]) /\ KnownSoFar(req'[q])
  BY DEF NetInv, NetTypeOK
<1> QED BY <1>1, <1>2, <1>3 DEF NetInv

LEMMA LookupsAreSound ==
    ASSUME NetInv
    PROVE  /\ lookups \subseteq [by: Request \cup {None}, net: Configs, of: Provider]
           /\ \A l \in lookups: clients[l.net] # None
BY DEF NetInv, NetTypeOK, ClientsAreKept

LEMMA InitHolds ==
    ASSUME NetAssumption, NetInit
    PROVE  NetInv
<1>1. NetTypeOK
  BY IdleIsSound DEF NetAssumption, NetInit, NetTypeOK
<1>2. ClientsAreKept /\ NothingLearnedIsLost
  BY DEF NetInit, ClientsAreKept, NothingLearnedIsLost
<1>3. \A r \in Request: RouteSoFar(req[r]) /\ KnownSoFar(req[r])
  BY IdleIsSound DEF NetInit
<1> QED BY <1>1, <1>2, <1>3 DEF NetInv

-----------------------------------------------------------------------------
LEMMA SendHolds ==
    ASSUME NetAssumption, NetInv, NEW r \in Request, Send(r)
    PROVE  NetInv'
<1> DEFINE first == IF net.bypass /\ ~net.proxy THEN "client" ELSE "plain"
           v == [Idle EXCEPT !.net = net, !.stage = first]
<1>1. net \in Configs /\ net.bypass \in BOOLEAN /\ net.proxy \in BOOLEAN
  BY DEF NetInv, NetTypeOK, NetAssumption
<1>2. first \in {"client", "plain"} /\ (first = "client" => net.bypass /\ ~net.proxy)
  OBVIOUS
<1>3. req' = [req EXCEPT ![r] = v] /\ UNCHANGED <<net, clients, lookups, learned>>
  BY DEF Send
<1> HIDE DEF first
<1>4. v \in RequestState
  BY <1>1, <1>2, IdleIsSound DEF RequestState, Asking
<1>5. /\ v.net = net /\ v.stage = first /\ v.plain = None
      /\ v.asked = {} /\ v.addrs = {} /\ v.tried = {} /\ v.knew = {}
  BY DEF Idle
<1> HIDE DEF v
<1>6. RouteSoFar(v) /\ KnownSoFar(v)
  BY <1>1, <1>2, <1>5 DEF RouteSoFar, KnownSoFar, Asking, Resolving
<1> QED BY <1>3, <1>4, <1>6, RequestStep, LookupsAreSound

LEMMA PlainHolds ==
    ASSUME NetAssumption, NetInv, NEW r \in Request, NEW outcome, Plain(r, outcome)
    PROVE  NetInv'
<1> DEFINE c == req[r].net
           again == c.proxy /\ c.bypass /\ outcome = "transport"
           u == [req[r] EXCEPT !.stage = "client", !.plain = outcome]
           v == IF again THEN u ELSE Idle
<1>1. req[r] \in RequestState /\ RouteSoFar(req[r]) /\ KnownSoFar(req[r]) /\ req[r].stage = "plain"
  BY DEF NetInv, NetTypeOK, Plain
<1>2. c \in Configs /\ c.bypass \in BOOLEAN /\ c.proxy \in BOOLEAN /\ req[r].asked = {}
  BY <1>1 DEF NetAssumption, RouteSoFar, Resolving
<1>3. v \in RequestState /\ RouteSoFar(v) /\ KnownSoFar(v)
  <2>1. CASE again
    <3>1. u \in RequestState
      BY <1>1, <2>1 DEF RequestState, Asking
    <3>2. u.net = c /\ u.stage = "client" /\ u.plain = "transport" /\ u.asked = {}
      BY <1>1, <1>2, <2>1 DEF RequestState
    <3> HIDE DEF u
    <3>3. RouteSoFar(u) /\ KnownSoFar(u)
      BY <1>2, <2>1, <3>2 DEF RouteSoFar, KnownSoFar, Asking, Resolving
    <3> QED BY <2>1, <3>1, <3>3
  <2>2. CASE ~again
    BY <2>2, IdleIsSound
  <2> QED BY <2>1, <2>2
<1>4. req' = [req EXCEPT ![r] = v] /\ UNCHANGED <<net, clients, lookups, learned>>
  BY DEF Plain
<1> HIDE DEF v
<1> QED BY <1>3, <1>4, RequestStep, LookupsAreSound

LEMMA BuildHolds ==
    ASSUME NetAssumption, NetInv, NEW r \in Request, Build(r)
    PROVE  NetInv'
<1> DEFINE v == [req[r] EXCEPT !.stage = "build"]
<1>1. req[r] \in RequestState /\ RouteSoFar(req[r]) /\ KnownSoFar(req[r]) /\ req[r].stage = "client"
  BY DEF NetInv, NetTypeOK, Build
<1>2. v \in RequestState
  BY <1>1 DEF RequestState, Asking
<1>3. RouteSoFar(v) /\ KnownSoFar(v)
  BY <1>1 DEF RequestState, RouteSoFar, KnownSoFar, Asking, Resolving
<1>4. req' = [req EXCEPT ![r] = v] /\ UNCHANGED <<net, clients, lookups, learned>>
  BY DEF Build, Goes
<1> HIDE DEF v
<1> QED BY <1>2, <1>3, <1>4, RequestStep, LookupsAreSound

(* What Resolve makes of a request and its lookups, with a client that is *)
(* kept for its settings.                                                  *)
LEMMA ResolveIsSound ==
    ASSUME NetAssumption, NetInv, NEW r \in Request, NEW client \in Client,
           req[r].stage \in Asking, Resolve(r, client),
           Custom \in client.providers => req[r].net.custom,
           learned[req[r].net] \subseteq client.cached
    PROVE  /\ \E v \in RequestState: RouteSoFar(v) /\ KnownSoFar(v) /\ req' = [req EXCEPT ![r] = v]
           /\ lookups' \subseteq [by: Request \cup {None}, net: Configs, of: Provider]
           /\ \A l \in lookups': l \in lookups \/ l.net = req[r].net
<1> DEFINE c == req[r].net
           v == [req[r] EXCEPT !.stage = "lookup", !.asked = client.providers,
                               !.addrs = PublicOf(client.cached), !.knew = learned[c]]
           new == {[by |-> r, net |-> c, of |-> p]: p \in client.providers \ client.cached}
<1>1. req[r] \in RequestState /\ RouteSoFar(req[r]) /\ c \in Configs
  BY DEF NetInv, NetTypeOK, RouteSoFar, Asking
<1>2. client.providers \subseteq Provider /\ client.cached \subseteq Provider /\ learned[c] \subseteq Provider
  BY <1>1 DEF Client, NetInv, NetTypeOK
<1>3. v \in RequestState
  BY <1>1, <1>2, PublicOfIsPublic DEF RequestState, Resolving
<1>4. /\ v.net = c /\ v.stage = "lookup" /\ v.plain = req[r].plain /\ v.asked = client.providers
      /\ v.addrs = PublicOf(client.cached) /\ v.knew = learned[c]
  BY <1>1 DEF RequestState
<1>5. req' = [req EXCEPT ![r] = v] /\ lookups' = lookups \cup new
  BY DEF Resolve
<1> HIDE DEF v
<1>6. RouteSoFar(v)
  BY <1>1, <1>2, <1>4 DEF RouteSoFar, Asking, Resolving
<1>7. KnownSoFar(v)
  <2>1. System \notin v.asked
    BY <1>2, <1>4 DEF NetAssumption
  <2>2. PublicOf(v.knew) \subseteq v.addrs
    BY <1>4, PublicOfGrows
  <2> QED BY <1>4, <2>1, <2>2 DEF KnownSoFar
<1>8. new \subseteq [by: Request \cup {None}, net: Configs, of: Provider] /\ \A l \in new: l.net = c
  BY <1>1, <1>2
<1> HIDE DEF new
<1>9. lookups' \subseteq [by: Request \cup {None}, net: Configs, of: Provider]
  BY <1>5, <1>8, LookupsAreSound
<1> QED BY <1>3, <1>5, <1>6, <1>7, <1>8, <1>9

LEMMA CachedHolds ==
    ASSUME NetAssumption, NetInv, NEW r \in Request, Cached(r)
    PROVE  NetInv'
<1> DEFINE c == req[r].net
<1>1. req[r].stage \in Asking /\ c \in Configs /\ clients[c] # None
  BY DEF Cached, NetInv, RouteSoFar, Asking
<1>2. clients[c] \in Client
  BY <1>1, ClientIsThere DEF NetInv
<1>3. /\ Custom \in clients[c].providers => c.custom
      /\ learned[c] \subseteq clients[c].cached
  BY <1>1 DEF NetInv, ClientsAreKept, NothingLearnedIsLost
<1>4. Resolve(r, clients[c]) /\ UNCHANGED <<net, clients, learned>>
  BY DEF Cached
<1>5. /\ \E v \in RequestState: RouteSoFar(v) /\ KnownSoFar(v) /\ req' = [req EXCEPT ![r] = v]
      /\ lookups' \subseteq [by: Request \cup {None}, net: Configs, of: Provider]
      /\ \A l \in lookups': l \in lookups \/ l.net = c
  BY <1>1, <1>2, <1>3, <1>4, ResolveIsSound
<1>6. \A l \in lookups': clients[l.net] # None
  BY <1>1, <1>5, LookupsAreSound
<1> QED BY <1>4, <1>5, <1>6, RequestStep

LEMMA BuiltHolds ==
    ASSUME NetAssumption, NetInv, NEW r \in Request, NEW bootstrapped \in BOOLEAN, Built(r, bootstrapped)
    PROVE  NetInv'
<1> DEFINE c == req[r].net
           own == [providers |-> Builtin \cup (IF bootstrapped THEN {Custom} ELSE {}), cached |-> {}]
<1>1. req[r].stage \in Asking /\ c \in Configs
  BY DEF Built, NetInv, RouteSoFar, Asking
<1>2. own \in Client /\ own # None /\ (Custom \in own.providers => c.custom)
  BY DEF Built, Client, Provider, NetAssumption
<1>3. clients' = Stored(c, own) /\ Resolve(r, clients'[c]) /\ UNCHANGED <<net, learned>>
  BY DEF Built
<1> HIDE DEF own
<1>4. clients' \in [Configs -> Client \cup {None}]
  BY <1>2, <1>3 DEF Stored, NetInv, NetTypeOK
<1>5. \A d \in Configs: d # c => clients'[d] = clients[d]
  BY <1>3 DEF Stored, NetInv, NetTypeOK
<1>6. IF clients[c] = None THEN clients'[c] = own ELSE clients'[c] = clients[c]
  BY <1>1, <1>3 DEF Stored, NetInv, NetTypeOK
<1>7. clients'[c] \in Client /\ clients'[c] # None /\ (Custom \in clients'[c].providers => c.custom)
  BY <1>1, <1>2, <1>6, ClientIsThere DEF NetInv, ClientsAreKept
<1>8. learned[c] \subseteq clients'[c].cached
  BY <1>1, <1>6 DEF NetInv, ClientsAreKept, NothingLearnedIsLost
<1>9. /\ \E v \in RequestState: RouteSoFar(v) /\ KnownSoFar(v) /\ req' = [req EXCEPT ![r] = v]
      /\ lookups' \subseteq [by: Request \cup {None}, net: Configs, of: Provider]
      /\ \A l \in lookups': l \in lookups \/ l.net = c
  BY <1>1, <1>3, <1>7, <1>8, ResolveIsSound
<1>10. NetTypeOK'
  BY <1>3, <1>4, <1>9 DEF NetInv, NetTypeOK
<1>11. ClientsAreKept'
  <2>1. \A d \in Configs: IF clients'[d] = None THEN learned[d] = {}
                          ELSE Custom \in clients'[d].providers => d.custom
    BY <1>5, <1>7 DEF NetInv, ClientsAreKept
  <2>2. \A l \in lookups': clients'[l.net] # None
    BY <1>5, <1>7, <1>9, LookupsAreSound
  <2> QED BY <1>3, <2>1, <2>2 DEF ClientsAreKept
<1>12. NothingLearnedIsLost'
  BY <1>3, <1>5, <1>8 DEF NetInv, NothingLearnedIsLost
<1>13. \A q \in Request: RouteSoFar(req'[q]) /\ KnownSoFar(req'[q])
  BY <1>9 DEF NetInv, NetTypeOK
<1> QED BY <1>10, <1>11, <1>12, <1>13 DEF NetInv

-----------------------------------------------------------------------------
LEMMA AnswerHolds ==
    ASSUME NetAssumption, NetInv, NEW l \in lookups, NEW answered \in BOOLEAN, Answer(l, answered)
    PROVE  NetInv'
<1> DEFINE c == l.net
<1>1. l.by \in Request \cup {None} /\ c \in Configs /\ l.of \in Provider /\ clients[c] # None
  BY LookupsAreSound
<1>2. clients[c] \in Client
  BY <1>1, ClientIsThere DEF NetInv
<1>3. lookups' = lookups \ {l} /\ net' = net
  BY DEF Answer
<1>4. CASE ~answered
  <2>1. UNCHANGED <<net, clients, req, learned>> /\ lookups' \subseteq lookups
    BY <1>3, <1>4 DEF Answer
  <2> QED BY <2>1 DEF NetInv, NetTypeOK, ClientsAreKept, NothingLearnedIsLost
<1>5. CASE answered
  <2> DEFINE new == [clients[c] EXCEPT !.cached = @ \cup {l.of}]
  <2>1. new \in Client /\ new # None /\ new.providers = clients[c].providers
        /\ new.cached = clients[c].cached \cup {l.of}
    BY <1>1, <1>2 DEF Client, NetAssumption
  <2>2. clients' = [clients EXCEPT ![c] = new] /\ learned' = [learned EXCEPT ![c] = @ \cup {l.of}]
    BY <1>5 DEF Answer
  <2> HIDE DEF new
  <2>3. /\ clients' \in [Configs -> Client \cup {None}] /\ learned' \in [Configs -> SUBSET Provider]
        /\ clients'[c] = new /\ learned'[c] = learned[c] \cup {l.of}
        /\ \A d \in Configs: d # c => clients'[d] = clients[d] /\ learned'[d] = learned[d]
    BY <1>1, <2>1, <2>2 DEF NetInv, NetTypeOK
  <2>4. ClientsAreKept'
    <3>1. \A d \in Configs: IF clients'[d] = None THEN learned'[d] = {}
                            ELSE Custom \in clients'[d].providers => d.custom
      BY <1>1, <2>1, <2>3 DEF NetInv, ClientsAreKept
    <3>2. \A k \in lookups': clients'[k.net] # None
      BY <1>3, <2>1, <2>3, LookupsAreSound
    <3> QED BY <3>1, <3>2 DEF ClientsAreKept
  <2>5. NothingLearnedIsLost'
    BY <1>1, <2>1, <2>3 DEF NetInv, NothingLearnedIsLost
  <2>6. req' \in [Request -> RequestState] /\ \A q \in Request: RouteSoFar(req'[q]) /\ KnownSoFar(req'[q])
    <3>1. CASE l.by = None
      BY <3>1, <1>5 DEF Answer, NetInv, NetTypeOK
    <3>2. CASE l.by # None
      <4> DEFINE r == l.by
                 v == [req[r] EXCEPT !.addrs = @ \cup PublicOf({l.of})]
      <4>1. r \in Request /\ req[r] \in RequestState /\ RouteSoFar(req[r]) /\ KnownSoFar(req[r])
        BY <1>1, <3>2 DEF NetInv, NetTypeOK
      <4>2. v \in RequestState
        BY <4>1, PublicOfIsPublic DEF RequestState
      <4>3. /\ v.net = req[r].net /\ v.stage = req[r].stage /\ v.plain = req[r].plain
            /\ v.asked = req[r].asked /\ v.tried = req[r].tried /\ v.knew = req[r].knew
            /\ req[r].addrs \subseteq v.addrs
        BY <4>1 DEF RequestState
      <4>4. req' = [req EXCEPT ![r] = v]
        BY <1>5, <3>2, <4>1 DEF Answer, NetInv, NetTypeOK
      <4> HIDE DEF v
      <4>5. RouteSoFar(v) /\ KnownSoFar(v)
        BY <4>1, <4>3 DEF RouteSoFar, KnownSoFar
      <4> QED BY <4>1, <4>2, <4>4, <4>5 DEF NetInv, NetTypeOK
    <3> QED BY <3>1, <3>2
  <2>7. NetTypeOK'
    BY <1>3, <2>3, <2>6 DEF NetInv, NetTypeOK
  <2> QED BY <2>4, <2>5, <2>6, <2>7 DEF NetInv
<1> QED BY <1>4, <1>5

LEMMA WindowHolds ==
    ASSUME NetAssumption, NetInv, NEW r \in Request, Window(r)
    PROVE  NetInv'
<1> DEFINE v == [req[r] EXCEPT !.stage = "connect"]
           detached == {[l EXCEPT !.by = None]: l \in Waiting(r)}
<1>1. req[r] \in RequestState /\ RouteSoFar(req[r]) /\ KnownSoFar(req[r]) /\ req[r].stage = "lookup"
  BY DEF NetInv, NetTypeOK, Window
<1>2. v \in RequestState
  BY <1>1 DEF RequestState, Resolving
<1>3. RouteSoFar(v) /\ KnownSoFar(v)
  BY <1>1 DEF RequestState, RouteSoFar, KnownSoFar, Asking, Resolving
<1>4. /\ req' = [req EXCEPT ![r] = v] /\ UNCHANGED <<net, clients, learned>>
      /\ lookups' = (lookups \ Waiting(r)) \cup detached
  BY DEF Window, Goes
<1> HIDE DEF v
<1>5. /\ detached \subseteq [by: Request \cup {None}, net: Configs, of: Provider]
      /\ \A l \in detached: clients[l.net] # None
  BY LookupsAreSound DEF Waiting
<1> HIDE DEF detached
<1>6. /\ lookups' \subseteq [by: Request \cup {None}, net: Configs, of: Provider]
      /\ \A l \in lookups': clients[l.net] # None
  BY <1>4, <1>5, LookupsAreSound
<1> QED BY <1>2, <1>3, <1>4, <1>6, RequestStep

LEMMA AskSystemHolds ==
    ASSUME NetAssumption, NetInv, NEW r \in Request, NEW answered \in BOOLEAN, AskSystem(r, answered)
    PROVE  NetInv'
<1> DEFINE found == IF answered THEN PublicOf({System}) ELSE {}
           next == IF found = {} THEN "failed" ELSE "connect"
           to == IF found = {} THEN Failed(r) ELSE [req[r] EXCEPT !.stage = "connect"]
           v == [to EXCEPT !.asked = req[r].asked \cup {System}, !.addrs = found]
<1>1. /\ req[r] \in RequestState /\ RouteSoFar(req[r]) /\ KnownSoFar(req[r])
      /\ req[r].stage = "lookup" /\ req[r].addrs = {}
  BY DEF NetInv, NetTypeOK, AskSystem
<1>2. found \subseteq Public /\ next \in {"failed", "connect"} /\ PublicOf(req[r].knew) = {}
  BY <1>1, PublicOfIsPublic DEF KnownSoFar
<1>3. to \in RequestState /\ to = [req[r] EXCEPT !.stage = next]
  BY <1>1, <1>2 DEF RequestState, Resolving, Failed
<1>4. req' = [req EXCEPT ![r] = v] /\ UNCHANGED <<net, clients, lookups, learned>>
  BY DEF AskSystem
<1>5. /\ to.net = req[r].net /\ to.stage = next /\ to.plain = req[r].plain
      /\ to.asked = req[r].asked /\ to.tried = req[r].tried /\ to.knew = req[r].knew
  BY <1>1, <1>3 DEF RequestState
<1> HIDE DEF found, next, to
<1>6. v \in RequestState
  BY <1>2, <1>3 DEF RequestState
<1>7. /\ v.net = req[r].net /\ v.stage = next /\ v.plain = req[r].plain
      /\ v.asked = req[r].asked \cup {System} /\ v.knew = req[r].knew /\ v.tried = req[r].tried
  BY <1>3, <1>5 DEF RequestState
<1> HIDE DEF v
<1>8. RouteSoFar(v)
  BY <1>1, <1>2, <1>7 DEF NetAssumption, Provider, RouteSoFar, Asking, Resolving
<1>9. KnownSoFar(v)
  BY <1>2, <1>7 DEF KnownSoFar
<1> QED BY <1>4, <1>6, <1>8, <1>9, RequestStep, LookupsAreSound

LEMMA ConnectHolds ==
    ASSUME NetAssumption, NetInv, NEW r \in Request, NEW a \in Public, NEW taken \in BOOLEAN,
           Connect(r, a, taken)
    PROVE  NetInv'
<1> DEFINE u == [req[r] EXCEPT !.tried = @ \cup {a}]
           v == IF taken THEN Idle ELSE u
<1>1. /\ req[r] \in RequestState /\ RouteSoFar(req[r]) /\ KnownSoFar(req[r])
      /\ req[r].stage = "connect"
  BY DEF NetInv, NetTypeOK, Connect
<1>2. u \in RequestState
  BY <1>1 DEF RequestState
<1>3. /\ u.net = req[r].net /\ u.stage = "connect" /\ u.plain = req[r].plain
      /\ u.asked = req[r].asked /\ u.addrs = req[r].addrs /\ u.knew = req[r].knew
  BY <1>1 DEF RequestState
<1>4. req' = [req EXCEPT ![r] = v] /\ UNCHANGED <<net, clients, lookups, learned>>
  BY DEF Connect
<1> HIDE DEF u
<1>5. RouteSoFar(u) /\ KnownSoFar(u)
  BY <1>1, <1>3 DEF RouteSoFar, KnownSoFar, Asking, Resolving
<1>6. v \in RequestState /\ RouteSoFar(v) /\ KnownSoFar(v)
  BY <1>2, <1>5, IdleIsSound
<1> HIDE DEF v
<1> QED BY <1>4, <1>6, RequestStep, LookupsAreSound

LEMMA UnreachableHolds ==
    ASSUME NetAssumption, NetInv, NEW r \in Request, Unreachable(r)
    PROVE  NetInv'
<1> DEFINE v == Failed(r)
<1>1. /\ req[r] \in RequestState /\ RouteSoFar(req[r]) /\ KnownSoFar(req[r])
      /\ req[r].stage = "connect" /\ req[r].tried = req[r].addrs
  BY DEF NetInv, NetTypeOK, Unreachable
<1>2. v \in RequestState
  BY <1>1 DEF Failed, RequestState, Resolving
<1>3. RouteSoFar(v) /\ KnownSoFar(v)
  BY <1>1 DEF Failed, RequestState, RouteSoFar, KnownSoFar, Asking, Resolving
<1>4. req' = [req EXCEPT ![r] = v] /\ UNCHANGED <<net, clients, lookups, learned>>
  BY DEF Unreachable
<1> HIDE DEF v
<1> QED BY <1>2, <1>3, <1>4, RequestStep, LookupsAreSound

LEMMA TimedOutHolds ==
    ASSUME NetAssumption, NetInv, NEW r \in Request, TimedOut(r)
    PROVE  NetInv'
<1>1. /\ req' = [req EXCEPT ![r] = Idle] /\ UNCHANGED <<net, clients, learned>>
      /\ lookups' \subseteq lookups
  BY DEF TimedOut
<1>2. /\ lookups' \subseteq [by: Request \cup {None}, net: Configs, of: Provider]
      /\ \A l \in lookups': clients[l.net] # None
  BY <1>1, LookupsAreSound
<1> QED BY <1>1, <1>2, IdleIsSound, RequestStep

LEMMA ExpireHolds ==
    ASSUME NetAssumption, NetInv, NEW c \in Configs, NEW p \in Provider, Expire(c, p)
    PROVE  NetInv'
<1> DEFINE new == [clients[c] EXCEPT !.cached = @ \ {p}]
<1>1. clients[c] # None /\ clients[c] \in Client
  BY ClientIsThere DEF Expire, NetInv
<1>2. new \in Client /\ new # None /\ new.providers = clients[c].providers
      /\ new.cached = clients[c].cached \ {p}
  BY <1>1 DEF Client, NetAssumption
<1>3. /\ clients' = [clients EXCEPT ![c] = new] /\ learned' = [learned EXCEPT ![c] = @ \ {p}]
      /\ UNCHANGED <<net, req, lookups>>
  BY DEF Expire
<1> HIDE DEF new
<1>4. /\ clients' \in [Configs -> Client \cup {None}] /\ learned' \in [Configs -> SUBSET Provider]
      /\ clients'[c] = new /\ learned'[c] = learned[c] \ {p}
      /\ \A d \in Configs: d # c => clients'[d] = clients[d] /\ learned'[d] = learned[d]
  BY <1>2, <1>3 DEF NetInv, NetTypeOK
<1>5. NetTypeOK'
  BY <1>3, <1>4 DEF NetInv, NetTypeOK
<1>6. ClientsAreKept'
  <2>1. \A d \in Configs: IF clients'[d] = None THEN learned'[d] = {}
                          ELSE Custom \in clients'[d].providers => d.custom
    BY <1>1, <1>2, <1>4 DEF NetInv, ClientsAreKept
  <2>2. \A l \in lookups': clients'[l.net] # None
    BY <1>2, <1>3, <1>4, LookupsAreSound
  <2> QED BY <2>1, <2>2 DEF ClientsAreKept
<1>7. NothingLearnedIsLost'
  BY <1>1, <1>2, <1>4 DEF NetInv, NothingLearnedIsLost
<1> QED BY <1>3, <1>5, <1>6, <1>7 DEF NetInv

-----------------------------------------------------------------------------
LEMMA NextHolds ==
    ASSUME NetAssumption, NetInv, [NetNext]_netVars
    PROVE  NetInv'
<1>1. CASE NetNext
  <2>1. ASSUME NEW r \in Request,
               Send(r) \/ Cached(r) \/ Build(r) \/ Window(r) \/ Unreachable(r) \/ TimedOut(r)
        PROVE  NetInv'
    BY <2>1, SendHolds, CachedHolds, BuildHolds, WindowHolds, UnreachableHolds, TimedOutHolds
  <2>2. ASSUME NEW r \in Request, NEW outcome, Plain(r, outcome)
        PROVE  NetInv'
    BY <2>2, PlainHolds
  <2>3. ASSUME NEW r \in Request, NEW yes \in BOOLEAN,
               Built(r, yes) \/ AskSystem(r, yes) \/ \E a \in Public: Connect(r, a, yes)
        PROVE  NetInv'
    BY <2>3, BuiltHolds, AskSystemHolds, ConnectHolds
  <2>4. ASSUME NEW l \in lookups, NEW yes \in BOOLEAN, Answer(l, yes)
        PROVE  NetInv'
    BY <2>4, AnswerHolds
  <2>5. ASSUME NEW c \in Configs, Change(c)
        PROVE  NetInv'
    BY <2>5 DEF Change, NetInv, NetTypeOK, ClientsAreKept, NothingLearnedIsLost
  <2>6. ASSUME NEW c \in Configs, NEW p \in Provider, Expire(c, p)
        PROVE  NetInv'
    BY <2>6, ExpireHolds
  <2> QED BY <1>1, <2>1, <2>2, <2>3, <2>4, <2>5, <2>6 DEF NetNext
<1>2. CASE UNCHANGED netVars
  BY <1>2 DEF netVars, NetInv, NetTypeOK, ClientsAreKept, NothingLearnedIsLost
<1> QED BY <1>1, <1>2

LEMMA InvIsSafe ==
    ASSUME NetInv
    PROVE  NetSafe
<1>1. TriesWhatIsKnown
  BY DEF NetInv, KnownSoFar, TriesWhatIsKnown, Resolving
<1>2. OnlyPublic
  BY DEF NetInv, NetTypeOK, RequestState, OnlyPublic
<1>3. RouteAsSet
  BY DEF NetInv, RouteSoFar, RouteAsSet
<1> QED BY <1>1, <1>2, <1>3 DEF NetSafe, NetInv

(* The state of cinebox-net is what its types in Rust say it is, and what  *)
(* is under way belongs to settings, a client and a request there are.     *)
THEOREM TypeCorrect ==
    ASSUME NetAssumption
    PROVE  NetSpec => []NetTypeOK
<1>1. NetInit => NetInv
  BY InitHolds
<1>2. NetInv /\ [NetNext]_netVars => NetInv'
  BY NextHolds
<1>3. NetInv => NetTypeOK
  BY DEF NetInv
<1> QED BY <1>1, <1>2, <1>3, PTL DEF NetSpec

(* send_resilient, lookup_all and store_client: for any settings, providers *)
(* and requests at once, a request goes only where its settings let it,     *)
(* tries what was known, and nothing that was learned is lost.              *)
THEOREM RequestsAreRouted ==
    ASSUME NetAssumption
    PROVE  NetSpec => []NetSafe
<1>1. NetInit => NetInv
  BY InitHolds
<1>2. NetInv /\ [NetNext]_netVars => NetInv'
  BY NextHolds
<1>3. NetInv => NetSafe
  BY InvIsSafe
<1> QED BY <1>1, <1>2, <1>3, PTL DEF NetSpec
=============================================================================
