-------------------------- MODULE BrowserPublications --------------------------
(***************************************************************************)
(* Browser publications (core/browser_publication.go and the framework     *)
(* routes of web/browser_publication.go): the mounts plugins publish, the  *)
(* one browser runtime of the listener, the HTTP gateways behind the       *)
(* mounts, the tickets for them and the browsers' restricted sockets.      *)
(* Ids are never reused: a publication, runtime or gateway that was        *)
(* removed stays removed.                                                  *)
(***************************************************************************)
EXTENDS Naturals, FiniteSets, SequencesExt

CONSTANTS
  Owners, Publications, Runtimes, Gateways, Tickets, Browsers,
  Paths,        \* mount paths, as sequences of segments
  Bases,        \* base paths of the listener: configured, on the command line
  MaxGateways,  \* gateways of one owner (8)
  MaxTickets    \* tickets of all owners (256)

BrowserAssumption ==
  /\ MaxGateways \in Nat /\ MaxTickets \in Nat
  /\ \A path \in Paths : path \in Seq(STRING) \ {<<>>}

VARIABLES
  mounts,      \* browserPublications.mounts: [owner, path, runtime (a set)]
  runtime,     \* browserPublications.runtime: at most one [id, owner]
  basePath,    \* browserPublications.basePath, a set: empty until it is pinned
  gateways,    \* browserPublications.gateways: [owner, publication, attached, base]
  serving,     \* gateways whose Serve goroutine has not ended
  announced,   \* gateway-closed events emitted, per gateway
  tickets,     \* browserPublications.tickets: [owner, gateway, valid]
  browser,     \* a restricted socket: [at, gateway (a set)]
  spent,       \* ids of publications, runtimes and tickets that were in use
  browserClosed

browserVars == <<mounts, runtime, basePath, gateways, serving, announced, tickets, browser,
                 spent, browserClosed>>

Init ==
  /\ mounts = <<>> /\ runtime = {} /\ basePath = {} /\ gateways = <<>> /\ serving = {}
  /\ announced = [g \in Gateways |-> 0] /\ tickets = <<>>
  /\ browser = [b \in Browsers |-> [at |-> "out", gateway |-> {}]]
  /\ spent = {} /\ browserClosed = FALSE

Mounted == DOMAIN mounts
Without(f, S) == [x \in DOMAIN f \ S |-> f[x]]
With(f, x, v) == [y \in DOMAIN f \cup {x} |-> IF y = x THEN v ELSE f[y]]

\* browserpath.Overlap: one mount is the other or lies below it.
OverlapEqual(a, b) == a = b
Overlap(a, b) == IsPrefix(a, b) \/ IsPrefix(b, a)

CloseKeepsTickets(G) ==
  /\ gateways' = Without(gateways, G) /\ serving' = serving \ G
  /\ announced' = [g \in Gateways |-> IF g \in G THEN announced[g] + 1 ELSE announced[g]]
  /\ tickets' = tickets

\* closeLocked, for each gateway of G: it leaves the map with its tickets, its
\* Serve is waited for and its plugin is told.
Close(G) ==
  /\ gateways' = Without(gateways, G) /\ serving' = serving \ G
  /\ announced' = [g \in Gateways |-> IF g \in G THEN announced[g] + 1 ELSE announced[g]]
  /\ tickets' = Without(tickets, {t \in DOMAIN tickets : tickets[t].gateway \in G})

Behind(P) == {g \in DOMAIN gateways : gateways[g].publication \in P}
unchangedGateways == UNCHANGED <<gateways, serving, announced, tickets>>

-----------------------------------------------------------------------------
(* Calls of plugins: each runs under the manager's lock. *)

RegisterRuntime(o, r) ==
  /\ ~browserClosed /\ runtime = {} /\ r \notin spent
  /\ runtime' = {[id |-> r, owner |-> o]} /\ spent' = spent \cup {r}
  /\ unchangedGateways /\ UNCHANGED <<mounts, basePath, browser, browserClosed>>

RemoveRuntime(o) ==
  \E rt \in runtime :
    LET P == {p \in Mounted : rt.id \in mounts[p].runtime}
    IN /\ ~browserClosed /\ rt.owner = o /\ runtime' = {}
       /\ Close(Behind(P)) /\ mounts' = Without(mounts, P)
       /\ UNCHANGED <<basePath, browser, spent, browserClosed>>

\* A publication brings its own worker or joins the active runtime of its owner.
Register(o, p, path, shared) ==
  /\ ~browserClosed /\ p \notin spent
  /\ shared => \E rt \in runtime : rt.owner = o
  /\ \A q \in Mounted : ~Overlap(mounts[q].path, path)
  /\ mounts' = With(mounts, p, [owner |-> o, path |-> path,
                                runtime |-> IF shared THEN {rt.id : rt \in runtime} ELSE {}])
  /\ spent' = spent \cup {p}
  /\ unchangedGateways /\ UNCHANGED <<runtime, basePath, browser, browserClosed>>

Unpublish(o, p) ==
  /\ ~browserClosed /\ p \in Mounted /\ mounts[p].owner = o
  /\ Close(Behind({p})) /\ mounts' = Without(mounts, {p})
  /\ UNCHANGED <<runtime, basePath, browser, spent, browserClosed>>

OpenGateway(o, p, g, configured) ==
  /\ ~browserClosed /\ p \in Mounted /\ mounts[p].owner = o
  /\ g \notin DOMAIN gateways /\ announced[g] = 0
  /\ Cardinality({h \in DOMAIN gateways : gateways[h].owner = o}) < MaxGateways
  /\ gateways' = With(gateways, g, [owner |-> o, publication |-> p, attached |-> FALSE,
                       base |-> IF basePath = {} THEN {configured} ELSE basePath])
  /\ serving' = serving \cup {g}
  /\ UNCHANGED <<mounts, runtime, basePath, announced, tickets, browser, spent, browserClosed>>

CloseGateway(o, g) ==
  /\ ~browserClosed /\ g \in DOMAIN gateways /\ gateways[g].owner = o
  /\ Close({g}) /\ UNCHANGED <<mounts, runtime, basePath, browser, spent, browserClosed>>

\* Expired tickets make room for the new one.
Ticket(o, g, t) ==
  LET kept == Without(tickets, {u \in DOMAIN tickets : ~tickets[u].valid})
  IN /\ ~browserClosed /\ g \in DOMAIN gateways
     /\ gateways[g].owner = o /\ ~gateways[g].attached
     /\ t \notin spent /\ spent' = spent \cup {t}
     /\ tickets' = IF Cardinality(DOMAIN kept) >= MaxTickets THEN kept
                   ELSE With(kept, t, [owner |-> o, gateway |-> g, valid |-> TRUE])
     /\ UNCHANGED <<mounts, runtime, basePath, gateways, serving, announced, browser, browserClosed>>

\* The plugin stops (one owner) or RunPilot ends (all of them).
Stop(O, all) ==
  /\ ~browserClosed /\ browserClosed' = all
  /\ Close({g \in DOMAIN gateways : gateways[g].owner \in O})
  /\ mounts' = Without(mounts, {p \in Mounted : mounts[p].owner \in O})
  /\ runtime' = {rt \in runtime : rt.owner \notin O}
  /\ UNCHANGED <<basePath, browser, spent>>

\* SetBrowserBasePath, when the listener starts.
PinBase(base) ==
  /\ basePath = {} /\ DOMAIN gateways = {} /\ basePath' = {base}
  /\ unchangedGateways /\ UNCHANGED <<mounts, runtime, browser, spent, browserClosed>>

-----------------------------------------------------------------------------
(* Timers, the Serve goroutine and the browsers. *)

ExpireTicket(t) ==
  /\ t \in DOMAIN tickets /\ tickets[t].valid
  /\ tickets' = [tickets EXCEPT ![t].valid = FALSE]
  /\ UNCHANGED <<mounts, runtime, basePath, gateways, serving, announced, browser, spent, browserClosed>>

\* One minute without a browser.
Unattached(g) ==
  /\ g \in DOMAIN gateways /\ ~gateways[g].attached
  /\ Close({g}) /\ UNCHANGED <<mounts, runtime, basePath, browser, spent, browserClosed>>

\* Serve ends by itself: the tunnel broke, or the browser's end closed it.
ServeEnds(g) ==
  /\ g \in serving /\ serving' = serving \ {g}
  /\ UNCHANGED <<mounts, runtime, basePath, gateways, announced, tickets, browser, spent, browserClosed>>

\* Its goroutine retires the gateway unless somebody has.
Retire(g) ==
  /\ g \in DOMAIN gateways \ serving
  /\ Close({g}) /\ UNCHANGED <<mounts, runtime, basePath, browser, spent, browserClosed>>

\* handleApplicationWS, first half: the ticket is used up whether it is good
\* or not, and grants one gateway.
Consume(b, t) ==
  LET g == tickets[t].gateway
      good == tickets[t].valid /\ g \in DOMAIN gateways /\ gateways[g].owner = tickets[t].owner
              /\ ~gateways[g].attached
  IN /\ browser[b].at = "out" /\ t \in DOMAIN tickets
     /\ tickets' = Without(tickets, {t})
     /\ browser' = [browser EXCEPT ![b] = IF good THEN [at |-> "granted", gateway |-> {g}]
                                          ELSE [at |-> "refused", gateway |-> {}]]
     /\ UNCHANGED <<mounts, runtime, basePath, gateways, serving, announced, spent, browserClosed>>

AvailableAlways(g) == g \in DOMAIN gateways
Available(g) == g \in DOMAIN gateways /\ ~gateways[g].attached

\* "stream.attach": the granted gateway may have been taken or closed since.
Attach(b) ==
  \E g \in browser[b].gateway :
    /\ browser[b].at = "granted" /\ Available(g)
    /\ gateways' = [gateways EXCEPT ![g].attached = TRUE]
    /\ browser' = [browser EXCEPT ![b].at = "attached"]
    /\ UNCHANGED <<mounts, runtime, basePath, serving, announced, tickets, spent, browserClosed>>

\* The socket ends: it, its session, or the gateway's end (forwardNetworkStream
\* closes a restricted socket with its stream). release retires the gateway
\* unless that has happened.
Leave(b) ==
  /\ browser[b].at \in {"granted", "attached"}
  /\ browser' = [browser EXCEPT ![b].at = "left"]
  /\ IF browser[b].at = "attached" THEN Close(browser[b].gateway \cap DOMAIN gateways)
     ELSE unchangedGateways
  /\ UNCHANGED <<mounts, runtime, basePath, spent, browserClosed>>

Next ==
  \/ \E o \in Owners :
       \/ \E r \in Runtimes : RegisterRuntime(o, r)
       \/ RemoveRuntime(o)
       \/ \E p \in Publications :
            \/ \E path \in Paths, shared \in BOOLEAN : Register(o, p, path, shared)
            \/ Unpublish(o, p)
            \/ \E g \in Gateways, base \in Bases : OpenGateway(o, p, g, base)
       \/ \E g \in Gateways : CloseGateway(o, g) \/ \E t \in Tickets : Ticket(o, g, t)
       \/ Stop({o}, FALSE)
  \/ Stop(Owners, TRUE)
  \/ \E base \in Bases : PinBase(base)
  \/ \E t \in Tickets : ExpireTicket(t) \/ \E b \in Browsers : Consume(b, t)
  \/ \E g \in Gateways : Unattached(g) \/ ServeEnds(g) \/ Retire(g)
  \/ \E b \in Browsers : Attach(b) \/ Leave(b)

Spec == Init /\ [][Next]_browserVars

-----------------------------------------------------------------------------
(* What the framework routes answer. *)

\* BrowserPublication: a publication a request path may be given to; the map
\* is searched in no order.
Answering(path) == {p \in Mounted : IsPrefix(mounts[p].path, path)}

\* BrowserRuntime: the publications listed for a runtime's worker.
Listed(rt) == {p \in Mounted : rt.id \in mounts[p].runtime /\ mounts[p].owner = rt.owner}

\* serveBrowserPublication: a publication serves a worker of its own, for its
\* mount, unless it belongs to a runtime.
OwnWorker(p) == mounts[p].runtime = {}

\* serveBrowserRuntime: the runtime's worker serves the listed publications.
RuntimeWorker(p) == \E rt \in runtime : p \in Listed(rt)

-----------------------------------------------------------------------------

GatewayRecords == [owner : Owners, publication : Publications, attached : BOOLEAN, base : SUBSET Bases]
TypeOK ==
  /\ mounts \in [Mounted -> [owner : Owners, path : Paths, runtime : SUBSET Runtimes]]
  /\ Mounted \subseteq Publications /\ Cardinality(runtime) <= 1
  /\ runtime \subseteq [id : Runtimes, owner : Owners] /\ basePath \subseteq Bases
  /\ gateways \in [DOMAIN gateways -> GatewayRecords] /\ DOMAIN gateways \subseteq Gateways
  /\ serving \subseteq DOMAIN gateways /\ announced \in [Gateways -> 0 .. 1]
  /\ tickets \in [DOMAIN tickets -> [owner : Owners, gateway : Gateways, valid : BOOLEAN]]
  /\ browser \in [Browsers -> [at : {"out", "refused", "granted", "attached", "left"},
                               gateway : SUBSET Gateways]]

\* A request has one publication to answer it however the mounts are searched,
\* and one worker controls it: its own, or the runtime's that lists it.
OneAnswer ==
  /\ \A path \in Paths : Cardinality(Answering(path)) <= 1
  /\ \A p \in Mounted : OwnWorker(p) # RuntimeWorker(p)

\* A gateway never outlives its publication, its owner or its place in the
\* browser's address space, and a ticket never outlives its gateway.
GatewaysArePublished ==
  /\ \A g \in DOMAIN gateways :
       /\ gateways[g].publication \in Mounted
       /\ mounts[gateways[g].publication].owner = gateways[g].owner
       /\ basePath # {} => gateways[g].base = basePath
       /\ announced[g] = 0
  /\ \A t \in DOMAIN tickets : tickets[t].gateway \in DOMAIN gateways

\* However many tickets a gateway has, one browser gets it, once; the plugin
\* is told of its end once, and never while a browser's end keeps it open.
OneBrowser ==
  \A b \in Browsers, g \in Gateways :
    g \in browser[b].gateway /\ browser[b].at = "attached" =>
      /\ \A c \in Browsers \ {b} : ~(browser[c].at = "attached" /\ g \in browser[c].gateway)
      /\ g \in DOMAIN gateways => gateways[g].attached

\* Through registrations, gateways, tickets and the ends of plugins, a request
\* has one answer and a gateway one browser (browser_publication.go).
PublicationsKept == OneAnswer /\ GatewaysArePublished /\ OneBrowser
=============================================================================
