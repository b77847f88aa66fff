------------------------------ MODULE RemotePlugin ------------------------------
(* The Remote plugin: RDP and VNC targets, sessions over the host's network    *)
(* streams, and the diagnostics kept for RDP sessions                          *)
(* (plugins/remote/backend/plugin.go, vnc.go).  A request is one step: the     *)
(* backend is entered by one call at a time.  The streams are those of         *)
(* NetworkStreams as a plugin sees them.  The exchange with guacd inside an    *)
(* RDP open is Guacamole's; here it succeeds or fails.                         *)
EXTENDS Naturals, FiniteSets, SequencesExt

CONSTANTS
  Feeds,         \* stream ids, fresh for every stream
  Scopes,        \* diagnostic ids, chosen by the client or by the plugin
  MaxTargets,    \* bound: targets ever created per protocol
  MaxClients,    \* bound: 8 sessions per protocol
  MaxScopes      \* bound: 32 scopes of diagnostics

RemoteAssumption == MaxTargets \in Nat /\ MaxClients \in Nat /\ MaxScopes \in Nat

VARIABLES
  active,        \* the plugin is loaded
  stored,        \* storage: protocol -> target ids
  created,       \* storage: protocol -> nextId - 1
  clients,       \* p.sessions and p.vncSessions: protocol -> (stream -> target id)
  feeds,         \* the host's streams: "new", "open", "closed", "gone"
  closings,      \* network.stream.closed callbacks on their way
  scopes,        \* p.diagnosticIDs: scopes of diagnostics, oldest first
  scopeOf,       \* p.sessionDiagIDs: stream -> scope
  uses           \* session.DiagnosticID of the RDP sessions: stream -> scope

remoteVars == <<active, stored, created, clients, feeds, closings, scopes, scopeOf, uses>>
diagnostics == <<scopes, scopeOf, uses>>

Protocols == {"rdp", "vnc"}
Cut(f, S) == [x \in DOMAIN f \ S |-> f[x]]
Put(f, x, v) == [y \in DOMAIN f \cup {x} |-> IF y = x THEN v ELSE f[y]]
Holds(k, a) == \E s \in DOMAIN clients[k] : clients[k][s] = a

Init ==
  /\ active = TRUE
  /\ stored = [k \in Protocols |-> {}] /\ created = [k \in Protocols |-> 0]
  /\ clients = [k \in Protocols |-> << >>]
  /\ feeds = [s \in Feeds |-> "new"] /\ closings = {}
  /\ scopes = << >> /\ scopeOf = << >> /\ uses = << >>

-----------------------------------------------------------------------------
(* Targets: saveTarget, deleteTarget and their VNC counterparts. *)

Save(k) ==
  /\ active /\ created[k] < MaxTargets
  /\ created' = [created EXCEPT ![k] = @ + 1]
  /\ stored' = [stored EXCEPT ![k] = @ \cup {created'[k]}]
  /\ UNCHANGED <<active, clients, feeds, closings, diagnostics>>

Delete(k, a) ==
  /\ active /\ a \in stored[k] /\ ~Holds(k, a)
  /\ stored' = [stored EXCEPT ![k] = @ \ {a}]
  /\ UNCHANGED <<active, created, clients, feeds, closings, diagnostics>>

-----------------------------------------------------------------------------
(* Diagnostics. *)

\* addDiagnostic: a new scope goes to the end; beyond the limit the oldest goes
\* with what names it.  (Variant: what names it stays.)
NotedKeepsNames(d, names) ==
  LET all == IF d \in Range(scopes) THEN scopes ELSE Append(scopes, d) IN
  /\ scopes' = IF Len(all) > MaxScopes THEN Tail(all) ELSE all
  /\ scopeOf' = names

Noted(d, names) ==
  LET all == IF d \in Range(scopes) THEN scopes ELSE Append(scopes, d)
      kept == IF Len(all) > MaxScopes THEN Tail(all) ELSE all IN
  /\ scopes' = kept
  /\ scopeOf' = Cut(names, {s \in DOMAIN names : names[s] \notin Range(kept)})

-----------------------------------------------------------------------------
(* Sessions. *)

Full(k) == Cardinality(DOMAIN clients[k]) >= MaxClients
Opened(s) == feeds' = [feeds EXCEPT ![s] = "open"]

Closed(s) ==
  /\ feeds' = [feeds EXCEPT ![s] = "closed"]
  /\ closings' = closings \cup {s}

\* network.stream.open succeeded and guacd did not establish the session: the
\* stream is closed.  (Variant: it stays open.)
AbandonedOpen(s) == Opened(s) /\ closings' = closings
Abandoned(s) == Closed(s)

\* rdp.session.open; a target that is unknown, settings that cannot be read and
\* a stream that cannot be opened leave a note only.
OpenRdp(a, d) ==
  /\ active /\ ~Full("rdp")
  /\ \/ /\ Noted(d, scopeOf)
        /\ UNCHANGED <<clients, feeds, closings, uses>>
     \/ /\ a \in stored["rdp"]
        /\ \E s \in Feeds :
             /\ feeds[s] = "new"
             /\ \/ /\ Noted(d, scopeOf) /\ Abandoned(s)
                   /\ UNCHANGED <<clients, uses>>
                \/ /\ Noted(d, Put(scopeOf, s, d)) /\ Opened(s)
                   /\ clients' = [clients EXCEPT !["rdp"] = Put(@, s, a)]
                   /\ uses' = Put(uses, s, d)
                   /\ closings' = closings
  /\ UNCHANGED <<active, stored, created>>

OpenVnc(a) ==
  /\ active /\ ~Full("vnc") /\ a \in stored["vnc"]
  /\ \E s \in Feeds :
       /\ feeds[s] = "new" /\ Opened(s)
       /\ clients' = [clients EXCEPT !["vnc"] = Put(@, s, a)]
  /\ UNCHANGED <<active, stored, created, closings, diagnostics>>

\* rdp.settings.test opens a stream and closes it.
Probe ==
  /\ active
  /\ \E s \in Feeds : feeds[s] = "new" /\ Closed(s)
  /\ UNCHANGED <<active, stored, created, clients, diagnostics>>

\* network.stream.close, at the host: a stream it no longer remembers is not found.
Shut(s) ==
  IF feeds[s] = "open" THEN Closed(s) ELSE UNCHANGED <<feeds, closings>>

\* rdp.session.close drops the session of a forgotten stream as well.
CloseRdp(s) ==
  /\ active /\ s \in DOMAIN clients["rdp"]
  /\ Shut(s) /\ Noted(uses[s], scopeOf)
  /\ clients' = [clients EXCEPT !["rdp"] = Cut(@, {s})]
  /\ uses' = Cut(uses, {s})
  /\ UNCHANGED <<active, stored, created>>

\* vnc.session.close fails when the host has forgotten the stream.
CloseVnc(s) ==
  /\ active /\ s \in DOMAIN clients["vnc"] /\ feeds[s] # "gone"
  /\ Shut(s)
  /\ clients' = [clients EXCEPT !["vnc"] = Cut(@, {s})]
  /\ UNCHANGED <<active, stored, created, diagnostics>>

\* The far end closes a stream, or reading it fails.
Ends(s) ==
  /\ feeds[s] = "open" /\ Closed(s)
  /\ UNCHANGED <<active, stored, created, clients, diagnostics>>

Evicted(s) ==
  /\ feeds[s] = "closed"
  /\ feeds' = [feeds EXCEPT ![s] = "gone"]
  /\ UNCHANGED <<active, stored, created, clients, closings, diagnostics>>

\* The callback arrives, or was dropped.
Event(s) ==
  /\ s \in closings /\ closings' = closings \ {s}
  /\ \/ UNCHANGED <<clients, diagnostics>>
     \/ /\ active
        /\ clients' = [k \in Protocols |-> Cut(clients[k], {s})]
        /\ uses' = Cut(uses, {s})
        /\ IF s \in DOMAIN uses THEN Noted(uses[s], scopeOf) ELSE UNCHANGED <<scopes, scopeOf>>
  /\ UNCHANGED <<active, stored, created, feeds>>

\* shutdown closes the VNC streams; the host closes what else the plugin has.
Shutdown ==
  /\ active /\ active' = FALSE
  /\ feeds' = [s \in Feeds |-> IF feeds[s] = "open" THEN "closed" ELSE feeds[s]]
  /\ clients' = [k \in Protocols |-> << >>]
  /\ closings' = {}
  /\ scopes' = << >> /\ scopeOf' = << >> /\ uses' = << >>
  /\ UNCHANGED <<stored, created>>

Next ==
  \/ \E k \in Protocols : Save(k) \/ \E a \in 1..MaxTargets : Delete(k, a)
  \/ \E a \in 1..MaxTargets : OpenVnc(a) \/ \E d \in Scopes : OpenRdp(a, d)
  \/ Probe \/ Shutdown
  \/ \E s \in Feeds : CloseRdp(s) \/ CloseVnc(s) \/ Ends(s) \/ Evicted(s) \/ Event(s)

Spec == Init /\ [][Next]_remoteVars

-----------------------------------------------------------------------------
(* Properties. *)

\* Every variable holds values of its type, within its limit.
TypeOK ==
  /\ active \in BOOLEAN
  /\ \A k \in Protocols :
       /\ stored[k] \subseteq 1..created[k] /\ created[k] \in 0..MaxTargets
       /\ DOMAIN clients[k] \subseteq Feeds /\ Cardinality(DOMAIN clients[k]) <= MaxClients
  /\ feeds \in [Feeds -> {"new", "open", "closed", "gone"}] /\ closings \subseteq Feeds
  /\ Range(scopes) \subseteq Scopes /\ IsInjective(scopes) /\ Len(scopes) <= MaxScopes
  /\ DOMAIN uses = DOMAIN clients["rdp"]

\* Whatever fails in an open, an open stream belongs to exactly one session of
\* the plugin, and the target of that session is stored: what occupies one of
\* the owner's streams can be listed and closed.
StreamsAreSessions ==
  /\ \A s \in Feeds :
       feeds[s] = "open" => Cardinality({k \in Protocols : s \in DOMAIN clients[k]}) = 1
  /\ \A k \in Protocols : \A s \in DOMAIN clients[k] : clients[k][s] \in stored[k]

\* The scope a finished session's diagnostics are looked up under is one that
\* is kept, however many later sessions came and pushed scopes out.
DiagnosticsAreKept ==
  \A s \in DOMAIN scopeOf : scopeOf[s] \in Range(scopes)
=============================================================================
