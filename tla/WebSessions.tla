------------------------------ MODULE WebSessions ------------------------------
(***************************************************************************)
(* Browser sessions of the web server (web/auth.go, auth_sessions.go): the *)
(* table in memory and the file behind it, the sockets and the one-time    *)
(* tickets that belong to a session, and the mutexes between them. A       *)
(* session id is a fresh secret: it is never issued again.                 *)
(***************************************************************************)
EXTENDS Naturals, Sequences, FiniteSets

CONSTANTS
  Sessions, Tickets, PluginTickets, Sockets, Requests,
  Nobody,        \* a bearer client: the empty session id
  Kinds,         \* the ticket tables, in the order a revocation visits them
  LockedKinds,   \* tables whose handler asks for the session under their mutex
  MaxSessions

SessionsAssumption ==
  /\ Nobody \notin Sessions /\ MaxSessions \in Nat /\ Kinds \in Seq(LockedKinds \cup {"download"})

VARIABLES
  live,        \* Server.sessions
  stored,      \* the sessions in auth-sessions.json
  expired,     \* sessions whose time is over
  issued,      \* ids issued so far
  told,        \* revocations answered with "could not be revoked durably"
  revoking,    \* ticket tables a revocation has still to visit, per session
  tickets,     \* one-time tickets: [kind, session]
  request,     \* ticket requests: [at, kind, session]
  socket,      \* sockets: [at, session, ticket]
  granted,     \* plugin tickets core still accepts
  owned,       \* the session a plugin ticket was given to
  remembered   \* Server.browserTickets: plugin tickets with a record

webVars == <<live, stored, expired, issued, told, revoking, tickets, request, socket,
             granted, owned, remembered>>
pluginTickets == <<granted, owned, remembered>>
store == <<live, stored, issued, told>>

Holders == Sessions \cup {Nobody}
Idle == [at |-> "idle", kind |-> "none", session |-> Nobody]
Out == [at |-> "out", session |-> Nobody, ticket |-> {}]

Init ==
  /\ live = {} /\ stored = {} /\ expired = {} /\ issued = {} /\ told = {}
  /\ revoking = [s \in Sessions |-> <<>>] /\ tickets = <<>>
  /\ request = [q \in Requests |-> Idle] /\ socket = [w \in Sockets |-> Out]
  /\ granted = {} /\ owned = [t \in PluginTickets |-> Nobody] /\ remembered = {}

\* The mutex of a ticket table is held by a request of this kind.
Locked(kind) ==
  /\ kind \in LockedKinds
  /\ \E q \in Requests : request[q].kind = kind /\ request[q].at \in {"locked", "stuck"}

-----------------------------------------------------------------------------
(* The session table. `saved` and `removed`: the file could be replaced,   *)
(* the file could be deleted.                                              *)

\* The registered sockets of the sessions S are closed.
Disconnected(S) ==
  [w \in Sockets |-> IF socket[w].at = "open" /\ socket[w].session \in S
                     THEN [socket[w] EXCEPT !.at = "closed"] ELSE socket[w]]

Save(saved) == stored' = IF saved THEN live' ELSE stored

RevokeStoredOrKeep(saved, removed) ==
  /\ stored' = IF saved THEN live' ELSE stored
  /\ told' = told

\* revokePersistedSessionsLocked: the fallback forgets every saved session.
RevokeStored(saved, removed) ==
  /\ stored' = IF saved THEN live' ELSE IF removed THEN {} ELSE stored
  /\ told' = told \cup (stored' \ live')

\* issueSession: expired sessions leave, and the new one stays only when it
\* could be saved and there is room for it.
Login(s, saved) ==
  LET kept == live \ expired
      room == Cardinality(kept) < MaxSessions
  IN /\ s \notin issued /\ issued' = issued \cup {s}
     /\ live' = IF room /\ saved THEN kept \cup {s} ELSE kept
     /\ IF room \/ live # kept THEN Save(saved) ELSE UNCHANGED stored
     /\ socket' = Disconnected(live \cap expired)
     /\ UNCHANGED <<expired, told, revoking, tickets, request, pluginTickets>>

\* session: any request of an expired session ends it and revokes its tickets.
Ended(s, saved) ==
  /\ live' = live \ {s} /\ Save(saved)
  /\ socket' = Disconnected({s}) /\ revoking' = [revoking EXCEPT ![s] = Kinds]

ExpiredSeen(s, saved) ==
  /\ s \in live \cap expired /\ Ended(s, saved)
  /\ UNCHANGED <<expired, issued, told, tickets, request, pluginTickets>>

\* handleLogout, clearSession.
Logout(s, saved, removed) ==
  /\ s \in live \ expired /\ live' = live \ {s} /\ RevokeStored(saved, removed)
  /\ socket' = Disconnected({s}) /\ revoking' = [revoking EXCEPT ![s] = Kinds]
  /\ UNCHANGED <<expired, issued, tickets, request, pluginTickets>>

\* handlePasswordChange: every session is revoked, and the tickets of the one
\* that asked.
RevokeAll(s, saved, removed) ==
  /\ s \in live \ expired /\ live' = {} /\ RevokeStored(saved, removed)
  /\ socket' = Disconnected(Sessions) /\ revoking' = [revoking EXCEPT ![s] = Kinds]
  /\ UNCHANGED <<expired, issued, tickets, request, pluginTickets>>

RevokeForgets(s) ==
  /\ revoking[s] # <<>> /\ ~Locked(Head(revoking[s]))
  /\ tickets' = [t \in {u \in DOMAIN tickets : tickets[u] # [kind |-> Head(revoking[s]), session |-> s]}
                   |-> tickets[t]]
  /\ revoking' = [revoking EXCEPT ![s] = Tail(@)]
  /\ remembered' = {t \in remembered : owned[t] # s}
  /\ UNCHANGED <<store, expired, request, socket, granted, owned>>

\* revokeSessionTickets visits one table after the other; the records of
\* plugin tickets stay.
Revoke(s) ==
  /\ revoking[s] # <<>> /\ ~Locked(Head(revoking[s]))
  /\ tickets' = [t \in {u \in DOMAIN tickets : tickets[u] # [kind |-> Head(revoking[s]), session |-> s]}
                   |-> tickets[t]]
  /\ revoking' = [revoking EXCEPT ![s] = Tail(@)]
  /\ UNCHANGED <<store, expired, request, socket, pluginTickets>>

Expire(s) ==
  /\ s \in issued \ expired /\ expired' = expired \cup {s}
  /\ UNCHANGED <<store, revoking, tickets, request, socket, pluginTickets>>

\* The end of RunPilot and loadSessions at its next start.
Restart ==
  /\ live' = stored \ expired /\ tickets' = <<>> /\ revoking' = [s \in Sessions |-> <<>>]
  /\ request' = [q \in Requests |-> Idle] /\ socket' = [w \in Sockets |->
       IF socket[w].at = "out" THEN Out ELSE [socket[w] EXCEPT !.at = "closed"]]
  /\ granted' = {} /\ remembered' = {}
  /\ UNCHANGED <<stored, expired, issued, told, owned>>

-----------------------------------------------------------------------------
(* One-time tickets: handleApplicationTicket, handleDownloadTicket,        *)
(* handleDockerContainerAttachTicket.                                      *)

\* auth has let the request pass.
Ask(q, s, kind) ==
  /\ request[q] = Idle /\ (s \in live \ expired \/ s = Nobody)
  /\ request' = [request EXCEPT ![q] = [at |-> "asking", kind |-> kind, session |-> s]]
  /\ UNCHANGED <<store, expired, revoking, tickets, socket, pluginTickets>>

Lock(q) ==
  /\ request[q].at = "asking" /\ request[q].kind \in LockedKinds /\ ~Locked(request[q].kind)
  /\ request' = [request EXCEPT ![q].at = "locked"]
  /\ UNCHANGED <<store, expired, revoking, tickets, socket, pluginTickets>>

\* The session a request is found to belong to: nobody's when it has ended.
Asker(q) == IF request[q].session \in live THEN request[q].session ELSE Nobody

\* The other tables are locked after the session was looked up.
Look(q) ==
  /\ request[q].at = "asking" /\ request[q].kind \notin LockedKinds /\ Asker(q) \notin expired
  /\ request' = [request EXCEPT ![q].at = "found", ![q].session = Asker(q)]
  /\ UNCHANGED <<store, expired, revoking, tickets, socket, pluginTickets>>

Issue(q, t) ==
  LET s == IF request[q].at = "found" THEN request[q].session ELSE Asker(q)
  IN /\ request[q].at = "found" \/ (request[q].at = "locked" /\ s \notin expired)
     /\ t \notin DOMAIN tickets
     /\ tickets' = [u \in DOMAIN tickets \cup {t} |->
                      IF u = t THEN [kind |-> request[q].kind, session |-> s] ELSE tickets[u]]
     /\ request' = [request EXCEPT ![q] = Idle]
     /\ UNCHANGED <<store, expired, revoking, socket, pluginTickets>>

\* The session turns out to have expired. Under the mutex of the table the
\* request then waits, in revokeSessionTickets, for the mutex it holds.
AskerExpired(q, saved) ==
  LET s == request[q].session
      locks == request[q].kind \in LockedKinds
  IN /\ request[q].at = IF locks THEN "locked" ELSE "asking"
     /\ s \in live \cap expired /\ Ended(s, saved)
     /\ request' = [request EXCEPT ![q] = IF locks THEN [request[q] EXCEPT !.at = "stuck"]
                                          ELSE [request[q] EXCEPT !.at = "found", !.session = Nobody]]
     /\ UNCHANGED <<expired, issued, told, tickets, pluginTickets>>

TicketExpires(t) ==
  /\ t \in DOMAIN tickets
  /\ tickets' = [u \in DOMAIN tickets \ {t} |-> tickets[u]]
  /\ UNCHANGED <<store, expired, revoking, request, socket, pluginTickets>>

\* handleTicketDownload: an HTTP request, used or refused, spends the ticket.
Download(t) == t \in DOMAIN tickets /\ tickets[t].kind = "download" /\ TicketExpires(t)

-----------------------------------------------------------------------------
(* The application socket: handleApplicationWS.                            *)

\* The tickets a plugin asks core for are remembered with the session of the
\* call before the client learns of them.
GivePluginTicket(s, t) ==
  /\ t \notin granted \cup remembered /\ owned[t] = Nobody /\ s \in live \ expired
  /\ granted' = granted \cup {t} /\ owned' = [owned EXCEPT ![t] = s]
  /\ remembered' = remembered \cup {t}
  /\ UNCHANGED <<store, expired, revoking, tickets, request, socket>>

\* Core's minute starts before the record's.
PluginTicketExpires(t) ==
  /\ IF t \in granted THEN granted' = granted \ {t} /\ UNCHANGED remembered
     ELSE t \in remembered /\ remembered' = remembered \ {t} /\ UNCHANGED granted
  /\ UNCHANGED <<store, expired, revoking, tickets, request, socket, owned>>

\* A socket with an application ticket of its own session.
Open(w, s, t) ==
  /\ socket[w] = Out /\ (s \in live \ expired \/ s = Nobody)
  /\ t \in DOMAIN tickets /\ tickets[t] = [kind |-> "application", session |-> s]
  /\ tickets' = [u \in DOMAIN tickets \ {t} |-> tickets[u]]
  /\ socket' = [socket EXCEPT ![w] = [at |-> "accepted", session |-> s, ticket |-> {}]]
  /\ UNCHANGED <<store, expired, revoking, request, pluginTickets>>

\* browserTicketAllowed: a ticket without a record is nobody's in particular.
Allowed(t, s) == t \in remembered => owned[t] = s

\* A restricted socket: the plugin ticket is consumed whatever comes of it.
OpenRestricted(w, s, t) ==
  /\ socket[w] = Out /\ (s \in live \ expired \/ s = Nobody) /\ t \in granted
  /\ granted' = granted \ {t}
  /\ socket' = [socket EXCEPT ![w] = [at |-> IF Allowed(t, s) THEN "accepted" ELSE "closed",
                                      session |-> s, ticket |-> {t}]]
  /\ UNCHANGED <<store, expired, revoking, tickets, request, owned, remembered>>

\* registerSessionConnection, after the session was looked up and the
\* connection accepted.
Register(w) ==
  /\ socket[w].at = "accepted" /\ socket' = [socket EXCEPT ![w].at = "open"]
  /\ UNCHANGED <<store, expired, revoking, tickets, request, pluginTickets>>

Hangs(w) ==
  /\ socket[w].at \in {"accepted", "open"} /\ socket' = [socket EXCEPT ![w].at = "closed"]
  /\ UNCHANGED <<store, expired, revoking, tickets, request, pluginTickets>>

\* Before each read the loop looks whether its session still exists.
SeesEnd(w) == socket[w].at = "open" /\ socket[w].session \in Sessions \ live /\ Hangs(w)

\* A read in progress ends with the session's time.
DeadlineNever(w) == FALSE /\ UNCHANGED webVars
Deadline(w) == socket[w].at = "open" /\ socket[w].session \in expired /\ Hangs(w)

Next ==
  \/ \E s \in Sessions, saved, removed \in BOOLEAN :
       \/ Login(s, saved) \/ ExpiredSeen(s, saved)
       \/ Logout(s, saved, removed) \/ RevokeAll(s, saved, removed)
  \/ \E s \in Sessions :
       \/ Revoke(s) \/ Expire(s)
       \/ \E t \in PluginTickets : GivePluginTicket(s, t)
  \/ Restart
  \/ \E q \in Requests :
       \/ \E s \in Holders, i \in DOMAIN Kinds : Ask(q, s, Kinds[i])
       \/ Lock(q) \/ Look(q) \/ (\E t \in Tickets : Issue(q, t))
       \/ \E saved \in BOOLEAN : AskerExpired(q, saved)
  \/ \E t \in Tickets : TicketExpires(t) \/ Download(t)
  \/ \E t \in PluginTickets : PluginTicketExpires(t)
  \/ \E w \in Sockets :
       \/ \E s \in Holders : (\E t \in Tickets : Open(w, s, t))
                             \/ \E t \in PluginTickets : OpenRestricted(w, s, t)
       \/ Register(w) \/ Hangs(w) \/ SeesEnd(w) \/ Deadline(w)

Spec == Init /\ [][Next]_webVars

\* The goroutines of the server run and time passes; nobody need log out.
ServerRuns ==
  /\ \A q \in Requests :
       WF_webVars(Lock(q)) /\ WF_webVars(Look(q)) /\ WF_webVars(\E saved \in BOOLEAN : AskerExpired(q, saved))
  /\ \A q \in Requests : WF_webVars(\E t \in Tickets : Issue(q, t))
  /\ \A s \in Sessions : WF_webVars(Revoke(s)) /\ WF_webVars(Expire(s))
  /\ \A w \in Sockets : WF_webVars(Register(w)) /\ WF_webVars(Deadline(w))
  /\ \A t \in Tickets : WF_webVars(TicketExpires(t))

FairSpec == Spec /\ ServerRuns

-----------------------------------------------------------------------------

TypeOK ==
  /\ live \subseteq issued /\ stored \subseteq issued /\ issued \subseteq Sessions
  /\ expired \subseteq issued /\ told \subseteq issued
  /\ revoking \in [Sessions -> {<<>>, Kinds} \cup {SubSeq(Kinds, i, Len(Kinds)) : i \in DOMAIN Kinds}]
  /\ tickets \in [DOMAIN tickets -> [kind : {Kinds[i] : i \in DOMAIN Kinds}, session : Holders]]
  /\ request \in [Requests -> [at : {"idle", "asking", "found", "locked", "stuck"},
                    kind : {Kinds[i] : i \in DOMAIN Kinds} \cup {"none"}, session : Holders]]
  /\ socket \in [Sockets -> [at : {"out", "accepted", "open", "closed"}, session : Holders,
                             ticket : SUBSET PluginTickets]]
  /\ granted \subseteq PluginTickets /\ remembered \subseteq PluginTickets
  /\ owned \in [PluginTickets -> Holders]

\* A revoked session stays revoked: a restart can bring back only sessions
\* that were live or whose revocation was answered with an error, and always
\* finds a file it accepts.
RevokedStaysRevoked ==
  /\ stored \ expired \subseteq live \cup told
  /\ Cardinality(stored) <= MaxSessions

\* "Revoked tickets cannot become anonymous": a socket opened with a ticket a
\* plugin gave to a session belongs to that session, whatever was revoked,
\* expired or pruned in between.
TicketKeepsSession ==
  \A w \in Sockets, t \in PluginTickets :
    t \in socket[w].ticket /\ socket[w].at \in {"accepted", "open"} => socket[w].session = owned[t]

\* A socket whose session has ended ends: also one that was registered after
\* its session was revoked, and one that waits for a message.
SocketsEnd ==
  \A w \in Sockets : (socket[w].session \in Sessions \ live /\ socket[w].at \in {"accepted", "open"})
                       ~> socket[w].at = "closed"

\* "Expiration, logout and revocation": a ticket request is answered, also
\* when its session has just expired.
TicketAnswered == \A q \in Requests : request[q].at = "locked" ~> request[q].at = "idle"

\* Logins, revocations, restarts, saves that fail and tickets leave no session
\* and no socket with more than it was given (auth_sessions.go).
WebSessionsKept == RevokedStaysRevoked /\ TicketKeepsSession
=============================================================================
