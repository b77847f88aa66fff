--------------------------- MODULE WebSessionsProofs ---------------------------
(***************************************************************************)
(* Proofs about browser sessions: a revoked session stays revoked and a    *)
(* ticket opens only what its session may open, for any sessions, tickets  *)
(* and sockets.                                                            *)
(***************************************************************************)
EXTENDS WebSessions, FiniteSetTheorems, TLAPS

KindsUsed == {Kinds[i] : i \in DOMAIN Kinds}
TicketRecords == [kind : KindsUsed, session : Holders]
RequestRecords == [at : {"idle", "asking", "found", "locked", "stuck"},
                   kind : KindsUsed \cup {"none"}, session : Holders]
SocketRecords == [at : {"out", "accepted", "open", "closed"}, session : Holders,
                  ticket : SUBSET PluginTickets]
Rests == {<<>>, Kinds} \cup {SubSeq(Kinds, i, Len(Kinds)) : i \in DOMAIN Kinds}

TableTyped ==
  /\ live \subseteq issued /\ stored \subseteq issued /\ issued \subseteq Sessions
  /\ expired \subseteq issued /\ told \subseteq issued
PluginTicketsTyped ==
  /\ granted \subseteq PluginTickets /\ remembered \subseteq PluginTickets
  /\ owned \in [PluginTickets -> Holders]

\* A request that was let pass asks for a ticket of some table.
Asked(q) == request[q].at # "idle" => request[q].kind \in KindsUsed

Types ==
  /\ TableTyped /\ PluginTicketsTyped
  /\ revoking \in [Sessions -> Rests]
  /\ tickets \in [DOMAIN tickets -> TicketRecords]
  /\ request \in [Requests -> RequestRecords] /\ \A q \in Requests : Asked(q)
  /\ socket \in [Sockets -> SocketRecords]

LEMMA TypesAre == Types => TypeOK
BY DEF Types, TypeOK, TableTyped, PluginTicketsTyped, Rests, TicketRecords, RequestRecords,
       SocketRecords, KindsUsed

\* The sessions that count for the limit are as many as it allows, in memory
\* and in the file.
StoreKept ==
  /\ IsFiniteSet(live) /\ Cardinality(live) <= MaxSessions
  /\ IsFiniteSet(stored) /\ Cardinality(stored) <= MaxSessions
  /\ stored \ expired \subseteq live \cup told

Counted(S) == IsFiniteSet(S) /\ Cardinality(S) <= MaxSessions

LEMMA FewerCounted ==
  ASSUME SessionsAssumption, NEW S, Counted(S), NEW T \in SUBSET S PROVE Counted(T)
<1>1. IsFiniteSet(T) /\ Cardinality(T) <= Cardinality(S) /\ Cardinality(T) \in Nat /\ Cardinality(S) \in Nat
  BY FS_Subset, FS_CardinalityType DEF Counted
<1>. QED
  BY <1>1 DEF Counted, SessionsAssumption

LEMMA OneMoreCounted ==
  ASSUME SessionsAssumption, NEW S, IsFiniteSet(S), Cardinality(S) < MaxSessions, NEW s
  PROVE  Counted(S \cup {s})
<1>1. Cardinality(S) \in Nat
  BY FS_CardinalityType
<1>2. IsFiniteSet(S \cup {s}) /\ Cardinality(S \cup {s}) <= Cardinality(S) + 1
  BY <1>1, FS_AddElement
<1>3. Cardinality(S \cup {s}) \in Nat
  BY <1>2, FS_CardinalityType
<1>. QED
  BY <1>1, <1>2, <1>3 DEF Counted, SessionsAssumption

-----------------------------------------------------------------------------
(* Sockets. *)

\* A step closes the socket or leaves it, but for its registration.
Calm(w) ==
  /\ socket'[w].ticket \subseteq socket[w].ticket
  /\ socket'[w].at \in {"accepted", "open"} =>
       socket[w].at \in {"accepted", "open"} /\ socket'[w].session = socket[w].session

LEMMA SocketRecord ==
  ASSUME NEW r \in SocketRecords, NEW at \in {"out", "accepted", "open", "closed"}, NEW n,
         n = [r EXCEPT !.at = at]
  PROVE  n \in SocketRecords /\ n.at = at /\ n.ticket = r.ticket /\ n.session = r.session
BY DEF SocketRecords

LEMMA DisconnectedCalm ==
  ASSUME Types, NEW S, socket' = Disconnected(S)
  PROVE  socket' \in [Sockets -> SocketRecords] /\ \A w \in Sockets : Calm(w)
<1>1. ASSUME NEW w \in Sockets PROVE socket'[w] \in SocketRecords /\ Calm(w)
  <2>1. socket[w] \in SocketRecords
    BY DEF Types
  <2>2. socket'[w] \in {socket[w], [socket[w] EXCEPT !.at = "closed"]}
    BY DEF Disconnected
  <2>. QED
    BY <2>1, <2>2, SocketRecord DEF Calm
<1>. QED
  BY <1>1 DEF Disconnected

LEMMA MovedCalm ==
  ASSUME Types, NEW w \in Sockets, NEW at \in {"open", "closed"}, socket[w].at \in {"accepted", "open"},
         socket' = [socket EXCEPT ![w].at = at]
  PROVE  socket' \in [Sockets -> SocketRecords] /\ \A v \in Sockets : Calm(v)
<1>1. socket[w] \in SocketRecords /\ socket' = [socket EXCEPT ![w] = [socket[w] EXCEPT !.at = at]]
  BY DEF Types
<1>2. socket'[w] \in SocketRecords /\ Calm(w)
  <2>1. socket'[w] = [socket[w] EXCEPT !.at = at]
    BY <1>1 DEF Types
  <2>. QED
    BY <1>1, <2>1, SocketRecord DEF Calm
<1>3. \A v \in Sockets \ {w} : socket'[v] = socket[v]
  BY <1>1 DEF Types
<1>. QED
  BY <1>1, <1>2, <1>3 DEF Types, Calm

\* What a plugin's ticket was given to does not change while the ticket is one,
\* and a socket that was opened with it is of that session.
TicketsKept ==
  /\ granted \subseteq remembered
  /\ \A t \in remembered : owned[t] # Nobody
  /\ \A w \in Sockets : \A t \in socket[w].ticket :
       owned[t] # Nobody /\ (socket[w].at \in {"accepted", "open"} => socket[w].session = owned[t])

LEMMA CalmTickets ==
  ASSUME TicketsKept, owned' = owned, granted' \subseteq remembered', remembered' \subseteq remembered,
         \A w \in Sockets : Calm(w)
  PROVE  TicketsKept'
BY DEF TicketsKept, Calm

LEMMA StillCalm == ASSUME UNCHANGED socket, Types PROVE socket' \in [Sockets -> SocketRecords] /\ \A w \in Sockets : Calm(w)
BY DEF Calm, Types

-----------------------------------------------------------------------------
(* The session table. *)

LEMMA RestsShorter ==
  ASSUME SessionsAssumption, NEW r \in Rests, r # <<>> PROVE Tail(r) \in Rests
<1>1. Kinds \in Seq(LockedKinds \cup {"download"}) /\ Len(Kinds) \in Nat /\ DOMAIN Kinds = 1 .. Len(Kinds)
  BY DEF SessionsAssumption
<1>. DEFINE n == Len(Kinds)
<1>2. ASSUME NEW i \in 1 .. n PROVE Tail(SubSeq(Kinds, i, n)) = SubSeq(Kinds, i + 1, n)
  BY <1>1
<1>3. Kinds # <<>> => Kinds = SubSeq(Kinds, 1, n)
  BY <1>1
<1>4. SubSeq(Kinds, n + 1, n) = <<>>
  BY <1>1
<1>5. PICK i \in 1 .. n : r = SubSeq(Kinds, i, n)
  <2>1. CASE r = Kinds
    BY <1>1, <1>3, <2>1
  <2>2. CASE r # Kinds
    BY <1>1, <2>2 DEF Rests
  <2>. QED
    BY <2>1, <2>2
<1>6. Tail(r) = SubSeq(Kinds, i + 1, n)
  BY <1>2, <1>5
<1>7. CASE i = n
  BY <1>4, <1>6, <1>7 DEF Rests
<1>8. CASE i < n
  <2>1. i + 1 \in DOMAIN Kinds
    BY <1>1, <1>8
  <2>. QED
    BY <1>6, <2>1 DEF Rests
<1>9. i = n \/ i < n
  <2>1. ASSUME NEW k \in Nat, NEW j \in 1 .. k PROVE j = k \/ j < k
    OBVIOUS
  <2>. QED
    BY <1>1, <2>1
<1>. QED
  BY <1>7, <1>8, <1>9

LEMMA RestsAgain ==
  ASSUME Types, NEW s \in Sessions, revoking' = [revoking EXCEPT ![s] = Kinds]
  PROVE  revoking' \in [Sessions -> Rests]
BY DEF Types, Rests

\* issueSession.
LEMMA LoginKeeps ==
  ASSUME SessionsAssumption, Types, StoreKept, TicketsKept, NEW s \in Sessions, NEW saved \in BOOLEAN,
         Login(s, saved)
  PROVE  Types' /\ StoreKept' /\ TicketsKept'
<1>. DEFINE kept == live \ expired
<1>0. /\ live' \in {kept, kept \cup {s}} /\ stored' \in {stored, live'}
      /\ issued' = issued \cup {s} /\ UNCHANGED <<expired, told, revoking, tickets, request, pluginTickets>>
      /\ socket' = Disconnected(live \cap expired)
      /\ live' # kept => live' = kept \cup {s} /\ Cardinality(kept) < MaxSessions
      /\ stored' # live' => stored' = stored
  BY DEF Login, Save
<1>1. Types'
  <2>1. TableTyped'
    BY <1>0 DEF Types, TableTyped
  <2>. QED
    BY <1>0, <2>1, DisconnectedCalm DEF Types, PluginTicketsTyped, pluginTickets, Asked
<1>2. StoreKept'
  <2>1. Counted(live) /\ Counted(stored)
    BY DEF StoreKept, Counted
  <2>2. Counted(kept)
    BY <2>1, FewerCounted
  <2>3. Counted(live')
    BY <1>0, <2>2, OneMoreCounted DEF Counted
  <2>4. Counted(stored')
    BY <1>0, <2>1, <2>3
  <2>5. stored' \ expired' \subseteq live' \cup told'
    BY <1>0 DEF StoreKept
  <2>. QED
    BY <2>3, <2>4, <2>5 DEF StoreKept, Counted
<1>3. TicketsKept'
  BY <1>0, DisconnectedCalm, CalmTickets DEF pluginTickets, TicketsKept
<1>. QED
  BY <1>1, <1>2, <1>3

\* The end of a session whose time was over.
LEMMA EndedKeeps ==
  ASSUME SessionsAssumption, Types, StoreKept, TicketsKept, NEW s \in Sessions, NEW saved \in BOOLEAN,
         s \in live \cap expired, Ended(s, saved), UNCHANGED <<expired, issued, told, tickets, pluginTickets>>
  PROVE  /\ TableTyped' /\ PluginTicketsTyped' /\ revoking' \in [Sessions -> Rests]
         /\ socket' \in [Sockets -> SocketRecords] /\ StoreKept' /\ TicketsKept'
<1>0. /\ live' = live \ {s} /\ stored' \in {stored, live'} /\ socket' = Disconnected({s})
      /\ revoking' = [revoking EXCEPT ![s] = Kinds]
  BY DEF Ended, Save
<1>1. TableTyped' /\ PluginTicketsTyped'
  BY <1>0 DEF Types, TableTyped, PluginTicketsTyped, pluginTickets
<1>2. StoreKept'
  <2>1. Counted(live) /\ Counted(stored)
    BY DEF StoreKept, Counted
  <2>2. Counted(live')
    BY <1>0, <2>1, FewerCounted
  <2>3. stored' \ expired' \subseteq live' \cup told'
    BY <1>0 DEF StoreKept
  <2>. QED
    BY <1>0, <2>1, <2>2, <2>3 DEF StoreKept, Counted
<1>3. TicketsKept'
  BY <1>0, DisconnectedCalm, CalmTickets DEF pluginTickets, TicketsKept
<1>. QED
  BY <1>0, <1>1, <1>2, <1>3, DisconnectedCalm, RestsAgain

\* A logout or a change of the password.
LEMMA RevokedKeeps ==
  ASSUME SessionsAssumption, Types, StoreKept, TicketsKept, NEW s \in Sessions, NEW S,
         NEW saved \in BOOLEAN, NEW removed \in BOOLEAN, live' \subseteq live,
         RevokeStored(saved, removed), socket' = Disconnected(S), revoking' = [revoking EXCEPT ![s] = Kinds],
         UNCHANGED <<expired, issued, tickets, request, pluginTickets>>
  PROVE  Types' /\ StoreKept' /\ TicketsKept'
<1>0. stored' \in {stored, live', {}} /\ told' = told \cup (stored' \ live')
  BY DEF RevokeStored
<1>1. TableTyped' /\ PluginTicketsTyped'
  BY <1>0 DEF Types, TableTyped, PluginTicketsTyped, pluginTickets
<1>2. Types'
  BY <1>1, DisconnectedCalm, RestsAgain DEF Types, Asked
<1>3. StoreKept'
  <2>1. Counted(live) /\ Counted(stored)
    BY DEF StoreKept, Counted
  <2>2. Counted(live') /\ Counted({})
    BY <2>1, FewerCounted
  <2>3. stored' \ expired' \subseteq live' \cup told'
    BY <1>0
  <2>. QED
    BY <1>0, <2>1, <2>2, <2>3 DEF StoreKept, Counted
<1>4. TicketsKept'
  BY DisconnectedCalm, CalmTickets DEF pluginTickets, TicketsKept
<1>. QED
  BY <1>2, <1>3, <1>4

LEMMA TableSteps ==
  ASSUME SessionsAssumption, Types, StoreKept, TicketsKept, NEW s \in Sessions,
         NEW saved \in BOOLEAN, NEW removed \in BOOLEAN,
         \/ Login(s, saved) \/ ExpiredSeen(s, saved) \/ Logout(s, saved, removed)
         \/ RevokeAll(s, saved, removed) \/ Revoke(s) \/ Expire(s)
  PROVE  Types' /\ StoreKept' /\ TicketsKept'
<1>1. CASE Login(s, saved)
  BY <1>1, LoginKeeps
<1>2. CASE ExpiredSeen(s, saved)
  BY <1>2, EndedKeeps DEF ExpiredSeen, Types, Asked
<1>3. CASE Logout(s, saved, removed)
  <2>1. live' = live \ {s} /\ RevokeStored(saved, removed) /\ socket' = Disconnected({s})
        /\ revoking' = [revoking EXCEPT ![s] = Kinds]
        /\ UNCHANGED <<expired, issued, tickets, request, pluginTickets>>
    BY <1>3 DEF Logout
  <2>. QED
    BY <2>1, RevokedKeeps
<1>4. CASE RevokeAll(s, saved, removed)
  <2>1. live' = {} /\ RevokeStored(saved, removed) /\ socket' = Disconnected(Sessions)
        /\ revoking' = [revoking EXCEPT ![s] = Kinds]
        /\ UNCHANGED <<expired, issued, tickets, request, pluginTickets>>
    BY <1>4 DEF RevokeAll
  <2>. QED
    BY <2>1, RevokedKeeps
<1>5. CASE Revoke(s)
  <2>0. /\ revoking[s] # <<>> /\ revoking' = [revoking EXCEPT ![s] = Tail(revoking[s])]
        /\ tickets' = [t \in {u \in DOMAIN tickets : tickets[u] # [kind |-> Head(revoking[s]), session |-> s]}
                         |-> tickets[t]]
        /\ UNCHANGED <<store, expired, request, socket, pluginTickets>>
    BY <1>5 DEF Revoke
  <2>1. revoking' \in [Sessions -> Rests]
    BY <2>0, RestsShorter DEF Types
  <2>2. tickets' \in [DOMAIN tickets' -> TicketRecords]
    BY <2>0 DEF Types
  <2>3. Types'
    BY <2>0, <2>1, <2>2 DEF Types, TableTyped, PluginTicketsTyped, store, pluginTickets, Asked
  <2>4. StoreKept'
    BY <2>0 DEF StoreKept, store
  <2>5. TicketsKept'
    BY <2>0, StillCalm, CalmTickets DEF pluginTickets, TicketsKept
  <2>. QED
    BY <2>3, <2>4, <2>5
<1>6. CASE Expire(s)
  <2>0. s \in issued /\ expired' = expired \cup {s}
        /\ UNCHANGED <<store, revoking, tickets, request, socket, pluginTickets>>
    BY <1>6 DEF Expire
  <2>1. Types'
    BY <2>0 DEF Types, TableTyped, PluginTicketsTyped, store, pluginTickets, Asked
  <2>2. StoreKept'
    BY <2>0 DEF StoreKept, store
  <2>3. TicketsKept'
    BY <2>0, StillCalm, CalmTickets DEF pluginTickets, TicketsKept
  <2>. QED
    BY <2>1, <2>2, <2>3
<1>. QED
  BY <1>1, <1>2, <1>3, <1>4, <1>5, <1>6

LEMMA RestartKeeps ==
  ASSUME SessionsAssumption, Types, StoreKept, TicketsKept, Restart
  PROVE  Types' /\ StoreKept' /\ TicketsKept'
<1>0. /\ live' = stored \ expired /\ tickets' = <<>> /\ revoking' = [s \in Sessions |-> <<>>]
      /\ request' = [q \in Requests |-> Idle]
      /\ socket' = [w \in Sockets |-> IF socket[w].at = "out" THEN Out ELSE [socket[w] EXCEPT !.at = "closed"]]
      /\ granted' = {} /\ remembered' = {} /\ UNCHANGED <<stored, expired, issued, told, owned>>
  BY DEF Restart
<1>1. ASSUME NEW w \in Sockets PROVE socket'[w] \in SocketRecords /\ Calm(w)
  <2>1. socket[w] \in SocketRecords
    BY DEF Types
  <2>2. socket'[w] = Out \/ socket'[w] = [socket[w] EXCEPT !.at = "closed"]
    BY <1>0
  <2>3. Out \in SocketRecords
    BY DEF Out, SocketRecords, Holders
  <2>4. Out.ticket = {} /\ Out.at = "out"
    BY DEF Out
  <2>5. CASE socket'[w] = Out
    BY <2>3, <2>4, <2>5 DEF Calm
  <2>6. CASE socket'[w] = [socket[w] EXCEPT !.at = "closed"]
    <3>1. /\ socket'[w] \in SocketRecords /\ socket'[w].at = "closed"
          /\ socket'[w].ticket = socket[w].ticket
      BY <2>1, <2>6, SocketRecord
    <3>. QED
      BY <3>1 DEF Calm
  <2>. QED
    BY <2>2, <2>5, <2>6
<1>2. TableTyped' /\ PluginTicketsTyped'
  BY <1>0 DEF Types, TableTyped, PluginTicketsTyped
<1>3. request' \in [Requests -> RequestRecords] /\ \A q \in Requests : Asked(q)'
  <2>1. Idle \in RequestRecords /\ Idle.at = "idle"
    BY DEF Idle, RequestRecords, Holders
  <2>. QED
    BY <1>0, <2>1 DEF Asked
<1>4. tickets' \in [DOMAIN tickets' -> TicketRecords] /\ revoking' \in [Sessions -> Rests]
  <2>1. <<>> \in Rests
    BY DEF Rests
  <2>2. <<>> \in [DOMAIN <<>> -> TicketRecords]
    OBVIOUS
  <2>. QED
    BY <1>0, <2>1, <2>2
<1>5. socket' \in [Sockets -> SocketRecords]
  BY <1>0, <1>1
<1>6. Types'
  BY <1>2, <1>3, <1>4, <1>5 DEF Types
<1>7. StoreKept'
  <2>1. Counted(live')
    BY <1>0, FewerCounted DEF StoreKept, Counted
  <2>. QED
    BY <1>0, <2>1 DEF StoreKept, Counted
<1>8. TicketsKept'
  BY <1>0, <1>1, CalmTickets
<1>. QED
  BY <1>6, <1>7, <1>8

-----------------------------------------------------------------------------
(* One-time tickets. *)

\* Steps that leave the session table, the sockets and core's tickets alone.
LEMMA ElsewhereKeeps ==
  ASSUME Types, StoreKept, TicketsKept, UNCHANGED <<store, expired, revoking, socket, pluginTickets>>
  PROVE  /\ TableTyped' /\ PluginTicketsTyped' /\ revoking' \in [Sessions -> Rests]
         /\ socket' \in [Sockets -> SocketRecords] /\ StoreKept' /\ TicketsKept'
<1>1. TicketsKept'
  BY StillCalm, CalmTickets DEF pluginTickets, TicketsKept
<1>. QED
  BY <1>1 DEF Types, TableTyped, PluginTicketsTyped, StoreKept, store, pluginTickets

LEMMA RequestMoves ==
  ASSUME Types, NEW q \in Requests, NEW r \in RequestRecords, r.at # "idle" => r.kind \in KindsUsed,
         request' = [request EXCEPT ![q] = r]
  PROVE  request' \in [Requests -> RequestRecords] /\ \A p \in Requests : Asked(p)'
BY DEF Types, Asked

LEMMA RequestRecord ==
  ASSUME NEW r \in RequestRecords, NEW at \in {"idle", "asking", "found", "locked", "stuck"},
         NEW n, n = [r EXCEPT !.at = at]
  PROVE  n \in RequestRecords /\ n.kind = r.kind
BY DEF RequestRecords

LEMMA FoundRecord ==
  ASSUME NEW r \in RequestRecords, NEW s \in Holders, NEW n, n = [r EXCEPT !.at = "found", !.session = s]
  PROVE  n \in RequestRecords /\ n.kind = r.kind
BY DEF RequestRecords

LEMMA AskerHolds == ASSUME Types, NEW q \in Requests PROVE Asker(q) \in Holders
BY DEF Types, RequestRecords, Asker, Holders

LEMMA TicketsLeft ==
  ASSUME Types, NEW t, tickets' = [u \in DOMAIN tickets \ {t} |-> tickets[u]]
  PROVE  tickets' \in [DOMAIN tickets' -> TicketRecords]
BY DEF Types

LEMMA RequestSteps ==
  ASSUME SessionsAssumption, Types, StoreKept, TicketsKept, NEW q \in Requests, NEW saved \in BOOLEAN,
         \/ \E s \in Holders, i \in DOMAIN Kinds : Ask(q, s, Kinds[i])
         \/ Lock(q) \/ Look(q) \/ (\E t \in Tickets : Issue(q, t)) \/ AskerExpired(q, saved)
  PROVE  Types' /\ StoreKept' /\ TicketsKept'
<1>0. request[q] \in RequestRecords /\ Asked(q) /\ Idle \in RequestRecords /\ Idle.at = "idle"
  BY DEF Types, Idle, RequestRecords, Holders
<1>1. ASSUME NEW s \in Holders, NEW i \in DOMAIN Kinds, Ask(q, s, Kinds[i])
      PROVE  Types' /\ StoreKept' /\ TicketsKept'
  <2>1. [at |-> "asking", kind |-> Kinds[i], session |-> s] \in RequestRecords /\ Kinds[i] \in KindsUsed
    BY DEF RequestRecords, KindsUsed
  <2>2. request' = [request EXCEPT ![q] = [at |-> "asking", kind |-> Kinds[i], session |-> s]]
        /\ UNCHANGED <<store, expired, revoking, tickets, socket, pluginTickets>>
    BY <1>1 DEF Ask
  <2>3. request' \in [Requests -> RequestRecords] /\ \A p \in Requests : Asked(p)'
    BY <2>1, <2>2, RequestMoves
  <2>. QED
    BY <2>2, <2>3, ElsewhereKeeps DEF Types
<1>2. CASE Lock(q)
  <2>1. request' = [request EXCEPT ![q] = [request[q] EXCEPT !.at = "locked"]] /\ request[q].at = "asking"
        /\ UNCHANGED <<store, expired, revoking, tickets, socket, pluginTickets>>
    BY <1>2 DEF Lock
  <2>2. Nobody \in Holders
    BY DEF Holders
  <2>3. request' \in [Requests -> RequestRecords] /\ \A p \in Requests : Asked(p)'
    BY <1>0, <2>1, <2>2, RequestMoves, RequestRecord DEF Asked
  <2>. QED
    BY <2>1, <2>3, ElsewhereKeeps DEF Types
<1>3. CASE Look(q)
  <2>1. request' = [request EXCEPT ![q] = [request[q] EXCEPT !.at = "found", !.session = Asker(q)]]
        /\ request[q].at = "asking" /\ UNCHANGED <<store, expired, revoking, tickets, socket, pluginTickets>>
    BY <1>3 DEF Look
  <2>2. PICK r : r = [request[q] EXCEPT !.at = "found", !.session = Asker(q)]
    OBVIOUS
  <2>4. r \in RequestRecords /\ r.kind = request[q].kind
    BY <1>0, <2>2, AskerHolds, FoundRecord
  <2>3. request' \in [Requests -> RequestRecords] /\ \A p \in Requests : Asked(p)'
    BY <1>0, <2>1, <2>2, <2>4, RequestMoves DEF Asked
  <2>. QED
    BY <2>1, <2>3, ElsewhereKeeps DEF Types
<1>4. ASSUME NEW t \in Tickets, Issue(q, t) PROVE Types' /\ StoreKept' /\ TicketsKept'
  <2>1. PICK s \in Holders : tickets' = [u \in DOMAIN tickets \cup {t} |->
                      IF u = t THEN [kind |-> request[q].kind, session |-> s] ELSE tickets[u]]
    <3>1. request[q].session \in Holders
      BY <1>0 DEF RequestRecords
    <3>. QED
      BY <1>4, <3>1, AskerHolds DEF Issue
  <2>2. request[q].kind \in KindsUsed /\ request' = [request EXCEPT ![q] = Idle]
        /\ UNCHANGED <<store, expired, revoking, socket, pluginTickets>>
    BY <1>0, <1>4 DEF Issue, Asked
  <2>3. request' \in [Requests -> RequestRecords] /\ \A p \in Requests : Asked(p)'
    BY <1>0, <2>2, RequestMoves
  <2>4. [kind |-> request[q].kind, session |-> s] \in TicketRecords
    BY <2>2 DEF TicketRecords
  <2>5. tickets' \in [DOMAIN tickets' -> TicketRecords]
    BY <2>1, <2>4 DEF Types
  <2>. QED
    BY <2>2, <2>3, <2>5, ElsewhereKeeps DEF Types
<1>5. CASE AskerExpired(q, saved)
  <2>1. request[q].session \in live \cap expired /\ Ended(request[q].session, saved)
        /\ request[q].at \in {"locked", "asking"} /\ UNCHANGED <<expired, issued, told, tickets, pluginTickets>>
    BY <1>5 DEF AskerExpired
  <2>2. request[q].session \in Sessions
    BY <2>1 DEF Types, TableTyped
  <2>3. PICK r \in {[request[q] EXCEPT !.at = "stuck"], [request[q] EXCEPT !.at = "found", !.session = Nobody]} :
          request' = [request EXCEPT ![q] = r]
    BY <1>5 DEF AskerExpired
  <2>4. r \in RequestRecords /\ r.kind = request[q].kind
    <3>1. Nobody \in Holders
      BY DEF Holders
    <3>2. CASE r = [request[q] EXCEPT !.at = "stuck"]
      BY <1>0, <3>1, <3>2, RequestRecord
    <3>3. CASE r = [request[q] EXCEPT !.at = "found", !.session = Nobody]
      BY <1>0, <3>1, <3>3, FoundRecord
    <3>. QED
      BY <3>2, <3>3
  <2>5. request' \in [Requests -> RequestRecords] /\ \A p \in Requests : Asked(p)'
    BY <1>0, <2>1, <2>3, <2>4, RequestMoves DEF Asked
  <2>. QED
    BY <2>1, <2>2, <2>5, EndedKeeps DEF Types
<1>. QED
  BY <1>1, <1>2, <1>3, <1>4, <1>5

LEMMA TicketExpiresKeeps ==
  ASSUME Types, StoreKept, TicketsKept, NEW t, TicketExpires(t)
  PROVE  Types' /\ StoreKept' /\ TicketsKept'
<1>1. tickets' \in [DOMAIN tickets' -> TicketRecords]
  BY TicketsLeft DEF TicketExpires
<1>. QED
  BY <1>1, ElsewhereKeeps DEF TicketExpires, Types, Asked

-----------------------------------------------------------------------------
(* The application socket. *)

\* Steps that leave all but the sockets and the tickets alone.
LEMMA TableStill ==
  ASSUME Types, StoreKept, UNCHANGED <<store, expired, revoking, request>>
  PROVE  /\ TableTyped' /\ revoking' \in [Sessions -> Rests] /\ StoreKept'
         /\ request' \in [Requests -> RequestRecords] /\ \A p \in Requests : Asked(p)'
BY DEF Types, TableTyped, StoreKept, store, Asked

LEMMA PluginTicketSteps ==
  ASSUME SessionsAssumption, Types, StoreKept, TicketsKept, NEW t \in PluginTickets,
         (\E s \in Sessions : GivePluginTicket(s, t)) \/ PluginTicketExpires(t)
  PROVE  Types' /\ StoreKept' /\ TicketsKept'
<1>1. ASSUME NEW s \in Sessions, GivePluginTicket(s, t) PROVE Types' /\ StoreKept' /\ TicketsKept'
  <2>0. /\ t \notin remembered /\ owned[t] = Nobody /\ granted' = granted \cup {t}
        /\ owned' = [owned EXCEPT ![t] = s] /\ remembered' = remembered \cup {t}
        /\ UNCHANGED <<store, expired, revoking, tickets, request, socket>>
    BY <1>1 DEF GivePluginTicket
  <2>1. PluginTicketsTyped'
    BY <2>0 DEF Types, PluginTicketsTyped, Holders
  <2>2. s # Nobody
    BY DEF SessionsAssumption
  <2>3. owned'[t] = s /\ \A u \in PluginTickets \ {t} : owned'[u] = owned[u]
    BY <2>0 DEF Types, PluginTicketsTyped
  <2>4. ASSUME NEW w \in Sockets, NEW u \in socket[w].ticket
        PROVE  u \in PluginTickets \ {t}
    <3>1. owned[u] # Nobody
      BY DEF TicketsKept
    <3>2. u \in PluginTickets
      BY DEF Types, SocketRecords
    <3>. QED
      BY <2>0, <3>1, <3>2
  <2>5. TicketsKept'
    BY <2>0, <2>2, <2>3, <2>4 DEF TicketsKept, Types, PluginTicketsTyped
  <2>. QED
    BY <2>0, <2>1, <2>5, TableStill DEF Types
<1>2. CASE PluginTicketExpires(t)
  <2>0. /\ granted' \subseteq granted /\ remembered' \subseteq remembered /\ owned' = owned
        /\ granted' \subseteq remembered'
        /\ UNCHANGED <<store, expired, revoking, tickets, request, socket>>
    BY <1>2 DEF PluginTicketExpires, TicketsKept
  <2>1. PluginTicketsTyped'
    BY <2>0 DEF Types, PluginTicketsTyped
  <2>2. TicketsKept'
    BY <2>0, StillCalm, CalmTickets
  <2>. QED
    BY <2>0, <2>1, <2>2, TableStill DEF Types
<1>. QED
  BY <1>1, <1>2

LEMMA SocketSteps ==
  ASSUME SessionsAssumption, Types, StoreKept, TicketsKept, NEW w \in Sockets,
         \/ \E s \in Holders : (\E t \in Tickets : Open(w, s, t))
                               \/ \E t \in PluginTickets : OpenRestricted(w, s, t)
         \/ Register(w) \/ Hangs(w)
  PROVE  Types' /\ StoreKept' /\ TicketsKept'
<1>1. ASSUME NEW s \in Holders, NEW t \in Tickets, Open(w, s, t) PROVE Types' /\ StoreKept' /\ TicketsKept'
  <2>0. /\ tickets' = [u \in DOMAIN tickets \ {t} |-> tickets[u]]
        /\ socket' = [socket EXCEPT ![w] = [at |-> "accepted", session |-> s, ticket |-> {}]]
        /\ UNCHANGED <<store, expired, revoking, request, pluginTickets>>
    BY <1>1 DEF Open
  <2>1. [at |-> "accepted", session |-> s, ticket |-> {}] \in SocketRecords
    BY DEF SocketRecords
  <2>2. socket' \in [Sockets -> SocketRecords] /\ socket'[w].ticket = {}
        /\ \A v \in Sockets \ {w} : socket'[v] = socket[v]
    BY <2>0, <2>1 DEF Types
  <2>3. TicketsKept'
    BY <2>0, <2>2 DEF TicketsKept, pluginTickets
  <2>4. Types'
    BY <2>0, <2>2, TableStill, TicketsLeft DEF Types, PluginTicketsTyped, pluginTickets
  <2>. QED
    BY <2>0, <2>3, <2>4, TableStill
<1>2. ASSUME NEW s \in Holders, NEW t \in PluginTickets, OpenRestricted(w, s, t)
      PROVE  Types' /\ StoreKept' /\ TicketsKept'
  <2>0. /\ t \in granted /\ granted' = granted \ {t}
        /\ UNCHANGED <<store, expired, revoking, tickets, request, owned, remembered>>
    BY <1>2 DEF OpenRestricted
  <2>1. PICK at \in {"accepted", "closed"} :
          /\ socket' = [socket EXCEPT ![w] = [at |-> at, session |-> s, ticket |-> {t}]]
          /\ at = "accepted" => Allowed(t, s)
    BY <1>2 DEF OpenRestricted
  <2>2. [at |-> at, session |-> s, ticket |-> {t}] \in SocketRecords
    BY DEF SocketRecords
  <2>3. socket' \in [Sockets -> SocketRecords] /\ socket'[w] = [at |-> at, session |-> s, ticket |-> {t}]
        /\ \A v \in Sockets \ {w} : socket'[v] = socket[v]
    BY <2>1, <2>2 DEF Types
  <2>4. owned[t] # Nobody /\ t \in remembered
    BY <2>0 DEF TicketsKept
  <2>5. TicketsKept'
    BY <2>0, <2>1, <2>3, <2>4 DEF TicketsKept, Allowed
  <2>6. Types'
    BY <2>0, <2>3, TableStill DEF Types, PluginTicketsTyped
  <2>. QED
    BY <2>0, <2>5, <2>6, TableStill
<1>3. ASSUME socket' \in [Sockets -> SocketRecords], \A v \in Sockets : Calm(v),
             UNCHANGED <<store, expired, revoking, tickets, request, pluginTickets>>
      PROVE  Types' /\ StoreKept' /\ TicketsKept'
  <2>1. TicketsKept'
    BY <1>3, CalmTickets DEF pluginTickets, TicketsKept
  <2>. QED
    BY <1>3, <2>1, TableStill DEF Types, PluginTicketsTyped, pluginTickets
<1>4. CASE Register(w)
  BY <1>3, <1>4, MovedCalm DEF Register
<1>5. CASE Hangs(w)
  BY <1>3, <1>5, MovedCalm DEF Hangs
<1>. QED
  BY <1>1, <1>2, <1>4, <1>5

-----------------------------------------------------------------------------
(* The theorems. *)

LEMMA SessionsStart == ASSUME SessionsAssumption PROVE Init => Types /\ StoreKept /\ TicketsKept
<1>. SUFFICES ASSUME Init PROVE Types /\ StoreKept /\ TicketsKept
  OBVIOUS
<1>1. Idle \in RequestRecords /\ Idle.at = "idle"
  BY DEF Idle, RequestRecords, Holders
<1>2. Out \in SocketRecords /\ Out.ticket = {}
  BY DEF Out, SocketRecords, Holders
<1>3. <<>> \in Rests /\ <<>> \in [DOMAIN <<>> -> TicketRecords]
  BY DEF Rests
<1>4. request \in [Requests -> RequestRecords] /\ \A q \in Requests : Asked(q)
  BY <1>1 DEF Init, Asked
<1>5. socket \in [Sockets -> SocketRecords] /\ \A w \in Sockets : socket[w].ticket = {}
  BY <1>2 DEF Init
<1>6. TableTyped /\ PluginTicketsTyped
  BY DEF Init, TableTyped, PluginTicketsTyped, Holders
<1>7. Types
  BY <1>3, <1>4, <1>5, <1>6 DEF Init, Types
<1>8. StoreKept
  BY FS_EmptySet DEF Init, StoreKept, SessionsAssumption
<1>9. TicketsKept
  BY <1>5 DEF Init, TicketsKept
<1>. QED
  BY <1>7, <1>8, <1>9

LEMMA SessionsKept ==
  ASSUME SessionsAssumption
  PROVE  Types /\ StoreKept /\ TicketsKept /\ [Next]_webVars => Types' /\ StoreKept' /\ TicketsKept'
<1>. SUFFICES ASSUME Types, StoreKept, TicketsKept, [Next]_webVars PROVE Types' /\ StoreKept' /\ TicketsKept'
  OBVIOUS
<1>1. ASSUME NEW s \in Sessions, Revoke(s) \/ Expire(s) PROVE Types' /\ StoreKept' /\ TicketsKept'
  <2>1. TRUE \in BOOLEAN
    OBVIOUS
  <2>. QED
    BY <1>1, <2>1, TableSteps
<1>2. ASSUME NEW q \in Requests,
             \/ \E s \in Holders, i \in DOMAIN Kinds : Ask(q, s, Kinds[i])
             \/ Lock(q) \/ Look(q) \/ (\E t \in Tickets : Issue(q, t))
             \/ \E saved \in BOOLEAN : AskerExpired(q, saved)
      PROVE Types' /\ StoreKept' /\ TicketsKept'
  <2>1. TRUE \in BOOLEAN
    OBVIOUS
  <2>. QED
    BY <1>2, <2>1, RequestSteps
<1>3. ASSUME NEW t \in Tickets, TicketExpires(t) \/ Download(t) PROVE Types' /\ StoreKept' /\ TicketsKept'
  BY <1>3, TicketExpiresKeeps DEF Download
<1>4. ASSUME NEW w \in Sockets, SeesEnd(w) \/ Deadline(w) PROVE Types' /\ StoreKept' /\ TicketsKept'
  BY <1>4, SocketSteps DEF SeesEnd, Deadline
<1>5. CASE UNCHANGED webVars
  BY <1>5, ElsewhereKeeps DEF webVars, store, pluginTickets, Types, Asked
<1>. QED
  BY <1>1, <1>2, <1>3, <1>4, <1>5, TableSteps, RestartKeeps, PluginTicketSteps, SocketSteps DEF Next

LEMMA SessionsInvariant == ASSUME SessionsAssumption PROVE Spec => [](Types /\ StoreKept /\ TicketsKept)
  BY SessionsStart, SessionsKept, PTL DEF Spec

\* Sessions, tickets, requests and sockets keep their types.
THEOREM TypeCorrect == ASSUME SessionsAssumption PROVE Spec => []TypeOK
<1>. QED
  BY SessionsInvariant, TypesAre, PTL

\* web/auth_sessions.go: a revoked session stays revoked, and a ticket opens
\* only the socket of the session it was given to.
THEOREM WebSessionsStayKept == ASSUME SessionsAssumption PROVE Spec => []WebSessionsKept
<1>1. Types /\ StoreKept /\ TicketsKept => WebSessionsKept
  BY DEF StoreKept, TicketsKept, WebSessionsKept, RevokedStaysRevoked, TicketKeepsSession
<1>. QED
  BY <1>1, SessionsInvariant, PTL
=============================================================================
