-------------------------- MODULE WebSocketChannels --------------------------
(***************************************************************************)
(* The WebSocket half of a gateway's tunnel: channels between sockets of   *)
(* pages, opened by the service worker (plugins/web-apps/web/tunnel.js),   *)
(* and sockets to the upstream, kept by the host                           *)
(* (httpgateway/websocket.go).  An invalid frame closes the whole gateway. *)
(***************************************************************************)
EXTENDS Integers, Sequences, FiniteSets

CONSTANTS
  Channels,       \* channel ids, in the order the worker gives them
  MaxWebSockets,  \* sockets at a time, at either end
  Window,         \* credit of a channel; a chunk is one unit
  Queue,          \* messages waiting for the upstream
  MaxSent,        \* bound: messages that a page sends
  MaxRead         \* bound: messages that an upstream sends

ChannelsAssumption ==
  Channels \subseteq Nat \ {0} /\ {MaxWebSockets, Window, Queue, MaxSent, MaxRead} \subseteq Nat /\ Window > 0

VARIABLES
  up, down,       \* frames to the host and to the worker
  tab,            \* tunnel.sockets: the worker's end
  opens,          \* the open that accept is dialing for, at most one
  remote,         \* Gateway.sockets and the two goroutines of each
  lastWSID,       \* Gateway.lastWSID
  failed          \* why the gateway was closed, if it was

channelVars == <<up, down, tab, opens, remote, lastWSID, failed>>

Runs == "no"
Msg(type, id, n) == [type |-> type, id |-> id, n |-> n]
ToHost(m) == up' = Append(up, m)
ToTab(m) == down' = Append(down, m)

Unopened == [at |-> "new", opened |-> FALSE, closing |-> FALSE, sent |-> 0]
NoSocket == [in |-> FALSE, conn |-> "none", queue |-> 0, credit |-> 0, pending |-> 0, told |-> 0,
             reader |-> FALSE, writer |-> FALSE, closing |-> FALSE]

Init ==
  /\ up = <<>> /\ down = <<>> /\ opens = {} /\ lastWSID = 0 /\ failed = Runs
  /\ tab = [c \in Channels |-> Unopened] /\ remote = [c \in Channels |-> NoSocket]

Alive == failed = Runs
Kept == {c \in Channels : tab[c].at = "kept"}
Sockets == {c \in Channels : remote[c].in}
Fail(reason) == failed' = reason

-----------------------------------------------------------------------------
(* The service worker. *)

OpenSocket(c) ==
  /\ Alive /\ tab[c].at = "new" /\ \A other \in Channels : other < c => tab[other].at # "new"
  /\ Cardinality(Kept) < MaxWebSockets /\ tab' = [tab EXCEPT ![c].at = "kept"]
  /\ ToHost(Msg("open", c, 0)) /\ UNCHANGED <<down, opens, remote, lastWSID, failed>>

\* openSocket gives up after 30 s and closes what it may have opened.
OpenTimesOut(c) ==
  /\ Alive /\ c \in Kept /\ ~tab[c].opened /\ tab' = [tab EXCEPT ![c].at = "gone"]
  /\ ToHost(Msg("close", c, 0)) /\ UNCHANGED <<down, opens, remote, lastWSID, failed>>

SendSocket(c) ==
  /\ Alive /\ c \in Kept /\ tab[c].opened /\ tab[c].sent < MaxSent
  /\ tab' = [tab EXCEPT ![c].sent = @ + 1] /\ ToHost(Msg("data", c, 1))
  /\ UNCHANGED <<down, opens, remote, lastWSID, failed>>

CloseSocket(c) ==
  /\ Alive /\ c \in Kept /\ tab[c].opened /\ ~tab[c].closing
  /\ tab' = [tab EXCEPT ![c].closing = TRUE] /\ ToHost(Msg("close", c, 0))
  /\ UNCHANGED <<down, opens, remote, lastWSID, failed>>

GrantedWindow(m) == Window

\* receiveSocket: credit is returned for every chunk.
Granted(m) == m.n

TabReceives ==
  /\ Alive /\ down # <<>> /\ down' = Tail(down) /\ UNCHANGED <<opens, remote, lastWSID, failed>>
  /\ LET m == Head(down) IN
     \/ m.id \notin Kept /\ UNCHANGED <<tab, up>>
     \/ m.id \in Kept /\ m.type = "opened" /\ tab' = [tab EXCEPT ![m.id].opened = TRUE]
        /\ ToHost(Msg("credit", m.id, Window))
     \/ m.id \in Kept /\ m.type = "data" /\ ToHost(Msg("credit", m.id, Granted(m))) /\ UNCHANGED tab
     \/ m.id \in Kept /\ m.type \in {"closed", "error"} /\ tab' = [tab EXCEPT ![m.id].at = "gone"]
        /\ UNCHANGED up

-----------------------------------------------------------------------------
(* The host; accept runs in Serve's loop, so a dial keeps every frame waiting. *)

\* removeSocket: out of the map, and the upstream connection is closed.
Removed(s) == [s EXCEPT !.in = FALSE, !.conn = "closed"]

Accepts(m) ==
  \/ /\ m.type = "open" /\ m.id <= lastWSID /\ Fail("order")
     /\ UNCHANGED <<down, opens, remote, lastWSID>>
  \/ /\ m.type = "open" /\ m.id > lastWSID /\ lastWSID' = m.id /\ UNCHANGED <<remote, failed>>
     /\ \/ Cardinality(Sockets) >= MaxWebSockets /\ ToTab(Msg("error", m.id, 0)) /\ UNCHANGED opens
        \/ Cardinality(Sockets) < MaxWebSockets /\ opens' = {m.id} /\ UNCHANGED down

AcceptsKnown(m) ==
  LET s == remote[m.id] IN
  /\ UNCHANGED <<opens, lastWSID>>
  /\ \/ /\ m.type = "data" /\ s.queue < Queue /\ UNCHANGED <<down, failed>>
        /\ remote' = [remote EXCEPT ![m.id].queue = @ + 1]
     \/ /\ m.type = "data" /\ s.queue = Queue /\ ToTab(Msg("error", m.id, 0)) /\ UNCHANGED failed
        /\ remote' = [remote EXCEPT ![m.id] = Removed(@)]
     \/ m.type = "credit" /\ s.credit + m.n > Window /\ Fail("credit") /\ UNCHANGED <<down, remote>>
     \/ /\ m.type = "credit" /\ s.credit + m.n <= Window /\ UNCHANGED <<down, failed>>
        /\ remote' = [remote EXCEPT ![m.id].credit = @ + m.n]
     \/ /\ m.type = "close" /\ UNCHANGED <<down, failed>>
        /\ remote' = [remote EXCEPT ![m.id].conn = "closed", ![m.id].closing = TRUE]

Accept ==
  /\ Alive /\ up # <<>> /\ opens = {} /\ up' = Tail(up) /\ UNCHANGED tab
  /\ LET m == Head(up) IN
     \/ m.type = "open" /\ Accepts(m)
     \/ m.type # "open" /\ m.id \in Sockets /\ AcceptsKnown(m)
     \/ /\ m.type # "open" /\ m.id \notin Sockets /\ UNCHANGED <<down, opens, remote, lastWSID>>
        /\ IF m.type = "close" THEN UNCHANGED failed ELSE Fail("unknown")

\* acceptWebSocket after the dial, within 30 s.
Dialed(c) ==
  /\ Alive /\ opens = {c} /\ opens' = {} /\ UNCHANGED <<up, tab, lastWSID, failed>>
  /\ \/ ToTab(Msg("error", c, 0)) /\ UNCHANGED remote
     \/ /\ ToTab(Msg("opened", c, 0))
        /\ remote' = [remote EXCEPT ![c] = [NoSocket EXCEPT !.in = TRUE, !.conn = "open",
                                                            !.reader = TRUE, !.writer = TRUE]]

Socket(c, s) == remote' = [remote EXCEPT ![c] = s] /\ UNCHANGED <<up, tab, opens, lastWSID, failed>>

\* upstreamWebSocketWrite: a message goes out, or the write fails.
Written(c) ==
  LET s == remote[c] IN
  /\ Alive /\ s.writer /\ s.queue > 0 /\ s.conn = "open" /\ UNCHANGED down
  /\ Socket(c, [s EXCEPT !.queue = @ - 1])

WriteFails(c) ==
  LET s == remote[c] IN
  /\ Alive /\ s.writer /\ s.queue > 0 /\ ToTab(Msg("error", c, 0))
  /\ Socket(c, [Removed(s) EXCEPT !.writer = FALSE, !.queue = @ - 1])

\* upstreamWebSocketRead: a message is read, then forwarded as credit allows.
UpstreamSends(c) ==
  LET s == remote[c] IN
  /\ Alive /\ s.reader /\ s.conn = "open" /\ s.pending = 0 /\ s.told < MaxRead
  /\ Socket(c, [s EXCEPT !.pending = 1, !.told = @ + 1]) /\ UNCHANGED down

Forward(c) ==
  LET s == remote[c] IN
  /\ Alive /\ s.reader /\ s.pending > 0 /\ s.credit > 0 /\ ToTab(Msg("data", c, 1))
  /\ Socket(c, [s EXCEPT !.pending = @ - 1, !.credit = @ - 1])

\* The read fails: the upstream closed, or this end did.
ReadEnds(c) ==
  LET s == remote[c] IN
  /\ Alive /\ s.reader /\ s.pending = 0 /\ ToTab(Msg("closed", c, 0))
  /\ Socket(c, [s EXCEPT !.reader = FALSE, !.conn = "closed"])

\* Its deferred removeSocket, after the frame; and the one 5 s after a close.
Remove(c) ==
  LET s == remote[c] IN
  /\ Alive /\ s.in /\ (~s.reader \/ s.closing) /\ Socket(c, Removed(s)) /\ UNCHANGED down

\* Gateway.Close, the tunnel's close, a lost stream: goroutines and sockets end.
Shut == Alive /\ Fail("closed") /\ UNCHANGED <<up, down, tab, opens, remote, lastWSID>>

Next ==
  \/ TabReceives \/ Accept \/ Shut
  \/ \E c \in Channels :
       \/ OpenSocket(c) \/ OpenTimesOut(c) \/ SendSocket(c) \/ CloseSocket(c)
       \/ Dialed(c) \/ Written(c) \/ WriteFails(c) \/ UpstreamSends(c) \/ Forward(c)
       \/ ReadEnds(c) \/ Remove(c)

Spec == Init /\ [][Next]_channelVars

-----------------------------------------------------------------------------
MsgType == [type : {"open", "close", "data", "credit", "opened", "closed", "error"}, id : Channels, n : 0..Window]

TypeOK ==
  /\ up \in Seq(MsgType) /\ down \in Seq(MsgType) /\ opens \subseteq Channels
  /\ tab \in [Channels -> [at : {"new", "kept", "gone"}, opened : BOOLEAN, closing : BOOLEAN, sent : 0..MaxSent]]
  /\ \A c \in Channels : remote[c].credit \in 0..Window /\ remote[c].queue \in 0..Queue

\* The worker never grants more than the window and never repeats a channel id,
\* and the host has no more sockets than its limit, however channels are opened
\* and given up (acceptWebSocket, receiveSocket).
ChannelsKept ==
  /\ failed \notin {"credit", "order"}
  /\ Cardinality(Sockets) <= MaxWebSockets

\* docs/PLUGIN_API.md: "individual failures do not cancel unrelated HTTP
\* exchanges or channels": nothing but its end closes the gateway (acceptWebSocket).
ChannelsIndependent == failed \in {Runs, "closed"}
=============================================================================
