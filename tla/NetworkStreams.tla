--------------------------- MODULE NetworkStreams ---------------------------
(***************************************************************************)
(* The TCP/TLS streams of one plugin (core/plugin_network_streams.go).     *)
(* The plugin's host calls exclude each other but leave the manager's lock *)
(* while they dial and read; a browser may attach to a stream, read it and *)
(* release it at any moment, and timers and RunPilot's end close streams.  *)
(* The limits are those of one plugin; the global ones are the same check. *)
(***************************************************************************)
EXTENDS Naturals, Sequences, FiniteSets, SequencesExt

CONSTANTS
  Streams,
  MaxOpen,       \* maxPluginNetworkStreamsPerOwner
  MaxRecords,    \* maxPluginNetworkRecordsPerOwner
  MaxBytes       \* bound: bytes waiting to be read from a stream

StreamsAssumption == MaxOpen \in Nat /\ MaxRecords \in Nat /\ MaxBytes \in Nat

VARIABLES
  streamState,   \* pluginNetworkStream.state
  records,       \* the streams of `items`
  retired,       \* closed streams in the order of their closedAt
  connected,     \* streams with an open connection
  attached,      \* streams attached to a browser
  waiting,       \* bytes of a stream that nobody has read
  ended,         \* streams whose peer has closed
  deadline,      \* streams with a read deadline
  netCall,       \* the host call that has left the lock: [op, on]
  streamsClosed  \* the manager has been closed

streamVars == <<streamState, records, retired, connected, attached, waiting, ended,
                deadline, netCall, streamsClosed>>
peer == <<waiting, ended>>

NoCall == [op |-> "none", on |-> {}]
Open(n) == streamState[n] = "open"
OpenRecords == {n \in records : Open(n)}

Init ==
  /\ streamState = [n \in Streams |-> "none"] /\ records = {} /\ retired = <<>>
  /\ connected = {} /\ attached = {} /\ waiting = [n \in Streams |-> 0] /\ ended = {}
  /\ deadline = {} /\ netCall = NoCall /\ streamsClosed = FALSE

-----------------------------------------------------------------------------
(* open: the connection is made without the lock and given up again when   *)
(* the manager was closed or a limit is reached meanwhile.                 *)

Dial(n) ==
  /\ netCall = NoCall /\ streamState[n] = "none"
  /\ netCall' = [op |-> "dial", on |-> {n}]
  /\ UNCHANGED <<streamState, records, retired, connected, attached, peer, deadline, streamsClosed>>

DialFails(n) ==
  /\ netCall = [op |-> "dial", on |-> {n}] /\ netCall' = NoCall
  /\ UNCHANGED <<streamState, records, retired, connected, attached, peer, deadline, streamsClosed>>

Connected(n) ==
  /\ netCall = [op |-> "dial", on |-> {n}] /\ n \notin connected
  /\ connected' = connected \cup {n} /\ netCall' = [netCall EXCEPT !.op = "insert"]
  /\ UNCHANGED <<streamState, records, retired, attached, peer, deadline, streamsClosed>>

EvictedAny == LET old == {n \in Streams : n \in records}
              IN IF old = {} THEN {} ELSE {CHOOSE n \in old : TRUE}

\* evictOldestClosed: the record that makes room, when one is closed.
Evicted == IF retired = <<>> THEN {} ELSE {Head(retired)}

\* The locked part of open.
Insert(n) ==
  LET evict == IF Cardinality(records) >= MaxRecords THEN Evicted ELSE {}
      refused == streamsClosed \/ Cardinality(OpenRecords) >= MaxOpen
      full == Cardinality(records \ evict) >= MaxRecords
  IN /\ netCall = [op |-> "insert", on |-> {n}] /\ netCall' = NoCall
     /\ records' = IF refused THEN records ELSE IF full THEN records \ evict
                   ELSE (records \ evict) \cup {n}
     /\ retired' = IF refused \/ evict = {} THEN retired ELSE RemoveAt(retired, 1)
     /\ IF refused \/ full
        THEN connected' = connected \ {n} /\ UNCHANGED streamState
        ELSE streamState' = [streamState EXCEPT ![n] = "open"] /\ UNCHANGED connected
     /\ UNCHANGED <<attached, peer, deadline, streamsClosed>>

-----------------------------------------------------------------------------

\* markClosed: the first state stays. The plugin is told with a callback.
MarkClosed(n, state) ==
  IF Open(n)
  THEN /\ streamState' = [streamState EXCEPT ![n] = state]
       /\ retired' = IF n \in records THEN Append(retired, n) ELSE retired
       /\ connected' = connected \ {n}
  ELSE UNCHANGED <<streamState, retired, connected>>

\* read, also with `peek`: the state is checked and a deadline set under the
\* lock; the wait is outside it.
BeginRead(n, op) ==
  /\ netCall = NoCall /\ n \in OpenRecords \ attached
  /\ deadline' = deadline \cup {n}
  /\ netCall' = [op |-> op, on |-> {n}]
  /\ UNCHANGED <<streamState, records, retired, connected, attached, peer, streamsClosed>>

Reading(n) == netCall.op \in {"read", "peek"} /\ n \in netCall.on

ReadReturns(n) ==
  /\ Reading(n) /\ waiting[n] > 0 /\ netCall' = NoCall
  /\ waiting' = [waiting EXCEPT ![n] = IF netCall.op = "peek" THEN @ ELSE @ - 1]
  /\ UNCHANGED <<streamState, records, retired, connected, attached, ended, deadline, streamsClosed>>

ReadTimesOut(n) ==
  /\ Reading(n) /\ n \in deadline /\ netCall' = NoCall
  /\ UNCHANGED <<streamState, records, retired, connected, attached, peer, deadline, streamsClosed>>

\* The end of the stream: a peek whose offset lies behind the last byte meets
\* it although bytes are left. An error of the connection is a failure.
ReadEnds(n) ==
  /\ Reading(n) /\ netCall' = NoCall
  /\ \/ n \in ended /\ (waiting[n] = 0 \/ netCall.op = "peek") /\ MarkClosed(n, "eof")
     \/ MarkClosed(n, "failed")
  /\ UNCHANGED <<records, attached, peer, deadline, streamsClosed>>

\* A write that succeeds or times out changes nothing here.
WriteFails(n) ==
  /\ netCall = NoCall /\ n \in OpenRecords \ attached /\ MarkClosed(n, "failed")
  /\ UNCHANGED <<records, attached, peer, deadline, netCall, streamsClosed>>

CloseStream(n) ==
  /\ netCall = NoCall /\ n \in OpenRecords /\ MarkClosed(n, "closed")
  /\ UNCHANGED <<records, attached, peer, deadline, netCall, streamsClosed>>

-----------------------------------------------------------------------------
(* The browser's socket, the peer, timers. *)

\* attach takes the stream for one socket and clears its deadlines.
Attach(n) ==
  /\ n \in OpenRecords \ attached
  /\ attached' = attached \cup {n} /\ deadline' = deadline \ {n}
  /\ UNCHANGED <<streamState, records, retired, connected, peer, netCall, streamsClosed>>

BrowserReads(n) ==
  /\ n \in attached \cap connected /\ waiting[n] > 0
  /\ waiting' = [waiting EXCEPT ![n] = @ - 1]
  /\ UNCHANGED <<streamState, records, retired, connected, attached, ended, deadline, netCall, streamsClosed>>

Release(n) ==
  /\ n \in attached /\ Open(n) /\ MarkClosed(n, "closed")
  /\ UNCHANGED <<records, attached, peer, deadline, netCall, streamsClosed>>

Arrive(n) ==
  /\ n \in connected \ ended /\ waiting[n] < MaxBytes
  /\ waiting' = [waiting EXCEPT ![n] = @ + 1]
  /\ UNCHANGED <<streamState, records, retired, connected, attached, ended, deadline, netCall, streamsClosed>>

PeerCloses(n) ==
  /\ n \in connected \ ended /\ ended' = ended \cup {n}
  /\ UNCHANGED <<streamState, records, retired, connected, attached, waiting, deadline, netCall, streamsClosed>>

\* pluginNetworkStreamRetention after the end, by timer or at the next open.
Expire(n) ==
  /\ \E i \in 1 .. Len(retired) : retired[i] = n /\ retired' = RemoveAt(retired, i)
  /\ records' = records \ {n}
  /\ UNCHANGED <<streamState, connected, attached, peer, deadline, netCall, streamsClosed>>

DropRecords ==
  /\ connected' = connected \ records /\ records' = {} /\ retired' = <<>>
  /\ UNCHANGED <<streamState, attached, peer, deadline, netCall>>

\* The plugin's shutdown waits for its calls; the records go, unmarked.
StopOwner == netCall = NoCall /\ records # {} /\ DropRecords /\ UNCHANGED streamsClosed

\* The host's end does not wait for an open that is under way.
CloseManager == ~streamsClosed /\ streamsClosed' = TRUE /\ DropRecords

Next ==
  \/ \E n \in Streams :
       \/ Dial(n) \/ DialFails(n) \/ Connected(n) \/ Insert(n)
       \/ \E op \in {"read", "peek"} : BeginRead(n, op)
       \/ ReadReturns(n) \/ ReadTimesOut(n) \/ ReadEnds(n) \/ WriteFails(n) \/ CloseStream(n)
       \/ Attach(n) \/ BrowserReads(n) \/ Release(n) \/ Arrive(n) \/ PeerCloses(n) \/ Expire(n)
  \/ StopOwner \/ CloseManager

Spec == Init /\ [][Next]_streamVars

-----------------------------------------------------------------------------

TypeOK ==
  /\ streamState \in [Streams -> {"none", "open", "eof", "failed", "closed"}]
  /\ records \subseteq Streams /\ retired \in Seq(Streams) /\ connected \subseteq Streams
  /\ attached \subseteq Streams /\ waiting \in [Streams -> 0 .. MaxBytes] /\ ended \subseteq Streams
  /\ deadline \subseteq Streams /\ streamsClosed \in BOOLEAN
  /\ netCall \in [op : {"none", "dial", "insert", "read", "peek"}, on : SUBSET Streams]

\* No connection is leaked and none is cut off behind its record's back: the
\* open connections are those of the open records and of an open under way,
\* within the limits, whatever is evicted, attached, stopped or closed.
ConnectionsAreRecorded ==
  /\ connected \subseteq OpenRecords \cup netCall.on /\ OpenRecords \subseteq connected
  /\ Cardinality(OpenRecords) <= MaxOpen /\ Cardinality(records) <= MaxRecords
  /\ ToSet(retired) = records \ OpenRecords

=============================================================================
