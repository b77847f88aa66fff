---------------------------- MODULE HttpExchanges ----------------------------
(***************************************************************************)
(* The HTTP half of a gateway's tunnel: the host's end                     *)
(* (httpgateway/gateway.go) and the service worker's end                   *)
(* (plugins/web-apps/web/tunnel.js) of exchanges multiplexed over one      *)
(* stream, with byte windows in both directions.  Sizes are in units;      *)
(* the order of frames is the stream's, one queue in each direction.       *)
(***************************************************************************)
EXTENDS Integers, Sequences, FiniteSets

CONSTANTS
  Requests,       \* 1..n: request ids, in the order the worker gives them
  MaxExchanges,   \* exchanges at a time, at either end
  Chunk,          \* the largest body frame
  Window,         \* unconsumed bytes of an exchange and direction
  Slots,          \* the capacity of an upload channel: Window / Chunk + 1
  MaxBody         \* bound: bytes of a request body, and of a response

ExchangesAssumption ==
  /\ Requests \subseteq Nat \ {0} /\ {MaxExchanges, Chunk, Window, Slots, MaxBody} \subseteq Nat
  /\ Chunk > 0 /\ Window >= Chunk

VARIABLES
  toHost, toBrowser,   \* frames on the stream
  page,                \* tunnel.exchanges: the worker's end of every request
  host,                \* Gateway.exchanges and the two goroutines of each
  lastID,              \* Gateway.lastID
  broken               \* why the stream was closed, if it was

exchangeVars == <<toHost, toBrowser, page, host, lastID, broken>>

Fine == "no"
Lesser(a, b) == IF a < b THEN a ELSE b
Frame(type, id, n) == [type |-> type, id |-> id, n |-> n]
ToHost(frame) == toHost' = Append(toHost, frame)
ToBrowser(frame) == toBrowser' = Append(toBrowser, frame)

\* An exchange of the worker: what it may upload, has left of the body (-1: ended),
\* has granted for the response, and holds for the page.
Asked == [at |-> "new", may |-> 0, left |-> 0, granted |-> 0, held |-> 0, started |-> FALSE]

\* An exchange of the host; "in" the map.  drain: the goroutine that feeds the
\* upstream has taken, or has written and not yet credited, so many bytes.
Unused == [in |-> FALSE, canceled |-> FALSE, ended |-> FALSE, uploaded |-> Window, upload |-> <<>>,
           drain |-> [at |-> "idle", n |-> 0], credit |-> 0, run |-> "no", sent |-> 0]

Init ==
  /\ toHost = <<>> /\ toBrowser = <<>> /\ page = [id \in Requests |-> Asked]
  /\ host = [id \in Requests |-> Unused] /\ lastID = 0 /\ broken = Fine

Up == broken = Fine
PageOpen == {id \in Requests : page[id].at = "open"}
HostOpen == {id \in Requests : host[id].in}

-----------------------------------------------------------------------------
(* The service worker. *)

\* request: the others wait for a free exchange (waiters).
Ask(id) ==
  /\ Up /\ page[id].at = "new" /\ \A other \in Requests : other < id => page[other].at # "new"
  /\ Cardinality(PageOpen) < MaxExchanges
  /\ \E body \in 0..MaxBody : page' = [page EXCEPT ![id].at = "open", ![id].left = body]
  /\ ToHost(Frame("start", id, 0)) /\ UNCHANGED <<toBrowser, host, lastID, broken>>

Upload(id) ==
  /\ Up /\ page[id].at = "open"
  /\ \E n \in 1..Lesser(Chunk, Lesser(page[id].may, page[id].left)) :
       /\ page' = [page EXCEPT ![id].may = @ - n, ![id].left = @ - n]
       /\ ToHost(Frame("body", id, n))
  /\ UNCHANGED <<toBrowser, host, lastID, broken>>

UploadEnds(id) ==
  /\ Up /\ page[id].at = "open" /\ page[id].left = 0
  /\ page' = [page EXCEPT ![id].left = -1] /\ ToHost(Frame("end", id, 0))
  /\ UNCHANGED <<toBrowser, host, lastID, broken>>

PullAll(id) ==
  /\ Up /\ page[id].at = "open" /\ page[id].started
  /\ LET amount == Window - page[id].held
     IN amount > 0 /\ page' = [page EXCEPT ![id].granted = @ + amount]
                   /\ ToHost(Frame("credit", id, amount))
  /\ UNCHANGED <<toBrowser, host, lastID, broken>>

\* pull: what the page's queue has room for and was not granted yet.
Pull(id) ==
  /\ Up /\ page[id].at = "open" /\ page[id].started
  /\ LET amount == Window - page[id].held - page[id].granted
     IN amount > 0 /\ page' = [page EXCEPT ![id].granted = @ + amount]
                   /\ ToHost(Frame("credit", id, amount))
  /\ UNCHANGED <<toBrowser, host, lastID, broken>>

Consume(id) ==
  /\ page[id].at = "open" /\ page[id].held > 0
  /\ page' = [page EXCEPT ![id].held = 0] /\ UNCHANGED <<toHost, toBrowser, host, lastID, broken>>

\* cancel: the page gave up, or the upload failed.
Cancel(id) ==
  /\ Up /\ page[id].at = "open" /\ page' = [page EXCEPT ![id].at = "done"]
  /\ ToHost(Frame("cancel", id, 0)) /\ UNCHANGED <<toBrowser, host, lastID, broken>>

Break(reason) == broken' = reason

\* receive: frames of finished exchanges are dropped, a wrong one fails the tunnel.
PageTakes(f) ==
  LET e == page[f.id] IN
  \/ /\ e.at # "open" /\ UNCHANGED <<page, broken>>
  \/ /\ e.at = "open" /\ f.type = "credit" /\ e.may + f.n > Window
     /\ Break("pageUpload") /\ UNCHANGED page
  \/ /\ e.at = "open" /\ f.type = "credit" /\ e.may + f.n <= Window
     /\ page' = [page EXCEPT ![f.id].may = @ + f.n] /\ UNCHANGED broken
  \/ /\ e.at = "open" /\ f.type = "start"
     /\ IF e.started THEN Break("pageStart") ELSE UNCHANGED broken
     /\ page' = [page EXCEPT ![f.id].started = TRUE]
  \/ /\ e.at = "open" /\ f.type = "body" /\ (~e.started \/ f.n > e.granted)
     /\ Break("pageDownload") /\ UNCHANGED page
  \/ /\ e.at = "open" /\ f.type = "body" /\ e.started /\ f.n <= e.granted
     /\ page' = [page EXCEPT ![f.id].granted = @ - f.n, ![f.id].held = @ + f.n] /\ UNCHANGED broken
  \/ /\ e.at = "open" /\ f.type \in {"end", "error"}
     /\ page' = [page EXCEPT ![f.id].at = "done"] /\ UNCHANGED broken

PageReceives ==
  /\ Up /\ toBrowser # <<>> /\ PageTakes(Head(toBrowser)) /\ toBrowser' = Tail(toBrowser)
  /\ UNCHANGED <<toHost, host, lastID>>

-----------------------------------------------------------------------------
(* The host. *)

Enqueued(f, n) ==
  IF Len(host[f.id].upload) = Slots THEN Break("buffer") /\ UNCHANGED host
  ELSE /\ UNCHANGED broken
       /\ host' = [host EXCEPT ![f.id].upload = Append(@, n),
                               ![f.id].uploaded = IF f.type = "body" THEN @ - f.n ELSE @,
                               ![f.id].ended = @ \/ f.type = "end"]

\* accept of a frame of an exchange that is in the map.
HostTakes(f) ==
  LET e == host[f.id] IN
  \/ /\ f.type = "body" /\ (e.ended \/ f.n > e.uploaded)
     /\ Break("upload") /\ UNCHANGED host
  \/ f.type = "body" /\ ~e.ended /\ f.n <= e.uploaded /\ Enqueued(f, f.n)
  \/ f.type = "end" /\ e.ended /\ Break("end") /\ UNCHANGED host
  \/ f.type = "end" /\ ~e.ended /\ Enqueued(f, 0)
  \/ f.type = "cancel" /\ host' = [host EXCEPT ![f.id].canceled = TRUE] /\ UNCHANGED broken
  \/ f.type = "credit" /\ e.credit + f.n > Window /\ Break("download") /\ UNCHANGED host
  \/ /\ f.type = "credit" /\ e.credit + f.n <= Window
     /\ host' = [host EXCEPT ![f.id].credit = @ + f.n] /\ UNCHANGED broken

\* accept of a start: a new exchange with the whole upload window.
Start(f) ==
  /\ lastID' = f.id
  /\ IF Cardinality(HostOpen) >= MaxExchanges
     THEN Break("limit") /\ UNCHANGED <<host, toBrowser>>
     ELSE /\ host' = [host EXCEPT ![f.id].in = TRUE, ![f.id].run = "doing"]
          /\ ToBrowser(Frame("credit", f.id, Window)) /\ UNCHANGED broken

\* accept: late frames of exchanges that ended are dropped.
HostReceives ==
  /\ Up /\ toHost # <<>> /\ toHost' = Tail(toHost) /\ UNCHANGED page
  /\ LET f == Head(toHost) IN
     \/ f.type = "start" /\ f.id > lastID /\ Start(f)
     \/ f.type # "start" /\ host[f.id].in /\ HostTakes(f) /\ UNCHANGED <<toBrowser, lastID>>
     \/ /\ f.type # "start" /\ ~host[f.id].in /\ UNCHANGED <<toBrowser, host, lastID>>
        /\ IF f.id <= lastID THEN UNCHANGED broken ELSE Break("unknown")

Change(id, e) == host' = [host EXCEPT ![id] = e] /\ UNCHANGED <<toHost, page, lastID, broken>>

\* The goroutine that feeds the upstream takes a piece, writes it and then
\* gives the window back; it ends with its exchange.
Drain(id) ==
  LET e == host[id] IN
  /\ Up /\ e.in /\ ~e.canceled /\ e.drain.at = "idle" /\ e.upload # <<>>
  /\ Change(id, [e EXCEPT !.upload = Tail(@),
                          !.drain = [at |-> IF Head(e.upload) = 0 THEN "done" ELSE "writing", n |-> Head(e.upload)]])
  /\ UNCHANGED toBrowser

Drained(id) ==
  LET e == host[id] IN
  /\ Up /\ e.drain.at = "writing" /\ e.in /\ ~e.canceled
  /\ Change(id, [e EXCEPT !.uploaded = @ + e.drain.n, !.drain.at = "written"]) /\ UNCHANGED toBrowser

Credited(id) ==
  LET e == host[id] IN
  /\ Up /\ e.drain.at = "written" /\ ToBrowser(Frame("credit", id, e.drain.n))
  /\ Change(id, [e EXCEPT !.drain = [at |-> "idle", n |-> 0]])

\* execute: the upstream answers, or the request fails or was canceled.
Respond(id) ==
  LET e == host[id] IN
  /\ Up /\ e.run = "doing" /\ ~e.canceled /\ ToBrowser(Frame("start", id, 0))
  /\ Change(id, [e EXCEPT !.run = "body"])

Read(id) ==
  LET e == host[id] IN
  /\ Up /\ e.run = "body" /\ ~e.canceled
  /\ \E n \in 1..Lesser(Lesser(e.credit, Chunk), MaxBody - e.sent) :
       /\ ToBrowser(Frame("body", id, n))
       /\ Change(id, [e EXCEPT !.credit = @ - n, !.sent = @ + n])

\* The response's end, once credit allowed a read; an error of either kind.
Answered(id) ==
  LET e == host[id] IN
  /\ Up /\ e.run \in {"doing", "body"}
  /\ \/ e.run = "body" /\ e.credit > 0 /\ ToBrowser(Frame("end", id, 0))
     \/ (e.run = "doing" \/ e.credit > 0) /\ ToBrowser(Frame("error", id, 0))
     \/ e.run = "body" /\ e.canceled /\ UNCHANGED toBrowser
  /\ Change(id, [e EXCEPT !.run = "ending"])

\* execute's deferred function: only now is the exchange out of the map.
Ended(id) ==
  /\ Up /\ host[id].run = "ending"
  /\ Change(id, [host[id] EXCEPT !.in = FALSE, !.canceled = TRUE, !.run = "ended"]) /\ UNCHANGED toBrowser

\* Gateway.Close, the worker's close or a lost connection: both ends fail everything.
Lost == Up /\ Break("lost") /\ UNCHANGED <<toHost, toBrowser, page, host, lastID>>

Next ==
  \/ PageReceives \/ HostReceives \/ Lost
  \/ \E id \in Requests :
       \/ Ask(id) \/ Upload(id) \/ UploadEnds(id) \/ Pull(id) \/ Consume(id) \/ Cancel(id)
       \/ Drain(id) \/ Drained(id) \/ Credited(id)
       \/ Respond(id) \/ Read(id) \/ Answered(id) \/ Ended(id)

Spec == Init /\ [][Next]_exchangeVars

-----------------------------------------------------------------------------
FrameType == [type : {"start", "body", "end", "error", "cancel", "credit"}, id : Requests, n : 0..Window]

TypeOK ==
  /\ toHost \in Seq(FrameType) /\ toBrowser \in Seq(FrameType)
  /\ page \in [Requests -> [at : {"new", "open", "done"}, may : 0..Window, left : -1..MaxBody,
                            granted : 0..Window, held : 0..Window, started : BOOLEAN]]
  /\ \A id \in Requests :
       /\ host[id].uploaded \in 0..Window /\ host[id].credit \in 0..Window
       /\ Len(host[id].upload) <= Slots /\ host[id].drain.n \in 0..Chunk

\* With its own worker at the other end the host never sees a window exceeded,
\* a second end or an unknown exchange, nor does the worker, whatever was
\* canceled or answered early (accept, execute; upload, pull and receive).
WindowsKept == broken \in {Fine, "lost", "limit", "buffer"}
=============================================================================
