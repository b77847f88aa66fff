--------------------------- MODULE ApplicationSocket ---------------------------
(* One application WebSocket (web/application_ws.go) with the payload session  *)
(* it negotiates (websocketsecure/session.go, web/static/secure-websocket.js). *)
(* One goroutine reads and answers requests, one sends the plugins' events and *)
(* one per attached network stream sends what arrives on it.  They share one   *)
(* sequence of numbered frames: a number is taken before the frame is handed   *)
(* to the connection.  The connection keeps the order of the frames.           *)
EXTENDS Naturals, Sequences, SequencesExt

CONSTANTS
  Streams,       \* network streams a browser can attach
  Loop, Events,  \* the reader's and the events' goroutine
  MaxRequests,   \* bound: requests of the browser
  MaxEvents,     \* bound: events published
  MaxWrites,     \* bound: frames written before the last bytes of a stream
  Queue          \* events that wait for the connection (64)

SocketAssumption ==
  /\ Loop # Events /\ Loop \notin Streams /\ Events \notin Streams
  /\ {MaxRequests, MaxEvents, MaxWrites, Queue} \subseteq Nat

VARIABLES
  mode,          \* the server's payload mode
  session,       \* the server's side: "new", "plain", "sealed", "over"
  browser,       \* "hello", "deriving", "open", "closed"
  hidden,        \* the browser encrypts
  asked,         \* requests it sent
  toServer,      \* frames on their way to the server
  pending,       \* the first frame of a browser that did not negotiate
  queue,         \* goroutine -> frames it has to write
  held,          \* frames with a number, on their way into the connection
  writeSeq,      \* c.writeSeq
  toBrowser,     \* frames on their way to the browser
  readSeq,       \* its receiveSequence
  got,           \* what it was told
  published,     \* events published
  record,        \* the host's stream records: "free", "attached", "closed"
  forwarder,     \* stream -> "none", "reading", "failed", "ended"
  lost           \* a numbered frame was given up or came before the browser's keys

socketVars == <<mode, session, browser, hidden, asked, toServer, pending, queue, held, writeSeq,
                toBrowser, readSeq, got, published, record, forwarder, lost>>

Writers == {Loop, Events} \cup Streams
Frame(kind, n, s) == [kind |-> kind, n |-> n, about |-> s]
Empty == <<>>
Serving == session \in {"plain", "sealed"}

Init ==
  /\ mode \in {"disabled", "optional", "required"} /\ session = "new"
  /\ hidden \in BOOLEAN /\ browser = IF hidden THEN "hello" ELSE "open"
  /\ asked = 0 /\ toServer = IF hidden THEN <<Frame("hello", 0, Loop)>> ELSE <<>>
  /\ pending = Empty /\ queue = [w \in Writers |-> <<>>] /\ held = {} /\ writeSeq = 0
  /\ toBrowser = <<>> /\ readSeq = 0 /\ got = <<>> /\ published = 0
  /\ record = [s \in Streams |-> "free"] /\ forwarder = [s \in Streams |-> "none"]
  /\ lost = FALSE

-----------------------------------------------------------------------------
(* The browser. *)

Ask ==
  /\ browser = "open" /\ asked < MaxRequests
  /\ \E kind \in {"call", "attach", "close"}, s \in Streams :
       toServer' = Append(toServer, Frame(kind, asked + 1, s))
  /\ asked' = asked + 1
  /\ UNCHANGED <<mode, session, browser, hidden, pending, queue, held, writeSeq, toBrowser,
                 readSeq, got, published, record, forwarder, lost>>

\* A frame arrives.  Until the server's hello it must be the hello; from then
\* until the keys are derived nothing is looked at; then the number must be the
\* next one.
Listen ==
  /\ toBrowser # <<>> /\ toBrowser' = Tail(toBrowser)
  /\ LET f == Head(toBrowser) IN
     \/ /\ browser = "hello"
        /\ browser' = IF f.kind = "hello" THEN "deriving" ELSE "closed"
        /\ UNCHANGED <<readSeq, got, lost>>
     \/ /\ browser = "deriving" /\ lost' = TRUE
        /\ UNCHANGED <<browser, readSeq, got>>
     \/ /\ browser = "open" /\ hidden /\ f.seq # readSeq
        /\ browser' = "closed" /\ UNCHANGED <<readSeq, got, lost>>
     \/ /\ browser = "open" /\ (~hidden \/ f.seq = readSeq)
        /\ got' = Append(got, Frame(f.kind, f.n, f.about))
        /\ readSeq' = readSeq + 1 /\ UNCHANGED <<browser, lost>>
     \/ /\ browser = "closed" /\ UNCHANGED <<browser, readSeq, got, lost>>
  /\ UNCHANGED <<mode, session, hidden, asked, toServer, pending, queue, held, writeSeq,
                 published, record, forwarder>>

KeysDerived ==
  /\ browser = "deriving" /\ browser' = "open"
  /\ UNCHANGED <<mode, session, hidden, asked, toServer, pending, queue, held, writeSeq,
                 toBrowser, readSeq, got, published, record, forwarder, lost>>

Leaves ==
  /\ browser # "closed" /\ browser' = "closed"
  /\ UNCHANGED <<mode, session, hidden, asked, toServer, pending, queue, held, writeSeq,
                 toBrowser, readSeq, got, published, record, forwarder, lost>>

-----------------------------------------------------------------------------
(* The handshake and the reader's loop.                                        *)

\* ServerHandshake: the first frame of a browser that does not negotiate is
\* kept for Read.  (Variant: it is not.)
PlainForgets ==
  /\ session = "new" /\ mode = "optional" /\ toServer # <<>> /\ Head(toServer).kind # "hello"
  /\ session' = "plain" /\ pending' = Empty /\ toServer' = Tail(toServer)
  /\ UNCHANGED <<mode, browser, hidden, asked, queue, held, writeSeq, toBrowser, readSeq, got,
                 published, record, forwarder, lost>>

Plain ==
  /\ session = "new" /\ mode = "optional" /\ toServer # <<>> /\ Head(toServer).kind # "hello"
  /\ session' = "plain" /\ pending' = <<Head(toServer)>> /\ toServer' = Tail(toServer)
  /\ UNCHANGED <<mode, browser, hidden, asked, queue, held, writeSeq, toBrowser, readSeq, got,
                 published, record, forwarder, lost>>

Disabled ==
  /\ session = "new" /\ mode = "disabled" /\ session' = "plain"
  /\ UNCHANGED <<mode, browser, hidden, asked, toServer, pending, queue, held, writeSeq,
                 toBrowser, readSeq, got, published, record, forwarder, lost>>

Sealed ==
  /\ session = "new" /\ mode # "disabled" /\ toServer # <<>> /\ Head(toServer).kind = "hello"
  /\ session' = "sealed" /\ toServer' = Tail(toServer)
  /\ toBrowser' = <<[kind |-> "hello", n |-> 0, about |-> Loop, seq |-> 0]>>
  /\ UNCHANGED <<mode, browser, hidden, asked, pending, queue, held, writeSeq, readSeq, got,
                 published, record, forwarder, lost>>

\* Required without a hello, a browser that left, ten seconds without a frame,
\* and every end of the loop: what is attached is released, and the connection
\* is closed.
Ends ==
  /\ session # "over"
  /\ session' = "over" /\ browser' = "closed"
  /\ record' = [s \in Streams |-> IF record[s] = "attached" THEN "closed" ELSE record[s]]
  /\ held' = {} /\ queue' = [w \in Writers |-> <<>>] /\ pending' = Empty
  /\ UNCHANGED <<mode, hidden, asked, toServer, writeSeq, toBrowser, readSeq, got, published,
                 forwarder, lost>>

\* The loop reads when it has written what the last request asked for.
LoopIdle == Serving /\ queue[Loop] = <<>> /\ \A f \in held : f.by # Loop
Incoming == pending \o toServer

\* What a request does, and what is answered.  An attachment is told of before
\* its goroutine starts.  (Variant: the goroutine starts first.)
AttachStartsFirst(r) ==
  /\ r.kind = "attach" /\ record[r.about] = "free"
  /\ record' = [record EXCEPT ![r.about] = "attached"]
  /\ forwarder' = [forwarder EXCEPT ![r.about] = "reading"]
  /\ queue' = [queue EXCEPT ![Loop] = <<Frame("attached", r.n, r.about)>>]

Attach(r) ==
  /\ r.kind = "attach" /\ record[r.about] = "free"
  /\ record' = [record EXCEPT ![r.about] = "attached"]
  /\ queue' = [queue EXCEPT ![Loop] = <<Frame("attached", r.n, r.about)>>]
  /\ UNCHANGED forwarder

\* stream.close of what is attached; the goroutine finds the stream closed.
Close(r) ==
  /\ r.kind = "close" /\ record[r.about] = "attached"
  /\ record' = [record EXCEPT ![r.about] = "closed"]
  /\ queue' = [queue EXCEPT ![Loop] = <<Frame("closed", r.n, r.about)>>]
  /\ UNCHANGED forwarder

\* A call of a plugin that answers or fails; an attachment or an end of a
\* stream that is not there; a hello to a server that does not negotiate.
\* What a read returned is told a second time, as an event.
Answer(r) ==
  /\ r.kind = "attach" => record[r.about] # "free"
  /\ r.kind = "close" => record[r.about] # "attached"
  /\ \E news \in {<<>>} \cup (IF r.kind = "call" THEN {<<Frame("event", 0, Loop)>>} ELSE {}) :
       queue' = [queue EXCEPT ![Loop] =
                   <<Frame(IF r.kind = "call" THEN "answer" ELSE "error", r.n, r.about)>> \o news]
  /\ UNCHANGED <<record, forwarder>>

Read ==
  /\ LoopIdle /\ Incoming # <<>>
  /\ \A s \in Streams : record[s] = "attached" => forwarder[s] # "none"
  /\ \/ Attach(Head(Incoming)) \/ Close(Head(Incoming)) \/ Answer(Head(Incoming))
  /\ pending' = Empty /\ toServer' = IF pending = Empty THEN Tail(toServer) ELSE toServer
  /\ UNCHANGED <<mode, session, browser, hidden, asked, held, writeSeq, toBrowser, readSeq, got,
                 published, lost>>

\* After "attached" was written.
StartForwarder(s) ==
  /\ LoopIdle /\ record[s] = "attached" /\ forwarder[s] = "none"
  /\ forwarder' = [forwarder EXCEPT ![s] = "reading"]
  /\ UNCHANGED <<mode, session, browser, hidden, asked, toServer, pending, queue, held, writeSeq,
                 toBrowser, readSeq, got, published, record, lost>>

-----------------------------------------------------------------------------
(* The other goroutines.                                                       *)

\* publishPluginEvent: dropped when too many wait.
Publish ==
  /\ Serving /\ published < MaxEvents /\ published' = published + 1
  /\ queue' = IF Len(queue[Events]) < Queue
                THEN [queue EXCEPT ![Events] = Append(@, Frame("event", 0, Events))] ELSE queue
  /\ UNCHANGED <<mode, session, browser, hidden, asked, toServer, pending, held, writeSeq,
                 toBrowser, readSeq, got, record, forwarder, lost>>

Resting(s) == queue[s] = <<>> /\ \A f \in held : f.by # s
Arrives(s) ==
  /\ Serving /\ forwarder[s] = "reading" /\ record[s] = "attached" /\ Resting(s)
  /\ writeSeq < MaxWrites
  /\ queue' = [queue EXCEPT ![s] = <<Frame("data", 0, s)>>]
  /\ UNCHANGED <<mode, session, browser, hidden, asked, toServer, pending, held, writeSeq,
                 toBrowser, readSeq, got, published, record, forwarder, lost>>

\* The stream ended, was closed, or its bytes could not be written.
ForwarderEnds(s) ==
  /\ Serving /\ forwarder[s] \in {"reading", "failed"} /\ Resting(s)
  /\ forwarder' = [forwarder EXCEPT ![s] = "ended"]
  /\ record' = [record EXCEPT ![s] = "closed"]
  /\ queue' = [queue EXCEPT ![s] = <<Frame("closed", 0, s)>>]
  /\ UNCHANGED <<mode, session, browser, hidden, asked, toServer, pending, held, writeSeq,
                 toBrowser, readSeq, got, published, lost>>

\* Write under writeMu: the number is taken, then the frame is handed over.
\* (Variant: without the mutex.)
NumberUnlocked(w) ==
  /\ Serving /\ queue[w] # <<>>
  /\ held' = held \cup {[kind |-> Head(queue[w]).kind, n |-> Head(queue[w]).n,
                         about |-> Head(queue[w]).about, seq |-> writeSeq, by |-> w]}
  /\ queue' = [queue EXCEPT ![w] = Tail(@)] /\ writeSeq' = writeSeq + 1
  /\ UNCHANGED <<mode, session, browser, hidden, asked, toServer, pending, toBrowser, readSeq,
                 got, published, record, forwarder, lost>>

Number(w) ==
  /\ Serving /\ queue[w] # <<>> /\ held = {}
  /\ held' = {[kind |-> Head(queue[w]).kind, n |-> Head(queue[w]).n,
               about |-> Head(queue[w]).about, seq |-> writeSeq, by |-> w]}
  /\ queue' = [queue EXCEPT ![w] = Tail(@)] /\ writeSeq' = writeSeq + 1
  /\ UNCHANGED <<mode, session, browser, hidden, asked, toServer, pending, toBrowser, readSeq,
                 got, published, record, forwarder, lost>>

Send(f) ==
  /\ f \in held /\ held' = held \ {f}
  /\ toBrowser' = Append(toBrowser, [kind |-> f.kind, n |-> f.n, about |-> f.about, seq |-> f.seq])
  /\ UNCHANGED <<mode, session, browser, hidden, asked, toServer, pending, queue, writeSeq,
                 readSeq, got, published, record, forwarder, lost>>

\* The time for an event or for a stream's bytes is over, possibly while it
\* waited for the mutex: the number is gone, the frame is not sent.  A stream
\* whose bytes were given up is forwarded no further.
GiveUp(f) ==
  /\ f \in held /\ f.by # Loop /\ held' = held \ {f} /\ lost' = TRUE
  /\ forwarder' = [s \in Streams |-> IF f.by = s /\ f.kind = "data" THEN "failed" ELSE forwarder[s]]
  /\ UNCHANGED <<mode, session, browser, hidden, asked, toServer, pending, queue, writeSeq,
                 toBrowser, readSeq, got, published, record>>

Next ==
  \/ Ask \/ Listen \/ KeysDerived \/ Leaves
  \/ Plain \/ Disabled \/ Sealed \/ Ends \/ Read \/ Publish
  \/ \E s \in Streams : StartForwarder(s) \/ Arrives(s) \/ ForwarderEnds(s)
  \/ \E w \in Writers : Number(w)
  \/ \E f \in held : Send(f) \/ GiveUp(f)

Spec == Init /\ [][Next]_socketVars

-----------------------------------------------------------------------------
TypeOK ==
  /\ mode \in {"disabled", "optional", "required"} /\ session \in {"new", "plain", "sealed", "over"}
  /\ browser \in {"hello", "deriving", "open", "closed"} /\ hidden \in BOOLEAN /\ lost \in BOOLEAN
  /\ asked \in 0..MaxRequests /\ published \in 0..MaxEvents /\ Len(pending) <= 1
  /\ DOMAIN queue = Writers /\ Len(queue[Events]) <= Queue
  /\ \A f \in held : f.by \in Writers /\ f.seq < writeSeq
  /\ record \in [Streams -> {"free", "attached", "closed"}]
  /\ forwarder \in [Streams -> {"none", "reading", "failed", "ended"}]

\* Three goroutines write, and the browser gives a connection up at the first
\* number that is not the next one: every frame it reads carries that number
\* unless one was given up after its time or came before the keys.
NumbersInOrder ==
  browser = "open" /\ hidden /\ session = "sealed" /\ ~lost /\ toBrowser # <<>> =>
    Head(toBrowser).seq = readSeq

\* The browser is answered request by request in the order it asked, from the
\* first one it sent: the frame that decided the payload mode is not lost.
AnsweredInOrder ==
  \A i \in 1..Len(got) : got[i].n > 0 =>
    /\ \A j \in 1..(i - 1) : got[j].n < got[i].n
    /\ got[i].n > 1 => \E j \in 1..(i - 1) : got[j].n = got[i].n - 1

\* Bytes of a stream come after the browser was told that it is attached, and
\* an attachment that ended while nothing was given up is told to have ended.
StreamsTold ==
  /\ \A i \in 1..Len(got) : got[i].kind = "data" =>
       \E j \in 1..(i - 1) : got[j].kind = "attached" /\ got[j].about = got[i].about
  /\ \A s \in Streams : Serving /\ forwarder[s] = "ended" /\ ~lost /\ Resting(s) =>
       \/ \E i \in 1..Len(got) : got[i].kind = "closed" /\ got[i].about = s
       \/ \E i \in 1..Len(toBrowser) : toBrowser[i].kind = "closed" /\ toBrowser[i].about = s
       \/ browser = "closed"

\* However the goroutines of a connection interleave, the browser can follow
\* what it is told (handleApplicationWS, forwardNetworkStream).
SocketInOrder == NumbersInOrder /\ AnsweredInOrder /\ StreamsTold
=============================================================================
