---------------------------- MODULE StreamsProofs ----------------------------
(***************************************************************************)
(* Proofs about the protocols between a browser and RunPilot: the secure   *)
(* socket of the application keeps its frames in order, and whatever the   *)
(* service worker is asked, neither end of a gateway sees a broken window, *)
(* of exchanges or of WebSockets, for every size of the windows.           *)
(***************************************************************************)
EXTENDS BrowserStreams, Integers, FiniteSets, FiniteSetTheorems, SequenceTheorems, TLAPS

-----------------------------------------------------------------------------
(***************************************************************************)
(* Proofs about an application's WebSocket: the frames on their way carry  *)
(* consecutive numbers, the answers among them continue those the browser  *)
(* has, and what was attached is told before its bytes.                    *)
(***************************************************************************)

\* The constants of the component are as it assumes.
LEMMA SocketBounds == Socket!SocketAssumption
  BY StreamsAssumption

SocketNotes == {"answer", "error", "attached", "closed", "event", "data"}
SocketRequestType == [kind : {"hello", "call", "attach", "close"}, n : Nat, about : Socket!Writers]
SocketNoteType == [kind : SocketNotes, n : Nat, about : Socket!Writers]
SocketSentType == [kind : SocketNotes \cup {"hello"}, n : Nat, about : Socket!Writers, seq : Nat]
SocketHeldType == [kind : SocketNotes, n : Nat, about : Socket!Writers, seq : Nat, by : Socket!Writers]
SocketGotType == [kind : SocketNotes \cup {"hello"}, n : Nat, about : Socket!Writers]

SocketTypes ==
  /\ mode \in {"disabled", "optional", "required"} /\ session \in {"new", "plain", "sealed", "over"}
  /\ browser \in {"hello", "deriving", "open", "closed"} /\ hidden \in BOOLEAN /\ lost \in BOOLEAN
  /\ asked \in 0..MaxRequests /\ published \in 0..MaxEvents
  /\ toServer \in Seq(SocketRequestType) /\ pending \in Seq(SocketRequestType) /\ Len(pending) <= 1
  /\ queue \in [Socket!Writers -> Seq(SocketNoteType)] /\ Len(queue[Events]) <= MaxQueued
  /\ held \subseteq SocketHeldType /\ (\A f, g \in held : f = g) /\ (\A f \in held : f.seq < writeSeq)
  /\ writeSeq \in Nat /\ readSeq \in Nat
  /\ toBrowser \in Seq(SocketSentType) /\ got \in Seq(SocketGotType)
  /\ record \in [Streams -> {"free", "attached", "closed"}]
  /\ forwarder \in [Streams -> {"none", "reading", "failed", "ended"}]

\* Nothing was written before the handshake; nothing is asked before the keys.
SocketAsks(s) == \A i \in 1..Len(s) : s[i].n = 0 <=> s[i].kind = "hello"
SocketBeginning ==
  /\ session = "new" =>
       /\ pending = <<>> /\ toBrowser = <<>> /\ held = {} /\ writeSeq = 0 /\ readSeq = 0
       /\ \A w \in Socket!Writers : queue[w] = <<>>
       /\ hidden => browser \in {"hello", "closed"}
  /\ session = "over" => browser = "closed"
  /\ browser \in {"hello", "deriving"} =>
       /\ asked = 0 /\ got = <<>>
       /\ \A s \in Streams : record[s] = "free" /\ forwarder[s] = "none"
  /\ SocketAsks(toServer) /\ SocketAsks(pending)
  /\ ~hidden => \A i \in 1..Len(toServer) : toServer[i].kind # "hello"

\* The frames on their way to the browser that follow its greeting.
SocketGreetings == IF browser = "hello" THEN 1 ELSE 0
SocketNumbered ==
  browser # "closed" /\ hidden /\ session = "sealed" /\ ~lost =>
    /\ browser = "hello" => toBrowser # <<>> /\ Head(toBrowser).kind = "hello" /\ readSeq = 0
    /\ \A i \in 1..Len(toBrowser) : i > SocketGreetings =>
         toBrowser[i].kind # "hello" /\ toBrowser[i].seq + SocketGreetings + 1 = readSeq + i
    /\ \A f \in held : f.seq + SocketGreetings = readSeq + Len(toBrowser) /\ writeSeq = f.seq + 1
    /\ held = {} => writeSeq + SocketGreetings = readSeq + Len(toBrowser)

\* The answers among the frames of s are those to a + 1, ..., b in their order.
SocketRuns(s, a, b) ==
  /\ a <= b
  /\ \A i \in 1..Len(s) : s[i].n > 0 => a < s[i].n /\ s[i].n <= b
  /\ \A i, j \in 1..Len(s) : i < j /\ s[i].n > 0 /\ s[j].n > 0 => s[i].n < s[j].n
  /\ \A v \in Nat : a < v /\ v <= b => \E i \in 1..Len(s) : s[i].n = v
SocketHanded(h, a, b) ==
  \/ a = b /\ \A f \in h : f.n = 0
  \/ b = a + 1 /\ \E f \in h : f.n = b

SocketChain ==
  \E g, t, h, q, p \in Nat :
    /\ SocketRuns(got, 0, g) /\ SocketRuns(toBrowser, g, t) /\ SocketHanded(held, t, h) /\ SocketRuns(queue[Loop], h, q)
    /\ SocketRuns(pending, q, p) /\ SocketRuns(toServer, p, asked)
SocketAnswered ==
  /\ \E g \in Nat : SocketRuns(got, 0, g)
  /\ browser # "closed" => SocketChain
  /\ \A w \in Socket!Writers : w # Loop => \A i \in 1..Len(queue[w]) : queue[w][i].n = 0
  /\ \A f \in held : f.by # Loop => f.n = 0

\* What the browser was told of an attachment, or will be when it reads on.
SocketPassed(kind, s) ==
  \/ \E i \in 1..Len(got) : got[i].kind = kind /\ got[i].about = s
  \/ \E i \in 1..Len(toBrowser) : toBrowser[i].kind = kind /\ toBrowser[i].about = s
SocketWritten(kind, s, w) ==
  \/ SocketPassed(kind, s) \/ \E f \in held : f.by = w /\ f.kind = kind /\ f.about = s
  \/ \E i \in 1..Len(queue[w]) : queue[w][i].kind = kind /\ queue[w][i].about = s
SocketForwarded(s) == s \in Streams /\ forwarder[s] # "none"

SocketTold ==
  \A i \in 1..Len(got) : got[i].kind = "data" =>
    \E j \in 1..(i - 1) : got[j].kind = "attached" /\ got[j].about = got[i].about
SocketTelling ==
  \A i \in 1..Len(toBrowser) : toBrowser[i].kind = "data" =>
    /\ SocketForwarded(toBrowser[i].about)
    /\ \/ \E j \in 1..Len(got) : got[j].kind = "attached" /\ got[j].about = toBrowser[i].about
       \/ \E j \in 1..Len(toBrowser) :
            j < i /\ toBrowser[j].kind = "attached" /\ toBrowser[j].about = toBrowser[i].about
SocketAttached ==
  /\ SocketTold
  /\ \A f \in held : f.kind = "data" => SocketForwarded(f.about) /\ f.by = f.about
  /\ \A w \in Socket!Writers : \A i \in 1..Len(queue[w]) :
       queue[w][i].kind = "data" => SocketForwarded(queue[w][i].about) /\ queue[w][i].about = w
  /\ browser # "closed" =>
       /\ SocketTelling
       /\ \A s \in Streams : forwarder[s] # "none" => SocketPassed("attached", s)
       /\ \A s \in Streams : record[s] = "attached" /\ forwarder[s] = "none" => SocketWritten("attached", s, Loop)

\* What ended is told to have ended.
SocketEnded ==
  browser # "closed" /\ ~lost =>
    \A s \in Streams : forwarder[s] = "ended" => SocketWritten("closed", s, s)

SocketInv == SocketTypes /\ SocketBeginning /\ SocketNumbered /\ SocketAnswered /\ SocketAttached /\ SocketEnded

-----------------------------------------------------------------------------

LEMMA SocketNumbers ==
  /\ Loop # Events /\ Loop \notin Streams /\ Events \notin Streams
  /\ MaxRequests \in Nat /\ MaxEvents \in Nat /\ MaxWrites \in Nat /\ MaxQueued \in Nat
  /\ Loop \in Socket!Writers /\ Events \in Socket!Writers /\ Streams \subseteq Socket!Writers
BY SocketBounds DEF Socket!SocketAssumption, Socket!Writers

LEMMA SocketHeadOf ==
  ASSUME NEW F, NEW s \in Seq(F), s # << >>
  PROVE  /\ Head(s) \in F /\ Tail(s) \in Seq(F) /\ Len(s) \in Nat /\ Len(Tail(s)) = Len(s) - 1
         /\ 1 \in 1..Len(s) /\ s[1] = Head(s)
         /\ \A i \in 1..Len(Tail(s)) : i + 1 \in 1..Len(s) /\ Tail(s)[i] = s[i + 1] /\ 1 < i + 1
         /\ \A i \in 1..Len(s) : i = 1 \/ (i - 1 \in 1..Len(Tail(s)) /\ s[i] = Tail(s)[i - 1] /\ 1 < i)
<1>1. /\ Head(s) \in F /\ Tail(s) \in Seq(F) /\ Len(Tail(s)) = Len(s) - 1 /\ Len(s) \in Nat
      /\ Len(s) >= 1 /\ s[1] = Head(s)
      /\ \A i \in 1..Len(Tail(s)) : Tail(s)[i] = s[i + 1]
  BY HeadTailProperties, LenProperties, EmptySeq
<1>2. 1 \in 1..Len(s) /\ \A i \in 1..Len(Tail(s)) : i + 1 \in 1..Len(s) /\ 1 < i + 1
  BY <1>1
<1>3. \A i \in 1..Len(s) : i = 1 \/ (i - 1 \in 1..Len(Tail(s)) /\ (i - 1) + 1 = i /\ 1 < i)
  BY <1>1
<1> QED
  BY <1>1, <1>2, <1>3

LEMMA SocketLastOf ==
  ASSUME NEW F, NEW s \in Seq(F), NEW x \in F
  PROVE  /\ Append(s, x) \in Seq(F) /\ Len(s) \in Nat /\ Len(Append(s, x)) = Len(s) + 1
         /\ Append(s, x)[Len(s) + 1] = x /\ Len(s) + 1 \in 1..Len(Append(s, x))
         /\ \A i \in 1..Len(s) : Append(s, x)[i] = s[i] /\ i \in 1..Len(Append(s, x)) /\ i < Len(s) + 1
         /\ \A i \in 1..Len(Append(s, x)) : i \in 1..Len(s) \/ i = Len(s) + 1
<1>1. /\ Append(s, x) \in Seq(F) /\ Len(s) \in Nat /\ Len(Append(s, x)) = Len(s) + 1
      /\ Append(s, x)[Len(s) + 1] = x
      /\ \A i \in 1..Len(s) : Append(s, x)[i] = s[i]
  BY AppendProperties, LenProperties
<1>2. /\ \A i \in 1..Len(s) : i \in 1..Len(Append(s, x)) /\ i < Len(s) + 1
      /\ \A i \in 1..Len(Append(s, x)) : i \in 1..Len(s) \/ i = Len(s) + 1
      /\ Len(s) + 1 \in 1..Len(Append(s, x))
  BY <1>1
<1> QED
  BY <1>1, <1>2

LEMMA SocketRunsNothing ==
  /\ \A a \in Nat : SocketRuns(<< >>, a, a)
  /\ \A a, b \in Nat : SocketRuns(<< >>, a, b) => a = b
<1>1. Len(<< >>) = 0
  OBVIOUS
<1>2. ASSUME NEW a \in Nat PROVE SocketRuns(<< >>, a, a)
  <2>1. \A v \in Nat : ~(a < v /\ v <= a)
    OBVIOUS
  <2> QED
    BY <1>1, <2>1 DEF SocketRuns
<1>3. ASSUME NEW a \in Nat, NEW b \in Nat, SocketRuns(<< >>, a, b) PROVE a = b
  <2>1. a <= b /\ (a < b => \E i \in 1..0 : << >>[i].n = b)
    BY <1>1, <1>3 DEF SocketRuns
  <2>2. ~(\E i \in 1..0 : << >>[i].n = b)
    OBVIOUS
  <2> QED
    BY <2>1, <2>2
<1> QED
  BY <1>2, <1>3

LEMMA SocketRunsAppend ==
  ASSUME NEW F, \A x \in F : x.n \in Nat, NEW s \in Seq(F), NEW x \in F,
         NEW a \in Nat, NEW b \in Nat, SocketRuns(s, a, b)
  PROVE  /\ x.n = 0 => SocketRuns(Append(s, x), a, b)
         /\ x.n = b + 1 => SocketRuns(Append(s, x), a, b + 1)
<1> DEFINE t == Append(s, x)
<1>1. /\ Len(s) \in Nat /\ Len(t) = Len(s) + 1 /\ t[Len(s) + 1] = x /\ Len(s) + 1 \in 1..Len(t)
      /\ \A i \in 1..Len(s) : t[i] = s[i] /\ i \in 1..Len(t) /\ i < Len(s) + 1
      /\ \A i \in 1..Len(t) : i \in 1..Len(s) \/ i = Len(s) + 1
  BY SocketLastOf
<1>2. \A i \in 1..Len(s) : s[i].n \in Nat
  BY ElementOfSeq
<1> HIDE DEF t
<1>3. /\ a <= b
      /\ \A i \in 1..Len(s) : s[i].n > 0 => a < s[i].n /\ s[i].n <= b
      /\ \A i, j \in 1..Len(s) : i < j /\ s[i].n > 0 /\ s[j].n > 0 => s[i].n < s[j].n
      /\ \A v \in Nat : a < v /\ v <= b => \E i \in 1..Len(s) : s[i].n = v
  BY DEF SocketRuns
<1>4. \A i, j \in 1..Len(t) : i < j => i \in 1..Len(s)
  BY <1>1
<1>5. ASSUME x.n = 0 PROVE SocketRuns(t, a, b)
  <2>1. ~(x.n > 0)
    BY <1>5
  <2>2. \A i \in 1..Len(t) : t[i].n > 0 => i \in 1..Len(s)
    BY <1>1, <2>1
  <2>3. \A i \in 1..Len(t) : t[i].n > 0 => a < t[i].n /\ t[i].n <= b
    BY <1>1, <1>3, <2>2
  <2>4. \A i, j \in 1..Len(t) : i < j /\ t[i].n > 0 /\ t[j].n > 0 => t[i].n < t[j].n
    BY <1>1, <1>3, <2>2
  <2>5. \A v \in Nat : a < v /\ v <= b => \E i \in 1..Len(t) : t[i].n = v
    BY <1>1, <1>3
  <2> QED
    BY <1>3, <2>3, <2>4, <2>5 DEF SocketRuns
<1>6. ASSUME x.n = b + 1 PROVE SocketRuns(t, a, b + 1)
  <2>1. a <= b + 1
    BY <1>3
  <2>2. \A i \in 1..Len(t) : t[i].n > 0 => a < t[i].n /\ t[i].n <= b + 1
    BY <1>1, <1>2, <1>3, <1>6
  <2>3. \A i, j \in 1..Len(t) : i < j /\ t[i].n > 0 /\ t[j].n > 0 => t[i].n < t[j].n
    <3>1. ASSUME NEW i \in 1..Len(t), NEW j \in 1..Len(t), i < j, t[i].n > 0, t[j].n > 0
          PROVE  t[i].n < t[j].n
      <4>1. i \in 1..Len(s)
        BY <1>4, <3>1
      <4>2. CASE j \in 1..Len(s)
        BY <1>1, <1>3, <3>1, <4>1, <4>2
      <4>3. CASE j = Len(s) + 1
        BY <1>1, <1>2, <1>3, <1>6, <3>1, <4>1, <4>3
      <4> QED
        BY <1>1, <4>2, <4>3
    <3> QED
      BY <3>1
  <2>4. ASSUME NEW v \in Nat, a < v, v <= b + 1 PROVE \E i \in 1..Len(t) : t[i].n = v
    <3>1. CASE v <= b
      BY <1>1, <1>3, <2>4, <3>1
    <3>2. CASE v = b + 1
      BY <1>1, <1>6, <3>2
    <3> QED
      BY <2>4, <3>1, <3>2
  <2> QED
    BY <2>1, <2>2, <2>3, <2>4 DEF SocketRuns
<1> QED
  BY <1>5, <1>6 DEF t

LEMMA SocketRunsTail ==
  ASSUME NEW F, \A x \in F : x.n \in Nat, NEW s \in Seq(F), s # << >>,
         NEW a \in Nat, NEW b \in Nat, SocketRuns(s, a, b)
  PROVE  /\ Head(s).n \in Nat /\ Head(s).n <= b
         /\ Head(s).n = 0 => SocketRuns(Tail(s), a, b)
         /\ Head(s).n > 0 => Head(s).n = a + 1 /\ SocketRuns(Tail(s), a + 1, b)
<1> DEFINE t == Tail(s)
           x == Head(s)
<1>1. /\ x \in F /\ Len(s) \in Nat /\ 1 \in 1..Len(s) /\ s[1] = x
      /\ \A i \in 1..Len(t) : i + 1 \in 1..Len(s) /\ t[i] = s[i + 1] /\ 1 < i + 1
      /\ \A i \in 1..Len(s) : i = 1 \/ (i - 1 \in 1..Len(t) /\ s[i] = t[i - 1] /\ 1 < i)
  BY SocketHeadOf
<1>2. \A i \in 1..Len(s) : s[i].n \in Nat
  BY ElementOfSeq
<1> HIDE DEF t, x
<1>3. /\ a <= b
      /\ \A i \in 1..Len(s) : s[i].n > 0 => a < s[i].n /\ s[i].n <= b
      /\ \A i, j \in 1..Len(s) : i < j /\ s[i].n > 0 /\ s[j].n > 0 => s[i].n < s[j].n
      /\ \A v \in Nat : a < v /\ v <= b => \E i \in 1..Len(s) : s[i].n = v
  BY DEF SocketRuns
<1>4. x.n \in Nat /\ x.n <= b
  BY <1>1, <1>2, <1>3
<1>5. \A i, j \in 1..Len(t) : i < j => i + 1 < j + 1
  OBVIOUS
<1>6. \A i, j \in 1..Len(t) : i < j /\ t[i].n > 0 /\ t[j].n > 0 => t[i].n < t[j].n
  BY <1>1, <1>3, <1>5, ZenonT(60)
<1>7. ASSUME x.n = 0 PROVE SocketRuns(t, a, b)
  <2>1. \A i \in 1..Len(t) : t[i].n > 0 => a < t[i].n /\ t[i].n <= b
    BY <1>1, <1>3
  <2>2. ASSUME NEW v \in Nat, a < v, v <= b PROVE \E i \in 1..Len(t) : t[i].n = v
    <3>1. PICK i \in 1..Len(s) : s[i].n = v
      BY <1>3, <2>2
    <3>2. i # 1
      BY <1>1, <1>7, <2>2, <3>1
    <3> QED
      BY <1>1, <3>1, <3>2
  <2> QED
    BY <1>3, <1>6, <2>1, <2>2 DEF SocketRuns
<1>8. ASSUME x.n > 0 PROVE x.n = a + 1 /\ SocketRuns(t, a + 1, b)
  <2>1. a < x.n /\ x.n <= b
    BY <1>1, <1>3, <1>8
  <2>2. x.n = a + 1
    <3>1. PICK i \in 1..Len(s) : s[i].n = a + 1
      BY <1>3, <1>4, <2>1
    <3>2. CASE i = 1
      BY <1>1, <3>1, <3>2
    <3>3. CASE 1 < i
      <4>1. x.n < s[i].n
        BY <1>1, <1>3, <1>8, <3>1, <3>3
      <4> QED
        BY <1>4, <2>1, <3>1, <4>1
    <3> QED
      BY <1>1, <3>2, <3>3
  <2>3. \A i \in 1..Len(t) : t[i].n > 0 => a + 1 < t[i].n /\ t[i].n <= b
    BY <1>1, <1>3, <1>8, <2>2
  <2>4. ASSUME NEW v \in Nat, a + 1 < v, v <= b PROVE \E i \in 1..Len(t) : t[i].n = v
    <3>1. PICK i \in 1..Len(s) : s[i].n = v
      BY <1>3, <2>4
    <3>2. i # 1
      BY <1>1, <2>2, <2>4, <3>1
    <3> QED
      BY <1>1, <3>1, <3>2
  <2> QED
    BY <1>4, <1>6, <2>1, <2>2, <2>3, <2>4 DEF SocketRuns
<1> QED
  BY <1>4, <1>7, <1>8 DEF t, x

LEMMA SocketRunsOrder ==
  ASSUME \E g \in Nat : SocketRuns(got, 0, g), got \in Seq(SocketGotType)
  PROVE  Socket!AnsweredInOrder
<1>1. PICK g \in Nat : SocketRuns(got, 0, g)
  OBVIOUS
<1>2. \A i \in 1..Len(got) : got[i].n \in Nat
  <2>1. \A i \in 1..Len(got) : got[i] \in SocketGotType
    BY ElementOfSeq
  <2>2. \A x \in SocketGotType : x.n \in Nat
    BY DEF SocketGotType
  <2> QED
    BY <2>1, <2>2
<1>3. Len(got) \in Nat
  BY LenProperties
<1>4. ASSUME NEW i \in 1..Len(got), got[i].n > 0
      PROVE  /\ \A j \in 1..(i - 1) : got[j].n < got[i].n
             /\ got[i].n > 1 => \E j \in 1..(i - 1) : got[j].n = got[i].n - 1
  <2>1. \A j \in 1..(i - 1) : j \in 1..Len(got) /\ j < i
    BY <1>3
  <2>2. \A j \in 1..(i - 1) : got[j].n < got[i].n
    BY <1>1, <1>2, <1>4, <2>1 DEF SocketRuns
  <2>3. ASSUME got[i].n > 1 PROVE \E j \in 1..(i - 1) : got[j].n = got[i].n - 1
    <3>1. got[i].n <= g
      BY <1>1, <1>4 DEF SocketRuns
    <3>2. PICK v \in Nat : v = got[i].n - 1 /\ 0 < v /\ v <= g /\ v < got[i].n
      <4>1. PICK k : k = got[i].n
        OBVIOUS
      <4>2. k \in Nat /\ k > 1 /\ k <= g
        BY <1>2, <2>3, <3>1, <4>1
      <4>3. k - 1 \in Nat /\ 0 < k - 1 /\ k - 1 <= g /\ k - 1 < k
        BY <4>2
      <4> QED
        BY <4>1, <4>3
    <3>3. PICK j \in 1..Len(got) : got[j].n = v
      BY <1>1, <3>2 DEF SocketRuns
    <3>4. ~(i < j)
      <4>1. i < j => got[i].n < got[j].n
        BY <1>1, <1>4, <3>2, <3>3 DEF SocketRuns
      <4> QED
        BY <1>2, <3>2, <3>3, <4>1
    <3>5. i # j
      BY <3>2, <3>3
    <3> QED
      BY <3>2, <3>3, <3>4, <3>5
  <2> QED
    BY <2>2, <2>3
<1> QED
  BY <1>4 DEF Socket!AnsweredInOrder

LEMMA SocketNumbered0 ==
  /\ \A x \in SocketRequestType : x.n \in Nat
  /\ \A x \in SocketNoteType : x.n \in Nat
  /\ \A x \in SocketSentType : x.n \in Nat
  /\ \A x \in SocketGotType : x.n \in Nat
  /\ \A x \in SocketHeldType : x.n \in Nat
BY DEF SocketRequestType, SocketNoteType, SocketSentType, SocketGotType, SocketHeldType

LEMMA SocketRunsOne ==
  ASSUME NEW F, \A y \in F : y.n \in Nat, NEW x \in F, NEW a \in Nat
  PROVE  /\ x.n = 0 => SocketRuns(<<x>>, a, a)
         /\ x.n = a + 1 => SocketRuns(<<x>>, a, a + 1)
<1>1. << >> \in Seq(F) /\ Append(<< >>, x) = <<x>>
  OBVIOUS
<1>2. SocketRuns(<< >>, a, a)
  BY SocketRunsNothing
<1>3. /\ x.n = 0 => SocketRuns(Append(<< >>, x), a, a)
      /\ x.n = a + 1 => SocketRuns(Append(<< >>, x), a, a + 1)
  BY <1>1, <1>2, SocketRunsAppend
<1> QED
  BY <1>1, <1>3

LEMMA SocketInitially == Socket!Init => SocketInv
<1> SUFFICES ASSUME Socket!Init PROVE SocketInv
  OBVIOUS
<1>1. PICK hello : hello = Socket!Frame("hello", 0, Loop)
  OBVIOUS
<1>2. hello \in SocketRequestType /\ hello.kind = "hello" /\ hello.n = 0 /\ hello.about = Loop
  BY <1>1, SocketNumbers DEF Socket!Frame, SocketRequestType
<1>3. /\ toServer = (IF hidden THEN <<hello>> ELSE << >>) /\ pending = << >> /\ held = {} /\ got = << >>
      /\ writeSeq = 0 /\ readSeq = 0 /\ toBrowser = << >> /\ asked = 0 /\ session = "new" /\ lost = FALSE
      /\ hidden \in BOOLEAN /\ browser = (IF hidden THEN "hello" ELSE "open")
      /\ \A w \in Socket!Writers : queue[w] = << >>
      /\ \A s \in Streams : record[s] = "free" /\ forwarder[s] = "none"
  BY <1>1 DEF Socket!Init, Socket!Empty
<1>4. SocketTypes
  <2>1. toServer \in Seq(SocketRequestType) /\ Len(<< >>) = 0
    BY <1>2, <1>3
  <2>2. queue \in [Socket!Writers -> Seq(SocketNoteType)]
    BY DEF Socket!Init
  <2>3. Len(queue[Events]) <= MaxQueued
    BY <1>3, <2>1, SocketNumbers
  <2>4. 0 \in 0..MaxRequests /\ 0 \in 0..MaxEvents
    BY SocketNumbers
  <2>5. << >> \in Seq(SocketRequestType) /\ << >> \in Seq(SocketSentType) /\ << >> \in Seq(SocketGotType)
    OBVIOUS
  <2>6. browser \in {"hello", "deriving", "open", "closed"}
    BY <1>3
  <2>7. published = 0 /\ mode \in {"disabled", "optional", "required"} /\ lost \in BOOLEAN
    BY DEF Socket!Init
  <2>8. /\ record \in [Streams -> {"free", "attached", "closed"}]
        /\ forwarder \in [Streams -> {"none", "reading", "failed", "ended"}]
    BY DEF Socket!Init
  <2> QED
    BY <1>3, <2>1, <2>2, <2>3, <2>4, <2>5, <2>6, <2>7, <2>8 DEF SocketTypes
<1>5. SocketBeginning
  <2>1. /\ Len(pending) = 0 /\ (hidden => Len(toServer) = 1 /\ toServer[1] = hello)
        /\ (~hidden => Len(toServer) = 0)
    BY <1>3
  <2>2. SocketAsks(pending)
    BY <2>1 DEF SocketAsks
  <2>3. SocketAsks(toServer)
    BY <1>2, <2>1 DEF SocketAsks
  <2> QED
    BY <1>3, <2>1, <2>2, <2>3 DEF SocketBeginning
<1>6. SocketNumbered
  BY <1>3 DEF SocketNumbered
<1>7. SocketAnswered
  <2>1. SocketRuns(<< >>, 0, 0)
    BY SocketRunsNothing
  <2>2. SocketHanded({}, 0, 0)
    BY DEF SocketHanded
  <2>3. SocketRuns(toServer, 0, 0)
    <3>1. SocketRuns(<<hello>>, 0, 0)
      BY <1>2, SocketNumbered0, SocketRunsOne
    <3> QED
      BY <1>3, <2>1, <3>1
  <2>4. queue[Loop] = << >>
    BY <1>3, SocketNumbers
  <2>5. SocketChain
    BY <1>3, <2>1, <2>2, <2>3, <2>4 DEF SocketChain
  <2>6. \A w \in Socket!Writers : Len(queue[w]) = 0
    BY <1>3
  <2> QED
    BY <1>3, <2>1, <2>5, <2>6 DEF SocketAnswered
<1>8. Len(got) = 0 /\ Len(toBrowser) = 0 /\ \A w \in Socket!Writers : Len(queue[w]) = 0
  BY <1>3
<1>9. SocketAttached
  BY <1>3, <1>8 DEF SocketAttached, SocketTold, SocketTelling
<1>10. SocketEnded
  BY <1>3 DEF SocketEnded
<1> QED
  BY <1>4, <1>5, <1>6, <1>7, <1>9, <1>10 DEF SocketInv

-----------------------------------------------------------------------------

\* What attachments speak of stays.
LEMMA SocketAttachedStays ==
  ASSUME SocketAttached, browser' # "closed" => browser # "closed",
         UNCHANGED <<queue, held, toBrowser, got, record, forwarder>>
  PROVE  SocketAttached'
<1>1. SocketTold' /\ (SocketTelling => SocketTelling')
  BY DEF SocketAttached, SocketTold, SocketTelling, SocketForwarded
<1>2. \A s : SocketPassed("attached", s) => SocketPassed("attached", s)'
  BY DEF SocketPassed
<1>3. \A s : SocketWritten("attached", s, Loop) => SocketWritten("attached", s, Loop)'
  BY <1>2 DEF SocketWritten
<1>4. \A f \in held' : f.kind = "data" => SocketForwarded(f.about)' /\ f.by = f.about
  BY DEF SocketAttached, SocketForwarded
<1>5. \A w \in Socket!Writers : \A i \in 1..Len(queue'[w]) :
        queue'[w][i].kind = "data" => SocketForwarded(queue[w][i].about)' /\ queue'[w][i].about = w
  BY DEF SocketAttached, SocketForwarded
<1>6. browser' # "closed" =>
        /\ SocketTelling'
        /\ \A s \in Streams : forwarder'[s] # "none" => SocketPassed("attached", s)'
        /\ \A s \in Streams : record'[s] = "attached" /\ forwarder'[s] = "none" => SocketWritten("attached", s, Loop)'
  BY <1>1, <1>2, <1>3 DEF SocketAttached
<1> QED
  BY <1>1, <1>4, <1>5, <1>6 DEF SocketAttached


LEMMA SocketBrowserAsks == ASSUME SocketInv, Socket!Ask PROVE SocketInv'
<1>1. /\ SocketTypes /\ SocketBeginning /\ SocketNumbered /\ SocketAnswered /\ SocketAttached /\ SocketEnded
      /\ toServer \in Seq(SocketRequestType) /\ asked \in Nat
  BY SocketNumbers DEF SocketInv, SocketTypes
<1>2. PICK kind \in {"call", "attach", "close"}, s \in Streams : toServer' = Append(toServer, Socket!Frame(kind, asked + 1, s))
  BY DEF Socket!Ask
<1>3. PICK f : f = Socket!Frame(kind, asked + 1, s)
  OBVIOUS
<1>4. f \in SocketRequestType /\ f.kind # "hello" /\ f.n = asked + 1 /\ f.n # 0
  BY <1>1, <1>3, SocketNumbers DEF Socket!Frame, SocketRequestType
<1>5. /\ toServer' \in Seq(SocketRequestType) /\ Len(toServer) \in Nat
      /\ toServer'[Len(toServer) + 1] = f
      /\ \A i \in 1..Len(toServer) : toServer'[i] = toServer[i]
      /\ \A i \in 1..Len(toServer') : i \in 1..Len(toServer) \/ i = Len(toServer) + 1
  BY <1>1, <1>2, <1>3, <1>4, SocketLastOf
<1>6. /\ browser = "open" /\ asked' = asked + 1 /\ asked + 1 \in 0..MaxRequests
      /\ UNCHANGED <<mode, session, browser, hidden, pending, queue, held, writeSeq, toBrowser,
                     readSeq, got, published, record, forwarder, lost>>
  BY <1>1, SocketNumbers DEF Socket!Ask
<1>7. SocketTypes'
  BY <1>1, <1>5, <1>6 DEF SocketTypes
<1>8. SocketBeginning'
  <2>1. SocketAsks(toServer')
    BY <1>1, <1>4, <1>5, ZenonT(60) DEF SocketBeginning, SocketAsks
  <2>2. ~hidden => \A i \in 1..Len(toServer') : toServer'[i].kind # "hello"
    BY <1>1, <1>4, <1>5 DEF SocketBeginning
  <2> QED
    BY <1>1, <1>6, <2>1, <2>2 DEF SocketBeginning
<1>9. SocketNumbered'
  BY <1>1, <1>6 DEF SocketNumbered, SocketGreetings
<1>10. SocketAnswered'
  <2>1. SocketChain
    BY <1>1, <1>6 DEF SocketAnswered
  <2>2. PICK g, t, h, q, p \in Nat :
          /\ SocketRuns(got, 0, g) /\ SocketRuns(toBrowser, g, t) /\ SocketHanded(held, t, h) /\ SocketRuns(queue[Loop], h, q)
          /\ SocketRuns(pending, q, p) /\ SocketRuns(toServer, p, asked)
    BY <2>1 DEF SocketChain
  <2>3. SocketRuns(toServer', p, asked + 1)
    BY <1>1, <1>2, <1>3, <1>4, <2>2, SocketNumbered0, SocketRunsAppend
  <2>4. SocketChain'
    BY <1>6, <2>2, <2>3 DEF SocketChain
  <2> QED
    BY <1>1, <1>6, <2>4 DEF SocketAnswered
<1>11. SocketAttached'
  BY <1>1, <1>6, SocketAttachedStays
<1>12. SocketEnded'
  BY <1>1, <1>6 DEF SocketEnded, SocketWritten, SocketPassed
<1> QED
  BY <1>7, <1>8, <1>9, <1>10, <1>11, <1>12 DEF SocketInv

LEMMA SocketBrowserChanges == ASSUME SocketInv, Socket!KeysDerived \/ Socket!Leaves PROVE SocketInv'
<1>1. SocketTypes /\ SocketBeginning /\ SocketNumbered /\ SocketAnswered /\ SocketAttached /\ SocketEnded
  BY DEF SocketInv
<1>2. /\ browser' = "closed" \/ (browser = "deriving" /\ browser' = "open")
      /\ UNCHANGED <<mode, session, hidden, asked, toServer, pending, queue, held, writeSeq,
                     toBrowser, readSeq, got, published, record, forwarder, lost>>
  BY DEF Socket!KeysDerived, Socket!Leaves
<1>3. SocketTypes'
  BY <1>1, <1>2 DEF SocketTypes
<1>4. SocketBeginning'
  BY <1>1, <1>2 DEF SocketBeginning
<1>5. SocketNumbered'
  BY <1>1, <1>2 DEF SocketNumbered, SocketGreetings
<1>6. SocketAnswered'
  <2>1. SocketChain => SocketChain'
    BY <1>2 DEF SocketChain
  <2> QED
    BY <1>1, <1>2, <2>1 DEF SocketAnswered
<1>7. SocketAttached'
  BY <1>1, <1>2, SocketAttachedStays
<1>8. SocketEnded'
  BY <1>1, <1>2 DEF SocketEnded, SocketWritten, SocketPassed
<1> QED
  BY <1>3, <1>4, <1>5, <1>6, <1>7, <1>8 DEF SocketInv

-----------------------------------------------------------------------------

LEMMA SocketServesPlain == ASSUME SocketInv, Socket!Plain PROVE SocketInv'
<1>1. /\ SocketTypes /\ SocketBeginning /\ SocketNumbered /\ SocketAnswered /\ SocketAttached /\ SocketEnded /\ toServer \in Seq(SocketRequestType)
  BY DEF SocketInv, SocketTypes
<1>2. PICK f : f = Head(toServer)
  OBVIOUS
<1>3. /\ session = "new" /\ toServer # << >> /\ f.kind # "hello" /\ session' = "plain"
      /\ pending' = <<f>> /\ toServer' = Tail(toServer)
      /\ UNCHANGED <<mode, browser, hidden, asked, queue, held, writeSeq, toBrowser, readSeq, got,
                     published, record, forwarder, lost>>
  BY <1>2 DEF Socket!Plain
<1>4. /\ f \in SocketRequestType /\ toServer' \in Seq(SocketRequestType) /\ 1 \in 1..Len(toServer) /\ toServer[1] = f
      /\ \A i \in 1..Len(toServer') : i + 1 \in 1..Len(toServer) /\ toServer'[i] = toServer[i + 1]
  BY <1>1, <1>2, <1>3, SocketHeadOf
<1>5. f.n # 0 /\ f.n \in Nat
  BY <1>1, <1>3, <1>4, SocketNumbered0 DEF SocketBeginning, SocketAsks
<1>6. /\ pending' \in Seq(SocketRequestType) /\ Len(pending') = 1 /\ pending'[1] = f
  BY <1>3, <1>4
<1>7. SocketTypes'
  BY <1>1, <1>3, <1>4, <1>6 DEF SocketTypes
<1>8. SocketBeginning'
  <2>1. SocketAsks(toServer')
    BY <1>1, <1>4 DEF SocketBeginning, SocketAsks
  <2>2. SocketAsks(pending')
    BY <1>3, <1>5, <1>6 DEF SocketAsks
  <2>3. ~hidden => \A i \in 1..Len(toServer') : toServer'[i].kind # "hello"
    BY <1>1, <1>4 DEF SocketBeginning
  <2> QED
    BY <1>1, <1>3, <2>1, <2>2, <2>3 DEF SocketBeginning
<1>9. SocketNumbered'
  BY <1>3 DEF SocketNumbered
<1>10. SocketAnswered'
  <2>1. ASSUME SocketChain PROVE SocketChain'
    <3>1. PICK g, t, h, q, p \in Nat :
            /\ SocketRuns(got, 0, g) /\ SocketRuns(toBrowser, g, t) /\ SocketHanded(held, t, h) /\ SocketRuns(queue[Loop], h, q)
            /\ SocketRuns(pending, q, p) /\ SocketRuns(toServer, p, asked)
      BY <2>1 DEF SocketChain
    <3>2. asked \in Nat
      BY <1>1, SocketNumbers DEF SocketTypes
    <3>3. p = q
      BY <1>1, <1>3, <3>1, SocketRunsNothing DEF SocketBeginning
    <3>4. f.n = p + 1 /\ SocketRuns(toServer', p + 1, asked)
      BY <1>1, <1>2, <1>3, <1>5, <3>1, <3>2, SocketNumbered0, SocketRunsTail
    <3>5. SocketRuns(<<f>>, q, q + 1)
      BY <1>4, <3>3, <3>4, SocketNumbered0, SocketRunsOne
    <3>6. q + 1 \in Nat
      OBVIOUS
    <3> QED
      BY <1>3, <3>1, <3>3, <3>4, <3>5, <3>6 DEF SocketChain
  <2> QED
    BY <1>1, <1>3, <2>1 DEF SocketAnswered
<1>11. SocketAttached'
  BY <1>1, <1>3, SocketAttachedStays
<1>12. SocketEnded'
  BY <1>1, <1>3 DEF SocketEnded, SocketWritten, SocketPassed
<1> QED
  BY <1>7, <1>8, <1>9, <1>10, <1>11, <1>12 DEF SocketInv

LEMMA SocketServesDisabled == ASSUME SocketInv, Socket!Disabled PROVE SocketInv'
<1>1. SocketTypes /\ SocketBeginning /\ SocketNumbered /\ SocketAnswered /\ SocketAttached /\ SocketEnded
  BY DEF SocketInv
<1>2. /\ session = "new" /\ session' = "plain"
      /\ UNCHANGED <<mode, browser, hidden, asked, toServer, pending, queue, held, writeSeq,
                     toBrowser, readSeq, got, published, record, forwarder, lost>>
  BY DEF Socket!Disabled
<1>3. SocketTypes'
  BY <1>1, <1>2 DEF SocketTypes
<1>4. SocketBeginning'
  BY <1>1, <1>2 DEF SocketBeginning
<1>5. SocketNumbered'
  BY <1>2 DEF SocketNumbered
<1>6. SocketAnswered'
  <2>1. SocketChain => SocketChain'
    BY <1>2 DEF SocketChain
  <2> QED
    BY <1>1, <1>2, <2>1 DEF SocketAnswered
<1>7. SocketAttached'
  BY <1>1, <1>2, SocketAttachedStays
<1>8. SocketEnded'
  BY <1>1, <1>2 DEF SocketEnded, SocketWritten, SocketPassed
<1> QED
  BY <1>3, <1>4, <1>5, <1>6, <1>7, <1>8 DEF SocketInv

LEMMA SocketServesSealed == ASSUME SocketInv, Socket!Sealed PROVE SocketInv'
<1>1. /\ SocketTypes /\ SocketBeginning /\ SocketNumbered /\ SocketAnswered /\ SocketAttached /\ SocketEnded /\ toServer \in Seq(SocketRequestType)
  BY DEF SocketInv, SocketTypes
<1>2. PICK f, c : f = Head(toServer) /\ c = [kind |-> "hello", n |-> 0, about |-> Loop, seq |-> 0]
  OBVIOUS
<1>3. /\ session = "new" /\ toServer # << >> /\ f.kind = "hello" /\ session' = "sealed"
      /\ toBrowser' = <<c>> /\ toServer' = Tail(toServer)
      /\ UNCHANGED <<mode, browser, hidden, asked, pending, queue, held, writeSeq, readSeq, got,
                     published, record, forwarder, lost>>
  BY <1>2 DEF Socket!Sealed
<1>4. /\ f \in SocketRequestType /\ toServer' \in Seq(SocketRequestType) /\ 1 \in 1..Len(toServer) /\ toServer[1] = f
      /\ \A i \in 1..Len(toServer') : i + 1 \in 1..Len(toServer) /\ toServer'[i] = toServer[i + 1]
  BY <1>1, <1>2, <1>3, SocketHeadOf
<1>5. f.n = 0 /\ hidden
  BY <1>1, <1>3, <1>4 DEF SocketBeginning, SocketAsks, SocketTypes
<1>6. c \in SocketSentType /\ c.kind = "hello" /\ c.n = 0
  BY <1>2, SocketNumbers DEF SocketSentType
<1>7. /\ toBrowser' \in Seq(SocketSentType) /\ Len(toBrowser') = 1 /\ toBrowser'[1] = c /\ Head(toBrowser') = c
      /\ toBrowser' # << >>
  BY <1>3, <1>6
<1>8. /\ toBrowser = << >> /\ Len(toBrowser) = 0 /\ held = {} /\ writeSeq = 0 /\ readSeq = 0
      /\ browser \in {"hello", "closed"}
  BY <1>1, <1>3, <1>5 DEF SocketBeginning
<1>9. SocketTypes'
  BY <1>1, <1>3, <1>4, <1>7 DEF SocketTypes
<1>10. SocketBeginning'
  <2>1. SocketAsks(toServer')
    BY <1>1, <1>4 DEF SocketBeginning, SocketAsks
  <2> QED
    BY <1>1, <1>3, <1>5, <2>1 DEF SocketBeginning
<1>11. SocketNumbered'
  BY <1>3, <1>6, <1>7, <1>8 DEF SocketNumbered, SocketGreetings
<1>12. SocketAnswered'
  <2>1. ASSUME SocketChain PROVE SocketChain'
    <3>1. PICK g, t, h, q, p \in Nat :
            /\ SocketRuns(got, 0, g) /\ SocketRuns(toBrowser, g, t) /\ SocketHanded(held, t, h) /\ SocketRuns(queue[Loop], h, q)
            /\ SocketRuns(pending, q, p) /\ SocketRuns(toServer, p, asked)
      BY <2>1 DEF SocketChain
    <3>2. asked \in Nat
      BY <1>1, SocketNumbers DEF SocketTypes
    <3>3. g = t
      BY <1>8, <3>1, SocketRunsNothing
    <3>4. SocketRuns(toServer', p, asked)
      BY <1>1, <1>2, <1>3, <1>5, <3>1, <3>2, SocketNumbered0, SocketRunsTail
    <3>5. SocketRuns(<<c>>, g, g)
      BY <1>6, SocketNumbered0, SocketRunsOne
    <3> QED
      BY <1>3, <3>1, <3>3, <3>4, <3>5 DEF SocketChain
  <2> QED
    BY <1>1, <1>3, <2>1 DEF SocketAnswered
<1>13. \A kind, s : SocketPassed(kind, s) => SocketPassed(kind, s)'
  BY <1>3, <1>8 DEF SocketPassed
<1>14. SocketTelling'
  BY <1>6, <1>7 DEF SocketTelling
<1>15. SocketAttached'
  BY <1>1, <1>3, <1>13, <1>14 DEF SocketAttached, SocketTold, SocketWritten, SocketForwarded
<1>16. SocketEnded'
  BY <1>1, <1>3, <1>13 DEF SocketEnded, SocketWritten
<1> QED
  BY <1>9, <1>10, <1>11, <1>12, <1>15, <1>16 DEF SocketInv

LEMMA SocketSocketEnds == ASSUME SocketInv, Socket!Ends PROVE SocketInv'
<1>1. SocketTypes /\ SocketBeginning /\ SocketNumbered /\ SocketAnswered /\ SocketAttached /\ SocketEnded
  BY DEF SocketInv
<1>2. /\ session' = "over" /\ browser' = "closed" /\ held' = {} /\ pending' = << >>
      /\ record' = [s \in Streams |-> IF record[s] = "attached" THEN "closed" ELSE record[s]]
      /\ queue' = [w \in Socket!Writers |-> << >>]
      /\ UNCHANGED <<mode, hidden, asked, toServer, writeSeq, toBrowser, readSeq, got, published,
                     forwarder, lost>>
  BY DEF Socket!Ends, Socket!Empty
<1>3. /\ << >> \in Seq(SocketRequestType) /\ << >> \in Seq(SocketNoteType) /\ Len(<< >>) = 0
      /\ \A w \in Socket!Writers : queue'[w] = << >> /\ Len(queue'[w]) = 0
  BY <1>2
<1>4. SocketTypes'
  <2>1. queue' \in [Socket!Writers -> Seq(SocketNoteType)] /\ Len(queue'[Events]) <= MaxQueued
    BY <1>2, <1>3, SocketNumbers
  <2>2. record' \in [Streams -> {"free", "attached", "closed"}]
    BY <1>1, <1>2 DEF SocketTypes
  <2>3. Len(pending') <= 1 /\ pending' \in Seq(SocketRequestType)
    BY <1>2, <1>3
  <2> QED
    BY <1>1, <1>2, <2>1, <2>2, <2>3 DEF SocketTypes
<1>5. SocketBeginning'
  <2>1. SocketAsks(pending')
    BY <1>2, <1>3 DEF SocketAsks
  <2> QED
    BY <1>1, <1>2, <2>1 DEF SocketBeginning
<1>6. SocketNumbered'
  BY <1>2 DEF SocketNumbered
<1>7. SocketAnswered'
  BY <1>1, <1>2, <1>3 DEF SocketAnswered
<1>8. SocketAttached'
  BY <1>1, <1>2, <1>3 DEF SocketAttached, SocketTold
<1>9. SocketEnded'
  BY <1>2 DEF SocketEnded
<1> QED
  BY <1>4, <1>5, <1>6, <1>7, <1>8, <1>9 DEF SocketInv

-----------------------------------------------------------------------------

\* Before the browser has its keys it was answered nothing.
LEMMA SocketNothingYet ==
  ASSUME SocketInv, browser \in {"hello", "deriving"}, toBrowser # << >>
  PROVE  /\ SocketChain /\ session # "new" /\ Head(toBrowser).n = 0
         /\ \A i \in 1..Len(toBrowser) : toBrowser[i].kind # "data"
<1>1. SocketTypes /\ SocketBeginning /\ SocketAnswered /\ SocketAttached /\ toBrowser \in Seq(SocketSentType)
  BY DEF SocketInv, SocketTypes
<1>2. SocketChain
  BY <1>1 DEF SocketAnswered
<1>3. PICK g, t, h, q, p \in Nat :
        /\ SocketRuns(got, 0, g) /\ SocketRuns(toBrowser, g, t) /\ SocketHanded(held, t, h) /\ SocketRuns(queue[Loop], h, q)
        /\ SocketRuns(pending, q, p) /\ SocketRuns(toServer, p, asked)
  BY <1>2 DEF SocketChain
<1>4. asked = 0
  BY <1>1 DEF SocketBeginning
<1>5. t <= h /\ h <= q /\ q <= p /\ p <= 0
  BY <1>3, <1>4 DEF SocketRuns, SocketHanded
<1>6. Head(toBrowser).n \in Nat /\ Head(toBrowser).n <= t
  BY <1>1, <1>3, SocketNumbered0, SocketRunsTail
<1>7. Head(toBrowser).n = 0
  BY <1>5, <1>6
<1>8. \A i \in 1..Len(toBrowser) : toBrowser[i].kind # "data"
  BY <1>1 DEF SocketAttached, SocketTelling, SocketForwarded, SocketBeginning
<1>9. session # "new"
  BY <1>1 DEF SocketBeginning
<1> QED
  BY <1>2, <1>7, <1>8, <1>9

LEMMA SocketBrowserListens == ASSUME SocketInv, Socket!Listen PROVE SocketInv'
<1>1. /\ SocketTypes /\ SocketBeginning /\ SocketNumbered /\ SocketAnswered /\ SocketAttached /\ SocketEnded /\ toBrowser \in Seq(SocketSentType)
      /\ got \in Seq(SocketGotType) /\ readSeq \in Nat
  BY DEF SocketInv, SocketTypes
<1>2. PICK f : f = Head(toBrowser)
  OBVIOUS
<1>3. /\ toBrowser # << >> /\ toBrowser' = Tail(toBrowser)
      /\ UNCHANGED <<mode, session, hidden, asked, toServer, pending, queue, held, writeSeq,
                     published, record, forwarder>>
  BY DEF Socket!Listen
<1>4. /\ f \in SocketSentType /\ toBrowser' \in Seq(SocketSentType) /\ Len(toBrowser) \in Nat
      /\ Len(toBrowser') = Len(toBrowser) - 1 /\ 1 \in 1..Len(toBrowser) /\ toBrowser[1] = f
      /\ \A i \in 1..Len(toBrowser') : i + 1 \in 1..Len(toBrowser) /\ toBrowser'[i] = toBrowser[i + 1] /\ 1 < i + 1
      /\ \A i \in 1..Len(toBrowser) : i = 1 \/ (i - 1 \in 1..Len(toBrowser') /\ toBrowser[i] = toBrowser'[i - 1] /\ 1 < i)
  BY <1>1, <1>2, <1>3, SocketHeadOf
<1>5. ASSUME browser' = "closed", UNCHANGED <<readSeq, got, lost>> PROVE SocketInv'
  <2>1. SocketTypes'
    BY <1>1, <1>3, <1>4, <1>5 DEF SocketTypes
  <2>2. SocketBeginning'
    <3>1. session # "new"
      BY <1>1, <1>3 DEF SocketBeginning
    <3> QED
      BY <1>1, <1>3, <1>5, <3>1 DEF SocketBeginning
  <2>3. SocketNumbered' /\ SocketEnded'
    BY <1>5 DEF SocketNumbered, SocketEnded
  <2>4. SocketAnswered'
    BY <1>1, <1>3, <1>5 DEF SocketAnswered
  <2>5. SocketAttached'
    BY <1>1, <1>3, <1>5 DEF SocketAttached, SocketTold, SocketForwarded
  <2> QED
    BY <2>1, <2>2, <2>3, <2>4, <2>5 DEF SocketInv
\* The greeting is taken, or a frame while there are no keys yet.
<1>6. ASSUME browser \in {"hello", "deriving"}, browser' = "deriving", UNCHANGED <<readSeq, got>>,
             lost' \in BOOLEAN, (browser = "hello" /\ lost' = lost) \/ lost'
      PROVE  SocketInv'
  <2>1. /\ SocketChain /\ session # "new" /\ f.n = 0
        /\ \A i \in 1..Len(toBrowser) : toBrowser[i].kind # "data"
    BY <1>2, <1>3, <1>6, SocketNothingYet
  <2>2. SocketTypes'
    BY <1>1, <1>3, <1>4, <1>6 DEF SocketTypes
  <2>3. SocketBeginning'
    BY <1>1, <1>3, <1>6, <2>1 DEF SocketBeginning
  <2>4. SocketNumbered'
    <3>1. ASSUME hidden, session = "sealed", ~lost, browser = "hello"
          PROVE  /\ \A i \in 1..Len(toBrowser') :
                      toBrowser'[i].kind # "hello" /\ toBrowser'[i].seq + 0 + 1 = readSeq + i
                 /\ \A c \in held : c.seq + 0 = readSeq + Len(toBrowser') /\ writeSeq = c.seq + 1
                 /\ held = {} => writeSeq + 0 = readSeq + Len(toBrowser')
      <4>1. /\ \A i \in 1..Len(toBrowser) : i > 1 =>
                 toBrowser[i].kind # "hello" /\ toBrowser[i].seq + 1 + 1 = readSeq + i
            /\ \A c \in held : c.seq + 1 = readSeq + Len(toBrowser) /\ writeSeq = c.seq + 1
            /\ held = {} => writeSeq + 1 = readSeq + Len(toBrowser)
        BY <1>1, <3>1 DEF SocketNumbered, SocketGreetings
      <4>2. ASSUME NEW i \in 1..Len(toBrowser')
            PROVE  toBrowser'[i].kind # "hello" /\ toBrowser'[i].seq + 0 + 1 = readSeq + i
        <5>1. toBrowser'[i].kind # "hello" /\ toBrowser'[i].seq + 1 + 1 = readSeq + (i + 1)
          BY <1>4, <4>1
        <5>2. toBrowser'[i].seq \in Nat
          <6>1. toBrowser'[i] \in SocketSentType
            BY <1>4, ElementOfSeq
          <6> QED
            BY <6>1 DEF SocketSentType
        <5>3. readSeq \in Nat /\ i \in Int
          BY <1>1
        <5>4. PICK n \in Nat, r \in Nat : n = toBrowser'[i].seq /\ r = readSeq
          BY <5>2, <5>3
        <5>5. n + 1 + 1 = r + (i + 1)
          BY <5>1, <5>4
        <5>6. n + 0 + 1 = r + i
          BY <5>3, <5>5
        <5> QED
          BY <5>1, <5>4, <5>6
      <4>3. ASSUME NEW c \in held
            PROVE  c.seq + 0 = readSeq + Len(toBrowser') /\ writeSeq = c.seq + 1
        <5>1. c.seq \in Nat
          BY <1>1 DEF SocketTypes, SocketHeldType
        <5>2. PICK k, m, r : k = c.seq /\ m = Len(toBrowser) /\ r = readSeq
          OBVIOUS
        <5>3. k \in Nat /\ m \in Nat /\ r \in Nat /\ k + 1 = r + m
          BY <1>1, <1>4, <4>1, <5>1, <5>2
        <5>4. k + 0 = r + (m - 1)
          BY <5>3
        <5> QED
          BY <1>4, <4>1, <5>2, <5>4
      <4>4. held = {} => writeSeq + 0 = readSeq + Len(toBrowser')
        <5>1. PICK k, m, r : k = writeSeq /\ m = Len(toBrowser) /\ r = readSeq
          OBVIOUS
        <5>2. k \in Nat /\ m \in Nat /\ r \in Nat /\ (held = {} => k + 1 = r + m)
          BY <1>1, <1>4, <4>1, <5>1 DEF SocketTypes
        <5>3. held = {} => k + 0 = r + (m - 1)
          BY <5>2
        <5> QED
          BY <1>4, <5>1, <5>3
      <4> QED
        BY <4>2, <4>3, <4>4
    <3>2. SocketGreetings' = 0
      BY <1>6 DEF SocketGreetings
    <3> QED
      BY <1>3, <1>6, <3>1, <3>2 DEF SocketNumbered
  <2>5. SocketAnswered'
    <3>1. PICK g, t, h, q, p \in Nat :
            /\ SocketRuns(got, 0, g) /\ SocketRuns(toBrowser, g, t) /\ SocketHanded(held, t, h) /\ SocketRuns(queue[Loop], h, q)
            /\ SocketRuns(pending, q, p) /\ SocketRuns(toServer, p, asked)
      BY <2>1 DEF SocketChain
    <3>2. SocketRuns(toBrowser', g, t)
      BY <1>1, <1>2, <1>3, <2>1, <3>1, SocketNumbered0, SocketRunsTail
    <3>3. SocketChain'
      BY <1>3, <1>6, <3>1, <3>2 DEF SocketChain
    <3> QED
      BY <1>1, <1>3, <1>6, <3>3 DEF SocketAnswered
  <2>6. SocketAttached'
    <3>1. SocketTelling'
      BY <1>4, <2>1 DEF SocketTelling
    <3>2. \A s \in Streams : record'[s] = "free" /\ forwarder'[s] = "none"
      BY <1>1, <1>3, <1>6 DEF SocketBeginning
    <3>3. SocketTold'
      BY <1>1, <1>6 DEF SocketAttached, SocketTold
    <3> QED
      BY <1>1, <1>3, <3>1, <3>2, <3>3 DEF SocketAttached, SocketForwarded
  <2>7. SocketEnded'
    <3>1. \A s \in Streams : forwarder'[s] = "none"
      BY <1>1, <1>3, <1>6 DEF SocketBeginning
    <3> QED
      BY <3>1 DEF SocketEnded
  <2> QED
    BY <2>2, <2>3, <2>4, <2>5, <2>6, <2>7 DEF SocketInv
\* The next frame is read.
<1>7. ASSUME browser = "open", UNCHANGED <<browser, lost>>, ~hidden \/ f.seq = readSeq,
             got' = Append(got, Socket!Frame(f.kind, f.n, f.about)), readSeq' = readSeq + 1
      PROVE  SocketInv'
  <2>1. PICK x : x = Socket!Frame(f.kind, f.n, f.about)
    OBVIOUS
  <2>2. x \in SocketGotType /\ x.kind = f.kind /\ x.n = f.n /\ x.about = f.about
    BY <1>4, <2>1 DEF Socket!Frame, SocketGotType, SocketSentType
  <2>3. /\ got' \in Seq(SocketGotType) /\ Len(got) \in Nat /\ Len(got') = Len(got) + 1
        /\ got'[Len(got) + 1] = x /\ Len(got) + 1 \in 1..Len(got')
        /\ \A i \in 1..Len(got) : got'[i] = got[i] /\ i \in 1..Len(got') /\ i < Len(got) + 1
        /\ \A i \in 1..Len(got') : i \in 1..Len(got) \/ i = Len(got) + 1
    BY <1>1, <1>7, <2>1, <2>2, SocketLastOf
  <2>4. SocketTypes'
    BY <1>1, <1>3, <1>4, <1>7, <2>3 DEF SocketTypes
  <2>5. SocketBeginning'
    <3>1. session # "new"
      BY <1>1, <1>3 DEF SocketBeginning
    <3> QED
      BY <1>1, <1>3, <1>7, <3>1 DEF SocketBeginning
  <2>6. SocketNumbered'
    <3>1. ASSUME hidden, session = "sealed", ~lost
          PROVE  /\ \A i \in 1..Len(toBrowser') :
                      toBrowser'[i].kind # "hello" /\ toBrowser'[i].seq + 0 + 1 = readSeq' + i
                 /\ \A c \in held : c.seq + 0 = readSeq' + Len(toBrowser') /\ writeSeq = c.seq + 1
                 /\ held = {} => writeSeq + 0 = readSeq' + Len(toBrowser')
      <4>1. /\ \A i \in 1..Len(toBrowser) : i > 0 =>
                 toBrowser[i].kind # "hello" /\ toBrowser[i].seq + 0 + 1 = readSeq + i
            /\ \A c \in held : c.seq + 0 = readSeq + Len(toBrowser) /\ writeSeq = c.seq + 1
            /\ held = {} => writeSeq + 0 = readSeq + Len(toBrowser)
        BY <1>1, <1>7, <3>1 DEF SocketNumbered, SocketGreetings
      <4>2. ASSUME NEW i \in 1..Len(toBrowser')
            PROVE  toBrowser'[i].kind # "hello" /\ toBrowser'[i].seq + 0 + 1 = readSeq' + i
        <5>1. toBrowser'[i].kind # "hello" /\ toBrowser'[i].seq + 0 + 1 = readSeq + (i + 1)
          BY <1>4, <4>1
        <5>2. toBrowser'[i].seq \in Nat
          <6>1. toBrowser'[i] \in SocketSentType
            BY <1>4, ElementOfSeq
          <6> QED
            BY <6>1 DEF SocketSentType
        <5> QED
          BY <1>1, <1>7, <5>1, <5>2
      <4>3. ASSUME NEW c \in held
            PROVE  c.seq + 0 = readSeq' + Len(toBrowser') /\ writeSeq = c.seq + 1
        <5>1. c.seq \in Nat
          BY <1>1 DEF SocketTypes, SocketHeldType
        <5>2. PICK k, m, r : k = c.seq /\ m = Len(toBrowser) /\ r = readSeq
          OBVIOUS
        <5>3. k \in Nat /\ m \in Nat /\ r \in Nat /\ k + 0 = r + m
          BY <1>1, <1>4, <4>1, <5>1, <5>2
        <5>4. k + 0 = (r + 1) + (m - 1)
          BY <5>3
        <5> QED
          BY <1>4, <1>7, <4>1, <5>2, <5>4
      <4>4. held = {} => writeSeq + 0 = readSeq' + Len(toBrowser')
        <5>1. PICK k, m, r : k = writeSeq /\ m = Len(toBrowser) /\ r = readSeq
          OBVIOUS
        <5>2. k \in Nat /\ m \in Nat /\ r \in Nat /\ (held = {} => k + 0 = r + m)
          BY <1>1, <1>4, <4>1, <5>1 DEF SocketTypes
        <5>3. held = {} => k + 0 = (r + 1) + (m - 1)
          BY <5>2
        <5> QED
          BY <1>4, <1>7, <5>1, <5>3
      <4> QED
        BY <4>2, <4>3, <4>4
    <3>2. SocketGreetings' = 0 /\ browser' # "hello"
      BY <1>7 DEF SocketGreetings
    <3> QED
      BY <1>3, <1>7, <3>1, <3>2 DEF SocketNumbered
  <2>7. SocketAnswered'
    <3>1. PICK g, t, h, q, p \in Nat :
            /\ SocketRuns(got, 0, g) /\ SocketRuns(toBrowser, g, t) /\ SocketHanded(held, t, h) /\ SocketRuns(queue[Loop], h, q)
            /\ SocketRuns(pending, q, p) /\ SocketRuns(toServer, p, asked)
      BY <1>1, <1>7 DEF SocketAnswered, SocketChain
    <3>2. f.n \in Nat
      BY <1>4, SocketNumbered0
    <3>3. 0 \in Nat /\ g + 1 \in Nat
      OBVIOUS
    <3>4. CASE f.n = 0
      <4>1. SocketRuns(toBrowser', g, t)
        BY <1>1, <1>2, <1>3, <3>1, <3>4, SocketNumbered0, SocketRunsTail
      <4>2. SocketRuns(got', 0, g)
        BY <1>1, <1>7, <2>1, <2>2, <3>1, <3>3, <3>4, SocketNumbered0, SocketRunsAppend
      <4>3. SocketChain'
        BY <1>3, <1>7, <3>1, <4>1, <4>2 DEF SocketChain
      <4> QED
        BY <1>1, <1>3, <1>7, <3>1, <4>2, <4>3 DEF SocketAnswered
    <3>5. CASE f.n > 0
      <4>1. f.n = g + 1 /\ SocketRuns(toBrowser', g + 1, t)
        BY <1>1, <1>2, <1>3, <3>1, <3>5, SocketNumbered0, SocketRunsTail
      <4>2. SocketRuns(got', 0, g + 1)
        BY <1>1, <1>7, <2>1, <2>2, <3>1, <3>3, <4>1, SocketNumbered0, SocketRunsAppend
      <4>3. SocketChain'
        BY <1>3, <1>7, <3>1, <3>3, <4>1, <4>2 DEF SocketChain
      <4> QED
        BY <1>1, <1>3, <1>7, <3>3, <4>2, <4>3 DEF SocketAnswered
    <3> QED
      BY <3>2, <3>4, <3>5
  <2>8. \A kind, s : SocketPassed(kind, s) => SocketPassed(kind, s)'
    BY <1>4, <2>2, <2>3 DEF SocketPassed
  <2>9. SocketAttached'
    <3>1. SocketTold /\ SocketTelling
      BY <1>1, <1>7 DEF SocketAttached
    <3>2. SocketTold'
      <4>1. ASSUME NEW i \in 1..Len(got'), got'[i].kind = "data"
            PROVE  \E j \in 1..(i - 1) : got'[j].kind = "attached" /\ got'[j].about = got'[i].about
        <5>1. CASE i \in 1..Len(got)
          <6>1. PICK j \in 1..(i - 1) : got[j].kind = "attached" /\ got[j].about = got[i].about
            BY <2>3, <3>1, <4>1, <5>1 DEF SocketTold
          <6>2. j \in 1..Len(got)
            BY <2>3, <5>1
          <6> QED
            BY <2>3, <5>1, <6>1, <6>2
        <5>2. CASE i = Len(got) + 1
          <6>1. \A j \in 1..Len(toBrowser) : ~(j < 1)
            BY <1>4
          <6>2. PICK j \in 1..Len(got) : got[j].kind = "attached" /\ got[j].about = f.about
            BY <1>4, <2>2, <2>3, <3>1, <4>1, <5>2, <6>1 DEF SocketTelling
          <6>3. j \in 1..(i - 1)
            BY <2>3, <5>2
          <6> QED
            BY <2>2, <2>3, <5>2, <6>2, <6>3
        <5> QED
          BY <2>3, <5>1, <5>2
      <4> QED
        BY <4>1 DEF SocketTold
    <3>3. SocketTelling'
      <4>1. ASSUME NEW i \in 1..Len(toBrowser'), toBrowser'[i].kind = "data"
            PROVE  /\ toBrowser'[i].about \in Streams /\ forwarder'[toBrowser'[i].about] # "none"
                   /\ \/ \E j \in 1..Len(got') : got'[j].kind = "attached" /\ got'[j].about = toBrowser'[i].about
                      \/ \E j \in 1..Len(toBrowser') :
                           j < i /\ toBrowser'[j].kind = "attached" /\ toBrowser'[j].about = toBrowser'[i].about
        <5>1. i + 1 \in 1..Len(toBrowser) /\ toBrowser'[i] = toBrowser[i + 1]
          BY <1>4
        <5>2. /\ SocketForwarded(toBrowser'[i].about)
              /\ \/ \E j \in 1..Len(got) : got[j].kind = "attached" /\ got[j].about = toBrowser'[i].about
                 \/ \E j \in 1..Len(toBrowser) :
                      j < i + 1 /\ toBrowser[j].kind = "attached" /\ toBrowser[j].about = toBrowser'[i].about
          BY <3>1, <4>1, <5>1 DEF SocketTelling
        <5>3. toBrowser'[i].about \in Streams /\ forwarder'[toBrowser'[i].about] # "none"
          BY <1>3, <5>2 DEF SocketForwarded
        <5>4. CASE \E j \in 1..Len(got) : got[j].kind = "attached" /\ got[j].about = toBrowser'[i].about
          BY <2>3, <5>3, <5>4
        <5>5. ASSUME NEW j \in 1..Len(toBrowser), j < i + 1, toBrowser[j].kind = "attached",
                     toBrowser[j].about = toBrowser'[i].about
              PROVE  \/ \E k \in 1..Len(got') : got'[k].kind = "attached" /\ got'[k].about = toBrowser'[i].about
                     \/ \E k \in 1..Len(toBrowser') :
                          k < i /\ toBrowser'[k].kind = "attached" /\ toBrowser'[k].about = toBrowser'[i].about
          <6>1. CASE j = 1
            BY <1>4, <2>2, <2>3, <5>5, <6>1
          <6>2. CASE j - 1 \in 1..Len(toBrowser') /\ toBrowser[j] = toBrowser'[j - 1]
            <7>1. j - 1 < i
              BY <1>4, <5>5
            <7> QED
              BY <5>5, <6>2, <7>1
          <6> QED
            BY <1>4, <6>1, <6>2
        <5> QED
          BY <5>2, <5>3, <5>4, <5>5
      <4> QED
        BY <4>1 DEF SocketTelling, SocketForwarded
    <3> QED
      BY <1>1, <1>3, <1>7, <2>8, <3>2, <3>3 DEF SocketAttached, SocketWritten, SocketForwarded
  <2>10. SocketEnded'
    BY <1>1, <1>3, <1>7, <2>8 DEF SocketEnded, SocketWritten
  <2> QED
    BY <2>4, <2>5, <2>6, <2>7, <2>9, <2>10 DEF SocketInv
<1> QED
  <2>1. CASE browser = "hello" /\ browser' = (IF f.kind = "hello" THEN "deriving" ELSE "closed") /\ UNCHANGED <<readSeq, got, lost>>
    <3>1. lost' \in BOOLEAN
      BY <1>1, <2>1 DEF SocketTypes
    <3> QED
      BY <1>5, <1>6, <2>1, <3>1
  <2>2. CASE browser = "deriving" /\ lost' = TRUE /\ UNCHANGED <<browser, readSeq, got>>
    BY <1>6, <2>2
  <2>3. CASE browser' = "closed" /\ UNCHANGED <<readSeq, got, lost>>
    BY <1>5, <2>3
  <2>4. CASE /\ browser = "open" /\ (~hidden \/ f.seq = readSeq)
             /\ got' = Append(got, Socket!Frame(f.kind, f.n, f.about)) /\ readSeq' = readSeq + 1 /\ UNCHANGED <<browser, lost>>
    BY <1>7, <2>4
  <2>5. CASE browser = "closed" /\ UNCHANGED <<browser, readSeq, got, lost>>
    BY <1>5, <2>5
  <2> QED
    BY <1>2, <2>1, <2>2, <2>3, <2>4, <2>5 DEF Socket!Listen

-----------------------------------------------------------------------------

LEMMA SocketQueueOf ==
  ASSUME SocketTypes, NEW w \in Socket!Writers, NEW m \in Seq(SocketNoteType), queue' = [queue EXCEPT ![w] = m],
         w = Events => Len(m) <= MaxQueued
  PROVE  /\ queue' \in [Socket!Writers -> Seq(SocketNoteType)] /\ Len(queue'[Events]) <= MaxQueued
         /\ queue'[w] = m /\ \A v \in Socket!Writers : v # w => queue'[v] = queue[v]
BY SocketNumbers DEF SocketTypes

\* The loop writes what the request r asks for.
LEMMA SocketLoopAnswers ==
  ASSUME SocketInv, NEW r \in SocketRequestType, r.n = 0 <=> r.kind = "hello",
         session \in {"plain", "sealed"}, queue[Loop] = << >>,
         NEW m \in Seq(SocketNoteType), queue' = [queue EXCEPT ![Loop] = m],
         \A a \in Nat : (r.n = 0 => SocketRuns(m, a, a)) /\ (r.n = a + 1 => SocketRuns(m, a, a + 1)),
         \A i \in 1..Len(m) : m[i].kind # "data",
         SocketChain => \E q, p \in Nat :
           /\ \A g, t, h \in Nat : SocketHanded(held, t, h) /\ SocketRuns(queue[Loop], h, q) => h = q
           /\ \E g, t, h \in Nat : SocketRuns(got, 0, g) /\ SocketRuns(toBrowser, g, t) /\ SocketHanded(held, t, h)
                                   /\ SocketRuns(queue[Loop], h, q)
           /\ \/ r.n = 0 /\ SocketRuns(pending', q, p) /\ SocketRuns(toServer', p, asked)
              \/ r.n = q + 1 /\ SocketRuns(pending', q + 1, p) /\ SocketRuns(toServer', p, asked),
         toServer' \in Seq(SocketRequestType), pending' = << >>, SocketAsks(toServer'),
         ~hidden => \A i \in 1..Len(toServer') : toServer'[i].kind # "hello",
         record' \in [Streams -> {"free", "attached", "closed"}],
         r.kind = "hello" => record' = record,
         \A s \in Streams : record'[s] = "attached" /\ forwarder[s] = "none" =>
           \E i \in 1..Len(m) : m[i].kind = "attached" /\ m[i].about = s,
         UNCHANGED <<mode, session, browser, hidden, asked, held, writeSeq, toBrowser, readSeq, got,
                     published, lost, forwarder>>
  PROVE  SocketInv'
<1>1. SocketTypes /\ SocketBeginning /\ SocketNumbered /\ SocketAnswered /\ SocketAttached /\ SocketEnded
  BY DEF SocketInv
<1>2. /\ queue' \in [Socket!Writers -> Seq(SocketNoteType)] /\ Len(queue'[Events]) <= MaxQueued
      /\ queue'[Loop] = m /\ \A v \in Socket!Writers : v # Loop => queue'[v] = queue[v]
  BY <1>1, SocketNumbers, SocketQueueOf
<1>3. SocketTypes'
  <2>1. Len(pending') <= 1 /\ pending' \in Seq(SocketRequestType)
    BY SocketRunsNothing
  <2> QED
    BY <1>1, <1>2, <2>1 DEF SocketTypes
<1>4. SocketAnswered'
  <2>1. ASSUME SocketChain PROVE SocketChain'
    <3>1. PICK q, p \in Nat :
           /\ \A g, t, h \in Nat : SocketHanded(held, t, h) /\ SocketRuns(queue[Loop], h, q) => h = q
           /\ \E g, t, h \in Nat : SocketRuns(got, 0, g) /\ SocketRuns(toBrowser, g, t) /\ SocketHanded(held, t, h)
                                   /\ SocketRuns(queue[Loop], h, q)
           /\ \/ r.n = 0 /\ SocketRuns(pending', q, p) /\ SocketRuns(toServer', p, asked)
              \/ r.n = q + 1 /\ SocketRuns(pending', q + 1, p) /\ SocketRuns(toServer', p, asked)
      BY <2>1
    <3>2. PICK g, t, h \in Nat : /\ SocketRuns(got, 0, g) /\ SocketRuns(toBrowser, g, t) /\ SocketHanded(held, t, h)
                                 /\ SocketRuns(queue[Loop], h, q) /\ h = q
      BY <3>1
    <3>3. CASE r.n = 0 /\ SocketRuns(pending', q, p) /\ SocketRuns(toServer', p, asked)
      <4>1. SocketRuns(m, h, q)
        BY <3>2, <3>3
      <4> QED
        BY <1>2, <3>2, <3>3, <4>1 DEF SocketChain
    <3>4. CASE r.n = q + 1 /\ SocketRuns(pending', q + 1, p) /\ SocketRuns(toServer', p, asked)
      <4>1. SocketRuns(m, h, q + 1) /\ q + 1 \in Nat
        BY <3>2, <3>4
      <4> QED
        BY <1>2, <3>2, <3>4, <4>1 DEF SocketChain
    <3> QED
      BY <3>1, <3>3, <3>4
  <2> QED
    BY <1>1, <1>2, <2>1 DEF SocketAnswered
<1>5. SocketBeginning'
  <2>1. ASSUME browser \in {"hello", "deriving"} PROVE record' = record
    <3>1. SocketChain /\ asked = 0
      BY <1>1, <2>1 DEF SocketAnswered, SocketBeginning
    <3>2. PICK q, p \in Nat : r.n = 0 \/ (r.n = q + 1 /\ SocketRuns(pending', q + 1, p) /\ SocketRuns(toServer', p, asked))
      BY <3>1
    <3>3. r.n = 0
      BY <3>1, <3>2 DEF SocketRuns
    <3> QED
      BY <3>3
  <2>2. SocketAsks(pending')
    BY DEF SocketAsks
  <2> QED
    BY <1>1, <2>1, <2>2 DEF SocketBeginning
<1>6. SocketNumbered'
  BY <1>1 DEF SocketNumbered, SocketGreetings
<1>7. SocketAttached'
  <2>1. \A s \in Streams : record'[s] = "attached" /\ forwarder'[s] = "none" => SocketWritten("attached", s, Loop)'
    BY <1>2 DEF SocketWritten
  <2>2. \A kind, s : SocketPassed(kind, s)' = SocketPassed(kind, s)
    BY DEF SocketPassed
  <2>3. \A w \in Socket!Writers : \A i \in 1..Len(queue'[w]) : queue'[w][i].kind = "data" => SocketForwarded(queue[w][i].about) /\ queue[w][i].about = w /\ w # Loop
    BY <1>1, <1>2, SMTT(30) DEF SocketAttached
  <2>4. \A w \in Socket!Writers : \A i \in 1..Len(queue'[w]) : queue'[w][i].kind = "data" =>
          queue'[w][i].about \in Streams /\ forwarder'[queue'[w][i].about] # "none" /\ queue'[w][i].about = w
    BY <1>2, <2>3 DEF SocketForwarded
  <2>5. SocketTold' /\ (SocketTelling => SocketTelling')
    BY <1>1 DEF SocketAttached, SocketTold, SocketTelling, SocketForwarded
  <2> QED
    BY <1>1, <2>1, <2>2, <2>4, <2>5 DEF SocketAttached, SocketForwarded
<1>8. SocketEnded'
  <2>1. \A s \in Streams : s # Loop /\ s \in Socket!Writers
    BY SocketNumbers
  <2> QED
    BY <1>1, <1>2, <2>1 DEF SocketEnded, SocketWritten, SocketPassed
<1> QED
  BY <1>3, <1>4, <1>5, <1>6, <1>7, <1>8 DEF SocketInv

LEMMA SocketLoopReads == ASSUME SocketInv, Socket!Read PROVE SocketInv'
<1>1. /\ SocketTypes /\ SocketBeginning /\ SocketAnswered /\ toServer \in Seq(SocketRequestType) /\ pending \in Seq(SocketRequestType)
      /\ asked \in Nat /\ Len(pending) <= 1 /\ record \in [Streams -> {"free", "attached", "closed"}]
  BY SocketNumbers DEF SocketInv, SocketTypes
<1>2. PICK r : r = Head(Socket!Incoming)
  OBVIOUS
<1>3. /\ session \in {"plain", "sealed"} /\ queue[Loop] = << >> /\ Socket!Incoming # << >>
      /\ \A s \in Streams : record[s] = "attached" => forwarder[s] # "none"
      /\ Socket!Attach(r) \/ Socket!Close(r) \/ Socket!Answer(r)
      /\ pending' = << >> /\ toServer' = (IF pending = << >> THEN Tail(toServer) ELSE toServer)
      /\ UNCHANGED <<mode, session, browser, hidden, asked, held, writeSeq, toBrowser, readSeq, got,
                     published, lost>>
  BY <1>2 DEF Socket!Read, Socket!LoopIdle, Socket!Serving, Socket!Empty
<1>4. ASSUME SocketChain
      PROVE  \E g, t, h, q, p \in Nat :
               /\ SocketRuns(got, 0, g) /\ SocketRuns(toBrowser, g, t) /\ SocketHanded(held, t, h) /\ SocketRuns(queue[Loop], h, q)
               /\ SocketRuns(pending, q, p) /\ SocketRuns(toServer, p, asked)
  BY <1>4 DEF SocketChain
<1>5. \A g, t, h, q \in Nat : SocketHanded(held, t, h) /\ SocketRuns(queue[Loop], h, q) => h = q
  BY <1>3, SocketRunsNothing
\* The request is the next one, and those behind it follow it.
<1>6. /\ r \in SocketRequestType /\ (r.n = 0 <=> r.kind = "hello") /\ toServer' \in Seq(SocketRequestType) /\ SocketAsks(toServer')
      /\ ~hidden => \A i \in 1..Len(toServer') : toServer'[i].kind # "hello"
      /\ SocketChain => \E q, p \in Nat :
           /\ \A g, t, h \in Nat : SocketHanded(held, t, h) /\ SocketRuns(queue[Loop], h, q) => h = q
           /\ \E g, t, h \in Nat : SocketRuns(got, 0, g) /\ SocketRuns(toBrowser, g, t) /\ SocketHanded(held, t, h)
                                   /\ SocketRuns(queue[Loop], h, q)
           /\ \/ r.n = 0 /\ SocketRuns(pending', q, p) /\ SocketRuns(toServer', p, asked)
              \/ r.n = q + 1 /\ SocketRuns(pending', q + 1, p) /\ SocketRuns(toServer', p, asked)
  <2>1. CASE pending = << >>
    <3>1. Socket!Incoming = toServer /\ toServer # << >> /\ r = Head(toServer) /\ toServer' = Tail(toServer)
      <4>1. << >> \o toServer = toServer
        BY <1>1
      <4> QED
        BY <1>2, <1>3, <2>1, <4>1 DEF Socket!Incoming
    <3>2. /\ r \in SocketRequestType /\ toServer' \in Seq(SocketRequestType) /\ 1 \in 1..Len(toServer) /\ toServer[1] = r
          /\ \A i \in 1..Len(toServer') : i + 1 \in 1..Len(toServer) /\ toServer'[i] = toServer[i + 1]
      BY <1>1, <3>1, SocketHeadOf
    <3>3. (r.n = 0 <=> r.kind = "hello") /\ SocketAsks(toServer')
      <4>1. \A i \in 1..Len(toServer) : toServer[i].n = 0 <=> toServer[i].kind = "hello"
        BY <1>1 DEF SocketBeginning, SocketAsks
      <4>2. r.n = 0 <=> r.kind = "hello"
        BY <3>2, <4>1
      <4>3. \A i \in 1..Len(toServer') : toServer'[i].n = 0 <=> toServer'[i].kind = "hello"
        BY <3>2, <4>1
      <4> QED
        BY <4>2, <4>3 DEF SocketAsks
    <3>4. ~hidden => \A i \in 1..Len(toServer') : toServer'[i].kind # "hello"
      BY <1>1, <3>2 DEF SocketBeginning
    <3>5. ASSUME SocketChain
          PROVE  \E q, p \in Nat :
           /\ \A g, t, h \in Nat : SocketHanded(held, t, h) /\ SocketRuns(queue[Loop], h, q) => h = q
           /\ \E g, t, h \in Nat : SocketRuns(got, 0, g) /\ SocketRuns(toBrowser, g, t) /\ SocketHanded(held, t, h)
                                   /\ SocketRuns(queue[Loop], h, q)
           /\ \/ r.n = 0 /\ SocketRuns(pending', q, p) /\ SocketRuns(toServer', p, asked)
              \/ r.n = q + 1 /\ SocketRuns(pending', q + 1, p) /\ SocketRuns(toServer', p, asked)
      <4>1. PICK g, t, h, q, p \in Nat :
               /\ SocketRuns(got, 0, g) /\ SocketRuns(toBrowser, g, t) /\ SocketHanded(held, t, h) /\ SocketRuns(queue[Loop], h, q)
               /\ SocketRuns(pending, q, p) /\ SocketRuns(toServer, p, asked)
        BY <1>4, <3>5
      <4>2. p = q
        BY <2>1, <4>1, SocketRunsNothing
      <4>3. /\ r.n \in Nat
            /\ r.n = 0 => SocketRuns(toServer', p, asked)
            /\ r.n > 0 => r.n = p + 1 /\ SocketRuns(toServer', p + 1, asked)
        BY <1>1, <3>1, <4>1, SocketNumbered0, SocketRunsTail
      <4>4. SocketRuns(pending', q, q) /\ SocketRuns(pending', q + 1, q + 1) /\ q + 1 \in Nat
        BY <1>3, SocketRunsNothing
      <4>5. r.n = 0 \/ r.n > 0
        BY <4>3
      <4>6. \/ r.n = 0 /\ SocketRuns(pending', q, q) /\ SocketRuns(toServer', q, asked)
            \/ r.n = q + 1 /\ SocketRuns(pending', q + 1, q + 1) /\ SocketRuns(toServer', q + 1, asked)
        BY <4>2, <4>3, <4>4, <4>5
      <4> QED
        BY <1>5, <4>1, <4>4, <4>6
    <3> QED
      BY <3>2, <3>3, <3>4, <3>5
  <2>2. CASE pending # << >>
    <3>1. /\ Head(pending) \in SocketRequestType /\ 1 \in 1..Len(pending) /\ pending[1] = Head(pending)
          /\ Len(Tail(pending)) = Len(pending) - 1 /\ Tail(pending) \in Seq(SocketRequestType) /\ Len(pending) \in Nat
      BY <1>1, <2>2, SocketHeadOf
    <3>2. Tail(pending) = << >>
      <4>1. Len(Tail(pending)) = 0
        BY <1>1, <3>1
      <4> QED
        BY <3>1, <4>1, EmptySeq
    <3>3. Socket!Incoming = pending \o toServer /\ r = pending[1] /\ toServer' = toServer
      <4>1. Len(pending \o toServer) = Len(pending) + Len(toServer) /\ (pending \o toServer)[1] = pending[1]
        BY <1>1, <3>1, ConcatProperties
      <4>2. Head(pending \o toServer) = (pending \o toServer)[1]
        <5>1. pending \o toServer \in Seq(SocketRequestType)
          BY <1>1, ConcatProperties
        <5> QED
          BY <1>3, <5>1, SocketHeadOf DEF Socket!Incoming
      <4> QED
        BY <1>2, <1>3, <2>2, <4>1, <4>2 DEF Socket!Incoming
    <3>4. r \in SocketRequestType /\ (r.n = 0 <=> r.kind = "hello") /\ SocketAsks(toServer')
      BY <1>1, <3>1, <3>3 DEF SocketBeginning, SocketAsks
    <3>5. ~hidden => \A i \in 1..Len(toServer') : toServer'[i].kind # "hello"
      BY <1>1, <3>3 DEF SocketBeginning
    <3>6. ASSUME SocketChain
          PROVE  \E q, p \in Nat :
           /\ \A g, t, h \in Nat : SocketHanded(held, t, h) /\ SocketRuns(queue[Loop], h, q) => h = q
           /\ \E g, t, h \in Nat : SocketRuns(got, 0, g) /\ SocketRuns(toBrowser, g, t) /\ SocketHanded(held, t, h)
                                   /\ SocketRuns(queue[Loop], h, q)
           /\ \/ r.n = 0 /\ SocketRuns(pending', q, p) /\ SocketRuns(toServer', p, asked)
              \/ r.n = q + 1 /\ SocketRuns(pending', q + 1, p) /\ SocketRuns(toServer', p, asked)
      <4>1. PICK g, t, h, q, p \in Nat :
               /\ SocketRuns(got, 0, g) /\ SocketRuns(toBrowser, g, t) /\ SocketHanded(held, t, h) /\ SocketRuns(queue[Loop], h, q)
               /\ SocketRuns(pending, q, p) /\ SocketRuns(toServer, p, asked)
        BY <1>4, <3>6
      <4>2. /\ r.n \in Nat
            /\ r.n = 0 => SocketRuns(pending', q, p)
            /\ r.n > 0 => r.n = q + 1 /\ SocketRuns(pending', q + 1, p)
        BY <1>1, <1>3, <2>2, <3>1, <3>2, <3>3, <4>1, SocketNumbered0, SocketRunsTail
      <4>3. r.n = 0 \/ r.n > 0
        BY <4>2
      <4>4. \/ r.n = 0 /\ SocketRuns(pending', q, p) /\ SocketRuns(toServer', p, asked)
            \/ r.n = q + 1 /\ SocketRuns(pending', q + 1, p) /\ SocketRuns(toServer', p, asked)
        BY <1>3, <3>3, <4>1, <4>2, <4>3
      <4> QED
        BY <1>5, <4>1, <4>4
    <3> QED
      BY <3>3, <3>4, <3>5, <3>6, <1>1
  <2> QED
    BY <2>1, <2>2
\* A note that answers it.
<1>7. ASSUME NEW k \in {"answer", "error", "attached", "closed"}
      PROVE  \E x \in SocketNoteType : x = Socket!Frame(k, r.n, r.about) /\ x.kind = k /\ x.n = r.n /\ x.about = r.about
  <2>1. k \in SocketNotes /\ r.n \in Nat /\ r.about \in Socket!Writers
    BY <1>6 DEF SocketNotes, SocketRequestType
  <2>2. PICK x : x = Socket!Frame(k, r.n, r.about)
    OBVIOUS
  <2>3. x = [kind |-> k, n |-> r.n, about |-> r.about]
    BY <2>2 DEF Socket!Frame
  <2>4. x \in SocketNoteType /\ x.kind = k /\ x.n = r.n /\ x.about = r.about
    BY <2>1, <2>3 DEF SocketNoteType
  <2> QED
    BY <2>2, <2>4
<1>8. ASSUME NEW x \in SocketNoteType, x.n = r.n
      PROVE  \A a \in Nat : (r.n = 0 => SocketRuns(<<x>>, a, a)) /\ (r.n = a + 1 => SocketRuns(<<x>>, a, a + 1))
  BY <1>8, SocketNumbered0, SocketRunsOne
<1>9. CASE Socket!Attach(r)
  <2>1. PICK x \in SocketNoteType : x = Socket!Frame("attached", r.n, r.about) /\ x.kind = "attached" /\ x.n = r.n /\ x.about = r.about
    BY <1>7
  <2>2. PICK m : m = <<x>>
    OBVIOUS
  <2>3. m \in Seq(SocketNoteType) /\ Len(m) = 1 /\ m[1] = x
    BY <2>1, <2>2
  <2>4. /\ queue' = [queue EXCEPT ![Loop] = m] /\ forwarder' = forwarder
        /\ record' = [record EXCEPT ![r.about] = "attached"] /\ r.kind = "attach"
    BY <1>9, <2>1, <2>2 DEF Socket!Attach
  <2>5. \A i \in 1..Len(m) : m[i].kind # "data"
    BY <2>1, <2>3
  <2>6. record' \in [Streams -> {"free", "attached", "closed"}]
    BY <1>1, <2>4
  <2>7. \A s \in Streams : record'[s] = "attached" /\ forwarder[s] = "none" =>
          \E i \in 1..Len(m) : m[i].kind = "attached" /\ m[i].about = s
    <3>1. \A s \in Streams : s # r.about => record'[s] = record[s]
      BY <1>1, <2>4
    <3>2. 1 \in 1..Len(m)
      BY <2>3
    <3> QED
      BY <1>3, <2>1, <2>3, <3>1, <3>2
  <2>8. \A a \in Nat : (r.n = 0 => SocketRuns(m, a, a)) /\ (r.n = a + 1 => SocketRuns(m, a, a + 1))
    BY <1>8, <2>1, <2>2
  <2>9. r.kind = "hello" => record' = record
    BY <2>4
  <2>10. forwarder' = forwarder
    BY <2>4
  <2>11. queue' = [queue EXCEPT ![Loop] = m]
    BY <2>4
  <2>12. m \in Seq(SocketNoteType)
    BY <2>3
  <2> QED
    BY <1>3, <1>6, <2>5, <2>6, <2>7, <2>8, <2>9, <2>10, <2>11, <2>12, SocketLoopAnswers
<1>10. CASE Socket!Close(r)
  <2>1. PICK x \in SocketNoteType : x = Socket!Frame("closed", r.n, r.about) /\ x.kind = "closed" /\ x.n = r.n /\ x.about = r.about
    BY <1>7
  <2>2. PICK m : m = <<x>>
    OBVIOUS
  <2>3. m \in Seq(SocketNoteType) /\ Len(m) = 1 /\ m[1] = x
    BY <2>1, <2>2
  <2>4. /\ queue' = [queue EXCEPT ![Loop] = m] /\ forwarder' = forwarder
        /\ record' = [record EXCEPT ![r.about] = "closed"] /\ r.kind = "close"
    BY <1>10, <2>1, <2>2 DEF Socket!Close
  <2>5. \A i \in 1..Len(m) : m[i].kind # "data"
    BY <2>1, <2>3
  <2>6. record' \in [Streams -> {"free", "attached", "closed"}]
    BY <1>1, <2>4
  <2>7. \A s \in Streams : record'[s] = "attached" /\ forwarder[s] = "none" =>
          \E i \in 1..Len(m) : m[i].kind = "attached" /\ m[i].about = s
    <3>1. \A s \in Streams : record'[s] = "attached" => record[s] = "attached"
      BY <1>1, <2>4
    <3> QED
      BY <1>3, <3>1
  <2>8. \A a \in Nat : (r.n = 0 => SocketRuns(m, a, a)) /\ (r.n = a + 1 => SocketRuns(m, a, a + 1))
    BY <1>8, <2>1, <2>2
  <2>9. r.kind = "hello" => record' = record
    BY <2>4
  <2>10. forwarder' = forwarder
    BY <2>4
  <2>11. queue' = [queue EXCEPT ![Loop] = m]
    BY <2>4
  <2>12. m \in Seq(SocketNoteType)
    BY <2>3
  <2> QED
    BY <1>3, <1>6, <2>5, <2>6, <2>7, <2>8, <2>9, <2>10, <2>11, <2>12, SocketLoopAnswers
<1>11. CASE Socket!Answer(r)
  <2>1. PICK k \in {"answer", "error"} : k = (IF r.kind = "call" THEN "answer" ELSE "error")
    OBVIOUS
  <2>2. PICK x \in SocketNoteType : x = Socket!Frame(k, r.n, r.about) /\ x.kind = k /\ x.n = r.n /\ x.about = r.about
    BY <1>7
  <2>3. PICK e : e = Socket!Frame("event", 0, Loop)
    OBVIOUS
  <2>4. e \in SocketNoteType /\ e.n = 0 /\ e.kind = "event"
    BY <2>3, SocketNumbers DEF Socket!Frame, SocketNoteType, SocketNotes
  <2>5. PICK m : /\ queue' = [queue EXCEPT ![Loop] = m] /\ (m = <<x>> \/ m = Append(<<x>>, e))
    <3>1. PICK news \in {<< >>} \cup (IF r.kind = "call" THEN {<<e>>} ELSE {}) :
            queue' = [queue EXCEPT ![Loop] = <<x>> \o news]
      BY <1>11, <2>1, <2>2, <2>3 DEF Socket!Answer
    <3>2. <<x>> \o << >> = <<x>> /\ <<x>> \o <<e>> = Append(<<x>>, e)
      OBVIOUS
    <3> QED
      BY <3>1, <3>2
  <2>6. <<x>> \in Seq(SocketNoteType) /\ Len(<<x>>) = 1 /\ <<x>>[1] = x
    BY <2>2
  <2>7. m \in Seq(SocketNoteType) /\ \A i \in 1..Len(m) : m[i] = x \/ m[i] = e
    <3>1. CASE m = <<x>>
      BY <2>6, <3>1
    <3>2. CASE m = Append(<<x>>, e)
      BY <2>4, <2>6, <3>2, SocketLastOf
    <3> QED
      BY <2>5, <3>1, <3>2
  <2>8. \A i \in 1..Len(m) : m[i].kind # "data"
    BY <2>1, <2>2, <2>4, <2>7
  <2>9. \A a \in Nat : (r.n = 0 => SocketRuns(m, a, a)) /\ (r.n = a + 1 => SocketRuns(m, a, a + 1))
    <3>1. \A a \in Nat : (r.n = 0 => SocketRuns(<<x>>, a, a)) /\ (r.n = a + 1 => SocketRuns(<<x>>, a, a + 1))
      BY <1>8, <2>2
    <3>2. ASSUME NEW a \in Nat, NEW b \in Nat, SocketRuns(<<x>>, a, b) PROVE SocketRuns(m, a, b)
      BY <2>4, <2>5, <2>6, <3>2, SocketNumbered0, SocketRunsAppend
    <3>3. \A a \in Nat : a + 1 \in Nat
      OBVIOUS
    <3> QED
      BY <3>1, <3>2, <3>3
  <2>10. record' = record /\ forwarder' = forwarder
    BY <1>11 DEF Socket!Answer
  <2>11. \A s \in Streams : record'[s] = "attached" /\ forwarder[s] = "none" =>
          \E i \in 1..Len(m) : m[i].kind = "attached" /\ m[i].about = s
    BY <1>3, <2>10
  <2>12. record' \in [Streams -> {"free", "attached", "closed"}]
    BY <1>1, <2>10
  <2> QED
    BY <1>3, <1>6, <2>5, <2>7, <2>8, <2>9, <2>10, <2>11, <2>12, SocketLoopAnswers
<1> QED
  BY <1>3, <1>9, <1>10, <1>11

-----------------------------------------------------------------------------

LEMMA SocketForwarderStarts == ASSUME SocketInv, NEW s \in Streams, Socket!StartForwarder(s) PROVE SocketInv'
<1>1. /\ SocketTypes /\ SocketBeginning /\ SocketNumbered /\ SocketAnswered /\ SocketAttached /\ SocketEnded
      /\ forwarder \in [Streams -> {"none", "reading", "failed", "ended"}]
  BY DEF SocketInv, SocketTypes
<1>2. /\ session \in {"plain", "sealed"} /\ queue[Loop] = << >> /\ \A f \in held : f.by # Loop
      /\ record[s] = "attached" /\ forwarder[s] = "none"
      /\ forwarder' = [forwarder EXCEPT ![s] = "reading"]
      /\ UNCHANGED <<mode, session, browser, hidden, asked, toServer, pending, queue, held, writeSeq,
                     toBrowser, readSeq, got, published, record, lost>>
  BY DEF Socket!StartForwarder, Socket!LoopIdle, Socket!Serving
<1>3. /\ forwarder' \in [Streams -> {"none", "reading", "failed", "ended"}] /\ forwarder'[s] = "reading"
      /\ \A t \in Streams : t # s => forwarder'[t] = forwarder[t]
  BY <1>1, <1>2
<1>4. SocketTypes'
  BY <1>1, <1>2, <1>3 DEF SocketTypes
<1>5. SocketBeginning'
  <2>1. browser \notin {"hello", "deriving"}
    BY <1>1, <1>2 DEF SocketBeginning
  <2> QED
    BY <1>1, <1>2, <2>1 DEF SocketBeginning, SocketAsks
<1>6. SocketNumbered'
  BY <1>1, <1>2 DEF SocketNumbered, SocketGreetings
<1>7. SocketAnswered'
  BY <1>1, <1>2 DEF SocketAnswered, SocketChain
<1>8. \A kind, t : SocketPassed(kind, t)' = SocketPassed(kind, t)
  BY <1>2 DEF SocketPassed
<1>9. \A kind, t, w : SocketWritten(kind, t, w)' = SocketWritten(kind, t, w)
  BY <1>2, <1>8 DEF SocketWritten
<1>10. SocketAttached'
  <2>1. \A t : SocketForwarded(t) => t \in Streams /\ forwarder'[t] # "none"
    BY <1>3 DEF SocketForwarded
  <2>2. SocketTold'
    BY <1>1, <1>2 DEF SocketAttached, SocketTold
  <2>3. \A f \in held' : f.kind = "data" => f.about \in Streams /\ forwarder'[f.about] # "none" /\ f.by = f.about
    BY <1>1, <1>2, <2>1 DEF SocketAttached
  <2>4. \A w \in Socket!Writers : \A i \in 1..Len(queue'[w]) : queue'[w][i].kind = "data" =>
          queue'[w][i].about \in Streams /\ forwarder'[queue'[w][i].about] # "none" /\ queue'[w][i].about = w
    BY <1>1, <1>2, <2>1 DEF SocketAttached
  <2>5. ASSUME browser # "closed"
        PROVE  /\ SocketTelling'
               /\ \A t \in Streams : forwarder'[t] # "none" => SocketPassed("attached", t)'
               /\ \A t \in Streams : record'[t] = "attached" /\ forwarder'[t] = "none" => SocketWritten("attached", t, Loop)'
    <3>1. SocketTelling /\ (\A t \in Streams : forwarder[t] # "none" => SocketPassed("attached", t))
          /\ \A t \in Streams : record[t] = "attached" /\ forwarder[t] = "none" => SocketWritten("attached", t, Loop)
      BY <1>1, <2>5 DEF SocketAttached
    <3>2. SocketTelling'
      <4>1. \A i \in 1..Len(toBrowser) : toBrowser[i].kind = "data" =>
              toBrowser[i].about \in Streams /\ forwarder'[toBrowser[i].about] # "none"
        BY <2>1, <3>1 DEF SocketTelling
      <4> QED
        BY <1>2, <3>1, <4>1 DEF SocketTelling, SocketForwarded
    <3>3. SocketPassed("attached", s)
      <4>1. SocketWritten("attached", s, Loop)
        BY <1>2, <3>1
      <4>2. ~(\E i \in 1..Len(queue[Loop]) : queue[Loop][i].kind = "attached" /\ queue[Loop][i].about = s)
        BY <1>2
      <4> QED
        BY <1>2, <4>1, <4>2 DEF SocketWritten
    <3>4. \A t \in Streams : forwarder'[t] # "none" => SocketPassed("attached", t)
      BY <1>3, <3>1, <3>3
    <3>5. \A t \in Streams : record'[t] = "attached" /\ forwarder'[t] = "none" => SocketWritten("attached", t, Loop)
      BY <1>2, <1>3, <3>1
    <3> QED
      BY <1>8, <1>9, <3>2, <3>4, <3>5
  <2>6. browser' = browser
    BY <1>2
  <2> QED
    BY <2>2, <2>3, <2>4, <2>5, <2>6 DEF SocketAttached, SocketForwarded
<1>11. SocketEnded'
  BY <1>1, <1>2, <1>3, <1>9 DEF SocketEnded
<1> QED
  BY <1>4, <1>5, <1>6, <1>7, <1>10, <1>11 DEF SocketInv

\* A goroutine other than the loop's has more to write.
LEMMA SocketGoroutineQueues ==
  ASSUME SocketInv, session \in {"plain", "sealed"}, NEW w \in Socket!Writers, w # Loop,
         NEW m \in Seq(SocketNoteType), queue' = [queue EXCEPT ![w] = m], w = Events => Len(m) <= MaxQueued,
         \A i \in 1..Len(m) : m[i].n = 0,
         \A i \in 1..Len(m) : m[i].kind = "data" => m[i].about = w /\ w \in Streams /\ forwarder[w] # "none",
         \A i \in 1..Len(queue[w]) : \E j \in 1..Len(m) : m[j] = queue[w][i],
         record' \in [Streams -> {"free", "attached", "closed"}],
         forwarder' \in [Streams -> {"none", "reading", "failed", "ended"}],
         \A t \in Streams : forwarder'[t] = "none" <=> forwarder[t] = "none",
         \A t \in Streams : record'[t] = "attached" => record[t] = "attached",
         \A t \in Streams : forwarder'[t] = "ended" =>
           \/ forwarder[t] = "ended"
           \/ t = w /\ \E i \in 1..Len(m) : m[i].kind = "closed" /\ m[i].about = t,
         browser \in {"hello", "deriving"} => record' = record, published' \in 0..MaxEvents,
         UNCHANGED <<mode, session, browser, hidden, asked, toServer, pending, held, writeSeq,
                     toBrowser, readSeq, got, lost>>
  PROVE  SocketInv'
<1>1. SocketTypes /\ SocketBeginning /\ SocketNumbered /\ SocketAnswered /\ SocketAttached /\ SocketEnded
  BY DEF SocketInv
<1>2. /\ queue' \in [Socket!Writers -> Seq(SocketNoteType)] /\ Len(queue'[Events]) <= MaxQueued
      /\ queue'[w] = m /\ \A v \in Socket!Writers : v # w => queue'[v] = queue[v]
  BY <1>1, SocketQueueOf
<1>3. SocketTypes'
  BY <1>1, <1>2 DEF SocketTypes
<1>4. SocketBeginning'
  BY <1>1 DEF SocketBeginning, SocketAsks
<1>5. SocketNumbered'
  BY <1>1 DEF SocketNumbered, SocketGreetings
<1>6. SocketAnswered'
  <2>1. queue'[Loop] = queue[Loop]
    BY <1>2, SocketNumbers
  <2> QED
    BY <1>1, <1>2, <2>1 DEF SocketAnswered, SocketChain
<1>7. \A kind, t : SocketPassed(kind, t)' = SocketPassed(kind, t)
  BY DEF SocketPassed
<1>8. \A kind, t : \A v \in Socket!Writers : SocketWritten(kind, t, v) => SocketWritten(kind, t, v)'
  <2>1. ASSUME NEW kind, NEW t, NEW v \in Socket!Writers, SocketWritten(kind, t, v) PROVE SocketWritten(kind, t, v)'
    <3>1. CASE v = w
      <4>1. \A i \in 1..Len(queue[w]) : \E j \in 1..Len(queue'[w]) : queue'[w][j] = queue[w][i]
        BY <1>2
      <4> QED
        BY <1>7, <2>1, <3>1, <4>1 DEF SocketWritten
    <3>2. CASE v # w
      BY <1>2, <1>7, <2>1, <3>2 DEF SocketWritten
    <3> QED
      BY <3>1, <3>2
  <2> QED
    BY <2>1
<1>9. SocketAttached'
  <2>1. \A t : SocketForwarded(t) <=> t \in Streams /\ forwarder'[t] # "none"
    BY DEF SocketForwarded
  <2>2. SocketTold'
    BY <1>1 DEF SocketAttached, SocketTold
  <2>3. \A f \in held' : f.kind = "data" => f.about \in Streams /\ forwarder'[f.about] # "none" /\ f.by = f.about
    BY <1>1, <2>1 DEF SocketAttached
  <2>4. \A v \in Socket!Writers : \A i \in 1..Len(queue'[v]) : queue'[v][i].kind = "data" =>
          queue'[v][i].about \in Streams /\ forwarder'[queue'[v][i].about] # "none" /\ queue'[v][i].about = v
    <3>1. ASSUME NEW v \in Socket!Writers, NEW i \in 1..Len(queue'[v]), queue'[v][i].kind = "data"
          PROVE  queue'[v][i].about \in Streams /\ forwarder'[queue'[v][i].about] # "none" /\ queue'[v][i].about = v
      <4>1. CASE v = w
        BY <1>2, <3>1, <4>1
      <4>2. CASE v # w
        BY <1>1, <1>2, <2>1, <3>1, <4>2 DEF SocketAttached
      <4> QED
        BY <4>1, <4>2
    <3> QED
      BY <3>1
  <2>5. SocketTelling => SocketTelling'
    BY <2>1 DEF SocketTelling, SocketForwarded
  <2>6. browser # "closed" => \A t \in Streams : forwarder'[t] # "none" => SocketPassed("attached", t)'
    BY <1>1, <1>7 DEF SocketAttached
  <2>7. browser # "closed" =>
          \A t \in Streams : record'[t] = "attached" /\ forwarder'[t] = "none" => SocketWritten("attached", t, Loop)'
    BY <1>1, <1>8, SocketNumbers DEF SocketAttached
  <2> QED
    BY <1>1, <2>2, <2>3, <2>4, <2>5, <2>6, <2>7 DEF SocketAttached, SocketForwarded
<1>10. SocketEnded'
  <2>1. ASSUME browser # "closed", ~lost, NEW t \in Streams, forwarder'[t] = "ended" PROVE SocketWritten("closed", t, t)'
    <3>1. t \in Socket!Writers
      BY SocketNumbers
    <3>2. CASE forwarder[t] = "ended"
      BY <1>1, <1>8, <2>1, <3>1, <3>2 DEF SocketEnded
    <3>3. CASE t = w /\ \E i \in 1..Len(m) : m[i].kind = "closed" /\ m[i].about = t
      BY <1>2, <3>3 DEF SocketWritten
    <3> QED
      BY <2>1, <3>2, <3>3
  <2> QED
    BY <2>1 DEF SocketEnded
<1> QED
  BY <1>3, <1>4, <1>5, <1>6, <1>9, <1>10 DEF SocketInv

LEMMA SocketEventPublished == ASSUME SocketInv, Socket!Publish PROVE SocketInv'
<1>1. SocketTypes
  BY DEF SocketInv
<1>2. PICK e : e = Socket!Frame("event", 0, Events)
  OBVIOUS
<1>3. e \in SocketNoteType /\ e.kind = "event" /\ e.n = 0
  BY <1>2, SocketNumbers DEF Socket!Frame, SocketNoteType, SocketNotes
<1>4. PICK s : s = queue[Events]
  OBVIOUS
<1>5. s \in Seq(SocketNoteType) /\ Len(s) <= MaxQueued /\ Len(s) \in Nat
  BY <1>1, <1>4, SocketNumbers, LenProperties DEF SocketTypes
<1>6. PICK m : /\ queue' = [queue EXCEPT ![Events] = m]
               /\ (Len(s) < MaxQueued /\ m = Append(s, e)) \/ m = s
  <2>1. CASE Len(s) < MaxQueued
    BY <1>2, <1>4, <2>1 DEF Socket!Publish
  <2>2. CASE ~(Len(s) < MaxQueued)
    <3>1. queue = [queue EXCEPT ![Events] = s]
      BY <1>1, <1>4 DEF SocketTypes
    <3> QED
      BY <1>4, <2>2, <3>1 DEF Socket!Publish
  <2> QED
    BY <2>1, <2>2
<1>7. /\ m \in Seq(SocketNoteType) /\ Len(m) <= MaxQueued
      /\ \A i \in 1..Len(m) : m[i] = e \/ \E j \in 1..Len(s) : m[i] = s[j]
      /\ \A i \in 1..Len(s) : \E j \in 1..Len(m) : m[j] = s[i]
  <2>1. CASE Len(s) < MaxQueued /\ m = Append(s, e)
    <3>1. /\ Append(s, e) \in Seq(SocketNoteType) /\ Len(Append(s, e)) = Len(s) + 1 /\ Append(s, e)[Len(s) + 1] = e
          /\ \A i \in 1..Len(s) : Append(s, e)[i] = s[i] /\ i \in 1..Len(Append(s, e))
          /\ \A i \in 1..Len(Append(s, e)) : i \in 1..Len(s) \/ i = Len(s) + 1
      BY <1>3, <1>5, SocketLastOf
    <3>2. Len(m) <= MaxQueued
      BY <1>5, <2>1, <3>1, SocketNumbers
    <3> QED
      BY <2>1, <3>1, <3>2
  <2>2. CASE m = s
    BY <1>5, <2>2
  <2> QED
    BY <1>6, <2>1, <2>2
<1>8. \A j \in 1..Len(s) : s[j].n = 0 /\ s[j].kind # "data"
  <2>1. SocketAnswered /\ SocketAttached
    BY DEF SocketInv
  <2>2. \A j \in 1..Len(s) : s[j].n = 0
    BY <1>4, <2>1, SocketNumbers DEF SocketAnswered
  <2>3. \A j \in 1..Len(s) : s[j].kind = "data" => SocketForwarded(s[j].about) /\ s[j].about = Events
    BY <1>4, <2>1, SocketNumbers DEF SocketAttached
  <2> QED
    BY <2>2, <2>3, SocketNumbers DEF SocketForwarded
<1>9. \A i \in 1..Len(m) : m[i].n = 0 /\ m[i].kind # "data"
  <2>. SUFFICES ASSUME NEW i \in 1..Len(m) PROVE m[i].n = 0 /\ m[i].kind # "data"
    OBVIOUS
  <2>1. CASE m[i] = e
    BY <1>3, <2>1
  <2>2. ASSUME NEW j \in 1..Len(s), m[i] = s[j] PROVE m[i].n = 0 /\ m[i].kind # "data"
    BY <1>8, <2>2
  <2> QED
    BY <1>7, <2>1, <2>2
<1>10. /\ session \in {"plain", "sealed"} /\ published' \in 0..MaxEvents
       /\ UNCHANGED <<mode, session, browser, hidden, asked, toServer, pending, held, writeSeq,
                      toBrowser, readSeq, got, record, forwarder, lost>>
  BY <1>1, SocketNumbers DEF Socket!Publish, Socket!Serving, SocketTypes
<1>11. \A i \in 1..Len(queue[Events]) : \E j \in 1..Len(m) : m[j] = queue[Events][i]
  BY <1>4, <1>7
<1>12. /\ record' \in [Streams -> {"free", "attached", "closed"}]
       /\ forwarder' \in [Streams -> {"none", "reading", "failed", "ended"}]
  BY <1>1, <1>10 DEF SocketTypes
<1>13. /\ UNCHANGED <<mode, session, browser, hidden, asked, toServer, pending, held, writeSeq,
                      toBrowser, readSeq, got, lost>>
       /\ \A t \in Streams : forwarder'[t] = "none" <=> forwarder[t] = "none"
       /\ \A t \in Streams : record'[t] = "attached" => record[t] = "attached"
       /\ \A t \in Streams : forwarder'[t] = "ended" => forwarder[t] = "ended"
       /\ record' = record
  BY <1>10
<1> QED
  BY <1>6, <1>7, <1>9, <1>10, <1>11, <1>12, <1>13, SocketNumbers, SocketGoroutineQueues

LEMMA SocketBytesArrive == ASSUME SocketInv, NEW s \in Streams, Socket!Arrives(s) PROVE SocketInv'
<1>1. SocketTypes
  BY DEF SocketInv
<1>2. PICK e : e = Socket!Frame("data", 0, s)
  OBVIOUS
<1>3. e \in SocketNoteType /\ e.kind = "data" /\ e.n = 0 /\ e.about = s
  BY <1>2, SocketNumbers DEF Socket!Frame, SocketNoteType, SocketNotes
<1>4. PICK m : m = <<e>>
  OBVIOUS
<1>5. m \in Seq(SocketNoteType) /\ Len(m) = 1 /\ m[1] = e
  BY <1>3, <1>4
<1>6. queue' = [queue EXCEPT ![s] = m]
  BY <1>2, <1>4 DEF Socket!Arrives
<1>7. session \in {"plain", "sealed"} /\ forwarder[s] = "reading" /\ queue[s] = << >> /\ published' = published
  BY DEF Socket!Arrives, Socket!Serving, Socket!Resting
<1>8. s \in Socket!Writers /\ s # Loop /\ s # Events
  BY SocketNumbers
<1>9. \A i \in 1..Len(m) : m[i].n = 0
  BY <1>3, <1>5
<1>10. \A i \in 1..Len(m) : m[i].kind = "data" => m[i].about = s /\ s \in Streams /\ forwarder[s] # "none"
  BY <1>3, <1>5, <1>7
<1>11. \A i \in 1..Len(queue[s]) : \E j \in 1..Len(m) : m[j] = queue[s][i]
  BY <1>7
<1>12. UNCHANGED <<mode, session, browser, hidden, asked, toServer, pending, held, writeSeq,
                   toBrowser, readSeq, got, lost>> /\ record' = record /\ forwarder' = forwarder
  BY DEF Socket!Arrives
<1>13. /\ record' \in [Streams -> {"free", "attached", "closed"}]
       /\ forwarder' \in [Streams -> {"none", "reading", "failed", "ended"}]
       /\ published' \in 0..MaxEvents
  BY <1>1, <1>7, <1>12 DEF SocketTypes
<1>14. /\ \A t \in Streams : forwarder'[t] = "none" <=> forwarder[t] = "none"
       /\ \A t \in Streams : record'[t] = "attached" => record[t] = "attached"
       /\ \A t \in Streams : forwarder'[t] = "ended" => forwarder[t] = "ended"
  BY <1>12
<1> QED
  BY <1>5, <1>6, <1>7, <1>8, <1>9, <1>10, <1>11, <1>12, <1>13, <1>14, SocketGoroutineQueues

LEMMA SocketForwardingEnds == ASSUME SocketInv, NEW s \in Streams, Socket!ForwarderEnds(s) PROVE SocketInv'
<1>1. SocketTypes /\ SocketBeginning
  BY DEF SocketInv
<1>2. PICK e : e = Socket!Frame("closed", 0, s)
  OBVIOUS
<1>3. e \in SocketNoteType /\ e.kind = "closed" /\ e.n = 0 /\ e.about = s
  BY <1>2, SocketNumbers DEF Socket!Frame, SocketNoteType, SocketNotes
<1>4. PICK m : m = <<e>>
  OBVIOUS
<1>5. m \in Seq(SocketNoteType) /\ Len(m) = 1 /\ m[1] = e
  BY <1>3, <1>4
<1>6. queue' = [queue EXCEPT ![s] = m]
  BY <1>2, <1>4 DEF Socket!ForwarderEnds
<1>7. /\ session \in {"plain", "sealed"} /\ forwarder[s] # "none" /\ queue[s] = << >>
      /\ published' = published
  BY DEF Socket!ForwarderEnds, Socket!Serving, Socket!Resting
<1>8. s \in Socket!Writers /\ s # Loop /\ s # Events
  BY SocketNumbers
<1>9. \A i \in 1..Len(m) : m[i].n = 0
  BY <1>3, <1>5
<1>10. \A i \in 1..Len(m) : m[i].kind = "data" => m[i].about = s /\ s \in Streams /\ forwarder[s] # "none"
  BY <1>3, <1>5, <1>7
<1>11. \A i \in 1..Len(queue[s]) : \E j \in 1..Len(m) : m[j] = queue[s][i]
  BY <1>7
<1>12. UNCHANGED <<mode, session, browser, hidden, asked, toServer, pending, held, writeSeq,
                   toBrowser, readSeq, got, lost>>
  BY DEF Socket!ForwarderEnds
<1>13. /\ record' = [record EXCEPT ![s] = "closed"] /\ forwarder' = [forwarder EXCEPT ![s] = "ended"]
       /\ record \in [Streams -> {"free", "attached", "closed"}]
       /\ forwarder \in [Streams -> {"none", "reading", "failed", "ended"}]
  BY <1>1 DEF Socket!ForwarderEnds, SocketTypes
<1>14. /\ record' \in [Streams -> {"free", "attached", "closed"}]
       /\ forwarder' \in [Streams -> {"none", "reading", "failed", "ended"}]
       /\ \A t \in Streams : forwarder'[t] = "none" <=> forwarder[t] = "none"
       /\ \A t \in Streams : record'[t] = "attached" => record[t] = "attached"
       /\ \A t \in Streams : forwarder'[t] = "ended" => forwarder[t] = "ended" \/ t = s
  BY <1>7, <1>13
<1>15. \A t \in Streams : forwarder'[t] = "ended" =>
         forwarder[t] = "ended" \/ (t = s /\ \E i \in 1..Len(m) : m[i].kind = "closed" /\ m[i].about = t)
  BY <1>3, <1>5, <1>14
<1>16. browser \in {"hello", "deriving"} => record' = record
  BY <1>1, <1>7 DEF SocketBeginning
<1>17. published' \in 0..MaxEvents
  BY <1>1, <1>7 DEF SocketTypes
<1> QED
  <2>1. session \in {"plain", "sealed"}
    BY <1>7
  <2>2. m \in Seq(SocketNoteType) /\ s \in Socket!Writers /\ s # Loop /\ (s = Events => Len(m) <= MaxQueued)
    BY <1>5, <1>8
  <2>3. /\ record' \in [Streams -> {"free", "attached", "closed"}]
        /\ forwarder' \in [Streams -> {"none", "reading", "failed", "ended"}]
    BY <1>14
  <2>4. \A t \in Streams : forwarder'[t] = "none" <=> forwarder[t] = "none"
    BY <1>14
  <2>5. \A t \in Streams : record'[t] = "attached" => record[t] = "attached"
    BY <1>14
  <2>6. \A t \in Streams : forwarder'[t] = "ended" =>
         \/ forwarder[t] = "ended"
         \/ t = s /\ \E i \in 1..Len(m) : m[i].kind = "closed" /\ m[i].about = t
    BY <1>15
  <2> QED
    BY <1>6, <1>9, <1>10, <1>11, <1>12, <1>16, <1>17, <2>1, <2>2, <2>3, <2>4, <2>5, <2>6,
       SocketGoroutineQueues, ZenonT(90)

-----------------------------------------------------------------------------

LEMMA SocketFrameNumbered == ASSUME SocketInv, NEW w \in Socket!Writers, Socket!Number(w) PROVE SocketInv'
<1>1. /\ SocketTypes /\ SocketBeginning /\ SocketNumbered /\ SocketAnswered /\ SocketAttached /\ SocketEnded /\ writeSeq \in Nat
      /\ readSeq \in Nat /\ queue \in [Socket!Writers -> Seq(SocketNoteType)]
  BY DEF SocketInv, SocketTypes
<1>2. PICK s : s = queue[w]
  OBVIOUS
<1>3. PICK x : x = Head(s)
  OBVIOUS
<1>4. s \in Seq(SocketNoteType) /\ s # << >> /\ Len(s) \in Nat
  BY <1>1, <1>2, LenProperties DEF Socket!Number
<1>5. /\ x \in SocketNoteType /\ Tail(s) \in Seq(SocketNoteType) /\ Len(Tail(s)) = Len(s) - 1
      /\ 1 \in 1..Len(s) /\ s[1] = x
      /\ \A i \in 1..Len(Tail(s)) : i + 1 \in 1..Len(s) /\ Tail(s)[i] = s[i + 1] /\ 1 < i + 1
      /\ \A i \in 1..Len(s) : i = 1 \/ (i - 1 \in 1..Len(Tail(s)) /\ s[i] = Tail(s)[i - 1] /\ 1 < i)
  BY <1>3, <1>4, SocketHeadOf
<1>6. PICK y : y = [kind |-> x.kind, n |-> x.n, about |-> x.about, seq |-> writeSeq, by |-> w]
  OBVIOUS
<1>7. /\ y \in SocketHeldType /\ y.kind = x.kind /\ y.n = x.n /\ y.about = x.about /\ y.seq = writeSeq /\ y.by = w
  BY <1>1, <1>5, <1>6 DEF SocketNoteType, SocketHeldType
<1>8. /\ session \in {"plain", "sealed"} /\ held = {} /\ held' = {y} /\ writeSeq' = writeSeq + 1
      /\ queue' = [queue EXCEPT ![w] = Tail(s)]
      /\ UNCHANGED <<mode, session, browser, hidden, asked, toServer, pending, toBrowser, readSeq,
                     got, published, record, forwarder, lost>>
  BY <1>2, <1>3, <1>6 DEF Socket!Number, Socket!Serving
<1>9. /\ queue' \in [Socket!Writers -> Seq(SocketNoteType)] /\ Len(queue'[Events]) <= MaxQueued
      /\ queue'[w] = Tail(s) /\ \A v \in Socket!Writers : v # w => queue'[v] = queue[v]
  <2>1. w = Events => Len(Tail(s)) <= MaxQueued
    <3>1. PICK k : k = Len(s)
      OBVIOUS
    <3>2. w = Events => k <= MaxQueued
      BY <1>1, <1>2, <3>1 DEF SocketTypes
    <3>3. k \in Nat /\ Len(Tail(s)) = k - 1
      BY <1>4, <1>5, <3>1
    <3> QED
      BY <3>2, <3>3, SocketNumbers
  <2> QED
    BY <1>1, <1>5, <1>8, <2>1, SocketQueueOf
<1>10. SocketTypes'
  <2>1. /\ held' \subseteq SocketHeldType /\ (\A f, g \in held' : f = g) /\ \A f \in held' : f.seq < writeSeq'
    BY <1>1, <1>7, <1>8
  <2>2. writeSeq' \in Nat
    BY <1>1, <1>8
  <2> QED
    BY <1>1, <1>8, <1>9, <2>1, <2>2 DEF SocketTypes
<1>11. SocketBeginning'
  BY <1>1, <1>8 DEF SocketBeginning, SocketAsks
<1>12. SocketNumbered'
  <2>1. SocketGreetings \in Nat /\ SocketGreetings' = SocketGreetings
    BY <1>8 DEF SocketGreetings
  <2>2. ASSUME browser # "closed", hidden, session = "sealed", ~lost
        PROVE  /\ \A f \in held' : f.seq + SocketGreetings = readSeq + Len(toBrowser) /\ writeSeq' = f.seq + 1
               /\ held' # {}
    <3>1. writeSeq + SocketGreetings = readSeq + Len(toBrowser)
      BY <1>1, <1>8, <2>2 DEF SocketNumbered
    <3> QED
      BY <1>7, <1>8, <3>1
  <2>3. ASSUME browser # "closed", hidden, session = "sealed", ~lost
        PROVE  /\ browser = "hello" => toBrowser # <<>> /\ Head(toBrowser).kind = "hello" /\ readSeq = 0
               /\ \A i \in 1..Len(toBrowser) : i > SocketGreetings =>
                    toBrowser[i].kind # "hello" /\ toBrowser[i].seq + SocketGreetings + 1 = readSeq + i
    BY <1>1, <2>3 DEF SocketNumbered
  <2>4. /\ browser' = browser /\ hidden' = hidden /\ session' = session /\ lost' = lost
        /\ toBrowser' = toBrowser /\ readSeq' = readSeq
    BY <1>8
  <2> QED
    BY <2>1, <2>2, <2>3, <2>4 DEF SocketNumbered
<1>13. SocketAnswered'
  <2>1. w # Loop => x.n = 0
    BY <1>1, <1>2, <1>5 DEF SocketAnswered
  <2>2. \A v \in Socket!Writers : v # Loop => \A i \in 1..Len(queue'[v]) : queue'[v][i].n = 0
    <3>1. ASSUME NEW v \in Socket!Writers, v # Loop, NEW i \in 1..Len(queue'[v]) PROVE queue'[v][i].n = 0
      <4>1. CASE v = w
        <5>1. queue'[v] = Tail(s) /\ w = v
          BY <1>9, <4>1
        <5>2. i + 1 \in 1..Len(queue[w]) /\ queue'[v][i] = queue[w][i + 1]
          BY <1>2, <1>5, <3>1, <5>1
        <5> QED
          BY <1>1, <3>1, <5>1, <5>2 DEF SocketAnswered
      <4>2. CASE v # w
        BY <1>1, <1>9, <3>1, <4>2 DEF SocketAnswered
      <4> QED
        BY <4>1, <4>2
    <3> QED
      BY <3>1
  <2>3. \A f \in held' : f.by # Loop => f.n = 0
    BY <1>7, <1>8, <2>1
  <2>4. ASSUME SocketChain PROVE SocketChain'
    <3>1. PICK g, t, h, q, p \in Nat :
            /\ SocketRuns(got, 0, g) /\ SocketRuns(toBrowser, g, t) /\ SocketHanded(held, t, h) /\ SocketRuns(queue[Loop], h, q)
            /\ SocketRuns(pending, q, p) /\ SocketRuns(toServer, p, asked)
      BY <2>4 DEF SocketChain
    <3>2. h = t
      BY <1>8, <3>1 DEF SocketHanded
    <3>3. x.n \in Nat
      BY <1>5, SocketNumbered0
    <3>4. CASE x.n = 0
      <4>1. SocketHanded(held', t, t)
        BY <1>7, <1>8, <3>4 DEF SocketHanded
      <4>2. SocketRuns(queue'[Loop], t, q)
        <5>1. CASE w = Loop
          BY <1>2, <1>3, <1>4, <1>9, <3>1, <3>2, <3>4, <5>1, SocketNumbered0, SocketRunsTail
        <5>2. CASE w # Loop
          BY <1>9, <3>1, <3>2, <5>2, SocketNumbers
        <5> QED
          BY <5>1, <5>2
      <4> QED
        BY <1>8, <3>1, <4>1, <4>2 DEF SocketChain
    <3>5. CASE x.n > 0
      <4>1. w = Loop
        BY <2>1, <3>5
      <4>2. x.n = h + 1 /\ SocketRuns(queue'[Loop], h + 1, q)
        <5>1. SocketRuns(s, h, q) /\ queue'[Loop] = Tail(s)
          BY <1>2, <1>9, <3>1, <4>1
        <5> QED
          BY <1>3, <1>4, <3>1, <3>5, <5>1, SocketNumbered0, SocketRunsTail
      <4>3. SocketHanded(held', t, h + 1) /\ h + 1 \in Nat
        BY <1>7, <1>8, <3>2, <4>2 DEF SocketHanded
      <4> QED
        BY <1>8, <3>1, <4>2, <4>3 DEF SocketChain
    <3> QED
      BY <3>3, <3>4, <3>5
  <2> QED
    BY <1>1, <1>8, <2>2, <2>3, <2>4 DEF SocketAnswered
<1>14. \A kind, t : SocketPassed(kind, t)' = SocketPassed(kind, t)
  BY <1>8 DEF SocketPassed
<1>15. \A kind, t : \A v \in Socket!Writers : SocketWritten(kind, t, v) => SocketWritten(kind, t, v)'
  <2>1. ASSUME NEW kind, NEW t, NEW v \in Socket!Writers, SocketWritten(kind, t, v) PROVE SocketWritten(kind, t, v)'
    <3>1. CASE SocketPassed(kind, t)
      BY <1>14, <3>1 DEF SocketWritten
    <3>2. CASE \E f \in held : f.by = v /\ f.kind = kind /\ f.about = t
      BY <1>8, <3>2
    <3>3. ASSUME NEW i \in 1..Len(queue[v]), queue[v][i].kind = kind, queue[v][i].about = t PROVE SocketWritten(kind, t, v)'
      <4>1. CASE v # w
        BY <1>9, <3>3, <4>1 DEF SocketWritten
      <4>2. CASE v = w
        <5>1. CASE i = 1
          BY <1>2, <1>5, <1>7, <1>8, <3>3, <4>2, <5>1 DEF SocketWritten
        <5>2. CASE i - 1 \in 1..Len(Tail(s)) /\ s[i] = Tail(s)[i - 1]
          BY <1>2, <1>9, <3>3, <4>2, <5>2 DEF SocketWritten
        <5> QED
          BY <1>2, <1>5, <3>3, <4>2, <5>1, <5>2
      <4> QED
        BY <4>1, <4>2
    <3> QED
      BY <2>1, <3>1, <3>2, <3>3 DEF SocketWritten
  <2> QED
    BY <2>1
<1>16. SocketAttached'
  <2>1. \A t : SocketForwarded(t)' = SocketForwarded(t)
    BY <1>8 DEF SocketForwarded
  <2>2. x.kind = "data" => SocketForwarded(x.about) /\ x.about = w
    BY <1>1, <1>2, <1>5 DEF SocketAttached
  <2>3. \A f \in held' : f.kind = "data" => SocketForwarded(f.about) /\ f.by = f.about
    BY <1>7, <1>8, <2>2
  <2>4. \A v \in Socket!Writers : \A i \in 1..Len(queue'[v]) :
          queue'[v][i].kind = "data" => SocketForwarded(queue'[v][i].about) /\ queue'[v][i].about = v
    <3>1. ASSUME NEW v \in Socket!Writers, NEW i \in 1..Len(queue'[v]), queue'[v][i].kind = "data"
          PROVE  SocketForwarded(queue'[v][i].about) /\ queue'[v][i].about = v
      <4>1. CASE v = w
        <5>1. queue'[v] = Tail(s) /\ w = v
          BY <1>9, <4>1
        <5>2. i + 1 \in 1..Len(queue[w]) /\ queue'[v][i] = queue[w][i + 1]
          BY <1>2, <1>5, <3>1, <5>1
        <5> QED
          BY <1>1, <3>1, <5>1, <5>2 DEF SocketAttached
      <4>2. CASE v # w
        BY <1>1, <1>9, <3>1, <4>2 DEF SocketAttached
      <4> QED
        BY <4>1, <4>2
    <3> QED
      BY <3>1
  <2>5. \A f \in held' : f.kind = "data" => f.about \in Streams /\ forwarder'[f.about] # "none" /\ f.by = f.about
    BY <1>8, <2>3 DEF SocketForwarded
  <2>6. \A v \in Socket!Writers : \A i \in 1..Len(queue'[v]) : queue'[v][i].kind = "data" =>
          queue'[v][i].about \in Streams /\ forwarder'[queue'[v][i].about] # "none" /\ queue'[v][i].about = v
    BY <1>8, <2>4 DEF SocketForwarded
  <2>7. SocketTold' /\ (SocketTelling => SocketTelling')
    BY <1>1, <1>8 DEF SocketAttached, SocketTold, SocketTelling, SocketForwarded
  <2>8. browser' # "closed" => \A t \in Streams : forwarder'[t] # "none" => SocketPassed("attached", t)'
    BY <1>1, <1>8, <1>14 DEF SocketAttached
  <2>9. browser' # "closed" =>
          \A t \in Streams : record'[t] = "attached" /\ forwarder'[t] = "none" => SocketWritten("attached", t, Loop)'
    BY <1>1, <1>8, <1>15, SocketNumbers DEF SocketAttached
  <2>10. browser' # "closed" => SocketTelling'
    BY <1>1, <1>8, <2>7 DEF SocketAttached
  <2> QED
    BY <2>5, <2>6, <2>7, <2>8, <2>9, <2>10 DEF SocketAttached, SocketForwarded
<1>17. SocketEnded'
  <2>1. Streams \subseteq Socket!Writers
    BY SocketNumbers
  <2> QED
    BY <1>1, <1>8, <1>15, <2>1 DEF SocketEnded
<1> QED
  BY <1>10, <1>11, <1>12, <1>13, <1>16, <1>17 DEF SocketInv

LEMMA SocketFrameSent == ASSUME SocketInv, NEW f \in held, Socket!Send(f) PROVE SocketInv'
<1>1. /\ SocketTypes /\ SocketBeginning /\ SocketNumbered /\ SocketAnswered /\ SocketAttached /\ SocketEnded
      /\ toBrowser \in Seq(SocketSentType) /\ readSeq \in Nat /\ writeSeq \in Nat
  BY DEF SocketInv, SocketTypes
<1>2. f \in SocketHeldType /\ held = {f}
  BY <1>1 DEF SocketTypes
<1>3. /\ f.kind \in SocketNotes /\ f.n \in Nat /\ f.about \in Socket!Writers /\ f.seq \in Nat /\ f.by \in Socket!Writers
      /\ f.kind # "hello"
  BY <1>2 DEF SocketHeldType, SocketNotes
<1>4. PICK y : y = [kind |-> f.kind, n |-> f.n, about |-> f.about, seq |-> f.seq]
  OBVIOUS
<1>5. y \in SocketSentType /\ y.kind = f.kind /\ y.n = f.n /\ y.about = f.about /\ y.seq = f.seq
  BY <1>3, <1>4 DEF SocketSentType
<1>6. /\ held' = {} /\ toBrowser' = Append(toBrowser, y)
      /\ UNCHANGED <<mode, session, browser, hidden, asked, toServer, pending, queue, writeSeq,
                     readSeq, got, published, record, forwarder, lost>>
  BY <1>2, <1>4 DEF Socket!Send
<1>7. /\ toBrowser' \in Seq(SocketSentType) /\ Len(toBrowser) \in Nat /\ Len(toBrowser') = Len(toBrowser) + 1
      /\ toBrowser'[Len(toBrowser) + 1] = y /\ Len(toBrowser) + 1 \in 1..Len(toBrowser')
      /\ \A i \in 1..Len(toBrowser) : toBrowser'[i] = toBrowser[i] /\ i \in 1..Len(toBrowser') /\ i < Len(toBrowser) + 1
      /\ \A i \in 1..Len(toBrowser') : i \in 1..Len(toBrowser) \/ i = Len(toBrowser) + 1
  BY <1>1, <1>5, <1>6, SocketLastOf
<1>8. SocketTypes'
  BY <1>1, <1>6, <1>7 DEF SocketTypes
<1>9. SocketBeginning'
  <2>1. session # "new"
    BY <1>1, <1>2 DEF SocketBeginning
  <2> QED
    BY <1>1, <1>6, <2>1 DEF SocketBeginning, SocketAsks
<1>10. SocketNumbered'
  <2>1. SocketGreetings \in Nat /\ SocketGreetings' = SocketGreetings
    BY <1>6 DEF SocketGreetings
  <2>2. PICK G : G = SocketGreetings
    OBVIOUS
  <2>3. ASSUME browser # "closed", hidden, session = "sealed", ~lost
        PROVE  /\ browser = "hello" => toBrowser' # <<>> /\ Head(toBrowser').kind = "hello" /\ readSeq = 0
               /\ \A i \in 1..Len(toBrowser') : i > SocketGreetings =>
                    toBrowser'[i].kind # "hello" /\ toBrowser'[i].seq + SocketGreetings + 1 = readSeq + i
               /\ writeSeq + SocketGreetings = readSeq + Len(toBrowser')
    <3>1. /\ browser = "hello" => toBrowser # <<>> /\ Head(toBrowser).kind = "hello" /\ readSeq = 0
          /\ \A i \in 1..Len(toBrowser) : i > SocketGreetings =>
               toBrowser[i].kind # "hello" /\ toBrowser[i].seq + SocketGreetings + 1 = readSeq + i
          /\ f.seq + SocketGreetings = readSeq + Len(toBrowser) /\ writeSeq = f.seq + 1
      BY <1>1, <1>2, <2>3 DEF SocketNumbered
    <3>2. ASSUME browser = "hello" PROVE toBrowser' # <<>> /\ Head(toBrowser').kind = "hello"
      <4>1. 1 \in 1..Len(toBrowser) /\ toBrowser[1] = Head(toBrowser)
        BY <1>1, <3>1, <3>2, SocketHeadOf
      <4>2. toBrowser' # << >>
        BY <1>7, <4>1
      <4>3. Head(toBrowser') = toBrowser'[1]
        BY <1>7, <4>2, SocketHeadOf
      <4> QED
        BY <1>7, <3>1, <3>2, <4>1, <4>2, <4>3
    <3>3. ASSUME NEW i \in 1..Len(toBrowser'), i > G
          PROVE  toBrowser'[i].kind # "hello" /\ toBrowser'[i].seq + G + 1 = readSeq + i
      <4>1. CASE i \in 1..Len(toBrowser)
        BY <1>7, <2>2, <3>1, <3>3, <4>1
      <4>2. CASE i = Len(toBrowser) + 1
        <5>1. toBrowser'[i].seq = f.seq /\ toBrowser'[i].kind # "hello"
          BY <1>3, <1>5, <1>7, <4>2
        <5>2. PICK k, n, r : k = f.seq /\ n = Len(toBrowser) /\ r = readSeq
          OBVIOUS
        <5>3. k \in Nat /\ n \in Nat /\ r \in Nat /\ G \in Nat /\ k + G = r + n
          BY <1>1, <1>3, <1>7, <2>1, <2>2, <3>1, <5>2
        <5>4. k + G + 1 = r + (n + 1)
          BY <5>3
        <5> QED
          BY <4>2, <5>1, <5>2, <5>4
      <4> QED
        BY <1>7, <4>1, <4>2
    <3>4. writeSeq + G = readSeq + Len(toBrowser')
      <4>1. PICK k, n, r : k = f.seq /\ n = Len(toBrowser) /\ r = readSeq
        OBVIOUS
      <4>2. k \in Nat /\ n \in Nat /\ r \in Nat /\ G \in Nat /\ k + G = r + n
        BY <1>1, <1>3, <1>7, <2>1, <2>2, <3>1, <4>1
      <4>3. (k + 1) + G = r + (n + 1)
        BY <4>2
      <4> QED
        BY <1>7, <3>1, <4>1, <4>3
    <3> QED
      BY <2>2, <3>1, <3>2, <3>3, <3>4
  <2>4. /\ browser' = browser /\ hidden' = hidden /\ session' = session /\ lost' = lost
        /\ held' = {} /\ readSeq' = readSeq /\ writeSeq' = writeSeq
    BY <1>6
  <2> QED
    BY <2>1, <2>3, <2>4 DEF SocketNumbered
<1>11. SocketAnswered'
  <2>1. ASSUME SocketChain PROVE SocketChain'
    <3>1. PICK g, t, h, q, p \in Nat :
            /\ SocketRuns(got, 0, g) /\ SocketRuns(toBrowser, g, t) /\ SocketHanded(held, t, h) /\ SocketRuns(queue[Loop], h, q)
            /\ SocketRuns(pending, q, p) /\ SocketRuns(toServer, p, asked)
      BY <2>1 DEF SocketChain
    <3>2. SocketHanded({}, h, h)
      BY DEF SocketHanded
    <3>3. SocketRuns(toBrowser', g, h)
      <4>1. (t = h /\ y.n = 0) \/ (h = t + 1 /\ y.n = t + 1)
        BY <1>2, <1>5, <3>1 DEF SocketHanded
      <4> QED
        BY <1>1, <1>5, <1>6, <3>1, <4>1, SocketNumbered0, SocketRunsAppend
    <3> QED
      BY <1>6, <3>1, <3>2, <3>3 DEF SocketChain
  <2> QED
    BY <1>1, <1>6, <2>1 DEF SocketAnswered
<1>12. \A kind, t : SocketPassed(kind, t) => SocketPassed(kind, t)'
  BY <1>6, <1>7 DEF SocketPassed
<1>13. \A kind, t, w : SocketWritten(kind, t, w) => SocketWritten(kind, t, w)'
  <2>1. ASSUME NEW kind, NEW t, f.kind = kind, f.about = t PROVE SocketPassed(kind, t)'
    BY <1>5, <1>7, <2>1 DEF SocketPassed
  <2>2. ASSUME NEW kind, NEW t, NEW w, SocketWritten(kind, t, w) PROVE SocketWritten(kind, t, w)'
    <3>1. CASE SocketPassed(kind, t)
      BY <1>12, <3>1 DEF SocketWritten
    <3>2. CASE f.by = w /\ f.kind = kind /\ f.about = t
      BY <2>1, <3>2 DEF SocketWritten
    <3>3. CASE \E i \in 1..Len(queue[w]) : queue[w][i].kind = kind /\ queue[w][i].about = t
      BY <1>6, <3>3 DEF SocketWritten
    <3> QED
      BY <1>2, <2>2, <3>1, <3>2, <3>3 DEF SocketWritten
  <2> QED
    BY <2>2
<1>14. SocketAttached'
  <2>1. f.kind = "data" => SocketForwarded(f.about)
    BY <1>1 DEF SocketAttached
  <2>2. SocketTold' /\ \A v \in Socket!Writers : \A i \in 1..Len(queue'[v]) : queue'[v][i].kind = "data" =>
          queue'[v][i].about \in Streams /\ forwarder'[queue'[v][i].about] # "none" /\ queue'[v][i].about = v
    BY <1>1, <1>6 DEF SocketAttached, SocketTold, SocketForwarded
  <2>3. ASSUME browser # "closed"
        PROVE  /\ SocketTelling'
               /\ \A t \in Streams : forwarder[t] # "none" => SocketPassed("attached", t)'
               /\ \A t \in Streams : record[t] = "attached" /\ forwarder[t] = "none" => SocketWritten("attached", t, Loop)'
    <3>1. SocketTelling /\ (\A t \in Streams : forwarder[t] # "none" => SocketPassed("attached", t))
          /\ \A t \in Streams : record[t] = "attached" /\ forwarder[t] = "none" => SocketWritten("attached", t, Loop)
      BY <1>1, <2>3 DEF SocketAttached
    <3>2. SocketTelling'
      <4>1. ASSUME NEW i \in 1..Len(toBrowser'), toBrowser'[i].kind = "data"
            PROVE  /\ toBrowser'[i].about \in Streams /\ forwarder[toBrowser'[i].about] # "none"
                   /\ \/ \E j \in 1..Len(got) : got[j].kind = "attached" /\ got[j].about = toBrowser'[i].about
                      \/ \E j \in 1..Len(toBrowser') :
                           j < i /\ toBrowser'[j].kind = "attached" /\ toBrowser'[j].about = toBrowser'[i].about
        <5>1. CASE i \in 1..Len(toBrowser)
          <6>1. toBrowser'[i] = toBrowser[i]
            BY <1>7, <5>1
          <6>2. /\ SocketForwarded(toBrowser[i].about)
                /\ \/ \E j \in 1..Len(got) : got[j].kind = "attached" /\ got[j].about = toBrowser[i].about
                   \/ \E j \in 1..Len(toBrowser) :
                        j < i /\ toBrowser[j].kind = "attached" /\ toBrowser[j].about = toBrowser[i].about
            BY <3>1, <4>1, <5>1, <6>1 DEF SocketTelling
          <6> QED
            BY <1>7, <6>1, <6>2 DEF SocketForwarded
        <5>2. CASE i = Len(toBrowser) + 1
          <6>1. toBrowser'[i] = y /\ SocketForwarded(y.about)
            BY <1>5, <1>7, <2>1, <4>1, <5>2
          <6>2. SocketPassed("attached", y.about)
            BY <3>1, <6>1 DEF SocketForwarded
          <6> QED
            BY <1>7, <5>2, <6>1, <6>2 DEF SocketPassed, SocketForwarded
        <5> QED
          BY <1>7, <5>1, <5>2
      <4> QED
        BY <1>6, <4>1 DEF SocketTelling, SocketForwarded
    <3> QED
      BY <1>12, <1>13, <3>1, <3>2
  <2>4. browser' = browser /\ forwarder' = forwarder /\ record' = record /\ held' = {}
    BY <1>6
  <2> QED
    BY <2>2, <2>3, <2>4 DEF SocketAttached, SocketForwarded
<1>15. SocketEnded'
  BY <1>1, <1>6, <1>13 DEF SocketEnded
<1> QED
  BY <1>8, <1>9, <1>10, <1>11, <1>14, <1>15 DEF SocketInv

LEMMA SocketFrameGivenUp == ASSUME SocketInv, NEW f \in held, Socket!GiveUp(f) PROVE SocketInv'
<1>1. /\ SocketTypes /\ SocketBeginning /\ SocketAnswered /\ SocketAttached
      /\ forwarder \in [Streams -> {"none", "reading", "failed", "ended"}]
  BY DEF SocketInv, SocketTypes
<1>2. held = {f} /\ f.by # Loop /\ f.n = 0
  BY <1>1 DEF SocketTypes, SocketAnswered, Socket!GiveUp
<1>3. /\ held' = {} /\ lost' = TRUE
      /\ forwarder' = [s \in Streams |-> IF f.by = s /\ f.kind = "data" THEN "failed" ELSE forwarder[s]]
      /\ UNCHANGED <<mode, session, browser, hidden, asked, toServer, pending, queue, writeSeq,
                     toBrowser, readSeq, got, published, record>>
  BY <1>2 DEF Socket!GiveUp
<1>4. f.kind = "data" => SocketForwarded(f.by)
  BY <1>1 DEF SocketAttached
<1>5. /\ forwarder' \in [Streams -> {"none", "reading", "failed", "ended"}]
      /\ \A s \in Streams : forwarder'[s] = "none" <=> forwarder[s] = "none"
  BY <1>1, <1>3, <1>4 DEF SocketForwarded
<1>6. SocketTypes'
  BY <1>1, <1>3, <1>5 DEF SocketTypes
<1>7. SocketBeginning'
  BY <1>1, <1>3, <1>5 DEF SocketBeginning, SocketAsks
<1>8. SocketNumbered'
  BY <1>3 DEF SocketNumbered
<1>9. SocketAnswered'
  <2>1. ASSUME SocketChain PROVE SocketChain'
    <3>1. PICK g, t, h, q, p \in Nat :
            /\ SocketRuns(got, 0, g) /\ SocketRuns(toBrowser, g, t) /\ SocketHanded(held, t, h) /\ SocketRuns(queue[Loop], h, q)
            /\ SocketRuns(pending, q, p) /\ SocketRuns(toServer, p, asked)
      BY <2>1 DEF SocketChain
    <3>2. SocketHanded(held', t, h)
      BY <1>2, <1>3, <3>1 DEF SocketHanded
    <3> QED
      BY <1>3, <3>1, <3>2 DEF SocketChain
  <2> QED
    BY <1>1, <1>3, <2>1 DEF SocketAnswered
<1>10. \A kind, t : SocketPassed(kind, t)' = SocketPassed(kind, t)
  BY <1>3 DEF SocketPassed
<1>11. \A kind, t : SocketWritten(kind, t, Loop) => SocketWritten(kind, t, Loop)'
  BY <1>2, <1>3, <1>10 DEF SocketWritten
<1>12. SocketAttached'
  <2>1. \A t : SocketForwarded(t) <=> t \in Streams /\ forwarder'[t] # "none"
    BY <1>5 DEF SocketForwarded
  <2>2. SocketTold' /\ (SocketTelling => SocketTelling')
    BY <1>1, <1>3, <2>1 DEF SocketAttached, SocketTold, SocketTelling, SocketForwarded
  <2>3. \A w \in Socket!Writers : \A i \in 1..Len(queue'[w]) : queue'[w][i].kind = "data" =>
          queue'[w][i].about \in Streams /\ forwarder'[queue'[w][i].about] # "none" /\ queue'[w][i].about = w
    BY <1>1, <1>3, <2>1 DEF SocketAttached
  <2>4. browser' # "closed" => SocketTelling'
    BY <1>1, <1>3, <2>2 DEF SocketAttached
  <2>5. browser' # "closed" => \A t \in Streams : forwarder'[t] # "none" => SocketPassed("attached", t)'
    BY <1>1, <1>3, <1>5, <1>10 DEF SocketAttached
  <2>6. browser' # "closed" =>
          \A t \in Streams : record'[t] = "attached" /\ forwarder'[t] = "none" => SocketWritten("attached", t, Loop)'
    BY <1>1, <1>3, <1>5, <1>11 DEF SocketAttached
  <2> QED
    BY <1>3, <2>2, <2>3, <2>4, <2>5, <2>6 DEF SocketAttached, SocketForwarded
<1>13. SocketEnded'
  BY <1>3 DEF SocketEnded
<1> QED
  BY <1>6, <1>7, <1>8, <1>9, <1>12, <1>13 DEF SocketInv

-----------------------------------------------------------------------------

LEMMA SocketPreserved == ASSUME SocketInv, [Socket!Next]_(Socket!socketVars) PROVE SocketInv'
<1>1. CASE UNCHANGED Socket!socketVars
  <2>1. SocketTypes'
    BY <1>1 DEF SocketInv, SocketTypes, Socket!socketVars
  <2>2. SocketBeginning'
    BY <1>1 DEF SocketInv, SocketBeginning, SocketAsks, Socket!socketVars
  <2>3. SocketNumbered'
    BY <1>1 DEF SocketInv, SocketNumbered, SocketGreetings, Socket!socketVars
  <2>4. SocketAnswered'
    BY <1>1 DEF SocketInv, SocketAnswered, SocketChain, Socket!socketVars
  <2>5. SocketAttached'
    BY <1>1
       DEF SocketInv, SocketAttached, SocketTold, SocketTelling, SocketForwarded, SocketPassed,
           SocketWritten, Socket!socketVars
  <2>6. SocketEnded'
    BY <1>1 DEF SocketInv, SocketEnded, SocketWritten, SocketPassed, Socket!socketVars
  <2> QED
    BY <2>1, <2>2, <2>3, <2>4, <2>5, <2>6 DEF SocketInv
<1>2. CASE \E s \in Streams : Socket!StartForwarder(s) \/ Socket!Arrives(s) \/ Socket!ForwarderEnds(s)
  BY <1>2, SocketForwarderStarts, SocketBytesArrive, SocketForwardingEnds
<1>3. CASE \E w \in Socket!Writers : Socket!Number(w)
  BY <1>3, SocketFrameNumbered
<1>4. CASE \E f \in held : Socket!Send(f) \/ Socket!GiveUp(f)
  BY <1>4, SocketFrameSent, SocketFrameGivenUp
<1> QED
  BY <1>1, <1>2, <1>3, <1>4, SocketBrowserAsks, SocketBrowserListens, SocketBrowserChanges,
     SocketServesPlain, SocketServesDisabled, SocketServesSealed, SocketSocketEnds, SocketLoopReads,
     SocketEventPublished
     DEF Socket!Next

LEMMA SocketInvariance == Socket!Spec => []SocketInv
<1>1. Socket!Init => SocketInv
  BY SocketInitially
<1>2. SocketInv /\ [Socket!Next]_(Socket!socketVars) => SocketInv'
  BY SocketPreserved
<1> QED
  BY <1>1, <1>2, PTL DEF Socket!Spec

\* Queues, frames and records of a connection keep their types.
THEOREM SocketTypeCorrect == Socket!Spec => []Socket!TypeOK
<1>1. SocketInv => Socket!TypeOK
  <2> SUFFICES ASSUME SocketInv PROVE Socket!TypeOK
    OBVIOUS
  <2>1. SocketTypes
    BY DEF SocketInv
  <2>2. DOMAIN queue = Socket!Writers
    BY <2>1 DEF SocketTypes
  <2>3. \A f \in held : f.by \in Socket!Writers /\ f.seq < writeSeq
    BY <2>1 DEF SocketTypes, SocketHeldType
  <2> QED
    BY <2>1, <2>2, <2>3 DEF SocketTypes, Socket!TypeOK
<1> QED
  BY <1>1, SocketInvariance, PTL

\* web/application_ws.go handleApplicationWS, forwardNetworkStream: however
\* the loop, the events and the forwarded streams interleave, the next frame
\* carries the number the browser expects, answers come in the order of the
\* requests, and a stream's bytes come between its attachment and its end.
THEOREM SocketStaysInOrder == Socket!Spec => []Socket!SocketInOrder
<1>1. SocketInv => Socket!SocketInOrder
  <2> SUFFICES ASSUME SocketInv PROVE Socket!SocketInOrder
    OBVIOUS
  <2>1. /\ SocketTypes /\ SocketNumbered /\ SocketAnswered /\ SocketAttached /\ SocketEnded /\ toBrowser \in Seq(SocketSentType)
        /\ got \in Seq(SocketGotType) /\ readSeq \in Nat
    BY DEF SocketInv, SocketTypes
  <2>2. Socket!NumbersInOrder
    <3>1. ASSUME browser = "open", hidden, session = "sealed", ~lost, toBrowser # << >>
          PROVE  Head(toBrowser).seq = readSeq
      <4>1. 1 \in 1..Len(toBrowser) /\ toBrowser[1] = Head(toBrowser) /\ Head(toBrowser) \in SocketSentType
        BY <2>1, <3>1, SocketHeadOf
      <4>2. SocketGreetings = 0
        BY <3>1 DEF SocketGreetings
      <4>3. toBrowser[1].seq + 0 + 1 = readSeq + 1
        BY <2>1, <3>1, <4>1, <4>2 DEF SocketNumbered
      <4>4. Head(toBrowser).seq \in Nat
        BY <4>1 DEF SocketSentType
      <4> QED
        BY <2>1, <4>1, <4>3, <4>4
    <3> QED
      BY <3>1 DEF Socket!NumbersInOrder
  <2>3. Socket!AnsweredInOrder
    BY <2>1, SocketRunsOrder DEF SocketAnswered
  <2>4. Socket!StreamsTold
    <3>1. ASSUME NEW s \in Streams, forwarder[s] = "ended", ~lost, Socket!Resting(s), browser # "closed"
          PROVE  \/ \E i \in 1..Len(got) : got[i].kind = "closed" /\ got[i].about = s
                 \/ \E i \in 1..Len(toBrowser) : toBrowser[i].kind = "closed" /\ toBrowser[i].about = s
      <4>1. SocketWritten("closed", s, s)
        BY <2>1, <3>1 DEF SocketEnded
      <4>2. queue[s] = << >> /\ \A f \in held : f.by # s
        BY <3>1 DEF Socket!Resting
      <4>3. ~(\E i \in 1..Len(queue[s]) : queue[s][i].kind = "closed" /\ queue[s][i].about = s)
        BY <4>2
      <4> QED
        BY <4>1, <4>2, <4>3 DEF SocketWritten, SocketPassed
    <3> QED
      BY <2>1, <3>1 DEF SocketAttached, SocketTold, Socket!StreamsTold
  <2> QED
    BY <2>2, <2>3, <2>4 DEF Socket!SocketInOrder
<1> QED
  BY <1>1, SocketInvariance, PTL

-----------------------------------------------------------------------------
(***************************************************************************)
(* What the frames of a sequence weigh together.                           *)
(***************************************************************************)

\* u counts up the weights w of the frames of s.
Counts(u, s, w) ==
  /\ u \in [0..Len(s) -> Nat] /\ u[0] = 0
  /\ \A i \in 1..Len(s) : u[i] = u[i - 1] + w[s[i]]
  /\ \A i, j \in 0..Len(s) : i <= j => u[i] <= u[j]

\* The frames of s weigh n together.
Weighs(s, w, n) == \E u : Counts(u, s, w) /\ u[Len(s)] = n

LEMMA WeighsNat ==
  ASSUME NEW F, NEW s \in Seq(F), NEW w, NEW n, Weighs(s, w, n)
  PROVE  n \in Nat
<1>1. PICK u : Counts(u, s, w) /\ u[Len(s)] = n
  BY DEF Weighs
<1>2. Len(s) \in 0..Len(s)
  BY LenProperties
<1> QED
  BY <1>1, <1>2 DEF Counts

LEMMA WeighsNothing == ASSUME NEW w PROVE Weighs(<< >>, w, 0)
<1> DEFINE u == [i \in 0..0 |-> 0]
<1>1. Len(<< >>) = 0
  OBVIOUS
<1>2. u \in [0..0 -> Nat] /\ u[0] = 0
  OBVIOUS
<1>3. \A i \in 0..0 : u[i] = 0
  OBVIOUS
<1> HIDE DEF u
<1>4. Counts(u, << >>, w)
  BY <1>1, <1>2, <1>3 DEF Counts
<1> QED
  BY <1>1, <1>2, <1>4 DEF Weighs

\* One more frame at the end.
LEMMA WeighsAppend ==
  ASSUME NEW F, NEW s \in Seq(F), NEW w \in [F -> Nat], NEW n, Weighs(s, w, n), NEW x \in F
  PROVE  Weighs(Append(s, x), w, n + w[x])
<1>1. PICK u : Counts(u, s, w) /\ u[Len(s)] = n
  BY DEF Weighs
<1> DEFINE t == Append(s, x)
           m == Len(s)
           v == [i \in 0..(m + 1) |-> IF i = m + 1 THEN n + w[x] ELSE u[i]]
<1>2. m \in Nat /\ Len(t) = m + 1 /\ n \in Nat /\ w[x] \in Nat
  BY LenProperties, AppendProperties, WeighsNat
<1>3. t[m + 1] = x /\ \A i \in 1..m : t[i] = s[i]
  BY AppendProperties
<1> HIDE DEF t, m
<1>4. /\ u \in [0..m -> Nat] /\ u[0] = 0 /\ u[m] = n
      /\ \A i \in 1..m : u[i] = u[i - 1] + w[s[i]]
      /\ \A i, j \in 0..m : i <= j => u[i] <= u[j]
  BY <1>1 DEF Counts, m
<1>5. v \in [0..(m + 1) -> Nat]
  BY <1>2, <1>4
<1>6. v[0] = 0 /\ v[m + 1] = n + w[x] /\ \A i \in 0..m : v[i] = u[i]
  BY <1>2, <1>4
<1> HIDE DEF v
<1>7. ASSUME NEW i \in 1..(m + 1) PROVE v[i] = v[i - 1] + w[t[i]]
  <2>1. CASE i = m + 1
    <3>1. i - 1 = m /\ m \in 0..m
      BY <1>2, <2>1
    <3> QED
      BY <1>3, <1>4, <1>6, <2>1, <3>1
  <2>2. CASE i \in 1..m
    <3>1. i \in 0..m /\ i - 1 \in 0..m
      BY <1>2, <2>2
    <3> QED
      BY <1>3, <1>4, <1>6, <2>2, <3>1
  <2> QED
    BY <1>2, <2>1, <2>2
<1>8. ASSUME NEW i \in 0..(m + 1), NEW j \in 0..(m + 1), i <= j PROVE v[i] <= v[j]
  <2>1. CASE j \in 0..m
    <3>1. i \in 0..m
      BY <1>2, <1>8, <2>1
    <3> QED
      BY <1>4, <1>6, <1>8, <2>1, <3>1
  <2>2. CASE j = m + 1 /\ i \in 0..m
    <3>1. m \in 0..m /\ i <= m
      BY <1>2, <2>2
    <3>2. u[i] <= n /\ u[i] \in Nat
      BY <1>4, <2>2, <3>1
    <3> QED
      BY <1>2, <1>6, <2>2, <3>2
  <2>3. CASE j = m + 1 /\ i = m + 1
    BY <1>5, <2>3
  <2> QED
    BY <1>2, <2>1, <2>2, <2>3
<1>9. Counts(v, t, w)
  BY <1>2, <1>5, <1>6, <1>7, <1>8 DEF Counts
<1>10. Weighs(t, w, n + w[x])
  BY <1>2, <1>6, <1>9 DEF Weighs
<1> QED
  BY <1>10 DEF t

\* The first frame is taken.
LEMMA WeighsTail ==
  ASSUME NEW F, NEW s \in Seq(F), s # << >>, NEW w \in [F -> Nat], NEW n, Weighs(s, w, n)
  PROVE  w[Head(s)] \in Nat /\ w[Head(s)] <= n /\ n \in Nat /\ Weighs(Tail(s), w, n - w[Head(s)])
<1>1. PICK u : Counts(u, s, w) /\ u[Len(s)] = n
  BY DEF Weighs
<1> DEFINE t == Tail(s)
           m == Len(s)
           h == w[Head(s)]
           v == [i \in 0..(m - 1) |-> u[i + 1] - h]
<1>2. m \in Nat /\ m >= 1 /\ Len(t) = m - 1 /\ n \in Nat
  BY HeadTailProperties, WeighsNat, LenProperties, EmptySeq
<1>3. h = w[s[1]] /\ h \in Nat
  BY HeadTailProperties
<1>4. \A i \in 1..(m - 1) : t[i] = s[i + 1]
  BY <1>2, HeadTailProperties
<1> HIDE DEF t, m, h
<1>5. /\ u \in [0..m -> Nat] /\ u[0] = 0 /\ u[m] = n
      /\ \A i \in 1..m : u[i] = u[i - 1] + w[s[i]]
      /\ \A i, j \in 0..m : i <= j => u[i] <= u[j]
  BY <1>1 DEF Counts, m
<1>6. u[1] = h /\ 1 \in 0..m /\ m \in 0..m
  BY <1>2, <1>3, <1>5
<1>7. h <= n
  BY <1>2, <1>5, <1>6
<1>8. \A i \in 0..(m - 1) : i + 1 \in 0..m /\ h <= u[i + 1] /\ u[i + 1] \in Nat
  <2>1. \A i \in 0..(m - 1) : i + 1 \in 0..m /\ 1 <= i + 1
    BY <1>2
  <2> QED
    BY <1>5, <1>6, <2>1
<1>9. v \in [0..(m - 1) -> Nat]
  BY <1>3, <1>8
<1>10. \A i \in 0..(m - 1) : v[i] = u[i + 1] - h
  OBVIOUS
<1> HIDE DEF v
<1>11. v[0] = 0 /\ v[m - 1] = n - h
  <2>1. 0 \in 0..(m - 1) /\ m - 1 \in 0..(m - 1) /\ (m - 1) + 1 = m /\ 0 + 1 = 1
    BY <1>2
  <2>2. v[0] = u[1] - h /\ v[m - 1] = u[m] - h
    <3>1. v[0] = u[0 + 1] - h /\ v[m - 1] = u[(m - 1) + 1] - h
      BY <1>10, <2>1
    <3> QED
      BY <2>1, <3>1
  <2>3. u[1] = h /\ u[m] = n
    BY <1>5, <1>6
  <2> QED
    BY <1>3, <2>2, <2>3
<1>12. ASSUME NEW i \in 1..(m - 1) PROVE v[i] = v[i - 1] + w[t[i]]
  <2>1. i \in 0..(m - 1) /\ i - 1 \in 0..(m - 1) /\ (i - 1) + 1 = i /\ i + 1 \in 1..m /\ (i + 1) - 1 = i
    BY <1>2
  <2>2. u[i + 1] = u[i] + w[s[i + 1]]
    BY <1>5, <2>1
  <2>3. v[i] = u[i + 1] - h /\ v[i - 1] = u[i] - h /\ t[i] = s[i + 1]
    BY <1>4, <1>10, <2>1
  <2>4. u[i] \in Nat /\ u[i + 1] \in Nat /\ w[s[i + 1]] \in Nat
    <3>1. s[i + 1] \in F
      BY <2>1, ElementOfSeq DEF m
    <3> QED
      BY <1>5, <2>1, <3>1, <1>2
  <2> QED
    BY <1>3, <2>2, <2>3, <2>4
<1>13. ASSUME NEW i \in 0..(m - 1), NEW j \in 0..(m - 1), i <= j PROVE v[i] <= v[j]
  <2>1. i + 1 \in 0..m /\ j + 1 \in 0..m /\ i + 1 <= j + 1
    BY <1>2, <1>13
  <2>2. u[i + 1] <= u[j + 1]
    BY <1>5, <2>1
  <2> QED
    BY <1>3, <1>8, <1>10, <2>2
<1>14. Counts(v, t, w)
  BY <1>2, <1>9, <1>11, <1>12, <1>13 DEF Counts
<1>15. Weighs(t, w, n - h)
  BY <1>2, <1>11, <1>14 DEF Weighs
<1> QED
  BY <1>2, <1>3, <1>7, <1>15 DEF t, h


\* What p counts, with the frames of u and d by their weights, is q at most; no
\* frame weighs anything while idle.
Flow(u, w, d, v, p, q, idle) ==
  \E a, b \in Nat :
    Weighs(u, w, a) /\ Weighs(d, v, b) /\ p + a + b <= q /\ (idle => a = 0 /\ b = 0)

LEMMA FlowTurned ==
  ASSUME NEW u, NEW w, NEW d, NEW v, NEW p \in Nat, NEW q \in Nat, NEW idle, Flow(u, w, d, v, p, q, idle)
  PROVE  Flow(d, v, u, w, p, q, idle)
<1>1. PICK a, b \in Nat : Weighs(u, w, a) /\ Weighs(d, v, b) /\ p + a + b <= q /\ (idle => a = 0 /\ b = 0)
  BY DEF Flow
<1>2. p + b + a <= q
  BY <1>1
<1> QED
  BY <1>1, <1>2 DEF Flow

LEMMA FlowStays ==
  ASSUME NEW u, NEW w, NEW d, NEW v, NEW p \in Nat, NEW q \in Nat, NEW idle, Flow(u, w, d, v, p, q, idle)
  PROVE  /\ p <= q
         /\ \A r, s \in Nat : r + q <= p + s => Flow(u, w, d, v, r, s, idle)
<1>1. PICK a, b \in Nat : Weighs(u, w, a) /\ Weighs(d, v, b) /\ p + a + b <= q /\ (idle => a = 0 /\ b = 0)
  BY DEF Flow
<1>2. p <= q
  BY <1>1
<1>3. ASSUME NEW r \in Nat, NEW s \in Nat, r + q <= p + s PROVE Flow(u, w, d, v, r, s, idle)
  <2>1. r + a + b <= s
    BY <1>1, <1>3
  <2> QED
    BY <1>1, <2>1 DEF Flow
<1> QED
  BY <1>2, <1>3

\* A frame joins u.
LEMMA FlowGrows ==
  ASSUME NEW F, NEW u \in Seq(F), NEW w \in [F -> Nat], NEW d, NEW v, NEW p \in Nat, NEW q \in Nat,
         NEW idle, Flow(u, w, d, v, p, q, idle), NEW x \in F
  PROVE  \A r, s \in Nat :
           r + w[x] + q <= p + s /\ (w[x] = 0 \/ ~idle) => Flow(Append(u, x), w, d, v, r, s, idle)
<1>1. PICK a, b \in Nat : Weighs(u, w, a) /\ Weighs(d, v, b) /\ p + a + b <= q /\ (idle => a = 0 /\ b = 0)
  BY DEF Flow
<1>2. PICK h \in Nat : h = w[x]
  OBVIOUS
<1>3. Weighs(Append(u, x), w, a + h)
  BY <1>1, <1>2, WeighsAppend
<1>4. ASSUME NEW r \in Nat, NEW s \in Nat, r + h + q <= p + s, h = 0 \/ ~idle
      PROVE  Flow(Append(u, x), w, d, v, r, s, idle)
  <2>1. a + h \in Nat /\ r + (a + h) + b <= s /\ (h = 0 => a + h = a)
    BY <1>1, <1>4
  <2>2. idle => a + h = 0 /\ b = 0
    BY <1>1, <1>4, <2>1
  <2> QED
    BY <1>1, <1>3, <2>1, <2>2 DEF Flow
<1> QED
  BY <1>2, <1>4

\* The first frame of u is taken.
LEMMA FlowShrinks ==
  ASSUME NEW F, NEW u \in Seq(F), u # << >>, NEW w \in [F -> Nat], NEW d, NEW v, NEW p \in Nat,
         NEW q \in Nat, NEW idle, Flow(u, w, d, v, p, q, idle)
  PROVE  /\ w[Head(u)] \in Nat /\ p + w[Head(u)] <= q /\ (idle => w[Head(u)] = 0)
         /\ \A r, s \in Nat : r + q <= p + w[Head(u)] + s => Flow(Tail(u), w, d, v, r, s, idle)
<1>1. PICK a, b \in Nat : Weighs(u, w, a) /\ Weighs(d, v, b) /\ p + a + b <= q /\ (idle => a = 0 /\ b = 0)
  BY DEF Flow
<1>2. PICK h : h = w[Head(u)]
  OBVIOUS
<1>3. h \in Nat /\ h <= a /\ Weighs(Tail(u), w, a - h)
  BY <1>1, <1>2, WeighsTail
<1>4. p + h <= q /\ (a = 0 => h = 0 /\ a - h = 0) /\ a - h \in Nat
  BY <1>1, <1>3
<1>5. ASSUME NEW r \in Nat, NEW s \in Nat, r + q <= p + h + s
      PROVE  Flow(Tail(u), w, d, v, r, s, idle)
  <2>1. r + (a - h) + b <= s
    BY <1>1, <1>3, <1>5
  <2> QED
    BY <1>1, <1>3, <1>4, <2>1 DEF Flow
<1> QED
  BY <1>1, <1>2, <1>3, <1>4, <1>5

-----------------------------------------------------------------------------
(***************************************************************************)
(* Proofs about the HTTP exchanges of a gateway: in both directions what   *)
(* was sent and not given back stays within the window, and frames follow  *)
(* the start of their exchange.                                            *)
(***************************************************************************)

\* The operators of the library, as the component has them.
LEMMA ExchangeIsFiniteSet == \A X : Exchange!IsFiniteSet(X) <=> IsFiniteSet(X)
BY DEF Exchange!IsFiniteSet, IsFiniteSet
LEMMA ExchangeCardinality == \A X : Exchange!Cardinality(X) = Cardinality(X)
BY DEF Exchange!Cardinality, Exchange!IsFiniteSet, Cardinality, IsFiniteSet

\* The constants of the component are as it assumes.
LEMMA ExchangeBounds == Exchange!ExchangesAssumption
  BY StreamsAssumption

ExchangeHostType ==
  [in : BOOLEAN, canceled : BOOLEAN, ended : BOOLEAN, uploaded : 0..Window, upload : Seq(0..Chunk),
   drain : [at : {"idle", "writing", "written", "done"}, n : 0..Chunk], credit : 0..Window,
   run : {"no", "doing", "body", "ending", "ended"}, sent : Nat]

ExchangePageType ==
  [at : {"new", "open", "done"}, may : 0..Window, left : -1..MaxBody, granted : 0..Window,
   held : 0..Window, started : BOOLEAN]

ExchangeTypes ==
  /\ toHost \in Seq(Exchange!FrameType) /\ toPage \in Seq(Exchange!FrameType)
  /\ page \in [Requests -> ExchangePageType] /\ host \in [Requests -> ExchangeHostType]
  /\ lastID \in Nat /\ broken \in {Exchange!Fine, "lost", "limit", "buffer"}

\* What the frames of exchange id carry of bodies and of credit.
ExchangeBodies(id) == [f \in Exchange!FrameType |-> IF f.id = id /\ f.type = "body" THEN f.n ELSE 0]
ExchangeCredits(id) == [f \in Exchange!FrameType |-> IF f.id = id /\ f.type = "credit" THEN f.n ELSE 0]
ExchangeUnits == [n \in 0..Chunk |-> n]

\* What the goroutine that feeds the upstream holds, before and after the write.
ExchangeWriting(h) == IF h.drain.at = "writing" THEN h.drain.n ELSE 0
ExchangeWritten(h) == IF h.drain.at = "written" THEN h.drain.n ELSE 0

\* The start of the exchange is still to come.
ExchangeIdle(id) == id > lastID

ExchangeUpFlow(id) ==
  Flow(toHost, ExchangeBodies(id), toPage, ExchangeCredits(id), page[id].may + ExchangeWritten(host[id]), host[id].uploaded, ExchangeIdle(id))
ExchangeDownFlow(id) ==
  Flow(toHost, ExchangeCredits(id), toPage, ExchangeBodies(id), host[id].credit, page[id].granted, FALSE)

\* What waits for the upstream is not yet given back.
ExchangeBuffered(h) ==
  /\ Len(h.upload) <= Slots
  /\ \E n \in Nat : Weighs(h.upload, ExchangeUnits, n) /\ h.uploaded + n + ExchangeWriting(h) <= Window

ExchangeFlows ==
  \A id \in Requests :
    /\ ExchangeUpFlow(id) /\ ExchangeDownFlow(id) /\ ExchangeBuffered(host[id])
    /\ page[id].granted + page[id].held <= Window
    /\ ExchangeIdle(id) => host[id] = Exchange!Unused /\ page[id].may = 0

\* Starts come in order, and the other frames of an exchange after its start;
\* after the end of a body there is no more of it, nor another end.
ExchangeOrdered(u, last) ==
  /\ \A i \in 1..Len(u) : u[i].type = "start" => u[i].id > last
  /\ \A i, j \in 1..Len(u) :
       i < j /\ u[i].type = "start" /\ u[j].type = "start" => u[i].id < u[j].id
  /\ \A i \in 1..Len(u) : u[i].type # "start" =>
       u[i].id <= last \/ \E j \in 1..Len(u) : j < i /\ u[j].type = "start" /\ u[j].id = u[i].id
ExchangeEnding(u) ==
  \A i, j \in 1..Len(u) :
    i < j /\ u[i].type = "end" /\ u[j].id = u[i].id => u[j].type \notin {"body", "end"}
ExchangeSized(u) == \A i \in 1..Len(u) : u[i].type = "body" => u[i].n <= Chunk

ExchangeIntroduced(u, id) == \E i \in 1..Len(u) : u[i].type = "start" /\ u[i].id = id
ExchangeAsking(f, p, h) ==
  /\ p[f.id].at # "new"
  /\ f.type = "end" => p[f.id].left = -1
  /\ f.type \in {"body", "end"} => ~h[f.id].ended

ExchangeUploads ==
  /\ ExchangeOrdered(toHost, lastID) /\ ExchangeEnding(toHost) /\ ExchangeSized(toHost)
  /\ \A i \in 1..Len(toHost) : ExchangeAsking(toHost[i], page, host)
  /\ \A id \in Requests : host[id].ended => page[id].left = -1 /\ page[id].at # "new"
  /\ lastID # 0 => lastID \in Requests /\ page[lastID].at # "new"
  /\ \A c, x \in Requests : page[x].at # "new" /\ page[c].at = "new" => x < c
  /\ \A x \in Requests : page[x].at # "new" => x <= lastID \/ ExchangeIntroduced(toHost, x)

\* A response starts once, and its body comes after its start.
ExchangeStarted(d, id) == \E i \in 1..Len(d) : d[i].type = "start" /\ d[i].id = id
ExchangeSeen(d, p, id) == p[id].at = "done" \/ p[id].started \/ ExchangeStarted(d, id)
ExchangeOneStart(d) ==
  \A i, j \in 1..Len(d) : d[i].type = "start" /\ d[j].type = "start" /\ d[i].id = d[j].id => i = j
ExchangeFollows(d, p) ==
  \A i \in 1..Len(d) : d[i].type = "body" =>
    \/ p[d[i].id].at = "done" \/ p[d[i].id].started
    \/ \E j \in 1..Len(d) : j < i /\ d[j].type = "start" /\ d[j].id = d[i].id

ExchangeDownloads ==
  /\ ExchangeOneStart(toPage) /\ ExchangeFollows(toPage, page)
  /\ \A i \in 1..Len(toPage) :
       LET f == toPage[i] IN
       /\ f.type = "start" => ~page[f.id].started /\ host[f.id].run \notin {"no", "doing"}
       /\ f.type \in {"start", "body"} => page[f.id].at # "new"
  /\ \A id \in Requests :
       /\ host[id].run \in {"no", "doing"} => ~page[id].started
       /\ host[id].run = "body" => ExchangeSeen(toPage, page, id)
       /\ host[id].run # "no" => page[id].at # "new"

ExchangeInv == ExchangeTypes /\ ExchangeFlows /\ ExchangeUploads /\ ExchangeDownloads

LEMMA ExchangeNumbers ==
  /\ Requests \subseteq Nat \ {0} /\ MaxExchanges \in Nat /\ Chunk \in Nat /\ Window \in Nat
  /\ Slots \in Nat /\ MaxBody \in Nat /\ 0 < Chunk /\ Chunk <= Window
BY ExchangeBounds DEF Exchange!ExchangesAssumption

LEMMA ExchangeWeights ==
  /\ \A id \in Requests : ExchangeBodies(id) \in [Exchange!FrameType -> Nat] /\ ExchangeCredits(id) \in [Exchange!FrameType -> Nat]
  /\ ExchangeUnits \in [0..Chunk -> Nat]
<1>1. \A f \in Exchange!FrameType : f.n \in Nat
  BY ExchangeNumbers DEF Exchange!FrameType
<1>2. \A n \in 0..Chunk : n \in Nat
  BY ExchangeNumbers
<1> QED
  BY <1>1, <1>2 DEF ExchangeBodies, ExchangeCredits, ExchangeUnits

LEMMA ExchangeFrames ==
  ASSUME NEW id \in Requests, NEW n \in 0..Window,
         NEW k \in {"start", "body", "end", "error", "cancel", "credit"}
  PROVE  /\ Exchange!Frame(k, id, n) \in Exchange!FrameType
         /\ Exchange!Frame(k, id, n).type = k /\ Exchange!Frame(k, id, n).id = id /\ Exchange!Frame(k, id, n).n = n
         /\ \A x \in Requests : ExchangeBodies(x)[Exchange!Frame(k, id, n)] = IF x = id /\ k = "body" THEN n ELSE 0
         /\ \A x \in Requests : ExchangeCredits(x)[Exchange!Frame(k, id, n)] = IF x = id /\ k = "credit" THEN n ELSE 0
<1>1. Exchange!Frame(k, id, n) \in Exchange!FrameType
  BY DEF Exchange!Frame, Exchange!FrameType
<1> QED
  BY <1>1 DEF Exchange!Frame, ExchangeBodies, ExchangeCredits

LEMMA ExchangeHeadFrame ==
  ASSUME NEW s \in Seq(Exchange!FrameType), s # << >>
  PROVE  /\ Head(s) \in Exchange!FrameType /\ Tail(s) \in Seq(Exchange!FrameType) /\ Head(s).id \in Requests
         /\ Head(s).n \in 0..Window
         /\ Head(s).type \in {"start", "body", "end", "error", "cancel", "credit"}
         /\ Len(Tail(s)) = Len(s) - 1 /\ Len(s) \in Nat /\ 1 \in 1..Len(s) /\ s[1] = Head(s)
         /\ \A i \in 1..Len(Tail(s)) : i + 1 \in 1..Len(s) /\ Tail(s)[i] = s[i + 1]
<1>1. /\ Head(s) \in Exchange!FrameType /\ Tail(s) \in Seq(Exchange!FrameType)
      /\ Len(Tail(s)) = Len(s) - 1 /\ Len(s) \in Nat /\ Len(s) >= 1 /\ s[1] = Head(s)
      /\ \A i \in 1..Len(Tail(s)) : Tail(s)[i] = s[i + 1]
  BY HeadTailProperties, LenProperties, EmptySeq
<1>2. 1 \in 1..Len(s) /\ \A i \in 1..Len(Tail(s)) : i + 1 \in 1..Len(s)
  BY <1>1
<1>3. /\ Head(s).id \in Requests /\ Head(s).n \in 0..Window
      /\ Head(s).type \in {"start", "body", "end", "error", "cancel", "credit"}
  BY <1>1 DEF Exchange!FrameType
<1> QED
  BY <1>1, <1>2, <1>3

LEMMA ExchangeLastFrame ==
  ASSUME NEW s \in Seq(Exchange!FrameType), NEW f \in Exchange!FrameType
  PROVE  /\ Append(s, f) \in Seq(Exchange!FrameType) /\ Len(s) \in Nat /\ Len(Append(s, f)) = Len(s) + 1
         /\ Append(s, f)[Len(s) + 1] = f
         /\ \A i \in 1..Len(s) : Append(s, f)[i] = s[i] /\ i \in 1..Len(Append(s, f))
         /\ \A i \in 1..Len(Append(s, f)) : i \in 1..Len(s) \/ i = Len(s) + 1
         /\ Len(s) + 1 \in 1..Len(Append(s, f))
<1>1. /\ Append(s, f) \in Seq(Exchange!FrameType) /\ Len(s) \in Nat /\ Len(Append(s, f)) = Len(s) + 1
      /\ Append(s, f)[Len(s) + 1] = f
      /\ \A i \in 1..Len(s) : Append(s, f)[i] = s[i]
  BY AppendProperties, LenProperties
<1>2. /\ \A i \in 1..Len(s) : i \in 1..Len(Append(s, f))
      /\ \A i \in 1..Len(Append(s, f)) : i \in 1..Len(s) \/ i = Len(s) + 1
      /\ Len(s) + 1 \in 1..Len(Append(s, f))
  BY <1>1
<1> QED
  BY <1>1, <1>2

LEMMA ExchangeElementTypes ==
  ASSUME NEW s \in Seq(Exchange!FrameType), NEW i \in 1..Len(s)
  PROVE  s[i] \in Exchange!FrameType /\ s[i].id \in Requests
<1>1. s[i] \in Exchange!FrameType
  BY ElementOfSeq
<1> QED
  BY <1>1 DEF Exchange!FrameType

\* The order of the frames to the host, when one is taken.
LEMMA ExchangeOrderedTail ==
  ASSUME NEW u \in Seq(Exchange!FrameType), u # << >>, NEW last \in Nat, ExchangeOrdered(u, last), ExchangeEnding(u), ExchangeSized(u)
  PROVE  /\ ExchangeEnding(Tail(u)) /\ ExchangeSized(Tail(u))
         /\ Head(u).type = "start" => Head(u).id > last /\ ExchangeOrdered(Tail(u), Head(u).id)
         /\ Head(u).type # "start" => Head(u).id <= last /\ ExchangeOrdered(Tail(u), last)
         /\ Head(u).type = "body" => Head(u).n <= Chunk
         /\ Head(u).type = "end" =>
              \A i \in 1..Len(Tail(u)) : Tail(u)[i].id = Head(u).id => Tail(u)[i].type \notin {"body", "end"}
<1> DEFINE v == Tail(u)
<1>1. /\ Head(u) \in Exchange!FrameType /\ v \in Seq(Exchange!FrameType) /\ Head(u).id \in Requests
      /\ Len(v) = Len(u) - 1 /\ Len(u) \in Nat /\ 1 \in 1..Len(u) /\ u[1] = Head(u)
      /\ \A i \in 1..Len(v) : i + 1 \in 1..Len(u) /\ v[i] = u[i + 1]
  BY ExchangeHeadFrame
<1> HIDE DEF v
<1>2. \A i \in 1..Len(v) : 1 < i + 1
  BY <1>1
<1>3. \A i, j \in 1..Len(v) : i < j => i + 1 < j + 1
  BY <1>1
<1>4. ExchangeEnding(v)
  BY <1>1, <1>3 DEF ExchangeEnding
<1>5. ExchangeSized(v)
  BY <1>1 DEF ExchangeSized
<1>6. \A i, j \in 1..Len(v) : i < j /\ v[i].type = "start" /\ v[j].type = "start" => v[i].id < v[j].id
  BY <1>1, <1>3 DEF ExchangeOrdered
<1>7. \A k \in 1..Len(u) : k = 1 \/ (k - 1 \in 1..Len(v) /\ v[k - 1] = u[k])
  <2>1. \A k \in 1..Len(u) : k = 1 \/ (k - 1 \in 1..Len(v) /\ (k - 1) + 1 = k)
    BY <1>1
  <2> QED
    BY <1>1, <2>1
<1>8. \A id \in Requests : id \in Nat
  BY ExchangeNumbers
<1>9. ASSUME NEW i \in 1..Len(v), v[i].type # "start"
      PROVE  \/ v[i].id <= last \/ (Head(u).type = "start" /\ Head(u).id = v[i].id)
             \/ \E j \in 1..Len(v) : j < i /\ v[j].type = "start" /\ v[j].id = v[i].id
  <2>1. \/ v[i].id <= last
        \/ \E j \in 1..Len(u) : j < i + 1 /\ u[j].type = "start" /\ u[j].id = v[i].id
    BY <1>1, <1>9 DEF ExchangeOrdered
  <2>2. ASSUME NEW j \in 1..Len(u), j < i + 1, u[j].type = "start", u[j].id = v[i].id
        PROVE  \/ (Head(u).type = "start" /\ Head(u).id = v[i].id)
               \/ \E k \in 1..Len(v) : k < i /\ v[k].type = "start" /\ v[k].id = v[i].id
    <3>1. CASE j = 1
      BY <1>1, <2>2, <3>1
    <3>2. CASE j - 1 \in 1..Len(v) /\ v[j - 1] = u[j]
      <4>1. j - 1 < i
        BY <1>1, <2>2
      <4> QED
        BY <2>2, <3>2, <4>1
    <3> QED
      BY <1>7, <3>1, <3>2
  <2> QED
    BY <2>1, <2>2
<1>10. ASSUME Head(u).type = "start"
       PROVE  Head(u).id > last /\ ExchangeOrdered(v, Head(u).id)
  <2>1. Head(u).id > last
    BY <1>1, <1>10 DEF ExchangeOrdered
  <2>2. ASSUME NEW i \in 1..Len(v), v[i].type = "start" PROVE v[i].id > Head(u).id
    <3>1. u[1].id < u[i + 1].id
      BY <1>1, <1>2, <1>10, <2>2 DEF ExchangeOrdered
    <3>2. v[i].id \in Nat /\ Head(u).id \in Nat
      BY <1>1, <1>8, ExchangeElementTypes
    <3>3. Head(u).id < v[i].id
      BY <1>1, <3>1
    <3> QED
      BY <3>2, <3>3
  <2>3. ASSUME NEW i \in 1..Len(v), v[i].type # "start"
        PROVE  \/ v[i].id <= Head(u).id
               \/ \E j \in 1..Len(v) : j < i /\ v[j].type = "start" /\ v[j].id = v[i].id
    <3>1. v[i].id \in Nat /\ Head(u).id \in Nat
      BY <1>1, <1>8, ExchangeElementTypes
    <3>2. CASE v[i].id <= last
      BY <2>1, <3>1, <3>2
    <3>3. CASE Head(u).id = v[i].id
      BY <3>1, <3>3
    <3> QED
      BY <1>9, <2>3, <3>2, <3>3
  <2> QED
    BY <1>6, <2>1, <2>2, <2>3 DEF ExchangeOrdered
<1>11. ASSUME Head(u).type # "start"
       PROVE  Head(u).id <= last /\ ExchangeOrdered(v, last)
  <2>1. Head(u).id <= last
    <3>1. \A j \in 1..Len(u) : ~(j < 1)
      BY <1>1
    <3> QED
      BY <1>1, <1>11, <3>1 DEF ExchangeOrdered
  <2>2. \A i \in 1..Len(v) : v[i].type = "start" => v[i].id > last
    BY <1>1 DEF ExchangeOrdered
  <2> QED
    BY <1>6, <1>9, <1>11, <2>1, <2>2 DEF ExchangeOrdered
<1>12. Head(u).type = "body" => Head(u).n <= Chunk
  BY <1>1 DEF ExchangeSized
<1>13. Head(u).type = "end" =>
         \A i \in 1..Len(v) : v[i].id = Head(u).id => v[i].type \notin {"body", "end"}
  BY <1>1, <1>2 DEF ExchangeEnding
<1> QED
  BY <1>4, <1>5, <1>10, <1>11, <1>12, <1>13 DEF v

LEMMA ExchangeInitially == Exchange!Init => ExchangeInv
<1> SUFFICES ASSUME Exchange!Init PROVE ExchangeInv
  OBVIOUS
<1>1. ExchangeTypes
  <2>1. Exchange!Unused \in ExchangeHostType
    <3>1. << >> \in Seq(0..Chunk) /\ 0 \in 0..Chunk /\ Window \in 0..Window /\ 0 \in 0..Window
      BY ExchangeNumbers
    <3> QED
      BY <3>1 DEF Exchange!Unused, ExchangeHostType
  <2>2. Exchange!Asked \in ExchangePageType
    BY ExchangeNumbers DEF Exchange!Asked, ExchangePageType
  <2> QED
    BY <2>1, <2>2 DEF Exchange!Init, ExchangeTypes
<1>2. ExchangeFlows
  <2>1. ASSUME NEW id \in Requests
        PROVE  /\ ExchangeUpFlow(id) /\ ExchangeDownFlow(id) /\ ExchangeBuffered(host[id])
               /\ page[id].granted + page[id].held <= Window
               /\ host[id] = Exchange!Unused /\ page[id].may = 0
    <3>1. /\ host[id] = Exchange!Unused /\ page[id].may = 0 /\ page[id].granted = 0 /\ page[id].held = 0
          /\ host[id].uploaded = Window /\ host[id].credit = 0 /\ host[id].upload = << >>
          /\ ExchangeWritten(host[id]) = 0 /\ ExchangeWriting(host[id]) = 0
      BY DEF Exchange!Init, Exchange!Unused, Exchange!Asked, ExchangeWritten, ExchangeWriting
    <3>2. /\ Weighs(toHost, ExchangeBodies(id), 0) /\ Weighs(toHost, ExchangeCredits(id), 0)
          /\ Weighs(toPage, ExchangeBodies(id), 0) /\ Weighs(toPage, ExchangeCredits(id), 0)
          /\ Weighs(host[id].upload, ExchangeUnits, 0)
      BY <3>1, WeighsNothing DEF Exchange!Init
    <3>3. ExchangeUpFlow(id) /\ ExchangeDownFlow(id)
      <4>1. (0 + 0) + 0 + 0 <= Window /\ 0 + 0 + 0 <= 0
        BY ExchangeNumbers
      <4> QED
        BY <3>1, <3>2, <4>1 DEF ExchangeUpFlow, ExchangeDownFlow, Flow
    <3>4. Len(host[id].upload) = 0
      BY <3>1
    <3>5. Window + 0 + 0 <= Window /\ 0 + 0 <= Window /\ 0 <= Slots
      BY ExchangeNumbers
    <3> QED
      BY <3>1, <3>2, <3>3, <3>4, <3>5 DEF ExchangeBuffered
  <2> QED
    BY <2>1 DEF ExchangeFlows
<1>3. ExchangeUploads
  <2>1. Len(toHost) = 0
    BY DEF Exchange!Init
  <2>2. ExchangeOrdered(toHost, lastID) /\ ExchangeEnding(toHost) /\ ExchangeSized(toHost)
    BY <2>1 DEF ExchangeOrdered, ExchangeEnding, ExchangeSized
  <2>3. \A id \in Requests : ~host[id].ended /\ page[id].at = "new"
    BY DEF Exchange!Init, Exchange!Asked, Exchange!Unused
  <2> QED
    BY <2>1, <2>2, <2>3 DEF Exchange!Init, ExchangeUploads
<1>4. ExchangeDownloads
  <2>1. Len(toPage) = 0
    BY DEF Exchange!Init
  <2>2. ExchangeOneStart(toPage) /\ ExchangeFollows(toPage, page)
    BY <2>1 DEF ExchangeOneStart, ExchangeFollows
  <2>3. \A id \in Requests : host[id].run = "no" /\ ~page[id].started
    BY DEF Exchange!Init, Exchange!Asked, Exchange!Unused
  <2> QED
    BY <2>1, <2>2, <2>3 DEF ExchangeDownloads
<1> QED
  BY <1>1, <1>2, <1>3, <1>4 DEF ExchangeInv

\* The numbers that the flows are about.
LEMMA ExchangeSizes ==
  ASSUME ExchangeTypes, NEW id \in Requests
  PROVE  /\ page[id] \in ExchangePageType /\ host[id] \in ExchangeHostType
         /\ page[id].may \in Nat /\ page[id].granted \in Nat /\ page[id].held \in Nat
         /\ host[id].uploaded \in Nat /\ host[id].credit \in Nat /\ host[id].drain.n \in Nat
         /\ ExchangeWritten(host[id]) \in Nat /\ ExchangeWriting(host[id]) \in Nat
         /\ page[id].may + ExchangeWritten(host[id]) \in Nat
<1>1. page[id] \in ExchangePageType /\ host[id] \in ExchangeHostType
  BY DEF ExchangeTypes
<1>2. \A n \in 0..Window : n \in Nat
  BY ExchangeNumbers
<1>3. \A n \in 0..Chunk : n \in Nat
  BY ExchangeNumbers
<1>4. /\ page[id].may \in Nat /\ page[id].granted \in Nat /\ page[id].held \in Nat
      /\ host[id].uploaded \in Nat /\ host[id].credit \in Nat /\ host[id].drain.n \in Nat
  BY <1>1, <1>2, <1>3 DEF ExchangePageType, ExchangeHostType
<1>5. ExchangeWritten(host[id]) \in Nat /\ ExchangeWriting(host[id]) \in Nat
  BY <1>4 DEF ExchangeWritten, ExchangeWriting
<1> QED
  BY <1>1, <1>4, <1>5

-----------------------------------------------------------------------------

\* The worker sends a frame of exchange id that carries body or credit bytes.
ExchangeSends(id, kind, body, credit) ==
  \E f \in Exchange!FrameType :
    /\ toHost' = Append(toHost, f) /\ f.id = id /\ f.type = kind
    /\ ExchangeBodies(id)[f] = body /\ ExchangeCredits(id)[f] = credit

\* The flows, when the worker's end of an exchange changes so.
LEMMA ExchangePageFlows ==
  ASSUME ExchangeInv, NEW id \in Requests, NEW e \in ExchangePageType, page' = [page EXCEPT ![id] = e],
         UNCHANGED <<host, toPage, lastID>>, NEW body \in Nat, NEW credit \in Nat,
         \E kind : ExchangeSends(id, kind, body, credit),
         e.may + body = page[id].may, page[id].granted + credit = e.granted,
         e.granted + e.held <= Window
  PROVE  ExchangeFlows' /\ toHost' \in Seq(Exchange!FrameType)
<1>1. ExchangeTypes /\ ExchangeFlows /\ toHost \in Seq(Exchange!FrameType)
  BY DEF ExchangeInv, ExchangeTypes
<1>2. PICK f \in Exchange!FrameType : /\ toHost' = Append(toHost, f) /\ f.id = id
                                      /\ ExchangeBodies(id)[f] = body /\ ExchangeCredits(id)[f] = credit
  BY DEF ExchangeSends
<1>3. toHost' \in Seq(Exchange!FrameType)
  BY <1>1, <1>2, ExchangeLastFrame
<1>4. page'[id] = e /\ \A x \in Requests \ {id} : page'[x] = page[x]
  BY <1>1 DEF ExchangeTypes
<1>5. e.may \in Nat /\ e.granted \in Nat
  <2>1. \A n \in 0..Window : n \in Nat
    BY ExchangeNumbers
  <2> QED
    BY <2>1 DEF ExchangePageType
<1>6. ASSUME NEW x \in Requests
      PROVE  /\ ExchangeUpFlow(x)' /\ ExchangeDownFlow(x)' /\ ExchangeBuffered(host'[x])
             /\ page'[x].granted + page'[x].held <= Window
             /\ ExchangeIdle(x)' => host'[x] = Exchange!Unused /\ page'[x].may = 0
  <2>1. /\ ExchangeUpFlow(x) /\ ExchangeDownFlow(x) /\ ExchangeBuffered(host[x])
        /\ page[x].granted + page[x].held <= Window
        /\ ExchangeIdle(x) => host[x] = Exchange!Unused /\ page[x].may = 0
    BY <1>1 DEF ExchangeFlows
  <2>2. /\ ExchangeBodies(x) \in [Exchange!FrameType -> Nat] /\ ExchangeCredits(x) \in [Exchange!FrameType -> Nat]
        /\ ExchangeBodies(x)[f] \in Nat /\ ExchangeCredits(x)[f] \in Nat
        /\ ExchangeBodies(x)[f] = (IF x = id THEN body ELSE 0) /\ ExchangeCredits(x)[f] = (IF x = id THEN credit ELSE 0)
    <3>1. ExchangeBodies(x) \in [Exchange!FrameType -> Nat] /\ ExchangeCredits(x) \in [Exchange!FrameType -> Nat]
      BY ExchangeWeights
    <3>2. x # id => ExchangeBodies(x)[f] = 0 /\ ExchangeCredits(x)[f] = 0
      BY <1>2 DEF ExchangeBodies, ExchangeCredits
    <3> QED
      BY <1>2, <3>1, <3>2
  <2>3. ExchangeIdle(x)' = ExchangeIdle(x) /\ host'[x] = host[x]
    BY DEF ExchangeIdle
  <2>4. PICK m, n, w, g, h : /\ m = page[x].may /\ n = page'[x].may /\ w = ExchangeWritten(host[x])
                             /\ g = page[x].granted /\ h = page'[x].granted
    OBVIOUS
  <2>5. /\ m \in Nat /\ n \in Nat /\ w \in Nat /\ g \in Nat /\ h \in Nat /\ m + w \in Nat /\ n + w \in Nat
        /\ n + ExchangeBodies(x)[f] = m /\ g + ExchangeCredits(x)[f] = h
    <3>1. m \in Nat /\ w \in Nat /\ g \in Nat
      BY <1>1, <2>4, ExchangeSizes
    <3>2. CASE x = id
      <4>1. n = e.may /\ h = e.granted
        BY <1>4, <2>4, <3>2
      <4> QED
        BY <1>5, <2>2, <2>4, <3>1, <3>2, <4>1
    <3>3. CASE x # id
      <4>1. n = m /\ h = g
        BY <1>4, <2>4, <3>3
      <4> QED
        BY <2>2, <3>1, <3>3, <4>1
    <3> QED
      BY <3>2, <3>3
  <2>6. PICK b, c \in Nat : b = ExchangeBodies(x)[f] /\ c = ExchangeCredits(x)[f]
    BY <2>2
  <2>7. PICK q, r, idle : q = host[x].uploaded /\ r = host[x].credit /\ idle = ExchangeIdle(x)
    OBVIOUS
  <2>8. q \in Nat /\ r \in Nat
    BY <1>1, <2>7, ExchangeSizes
  <2>9. idle => b = 0
    <3>1. idle => m = 0
      BY <2>1, <2>4, <2>7
    <3> QED
      BY <2>5, <2>6, <3>1
  <2>10. ExchangeUpFlow(x)'
    <3>1. Flow(toHost, ExchangeBodies(x), toPage, ExchangeCredits(x), m + w, q, idle)
      BY <2>1, <2>4, <2>7 DEF ExchangeUpFlow
    <3>2. (n + w) + b + q <= (m + w) + q
      BY <2>5, <2>6, <2>8
    <3>3. Flow(Append(toHost, f), ExchangeBodies(x), toPage, ExchangeCredits(x), n + w, q, idle)
      BY <1>1, <2>2, <2>5, <2>6, <2>8, <2>9, <3>1, <3>2, FlowGrows
    <3> QED
      BY <1>2, <2>3, <2>4, <2>7, <3>3 DEF ExchangeUpFlow
  <2>11. ExchangeDownFlow(x)'
    <3>1. Flow(toHost, ExchangeCredits(x), toPage, ExchangeBodies(x), r, g, FALSE)
      BY <2>1, <2>4, <2>7 DEF ExchangeDownFlow
    <3>2. r + c + g <= r + h
      BY <2>5, <2>6, <2>8
    <3>3. Flow(Append(toHost, f), ExchangeCredits(x), toPage, ExchangeBodies(x), r, h, FALSE)
      BY <1>1, <2>2, <2>5, <2>6, <2>8, <3>1, <3>2, FlowGrows
    <3> QED
      BY <1>2, <2>3, <2>4, <2>7, <3>3 DEF ExchangeDownFlow
  <2>12. page'[x].granted + page'[x].held <= Window
    BY <1>4, <2>1
  <2>13. ExchangeIdle(x)' => host'[x] = Exchange!Unused /\ page'[x].may = 0
    <3>1. idle => n = 0
      <4>1. idle => m = 0
        BY <2>1, <2>4, <2>7
      <4> QED
        BY <2>5, <2>6, <4>1
    <3> QED
      BY <2>1, <2>3, <2>4, <2>7, <3>1
  <2> QED
    BY <2>1, <2>3, <2>10, <2>11, <2>12, <2>13
<1>7. ExchangeFlows'
  BY <1>6 DEF ExchangeFlows
<1> QED
  BY <1>3, <1>7

LEMMA ExchangePageDownloads ==
  ASSUME ExchangeInv, UNCHANGED <<host, toPage>>,
         \A x \in Requests : /\ page'[x].started = page[x].started
                             /\ page[x].at = "done" => page'[x].at = "done"
                             /\ page[x].at # "new" => page'[x].at # "new"
  PROVE  ExchangeDownloads'
<1>1. ExchangeTypes /\ ExchangeDownloads /\ toPage \in Seq(Exchange!FrameType)
  BY DEF ExchangeInv, ExchangeTypes
<1>2. \A i \in 1..Len(toPage) : toPage[i].id \in Requests
  BY <1>1, ExchangeElementTypes
<1>3. ExchangeOneStart(toPage')
  BY <1>1 DEF ExchangeDownloads
<1>4. ExchangeFollows(toPage', page')
  <2>1. ExchangeFollows(toPage, page)
    BY <1>1 DEF ExchangeDownloads
  <2> QED
    BY <1>2, <2>1 DEF ExchangeFollows
<1>5. \A i \in 1..Len(toPage') :
        LET f == toPage'[i] IN
        /\ f.type = "start" => ~page'[f.id].started /\ host'[f.id].run \notin {"no", "doing"}
        /\ f.type \in {"start", "body"} => page'[f.id].at # "new"
  BY <1>1, <1>2 DEF ExchangeDownloads
<1>6. \A id \in Requests : ExchangeSeen(toPage, page, id) => ExchangeSeen(toPage', page', id)
  BY DEF ExchangeSeen, ExchangeStarted
<1> QED
  BY <1>1, <1>3, <1>4, <1>5, <1>6 DEF ExchangeDownloads

LEMMA ExchangePageUploads ==
  ASSUME ExchangeInv, NEW id \in Requests, NEW e \in ExchangePageType, page' = [page EXCEPT ![id] = e],
         UNCHANGED <<host, lastID>>, NEW f \in Exchange!FrameType, toHost' = Append(toHost, f),
         f.id = id, f.type # "start", page[id].at # "new", e.at # "new",
         f.type \in {"body", "end"} => page[id].left # -1,
         f.type = "end" => e.left = -1, page[id].left = -1 => e.left = -1,
         f.type = "body" => f.n <= Chunk
  PROVE  ExchangeUploads'
<1>1. ExchangeTypes /\ ExchangeUploads /\ toHost \in Seq(Exchange!FrameType)
  BY DEF ExchangeInv, ExchangeTypes
<1> DEFINE u == toHost
           v == Append(toHost, f)
<1>2. /\ v \in Seq(Exchange!FrameType) /\ Len(u) \in Nat /\ Len(v) = Len(u) + 1 /\ v[Len(u) + 1] = f
      /\ \A i \in 1..Len(u) : v[i] = u[i] /\ i \in 1..Len(v)
      /\ \A i \in 1..Len(v) : i \in 1..Len(u) \/ i = Len(u) + 1
      /\ Len(u) + 1 \in 1..Len(v)
  BY <1>1, ExchangeLastFrame
<1>3. \A i \in 1..Len(u) : u[i].id \in Requests
  BY <1>1, ExchangeElementTypes
<1>4. toHost' = v
  OBVIOUS
<1> HIDE DEF u, v
<1>5. /\ ExchangeOrdered(u, lastID) /\ ExchangeEnding(u) /\ ExchangeSized(u)
      /\ \A i \in 1..Len(u) : ExchangeAsking(u[i], page, host)
      /\ \A x \in Requests : host[x].ended => page[x].left = -1 /\ page[x].at # "new"
      /\ lastID # 0 => lastID \in Requests /\ page[lastID].at # "new"
      /\ \A c, x \in Requests : page[x].at # "new" /\ page[c].at = "new" => x < c
      /\ \A x \in Requests : page[x].at # "new" => x <= lastID \/ ExchangeIntroduced(u, x)
  BY <1>1 DEF ExchangeUploads, u
<1>6. page'[id] = e /\ \A x \in Requests \ {id} : page'[x] = page[x]
  BY <1>1 DEF ExchangeTypes
<1>7. \A i \in 1..Len(u) : i < Len(u) + 1
  BY <1>2
<1>8. \A i, j \in 1..Len(v) : i < j => i \in 1..Len(u)
  BY <1>2
<1>9. ExchangeOrdered(v, lastID)
  <2>1. \A i \in 1..Len(v) : v[i].type = "start" => i \in 1..Len(u) /\ v[i] = u[i]
    BY <1>2
  <2>2. \A i \in 1..Len(v) : v[i].type # "start" =>
          v[i].id <= lastID \/ \E j \in 1..Len(v) : j < i /\ v[j].type = "start" /\ v[j].id = v[i].id
    <3>1. ASSUME NEW i \in 1..Len(u), v[i].type # "start"
          PROVE  v[i].id <= lastID \/ \E j \in 1..Len(v) : j < i /\ v[j].type = "start" /\ v[j].id = v[i].id
      BY <1>2, <1>5, <3>1 DEF ExchangeOrdered
    <3>2. id <= lastID \/ \E j \in 1..Len(u) : u[j].type = "start" /\ u[j].id = id
      BY <1>5 DEF ExchangeIntroduced
    <3>3. f.id <= lastID \/ \E j \in 1..Len(v) : j < Len(u) + 1 /\ v[j].type = "start" /\ v[j].id = f.id
      BY <1>2, <1>7, <3>2
    <3> QED
      BY <1>2, <3>1, <3>3
  <2> QED
    BY <1>5, <2>1, <2>2 DEF ExchangeOrdered
<1>10. ExchangeEnding(v)
  <2>1. ASSUME NEW i \in 1..Len(v), NEW j \in 1..Len(v), i < j, v[i].type = "end", v[j].id = v[i].id
        PROVE  v[j].type \notin {"body", "end"}
    <3>1. i \in 1..Len(u) /\ v[i] = u[i]
      BY <1>2, <1>8, <2>1
    <3>2. CASE j \in 1..Len(u)
      BY <1>2, <1>5, <2>1, <3>1, <3>2 DEF ExchangeEnding
    <3>3. CASE j = Len(u) + 1
      BY <1>2, <1>5, <2>1, <3>1, <3>3 DEF ExchangeAsking
    <3> QED
      BY <1>2, <3>2, <3>3
  <2> QED
    BY <2>1 DEF ExchangeEnding
<1>11. ExchangeSized(v)
  BY <1>2, <1>5 DEF ExchangeSized
<1>12. ASSUME NEW i \in 1..Len(v) PROVE ExchangeAsking(v[i], page', host')
  <2>1. CASE i \in 1..Len(u)
    BY <1>2, <1>3, <1>5, <1>6, <2>1 DEF ExchangeAsking
  <2>2. CASE i = Len(u) + 1
    BY <1>2, <1>5, <1>6, <2>2 DEF ExchangeAsking
  <2> QED
    BY <1>2, <2>1, <2>2
<1>13. \A x \in Requests : ExchangeIntroduced(u, x) => ExchangeIntroduced(v, x)
  BY <1>2 DEF ExchangeIntroduced
<1>14. \A x \in Requests : (page'[x].at = "new") = (page[x].at = "new")
  BY <1>6
<1>15. /\ ExchangeOrdered(toHost', lastID') /\ ExchangeEnding(toHost') /\ ExchangeSized(toHost')
       /\ \A i \in 1..Len(toHost') : ExchangeAsking(toHost'[i], page', host')
  BY <1>4, <1>9, <1>10, <1>11, <1>12
<1>16. \A x \in Requests : host'[x].ended => page'[x].left = -1 /\ page'[x].at # "new"
  BY <1>5, <1>6
<1>17. lastID' # 0 => lastID' \in Requests /\ page'[lastID'].at # "new"
  BY <1>5, <1>14
<1>18. \A c, x \in Requests : page'[x].at # "new" /\ page'[c].at = "new" => x < c
  BY <1>5, <1>14
<1>19. \A x \in Requests : page'[x].at # "new" => x <= lastID' \/ ExchangeIntroduced(toHost', x)
  BY <1>4, <1>5, <1>13, <1>14
<1> QED
  BY <1>15, <1>16, <1>17, <1>18, <1>19 DEF ExchangeUploads

\* The worker's steps that send a frame of an exchange that is open.
LEMMA ExchangePageSends ==
  ASSUME ExchangeInv, NEW id \in Requests, NEW e \in ExchangePageType, page' = [page EXCEPT ![id] = e],
         UNCHANGED <<host, toPage, lastID, broken>>,
         NEW kind \in {"body", "end", "credit", "cancel"}, NEW n \in 0..Window,
         toHost' = Append(toHost, Exchange!Frame(kind, id, n)),
         page[id].at = "open", e.at # "new", e.started = page[id].started,
         kind \in {"body", "end"} => page[id].left # -1,
         kind = "end" => e.left = -1, page[id].left = -1 => e.left = -1, kind = "body" => n <= Chunk,
         NEW body \in Nat, NEW credit \in Nat,
         body = IF kind = "body" THEN n ELSE 0, credit = IF kind = "credit" THEN n ELSE 0,
         e.may + body = page[id].may, page[id].granted + credit = e.granted,
         e.granted + e.held <= Window
  PROVE  ExchangeInv'
<1>1. PICK f : f = Exchange!Frame(kind, id, n)
  OBVIOUS
<1>2. /\ f \in Exchange!FrameType /\ f.type = kind /\ f.id = id /\ f.n = n
      /\ ExchangeBodies(id)[f] = body /\ ExchangeCredits(id)[f] = credit
  BY <1>1, ExchangeFrames
<1>3. toHost' = Append(toHost, f)
  BY <1>1
<1>4. ExchangeSends(id, kind, body, credit)
  BY <1>2, <1>3 DEF ExchangeSends
<1>5. ExchangeFlows' /\ toHost' \in Seq(Exchange!FrameType)
  BY <1>4, ExchangePageFlows
<1>6. page'[id] = e /\ \A x \in Requests \ {id} : page'[x] = page[x]
  BY DEF ExchangeInv, ExchangeTypes
<1>7. ExchangeDownloads'
  BY <1>6, ExchangePageDownloads
<1>8. ExchangeUploads'
  BY <1>2, <1>3, ExchangePageUploads
<1>9. ExchangeTypes'
  <2>1. page' \in [Requests -> ExchangePageType]
    BY DEF ExchangeInv, ExchangeTypes
  <2> QED
    BY <1>5, <2>1 DEF ExchangeInv, ExchangeTypes
<1> QED
  BY <1>5, <1>7, <1>8, <1>9 DEF ExchangeInv

LEMMA ExchangeLesserIs ==
  ASSUME NEW a \in Int, NEW b \in Int
  PROVE  Exchange!Lesser(a, b) \in Int /\ Exchange!Lesser(a, b) <= a /\ Exchange!Lesser(a, b) <= b
BY DEF Exchange!Lesser

LEMMA ExchangePageActs ==
  ASSUME ExchangeInv, NEW id \in Requests, Exchange!Upload(id) \/ Exchange!UploadEnds(id) \/ Exchange!Pull(id) \/ Exchange!Cancel(id)
  PROVE  ExchangeInv'
<1>1. /\ ExchangeTypes /\ page[id] \in ExchangePageType /\ page[id].may \in Nat /\ page[id].granted \in Nat
      /\ page[id].held \in Nat /\ page[id].granted + page[id].held <= Window
  BY ExchangeSizes DEF ExchangeInv, ExchangeFlows
<1> DEFINE p == page[id]
<1>2. p.may \in 0..Window /\ p.left \in -1..MaxBody /\ p.left \in Int
  <2>1. p.may \in 0..Window /\ p.left \in -1..MaxBody
    BY <1>1 DEF ExchangePageType
  <2>2. \A x \in -1..MaxBody : x \in Int
    BY ExchangeNumbers
  <2> QED
    BY <2>1, <2>2
<1>3. CASE Exchange!Upload(id)
  <2>1. PICK n \in 1..Exchange!Lesser(Chunk, Exchange!Lesser(p.may, p.left)) :
          /\ page' = [page EXCEPT ![id].may = @ - n, ![id].left = @ - n]
          /\ toHost' = Append(toHost, Exchange!Frame("body", id, n))
    BY <1>3 DEF Exchange!Upload, Exchange!ToHost
  <2>2. /\ n \in Nat /\ n >= 1 /\ n <= Chunk /\ n <= p.may /\ n <= p.left
    <3>1. Chunk \in Int /\ p.may \in Int /\ p.left \in Int
      BY <1>1, <1>2, ExchangeNumbers
    <3>2. PICK k : k = Exchange!Lesser(p.may, p.left)
      OBVIOUS
    <3>3. k \in Int /\ k <= p.may /\ k <= p.left
      BY <3>1, <3>2, ExchangeLesserIs
    <3>4. PICK j : j = Exchange!Lesser(Chunk, k)
      OBVIOUS
    <3>5. j \in Int /\ j <= Chunk /\ j <= k
      BY <3>1, <3>3, <3>4, ExchangeLesserIs
    <3>6. n \in 1..j
      BY <3>2, <3>4
    <3> QED
      BY <3>1, <3>3, <3>5, <3>6
  <2>3. PICK m, l : m = p.may - n /\ l = p.left - n
    OBVIOUS
  <2>4. m \in 0..Window /\ l \in -1..MaxBody /\ m + n = p.may /\ p.left # -1
    BY <1>1, <1>2, <2>2, <2>3, ExchangeNumbers
  <2>5. PICK e : e = [p EXCEPT !.may = m, !.left = l]
    OBVIOUS
  <2>6. /\ e \in ExchangePageType /\ e.may = m /\ e.left = l /\ e.at = p.at /\ e.started = p.started
        /\ e.granted = p.granted /\ e.held = p.held
    BY <1>1, <2>4, <2>5 DEF ExchangePageType
  <2>7. page' = [page EXCEPT ![id] = e]
    BY <1>1, <2>1, <2>3, <2>5 DEF ExchangeTypes
  <2>8. n \in 0..Window /\ p.granted + 0 = e.granted /\ e.may + n = p.may /\ e.granted + e.held <= Window
    BY <1>1, <2>2, <2>4, <2>6, ExchangeNumbers
  <2>9. p.at = "open" /\ UNCHANGED <<host, toPage, lastID, broken>>
    BY <1>3 DEF Exchange!Upload
  <2>10. e.at # "new"
    BY <2>6, <2>9
  <2>20. PICK kind, body, credit : kind = "body" /\ body = n /\ credit = 0
    OBVIOUS
  <2>21. /\ kind \in {"body", "end", "credit", "cancel"} /\ body \in Nat /\ credit \in Nat
    BY <2>20, <2>1, <2>2, <2>4, <2>6, <2>8
  <2>22. body = (IF kind = "body" THEN n ELSE 0) /\ credit = (IF kind = "credit" THEN n ELSE 0)
    BY <2>20
  <2>23. /\ kind \in {"body", "end"} => p.left # -1
         /\ kind = "end" => e.left = -1
         /\ p.left = -1 => e.left = -1
         /\ kind = "body" => n <= Chunk
    BY <2>20, <2>1, <2>2, <2>4, <2>6, <2>8
  <2>24. toHost' = Append(toHost, Exchange!Frame(kind, id, n))
    BY <2>20, <2>1, <2>2, <2>4, <2>6, <2>8
  <2>25. e.may + body = p.may /\ p.granted + credit = e.granted
    BY <2>20, <2>1, <2>2, <2>4, <2>6, <2>8
  <2> QED
    BY <2>6, <2>7, <2>8, <2>9, <2>10, <2>21, <2>22, <2>23, <2>24, <2>25, ExchangePageSends
<1>4. CASE Exchange!UploadEnds(id)
  <2>1. PICK e : e = [p EXCEPT !.left = -1]
    OBVIOUS
  <2>2. /\ e \in ExchangePageType /\ e.may = p.may /\ e.left = -1 /\ e.at = p.at /\ e.started = p.started
        /\ e.granted = p.granted /\ e.held = p.held
    <3>1. -1 \in -1..MaxBody
      BY ExchangeNumbers
    <3> QED
      BY <1>1, <2>1, <3>1 DEF ExchangePageType
  <2>3. page' = [page EXCEPT ![id] = e]
    BY <1>1, <1>4, <2>1 DEF ExchangeTypes, Exchange!UploadEnds
  <2>4. /\ 0 \in 0..Window /\ p.granted + 0 = e.granted /\ e.may + 0 = p.may /\ e.granted + e.held <= Window
        /\ 0 # -1
    BY <1>1, <2>2, ExchangeNumbers
  <2>5. /\ p.at = "open" /\ p.left = 0 /\ UNCHANGED <<host, toPage, lastID, broken>>
        /\ toHost' = Append(toHost, Exchange!Frame("end", id, 0))
    BY <1>4 DEF Exchange!UploadEnds, Exchange!ToHost
  <2>6. e.at # "new" /\ p.left # -1
    BY <2>2, <2>4, <2>5
  <2>20. PICK kind, body, credit : kind = "end" /\ body = 0 /\ credit = 0
    OBVIOUS
  <2>21. /\ kind \in {"body", "end", "credit", "cancel"} /\ body \in Nat /\ credit \in Nat
    BY <2>20, <2>2, <2>4, <2>5, <2>6
  <2>22. body = (IF kind = "body" THEN 0 ELSE 0) /\ credit = (IF kind = "credit" THEN 0 ELSE 0)
    BY <2>20
  <2>23. /\ kind \in {"body", "end"} => p.left # -1
         /\ kind = "end" => e.left = -1
         /\ p.left = -1 => e.left = -1
         /\ kind = "body" => 0 <= Chunk
    BY <2>20, <2>2, <2>4, <2>5, <2>6
  <2>24. toHost' = Append(toHost, Exchange!Frame(kind, id, 0))
    BY <2>20, <2>2, <2>4, <2>5, <2>6
  <2>25. e.may + body = p.may /\ p.granted + credit = e.granted
    BY <2>20, <2>2, <2>4, <2>5, <2>6
  <2> QED
    BY <2>2, <2>3, <2>4, <2>5, <2>6, <2>21, <2>22, <2>23, <2>24, <2>25, ExchangePageSends
<1>5. CASE Exchange!Pull(id)
  <2>1. PICK n : n = Window - p.held - p.granted
    OBVIOUS
  <2>2. /\ n > 0 /\ page' = [page EXCEPT ![id].granted = @ + n]
        /\ toHost' = Append(toHost, Exchange!Frame("credit", id, n))
        /\ p.at = "open" /\ UNCHANGED <<host, toPage, lastID, broken>>
    BY <1>5, <2>1 DEF Exchange!Pull, Exchange!ToHost
  <2>3. PICK g : g = p.granted + n
    OBVIOUS
  <2>4. n \in 0..Window /\ n \in Nat /\ g \in 0..Window /\ p.granted + n = g /\ g + p.held <= Window
    <3>1. PICK h, q : h = p.held /\ q = p.granted
      OBVIOUS
    <3>2. /\ h \in Nat /\ q \in Nat /\ n = Window - h - q /\ n > 0 /\ g = q + n /\ Window \in Nat
      BY <1>1, <2>1, <2>2, <2>3, <3>1, ExchangeNumbers
    <3>3. n \in 0..Window /\ n \in Nat /\ g \in 0..Window /\ q + n = g /\ g + h <= Window
      BY <3>2
    <3> QED
      BY <3>1, <3>3
  <2>5. PICK e : e = [p EXCEPT !.granted = g]
    OBVIOUS
  <2>6. /\ e \in ExchangePageType /\ e.may = p.may /\ e.left = p.left /\ e.at = p.at /\ e.started = p.started
        /\ e.granted = g /\ e.held = p.held
    BY <1>1, <2>4, <2>5 DEF ExchangePageType
  <2>7. page' = [page EXCEPT ![id] = e]
    BY <1>1, <2>2, <2>3, <2>5 DEF ExchangeTypes
  <2>8. e.may + 0 = p.may /\ e.at # "new" /\ 0 \in Nat /\ e.granted + e.held <= Window
    BY <1>1, <2>2, <2>4, <2>6
  <2>20. PICK kind, body, credit : kind = "credit" /\ body = 0 /\ credit = n
    OBVIOUS
  <2>21. /\ kind \in {"body", "end", "credit", "cancel"} /\ body \in Nat /\ credit \in Nat
    BY <2>20, <2>2, <2>4, <2>6, <2>8
  <2>22. body = (IF kind = "body" THEN n ELSE 0) /\ credit = (IF kind = "credit" THEN n ELSE 0)
    BY <2>20
  <2>23. /\ kind \in {"body", "end"} => p.left # -1
         /\ kind = "end" => e.left = -1
         /\ p.left = -1 => e.left = -1
         /\ kind = "body" => n <= Chunk
    BY <2>20, <2>2, <2>4, <2>6, <2>8
  <2>24. toHost' = Append(toHost, Exchange!Frame(kind, id, n))
    BY <2>20, <2>2, <2>4, <2>6, <2>8
  <2>25. e.may + body = p.may /\ p.granted + credit = e.granted
    BY <2>20, <2>2, <2>4, <2>6, <2>8
  <2>26. p.at = "open" /\ UNCHANGED <<host, toPage, lastID, broken>> /\ n \in 0..Window
    BY <2>2, <2>4
  <2> QED
    BY <2>26, <2>6, <2>7, <2>8, <2>21, <2>22, <2>23, <2>24, <2>25, ExchangePageSends
<1>6. CASE Exchange!Cancel(id)
  <2>1. PICK e : e = [p EXCEPT !.at = "done"]
    OBVIOUS
  <2>2. /\ e \in ExchangePageType /\ e.may = p.may /\ e.left = p.left /\ e.at = "done" /\ e.started = p.started
        /\ e.granted = p.granted /\ e.held = p.held
    BY <1>1, <2>1 DEF ExchangePageType
  <2>3. page' = [page EXCEPT ![id] = e]
    BY <1>1, <1>6, <2>1 DEF ExchangeTypes, Exchange!Cancel
  <2>4. /\ 0 \in 0..Window /\ p.granted + 0 = e.granted /\ e.may + 0 = p.may /\ e.granted + e.held <= Window
        /\ 0 \in Nat
    BY <1>1, <2>2, ExchangeNumbers
  <2>5. /\ p.at = "open" /\ UNCHANGED <<host, toPage, lastID, broken>>
        /\ toHost' = Append(toHost, Exchange!Frame("cancel", id, 0))
    BY <1>6 DEF Exchange!Cancel, Exchange!ToHost
  <2> QED
    BY <2>2, <2>3, <2>4, <2>5, ExchangePageSends
<1> QED
  BY <1>3, <1>4, <1>5, <1>6

\* tunnel.request: the next id, which no frame has.
LEMMA ExchangePageAsks == ASSUME ExchangeInv, NEW id \in Requests, Exchange!Ask(id) PROVE ExchangeInv'
<1>1. /\ ExchangeTypes /\ ExchangeUploads /\ toHost \in Seq(Exchange!FrameType) /\ page[id] \in ExchangePageType
      /\ page[id].may \in Nat /\ page[id].granted \in Nat
      /\ page[id].held \in Nat /\ page[id].granted + page[id].held <= Window
  BY ExchangeSizes DEF ExchangeInv, ExchangeFlows, ExchangeTypes
<1>2. PICK body \in 0..MaxBody : page' = [page EXCEPT ![id].at = "open", ![id].left = body]
  BY ExchangeCardinality DEF Exchange!Ask
<1>3. PICK e : e = [page[id] EXCEPT !.at = "open", !.left = body]
  OBVIOUS
<1>4. /\ e \in ExchangePageType /\ e.may = page[id].may /\ e.at = "open" /\ e.started = page[id].started
      /\ e.granted = page[id].granted /\ e.held = page[id].held
  <2>1. body \in -1..MaxBody
    BY ExchangeNumbers
  <2> QED
    BY <1>1, <1>3, <2>1 DEF ExchangePageType
<1>5. /\ page' = [page EXCEPT ![id] = e] /\ page'[id] = e
      /\ \A x \in Requests \ {id} : page'[x] = page[x]
  BY <1>1, <1>2, <1>3 DEF ExchangeTypes
<1>6. PICK f : f = Exchange!Frame("start", id, 0)
  OBVIOUS
<1>7. 0 \in 0..Window /\ 0 \in Nat
  BY ExchangeNumbers
<1>8. f \in Exchange!FrameType /\ f.type = "start" /\ f.id = id /\ ExchangeBodies(id)[f] = 0 /\ ExchangeCredits(id)[f] = 0
  BY <1>6, <1>7, ExchangeFrames
<1>9. /\ toHost' = Append(toHost, f) /\ UNCHANGED <<toPage, host, lastID, broken>>
      /\ page[id].at = "new" /\ \A other \in Requests : other < id => page[other].at # "new"
  BY <1>6, ExchangeCardinality DEF Exchange!Ask, Exchange!ToHost
<1>10. ExchangeFlows' /\ toHost' \in Seq(Exchange!FrameType)
  <2>1. ExchangeSends(id, "start", 0, 0)
    BY <1>8, <1>9 DEF ExchangeSends
  <2>2. e.may + 0 = page[id].may /\ page[id].granted + 0 = e.granted /\ e.granted + e.held <= Window
    BY <1>1, <1>4
  <2> QED
    BY <1>4, <1>5, <1>7, <1>9, <2>1, <2>2, ExchangePageFlows
<1>11. ExchangeTypes'
  <2>1. page' \in [Requests -> ExchangePageType]
    BY <1>1, <1>4, <1>5 DEF ExchangeTypes
  <2> QED
    BY <1>1, <1>9, <1>10, <2>1 DEF ExchangeTypes
<1>12. ExchangeDownloads'
  <2>1. \A x \in Requests : /\ page'[x].started = page[x].started
                            /\ page[x].at = "done" => page'[x].at = "done"
                            /\ page[x].at # "new" => page'[x].at # "new"
    BY <1>4, <1>5, <1>9
  <2> QED
    BY <1>9, <2>1, ExchangePageDownloads
<1> DEFINE u == toHost
           v == Append(toHost, f)
<1>13. /\ v \in Seq(Exchange!FrameType) /\ Len(u) \in Nat /\ Len(v) = Len(u) + 1 /\ v[Len(u) + 1] = f
       /\ \A i \in 1..Len(u) : v[i] = u[i] /\ i \in 1..Len(v)
       /\ \A i \in 1..Len(v) : i \in 1..Len(u) \/ i = Len(u) + 1
       /\ Len(u) + 1 \in 1..Len(v)
  BY <1>1, <1>8, ExchangeLastFrame
<1>14. \A i \in 1..Len(u) : u[i].id \in Requests
  BY <1>1, ExchangeElementTypes
<1>15. toHost' = v
  BY <1>9
<1> HIDE DEF u, v
<1>16. /\ ExchangeOrdered(u, lastID) /\ ExchangeEnding(u) /\ ExchangeSized(u)
       /\ \A i \in 1..Len(u) : ExchangeAsking(u[i], page, host)
       /\ \A x \in Requests : host[x].ended => page[x].left = -1 /\ page[x].at # "new"
       /\ lastID # 0 => lastID \in Requests /\ page[lastID].at # "new"
       /\ \A c, x \in Requests : page[x].at # "new" /\ page[c].at = "new" => x < c
       /\ \A x \in Requests : page[x].at # "new" => x <= lastID \/ ExchangeIntroduced(u, x)
  BY <1>1 DEF ExchangeUploads, u
<1>17. \A i, j \in 1..Len(v) : i < j => i \in 1..Len(u)
  BY <1>13
<1>18. \A i \in 1..Len(u) : page[u[i].id].at # "new" /\ u[i].id < id /\ u[i].id # id
  <2>1. \A i \in 1..Len(u) : page[u[i].id].at # "new"
    BY <1>16 DEF ExchangeAsking
  <2> QED
    BY <1>9, <1>14, <1>16, <2>1
<1>19. id > lastID
  <2>1. lastID \in Nat /\ id \in Nat \ {0}
    BY <1>1, ExchangeNumbers DEF ExchangeTypes
  <2>2. lastID # 0 => lastID < id
    BY <1>9, <1>16
  <2> QED
    BY <2>1, <2>2
<1>20. ExchangeOrdered(v, lastID)
  <2>1. \A i \in 1..Len(v) : v[i].type = "start" => v[i].id > lastID
    BY <1>8, <1>13, <1>16, <1>19 DEF ExchangeOrdered
  <2>2. ASSUME NEW i \in 1..Len(v), NEW j \in 1..Len(v), i < j, v[i].type = "start", v[j].type = "start"
        PROVE  v[i].id < v[j].id
    <3>1. i \in 1..Len(u) /\ v[i] = u[i]
      BY <1>13, <1>17, <2>2
    <3>2. CASE j \in 1..Len(u)
      BY <1>13, <1>16, <2>2, <3>1, <3>2 DEF ExchangeOrdered
    <3>3. CASE j = Len(u) + 1
      BY <1>8, <1>13, <1>18, <3>1, <3>3
    <3> QED
      BY <1>13, <3>2, <3>3
  <2>3. ASSUME NEW i \in 1..Len(v), v[i].type # "start"
        PROVE  v[i].id <= lastID \/ \E j \in 1..Len(v) : j < i /\ v[j].type = "start" /\ v[j].id = v[i].id
    <3>1. i \in 1..Len(u) /\ v[i] = u[i]
      BY <1>8, <1>13, <2>3
    <3> QED
      BY <1>13, <1>16, <2>3, <3>1 DEF ExchangeOrdered
  <2> QED
    BY <2>1, <2>2, <2>3 DEF ExchangeOrdered
<1>21. ExchangeEnding(v)
  <2>1. ASSUME NEW i \in 1..Len(v), NEW j \in 1..Len(v), i < j, v[i].type = "end", v[j].id = v[i].id
        PROVE  v[j].type \notin {"body", "end"}
    <3>1. i \in 1..Len(u) /\ v[i] = u[i]
      BY <1>13, <1>17, <2>1
    <3>2. CASE j \in 1..Len(u)
      BY <1>13, <1>16, <2>1, <3>1, <3>2 DEF ExchangeEnding
    <3>3. CASE j = Len(u) + 1
      BY <1>8, <1>13, <3>3
    <3> QED
      BY <1>13, <3>2, <3>3
  <2> QED
    BY <2>1 DEF ExchangeEnding
<1>22. ExchangeSized(v)
  BY <1>8, <1>13, <1>16 DEF ExchangeSized
<1>23. ASSUME NEW i \in 1..Len(v) PROVE ExchangeAsking(v[i], page', host')
  <2>1. CASE i \in 1..Len(u)
    BY <1>5, <1>9, <1>13, <1>14, <1>16, <1>18, <2>1 DEF ExchangeAsking
  <2>2. CASE i = Len(u) + 1
    BY <1>4, <1>5, <1>8, <1>13, <2>2 DEF ExchangeAsking
  <2> QED
    BY <1>13, <2>1, <2>2
<1>24. \A x \in Requests : host'[x].ended => page'[x].left = -1 /\ page'[x].at # "new"
  BY <1>5, <1>9, <1>16
<1>25. lastID' # 0 => lastID' \in Requests /\ page'[lastID'].at # "new"
  BY <1>4, <1>5, <1>9, <1>16
<1>26. ASSUME NEW c \in Requests, NEW x \in Requests, page'[x].at # "new", page'[c].at = "new"
       PROVE  x < c
  <2>1. c # id /\ page[c].at = "new"
    BY <1>4, <1>5, <1>26
  <2>2. CASE x = id
    <3>1. ~(c < id)
      BY <1>9, <2>1
    <3>2. c \in Nat /\ id \in Nat
      BY ExchangeNumbers
    <3> QED
      BY <2>1, <2>2, <3>1, <3>2
  <2>3. CASE x # id
    BY <1>5, <1>16, <1>26, <2>1, <2>3
  <2> QED
    BY <2>2, <2>3
<1>27. \A x \in Requests : page'[x].at # "new" => x <= lastID' \/ ExchangeIntroduced(toHost', x)
  <2>1. ExchangeIntroduced(v, id)
    BY <1>8, <1>13 DEF ExchangeIntroduced
  <2>2. \A x \in Requests : ExchangeIntroduced(u, x) => ExchangeIntroduced(v, x)
    BY <1>13 DEF ExchangeIntroduced
  <2> QED
    BY <1>5, <1>9, <1>15, <1>16, <2>1, <2>2
<1>28. ExchangeUploads'
  <2>1. /\ ExchangeOrdered(toHost', lastID') /\ ExchangeEnding(toHost') /\ ExchangeSized(toHost')
        /\ \A i \in 1..Len(toHost') : ExchangeAsking(toHost'[i], page', host')
    BY <1>9, <1>15, <1>20, <1>21, <1>22, <1>23
  <2> QED
    BY <1>24, <1>25, <1>26, <1>27, <2>1 DEF ExchangeUploads
<1> QED
  BY <1>10, <1>11, <1>12, <1>28 DEF ExchangeInv

LEMMA ExchangeUploadsStay ==
  ASSUME ExchangeTypes, ExchangeUploads, UNCHANGED <<toHost, lastID>>,
         \A x \in Requests : /\ (page'[x].at = "new") = (page[x].at = "new")
                             /\ page'[x].left = page[x].left /\ host'[x].ended = host[x].ended
  PROVE  ExchangeUploads'
<1>1. \A i \in 1..Len(toHost) : toHost[i].id \in Requests
  BY ExchangeElementTypes DEF ExchangeTypes
<1>2. \A i \in 1..Len(toHost) : ExchangeAsking(toHost[i], page', host')
  BY <1>1 DEF ExchangeUploads, ExchangeAsking
<1>3. /\ ExchangeOrdered(toHost', lastID') /\ ExchangeEnding(toHost') /\ ExchangeSized(toHost')
      /\ \A i \in 1..Len(toHost') : ExchangeAsking(toHost'[i], page', host')
  BY <1>2 DEF ExchangeUploads
<1>4. \A x \in Requests : host'[x].ended => page'[x].left = -1 /\ page'[x].at # "new"
  BY DEF ExchangeUploads
<1>5. lastID' # 0 => lastID' \in Requests /\ page'[lastID'].at # "new"
  BY DEF ExchangeUploads
<1>6. \A c, x \in Requests : page'[x].at # "new" /\ page'[c].at = "new" => x < c
  BY DEF ExchangeUploads
<1>7. \A x \in Requests : page'[x].at # "new" => x <= lastID' \/ ExchangeIntroduced(toHost', x)
  BY DEF ExchangeUploads
<1> QED
  BY <1>3, <1>4, <1>5, <1>6, <1>7 DEF ExchangeUploads

\* A step of the worker that the host will not be told of.
LEMMA ExchangePageChanges ==
  ASSUME ExchangeInv, NEW id \in Requests, NEW e \in ExchangePageType, page' = [page EXCEPT ![id] = e],
         UNCHANGED <<toHost, toPage, host, lastID, broken>>,
         e.at = page[id].at, e.may = page[id].may, e.left = page[id].left,
         e.granted = page[id].granted, e.started = page[id].started, e.granted + e.held <= Window
  PROVE  ExchangeInv'
<1>1. /\ ExchangeTypes /\ ExchangeFlows /\ ExchangeUploads
      /\ page'[id] = e /\ \A x \in Requests \ {id} : page'[x] = page[x]
  BY DEF ExchangeInv, ExchangeTypes
<1>2. ExchangeTypes'
  BY <1>1 DEF ExchangeTypes
<1>3. \A x \in Requests : /\ page'[x].at = page[x].at /\ page'[x].may = page[x].may
                          /\ page'[x].left = page[x].left /\ page'[x].granted = page[x].granted
                          /\ page'[x].started = page[x].started
                          /\ page'[x].granted + page'[x].held <= Window
  BY <1>1 DEF ExchangeFlows
<1>4. ExchangeFlows'
  <2>1. ASSUME NEW x \in Requests
        PROVE  /\ ExchangeUpFlow(x)' /\ ExchangeDownFlow(x)' /\ ExchangeBuffered(host'[x])
               /\ page'[x].granted + page'[x].held <= Window
               /\ ExchangeIdle(x)' => host'[x] = Exchange!Unused /\ page'[x].may = 0
    <3>1. /\ ExchangeUpFlow(x) /\ ExchangeDownFlow(x) /\ ExchangeBuffered(host[x])
          /\ ExchangeIdle(x) => host[x] = Exchange!Unused /\ page[x].may = 0
      BY <1>1 DEF ExchangeFlows
    <3>2. ExchangeIdle(x)' = ExchangeIdle(x)
      BY DEF ExchangeIdle
    <3>3. ExchangeUpFlow(x)' /\ ExchangeDownFlow(x)'
      BY <1>3, <3>1, <3>2 DEF ExchangeUpFlow, ExchangeDownFlow
    <3> QED
      BY <1>3, <3>1, <3>2, <3>3
  <2> QED
    BY <2>1 DEF ExchangeFlows
<1>5. ExchangeDownloads'
  BY <1>3, ExchangePageDownloads
<1>6. ExchangeUploads'
  BY <1>1, <1>3, ExchangeUploadsStay
<1> QED
  BY <1>2, <1>4, <1>5, <1>6 DEF ExchangeInv

LEMMA ExchangePageConsumes == ASSUME ExchangeInv, NEW id \in Requests, Exchange!Consume(id) PROVE ExchangeInv'
<1>1. PICK e : e = [page[id] EXCEPT !.held = 0]
  OBVIOUS
<1>2. /\ ExchangeTypes /\ page[id] \in ExchangePageType /\ page[id].granted \in Nat
      /\ page[id].held \in Nat /\ page[id].granted + page[id].held <= Window
  BY ExchangeSizes DEF ExchangeInv, ExchangeFlows
<1>3. /\ e \in ExchangePageType /\ e.may = page[id].may /\ e.left = page[id].left /\ e.at = page[id].at
      /\ e.started = page[id].started /\ e.granted = page[id].granted /\ e.held = 0
  <2>1. 0 \in 0..Window
    BY ExchangeNumbers
  <2> QED
    BY <1>1, <1>2, <2>1 DEF ExchangePageType
<1>4. e.granted + e.held <= Window
  BY <1>2, <1>3, ExchangeNumbers
<1>5. page' = [page EXCEPT ![id] = e] /\ UNCHANGED <<toHost, toPage, host, lastID, broken>>
  BY <1>1, <1>2 DEF Exchange!Consume, ExchangeTypes
<1> QED
  BY <1>3, <1>4, <1>5, ExchangePageChanges

-----------------------------------------------------------------------------

\* receive: the first frame to the worker changes its end of the exchange so.
LEMMA ExchangePageGets ==
  ASSUME ExchangeInv, toPage # << >>, toPage' = Tail(toPage), UNCHANGED <<toHost, host, lastID, broken>>,
         NEW id \in Requests, id = Head(toPage).id,
         NEW e \in ExchangePageType, page' = [page EXCEPT ![id] = e], e.left = page[id].left,
         e.may <= page[id].may + ExchangeCredits(id)[Head(toPage)],
         page[id].granted <= e.granted + ExchangeBodies(id)[Head(toPage)], e.granted + e.held <= Window,
         (e.at = "new") = (page[id].at = "new"), page[id].at = "done" => e.at = "done",
         page[id].started => e.started, e.started => page[id].started \/ Head(toPage).type = "start",
         Head(toPage).type = "start" => e.started \/ e.at = "done"
  PROVE  ExchangeInv'
<1>1. /\ ExchangeTypes /\ ExchangeFlows /\ ExchangeUploads /\ ExchangeDownloads /\ toPage \in Seq(Exchange!FrameType)
      /\ page'[id] = e /\ \A x \in Requests \ {id} : page'[x] = page[x]
  BY DEF ExchangeInv, ExchangeTypes
<1> DEFINE d == toPage
           t == Tail(toPage)
<1>2. PICK f : f = Head(d)
  OBVIOUS
<1>3. /\ f \in Exchange!FrameType /\ t \in Seq(Exchange!FrameType) /\ f.id = id
      /\ Len(t) = Len(d) - 1 /\ Len(d) \in Nat /\ 1 \in 1..Len(d) /\ d[1] = f
      /\ \A i \in 1..Len(t) : i + 1 \in 1..Len(d) /\ t[i] = d[i + 1]
  BY <1>1, <1>2, ExchangeHeadFrame
<1>4. toPage' = t
  OBVIOUS
<1> HIDE DEF d, t
<1>5. ExchangeTypes'
  <2>1. page' \in [Requests -> ExchangePageType]
    BY <1>1 DEF ExchangeTypes
  <2> QED
    BY <1>1, <1>3, <1>4, <2>1 DEF ExchangeTypes
<1>6. e.may \in Nat /\ e.granted \in Nat
  <2>1. \A n \in 0..Window : n \in Nat
    BY ExchangeNumbers
  <2> QED
    BY <2>1 DEF ExchangePageType
<1>7. ExchangeFlows'
  <2>1. ASSUME NEW x \in Requests
        PROVE  /\ ExchangeUpFlow(x)' /\ ExchangeDownFlow(x)' /\ ExchangeBuffered(host'[x])
               /\ page'[x].granted + page'[x].held <= Window
               /\ ExchangeIdle(x)' => host'[x] = Exchange!Unused /\ page'[x].may = 0
    <3>1. /\ ExchangeUpFlow(x) /\ ExchangeDownFlow(x) /\ ExchangeBuffered(host[x])
          /\ page[x].granted + page[x].held <= Window
          /\ ExchangeIdle(x) => host[x] = Exchange!Unused /\ page[x].may = 0
      BY <1>1 DEF ExchangeFlows
    <3>2. ExchangeBodies(x) \in [Exchange!FrameType -> Nat] /\ ExchangeCredits(x) \in [Exchange!FrameType -> Nat]
      BY ExchangeWeights
    <3>3. PICK b, c \in Nat : b = ExchangeBodies(x)[f] /\ c = ExchangeCredits(x)[f]
      BY <1>3, <3>2
    <3>4. x # id => b = 0 /\ c = 0
      BY <1>3, <3>3 DEF ExchangeBodies, ExchangeCredits
    <3>5. ExchangeIdle(x)' = ExchangeIdle(x) /\ host'[x] = host[x]
      BY DEF ExchangeIdle
    <3>6. PICK m, n, w, g, h : /\ m = page[x].may /\ n = page'[x].may /\ w = ExchangeWritten(host[x])
                               /\ g = page[x].granted /\ h = page'[x].granted
      OBVIOUS
    <3>7. PICK q, r, idle : q = host[x].uploaded /\ r = host[x].credit /\ idle = ExchangeIdle(x)
      OBVIOUS
    <3>8. m \in Nat /\ w \in Nat /\ g \in Nat /\ q \in Nat /\ r \in Nat /\ m + w \in Nat
      BY <1>1, <3>6, <3>7, ExchangeSizes
    <3>9. n \in Nat /\ h \in Nat /\ n <= m + c /\ g <= h + b
      <4>1. CASE x = id
        BY <1>1, <1>2, <1>6, <3>3, <3>6, <4>1 DEF d
      <4>2. CASE x # id
        <5>1. n = m /\ h = g
          BY <1>1, <3>6, <4>2
        <5> QED
          BY <3>4, <3>8, <4>2, <5>1
      <4> QED
        BY <4>1, <4>2
    <3>10. n + w \in Nat
      BY <3>8, <3>9
    <3>11. Flow(toHost, ExchangeBodies(x), d, ExchangeCredits(x), m + w, q, idle)
      BY <3>1, <3>6, <3>7 DEF ExchangeUpFlow, d
    <3>12. Flow(d, ExchangeCredits(x), toHost, ExchangeBodies(x), m + w, q, idle)
      BY <3>8, <3>11, FlowTurned
    <3>13. /\ idle => c = 0
           /\ \A i, j \in Nat : i + q <= (m + w) + c + j => Flow(t, ExchangeCredits(x), toHost, ExchangeBodies(x), i, j, idle)
      <4>1. d # << >> /\ d \in Seq(Exchange!FrameType) /\ t = Tail(d)
        BY <1>1 DEF d, t
      <4>2. PICK k \in Nat : k = m + w
        BY <3>8
      <4>3. Flow(d, ExchangeCredits(x), toHost, ExchangeBodies(x), k, q, idle)
        BY <3>12, <4>2
      <4>4. c = ExchangeCredits(x)[Head(d)]
        BY <1>2, <3>3
      <4>5. /\ idle => c = 0
            /\ \A i, j \in Nat : i + q <= k + c + j => Flow(t, ExchangeCredits(x), toHost, ExchangeBodies(x), i, j, idle)
        <5>1. PICK v : v = ExchangeCredits(x)
          OBVIOUS
        <5>2. v \in [Exchange!FrameType -> Nat] /\ Flow(d, v, toHost, ExchangeBodies(x), k, q, idle)
          BY <3>2, <4>3, <5>1
        <5>3. /\ v[Head(d)] \in Nat /\ (idle => v[Head(d)] = 0)
              /\ \A i, j \in Nat : i + q <= k + v[Head(d)] + j =>
                   Flow(Tail(d), v, toHost, ExchangeBodies(x), i, j, idle)
          BY <3>8, <4>1, <4>2, <5>2, FlowShrinks, Zenon
        <5> QED
          BY <4>1, <4>4, <5>1, <5>3
      <4> QED
        BY <4>2, <4>5
    <3>14. ExchangeUpFlow(x)'
      <4>1. (n + w) + q <= (m + w) + c + q
        BY <3>3, <3>8, <3>9
      <4>2. Flow(t, ExchangeCredits(x), toHost, ExchangeBodies(x), n + w, q, idle)
        BY <3>8, <3>10, <3>13, <4>1
      <4>3. Flow(toHost, ExchangeBodies(x), t, ExchangeCredits(x), n + w, q, idle)
        BY <3>8, <3>10, <4>2, FlowTurned
      <4> QED
        BY <1>4, <3>5, <3>6, <3>7, <4>3 DEF ExchangeUpFlow
    <3>15. ExchangeDownFlow(x)'
      <4>1. Flow(toHost, ExchangeCredits(x), d, ExchangeBodies(x), r, g, FALSE)
        BY <3>1, <3>6, <3>7 DEF ExchangeDownFlow, d
      <4>2. Flow(d, ExchangeBodies(x), toHost, ExchangeCredits(x), r, g, FALSE)
        BY <3>8, <4>1, FlowTurned
      <4>3. \A i, j \in Nat : i + g <= r + b + j => Flow(t, ExchangeBodies(x), toHost, ExchangeCredits(x), i, j, FALSE)
        <5>1. d # << >> /\ d \in Seq(Exchange!FrameType) /\ t = Tail(d)
          BY <1>1 DEF d, t
        <5> QED
          BY <1>2, <3>2, <3>3, <3>8, <4>2, <5>1, FlowShrinks
      <4>4. r + g <= r + b + h
        BY <3>3, <3>8, <3>9
      <4>5. Flow(t, ExchangeBodies(x), toHost, ExchangeCredits(x), r, h, FALSE)
        BY <3>8, <3>9, <4>3, <4>4
      <4>6. Flow(toHost, ExchangeCredits(x), t, ExchangeBodies(x), r, h, FALSE)
        BY <3>8, <3>9, <4>5, FlowTurned
      <4> QED
        BY <1>4, <3>5, <3>6, <3>7, <4>6 DEF ExchangeDownFlow
    <3>16. page'[x].granted + page'[x].held <= Window
      BY <1>1, <3>1
    <3>17. idle => n = 0
      <4>1. idle => m = 0 /\ c = 0
        BY <3>1, <3>6, <3>7, <3>13
      <4> QED
        BY <3>9, <4>1
    <3> QED
      BY <3>1, <3>5, <3>6, <3>7, <3>14, <3>15, <3>16, <3>17
  <2> QED
    BY <2>1 DEF ExchangeFlows
<1>8. ExchangeUploads'
  <2>1. \A x \in Requests : /\ (page'[x].at = "new") = (page[x].at = "new")
                            /\ page'[x].left = page[x].left /\ host'[x].ended = host[x].ended
    BY <1>1
  <2> QED
    BY <1>1, <2>1, ExchangeUploadsStay
<1>9. ExchangeDownloads'
  <2>1. /\ ExchangeOneStart(d) /\ ExchangeFollows(d, page)
        /\ \A i \in 1..Len(d) :
             /\ d[i].type = "start" => ~page[d[i].id].started /\ host[d[i].id].run \notin {"no", "doing"}
             /\ d[i].type \in {"start", "body"} => page[d[i].id].at # "new"
        /\ \A x \in Requests :
             /\ host[x].run \in {"no", "doing"} => ~page[x].started
             /\ host[x].run = "body" => ExchangeSeen(d, page, x)
             /\ host[x].run # "no" => page[x].at # "new"
    BY <1>1 DEF ExchangeDownloads, d
  <2>2. \A x \in Requests : /\ (page'[x].at = "new") = (page[x].at = "new")
                            /\ page[x].at = "done" => page'[x].at = "done"
                            /\ page[x].started => page'[x].started
                            /\ page'[x].started => page[x].started \/ (f.type = "start" /\ f.id = x)
                            /\ f.type = "start" /\ f.id = x => page'[x].started \/ page'[x].at = "done"
    BY <1>1, <1>2, <1>3 DEF d
  <2>3. \A i \in 1..Len(t) : t[i].id \in Requests
    BY <1>3, ExchangeElementTypes
  <2>4. \A i, j \in 1..Len(t) : (i + 1 = j + 1 => i = j) /\ (i < j <=> i + 1 < j + 1) /\ i + 1 # 1
    BY <1>3
  <2>5. \A k \in 1..Len(d) : k = 1 \/ (k - 1 \in 1..Len(t) /\ t[k - 1] = d[k])
    <3>1. \A k \in 1..Len(d) : k = 1 \/ (k - 1 \in 1..Len(t) /\ (k - 1) + 1 = k)
      BY <1>3
    <3> QED
      BY <1>3, <3>1
  <2>6. ExchangeOneStart(t)
    BY <1>3, <2>1, <2>4, ZenonT(60) DEF ExchangeOneStart
  <2>7. ExchangeFollows(t, page')
    <3>1. ASSUME NEW i \in 1..Len(t), t[i].type = "body"
          PROVE  \/ page'[t[i].id].at = "done" \/ page'[t[i].id].started
                 \/ \E j \in 1..Len(t) : j < i /\ t[j].type = "start" /\ t[j].id = t[i].id
      <4>1. \/ page[t[i].id].at = "done" \/ page[t[i].id].started
            \/ \E j \in 1..Len(d) : j < i + 1 /\ d[j].type = "start" /\ d[j].id = t[i].id
        <5>1. i + 1 \in 1..Len(d) /\ t[i] = d[i + 1] /\ d[i + 1].type = "body"
          BY <1>3, <3>1
        <5> QED
          BY <2>1, <5>1 DEF ExchangeFollows
      <4>2. ASSUME NEW j \in 1..Len(d), j < i + 1, d[j].type = "start", d[j].id = t[i].id
            PROVE  \/ page'[t[i].id].at = "done" \/ page'[t[i].id].started
                   \/ \E k \in 1..Len(t) : k < i /\ t[k].type = "start" /\ t[k].id = t[i].id
        <5>1. CASE j = 1
          BY <1>3, <2>2, <2>3, <4>2, <5>1
        <5>2. CASE j - 1 \in 1..Len(t) /\ t[j - 1] = d[j]
          <6>1. j - 1 < i
            BY <1>3, <4>2
          <6> QED
            BY <4>2, <5>2, <6>1
        <5> QED
          BY <2>5, <5>1, <5>2
      <4> QED
        BY <2>2, <2>3, <4>1, <4>2
    <3> QED
      BY <3>1 DEF ExchangeFollows
  <2>8. ASSUME NEW i \in 1..Len(t)
        PROVE  /\ t[i].type = "start" => ~page'[t[i].id].started /\ host'[t[i].id].run \notin {"no", "doing"}
               /\ t[i].type \in {"start", "body"} => page'[t[i].id].at # "new"
    <3>1. f.type = "start" /\ t[i].type = "start" => f.id # t[i].id
      BY <1>3, <2>1, <2>4 DEF ExchangeOneStart
    <3>2. i + 1 \in 1..Len(d) /\ t[i] = d[i + 1]
      BY <1>3
    <3>3. /\ t[i].type = "start" => ~page[t[i].id].started /\ host[t[i].id].run \notin {"no", "doing"}
          /\ t[i].type \in {"start", "body"} => page[t[i].id].at # "new"
      BY <2>1, <3>2
    <3>4. t[i].type = "start" => ~page'[t[i].id].started
      BY <2>2, <2>3, <3>1, <3>3
    <3>5. t[i].type \in {"start", "body"} => page'[t[i].id].at # "new"
      BY <2>2, <2>3, <3>3
    <3> QED
      BY <3>3, <3>4, <3>5
  <2>9. \A x \in Requests : host'[x].run \in {"no", "doing"} => ~page'[x].started
    BY <1>3, <2>1, <2>2
  <2>10. \A x \in Requests : ExchangeSeen(d, page, x) => ExchangeSeen(t, page', x)
    <3>1. ASSUME NEW x \in Requests, ExchangeStarted(d, x) PROVE ExchangeSeen(t, page', x)
      <4>1. PICK k \in 1..Len(d) : d[k].type = "start" /\ d[k].id = x
        BY <3>1 DEF ExchangeStarted
      <4>2. CASE k = 1
        BY <1>3, <2>2, <4>1, <4>2 DEF ExchangeSeen
      <4>3. CASE k - 1 \in 1..Len(t) /\ t[k - 1] = d[k]
        BY <4>1, <4>3 DEF ExchangeSeen, ExchangeStarted
      <4> QED
        BY <2>5, <4>2, <4>3
    <3> QED
      BY <2>2, <3>1 DEF ExchangeSeen
  <2>11. \A x \in Requests : /\ host'[x].run = "body" => ExchangeSeen(t, page', x)
                             /\ host'[x].run # "no" => page'[x].at # "new"
    BY <2>1, <2>2, <2>10
  <2> QED
    BY <1>4, <2>6, <2>7, <2>8, <2>9, <2>11 DEF ExchangeDownloads
<1> QED
  BY <1>5, <1>7, <1>8, <1>9 DEF ExchangeInv

LEMMA ExchangePageTakesOne == ASSUME ExchangeInv, Exchange!PageReceives PROVE ExchangeInv'
<1>1. /\ ExchangeTypes /\ ExchangeFlows /\ ExchangeUploads /\ ExchangeDownloads /\ toPage \in Seq(Exchange!FrameType)
      /\ toPage # << >> /\ toPage' = Tail(toPage) /\ UNCHANGED <<toHost, host, lastID>>
  BY DEF ExchangeInv, ExchangeTypes, Exchange!PageReceives
<1>2. PICK f : f = Head(toPage)
  OBVIOUS
<1>3. PICK id : id = f.id
  OBVIOUS
<1>4. /\ f \in Exchange!FrameType /\ id \in Requests /\ f.n \in 0..Window /\ Len(toPage) \in Nat
      /\ 1 \in 1..Len(toPage) /\ toPage[1] = f
      /\ f.type \in {"start", "body", "end", "error", "cancel", "credit"}
  BY <1>1, <1>2, <1>3, ExchangeHeadFrame
<1>5. f.n \in Nat /\ Window \in Nat /\ Window \in Int
  BY <1>4, ExchangeNumbers
<1>6. /\ ExchangeBodies(id)[f] = (IF f.type = "body" THEN f.n ELSE 0)
      /\ ExchangeCredits(id)[f] = (IF f.type = "credit" THEN f.n ELSE 0)
  BY <1>3, <1>4 DEF ExchangeBodies, ExchangeCredits
<1>7. PICK p : p = page[id]
  OBVIOUS
<1>8. /\ p \in ExchangePageType /\ p.may \in Nat /\ p.granted \in Nat /\ p.held \in Nat
      /\ p.granted + p.held <= Window /\ host[id].uploaded \in Nat /\ host[id].credit \in Nat
      /\ ExchangeWritten(host[id]) \in Nat /\ host[id].uploaded <= Window
  <2>1. host[id].uploaded \in 0..Window
    BY <1>1, <1>4 DEF ExchangeTypes, ExchangeHostType
  <2>2. host[id].uploaded <= Window
    BY <1>5, <2>1
  <2> QED
    BY <1>1, <1>4, <1>7, <2>2, ExchangeSizes DEF ExchangeFlows
<1>9. /\ ExchangeBodies(id) \in [Exchange!FrameType -> Nat] /\ ExchangeCredits(id) \in [Exchange!FrameType -> Nat]
  BY <1>4, ExchangeWeights
<1>10. p.may + ExchangeCredits(id)[f] <= Window
  <2>1. PICK m, w, q, idle : m = p.may /\ w = ExchangeWritten(host[id]) /\ q = host[id].uploaded /\ idle = ExchangeIdle(id)
    OBVIOUS
  <2>2. m \in Nat /\ w \in Nat /\ q \in Nat /\ q <= Window /\ m + w \in Nat
    BY <1>8, <2>1
  <2>3. Flow(toHost, ExchangeBodies(id), toPage, ExchangeCredits(id), m + w, q, idle)
    BY <1>1, <1>4, <1>7, <2>1 DEF ExchangeFlows, ExchangeUpFlow
  <2>4. Flow(toPage, ExchangeCredits(id), toHost, ExchangeBodies(id), m + w, q, idle)
    BY <2>2, <2>3, FlowTurned
  <2>5. ExchangeCredits(id)[f] \in Nat /\ (m + w) + ExchangeCredits(id)[f] <= q
    BY <1>1, <1>2, <1>9, <2>2, <2>4, FlowShrinks
  <2>6. PICK c \in Nat : c = ExchangeCredits(id)[f]
    BY <2>5
  <2>7. m + c <= Window
    BY <1>5, <2>2, <2>5, <2>6
  <2> QED
    BY <2>1, <2>6, <2>7
<1>11. ExchangeBodies(id)[f] <= p.granted
  <2>1. PICK r, g : r = host[id].credit /\ g = p.granted
    OBVIOUS
  <2>2. r \in Nat /\ g \in Nat
    BY <1>8, <2>1
  <2>3. Flow(toHost, ExchangeCredits(id), toPage, ExchangeBodies(id), r, g, FALSE)
    BY <1>1, <1>4, <1>7, <2>1 DEF ExchangeFlows, ExchangeDownFlow
  <2>4. Flow(toPage, ExchangeBodies(id), toHost, ExchangeCredits(id), r, g, FALSE)
    BY <2>2, <2>3, FlowTurned
  <2>5. ExchangeBodies(id)[f] \in Nat /\ r + ExchangeBodies(id)[f] <= g
    BY <1>1, <1>2, <1>9, <2>2, <2>4, FlowShrinks
  <2>6. PICK c \in Nat : c = ExchangeBodies(id)[f]
    BY <2>5
  <2>7. c <= g
    BY <2>2, <2>5, <2>6
  <2> QED
    BY <2>1, <2>6, <2>7
<1>12. f.type = "start" => ~p.started
  BY <1>1, <1>3, <1>4, <1>7 DEF ExchangeDownloads
<1>13. f.type = "body" => p.started \/ p.at = "done"
  <2>1. \A j \in 1..Len(toPage) : ~(j < 1)
    BY <1>4
  <2> QED
    BY <1>1, <1>3, <1>4, <1>7, <2>1 DEF ExchangeDownloads, ExchangeFollows
<1>14. /\ \/ p.at # "open" /\ UNCHANGED <<page, broken>>
          \/ /\ p.at = "open" /\ f.type = "credit"
             /\ page' = [page EXCEPT ![id].may = @ + f.n] /\ UNCHANGED broken
          \/ /\ p.at = "open" /\ f.type = "start" /\ UNCHANGED broken
             /\ page' = [page EXCEPT ![id].started = TRUE]
          \/ /\ p.at = "open" /\ f.type = "body"
             /\ page' = [page EXCEPT ![id].granted = @ - f.n, ![id].held = @ + f.n] /\ UNCHANGED broken
          \/ /\ p.at = "open" /\ f.type \in {"end", "error"}
             /\ page' = [page EXCEPT ![id].at = "done"] /\ UNCHANGED broken
  <2>1. f.type = "credit" => ~(p.may + f.n > Window)
    <3>1. f.type = "credit" => p.may + f.n <= Window
      BY <1>6, <1>10
    <3> QED
      BY <1>5, <1>8, <3>1
  <2>2. f.type = "body" => ~(f.n > p.granted)
    <3>1. f.type = "body" => f.n <= p.granted
      BY <1>6, <1>11
    <3> QED
      BY <1>5, <1>8, <3>1
  <2>3. p.at = "open" /\ f.type = "body" => p.started
    BY <1>13
  <2> QED
    BY <1>2, <1>3, <1>7, <1>12, <2>1, <2>2, <2>3 DEF Exchange!PageReceives, Exchange!PageTakes
<1>15. /\ 0 \in 0..Window /\ p.may <= p.may /\ p.granted <= p.granted
       /\ p.may <= p.may + 0 /\ p.granted <= p.granted + 0
       /\ p.may <= p.may + f.n /\ p.granted <= p.granted + f.n
  BY <1>5, <1>8
<1>16. PICK b, c : b = ExchangeBodies(id)[f] /\ c = ExchangeCredits(id)[f]
  OBVIOUS
<1>17. b \in Nat /\ c \in Nat
  BY <1>4, <1>9, <1>16
<1>18. CASE p.at # "open" /\ UNCHANGED <<page, broken>>
  <2>1. page' = [page EXCEPT ![id] = p]
    BY <1>1, <1>4, <1>7, <1>18 DEF ExchangeTypes
  <2>2. p.may <= p.may + c /\ p.granted <= p.granted + b
    BY <1>8, <1>17
  <2>3. f.type = "start" => p.started \/ p.at = "done"
    <3>1. f.type = "start" => p.at # "new"
      BY <1>1, <1>3, <1>4, <1>7 DEF ExchangeDownloads
    <3> QED
      BY <1>8, <1>18, <3>1 DEF ExchangePageType
  <2> QED
    BY <1>1, <1>2, <1>3, <1>4, <1>7, <1>8, <1>16, <1>18, <2>1, <2>2, <2>3, ExchangePageGets
<1>19. CASE p.at = "open" /\ f.type = "credit" /\ page' = [page EXCEPT ![id].may = @ + f.n] /\ UNCHANGED broken
  <2>1. PICK m : m = p.may + f.n
    OBVIOUS
  <2>2. m \in 0..Window /\ m <= p.may + c /\ p.granted <= p.granted + b
    <3>1. c = f.n
      BY <1>6, <1>16, <1>19
    <3>2. p.may + c <= Window
      BY <1>10, <1>16
    <3> QED
      BY <1>5, <1>8, <1>17, <2>1, <3>1, <3>2
  <2>3. PICK e : e = [p EXCEPT !.may = m]
    OBVIOUS
  <2>4. /\ e \in ExchangePageType /\ e.may = m /\ e.left = p.left /\ e.at = p.at /\ e.started = p.started
        /\ e.granted = p.granted /\ e.held = p.held
    BY <1>8, <2>2, <2>3 DEF ExchangePageType
  <2>5. page' = [page EXCEPT ![id] = e]
    BY <1>1, <1>4, <1>7, <1>19, <2>1, <2>3 DEF ExchangeTypes
  <2>6. f.type # "start" /\ broken' = broken
    BY <1>19
  <2> QED
    BY <1>1, <1>2, <1>3, <1>4, <1>7, <1>8, <1>16, <2>2, <2>4, <2>5, <2>6, ExchangePageGets
<1>20. CASE p.at = "open" /\ f.type = "start" /\ UNCHANGED broken /\ page' = [page EXCEPT ![id].started = TRUE]
  <2>1. PICK e : e = [p EXCEPT !.started = TRUE]
    OBVIOUS
  <2>2. /\ e \in ExchangePageType /\ e.may = p.may /\ e.left = p.left /\ e.at = p.at /\ e.started
        /\ e.granted = p.granted /\ e.held = p.held
    BY <1>8, <2>1 DEF ExchangePageType
  <2>3. page' = [page EXCEPT ![id] = e]
    BY <1>1, <1>4, <1>7, <1>20, <2>1 DEF ExchangeTypes
  <2>4. p.may <= p.may + c /\ p.granted <= p.granted + b
    BY <1>8, <1>17
  <2>5. f.type = "start" /\ broken' = broken
    BY <1>20
  <2> QED
    BY <1>1, <1>2, <1>3, <1>4, <1>7, <1>8, <1>16, <2>2, <2>3, <2>4, <2>5, ExchangePageGets
<1>21. CASE /\ p.at = "open" /\ f.type = "body"
            /\ page' = [page EXCEPT ![id].granted = @ - f.n, ![id].held = @ + f.n] /\ UNCHANGED broken
  <2>1. PICK g, h : g = p.granted - f.n /\ h = p.held + f.n
    OBVIOUS
  <2>2. /\ g \in 0..Window /\ h \in 0..Window /\ g + h <= Window
        /\ p.granted <= g + b /\ p.may <= p.may + c
    <3>1. b = f.n
      BY <1>6, <1>16, <1>21
    <3>2. b <= p.granted
      BY <1>11, <1>16
    <3>3. PICK i, j : i = p.granted /\ j = p.held
      OBVIOUS
    <3>4. /\ i \in Nat /\ j \in Nat /\ i + j <= Window /\ b <= i /\ g = i - b /\ h = j + b /\ Window \in Nat
      BY <1>5, <1>8, <2>1, <3>1, <3>2, <3>3
    <3>5. g \in 0..Window /\ h \in 0..Window /\ g + h <= Window /\ i <= g + b
      BY <1>17, <3>4
    <3> QED
      BY <1>8, <1>17, <3>3, <3>5
  <2>3. PICK e : e = [p EXCEPT !.granted = g, !.held = h]
    OBVIOUS
  <2>4. /\ e \in ExchangePageType /\ e.may = p.may /\ e.left = p.left /\ e.at = p.at /\ e.started = p.started
        /\ e.granted = g /\ e.held = h
    BY <1>8, <2>2, <2>3 DEF ExchangePageType
  <2>5. page' = [page EXCEPT ![id] = e]
    BY <1>1, <1>4, <1>7, <1>21, <2>1, <2>3 DEF ExchangeTypes
  <2>6. f.type # "start" /\ broken' = broken
    BY <1>21
  <2> QED
    BY <1>1, <1>2, <1>3, <1>4, <1>7, <1>8, <1>16, <2>2, <2>4, <2>5, <2>6, ExchangePageGets
<1>22. CASE p.at = "open" /\ f.type \in {"end", "error"} /\ page' = [page EXCEPT ![id].at = "done"] /\ UNCHANGED broken
  <2>1. PICK e : e = [p EXCEPT !.at = "done"]
    OBVIOUS
  <2>2. /\ e \in ExchangePageType /\ e.may = p.may /\ e.left = p.left /\ e.at = "done" /\ e.started = p.started
        /\ e.granted = p.granted /\ e.held = p.held
    BY <1>8, <2>1 DEF ExchangePageType
  <2>3. page' = [page EXCEPT ![id] = e]
    BY <1>1, <1>4, <1>7, <1>22, <2>1 DEF ExchangeTypes
  <2>4. p.may <= p.may + c /\ p.granted <= p.granted + b
    BY <1>8, <1>17
  <2>5. f.type # "start" /\ broken' = broken /\ (e.at = "new") = (p.at = "new")
    BY <1>22, <2>2
  <2> QED
    BY <1>1, <1>2, <1>3, <1>4, <1>7, <1>8, <1>16, <2>2, <2>3, <2>4, <2>5, ExchangePageGets
<1> QED
  BY <1>14, <1>18, <1>19, <1>20, <1>21, <1>22

-----------------------------------------------------------------------------

\* The host tells the worker nothing (kind "none"), or something of exchange id.
ExchangeSays(id, kind, credit, body) ==
  \/ toPage' = toPage /\ kind = "none" /\ credit = 0 /\ body = 0
  \/ \E f \in Exchange!FrameType :
       /\ toPage' = Append(toPage, f) /\ f.id = id /\ f.type = kind
       /\ ExchangeCredits(id)[f] = credit /\ ExchangeBodies(id)[f] = body

\* What the worker is told of an exchange is in order.
LEMMA ExchangeHostDownloads ==
  ASSUME ExchangeTypes, ExchangeDownloads, UNCHANGED page, NEW id \in Requests, NEW e, host' = [host EXCEPT ![id] = e],
         NEW kind, \E credit, body : ExchangeSays(id, kind, credit, body),
         e.run \in {"no", "doing"} => host[id].run \in {"no", "doing"} /\ kind # "start",
         e.run # "no" => page[id].at # "new",
         e.run = "body" => host[id].run = "body" \/ kind = "start",
         kind = "start" => host[id].run = "doing" /\ page[id].at # "new",
         kind = "body" => host[id].run = "body" /\ page[id].at # "new"
  PROVE  ExchangeDownloads' /\ toPage' \in Seq(Exchange!FrameType)
<1>1. toPage \in Seq(Exchange!FrameType) /\ host'[id] = e /\ \A x \in Requests \ {id} : host'[x] = host[x]
  BY DEF ExchangeTypes
<1> DEFINE d == toPage
<1>2. /\ ExchangeOneStart(d) /\ ExchangeFollows(d, page)
      /\ \A i \in 1..Len(d) :
           /\ d[i].type = "start" => ~page[d[i].id].started /\ host[d[i].id].run \notin {"no", "doing"}
           /\ d[i].type \in {"start", "body"} => page[d[i].id].at # "new"
      /\ \A x \in Requests :
           /\ host[x].run \in {"no", "doing"} => ~page[x].started
           /\ host[x].run = "body" => ExchangeSeen(d, page, x)
           /\ host[x].run # "no" => page[x].at # "new"
  BY DEF ExchangeDownloads
<1>3. \A i \in 1..Len(d) : d[i].id \in Requests
  BY <1>1, ExchangeElementTypes
<1> HIDE DEF d
<1>4. \A i \in 1..Len(d) : d[i].type = "start" => host'[d[i].id].run \notin {"no", "doing"}
  BY <1>1, <1>2, <1>3
<1>5. \A x \in Requests : /\ host'[x].run \in {"no", "doing"} => ~page[x].started
                          /\ host'[x].run # "no" => page[x].at # "new"
  BY <1>1, <1>2
<1>6. CASE toPage' = toPage /\ kind = "none"
  <2>1. \A x \in Requests : host'[x].run = "body" => ExchangeSeen(d, page, x)
    BY <1>1, <1>2, <1>6
  <2>2. toPage' = d
    BY <1>6 DEF d
  <2> QED
    BY <1>1, <1>2, <1>4, <1>5, <1>6, <2>1, <2>2 DEF ExchangeDownloads
<1>7. ASSUME NEW f \in Exchange!FrameType, toPage' = Append(toPage, f), f.id = id, f.type = kind
      PROVE  ExchangeDownloads' /\ toPage' \in Seq(Exchange!FrameType)
  <2> DEFINE v == Append(toPage, f)
  <2>1. /\ v \in Seq(Exchange!FrameType) /\ Len(d) \in Nat /\ Len(v) = Len(d) + 1 /\ v[Len(d) + 1] = f
        /\ \A i \in 1..Len(d) : v[i] = d[i] /\ i \in 1..Len(v)
        /\ \A i \in 1..Len(v) : i \in 1..Len(d) \/ i = Len(d) + 1
        /\ Len(d) + 1 \in 1..Len(v)
    BY <1>1, ExchangeLastFrame DEF d
  <2>2. toPage' = v
    BY <1>7
  <2> HIDE DEF v
  <2>3. \A i, j \in 1..Len(v) : j < i => j \in 1..Len(d)
    BY <2>1
  <2>4. \A i \in 1..Len(d) : i < Len(d) + 1
    BY <2>1
  <2>5. f.type = "start" => \A i \in 1..Len(d) : ~(d[i].type = "start" /\ d[i].id = id)
    BY <1>2, <1>7
  <2>6. ExchangeOneStart(v)
    <3>1. ASSUME NEW i \in 1..Len(v), NEW j \in 1..Len(v),
                 v[i].type = "start" /\ v[j].type = "start" /\ v[i].id = v[j].id
          PROVE  i = j
      <4>1. CASE i \in 1..Len(d) /\ j \in 1..Len(d)
        BY <1>2, <2>1, <3>1, <4>1 DEF ExchangeOneStart
      <4>2. CASE i \in 1..Len(d) /\ j = Len(d) + 1
        BY <1>7, <2>1, <2>5, <3>1, <4>2
      <4>3. CASE i = Len(d) + 1 /\ j \in 1..Len(d)
        BY <1>7, <2>1, <2>5, <3>1, <4>3
      <4>4. CASE i = Len(d) + 1 /\ j = Len(d) + 1
        BY <4>4
      <4> QED
        BY <2>1, <4>1, <4>2, <4>3, <4>4
    <3> QED
      BY <3>1 DEF ExchangeOneStart
  <2>7. ExchangeFollows(v, page)
    <3>1. ASSUME NEW i \in 1..Len(v), v[i].type = "body"
          PROVE  \/ page[v[i].id].at = "done" \/ page[v[i].id].started
                 \/ \E j \in 1..Len(v) : j < i /\ v[j].type = "start" /\ v[j].id = v[i].id
      <4>1. CASE i \in 1..Len(d)
        BY <1>2, <2>1, <3>1, <4>1 DEF ExchangeFollows
      <4>2. CASE i = Len(d) + 1
        <5>1. v[i] = f /\ f.type = "body" /\ f.id = id
          BY <1>7, <2>1, <3>1, <4>2
        <5>2. ExchangeSeen(d, page, id)
          BY <1>2, <1>7, <5>1
        <5> QED
          BY <2>1, <2>4, <4>2, <5>1, <5>2 DEF ExchangeSeen, ExchangeStarted
      <4> QED
        BY <2>1, <4>1, <4>2
    <3> QED
      BY <3>1 DEF ExchangeFollows
  <2>8. f.type = "start" => ~page[id].started /\ e.run \notin {"no", "doing"}
    BY <1>2, <1>7
  <2>9. ASSUME NEW i \in 1..Len(v)
        PROVE  /\ v[i].type = "start" => ~page[v[i].id].started /\ host'[v[i].id].run \notin {"no", "doing"}
               /\ v[i].type \in {"start", "body"} => page[v[i].id].at # "new"
    <3>1. CASE i \in 1..Len(d)
      BY <1>2, <1>4, <2>1, <3>1
    <3>2. CASE i = Len(d) + 1
      BY <1>1, <1>7, <2>1, <2>8, <3>2
    <3> QED
      BY <2>1, <3>1, <3>2
  <2>10. \A x \in Requests : ExchangeSeen(d, page, x) => ExchangeSeen(v, page, x)
    BY <2>1 DEF ExchangeSeen, ExchangeStarted
  <2>11. f.type = "start" => ExchangeSeen(v, page, id)
    BY <1>7, <2>1 DEF ExchangeSeen, ExchangeStarted
  <2>12. \A x \in Requests : host'[x].run = "body" => ExchangeSeen(v, page, x)
    BY <1>1, <1>2, <1>7, <2>10, <2>11
  <2>13. page' = page
    OBVIOUS
  <2> QED
    BY <1>5, <2>1, <2>2, <2>6, <2>7, <2>9, <2>12, <2>13 DEF ExchangeDownloads
<1> QED
  BY <1>6, <1>7 DEF ExchangeSays

\* A goroutine of the host changes its end of an exchange that has started.
LEMMA ExchangeHostChanges ==
  ASSUME ExchangeInv, NEW id \in Requests, ~ExchangeIdle(id), NEW e \in ExchangeHostType, host' = [host EXCEPT ![id] = e],
         UNCHANGED <<toHost, page, lastID, broken>>,
         NEW kind, NEW credit \in Nat, NEW body \in Nat, ExchangeSays(id, kind, credit, body),
         ExchangeWritten(e) \in Nat, ExchangeWritten(e) + credit + host[id].uploaded <= ExchangeWritten(host[id]) + e.uploaded,
         ExchangeBuffered(e), e.credit + body <= host[id].credit, e.ended = host[id].ended,
         e.run \in {"no", "doing"} => host[id].run \in {"no", "doing"} /\ kind # "start",
         e.run # "no" => host[id].run # "no",
         e.run = "body" => host[id].run = "body" \/ kind = "start",
         kind = "start" => host[id].run = "doing", kind = "body" => host[id].run = "body"
  PROVE  ExchangeInv'
<1>1. /\ ExchangeTypes /\ ExchangeFlows /\ ExchangeUploads /\ ExchangeDownloads /\ toPage \in Seq(Exchange!FrameType)
      /\ host'[id] = e /\ \A x \in Requests \ {id} : host'[x] = host[x]
  BY DEF ExchangeInv, ExchangeTypes
<1>2. host[id].run # "no" => page[id].at # "new"
  BY <1>1 DEF ExchangeDownloads
<1>3. ExchangeDownloads' /\ toPage' \in Seq(Exchange!FrameType)
  BY <1>1, <1>2, ExchangeHostDownloads
<1>4. ExchangeUploads'
  BY <1>1, ExchangeUploadsStay
<1>5. ExchangeTypes'
  <2>1. host' \in [Requests -> ExchangeHostType]
    BY <1>1 DEF ExchangeTypes
  <2> QED
    BY <1>1, <1>3, <2>1 DEF ExchangeTypes
<1>6. e.uploaded \in Nat /\ e.credit \in Nat
  <2>1. \A n \in 0..Window : n \in Nat
    BY ExchangeNumbers
  <2> QED
    BY <2>1 DEF ExchangeHostType
<1>7. ExchangeFlows'
  <2>1. ASSUME NEW x \in Requests
        PROVE  /\ ExchangeUpFlow(x)' /\ ExchangeDownFlow(x)' /\ ExchangeBuffered(host'[x])
               /\ page'[x].granted + page'[x].held <= Window
               /\ ExchangeIdle(x)' => host'[x] = Exchange!Unused /\ page'[x].may = 0
    <3>1. /\ ExchangeUpFlow(x) /\ ExchangeDownFlow(x) /\ ExchangeBuffered(host[x])
          /\ page[x].granted + page[x].held <= Window
          /\ ExchangeIdle(x) => host[x] = Exchange!Unused /\ page[x].may = 0
      BY <1>1 DEF ExchangeFlows
    <3>2. PICK wb, wc : wb = ExchangeBodies(x) /\ wc = ExchangeCredits(x)
      OBVIOUS
    <3>3. wb \in [Exchange!FrameType -> Nat] /\ wc \in [Exchange!FrameType -> Nat]
      BY <3>2, ExchangeWeights
    <3>4. ExchangeIdle(x)' = ExchangeIdle(x) /\ page'[x] = page[x]
      BY DEF ExchangeIdle
    <3>5. PICK m, w, z, q, s, g, r, h, idle :
            /\ m = page[x].may /\ w = ExchangeWritten(host[x]) /\ z = ExchangeWritten(host'[x])
            /\ q = host[x].uploaded /\ s = host'[x].uploaded /\ g = page[x].granted
            /\ r = host[x].credit /\ h = host'[x].credit /\ idle = ExchangeIdle(x)
      OBVIOUS
    <3>6. /\ m \in Nat /\ w \in Nat /\ q \in Nat /\ g \in Nat /\ r \in Nat /\ m + w \in Nat
      BY <1>1, <3>5, ExchangeSizes
    <3>7. PICK c, b \in Nat : c = (IF x = id THEN credit ELSE 0) /\ b = (IF x = id THEN body ELSE 0)
      OBVIOUS
    <3>8. z \in Nat /\ s \in Nat /\ h \in Nat /\ z + c + q <= w + s /\ h + b <= r
      <4>1. CASE x = id
        BY <1>1, <1>6, <3>5, <3>7, <4>1
      <4>2. CASE x # id
        <5>1. z = w /\ s = q /\ h = r
          BY <1>1, <3>5, <4>2
        <5> QED
          BY <3>6, <3>7, <4>2, <5>1
      <4> QED
        BY <4>1, <4>2
    <3>9. m + z \in Nat /\ (m + z) + c + q <= (m + w) + s /\ (m + z) + q <= (m + w) + s
          /\ h + b + g <= r + g /\ h + g <= r + g
      BY <3>6, <3>7, <3>8
    <3>10. Flow(toHost, wb, toPage, wc, m + w, q, idle) /\ Flow(toHost, wc, toPage, wb, r, g, FALSE)
      BY <3>1, <3>2, <3>5 DEF ExchangeUpFlow, ExchangeDownFlow
    <3>11. ~idle \/ x # id
      BY <3>5
    <3>12. Flow(toHost, wb, toPage', wc, m + z, s, idle) /\ Flow(toHost, wc, toPage', wb, h, g, FALSE)
      <4>1. CASE toPage' = toPage /\ credit = 0 /\ body = 0
        <5>1. Flow(toHost, wb, toPage, wc, m + z, s, idle)
          BY <3>6, <3>8, <3>9, <3>10, FlowStays
        <5>2. Flow(toHost, wc, toPage, wb, h, g, FALSE)
          BY <3>6, <3>8, <3>9, <3>10, FlowStays
        <5> QED
          BY <4>1, <5>1, <5>2
      <4>2. ASSUME NEW f \in Exchange!FrameType, toPage' = Append(toPage, f), f.id = id,
                   ExchangeCredits(id)[f] = credit, ExchangeBodies(id)[f] = body
            PROVE  /\ Flow(toHost, wb, toPage', wc, m + z, s, idle)
                   /\ Flow(toHost, wc, toPage', wb, h, g, FALSE)
        <5>1. wc[f] = c /\ wb[f] = b
          <6>1. CASE x = id
            BY <3>2, <3>7, <4>2, <6>1
          <6>2. CASE x # id
            BY <3>2, <3>7, <4>2, <6>2 DEF ExchangeCredits, ExchangeBodies
          <6> QED
            BY <6>1, <6>2
        <5>2. wc[f] = 0 \/ ~idle
          BY <3>7, <3>11, <5>1
        <5>3. Flow(toPage, wc, toHost, wb, m + w, q, idle)
          BY <3>6, <3>10, FlowTurned
        <5>4. PICK i, j \in Nat : i = m + w /\ j = m + z
          BY <3>6, <3>9
        <5>5. Flow(toPage, wc, toHost, wb, i, q, idle) /\ j + wc[f] + q <= i + s
          BY <3>9, <5>1, <5>3, <5>4
        <5>6. Flow(Append(toPage, f), wc, toHost, wb, j, s, idle)
          BY <1>1, <3>3, <3>6, <3>8, <5>2, <5>5, FlowGrows
        <5>7. Flow(toHost, wb, Append(toPage, f), wc, j, s, idle)
          BY <3>8, <5>6, FlowTurned
        <5>8. Flow(toPage, wb, toHost, wc, r, g, FALSE)
          BY <3>6, <3>10, FlowTurned
        <5>9. h + wb[f] + g <= r + g
          BY <3>9, <5>1
        <5>10. Flow(Append(toPage, f), wb, toHost, wc, h, g, FALSE)
          BY <1>1, <3>3, <3>6, <3>8, <5>8, <5>9, FlowGrows
        <5>11. Flow(toHost, wc, Append(toPage, f), wb, h, g, FALSE)
          BY <3>6, <3>8, <5>10, FlowTurned
        <5> QED
          BY <4>2, <5>4, <5>7, <5>11
      <4> QED
        BY <4>1, <4>2 DEF ExchangeSays
    <3>13. ExchangeUpFlow(x)' /\ ExchangeDownFlow(x)'
      BY <3>2, <3>4, <3>5, <3>12 DEF ExchangeUpFlow, ExchangeDownFlow
    <3>14. ExchangeBuffered(host'[x])
      BY <1>1, <3>1
    <3>15. ExchangeIdle(x)' => host'[x] = Exchange!Unused /\ page'[x].may = 0
      BY <1>1, <3>1, <3>4
    <3> QED
      BY <3>1, <3>4, <3>13, <3>14, <3>15
  <2> QED
    BY <2>1 DEF ExchangeFlows
<1> QED
  BY <1>3, <1>4, <1>5, <1>7 DEF ExchangeInv

\* accept: the first frame to the host, which starts no exchange, changes its
\* end of the exchange so.
LEMMA ExchangeHostGets ==
  ASSUME ExchangeInv, toHost # << >>, toHost' = Tail(toHost), UNCHANGED <<toPage, page, lastID>>,
         broken' \in {Exchange!Fine, "lost", "limit", "buffer"},
         NEW id \in Requests, id = Head(toHost).id, Head(toHost).type # "start",
         NEW e \in ExchangeHostType, host' = [host EXCEPT ![id] = e],
         e.drain = host[id].drain, host[id].uploaded <= e.uploaded + ExchangeBodies(id)[Head(toHost)],
         ExchangeBuffered(e), e.credit <= host[id].credit + ExchangeCredits(id)[Head(toHost)],
         e.run = host[id].run, e.ended => host[id].ended \/ Head(toHost).type = "end"
  PROVE  ExchangeInv'
<1>1. /\ ExchangeTypes /\ ExchangeFlows /\ ExchangeUploads /\ ExchangeDownloads /\ toHost \in Seq(Exchange!FrameType) /\ lastID \in Nat
      /\ host'[id] = e /\ \A x \in Requests \ {id} : host'[x] = host[x]
  BY DEF ExchangeInv, ExchangeTypes
<1> DEFINE u == toHost
           t == Tail(toHost)
<1>2. PICK f : f = Head(u)
  OBVIOUS
<1>3. /\ f \in Exchange!FrameType /\ t \in Seq(Exchange!FrameType) /\ f.id = id
      /\ Len(t) = Len(u) - 1 /\ Len(u) \in Nat /\ 1 \in 1..Len(u) /\ u[1] = f
      /\ \A i \in 1..Len(t) : i + 1 \in 1..Len(u) /\ t[i] = u[i + 1]
  BY <1>1, <1>2, ExchangeHeadFrame
<1>4. /\ ExchangeOrdered(u, lastID) /\ ExchangeEnding(u) /\ ExchangeSized(u)
      /\ \A i \in 1..Len(u) : ExchangeAsking(u[i], page, host)
      /\ \A x \in Requests : host[x].ended => page[x].left = -1 /\ page[x].at # "new"
      /\ lastID # 0 => lastID \in Requests /\ page[lastID].at # "new"
      /\ \A c, x \in Requests : page[x].at # "new" /\ page[c].at = "new" => x < c
      /\ \A x \in Requests : page[x].at # "new" => x <= lastID \/ ExchangeIntroduced(u, x)
  BY <1>1 DEF ExchangeUploads
<1>5. /\ ExchangeEnding(t) /\ ExchangeSized(t) /\ id <= lastID /\ ExchangeOrdered(t, lastID)
      /\ f.type = "end" => \A i \in 1..Len(t) : t[i].id = id => t[i].type \notin {"body", "end"}
  BY <1>1, <1>2, <1>3, <1>4, ExchangeOrderedTail
<1>6. toHost' = t
  OBVIOUS
<1>7. u # << >> /\ u \in Seq(Exchange!FrameType) /\ t = Tail(u)
  BY <1>1
<1>8. ~ExchangeIdle(id)
  <2>1. id \in Nat
    BY ExchangeNumbers
  <2> QED
    BY <1>1, <1>5, <2>1 DEF ExchangeIdle
<1>9. e.run # "no" => page[id].at # "new"
  BY <1>1 DEF ExchangeDownloads
<1>10. ExchangeDownloads'
  <2>1. PICK kind : kind = "none"
    OBVIOUS
  <2>2. \E credit, body : ExchangeSays(id, kind, credit, body)
    BY <2>1 DEF ExchangeSays
  <2>3. kind # "start" /\ kind # "body"
    BY <2>1
  <2>4. /\ e.run \in {"no", "doing"} => host[id].run \in {"no", "doing"} /\ kind # "start"
        /\ e.run = "body" => host[id].run = "body" \/ kind = "start"
        /\ kind = "start" => host[id].run = "doing" /\ page[id].at # "new"
        /\ kind = "body" => host[id].run = "body" /\ page[id].at # "new"
    BY <2>3
  <2>5. UNCHANGED page
    OBVIOUS
  <2> QED
    BY <1>1, <1>9, <2>2, <2>4, <2>5, ExchangeHostDownloads
<1>11. ExchangeTypes'
  <2>1. host' \in [Requests -> ExchangeHostType]
    BY <1>1 DEF ExchangeTypes
  <2> QED
    BY <1>1, <1>3, <2>1 DEF ExchangeTypes
<1>12. e.uploaded \in Nat /\ e.credit \in Nat
  <2>1. \A n \in 0..Window : n \in Nat
    BY ExchangeNumbers
  <2> QED
    BY <2>1 DEF ExchangeHostType
<1>13. ExchangeWritten(e) = ExchangeWritten(host[id])
  BY DEF ExchangeWritten
<1> HIDE DEF u, t
<1>14. ExchangeFlows'
  <2>1. ASSUME NEW x \in Requests
        PROVE  /\ ExchangeUpFlow(x)' /\ ExchangeDownFlow(x)' /\ ExchangeBuffered(host'[x])
               /\ page'[x].granted + page'[x].held <= Window
               /\ ExchangeIdle(x)' => host'[x] = Exchange!Unused /\ page'[x].may = 0
    <3>1. /\ ExchangeUpFlow(x) /\ ExchangeDownFlow(x) /\ ExchangeBuffered(host[x])
          /\ page[x].granted + page[x].held <= Window
          /\ ExchangeIdle(x) => host[x] = Exchange!Unused /\ page[x].may = 0
      BY <1>1 DEF ExchangeFlows
    <3>2. PICK wb, wc : wb = ExchangeBodies(x) /\ wc = ExchangeCredits(x)
      OBVIOUS
    <3>3. wb \in [Exchange!FrameType -> Nat] /\ wc \in [Exchange!FrameType -> Nat]
      BY <3>2, ExchangeWeights
    <3>4. ExchangeIdle(x)' = ExchangeIdle(x) /\ page'[x] = page[x]
      BY DEF ExchangeIdle
    <3>5. PICK w, q, s, g, r, h, idle :
            /\ w = page[x].may + ExchangeWritten(host[x])
            /\ q = host[x].uploaded /\ s = host'[x].uploaded /\ g = page[x].granted
            /\ r = host[x].credit /\ h = host'[x].credit /\ idle = ExchangeIdle(x)
      OBVIOUS
    <3>6. w \in Nat /\ q \in Nat /\ g \in Nat /\ r \in Nat
      BY <1>1, <3>5, ExchangeSizes
    <3>7. PICK c, b \in Nat : c = wc[f] /\ b = wb[f]
      BY <1>3, <3>3
    <3>8. s \in Nat /\ h \in Nat /\ q <= s + b /\ h <= r + c /\ page'[x].may + ExchangeWritten(host'[x]) = w
      <4>1. CASE x = id
        <5>1. s = e.uploaded /\ h = e.credit /\ ExchangeWritten(host'[x]) = ExchangeWritten(host[x])
          BY <1>1, <1>13, <3>5, <4>1
        <5>2. q <= s + b /\ h <= r + c
          BY <1>2, <3>2, <3>5, <3>7, <4>1, <5>1 DEF u
        <5> QED
          BY <1>12, <3>4, <3>5, <5>1, <5>2
      <4>2. CASE x # id
        <5>1. b = 0 /\ c = 0
          BY <1>3, <3>2, <3>7, <4>2 DEF ExchangeBodies, ExchangeCredits
        <5>2. s = q /\ h = r /\ host'[x] = host[x]
          BY <1>1, <3>5, <4>2
        <5> QED
          BY <3>4, <3>5, <3>6, <5>1, <5>2
      <4> QED
        BY <4>1, <4>2
    <3>9. w + q <= w + b + s /\ h + g <= r + c + g
      <4>1. /\ w \in Nat /\ q \in Nat /\ g \in Nat /\ r \in Nat
            /\ s \in Nat /\ h \in Nat /\ b \in Nat /\ c \in Nat
        BY <3>6, <3>7, <3>8
      <4>2. q <= s + b /\ h <= r + c
        BY <3>8
      <4> QED
        BY <4>1, <4>2
    <3>10. Flow(u, wb, toPage, wc, w, q, idle) /\ Flow(u, wc, toPage, wb, r, g, FALSE)
      BY <3>1, <3>2, <3>5 DEF ExchangeUpFlow, ExchangeDownFlow, u
    <3>11. Flow(t, wb, toPage, wc, w, s, idle)
      <4>1. \A i, j \in Nat : i + q <= w + wb[f] + j => Flow(t, wb, toPage, wc, i, j, idle)
        BY <1>2, <1>7, <3>3, <3>6, <3>10, FlowShrinks
      <4> QED
        BY <3>6, <3>7, <3>8, <3>9, <4>1
    <3>12. Flow(t, wc, toPage, wb, h, g, FALSE)
      <4>1. \A i, j \in Nat : i + g <= r + wc[f] + j => Flow(t, wc, toPage, wb, i, j, FALSE)
        BY <1>2, <1>7, <3>3, <3>6, <3>10, FlowShrinks
      <4> QED
        BY <3>6, <3>7, <3>8, <3>9, <4>1
    <3>13. ExchangeUpFlow(x)' /\ ExchangeDownFlow(x)'
      BY <1>6, <3>2, <3>4, <3>5, <3>8, <3>11, <3>12 DEF ExchangeUpFlow, ExchangeDownFlow
    <3>14. ExchangeBuffered(host'[x])
      BY <1>1, <3>1
    <3>15. ExchangeIdle(x)' => host'[x] = Exchange!Unused /\ page'[x].may = 0
      BY <1>1, <1>8, <3>1, <3>4
    <3> QED
      BY <3>1, <3>4, <3>13, <3>14, <3>15
  <2> QED
    BY <2>1 DEF ExchangeFlows
<1>15. ExchangeUploads'
  <2>1. \A i \in 1..Len(t) : t[i].id \in Requests
    BY <1>3, ExchangeElementTypes
  <2>2. ExchangeAsking(f, page, host)
    BY <1>3, <1>4
  <2>3. ASSUME NEW i \in 1..Len(t) PROVE ExchangeAsking(t[i], page', host')
    <3>1. ExchangeAsking(t[i], page, host)
      BY <1>3, <1>4
    <3>2. ASSUME t[i].type \in {"body", "end"}, t[i].id = id PROVE ~e.ended
      BY <1>2, <1>5, <3>1, <3>2 DEF ExchangeAsking, u
    <3> QED
      BY <1>1, <2>1, <3>1, <3>2 DEF ExchangeAsking
  <2>4. \A x \in Requests : host'[x].ended => page'[x].left = -1 /\ page'[x].at # "new"
    <3>1. f.type = "end" => page[id].left = -1 /\ page[id].at # "new"
      BY <1>3, <2>2 DEF ExchangeAsking
    <3> QED
      BY <1>1, <1>2, <1>4, <3>1 DEF u
  <2>5. \A x \in Requests : ExchangeIntroduced(u, x) => ExchangeIntroduced(t, x)
    <3>1. ASSUME NEW x \in Requests, NEW k \in 1..Len(u), u[k].type = "start", u[k].id = x
          PROVE  ExchangeIntroduced(t, x)
      <4>1. k # 1
        BY <1>2, <1>3, <3>1 DEF u
      <4>2. k - 1 \in 1..Len(t) /\ (k - 1) + 1 = k
        BY <1>3, <4>1
      <4> QED
        BY <1>3, <3>1, <4>2 DEF ExchangeIntroduced
    <3> QED
      BY <3>1 DEF ExchangeIntroduced
  <2>6. /\ ExchangeOrdered(toHost', lastID') /\ ExchangeEnding(toHost') /\ ExchangeSized(toHost')
        /\ \A i \in 1..Len(toHost') : ExchangeAsking(toHost'[i], page', host')
    BY <1>5, <1>6, <2>3
  <2>7. /\ lastID' # 0 => lastID' \in Requests /\ page'[lastID'].at # "new"
        /\ \A c, x \in Requests : page'[x].at # "new" /\ page'[c].at = "new" => x < c
    BY <1>4
  <2>8. \A x \in Requests : page'[x].at # "new" => x <= lastID' \/ ExchangeIntroduced(toHost', x)
    BY <1>4, <1>6, <2>5
  <2> QED
    BY <2>4, <2>6, <2>7, <2>8 DEF ExchangeUploads
<1> QED
  BY <1>10, <1>11, <1>14, <1>15 DEF ExchangeInv

\* The first frame is within the windows of its exchange, and no second end.
LEMMA ExchangeHostExpects ==
  ASSUME ExchangeInv, toHost # << >>, NEW f, f = Head(toHost), f.type # "start", NEW id, id = f.id
  PROVE  /\ id \in Requests /\ f \in Exchange!FrameType /\ f.n \in 0..Window /\ id <= lastID /\ ~(id > lastID)
         /\ f.type = "body" => f.n <= host[id].uploaded /\ f.n <= Chunk /\ ~host[id].ended
         /\ f.type = "end" => ~host[id].ended
         /\ f.type = "credit" => host[id].credit + f.n <= Window
         /\ ExchangeBodies(id)[f] = (IF f.type = "body" THEN f.n ELSE 0)
         /\ ExchangeCredits(id)[f] = (IF f.type = "credit" THEN f.n ELSE 0)
<1>1. /\ ExchangeTypes /\ ExchangeFlows /\ ExchangeUploads /\ toHost \in Seq(Exchange!FrameType) /\ lastID \in Nat
  BY DEF ExchangeInv, ExchangeTypes
<1>2. /\ f \in Exchange!FrameType /\ id \in Requests /\ f.n \in 0..Window
      /\ 1 \in 1..Len(toHost) /\ toHost[1] = f
  BY <1>1, ExchangeHeadFrame
<1>3. id <= lastID /\ (f.type = "body" => f.n <= Chunk)
  <2>1. ExchangeOrdered(toHost, lastID) /\ ExchangeEnding(toHost) /\ ExchangeSized(toHost)
    BY <1>1 DEF ExchangeUploads
  <2> QED
    BY <1>1, <2>1, ExchangeOrderedTail
<1>4. ~(id > lastID)
  <2>1. id \in Nat
    BY <1>2, ExchangeNumbers
  <2> QED
    BY <1>1, <1>3, <2>1
<1>5. ExchangeAsking(f, page, host)
  BY <1>1, <1>2 DEF ExchangeUploads
<1>6. /\ ExchangeBodies(id)[f] = (IF f.type = "body" THEN f.n ELSE 0)
      /\ ExchangeCredits(id)[f] = (IF f.type = "credit" THEN f.n ELSE 0)
  BY <1>2 DEF ExchangeBodies, ExchangeCredits
<1>7. PICK wb, wc : wb = ExchangeBodies(id) /\ wc = ExchangeCredits(id)
  OBVIOUS
<1>8. wb \in [Exchange!FrameType -> Nat] /\ wc \in [Exchange!FrameType -> Nat]
  BY <1>2, <1>7, ExchangeWeights
<1>9. PICK w, q, g, r, idle :
        /\ w = page[id].may + ExchangeWritten(host[id]) /\ q = host[id].uploaded
        /\ g = page[id].granted /\ r = host[id].credit /\ idle = ExchangeIdle(id)
  OBVIOUS
<1>10. w \in Nat /\ q \in Nat /\ g \in Nat /\ r \in Nat
  BY <1>1, <1>2, <1>9, ExchangeSizes
<1>11. Flow(toHost, wb, toPage, wc, w, q, idle) /\ Flow(toHost, wc, toPage, wb, r, g, FALSE)
  BY <1>1, <1>2, <1>7, <1>9 DEF ExchangeFlows, ExchangeUpFlow, ExchangeDownFlow
<1>12. wb[f] \in Nat /\ w + wb[f] <= q
  BY <1>1, <1>8, <1>10, <1>11, FlowShrinks
<1>13. wc[f] \in Nat /\ r + wc[f] <= g
  BY <1>1, <1>8, <1>10, <1>11, FlowShrinks
<1>14. PICK b, c \in Nat : b = wb[f] /\ c = wc[f]
  BY <1>12, <1>13
<1>15. b <= q
  BY <1>10, <1>12, <1>14
<1>16. f.type = "body" => f.n <= host[id].uploaded
  BY <1>6, <1>7, <1>9, <1>14, <1>15
<1>17. g <= Window
  <2>1. page[id].held \in Nat /\ page[id].granted + page[id].held <= Window
    BY <1>1, <1>2, ExchangeSizes DEF ExchangeFlows
  <2>2. PICK h \in Nat : h = page[id].held /\ g + h <= Window
    BY <1>9, <2>1
  <2> QED
    BY <1>10, <2>2, ExchangeNumbers
<1>18. r + c <= Window
  BY <1>10, <1>13, <1>14, <1>17, ExchangeNumbers
<1>19. f.type = "credit" => host[id].credit + f.n <= Window
  BY <1>6, <1>7, <1>9, <1>14, <1>18
<1> QED
  BY <1>2, <1>3, <1>4, <1>5, <1>6, <1>16, <1>19 DEF ExchangeAsking

\* A piece of `n` units joins those that wait for the upstream.
LEMMA ExchangeBufferGrows ==
  ASSUME NEW h \in ExchangeHostType, ExchangeBuffered(h), Len(h.upload) # Slots, NEW n \in 0..Chunk, n <= h.uploaded,
         NEW e, e.upload = Append(h.upload, n), e.uploaded = h.uploaded - n, e.drain = h.drain
  PROVE  ExchangeBuffered(e) /\ e.upload \in Seq(0..Chunk) /\ e.uploaded \in 0..Window
<1>1. PICK a \in Nat : Weighs(h.upload, ExchangeUnits, a) /\ h.uploaded + a + ExchangeWriting(h) <= Window
  BY DEF ExchangeBuffered
<1>2. h.upload \in Seq(0..Chunk) /\ h.uploaded \in 0..Window
  BY DEF ExchangeHostType
<1>3. ExchangeUnits[n] = n /\ n \in Nat /\ h.uploaded \in Nat
  BY <1>2, ExchangeNumbers DEF ExchangeUnits
<1>4. Weighs(e.upload, ExchangeUnits, a + n)
  <2>1. Weighs(Append(h.upload, n), ExchangeUnits, a + ExchangeUnits[n])
    BY <1>1, <1>2, ExchangeWeights, WeighsAppend
  <2> QED
    BY <1>3, <2>1
<1>5. ExchangeWriting(e) = ExchangeWriting(h) /\ ExchangeWriting(h) \in Nat
  <2>1. h.drain.n \in 0..Chunk
    BY DEF ExchangeHostType
  <2>2. h.drain.n \in Nat
    BY <2>1, ExchangeNumbers
  <2> QED
    BY <2>2 DEF ExchangeWriting
<1>6. PICK k, m : k = h.uploaded /\ m = ExchangeWriting(h)
  OBVIOUS
<1>7. k \in Nat /\ m \in Nat /\ k + a + m <= Window /\ n <= k /\ k <= Window
  BY <1>1, <1>2, <1>3, <1>5, <1>6, ExchangeNumbers
<1>8. a + n \in Nat /\ (k - n) + (a + n) + m <= Window /\ k - n \in 0..Window
  BY <1>3, <1>7, ExchangeNumbers
<1>9. e.uploaded + (a + n) + ExchangeWriting(e) <= Window /\ e.uploaded \in 0..Window
  BY <1>5, <1>6, <1>8
<1>10. Len(e.upload) <= Slots
  <2>1. Len(h.upload) \in Nat /\ Len(h.upload) <= Slots /\ Len(e.upload) = Len(h.upload) + 1
    BY <1>2, AppendProperties, LenProperties DEF ExchangeBuffered
  <2> QED
    BY <2>1, ExchangeNumbers
<1>11. e.upload \in Seq(0..Chunk)
  BY <1>2, AppendProperties
<1> QED
  BY <1>4, <1>8, <1>9, <1>10, <1>11 DEF ExchangeBuffered

LEMMA ExchangeHostTakesOne ==
  ASSUME ExchangeInv, Exchange!HostReceives, Head(toHost).type # "start", Exchange!HostTakes(Head(toHost)),
         UNCHANGED <<toPage, lastID>>
  PROVE  ExchangeInv'
<1>1. /\ ExchangeTypes /\ ExchangeFlows /\ toHost # << >> /\ toHost' = Tail(toHost) /\ UNCHANGED page
  BY DEF ExchangeInv, Exchange!HostReceives
<1>2. PICK f : f = Head(toHost)
  OBVIOUS
<1>3. PICK id : id = f.id
  OBVIOUS
<1>4. /\ id \in Requests /\ f \in Exchange!FrameType /\ f.n \in 0..Window
      /\ f.type = "body" => f.n <= host[id].uploaded /\ f.n <= Chunk /\ ~host[id].ended
      /\ f.type = "end" => ~host[id].ended
      /\ f.type = "credit" => host[id].credit + f.n <= Window
      /\ ExchangeBodies(id)[f] = (IF f.type = "body" THEN f.n ELSE 0)
      /\ ExchangeCredits(id)[f] = (IF f.type = "credit" THEN f.n ELSE 0)
  BY <1>1, <1>2, <1>3, ExchangeHostExpects
<1>5. PICK h : h = host[id]
  OBVIOUS
<1>6. /\ h \in ExchangeHostType /\ ExchangeBuffered(h) /\ h.uploaded \in Nat /\ h.credit \in Nat
      /\ h.uploaded \in 0..Window /\ h.credit \in 0..Window /\ f.n \in Nat
  <2>1. h \in ExchangeHostType /\ h.uploaded \in Nat /\ h.credit \in Nat
    BY <1>1, <1>4, <1>5, ExchangeSizes
  <2>2. f.n \in Nat
    BY <1>4, ExchangeNumbers
  <2> QED
    BY <1>1, <1>4, <1>5, <2>1, <2>2 DEF ExchangeFlows, ExchangeHostType
<1>7. PICK b, c \in Nat : b = ExchangeBodies(id)[f] /\ c = ExchangeCredits(id)[f]
  BY <1>4, ExchangeWeights
<1>8. broken \in {Exchange!Fine, "lost", "limit", "buffer"}
  BY <1>1 DEF ExchangeTypes
<1>9. h.uploaded <= h.uploaded + b /\ h.credit <= h.credit + c
  BY <1>6, <1>7
\* The host stays as it is.
<1>10. ASSUME UNCHANGED host, broken' \in {Exchange!Fine, "lost", "limit", "buffer"} PROVE ExchangeInv'
  <2>1. host' = [host EXCEPT ![id] = h]
    BY <1>1, <1>4, <1>5, <1>10 DEF ExchangeTypes
  <2> QED
    BY <1>1, <1>2, <1>3, <1>4, <1>5, <1>6, <1>7, <1>9, <1>10, <2>1, ExchangeHostGets
<1>11. ASSUME NEW n \in 0..Chunk, n <= h.uploaded, Exchange!Enqueued(f, n), f.type \in {"body", "end"},
              n = (IF f.type = "body" THEN f.n ELSE 0)
       PROVE  ExchangeInv'
  <2>1. CASE Len(h.upload) = Slots
    BY <1>3, <1>5, <1>10, <1>11, <2>1 DEF Exchange!Enqueued, Exchange!Break
  <2>2. CASE Len(h.upload) # Slots
    <3>1. PICK e : e = [h EXCEPT !.upload = Append(h.upload, n), !.uploaded = h.uploaded - n,
                                 !.ended = h.ended \/ f.type = "end"]
      OBVIOUS
    <3>2. /\ e.upload = Append(h.upload, n) /\ e.uploaded = h.uploaded - n /\ e.drain = h.drain
          /\ e.ended = (h.ended \/ f.type = "end") /\ e.credit = h.credit /\ e.run = h.run
      BY <1>6, <3>1 DEF ExchangeHostType
    <3>3. ExchangeBuffered(e) /\ e.upload \in Seq(0..Chunk) /\ e.uploaded \in 0..Window
      BY <1>6, <1>11, <2>2, <3>2, ExchangeBufferGrows
    <3>4. e \in ExchangeHostType
      BY <1>6, <3>1, <3>2, <3>3 DEF ExchangeHostType
    <3>5. host' = [host EXCEPT ![id] = e] /\ broken' = broken
      <4>1. /\ UNCHANGED broken
            /\ host' = [host EXCEPT ![id].upload = Append(@, n),
                                    ![id].uploaded = IF f.type = "body" THEN @ - f.n ELSE @,
                                    ![id].ended = @ \/ f.type = "end"]
        BY <1>3, <1>5, <1>11, <2>2 DEF Exchange!Enqueued
      <4>2. h.uploaded - 0 = h.uploaded
        BY <1>6
      <4>3. (IF f.type = "body" THEN h.uploaded - f.n ELSE h.uploaded) = h.uploaded - n
        BY <1>11, <4>2
      <4> QED
        BY <1>1, <1>4, <1>5, <3>1, <4>1, <4>3 DEF ExchangeTypes
    <3>6. h.uploaded <= e.uploaded + b
      <4>1. b = n /\ n \in Nat
        BY <1>4, <1>7, <1>11
      <4> QED
        BY <1>6, <3>2, <4>1
    <3>7. e.credit <= h.credit + c /\ (e.ended => h.ended \/ f.type = "end") /\ f.type # "start"
      BY <1>9, <1>11, <3>2
    <3> QED
      BY <1>1, <1>2, <1>3, <1>4, <1>5, <1>7, <1>8, <3>2, <3>3, <3>4, <3>5, <3>6, <3>7, ExchangeHostGets
  <2> QED
    BY <2>1, <2>2
<1>12. CASE f.type = "body" /\ ~host[id].ended /\ f.n <= host[id].uploaded /\ Exchange!Enqueued(f, f.n)
  <2>1. f.n \in 0..Chunk
    <3>1. f.n <= Chunk
      BY <1>4, <1>12
    <3> QED
      BY <1>6, <3>1, ExchangeNumbers
  <2>2. f.n = (IF f.type = "body" THEN f.n ELSE 0)
    BY <1>12
  <2> QED
    BY <1>5, <1>11, <1>12, <2>1, <2>2
<1>13. CASE f.type = "end" /\ ~host[id].ended /\ Exchange!Enqueued(f, 0)
  <2>1. 0 \in 0..Chunk /\ 0 <= h.uploaded
    BY <1>6, ExchangeNumbers
  <2>2. 0 = (IF f.type = "body" THEN f.n ELSE 0)
    BY <1>13
  <2> QED
    BY <1>11, <1>13, <2>1, <2>2
<1>14. CASE f.type = "cancel" /\ host' = [host EXCEPT ![id].canceled = TRUE] /\ UNCHANGED broken
  <2>1. PICK e : e = [h EXCEPT !.canceled = TRUE]
    OBVIOUS
  <2>2. /\ e \in ExchangeHostType /\ e.upload = h.upload /\ e.uploaded = h.uploaded /\ e.drain = h.drain
        /\ e.ended = h.ended /\ e.credit = h.credit /\ e.run = h.run
    BY <1>6, <2>1 DEF ExchangeHostType
  <2>3. host' = [host EXCEPT ![id] = e]
    BY <1>1, <1>4, <1>5, <1>14, <2>1 DEF ExchangeTypes
  <2>4. ExchangeBuffered(e)
    BY <1>6, <2>2 DEF ExchangeBuffered, ExchangeWriting
  <2>5. f.type # "start" /\ broken' = broken
    BY <1>14
  <2> QED
    BY <1>1, <1>2, <1>3, <1>4, <1>5, <1>7, <1>8, <1>9, <2>2, <2>3, <2>4, <2>5, ExchangeHostGets
<1>15. CASE /\ f.type = "credit" /\ host[id].credit + f.n <= Window
            /\ host' = [host EXCEPT ![id].credit = @ + f.n] /\ UNCHANGED broken
  <2>1. PICK k : k = h.credit + f.n
    OBVIOUS
  <2>2. k \in 0..Window /\ k <= h.credit + c
    <3>1. c = f.n
      BY <1>4, <1>7, <1>15
    <3>2. k <= Window
      BY <1>5, <1>15, <2>1
    <3> QED
      BY <1>6, <2>1, <3>1, <3>2, ExchangeNumbers
  <2>3. PICK e : e = [h EXCEPT !.credit = k]
    OBVIOUS
  <2>4. /\ e \in ExchangeHostType /\ e.upload = h.upload /\ e.uploaded = h.uploaded /\ e.drain = h.drain
        /\ e.ended = h.ended /\ e.credit = k /\ e.run = h.run
    BY <1>6, <2>2, <2>3 DEF ExchangeHostType
  <2>5. host' = [host EXCEPT ![id] = e]
    BY <1>1, <1>4, <1>5, <1>15, <2>1, <2>3 DEF ExchangeTypes
  <2>6. ExchangeBuffered(e)
    BY <1>6, <2>4 DEF ExchangeBuffered, ExchangeWriting
  <2>7. f.type # "start" /\ broken' = broken
    BY <1>15
  <2> QED
    BY <1>1, <1>2, <1>3, <1>4, <1>5, <1>7, <1>8, <1>9, <2>2, <2>4, <2>5, <2>6, <2>7, ExchangeHostGets
<1>16. ~(f.type = "credit" /\ host[id].credit + f.n > Window) /\ ~(f.type = "body" /\ f.n > host[id].uploaded)
  <2>1. f.type = "credit" => ~(host[id].credit + f.n > Window)
    BY <1>4, <1>5, <1>6, ExchangeNumbers
  <2>2. f.type = "body" => ~(f.n > host[id].uploaded)
    BY <1>4, <1>5, <1>6
  <2> QED
    BY <2>1, <2>2
<1> QED
  BY <1>2, <1>3, <1>4, <1>12, <1>13, <1>14, <1>15, <1>16 DEF Exchange!HostTakes

\* accept of a start: the exchange begins with the whole upload window, or the
\* tunnel ends because there are too many.
LEMMA ExchangeHostStarts ==
  ASSUME ExchangeInv, toHost # << >>, toHost' = Tail(toHost), UNCHANGED page,
         broken' \in {Exchange!Fine, "lost", "limit", "buffer"},
         NEW id, id = Head(toHost).id, Head(toHost).type = "start", id > lastID, lastID' = id,
         NEW e \in ExchangeHostType, host' = [host EXCEPT ![id] = e], e.run \in {"no", "doing"},
         e.drain = host[id].drain, e.uploaded = host[id].uploaded, e.upload = host[id].upload,
         e.credit = host[id].credit, e.ended = host[id].ended,
         NEW kind, kind \notin {"start", "body"}, NEW credit \in Nat, credit <= Window, ExchangeSays(id, kind, credit, 0)
  PROVE  ExchangeInv'
<1>1. /\ ExchangeTypes /\ ExchangeFlows /\ ExchangeUploads /\ ExchangeDownloads /\ toHost \in Seq(Exchange!FrameType) /\ toPage \in Seq(Exchange!FrameType)
      /\ lastID \in Nat
  BY DEF ExchangeInv, ExchangeTypes
<1> DEFINE u == toHost
           t == Tail(toHost)
<1>2. PICK f : f = Head(u)
  OBVIOUS
<1>3. /\ f \in Exchange!FrameType /\ t \in Seq(Exchange!FrameType) /\ f.id = id /\ id \in Requests /\ f.type = "start"
      /\ Len(t) = Len(u) - 1 /\ Len(u) \in Nat /\ 1 \in 1..Len(u) /\ u[1] = f
      /\ \A i \in 1..Len(t) : i + 1 \in 1..Len(u) /\ t[i] = u[i + 1]
  BY <1>1, <1>2, ExchangeHeadFrame
<1>4. host'[id] = e /\ \A x \in Requests \ {id} : host'[x] = host[x]
  BY <1>1, <1>3 DEF ExchangeTypes
<1>5. /\ ExchangeOrdered(u, lastID) /\ ExchangeEnding(u) /\ ExchangeSized(u)
      /\ \A i \in 1..Len(u) : ExchangeAsking(u[i], page, host)
      /\ \A x \in Requests : host[x].ended => page[x].left = -1 /\ page[x].at # "new"
      /\ \A c, x \in Requests : page[x].at # "new" /\ page[c].at = "new" => x < c
      /\ \A x \in Requests : page[x].at # "new" => x <= lastID \/ ExchangeIntroduced(u, x)
  BY <1>1 DEF ExchangeUploads
<1>6. ExchangeEnding(t) /\ ExchangeSized(t) /\ ExchangeOrdered(t, id)
  BY <1>1, <1>3, <1>5, ExchangeOrderedTail
<1>7. u # << >> /\ u \in Seq(Exchange!FrameType) /\ t = Tail(u) /\ toHost' = t
  BY <1>1
<1>8. id \in Nat /\ \A x \in Requests : x \in Nat /\ (x > id => x > lastID) /\ (x <= lastID => x <= id)
  <2>1. \A x \in Requests : x \in Nat
    BY ExchangeNumbers
  <2> QED
    BY <1>1, <1>3, <2>1
<1>9. page[id].at # "new"
  BY <1>3, <1>5 DEF ExchangeAsking
<1>10. host[id] = Exchange!Unused /\ page[id].may = 0
  BY <1>1, <1>3 DEF ExchangeFlows, ExchangeIdle
<1>11. host[id].run = "no" /\ host[id].uploaded = Window /\ ExchangeWritten(host[id]) = 0
  BY <1>10 DEF Exchange!Unused, ExchangeWritten
<1>12. ExchangeDownloads' /\ toPage' \in Seq(Exchange!FrameType)
  <2>1. UNCHANGED page
    OBVIOUS
  <2>2. \E c, b : ExchangeSays(id, kind, c, b)
    OBVIOUS
  <2>3. /\ e.run \in {"no", "doing"} => host[id].run \in {"no", "doing"} /\ kind # "start"
        /\ e.run # "no" => page[id].at # "new"
        /\ e.run = "body" => host[id].run = "body" \/ kind = "start"
        /\ kind = "start" => host[id].run = "doing" /\ page[id].at # "new"
        /\ kind = "body" => host[id].run = "body" /\ page[id].at # "new"
    BY <1>9, <1>11
  <2> QED
    BY <1>1, <1>3, <2>1, <2>2, <2>3, ExchangeHostDownloads
<1>13. ExchangeTypes'
  <2>1. host' \in [Requests -> ExchangeHostType]
    BY <1>1, <1>3 DEF ExchangeTypes
  <2> QED
    BY <1>1, <1>3, <1>7, <1>8, <1>12, <2>1 DEF ExchangeTypes
<1> HIDE DEF u, t
<1>14. ExchangeFlows'
  <2>1. ASSUME NEW x \in Requests
        PROVE  /\ ExchangeUpFlow(x)' /\ ExchangeDownFlow(x)' /\ ExchangeBuffered(host'[x])
               /\ page'[x].granted + page'[x].held <= Window
               /\ ExchangeIdle(x)' => host'[x] = Exchange!Unused /\ page'[x].may = 0
    <3>1. /\ ExchangeUpFlow(x) /\ ExchangeDownFlow(x) /\ ExchangeBuffered(host[x])
          /\ page[x].granted + page[x].held <= Window
          /\ ExchangeIdle(x) => host[x] = Exchange!Unused /\ page[x].may = 0
      BY <1>1 DEF ExchangeFlows
    <3>2. PICK wb, wc : wb = ExchangeBodies(x) /\ wc = ExchangeCredits(x)
      OBVIOUS
    <3>3. wb \in [Exchange!FrameType -> Nat] /\ wc \in [Exchange!FrameType -> Nat]
      BY <3>2, ExchangeWeights
    <3>4. page'[x] = page[x] /\ (ExchangeIdle(x)' => ExchangeIdle(x) /\ x # id)
      BY <1>8 DEF ExchangeIdle
    <3>5. PICK w, q, g, r, idle, next :
            /\ w = page[x].may + ExchangeWritten(host[x]) /\ q = host[x].uploaded /\ g = page[x].granted
            /\ r = host[x].credit /\ idle = ExchangeIdle(x) /\ next = ExchangeIdle(x)'
      OBVIOUS
    <3>6. w \in Nat /\ q \in Nat /\ g \in Nat /\ r \in Nat /\ (next => idle) /\ Window \in Nat
      BY <1>1, <3>4, <3>5, ExchangeSizes, ExchangeNumbers
    <3>7. /\ page'[x].may + ExchangeWritten(host'[x]) = w /\ host'[x].uploaded = q /\ host'[x].credit = r
      BY <1>4, <3>4, <3>5 DEF ExchangeWritten
    <3>8. wb[f] = 0 /\ wc[f] = 0
      BY <1>3, <3>2 DEF ExchangeBodies, ExchangeCredits
    <3>9. w + q <= w + 0 + q /\ r + g <= r + 0 + g /\ w + 0 + q <= w + q /\ r + 0 + g <= r + g
          /\ w + q <= w + q /\ r + g <= r + g
      BY <3>6
    <3>10. Flow(u, wb, toPage, wc, w, q, idle) /\ Flow(u, wc, toPage, wb, r, g, FALSE)
      BY <3>1, <3>2, <3>5 DEF ExchangeUpFlow, ExchangeDownFlow, u
    <3>11. Flow(t, wb, toPage, wc, w, q, idle)
      <4>1. \A i, j \in Nat : i + q <= w + wb[f] + j => Flow(t, wb, toPage, wc, i, j, idle)
        BY <1>2, <1>7, <3>3, <3>6, <3>10, FlowShrinks
      <4> QED
        BY <3>6, <3>8, <3>9, <4>1
    <3>12. Flow(t, wc, toPage, wb, r, g, FALSE)
      <4>1. \A i, j \in Nat : i + g <= r + wc[f] + j => Flow(t, wc, toPage, wb, i, j, FALSE)
        BY <1>2, <1>7, <3>3, <3>6, <3>10, FlowShrinks
      <4> QED
        BY <3>6, <3>8, <3>9, <4>1
    <3>13. Flow(t, wb, toPage, wc, w, q, next) /\ (idle => Flow(t, wb, toPage, wc, 0, 0, FALSE))
      <4>1. next => idle
        BY <3>6
      <4>2. PICK a, b \in Nat : /\ Weighs(t, wb, a) /\ Weighs(toPage, wc, b) /\ w + a + b <= q
                               /\ (idle => a = 0 /\ b = 0)
        BY <3>11 DEF Flow
      <4>3. next => a = 0 /\ b = 0
        BY <4>1, <4>2
      <4>4. Flow(t, wb, toPage, wc, w, q, next)
        BY <4>2, <4>3 DEF Flow
      <4>5. ASSUME a = 0, b = 0 PROVE Flow(t, wb, toPage, wc, 0, 0, FALSE)
        <5>1. 0 + a + b <= 0
          BY <4>5
        <5> QED
          BY <4>2, <5>1 DEF Flow
      <4>6. idle => Flow(t, wb, toPage, wc, 0, 0, FALSE)
        BY <4>2, <4>5
      <4> QED
        BY <4>4, <4>6
    <3>14. Flow(t, wb, toPage', wc, w, q, next) /\ Flow(t, wc, toPage', wb, r, g, FALSE)
      <4>1. CASE toPage' = toPage
        BY <3>12, <3>13, <4>1
      <4>2. ASSUME NEW c \in Exchange!FrameType, toPage' = Append(toPage, c), c.id = id, c.type = kind,
                   ExchangeCredits(id)[c] = credit, ExchangeBodies(id)[c] = 0
            PROVE  Flow(t, wb, toPage', wc, w, q, next) /\ Flow(t, wc, toPage', wb, r, g, FALSE)
        <5>1. wb[c] = 0
          BY <3>2, <4>2 DEF ExchangeBodies
        <5>2. Flow(toPage, wb, t, wc, r, g, FALSE)
          BY <3>6, <3>12, FlowTurned
        <5>3. \A i, j \in Nat : i + wb[c] + g <= r + j /\ (wb[c] = 0 \/ ~FALSE)
                => Flow(Append(toPage, c), wb, t, wc, i, j, FALSE)
          BY <1>1, <3>3, <3>6, <5>2, FlowGrows
        <5>4. Flow(Append(toPage, c), wb, t, wc, r, g, FALSE)
          BY <3>6, <3>9, <5>1, <5>3
        <5>5. Flow(t, wc, Append(toPage, c), wb, r, g, FALSE)
          BY <3>6, <5>4, FlowTurned
        <5>6. CASE x # id
          <6>1. wc[c] = 0
            BY <3>2, <4>2, <5>6 DEF ExchangeCredits
          <6>2. Flow(toPage, wc, t, wb, w, q, next)
            BY <3>6, <3>13, FlowTurned
          <6>3. \A i, j \in Nat : i + wc[c] + q <= w + j /\ (wc[c] = 0 \/ ~next)
                  => Flow(Append(toPage, c), wc, t, wb, i, j, next)
            BY <1>1, <3>3, <3>6, <6>2, FlowGrows
          <6>4. Flow(Append(toPage, c), wc, t, wb, w, q, next)
            BY <3>6, <3>9, <6>1, <6>3
          <6>5. Flow(t, wb, Append(toPage, c), wc, w, q, next)
            BY <3>6, <6>4, FlowTurned
          <6> QED
            BY <4>2, <5>5, <6>5
        <5>7. CASE x = id
          <6>1. wc[c] = credit /\ idle /\ ~next /\ w = 0 /\ q = Window
            <7>1. idle /\ ~next
              BY <3>4, <3>5, <5>7 DEF ExchangeIdle
            <7>2. w = 0 + 0 /\ q = Window
              BY <1>10, <1>11, <3>5, <5>7
            <7> QED
              BY <3>2, <4>2, <5>7, <7>1, <7>2
          <6>2. Flow(t, wb, toPage, wc, 0, 0, next)
            <7>1. Flow(t, wb, toPage, wc, 0, 0, FALSE)
              BY <3>13, <6>1, Zenon
            <7>2. ~next
              BY <6>1
            <7> QED
              BY <7>1, <7>2 DEF Flow
          <6>3. 0 \in Nat /\ 0 + credit + 0 <= 0 + Window
            BY <3>6
          <6>4. Flow(toPage, wc, t, wb, 0, 0, next)
            BY <6>2, <6>3, FlowTurned
          <6>5. \A i, j \in Nat : i + wc[c] + 0 <= 0 + j /\ (wc[c] = 0 \/ ~next)
                  => Flow(Append(toPage, c), wc, t, wb, i, j, next)
            BY <1>1, <3>3, <6>3, <6>4, FlowGrows
          <6>6. Flow(Append(toPage, c), wc, t, wb, 0, Window, next)
            BY <3>6, <6>1, <6>3, <6>5
          <6>7. Flow(t, wb, Append(toPage, c), wc, 0, Window, next)
            BY <3>6, <6>3, <6>6, FlowTurned
          <6> QED
            BY <4>2, <5>5, <6>1, <6>7
        <5> QED
          BY <5>6, <5>7
      <4> QED
        BY <4>1, <4>2 DEF ExchangeSays
    <3>15. ExchangeUpFlow(x)' /\ ExchangeDownFlow(x)'
      BY <1>7, <3>2, <3>4, <3>5, <3>7, <3>14 DEF ExchangeUpFlow, ExchangeDownFlow
    <3>16. ExchangeBuffered(host'[x])
      <4>1. CASE x = id
        BY <1>4, <3>1, <4>1 DEF ExchangeBuffered, ExchangeWriting
      <4>2. CASE x # id
        BY <1>4, <3>1, <4>2
      <4> QED
        BY <4>1, <4>2
    <3>17. ExchangeIdle(x)' => host'[x] = Exchange!Unused /\ page'[x].may = 0
      BY <1>4, <3>1, <3>4
    <3> QED
      BY <3>1, <3>4, <3>15, <3>16, <3>17
  <2> QED
    BY <2>1 DEF ExchangeFlows
<1>15. ExchangeUploads'
  <2>1. \A i \in 1..Len(t) : t[i].id \in Requests
    BY <1>3, ExchangeElementTypes
  <2>2. \A x \in Requests : host'[x].ended = host[x].ended
    BY <1>4
  <2>3. \A i \in 1..Len(t) : ExchangeAsking(t[i], page', host')
    BY <1>3, <1>5, <2>1, <2>2 DEF ExchangeAsking
  <2>4. \A x \in Requests : host'[x].ended => page'[x].left = -1 /\ page'[x].at # "new"
    BY <1>5, <2>2
  <2>5. \A x \in Requests : ExchangeIntroduced(u, x) => x = id \/ ExchangeIntroduced(t, x)
    <3>1. ASSUME NEW x \in Requests, NEW k \in 1..Len(u), u[k].type = "start", u[k].id = x
          PROVE  x = id \/ ExchangeIntroduced(t, x)
      <4>1. CASE k = 1
        BY <1>3, <3>1, <4>1
      <4>2. CASE k # 1
        <5>1. k - 1 \in 1..Len(t) /\ (k - 1) + 1 = k
          BY <1>3, <4>2
        <5> QED
          BY <1>3, <3>1, <5>1 DEF ExchangeIntroduced
      <4> QED
        BY <4>1, <4>2
    <3> QED
      BY <3>1 DEF ExchangeIntroduced
  <2>6. /\ ExchangeOrdered(toHost', lastID') /\ ExchangeEnding(toHost') /\ ExchangeSized(toHost')
        /\ \A i \in 1..Len(toHost') : ExchangeAsking(toHost'[i], page', host')
    BY <1>6, <1>7, <2>3
  <2>7. /\ lastID' # 0 => lastID' \in Requests /\ page'[lastID'].at # "new"
        /\ \A c, x \in Requests : page'[x].at # "new" /\ page'[c].at = "new" => x < c
    BY <1>3, <1>5, <1>9
  <2>8. \A x \in Requests : page'[x].at # "new" => x <= lastID' \/ ExchangeIntroduced(toHost', x)
    <3>1. ASSUME NEW x \in Requests, page'[x].at # "new" PROVE x <= id \/ ExchangeIntroduced(t, x)
      <4>1. x <= lastID \/ ExchangeIntroduced(u, x)
        BY <1>5, <3>1
      <4>2. x <= lastID => x <= id
        BY <1>8
      <4>3. x = id => x <= id
        BY <1>8
      <4> QED
        BY <2>5, <4>1, <4>2, <4>3
    <3> QED
      BY <1>7, <3>1
  <2> QED
    BY <2>4, <2>6, <2>7, <2>8 DEF ExchangeUploads
<1> QED
  BY <1>12, <1>13, <1>14, <1>15 DEF ExchangeInv

LEMMA ExchangeHostAccepts == ASSUME ExchangeInv, Exchange!HostReceives PROVE ExchangeInv'
<1>1. /\ ExchangeTypes /\ ExchangeFlows /\ toHost \in Seq(Exchange!FrameType) /\ toHost # << >> /\ toHost' = Tail(toHost)
      /\ UNCHANGED page /\ broken \in {Exchange!Fine, "lost", "limit", "buffer"}
  BY DEF ExchangeInv, ExchangeTypes, Exchange!HostReceives
<1>2. PICK f : f = Head(toHost)
  OBVIOUS
<1>3. PICK id : id = f.id
  OBVIOUS
<1>4. f \in Exchange!FrameType /\ id \in Requests
  BY <1>1, <1>2, <1>3, ExchangeHeadFrame
<1>5. PICK h : h = host[id]
  OBVIOUS
<1>6. h \in ExchangeHostType /\ ExchangeBuffered(h) /\ h.uploaded \in Nat /\ h.credit \in Nat
  BY <1>1, <1>4, <1>5, ExchangeSizes DEF ExchangeFlows
<1>7. CASE f.type = "start" /\ id > lastID /\ Exchange!Start(f)
  <2>1. lastID' = id
    BY <1>3, <1>7, ExchangeCardinality DEF Exchange!Start
  <2>2. h = Exchange!Unused /\ h.run = "no"
    <3>1. ExchangeIdle(id)
      BY <1>7 DEF ExchangeIdle
    <3>2. host[id] = Exchange!Unused
      BY <1>1, <1>4, <3>1 DEF ExchangeFlows
    <3>3. Exchange!Unused.run = "no"
      BY DEF Exchange!Unused
    <3> QED
      BY <1>5, <3>2, <3>3
  <2>3. CASE broken' = "limit" /\ UNCHANGED <<host, toPage>>
    <3>1. host' = [host EXCEPT ![id] = h]
      BY <1>1, <1>4, <1>5, <2>3 DEF ExchangeTypes
    <3>2. PICK kind : kind = "none"
      OBVIOUS
    <3>3. ExchangeSays(id, kind, 0, 0) /\ kind \notin {"start", "body"}
      BY <2>3, <3>2 DEF ExchangeSays
    <3>4. 0 \in Nat /\ 0 <= Window /\ h.run \in {"no", "doing"}
      BY <2>2, ExchangeNumbers
    <3>5. broken' \in {Exchange!Fine, "lost", "limit", "buffer"}
      BY <2>3
    <3>6. Head(toHost).type = "start" /\ id = Head(toHost).id /\ id > lastID
      BY <1>2, <1>3, <1>7
    <3> QED
      BY <1>1, <1>5, <1>6, <2>1, <3>1, <3>3, <3>4, <3>5, <3>6, ExchangeHostStarts
  <2>4. CASE /\ host' = [host EXCEPT ![id].in = TRUE, ![id].run = "doing"]
             /\ Exchange!ToBrowser(Exchange!Frame("credit", id, Window)) /\ UNCHANGED broken
    <3>1. PICK e : e = [h EXCEPT !.in = TRUE, !.run = "doing"]
      OBVIOUS
    <3>2. /\ e \in ExchangeHostType /\ e.drain = h.drain /\ e.uploaded = h.uploaded /\ e.upload = h.upload
          /\ e.credit = h.credit /\ e.ended = h.ended /\ e.run \in {"no", "doing"}
      BY <1>6, <3>1 DEF ExchangeHostType
    <3>3. host' = [host EXCEPT ![id] = e]
      BY <1>1, <1>4, <1>5, <2>4, <3>1 DEF ExchangeTypes
    <3>4. PICK kind : kind = "credit"
      OBVIOUS
    <3>5. Window \in 0..Window /\ Window \in Nat /\ Window <= Window
      BY ExchangeNumbers
    <3>6. PICK c : c = Exchange!Frame("credit", id, Window)
      OBVIOUS
    <3>7. c \in Exchange!FrameType /\ c.id = id /\ c.type = kind /\ ExchangeCredits(id)[c] = Window /\ ExchangeBodies(id)[c] = 0
      BY <1>4, <3>4, <3>5, <3>6, ExchangeFrames
    <3>8. ExchangeSays(id, kind, Window, 0) /\ kind \notin {"start", "body"}
      BY <2>4, <3>4, <3>6, <3>7 DEF ExchangeSays, Exchange!ToBrowser
    <3>9. broken' \in {Exchange!Fine, "lost", "limit", "buffer"}
      BY <1>1, <2>4
    <3>10. Head(toHost).type = "start" /\ id = Head(toHost).id /\ id > lastID
      BY <1>2, <1>3, <1>7
    <3> QED
      BY <1>1, <1>5, <2>1, <3>2, <3>3, <3>5, <3>8, <3>9, <3>10, ExchangeHostStarts
  <2> QED
    BY <1>3, <1>7, <2>3, <2>4, ExchangeCardinality DEF Exchange!Start, Exchange!Break
<1>8. CASE f.type # "start" /\ host[id].in /\ Exchange!HostTakes(f) /\ UNCHANGED <<toPage, lastID>>
  BY <1>2, <1>8, ExchangeHostTakesOne
<1>9. CASE /\ f.type # "start" /\ UNCHANGED <<toPage, host, lastID>>
           /\ IF id <= lastID THEN UNCHANGED broken ELSE Exchange!Break("unknown")
  <2>1. id <= lastID
    BY <1>1, <1>2, <1>3, <1>9, ExchangeHostExpects
  <2>2. broken' \in {Exchange!Fine, "lost", "limit", "buffer"}
    BY <1>1, <1>9, <2>1
  <2>3. host' = [host EXCEPT ![id] = h]
    BY <1>1, <1>4, <1>5, <1>9 DEF ExchangeTypes
  <2>4. PICK b, c \in Nat : b = ExchangeBodies(id)[f] /\ c = ExchangeCredits(id)[f]
    BY <1>4, ExchangeWeights
  <2>5. h.uploaded <= h.uploaded + b /\ h.credit <= h.credit + c
    BY <1>6, <2>4
  <2> QED
    BY <1>1, <1>2, <1>3, <1>4, <1>5, <1>6, <1>9, <2>2, <2>3, <2>4, <2>5, ExchangeHostGets
<1> QED
  BY <1>2, <1>3, <1>7, <1>8, <1>9 DEF Exchange!HostReceives

\* The numbers of an exchange whose goroutine changes it.
LEMMA ExchangeHostEntry ==
  ASSUME ExchangeInv, NEW id \in Requests, host[id] # Exchange!Unused, NEW e, Exchange!Change(id, e)
  PROVE  /\ ~ExchangeIdle(id) /\ host' = [host EXCEPT ![id] = e] /\ UNCHANGED <<toHost, page, lastID, broken>>
         /\ host[id] \in ExchangeHostType /\ ExchangeBuffered(host[id])
<1>1. ExchangeTypes /\ ExchangeFlows
  BY DEF ExchangeInv
<1> QED
  BY <1>1 DEF ExchangeTypes, ExchangeFlows, Exchange!Change

LEMMA ExchangeHostWorks ==
  ASSUME ExchangeInv, NEW id \in Requests,
         Exchange!Drain(id) \/ Exchange!Drained(id) \/ Exchange!Credited(id) \/ Exchange!Respond(id) \/ Exchange!Read(id) \/ Exchange!Answered(id) \/ Exchange!Ended(id)
  PROVE  ExchangeInv'
<1>1. PICK h : h = host[id]
  OBVIOUS
<1>2. ExchangeTypes /\ ExchangeFlows
  BY DEF ExchangeInv
<1>3. /\ h \in ExchangeHostType /\ ExchangeBuffered(h) /\ h.uploaded \in Nat /\ h.credit \in Nat /\ h.drain.n \in Nat
      /\ ExchangeWritten(h) \in Nat /\ ExchangeWriting(h) \in Nat
  BY <1>1, <1>2, ExchangeSizes DEF ExchangeFlows
<1>4. h # Exchange!Unused
  <2>1. Exchange!Unused.upload = << >> /\ Exchange!Unused.drain.at = "idle" /\ Exchange!Unused.run = "no"
    BY DEF Exchange!Unused
  <2> QED
    BY <1>1, <2>1
       DEF Exchange!Drain, Exchange!Drained, Exchange!Credited, Exchange!Respond, Exchange!Read,
           Exchange!Answered, Exchange!Ended
<1>5. /\ ExchangeWritten(h) + 0 + h.uploaded <= ExchangeWritten(h) + h.uploaded /\ h.credit + 0 <= h.credit /\ 0 \in Nat
  BY <1>3
<1>6. \A k \in {"none", "start", "body", "end", "error", "credit"} : k = k
  OBVIOUS
<1>7. ASSUME Exchange!Drain(id) PROVE ExchangeInv'
  <2>1. PICK n : n = Head(h.upload)
    OBVIOUS
  <2>2. PICK a \in Nat : Weighs(h.upload, ExchangeUnits, a) /\ h.uploaded + a + ExchangeWriting(h) <= Window
    BY <1>3 DEF ExchangeBuffered
  <2>3. h.upload \in Seq(0..Chunk) /\ h.upload # << >> /\ h.drain.at = "idle"
    BY <1>1, <1>3, <1>7 DEF Exchange!Drain, ExchangeHostType
  <2>4. n \in 0..Chunk /\ Tail(h.upload) \in Seq(0..Chunk) /\ Len(Tail(h.upload)) <= Slots
    <3>1. /\ Len(Tail(h.upload)) = Len(h.upload) - 1 /\ Len(h.upload) \in Nat /\ Len(h.upload) <= Slots
          /\ Head(h.upload) \in 0..Chunk /\ Tail(h.upload) \in Seq(0..Chunk)
      BY <1>3, <2>3, HeadTailProperties, LenProperties DEF ExchangeBuffered
    <3> QED
      BY <2>1, <3>1, ExchangeNumbers
  <2>5. n \in Nat /\ n <= a /\ Weighs(Tail(h.upload), ExchangeUnits, a - n)
    <3>1. ExchangeUnits[n] = n
      BY <2>4 DEF ExchangeUnits
    <3>2. ExchangeUnits[n] \in Nat /\ ExchangeUnits[n] <= a /\ Weighs(Tail(h.upload), ExchangeUnits, a - ExchangeUnits[n])
      BY <2>1, <2>2, <2>3, ExchangeWeights, WeighsTail
    <3> QED
      BY <3>1, <3>2
  <2>6. PICK at : at = (IF n = 0 THEN "done" ELSE "writing")
    OBVIOUS
  <2>7. PICK e : e = [h EXCEPT !.upload = Tail(h.upload), !.drain = [at |-> at, n |-> n]]
    OBVIOUS
  <2>8. /\ e \in ExchangeHostType /\ e.upload = Tail(h.upload) /\ e.drain.at = at /\ e.drain.n = n
        /\ e.uploaded = h.uploaded /\ e.credit = h.credit /\ e.ended = h.ended /\ e.run = h.run
    BY <1>3, <2>4, <2>6, <2>7 DEF ExchangeHostType
  <2>9. Exchange!Change(id, e) /\ toPage' = toPage
    BY <1>1, <1>7, <2>1, <2>6, <2>7 DEF Exchange!Drain
  <2>10. ExchangeWritten(e) = 0 /\ ExchangeWritten(h) = 0 /\ ExchangeWriting(h) = 0 /\ ExchangeWriting(e) = n
    <3>1. n # 0 => ExchangeWriting(e) = n
      BY <2>6, <2>8 DEF ExchangeWriting
    <3>2. n = 0 => ExchangeWriting(e) = n
      BY <2>6, <2>8 DEF ExchangeWriting
    <3> QED
      BY <2>3, <2>6, <2>8, <3>1, <3>2 DEF ExchangeWritten, ExchangeWriting
  <2>11. ExchangeBuffered(e)
    <3>1. PICK q \in Nat : q = h.uploaded
      BY <1>3
    <3>2. a - n \in Nat /\ q + (a - n) + n <= Window
      BY <2>2, <2>5, <2>10, <3>1, ExchangeNumbers
    <3> QED
      BY <2>4, <2>5, <2>8, <2>10, <3>1, <3>2 DEF ExchangeBuffered
  <2>12. PICK kind : kind = "none"
    OBVIOUS
  <2>13. ExchangeSays(id, kind, 0, 0) /\ kind # "start" /\ kind # "body"
    BY <2>9, <2>12 DEF ExchangeSays
  <2>14. ~ExchangeIdle(id) /\ host' = [host EXCEPT ![id] = e] /\ UNCHANGED <<toHost, page, lastID, broken>>
    BY <1>1, <1>4, <2>9, ExchangeHostEntry
  <2>15. ExchangeWritten(e) \in Nat /\ ExchangeWritten(e) + 0 + host[id].uploaded <= ExchangeWritten(host[id]) + e.uploaded
    BY <1>1, <1>5, <2>8, <2>10
  <2>16. e.credit + 0 <= host[id].credit
    BY <1>1, <1>5, <2>8
  <2> QED
    BY <1>1, <1>5, <2>8, <2>11, <2>13, <2>14, <2>15, <2>16, ExchangeHostChanges
<1>8. ASSUME Exchange!Drained(id) PROVE ExchangeInv'
  <2>1. PICK n, q : n = h.drain.n /\ q = h.uploaded + h.drain.n
    OBVIOUS
  <2>2. PICK a \in Nat : Weighs(h.upload, ExchangeUnits, a) /\ h.uploaded + a + ExchangeWriting(h) <= Window
    BY <1>3 DEF ExchangeBuffered
  <2>3. h.drain.at = "writing" /\ ExchangeWriting(h) = n /\ ExchangeWritten(h) = 0 /\ n \in Nat
    BY <1>1, <1>3, <1>8, <2>1 DEF Exchange!Drained, ExchangeWriting, ExchangeWritten
  <2>4. q \in 0..Window /\ q = h.uploaded + n /\ q + a + 0 <= Window
    BY <1>3, <2>1, <2>2, <2>3, ExchangeNumbers
  <2>5. PICK k : k = [h.drain EXCEPT !.at = "written"]
    OBVIOUS
  <2>6. k \in [at : {"idle", "writing", "written", "done"}, n : 0..Chunk] /\ k.at = "written" /\ k.n = n
    BY <1>3, <2>1, <2>5 DEF ExchangeHostType
  <2>7. PICK e : e = [h EXCEPT !.uploaded = q, !.drain = k]
    OBVIOUS
  <2>8. /\ e \in ExchangeHostType /\ e.upload = h.upload /\ e.drain = k /\ e.uploaded = q
        /\ e.credit = h.credit /\ e.ended = h.ended /\ e.run = h.run
    BY <1>3, <2>4, <2>6, <2>7 DEF ExchangeHostType
  <2>9. Exchange!Change(id, e) /\ toPage' = toPage
    <3>1. [h EXCEPT !.uploaded = @ + h.drain.n, !.drain.at = "written"] = e
      BY <1>3, <2>1, <2>5, <2>7 DEF ExchangeHostType
    <3> QED
      BY <1>1, <1>8, <3>1 DEF Exchange!Drained
  <2>10. ExchangeWritten(e) = n /\ ExchangeWriting(e) = 0
    BY <2>6, <2>8 DEF ExchangeWritten, ExchangeWriting
  <2>11. ExchangeBuffered(e)
    <3>1. Len(h.upload) <= Slots
      BY <1>3 DEF ExchangeBuffered
    <3> QED
      BY <2>2, <2>4, <2>8, <2>10, <3>1 DEF ExchangeBuffered
  <2>12. PICK kind : kind = "none"
    OBVIOUS
  <2>13. ExchangeSays(id, kind, 0, 0) /\ kind # "start" /\ kind # "body"
    BY <2>9, <2>12 DEF ExchangeSays
  <2>14. ~ExchangeIdle(id) /\ host' = [host EXCEPT ![id] = e] /\ UNCHANGED <<toHost, page, lastID, broken>>
    BY <1>1, <1>4, <2>9, ExchangeHostEntry
  <2>15. ExchangeWritten(e) \in Nat /\ ExchangeWritten(e) + 0 + host[id].uploaded <= ExchangeWritten(host[id]) + e.uploaded
    <3>1. n + 0 + h.uploaded <= 0 + q
      BY <1>3, <2>3, <2>4
    <3> QED
      BY <1>1, <2>3, <2>8, <2>10, <3>1
  <2>16. e.credit + 0 <= host[id].credit
    BY <1>1, <1>5, <2>8
  <2> QED
    BY <1>1, <1>5, <2>8, <2>11, <2>13, <2>14, <2>15, <2>16, ExchangeHostChanges
<1>9. ASSUME Exchange!Credited(id) PROVE ExchangeInv'
  <2>1. PICK n : n = h.drain.n
    OBVIOUS
  <2>2. h.drain.at = "written" /\ n \in 0..Window /\ n \in Nat
    <3>1. n \in 0..Chunk
      BY <1>3, <2>1 DEF ExchangeHostType
    <3> QED
      BY <1>1, <1>9, <3>1, ExchangeNumbers DEF Exchange!Credited
  <2>3. PICK e : e = [h EXCEPT !.drain = [at |-> "idle", n |-> 0]]
    OBVIOUS
  <2>4. 0 \in 0..Chunk
    BY ExchangeNumbers
  <2>5. /\ e \in ExchangeHostType /\ e.upload = h.upload /\ e.drain.at = "idle" /\ e.uploaded = h.uploaded
        /\ e.credit = h.credit /\ e.ended = h.ended /\ e.run = h.run
    BY <1>3, <2>3, <2>4 DEF ExchangeHostType
  <2>6. Exchange!Change(id, e) /\ Exchange!ToBrowser(Exchange!Frame("credit", id, n))
    BY <1>1, <1>9, <2>1, <2>3 DEF Exchange!Credited
  <2>7. ExchangeWritten(h) = n /\ ExchangeWriting(h) = 0 /\ ExchangeWritten(e) = 0 /\ ExchangeWriting(e) = 0
    BY <2>1, <2>2, <2>5 DEF ExchangeWritten, ExchangeWriting
  <2>8. ExchangeBuffered(e)
    BY <1>3, <2>5, <2>7 DEF ExchangeBuffered
  <2>9. PICK kind, c : kind = "credit" /\ c = Exchange!Frame("credit", id, n)
    OBVIOUS
  <2>10. c \in Exchange!FrameType /\ c.id = id /\ c.type = kind /\ ExchangeCredits(id)[c] = n /\ ExchangeBodies(id)[c] = 0
    BY <2>2, <2>9, ExchangeFrames
  <2>11. ExchangeSays(id, kind, n, 0) /\ kind # "start" /\ kind # "body"
    BY <2>6, <2>9, <2>10 DEF ExchangeSays, Exchange!ToBrowser
  <2>12. ~ExchangeIdle(id) /\ host' = [host EXCEPT ![id] = e] /\ UNCHANGED <<toHost, page, lastID, broken>>
    BY <1>1, <1>4, <2>6, ExchangeHostEntry
  <2>13. ExchangeWritten(e) \in Nat /\ ExchangeWritten(e) + n + host[id].uploaded <= ExchangeWritten(host[id]) + e.uploaded
    <3>1. 0 + n + h.uploaded <= n + h.uploaded
      BY <1>3, <2>2
    <3> QED
      BY <1>1, <2>5, <2>7, <3>1
  <2>14. e.credit + 0 <= host[id].credit
    BY <1>1, <1>5, <2>5
  <2> QED
    BY <1>1, <1>5, <2>2, <2>5, <2>8, <2>11, <2>12, <2>13, <2>14, ExchangeHostChanges
\* The other steps leave the upload alone.
<1>10. ASSUME NEW e \in ExchangeHostType, Exchange!Change(id, e), e.upload = h.upload, e.drain = h.drain,
              e.uploaded = h.uploaded, e.ended = h.ended,
              NEW kind, NEW body \in Nat, ExchangeSays(id, kind, 0, body), e.credit + body <= h.credit,
              e.run \in {"no", "doing"} => h.run \in {"no", "doing"} /\ kind # "start",
              e.run # "no" => h.run # "no",
              e.run = "body" => h.run = "body" \/ kind = "start",
              kind = "start" => h.run = "doing", kind = "body" => h.run = "body"
       PROVE  ExchangeInv'
  <2>1. ~ExchangeIdle(id) /\ host' = [host EXCEPT ![id] = e] /\ UNCHANGED <<toHost, page, lastID, broken>>
    BY <1>1, <1>4, <1>10, ExchangeHostEntry
  <2>2. ExchangeWritten(e) = ExchangeWritten(h) /\ ExchangeWriting(e) = ExchangeWriting(h)
    BY <1>10 DEF ExchangeWritten, ExchangeWriting
  <2>3. ExchangeBuffered(e)
    BY <1>3, <1>10, <2>2 DEF ExchangeBuffered
  <2>4. ExchangeWritten(e) \in Nat /\ ExchangeWritten(e) + 0 + host[id].uploaded <= ExchangeWritten(host[id]) + e.uploaded
    BY <1>1, <1>3, <1>5, <1>10, <2>2
  <2>5. e.ended = host[id].ended /\ e.credit + body <= host[id].credit
    BY <1>1, <1>10
  <2>6. /\ e.run \in {"no", "doing"} => host[id].run \in {"no", "doing"} /\ kind # "start"
        /\ e.run # "no" => host[id].run # "no"
        /\ e.run = "body" => host[id].run = "body" \/ kind = "start"
        /\ kind = "start" => host[id].run = "doing"
        /\ kind = "body" => host[id].run = "body"
    BY <1>1, <1>10
  <2> QED
    BY <1>5, <1>10, <2>1, <2>3, <2>4, <2>5, <2>6, ExchangeHostChanges
<1>11. ASSUME NEW type \in {"start", "end", "error"}, Exchange!ToBrowser(Exchange!Frame(type, id, 0))
       PROVE  \E kind : kind = type /\ ExchangeSays(id, kind, 0, 0)
  <2>1. 0 \in 0..Window
    BY ExchangeNumbers
  <2>2. PICK c : c = Exchange!Frame(type, id, 0)
    OBVIOUS
  <2>3. c \in Exchange!FrameType /\ c.id = id /\ c.type = type /\ ExchangeCredits(id)[c] = 0 /\ ExchangeBodies(id)[c] = 0
    BY <1>11, <2>1, <2>2, ExchangeFrames
  <2> QED
    BY <1>11, <2>2, <2>3 DEF ExchangeSays, Exchange!ToBrowser
<1>12. ASSUME Exchange!Respond(id) PROVE ExchangeInv'
  <2>1. PICK e : e = [h EXCEPT !.run = "body"]
    OBVIOUS
  <2>2. /\ e \in ExchangeHostType /\ e.upload = h.upload /\ e.drain = h.drain /\ e.uploaded = h.uploaded
        /\ e.credit = h.credit /\ e.ended = h.ended /\ e.run = "body"
    BY <1>3, <2>1 DEF ExchangeHostType
  <2>3. Exchange!Change(id, e) /\ Exchange!ToBrowser(Exchange!Frame("start", id, 0)) /\ h.run = "doing"
    BY <1>1, <1>12, <2>1 DEF Exchange!Respond
  <2>4. PICK kind : kind = "start" /\ ExchangeSays(id, kind, 0, 0)
    BY <1>11, <2>3
  <2> QED
    BY <1>5, <1>10, <2>2, <2>3, <2>4
<1>13. ASSUME Exchange!Read(id) PROVE ExchangeInv'
  <2>1. PICK n \in 1..Exchange!Lesser(Exchange!Lesser(h.credit, Chunk), MaxBody - h.sent) :
          Exchange!ToBrowser(Exchange!Frame("body", id, n)) /\ Exchange!Change(id, [h EXCEPT !.credit = @ - n, !.sent = @ + n])
    BY <1>1, <1>13 DEF Exchange!Read
  <2>2. h.sent \in Nat /\ h.credit \in 0..Window
    BY <1>3 DEF ExchangeHostType
  <2>3. n \in Nat /\ n <= h.credit /\ n <= Chunk
    <3>1. PICK i, j, k : i = h.credit /\ j = MaxBody - h.sent /\ k = Exchange!Lesser(i, Chunk)
      OBVIOUS
    <3>2. i \in Nat /\ j \in Int /\ Chunk \in Nat
      BY <1>3, <2>2, <3>1, ExchangeNumbers
    <3>3. k \in Nat /\ k <= i /\ k <= Chunk
      BY <3>1, <3>2 DEF Exchange!Lesser
    <3>4. n \in 1..Exchange!Lesser(k, j) /\ Exchange!Lesser(k, j) \in Int /\ Exchange!Lesser(k, j) <= k
      BY <2>1, <3>1, <3>2, <3>3 DEF Exchange!Lesser
    <3> QED
      BY <3>1, <3>2, <3>3, <3>4
  <2>4. n \in 0..Window /\ h.credit - n \in 0..Window /\ h.sent + n \in Nat
    BY <2>2, <2>3, ExchangeNumbers
  <2>5. PICK e : e = [h EXCEPT !.credit = h.credit - n, !.sent = h.sent + n]
    OBVIOUS
  <2>6. /\ e \in ExchangeHostType /\ e.upload = h.upload /\ e.drain = h.drain /\ e.uploaded = h.uploaded
        /\ e.credit = h.credit - n /\ e.ended = h.ended /\ e.run = h.run
    BY <1>3, <2>4, <2>5 DEF ExchangeHostType
  <2>7. Exchange!Change(id, e) /\ h.run = "body"
    BY <1>1, <1>13, <2>1, <2>5 DEF Exchange!Read
  <2>8. PICK kind, c : kind = "body" /\ c = Exchange!Frame("body", id, n)
    OBVIOUS
  <2>9. c \in Exchange!FrameType /\ c.id = id /\ c.type = kind /\ ExchangeCredits(id)[c] = 0 /\ ExchangeBodies(id)[c] = n
    BY <2>4, <2>8, ExchangeFrames
  <2>10. ExchangeSays(id, kind, 0, n)
    BY <2>1, <2>8, <2>9 DEF ExchangeSays, Exchange!ToBrowser
  <2>11. e.credit + n <= h.credit
    BY <1>3, <2>3, <2>6
  <2>12. kind # "start"
    BY <2>8
  <2> QED
    BY <1>10, <2>3, <2>6, <2>7, <2>8, <2>10, <2>11, <2>12
<1>14. ASSUME Exchange!Answered(id) PROVE ExchangeInv'
  <2>1. PICK e : e = [h EXCEPT !.run = "ending"]
    OBVIOUS
  <2>2. /\ e \in ExchangeHostType /\ e.upload = h.upload /\ e.drain = h.drain /\ e.uploaded = h.uploaded
        /\ e.credit = h.credit /\ e.ended = h.ended /\ e.run = "ending"
    BY <1>3, <2>1 DEF ExchangeHostType
  <2>3. Exchange!Change(id, e) /\ h.run \in {"doing", "body"}
    BY <1>1, <1>14, <2>1 DEF Exchange!Answered
  <2>4. \E kind : kind \in {"none", "end", "error"} /\ ExchangeSays(id, kind, 0, 0)
    <3>1. Exchange!ToBrowser(Exchange!Frame("end", id, 0)) \/ Exchange!ToBrowser(Exchange!Frame("error", id, 0)) \/ toPage' = toPage
      BY <1>14 DEF Exchange!Answered
    <3>2. CASE Exchange!ToBrowser(Exchange!Frame("end", id, 0))
      BY <1>11, <3>2
    <3>3. CASE Exchange!ToBrowser(Exchange!Frame("error", id, 0))
      BY <1>11, <3>3
    <3>4. CASE toPage' = toPage
      <4>1. PICK kind : kind = "none"
        OBVIOUS
      <4>2. ExchangeSays(id, kind, 0, 0)
        BY <3>4, <4>1 DEF ExchangeSays
      <4> QED
        BY <4>1, <4>2
    <3> QED
      BY <3>1, <3>2, <3>3, <3>4
  <2>5. PICK kind : kind \in {"none", "end", "error"} /\ ExchangeSays(id, kind, 0, 0)
    BY <2>4
  <2>6. kind # "start" /\ kind # "body"
    BY <2>5
  <2> QED
    BY <1>5, <1>10, <2>2, <2>3, <2>5, <2>6
<1>15. ASSUME Exchange!Ended(id) PROVE ExchangeInv'
  <2>1. PICK e : e = [h EXCEPT !.in = FALSE, !.canceled = TRUE, !.run = "ended"]
    OBVIOUS
  <2>2. /\ e \in ExchangeHostType /\ e.upload = h.upload /\ e.drain = h.drain /\ e.uploaded = h.uploaded
        /\ e.credit = h.credit /\ e.ended = h.ended /\ e.run = "ended"
    BY <1>3, <2>1 DEF ExchangeHostType
  <2>3. Exchange!Change(id, e) /\ h.run = "ending" /\ toPage' = toPage
    BY <1>1, <1>15, <2>1 DEF Exchange!Ended
  <2>4. PICK kind : kind = "none"
    OBVIOUS
  <2>5. ExchangeSays(id, kind, 0, 0) /\ kind # "start" /\ kind # "body"
    BY <2>3, <2>4 DEF ExchangeSays
  <2> QED
    BY <1>5, <1>10, <2>2, <2>3, <2>5
<1> QED
  BY <1>7, <1>8, <1>9, <1>12, <1>13, <1>14, <1>15

LEMMA ExchangeLoses == ASSUME ExchangeInv, Exchange!Lost \/ UNCHANGED Exchange!exchangeVars PROVE ExchangeInv'
<1>1. /\ UNCHANGED <<toHost, toPage, page, host, lastID>> /\ ExchangeTypes
      /\ broken' \in {Exchange!Fine, "lost", "limit", "buffer"}
  BY DEF ExchangeInv, ExchangeTypes, Exchange!Lost, Exchange!Break, Exchange!exchangeVars
<1>2. ExchangeTypes'
  BY <1>1 DEF ExchangeTypes
<1>3. ExchangeFlows'
  BY <1>1 DEF ExchangeInv, ExchangeFlows, ExchangeUpFlow, ExchangeDownFlow, ExchangeIdle
<1>4. ExchangeUploads'
  BY <1>1 DEF ExchangeInv, ExchangeUploads
<1>5. ExchangeDownloads'
  BY <1>1 DEF ExchangeInv, ExchangeDownloads
<1> QED
  BY <1>2, <1>3, <1>4, <1>5 DEF ExchangeInv

LEMMA ExchangePreserved == ExchangeInv /\ [Exchange!Next]_(Exchange!exchangeVars) => ExchangeInv'
<1> SUFFICES ASSUME ExchangeInv, [Exchange!Next]_(Exchange!exchangeVars) PROVE ExchangeInv'
  OBVIOUS
<1>1. CASE Exchange!PageReceives
  BY <1>1, ExchangePageTakesOne
<1>2. CASE Exchange!HostReceives
  BY <1>2, ExchangeHostAccepts
<1>3. CASE Exchange!Lost \/ UNCHANGED Exchange!exchangeVars
  BY <1>3, ExchangeLoses
<1>4. ASSUME NEW id \in Requests, Exchange!Ask(id) PROVE ExchangeInv'
  BY <1>4, ExchangePageAsks
<1>5. ASSUME NEW id \in Requests, Exchange!Upload(id) \/ Exchange!UploadEnds(id) \/ Exchange!Pull(id) \/ Exchange!Cancel(id) PROVE ExchangeInv'
  BY <1>5, ExchangePageActs
<1>6. ASSUME NEW id \in Requests, Exchange!Consume(id) PROVE ExchangeInv'
  BY <1>6, ExchangePageConsumes
<1>7. ASSUME NEW id \in Requests,
             Exchange!Drain(id) \/ Exchange!Drained(id) \/ Exchange!Credited(id) \/ Exchange!Respond(id) \/ Exchange!Read(id) \/ Exchange!Answered(id) \/ Exchange!Ended(id)
      PROVE  ExchangeInv'
  BY <1>7, ExchangeHostWorks
<1> QED
  BY <1>1, <1>2, <1>3, <1>4, <1>5, <1>6, <1>7 DEF Exchange!Next

LEMMA ExchangeInvariance == Exchange!Spec => []ExchangeInv
<1>1. Exchange!Init => ExchangeInv
  BY ExchangeInitially
<1>2. ExchangeInv /\ [Exchange!Next]_(Exchange!exchangeVars) => ExchangeInv'
  BY ExchangePreserved
<1> QED
  BY <1>1, <1>2, PTL DEF Exchange!Spec

\* httpgateway/gateway.go, service-worker: the state of both ends and the
\* frames between them keep their types.
THEOREM ExchangeTypeCorrect == Exchange!Spec => []Exchange!TypeOK
<1>1. ExchangeInv => Exchange!TypeOK
  <2> SUFFICES ASSUME ExchangeInv PROVE Exchange!TypeOK
    OBVIOUS
  <2>1. ExchangeTypes /\ ExchangeFlows
    BY DEF ExchangeInv
  <2>2. ASSUME NEW id \in Requests
        PROVE  /\ host[id].uploaded \in 0..Window /\ host[id].credit \in 0..Window
               /\ Len(host[id].upload) <= Slots /\ host[id].drain.n \in 0..Chunk
    BY <2>1 DEF ExchangeTypes, ExchangeHostType, ExchangeFlows, ExchangeBuffered
  <2> QED
    BY <2>1, <2>2 DEF ExchangeTypes, Exchange!TypeOK, ExchangePageType
<1> QED
  BY <1>1, ExchangeInvariance, PTL

\* With its own worker at the other end the host never sees a window exceeded, a
\* second end or an unknown exchange, nor does the worker (accept and execute,
\* upload, pull and receive).
THEOREM ExchangeWindowsStayKept == Exchange!Spec => []Exchange!WindowsKept
<1>1. ExchangeInv => Exchange!WindowsKept
  BY DEF ExchangeInv, ExchangeTypes, Exchange!WindowsKept
<1> QED
  BY <1>1, ExchangeInvariance, PTL


-----------------------------------------------------------------------------
(***************************************************************************)
(* Proofs about the WebSockets of a gateway: the credit of the host, that  *)
(* on its way and that still owed never pass the window, so that with its  *)
(* own worker the host meets no broken window.                             *)
(***************************************************************************)

\* The operators of the library, as the component has them.
LEMMA ChannelIsFiniteSet == \A X : Channel!IsFiniteSet(X) <=> IsFiniteSet(X)
BY DEF Channel!IsFiniteSet, IsFiniteSet
LEMMA ChannelCardinality == \A X : Channel!Cardinality(X) = Cardinality(X)
BY DEF Channel!Cardinality, Channel!IsFiniteSet, Cardinality, IsFiniteSet

\* The constants of the component are as it assumes.
LEMMA ChannelBounds == Channel!ChannelsAssumption
  BY StreamsAssumption

ChannelRemoteType ==
  [in : BOOLEAN, conn : {"none", "open", "closed"}, queue : 0..Queue, credit : 0..Credit,
   pending : Nat, told : Nat, reader : BOOLEAN, writer : BOOLEAN, closing : BOOLEAN]

ChannelTypes ==
  /\ up \in Seq(Channel!MsgType) /\ down \in Seq(Channel!MsgType) /\ opens \subseteq Channels
  /\ tab \in [Channels -> [at : {"new", "kept", "gone"}, opened : BOOLEAN, closing : BOOLEAN, sent : 0..MaxSent]]
  /\ remote \in [Channels -> ChannelRemoteType] /\ lastWSID \in Nat
  /\ failed \in {Channel!Runs, "closed", "unknown"}

\* The credit that a frame to the host gives channel c, and the credit that the
\* worker will give for a frame it receives.
ChannelGives(c) == [m \in Channel!MsgType |-> IF m.id = c /\ m.type = "credit" THEN m.n ELSE 0]
ChannelOwes(c) ==
  [m \in Channel!MsgType |-> IF m.id = c /\ m.type = "data" THEN m.n
                             ELSE IF m.id = c /\ m.type = "opened" THEN Credit ELSE 0]

\* The credit of the host, that on its way and that owed are the window at most,
\* and there is none for a channel that is not open yet.
ChannelFlow(c, u, d, credit, idle) ==
  \E a, b \in Nat :
    /\ Weighs(u, ChannelGives(c), a) /\ Weighs(d, ChannelOwes(c), b) /\ credit + a + b <= Credit
    /\ idle => a = 0 /\ b = 0

ChannelIdle(c) == c > lastWSID \/ c \in opens
ChannelFlows ==
  \A c \in Channels :
    ChannelFlow(c, up, down, remote[c].credit, ChannelIdle(c)) /\ (ChannelIdle(c) => remote[c] = Channel!NoSocket)

\* Channels are opened in order.
ChannelOrdered(u, last, t) ==
  /\ \A i \in 1..Len(u) : u[i].type = "open" => u[i].id > last /\ t[u[i].id].at # "new"
  /\ \A i, j \in 1..Len(u) :
       i < j /\ u[i].type = "open" /\ u[j].type = "open" => u[i].id < u[j].id
ChannelIds ==
  /\ ChannelOrdered(up, lastWSID, tab)
  /\ lastWSID # 0 => lastWSID \in Channels /\ tab[lastWSID].at # "new"
  /\ \A c, x \in Channels : tab[x].at # "new" /\ tab[c].at = "new" => x < c
  /\ \A c \in opens : c <= lastWSID

ChannelLimits ==
  /\ IsFiniteSet(Channel!Sockets) /\ Cardinality(Channel!Sockets) <= MaxWebSockets
  /\ opens # {} => Cardinality(Channel!Sockets) < MaxWebSockets

ChannelInv == ChannelTypes /\ ChannelFlows /\ ChannelIds /\ ChannelLimits

LEMMA ChannelWeightTypes ==
  ASSUME NEW c \in Channels
  PROVE  ChannelGives(c) \in [Channel!MsgType -> Nat] /\ ChannelOwes(c) \in [Channel!MsgType -> Nat]
<1>1. \A m \in Channel!MsgType : m.n \in Nat
  BY ChannelBounds DEF Channel!MsgType, Channel!ChannelsAssumption
<1>2. Credit \in Nat
  BY ChannelBounds DEF Channel!ChannelsAssumption
<1> QED
  BY <1>1, <1>2 DEF ChannelGives, ChannelOwes

\* A frame that gives no credit joins those to the host.
LEMMA ChannelFlowSends ==
  ASSUME NEW c \in Channels, NEW u \in Seq(Channel!MsgType), NEW d, NEW s \in Nat, NEW idle,
         ChannelFlow(c, u, d, s, idle), NEW m \in Channel!MsgType, ChannelGives(c)[m] = 0
  PROVE  ChannelFlow(c, Append(u, m), d, s, idle)
<1>1. PICK a, b \in Nat : /\ Weighs(u, ChannelGives(c), a) /\ Weighs(d, ChannelOwes(c), b) /\ s + a + b <= Credit
                          /\ idle => a = 0 /\ b = 0
  BY DEF ChannelFlow
<1>2. Weighs(Append(u, m), ChannelGives(c), a + 0)
  BY <1>1, ChannelWeightTypes, WeighsAppend
<1>3. a + 0 = a
  OBVIOUS
<1> QED
  BY <1>1, <1>2, <1>3 DEF ChannelFlow

\* The host takes a frame: the credit is its own.
LEMMA ChannelFlowTakes ==
  ASSUME NEW c \in Channels, NEW u \in Seq(Channel!MsgType), u # << >>, NEW d, NEW s \in Nat, NEW idle,
         ChannelFlow(c, u, d, s, idle)
  PROVE  /\ ChannelFlow(c, Tail(u), d, s, idle)
         /\ s + ChannelGives(c)[Head(u)] <= Credit
         /\ ChannelFlow(c, Tail(u), d, s + ChannelGives(c)[Head(u)], idle)
<1>1. PICK a, b \in Nat : /\ Weighs(u, ChannelGives(c), a) /\ Weighs(d, ChannelOwes(c), b) /\ s + a + b <= Credit
                          /\ idle => a = 0 /\ b = 0
  BY DEF ChannelFlow
<1>2. PICK h : h = ChannelGives(c)[Head(u)]
  OBVIOUS
<1>3. h \in Nat /\ h <= a /\ Weighs(Tail(u), ChannelGives(c), a - h)
  BY <1>1, <1>2, ChannelWeightTypes, WeighsTail
<1>4. Credit \in Nat
  BY ChannelBounds DEF Channel!ChannelsAssumption
<1>5. /\ a - h \in Nat /\ s + (a - h) + b <= Credit /\ (s + h) + (a - h) + b <= Credit
      /\ s + h <= Credit /\ (a = 0 => a - h = 0)
  BY <1>1, <1>3, <1>4
<1>6. idle => a - h = 0 /\ b = 0
  BY <1>1, <1>5
<1> QED
  BY <1>1, <1>2, <1>3, <1>5, <1>6 DEF ChannelFlow

\* A frame to the worker: what it owes is taken from the credit of the host.
LEMMA ChannelFlowTells ==
  ASSUME NEW c \in Channels, NEW u, NEW d \in Seq(Channel!MsgType), NEW s \in Nat, NEW r \in Nat, NEW idle,
         ChannelFlow(c, u, d, s, idle), NEW m \in Channel!MsgType, r + ChannelOwes(c)[m] = s, ChannelOwes(c)[m] = 0 \/ ~idle
  PROVE  ChannelFlow(c, u, Append(d, m), r, idle)
<1>1. PICK a, b \in Nat : /\ Weighs(u, ChannelGives(c), a) /\ Weighs(d, ChannelOwes(c), b) /\ s + a + b <= Credit
                          /\ idle => a = 0 /\ b = 0
  BY DEF ChannelFlow
<1>2. PICK h : h = ChannelOwes(c)[m]
  OBVIOUS
<1>3. h \in Nat /\ Weighs(Append(d, m), ChannelOwes(c), b + h)
  BY <1>1, <1>2, ChannelWeightTypes, WeighsAppend
<1>4. r + h = s
  BY <1>2
<1>5. b + h \in Nat /\ r + a + (b + h) <= Credit /\ (h = 0 => b + h = b)
  BY <1>1, <1>3, <1>4
<1>6. idle => a = 0 /\ b + h = 0
  BY <1>1, <1>2, <1>5
<1> QED
  BY <1>1, <1>3, <1>5, <1>6 DEF ChannelFlow

\* The worker takes a frame and may give the credit it owes for it.
LEMMA ChannelFlowReturns ==
  ASSUME NEW c \in Channels, NEW u \in Seq(Channel!MsgType), NEW d \in Seq(Channel!MsgType), d # << >>,
         NEW s \in Nat, NEW idle, ChannelFlow(c, u, d, s, idle)
  PROVE  /\ ChannelFlow(c, u, Tail(d), s, idle)
         /\ \A m \in Channel!MsgType : ChannelGives(c)[m] = ChannelOwes(c)[Head(d)] => ChannelFlow(c, Append(u, m), Tail(d), s, idle)
<1>1. PICK a, b \in Nat : /\ Weighs(u, ChannelGives(c), a) /\ Weighs(d, ChannelOwes(c), b) /\ s + a + b <= Credit
                          /\ idle => a = 0 /\ b = 0
  BY DEF ChannelFlow
<1>2. PICK h : h = ChannelOwes(c)[Head(d)]
  OBVIOUS
<1>3. h \in Nat /\ h <= b /\ Weighs(Tail(d), ChannelOwes(c), b - h)
  BY <1>1, <1>2, ChannelWeightTypes, WeighsTail
<1>4. Credit \in Nat
  BY ChannelBounds DEF Channel!ChannelsAssumption
<1>5. /\ b - h \in Nat /\ s + a + (b - h) <= Credit /\ s + (a + h) + (b - h) <= Credit /\ a + h \in Nat
      /\ b = 0 => b - h = 0 /\ h = 0 /\ a + h = a
  BY <1>1, <1>3, <1>4
<1>6. idle => a = 0 /\ b - h = 0 /\ a + h = 0
  BY <1>1, <1>5
<1>7. ChannelFlow(c, u, Tail(d), s, idle)
  BY <1>1, <1>3, <1>5, <1>6 DEF ChannelFlow
<1>8. ASSUME NEW m \in Channel!MsgType, ChannelGives(c)[m] = h PROVE ChannelFlow(c, Append(u, m), Tail(d), s, idle)
  <2>1. Weighs(Append(u, m), ChannelGives(c), a + h)
    BY <1>1, <1>8, ChannelWeightTypes, WeighsAppend
  <2> QED
    BY <1>3, <1>5, <1>6, <2>1 DEF ChannelFlow
<1> QED
  BY <1>2, <1>7, <1>8

LEMMA ChannelOrderedTail ==
  ASSUME NEW u \in Seq(Channel!MsgType), u # << >>, NEW last, NEW t, ChannelOrdered(u, last, t)
  PROVE  /\ ChannelOrdered(Tail(u), last, t)
         /\ Head(u).type = "open" =>
              /\ Head(u).id > last /\ t[Head(u).id].at # "new" /\ ChannelOrdered(Tail(u), Head(u).id, t)
<1> DEFINE v == Tail(u)
<1>1. /\ Len(u) \in Nat /\ Len(u) >= 1 /\ Len(v) = Len(u) - 1 /\ Head(u) = u[1]
      /\ \A i \in 1..Len(v) : v[i] = u[i + 1]
  BY HeadTailProperties, LenProperties, EmptySeq
<1> HIDE DEF v
<1>2. \A i \in 1..Len(v) : i + 1 \in 1..Len(u) /\ v[i] = u[i + 1] /\ 1 < i + 1
  BY <1>1
<1>3. ChannelOrdered(v, last, t)
  <2>1. \A i \in 1..Len(v) : v[i].type = "open" => v[i].id > last /\ t[v[i].id].at # "new"
    BY <1>2 DEF ChannelOrdered
  <2>2. ASSUME NEW i \in 1..Len(v), NEW j \in 1..Len(v), i < j, v[i].type = "open", v[j].type = "open"
        PROVE  v[i].id < v[j].id
    <3>1. i + 1 < j + 1
      BY <1>1, <2>2
    <3> QED
      BY <1>2, <2>2, <3>1 DEF ChannelOrdered
  <2> QED
    BY <2>1, <2>2 DEF ChannelOrdered
<1>4. ASSUME Head(u).type = "open"
      PROVE  Head(u).id > last /\ t[Head(u).id].at # "new" /\ ChannelOrdered(v, Head(u).id, t)
  <2>1. 1 \in 1..Len(u)
    BY <1>1
  <2>2. Head(u).id > last /\ t[Head(u).id].at # "new"
    BY <1>1, <1>4, <2>1 DEF ChannelOrdered
  <2>3. \A i \in 1..Len(v) : v[i].type = "open" => u[1].id < v[i].id
    BY <1>1, <1>2, <1>4, <2>1 DEF ChannelOrdered
  <2>4. \A i \in 1..Len(v) : v[i].type = "open" => v[i].id > Head(u).id
    <3>1. Head(u).id \in Channels /\ \A i \in 1..Len(v) : v[i].id \in Channels
      <4>1. Head(u) \in Channel!MsgType /\ \A i \in 1..Len(v) : v[i] \in Channel!MsgType
        BY <1>1, <1>2, <2>1, ElementOfSeq
      <4> QED
        BY <4>1 DEF Channel!MsgType
    <3>2. Channels \subseteq Nat
      BY ChannelBounds DEF Channel!ChannelsAssumption
    <3> QED
      BY <1>1, <2>3, <3>1, <3>2
  <2> QED
    BY <1>3, <2>2, <2>4 DEF ChannelOrdered
<1> QED
  BY <1>3, <1>4 DEF v

LEMMA ChannelOrderedAppend ==
  ASSUME NEW u \in Seq(Channel!MsgType), NEW last, NEW t, ChannelOrdered(u, last, t), NEW m \in Channel!MsgType, m.type # "open"
  PROVE  ChannelOrdered(Append(u, m), last, t)
<1>1. /\ Len(u) \in Nat /\ Len(Append(u, m)) = Len(u) + 1 /\ Append(u, m)[Len(u) + 1] = m
      /\ \A i \in 1..Len(u) : Append(u, m)[i] = u[i]
  BY AppendProperties, LenProperties
<1>2. PICK v : v = Append(u, m)
  OBVIOUS
<1>3. \A i \in 1..Len(v) : v[i].type = "open" => i \in 1..Len(u) /\ v[i] = u[i]
  BY <1>1, <1>2
<1> QED
  BY <1>2, <1>3 DEF ChannelOrdered

LEMMA ChannelInitially == Channel!Init => ChannelInv
<1> SUFFICES ASSUME Channel!Init PROVE ChannelInv
  OBVIOUS
<1>1. /\ MaxWebSockets \in Nat /\ Credit \in Nat /\ Queue \in Nat /\ MaxSent \in Nat
      /\ Channels \subseteq Nat \ {0}
  BY ChannelBounds DEF Channel!ChannelsAssumption
<1>2. ChannelTypes
  <2>1. Channel!NoSocket \in ChannelRemoteType
    BY <1>1 DEF Channel!NoSocket, ChannelRemoteType
  <2>2. Channel!Unopened \in [at : {"new", "kept", "gone"}, opened : BOOLEAN, closing : BOOLEAN, sent : 0..MaxSent]
    BY <1>1 DEF Channel!Unopened
  <2> QED
    BY <2>1, <2>2 DEF Channel!Init, ChannelTypes
<1>3. ChannelFlows
  <2>1. ASSUME NEW c \in Channels
        PROVE  ChannelFlow(c, up, down, remote[c].credit, ChannelIdle(c)) /\ remote[c] = Channel!NoSocket
    <3>1. Weighs(up, ChannelGives(c), 0) /\ Weighs(down, ChannelOwes(c), 0)
      BY WeighsNothing DEF Channel!Init
    <3>2. remote[c] = Channel!NoSocket /\ remote[c].credit = 0
      BY DEF Channel!Init, Channel!NoSocket
    <3>3. remote[c].credit + 0 + 0 <= Credit
      BY <1>1, <3>2
    <3> QED
      BY <3>1, <3>2, <3>3 DEF ChannelFlow
  <2> QED
    BY <2>1 DEF ChannelFlows
<1>4. ChannelIds
  <2>1. Len(up) = 0
    BY DEF Channel!Init
  <2>2. ChannelOrdered(up, lastWSID, tab)
    BY <2>1 DEF ChannelOrdered
  <2>3. \A c \in Channels : tab[c].at = "new"
    BY DEF Channel!Init, Channel!Unopened
  <2> QED
    BY <2>2, <2>3 DEF Channel!Init, ChannelIds
<1>5. ChannelLimits
  <2>1. \A c \in Channels : ~remote[c].in
    BY DEF Channel!Init, Channel!NoSocket
  <2>2. Channel!Sockets = {}
    BY <2>1 DEF Channel!Sockets
  <2> QED
    BY <1>1, <2>2, FS_EmptySet DEF Channel!Init, ChannelLimits
<1> QED
  BY <1>2, <1>3, <1>4, <1>5 DEF ChannelInv

\* Fewer sockets are within the limit.
LEMMA ChannelLimitsKept ==
  ASSUME ChannelLimits, opens' = opens \/ opens' = {}, Channel!Sockets' \subseteq Channel!Sockets
  PROVE  ChannelLimits'
<1>1. IsFiniteSet(Channel!Sockets') /\ Cardinality(Channel!Sockets') <= Cardinality(Channel!Sockets)
  BY FS_Subset DEF ChannelLimits
<1>2. Cardinality(Channel!Sockets) \in Nat /\ Cardinality(Channel!Sockets') \in Nat /\ MaxWebSockets \in Nat
  BY <1>1, FS_CardinalityType, ChannelBounds DEF ChannelLimits, Channel!ChannelsAssumption
<1> QED
  BY <1>1, <1>2 DEF ChannelLimits

LEMMA ChannelParts ==
  ASSUME ChannelInv
  PROVE  /\ ChannelTypes /\ ChannelFlows /\ ChannelIds /\ ChannelLimits
         /\ \A c \in Channels : remote[c] \in ChannelRemoteType /\ remote[c].credit \in Nat
         /\ \A c \in Channels : remote[c].in <=> c \in Channel!Sockets
<1>1. Credit \in Nat
  BY ChannelBounds DEF Channel!ChannelsAssumption
<1>2. \A c \in Channels : remote[c] \in ChannelRemoteType
  BY DEF ChannelInv, ChannelTypes
<1> QED
  BY <1>1, <1>2 DEF ChannelInv, ChannelRemoteType, Channel!Sockets

-----------------------------------------------------------------------------

LEMMA ChannelMessages ==
  ASSUME NEW c \in Channels, NEW n \in 0..Credit,
         NEW k \in {"open", "close", "data", "credit", "opened", "closed", "error"}
  PROVE  /\ Channel!Msg(k, c, n) \in Channel!MsgType
         /\ Channel!Msg(k, c, n).type = k /\ Channel!Msg(k, c, n).id = c /\ Channel!Msg(k, c, n).n = n
         /\ \A x \in Channels : ChannelGives(x)[Channel!Msg(k, c, n)] = IF x = c /\ k = "credit" THEN n ELSE 0
         /\ \A x \in Channels : ChannelOwes(x)[Channel!Msg(k, c, n)] =
              IF x = c /\ k = "data" THEN n ELSE IF x = c /\ k = "opened" THEN Credit ELSE 0
<1>1. Channel!Msg(k, c, n) \in Channel!MsgType
  BY DEF Channel!Msg, Channel!MsgType
<1> QED
  BY <1>1 DEF Channel!Msg, ChannelGives, ChannelOwes

\* The worker tells the host something that gives no credit, of a channel whose
\* id it has used.
LEMMA ChannelTabTells ==
  ASSUME ChannelInv, NEW c \in Channels, NEW k \in {"close", "data"}, NEW n \in 0..Credit, NEW t,
         t \in [at : {"new", "kept", "gone"}, opened : BOOLEAN, closing : BOOLEAN, sent : 0..MaxSent],
         t.at # "new", tab[c].at # "new", tab' = [tab EXCEPT ![c] = t], up' = Append(up, Channel!Msg(k, c, n)),
         UNCHANGED <<down, opens, remote, lastWSID, failed>>
  PROVE  ChannelInv'
<1>1. PICK m : m = Channel!Msg(k, c, n)
  OBVIOUS
<1>2. m \in Channel!MsgType /\ m.type = k /\ \A x \in Channels : ChannelGives(x)[m] = 0
  BY <1>1, ChannelMessages
<1>3. ChannelTypes /\ ChannelFlows /\ ChannelIds /\ ChannelLimits
  BY ChannelParts
<1>4. up \in Seq(Channel!MsgType) /\ up' = Append(up, m)
  BY <1>1, <1>3 DEF ChannelTypes
<1>5. ChannelTypes'
  <2>1. up' \in Seq(Channel!MsgType)
    BY <1>2, <1>4, AppendProperties
  <2> QED
    BY <1>3, <2>1 DEF ChannelTypes
<1>6. ChannelFlows'
  <2>1. ASSUME NEW x \in Channels
        PROVE  ChannelFlow(x, up', down', remote'[x].credit, ChannelIdle(x)') /\ (ChannelIdle(x)' => remote'[x] = Channel!NoSocket)
    <3>1. ChannelFlow(x, up, down, remote[x].credit, ChannelIdle(x)) /\ (ChannelIdle(x) => remote[x] = Channel!NoSocket)
      BY <1>3 DEF ChannelFlows
    <3>2. ChannelIdle(x)' = ChannelIdle(x)
      BY DEF ChannelIdle
    <3>3. remote[x].credit \in Nat
      BY ChannelParts
    <3>4. ChannelFlow(x, Append(up, m), down, remote[x].credit, ChannelIdle(x))
      BY <1>2, <1>4, <3>1, <3>3, ChannelFlowSends
    <3> QED
      BY <1>4, <3>1, <3>2, <3>4
  <2> QED
    BY <2>1 DEF ChannelFlows
<1>7. \A x \in Channels : (tab'[x].at = "new") = (tab[x].at = "new")
  BY <1>3 DEF ChannelTypes
<1>8. ChannelIds'
  <2>1. ChannelOrdered(up', lastWSID, tab)
    BY <1>2, <1>3, <1>4, ChannelOrderedAppend DEF ChannelIds
  <2>2. ChannelOrdered(up', lastWSID, tab')
    <3>1. \A i \in 1..Len(up') : up'[i].id \in Channels
      <4>1. up' \in Seq(Channel!MsgType)
        BY <1>5 DEF ChannelTypes
      <4>2. \A i \in 1..Len(up') : up'[i] \in Channel!MsgType
        BY <4>1, ElementOfSeq
      <4> QED
        BY <4>2 DEF Channel!MsgType
    <3> QED
      BY <1>7, <2>1, <3>1 DEF ChannelOrdered
  <2> QED
    BY <1>3, <1>7, <2>2 DEF ChannelIds
<1>9. ChannelLimits'
  <2>1. Channel!Sockets' = Channel!Sockets
    BY DEF Channel!Sockets
  <2> QED
    BY <1>3, <2>1, ChannelLimitsKept
<1> QED
  BY <1>5, <1>6, <1>8, <1>9 DEF ChannelInv

LEMMA ChannelTabActs ==
  ASSUME ChannelInv, NEW c \in Channels, Channel!OpenTimesOut(c) \/ Channel!SendSocket(c) \/ Channel!CloseSocket(c)
  PROVE  ChannelInv'
<1>1. ChannelTypes /\ tab[c] \in [at : {"new", "kept", "gone"}, opened : BOOLEAN, closing : BOOLEAN, sent : 0..MaxSent]
  BY ChannelParts DEF ChannelTypes
<1>2. 0 \in 0..Credit /\ 1 \in 0..Credit /\ MaxSent \in Nat
  BY ChannelBounds DEF Channel!ChannelsAssumption
<1>3. tab[c].at = "kept"
  BY DEF Channel!OpenTimesOut, Channel!SendSocket, Channel!CloseSocket, Channel!Kept
<1>4. CASE Channel!OpenTimesOut(c)
  <2>1. PICK t : t = [tab[c] EXCEPT !.at = "gone"]
    OBVIOUS
  <2>2. /\ t \in [at : {"new", "kept", "gone"}, opened : BOOLEAN, closing : BOOLEAN, sent : 0..MaxSent]
        /\ t.at = "gone"
    BY <1>1, <2>1
  <2>3. tab' = [tab EXCEPT ![c] = t]
    BY <1>1, <1>4, <2>1 DEF Channel!OpenTimesOut, ChannelTypes
  <2> QED
    BY <1>2, <1>3, <1>4, <2>2, <2>3, ChannelTabTells DEF Channel!OpenTimesOut, Channel!ToHost
<1>5. CASE Channel!SendSocket(c)
  <2>1. PICK t : t = [tab[c] EXCEPT !.sent = tab[c].sent + 1]
    OBVIOUS
  <2>2. tab[c].sent + 1 \in 0..MaxSent
    <3>1. tab[c].sent \in 0..MaxSent /\ tab[c].sent < MaxSent
      BY <1>1, <1>5 DEF Channel!SendSocket
    <3> QED
      BY <1>2, <3>1
  <2>3. /\ t \in [at : {"new", "kept", "gone"}, opened : BOOLEAN, closing : BOOLEAN, sent : 0..MaxSent]
        /\ t.at = "kept"
    BY <1>1, <1>3, <2>1, <2>2
  <2>4. tab' = [tab EXCEPT ![c] = t]
    BY <1>1, <1>5, <2>1 DEF Channel!SendSocket, ChannelTypes
  <2> QED
    BY <1>2, <1>3, <1>5, <2>3, <2>4, ChannelTabTells DEF Channel!SendSocket, Channel!ToHost
<1>6. CASE Channel!CloseSocket(c)
  <2>1. PICK t : t = [tab[c] EXCEPT !.closing = TRUE]
    OBVIOUS
  <2>2. /\ t \in [at : {"new", "kept", "gone"}, opened : BOOLEAN, closing : BOOLEAN, sent : 0..MaxSent]
        /\ t.at = "kept"
    BY <1>1, <1>3, <2>1
  <2>3. tab' = [tab EXCEPT ![c] = t]
    BY <1>1, <1>6, <2>1 DEF Channel!CloseSocket, ChannelTypes
  <2> QED
    BY <1>2, <1>3, <1>6, <2>2, <2>3, ChannelTabTells DEF Channel!CloseSocket, Channel!ToHost
<1> QED
  BY <1>4, <1>5, <1>6

\* tunnel.openSocket: the next id, which no open frame has.
LEMMA ChannelTabOpens == ASSUME ChannelInv, NEW c \in Channels, Channel!OpenSocket(c) PROVE ChannelInv'
<1>1. PICK m : m = Channel!Msg("open", c, 0)
  OBVIOUS
<1>2. 0 \in 0..Credit /\ Channels \subseteq Nat \ {0}
  BY ChannelBounds DEF Channel!ChannelsAssumption
<1>3. m \in Channel!MsgType /\ m.type = "open" /\ m.id = c /\ \A x \in Channels : ChannelGives(x)[m] = 0
  BY <1>1, <1>2, ChannelMessages
<1>4. ChannelTypes /\ ChannelFlows /\ ChannelIds /\ ChannelLimits
  BY ChannelParts
<1>5. up \in Seq(Channel!MsgType) /\ up' = Append(up, m)
  BY <1>1, <1>4, ChannelCardinality DEF ChannelTypes, Channel!OpenSocket, Channel!ToHost
<1>6. PICK t : t = [tab[c] EXCEPT !.at = "kept"]
  OBVIOUS
<1>7. /\ t \in [at : {"new", "kept", "gone"}, opened : BOOLEAN, closing : BOOLEAN, sent : 0..MaxSent]
      /\ t.at = "kept" /\ tab' = [tab EXCEPT ![c] = t]
  BY <1>4, <1>6, ChannelCardinality DEF ChannelTypes, Channel!OpenSocket
<1>8. ChannelTypes'
  <2>1. up' \in Seq(Channel!MsgType)
    BY <1>3, <1>5, AppendProperties
  <2> QED
    BY <1>4, <1>7, <2>1, ChannelCardinality DEF ChannelTypes, Channel!OpenSocket
<1>9. ChannelFlows'
  <2>1. ASSUME NEW x \in Channels
        PROVE  ChannelFlow(x, up', down', remote'[x].credit, ChannelIdle(x)') /\ (ChannelIdle(x)' => remote'[x] = Channel!NoSocket)
    <3>1. ChannelFlow(x, up, down, remote[x].credit, ChannelIdle(x)) /\ (ChannelIdle(x) => remote[x] = Channel!NoSocket)
      BY <1>4 DEF ChannelFlows
    <3>2. ChannelIdle(x)' = ChannelIdle(x) /\ down' = down /\ remote' = remote
      BY ChannelCardinality DEF ChannelIdle, Channel!OpenSocket
    <3>3. remote[x].credit \in Nat
      BY ChannelParts
    <3>4. ChannelFlow(x, Append(up, m), down, remote[x].credit, ChannelIdle(x))
      BY <1>3, <1>5, <3>1, <3>3, ChannelFlowSends
    <3> QED
      BY <1>5, <3>1, <3>2, <3>4
  <2> QED
    BY <2>1 DEF ChannelFlows
<1>10. ChannelIds'
  <2>1. /\ tab'[c].at = "kept" /\ \A x \in Channels \ {c} : tab'[x] = tab[x]
        /\ tab[c].at = "new" /\ lastWSID' = lastWSID /\ opens' = opens
        /\ \A other \in Channels : other < c => tab[other].at # "new"
    BY <1>4, <1>7, ChannelCardinality DEF ChannelTypes, Channel!OpenSocket
  <2>2. \A x \in Channels : tab[x].at # "new" => x < c
    BY <1>4, <2>1 DEF ChannelIds
  <2>3. lastWSID < c
    <3>1. CASE lastWSID = 0
      BY <1>2, <3>1
    <3>2. CASE lastWSID # 0
      <4>1. lastWSID \in Channels /\ tab[lastWSID].at # "new"
        BY <1>4, <3>2 DEF ChannelIds
      <4> QED
        BY <2>2, <4>1
    <3> QED
      BY <3>1, <3>2
  <2>4. /\ Len(up) \in Nat /\ Len(up') = Len(up) + 1 /\ up'[Len(up) + 1] = m
        /\ \A i \in 1..Len(up) : up'[i] = up[i]
    BY <1>3, <1>5, AppendProperties, LenProperties
  <2>5. \A i \in 1..Len(up) : up[i].id \in Channels
    <3>1. \A i \in 1..Len(up) : up[i] \in Channel!MsgType
      BY <1>5, ElementOfSeq
    <3> QED
      BY <3>1 DEF Channel!MsgType
  <2>6. \A i \in 1..Len(up) : up[i].type = "open" =>
           up[i].id > lastWSID /\ tab[up[i].id].at # "new" /\ up[i].id < c /\ tab'[up[i].id].at # "new"
    BY <1>4, <2>1, <2>2, <2>5 DEF ChannelIds, ChannelOrdered
  <2>7. \A i \in 1..Len(up') : i = Len(up) + 1 \/ i \in 1..Len(up)
    BY <2>4
  <2>8. \A i \in 1..Len(up') : up'[i].type = "open" => up'[i].id > lastWSID' /\ tab'[up'[i].id].at # "new"
    <3>1. c > lastWSID
      BY <1>2, <1>4, <2>3 DEF ChannelTypes
    <3> QED
      BY <1>3, <2>1, <2>4, <2>6, <2>7, <3>1
  <2>9. ASSUME NEW i \in 1..Len(up'), NEW j \in 1..Len(up'), i < j,
               up'[i].type = "open", up'[j].type = "open"
        PROVE  up'[i].id < up'[j].id
    <3>1. i \in 1..Len(up)
      BY <2>4, <2>9
    <3>2. CASE j = Len(up) + 1
      BY <1>3, <2>4, <2>6, <2>9, <3>1, <3>2
    <3>3. CASE j \in 1..Len(up)
      BY <1>4, <2>4, <2>9, <3>1, <3>3 DEF ChannelIds, ChannelOrdered
    <3> QED
      BY <2>7, <3>2, <3>3
  <2>10. ChannelOrdered(up', lastWSID', tab')
    BY <2>8, <2>9 DEF ChannelOrdered
  <2>11. lastWSID' # 0 => lastWSID' \in Channels /\ tab'[lastWSID'].at # "new"
    BY <1>4, <2>1 DEF ChannelIds
  <2>12. ASSUME NEW d \in Channels, NEW x \in Channels, tab'[x].at # "new", tab'[d].at = "new"
         PROVE  x < d
    <3>1. d # c /\ tab[d].at = "new"
      BY <2>1, <2>12
    <3>2. CASE x = c
      <4>1. ~(d < c)
        BY <2>1, <3>1
      <4> QED
        BY <1>2, <3>1, <3>2, <4>1
    <3>3. CASE x # c
      BY <1>4, <2>1, <2>12, <3>1, <3>3 DEF ChannelIds
    <3> QED
      BY <3>2, <3>3
  <2>13. \A x \in opens' : x <= lastWSID'
    BY <1>4, <2>1 DEF ChannelIds
  <2> QED
    BY <2>10, <2>11, <2>12, <2>13 DEF ChannelIds
<1>11. ChannelLimits'
  <2>1. Channel!Sockets' = Channel!Sockets /\ opens' = opens
    BY ChannelCardinality DEF Channel!Sockets, Channel!OpenSocket
  <2> QED
    BY <1>4, <2>1, ChannelLimitsKept
<1> QED
  BY <1>8, <1>9, <1>10, <1>11 DEF ChannelInv

LEMMA ChannelTabTakes == ASSUME ChannelInv, Channel!TabReceives PROVE ChannelInv'
<1>1. ChannelTypes /\ ChannelFlows /\ ChannelIds /\ ChannelLimits
  BY ChannelParts
<1>2. up \in Seq(Channel!MsgType) /\ down \in Seq(Channel!MsgType) /\ down # << >> /\ down' = Tail(down)
  BY <1>1 DEF ChannelTypes, Channel!TabReceives
<1>3. PICK m : m = Head(down)
  OBVIOUS
<1>4. m \in Channel!MsgType /\ down' \in Seq(Channel!MsgType) /\ m.id \in Channels /\ m.n \in 0..Credit
  <2>1. m \in Channel!MsgType /\ down' \in Seq(Channel!MsgType)
    BY <1>2, <1>3, HeadTailProperties
  <2> QED
    BY <2>1 DEF Channel!MsgType
<1>5. /\ UNCHANGED <<opens, remote, lastWSID, failed>>
      /\ \/ m.id \notin Channel!Kept /\ UNCHANGED <<tab, up>>
         \/ m.id \in Channel!Kept /\ m.type = "opened" /\ tab' = [tab EXCEPT ![m.id].opened = TRUE]
            /\ up' = Append(up, Channel!Msg("credit", m.id, Credit))
         \/ m.id \in Channel!Kept /\ m.type = "data" /\ up' = Append(up, Channel!Msg("credit", m.id, m.n)) /\ UNCHANGED tab
         \/ m.id \in Channel!Kept /\ m.type \in {"closed", "error"} /\ tab' = [tab EXCEPT ![m.id].at = "gone"]
            /\ UNCHANGED up
  BY <1>3 DEF Channel!TabReceives, Channel!Granted, Channel!ToHost
<1>6. Credit \in Nat /\ Credit \in 0..Credit
  BY ChannelBounds DEF Channel!ChannelsAssumption
<1>7. \/ up' = up
      \/ \E f \in Channel!MsgType : /\ up' = Append(up, f) /\ f.type = "credit"
                                    /\ \A x \in Channels : ChannelGives(x)[f] = ChannelOwes(x)[m]
  <2>1. CASE m.type = "opened" /\ up' = Append(up, Channel!Msg("credit", m.id, Credit))
    <3>1. PICK f : f = Channel!Msg("credit", m.id, Credit)
      OBVIOUS
    <3>2. f \in Channel!MsgType /\ f.type = "credit"
          /\ \A x \in Channels : ChannelGives(x)[f] = IF x = m.id THEN Credit ELSE 0
      BY <1>4, <1>6, <3>1, ChannelMessages
    <3>3. \A x \in Channels : ChannelOwes(x)[m] = IF x = m.id THEN Credit ELSE 0
      BY <1>4, <2>1 DEF ChannelOwes
    <3> QED
      BY <2>1, <3>1, <3>2, <3>3
  <2>2. CASE m.type = "data" /\ up' = Append(up, Channel!Msg("credit", m.id, m.n))
    <3>1. PICK f : f = Channel!Msg("credit", m.id, m.n)
      OBVIOUS
    <3>2. f \in Channel!MsgType /\ f.type = "credit"
          /\ \A x \in Channels : ChannelGives(x)[f] = IF x = m.id THEN m.n ELSE 0
      BY <1>4, <3>1, ChannelMessages
    <3>3. \A x \in Channels : ChannelOwes(x)[m] = IF x = m.id THEN m.n ELSE 0
      BY <1>4, <2>2 DEF ChannelOwes
    <3> QED
      BY <2>2, <3>1, <3>2, <3>3
  <2> QED
    BY <1>5, <2>1, <2>2
<1>8. /\ tab' \in [Channels -> [at : {"new", "kept", "gone"}, opened : BOOLEAN, closing : BOOLEAN, sent : 0..MaxSent]]
      /\ \A x \in Channels : (tab'[x].at = "new") = (tab[x].at = "new")
  <2>1. tab \in [Channels -> [at : {"new", "kept", "gone"}, opened : BOOLEAN, closing : BOOLEAN, sent : 0..MaxSent]]
    BY <1>1 DEF ChannelTypes
  <2>2. m.id \in Channel!Kept => tab[m.id].at = "kept"
    BY DEF Channel!Kept
  <2>3. CASE tab' = tab
    BY <2>1, <2>3
  <2>4. CASE m.id \in Channel!Kept /\ tab' = [tab EXCEPT ![m.id].opened = TRUE]
    BY <1>4, <2>1, <2>2, <2>4
  <2>5. CASE m.id \in Channel!Kept /\ tab' = [tab EXCEPT ![m.id].at = "gone"]
    BY <1>4, <2>1, <2>2, <2>5
  <2> QED
    BY <1>5, <2>3, <2>4, <2>5
<1>9. ChannelTypes'
  <2>1. up' \in Seq(Channel!MsgType)
    BY <1>2, <1>7, AppendProperties, SMTT(30)
  <2> QED
    BY <1>1, <1>4, <1>5, <1>8, <2>1 DEF ChannelTypes
<1>10. ChannelFlows'
  <2>1. ASSUME NEW x \in Channels
        PROVE  ChannelFlow(x, up', down', remote'[x].credit, ChannelIdle(x)') /\ (ChannelIdle(x)' => remote'[x] = Channel!NoSocket)
    <3>1. ChannelFlow(x, up, down, remote[x].credit, ChannelIdle(x)) /\ (ChannelIdle(x) => remote[x] = Channel!NoSocket)
      BY <1>1 DEF ChannelFlows
    <3>2. ChannelIdle(x)' = ChannelIdle(x) /\ remote' = remote
      BY <1>5 DEF ChannelIdle
    <3>3. remote[x].credit \in Nat
      BY ChannelParts
    <3>4. PICK s, idle : s = remote[x].credit /\ idle = ChannelIdle(x)
      OBVIOUS
    <3>5. s \in Nat /\ ChannelFlow(x, up, down, s, idle)
      BY <3>1, <3>3, <3>4
    <3>6. ChannelFlow(x, up, Tail(down), s, idle)
          /\ \A f \in Channel!MsgType : ChannelGives(x)[f] = ChannelOwes(x)[Head(down)] => ChannelFlow(x, Append(up, f), Tail(down), s, idle)
      BY <1>2, <3>5, ChannelFlowReturns
    <3>7. ChannelFlow(x, up', down', s, idle)
      BY <1>2, <1>3, <1>7, <3>6
    <3> QED
      BY <3>1, <3>2, <3>4, <3>7
  <2> QED
    BY <2>1 DEF ChannelFlows
<1>11. ChannelIds'
  <2>1. ChannelOrdered(up', lastWSID, tab)
    <3>1. ChannelOrdered(up, lastWSID, tab)
      BY <1>1 DEF ChannelIds
    <3> QED
      BY <1>2, <1>7, <3>1, ChannelOrderedAppend
  <2>2. ChannelOrdered(up', lastWSID, tab')
    <3>1. \A i \in 1..Len(up') : up'[i].id \in Channels
      <4>1. \A i \in 1..Len(up') : up'[i] \in Channel!MsgType
        BY <1>9, ElementOfSeq DEF ChannelTypes
      <4> QED
        BY <4>1 DEF Channel!MsgType
    <3> QED
      BY <1>8, <2>1, <3>1 DEF ChannelOrdered
  <2> QED
    BY <1>1, <1>5, <1>8, <2>2 DEF ChannelIds
<1>12. ChannelLimits'
  <2>1. Channel!Sockets' = Channel!Sockets
    BY <1>5 DEF Channel!Sockets
  <2> QED
    BY <1>1, <1>5, <2>1, ChannelLimitsKept
<1> QED
  BY <1>9, <1>10, <1>11, <1>12 DEF ChannelInv

-----------------------------------------------------------------------------

\* The worker is told nothing or something that it owes `n` for.
ChannelTells(c, n) ==
  \/ down' = down /\ n = 0
  \/ \E m \in Channel!MsgType : down' = Append(down, m) /\ m.id = c /\ ChannelOwes(c)[m] = n

\* A goroutine or the loop of the host changes a socket, and may tell the worker
\* something that it owes no more for than it took of the credit.
LEMMA ChannelSocketSteps ==
  ASSUME ChannelInv, NEW c \in Channels, ~ChannelIdle(c), NEW s \in ChannelRemoteType, remote' = [remote EXCEPT ![c] = s],
         s.in => remote[c].in, UNCHANGED <<up, tab, opens, lastWSID>>,
         failed' \in {Channel!Runs, "closed", "unknown"},
         NEW n \in Nat, s.credit + n = remote[c].credit, ChannelTells(c, n)
  PROVE  ChannelInv'
<1>1. ChannelTypes /\ ChannelFlows /\ ChannelIds /\ ChannelLimits /\ remote \in [Channels -> ChannelRemoteType]
  BY ChannelParts DEF ChannelTypes
<1>2. ChannelTypes'
  <2>1. down' \in Seq(Channel!MsgType)
    <3>1. down \in Seq(Channel!MsgType)
      BY <1>1 DEF ChannelTypes
    <3>2. \A m \in Channel!MsgType : Append(down, m) \in Seq(Channel!MsgType)
      BY <3>1, AppendProperties
    <3> QED
      BY <3>1, <3>2 DEF ChannelTells
  <2>2. remote' \in [Channels -> ChannelRemoteType]
    BY <1>1
  <2> QED
    BY <1>1, <2>1, <2>2 DEF ChannelTypes
<1>3. \A x \in Channels \ {c} : remote'[x] = remote[x]
  BY <1>1
<1>4. remote'[c] = s /\ s.credit \in Nat
  <2>1. Credit \in Nat
    BY ChannelBounds DEF Channel!ChannelsAssumption
  <2>2. s.credit \in 0..Credit
    BY DEF ChannelRemoteType
  <2>3. remote'[c] = s
    BY <1>1
  <2> QED
    BY <2>1, <2>2, <2>3
<1>5. ChannelFlows'
  <2>1. ASSUME NEW x \in Channels
        PROVE  ChannelFlow(x, up', down', remote'[x].credit, ChannelIdle(x)') /\ (ChannelIdle(x)' => remote'[x] = Channel!NoSocket)
    <3>1. ChannelFlow(x, up, down, remote[x].credit, ChannelIdle(x)) /\ (ChannelIdle(x) => remote[x] = Channel!NoSocket)
      BY <1>1 DEF ChannelFlows
    <3>2. ChannelIdle(x)' = ChannelIdle(x) /\ up' = up
      BY DEF ChannelIdle
    <3>3. PICK r, q : r = remote[x].credit /\ q = remote'[x].credit
      OBVIOUS
    <3>4. r \in Nat /\ q \in Nat
      BY <1>3, <1>4, <3>3, ChannelParts
    <3>5. ChannelFlow(x, up, down', q, ChannelIdle(x))
      <4>1. CASE down' = down /\ n = 0
        <5>1. q = r
          <6>1. s.credit = remote[c].credit
            BY <1>4, <3>4, <4>1
          <6> QED
            BY <1>3, <1>4, <3>3, <6>1
        <5> QED
          BY <3>1, <3>3, <4>1, <5>1
      <4>2. ASSUME NEW m \in Channel!MsgType, down' = Append(down, m), m.id = c, ChannelOwes(c)[m] = n
            PROVE  ChannelFlow(x, up, down', q, ChannelIdle(x))
        <5>1. q + ChannelOwes(x)[m] = r /\ (ChannelOwes(x)[m] = 0 \/ ~ChannelIdle(x))
          <6>1. CASE x = c
            BY <1>4, <3>3, <4>2, <6>1
          <6>2. CASE x # c
            <7>1. ChannelOwes(x)[m] = 0
              BY <4>2, <6>2 DEF ChannelOwes
            <7>2. q = r
              BY <1>3, <3>3, <6>2
            <7> QED
              BY <3>4, <7>1, <7>2
          <6> QED
            BY <6>1, <6>2
        <5>2. PICK idle : idle = ChannelIdle(x)
          OBVIOUS
        <5>3. ChannelFlow(x, up, down, r, idle) /\ (ChannelOwes(x)[m] = 0 \/ ~idle) /\ down \in Seq(Channel!MsgType)
          BY <1>1, <3>1, <3>3, <5>1, <5>2 DEF ChannelTypes
        <5>4. ChannelFlow(x, up, Append(down, m), q, idle)
          BY <3>4, <5>1, <5>3, ChannelFlowTells
        <5> QED
          BY <4>2, <5>2, <5>4
      <4> QED
        BY <4>1, <4>2 DEF ChannelTells
    <3> QED
      BY <1>3, <3>1, <3>2, <3>3, <3>5
  <2> QED
    BY <2>1 DEF ChannelFlows
<1>6. ChannelIds'
  BY <1>1 DEF ChannelIds
<1>7. ChannelLimits'
  <2>1. \A x \in Channels : remote'[x].in => remote[x].in
    BY <1>3, <1>4
  <2>2. Channel!Sockets' \subseteq Channel!Sockets
    BY <2>1 DEF Channel!Sockets
  <2> QED
    BY <1>1, <2>2, ChannelLimitsKept
<1> QED
  BY <1>2, <1>5, <1>6, <1>7 DEF ChannelInv

\* The goroutines of an upstream connection.
LEMMA ChannelUpstreamActs ==
  ASSUME ChannelInv, NEW c \in Channels,
         Channel!Written(c) \/ Channel!WriteFails(c) \/ Channel!UpstreamSends(c) \/ Channel!Forward(c) \/ Channel!ReadEnds(c) \/ Channel!Remove(c)
  PROVE  ChannelInv'
<1>1. ChannelTypes /\ ChannelFlows /\ remote[c] \in ChannelRemoteType
  BY ChannelParts
<1>2. Credit \in Nat /\ Queue \in Nat /\ 0 \in 0..Credit /\ 1 \in 0..Credit
  BY ChannelBounds DEF Channel!ChannelsAssumption
<1>3. ~ChannelIdle(c)
  <2>1. remote[c].reader \/ remote[c].writer \/ remote[c].in
    BY DEF Channel!Written, Channel!WriteFails, Channel!UpstreamSends, Channel!Forward,
           Channel!ReadEnds, Channel!Remove
  <2> QED
    BY <1>1, <2>1 DEF ChannelFlows, Channel!NoSocket
<1>4. failed \in {Channel!Runs, "closed", "unknown"}
  BY <1>1 DEF ChannelTypes
<1> DEFINE s == remote[c]
<1>5. /\ s.queue \in 0..Queue /\ s.credit \in 0..Credit /\ s.pending \in Nat /\ s.told \in Nat
      /\ s.in \in BOOLEAN
  BY <1>1 DEF ChannelRemoteType
<1>6. CASE Channel!Written(c)
  <2>1. PICK r : r = [s EXCEPT !.queue = s.queue - 1]
    OBVIOUS
  <2>2. s.queue - 1 \in 0..Queue
    BY <1>2, <1>5, <1>6 DEF Channel!Written
  <2>3. r \in ChannelRemoteType /\ (r.in => s.in) /\ r.credit = s.credit
    BY <1>1, <2>1, <2>2 DEF ChannelRemoteType
  <2>4. remote' = [remote EXCEPT ![c] = r] /\ UNCHANGED <<up, tab, opens, lastWSID, failed>> /\ down' = down
    BY <1>6, <2>1 DEF Channel!Written, Channel!Socket
  <2>9. r.credit + 0 = s.credit /\ 0 \in Nat /\ ChannelTells(c, 0)
    BY <1>5, <2>3, <2>4 DEF ChannelTells
  <2> QED
    BY <1>3, <1>4, <2>3, <2>4, <2>9, ChannelSocketSteps
<1>7. CASE Channel!UpstreamSends(c)
  <2>1. PICK r : r = [s EXCEPT !.pending = 1, !.told = s.told + 1]
    OBVIOUS
  <2>2. s.told + 1 \in Nat
    BY <1>5
  <2>3. r \in ChannelRemoteType /\ (r.in => s.in) /\ r.credit = s.credit
    BY <1>1, <2>1, <2>2 DEF ChannelRemoteType
  <2>4. remote' = [remote EXCEPT ![c] = r] /\ UNCHANGED <<up, tab, opens, lastWSID, failed>> /\ down' = down
    BY <1>7, <2>1 DEF Channel!UpstreamSends, Channel!Socket
  <2>9. r.credit + 0 = s.credit /\ 0 \in Nat /\ ChannelTells(c, 0)
    BY <1>5, <2>3, <2>4 DEF ChannelTells
  <2> QED
    BY <1>3, <1>4, <2>3, <2>4, <2>9, ChannelSocketSteps
<1>8. CASE Channel!Remove(c)
  <2>1. PICK r : r = Channel!Removed(s)
    OBVIOUS
  <2>2. r \in ChannelRemoteType /\ (r.in => s.in) /\ r.credit = s.credit
    BY <1>1, <2>1 DEF ChannelRemoteType, Channel!Removed
  <2>3. remote' = [remote EXCEPT ![c] = r] /\ UNCHANGED <<up, tab, opens, lastWSID, failed>> /\ down' = down
    BY <1>8, <2>1 DEF Channel!Remove, Channel!Socket
  <2>9. r.credit + 0 = s.credit /\ 0 \in Nat /\ ChannelTells(c, 0)
    BY <1>5, <2>2, <2>3 DEF ChannelTells
  <2> QED
    BY <1>3, <1>4, <2>2, <2>3, <2>9, ChannelSocketSteps
<1>9. CASE Channel!WriteFails(c)
  <2>1. PICK r : r = [Channel!Removed(s) EXCEPT !.writer = FALSE, !.queue = Channel!Removed(s).queue - 1]
    OBVIOUS
  <2>2. s.queue - 1 \in 0..Queue /\ Channel!Removed(s).queue = s.queue
    BY <1>1, <1>2, <1>5, <1>9 DEF Channel!WriteFails, Channel!Removed, ChannelRemoteType
  <2>3. r \in ChannelRemoteType /\ (r.in => s.in) /\ r.credit = s.credit
    BY <1>1, <2>1, <2>2 DEF ChannelRemoteType, Channel!Removed
  <2>4. PICK m : m = Channel!Msg("error", c, 0)
    OBVIOUS
  <2>5. m \in Channel!MsgType /\ m.id = c /\ ChannelOwes(c)[m] = 0
    BY <1>2, <2>4, ChannelMessages
  <2>6. /\ remote' = [remote EXCEPT ![c] = r] /\ UNCHANGED <<up, tab, opens, lastWSID, failed>>
        /\ down' = Append(down, m)
    BY <1>9, <2>1, <2>4 DEF Channel!WriteFails, Channel!Socket, Channel!ToTab
  <2>7. r.credit + 0 = s.credit /\ 0 \in Nat
    BY <1>5, <2>3, <2>5
  <2>9. ChannelTells(c, 0)
    BY <2>5, <2>6 DEF ChannelTells
  <2> QED
    BY <1>3, <1>4, <2>3, <2>6, <2>7, <2>9, ChannelSocketSteps
<1>10. CASE Channel!ReadEnds(c)
  <2>1. PICK r : r = [s EXCEPT !.reader = FALSE, !.conn = "closed"]
    OBVIOUS
  <2>2. r \in ChannelRemoteType /\ (r.in => s.in) /\ r.credit = s.credit
    BY <1>1, <2>1 DEF ChannelRemoteType
  <2>3. PICK m : m = Channel!Msg("closed", c, 0)
    OBVIOUS
  <2>4. m \in Channel!MsgType /\ m.id = c /\ ChannelOwes(c)[m] = 0
    BY <1>2, <2>3, ChannelMessages
  <2>5. /\ remote' = [remote EXCEPT ![c] = r] /\ UNCHANGED <<up, tab, opens, lastWSID, failed>>
        /\ down' = Append(down, m)
    BY <1>10, <2>1, <2>3 DEF Channel!ReadEnds, Channel!Socket, Channel!ToTab
  <2>6. r.credit + 0 = s.credit /\ 0 \in Nat
    BY <1>5, <2>2, <2>4
  <2>9. ChannelTells(c, 0)
    BY <2>4, <2>5 DEF ChannelTells
  <2> QED
    BY <1>3, <1>4, <2>2, <2>5, <2>6, <2>9, ChannelSocketSteps
<1>11. CASE Channel!Forward(c)
  <2>1. PICK r : r = [s EXCEPT !.pending = s.pending - 1, !.credit = s.credit - 1]
    OBVIOUS
  <2>2. s.pending - 1 \in Nat /\ s.credit - 1 \in 0..Credit
    BY <1>2, <1>5, <1>11 DEF Channel!Forward
  <2>3. r \in ChannelRemoteType /\ (r.in => s.in) /\ r.credit = s.credit - 1
    BY <1>1, <2>1, <2>2 DEF ChannelRemoteType
  <2>4. PICK m : m = Channel!Msg("data", c, 1)
    OBVIOUS
  <2>5. m \in Channel!MsgType /\ m.id = c /\ ChannelOwes(c)[m] = 1
    BY <1>2, <2>4, ChannelMessages
  <2>6. /\ remote' = [remote EXCEPT ![c] = r] /\ UNCHANGED <<up, tab, opens, lastWSID, failed>>
        /\ down' = Append(down, m)
    BY <1>11, <2>1, <2>4 DEF Channel!Forward, Channel!Socket, Channel!ToTab
  <2>7. r.credit + 1 = s.credit /\ 1 \in Nat
    BY <1>2, <1>5, <2>3, <2>5
  <2>9. ChannelTells(c, 1)
    BY <2>5, <2>6 DEF ChannelTells
  <2> QED
    BY <1>3, <1>4, <2>3, <2>6, <2>7, <2>9, ChannelSocketSteps
<1> QED
  BY <1>6, <1>7, <1>8, <1>9, <1>10, <1>11

\* The worker may be told something it owes nothing for, or a dial begins.
ChannelAnswers ==
  \/ opens' = opens /\ down' = down
  \/ opens' = opens /\ \E m \in Channel!MsgType : down' = Append(down, m) /\ \A c \in Channels : ChannelOwes(c)[m] = 0
  \/ /\ opens' = {Head(up).id} /\ Head(up).type = "open" /\ down' = down
     /\ Cardinality(Channel!Sockets) < MaxWebSockets

\* accept: a frame is taken, and the host does nothing or gives up.
LEMMA ChannelTakes ==
  ASSUME ChannelInv, up # << >>, up' = Tail(up), UNCHANGED <<tab, remote>>,
         Head(up).type # "open" \/ lastWSID' = Head(up).id,
         lastWSID' = lastWSID \/ (Head(up).type = "open" /\ lastWSID' = Head(up).id /\ opens = {}),
         failed' \in {Channel!Runs, "closed", "unknown"}, ChannelAnswers
  PROVE  ChannelInv'
<1>1. ChannelTypes /\ ChannelFlows /\ ChannelIds /\ ChannelLimits /\ up \in Seq(Channel!MsgType) /\ down \in Seq(Channel!MsgType)
  BY ChannelParts DEF ChannelTypes
<1>2. PICK h : h = Head(up)
  OBVIOUS
<1>3. h \in Channel!MsgType /\ up' \in Seq(Channel!MsgType) /\ h.id \in Channels
  <2>1. h \in Channel!MsgType /\ up' \in Seq(Channel!MsgType)
    BY <1>1, <1>2, HeadTailProperties
  <2> QED
    BY <2>1 DEF Channel!MsgType
<1>4. Channels \subseteq Nat \ {0}
  BY ChannelBounds DEF Channel!ChannelsAssumption
<1>5. /\ ChannelOrdered(up', lastWSID, tab)
      /\ h.type = "open" => h.id > lastWSID /\ tab[h.id].at # "new" /\ ChannelOrdered(up', h.id, tab)
  BY <1>1, <1>2, ChannelOrderedTail DEF ChannelIds
<1>6. lastWSID \in Nat /\ lastWSID' \in Nat /\ lastWSID <= lastWSID'
  <2>1. lastWSID \in Nat /\ h.id \in Nat
    BY <1>1, <1>3, <1>4 DEF ChannelTypes
  <2>2. CASE lastWSID' = lastWSID
    BY <2>1, <2>2
  <2>3. CASE h.type = "open" /\ lastWSID' = h.id
    BY <1>5, <2>1, <2>3
  <2> QED
    BY <1>2, <2>2, <2>3
<1>7. ChannelTypes'
  <2>1. down' \in Seq(Channel!MsgType)
    <3>1. \A m \in Channel!MsgType : Append(down, m) \in Seq(Channel!MsgType)
      BY <1>1, AppendProperties
    <3> QED
      BY <1>1, <3>1 DEF ChannelAnswers
  <2>2. opens' \subseteq Channels
    BY <1>1, <1>2, <1>3 DEF ChannelTypes, ChannelAnswers
  <2> QED
    BY <1>1, <1>3, <1>6, <2>1, <2>2 DEF ChannelTypes
<1>8. \A c \in Channels : ChannelIdle(c)' => ChannelIdle(c)
  <2>1. ASSUME NEW c \in Channels, ChannelIdle(c)' PROVE ChannelIdle(c)
    <3>1. CASE c > lastWSID'
      <4>1. c \in Nat
        BY <1>4
      <4>2. c > lastWSID
        BY <1>6, <3>1, <4>1
      <4> QED
        BY <4>2 DEF ChannelIdle
    <3>2. CASE c \in opens' /\ opens' = opens
      BY <3>2 DEF ChannelIdle
    <3>3. CASE c \in opens' /\ opens' = {h.id} /\ h.type = "open"
      BY <1>5, <3>3 DEF ChannelIdle
    <3> QED
      BY <1>2, <2>1, <3>1, <3>2, <3>3 DEF ChannelIdle, ChannelAnswers
  <2> QED
    BY <2>1
<1>9. ChannelFlows'
  <2>1. ASSUME NEW c \in Channels
        PROVE  ChannelFlow(c, up', down', remote'[c].credit, ChannelIdle(c)') /\ (ChannelIdle(c)' => remote'[c] = Channel!NoSocket)
    <3>1. ChannelFlow(c, up, down, remote[c].credit, ChannelIdle(c)) /\ (ChannelIdle(c) => remote[c] = Channel!NoSocket)
      BY <1>1 DEF ChannelFlows
    <3>2. PICK s, idle, next : s = remote[c].credit /\ idle = ChannelIdle(c) /\ next = ChannelIdle(c)'
      OBVIOUS
    <3>3. s \in Nat /\ ChannelFlow(c, up, down, s, idle) /\ (next => idle) /\ remote'[c].credit = s
      BY <1>8, <3>1, <3>2, ChannelParts
    <3>4. ChannelFlow(c, up', down, s, idle)
      BY <1>1, <3>3, ChannelFlowTakes
    <3>5. ChannelFlow(c, up', down', s, idle)
      <4>1. CASE down' = down
        BY <3>4, <4>1
      <4>2. ASSUME NEW m \in Channel!MsgType, down' = Append(down, m), ChannelOwes(c)[m] = 0
            PROVE  ChannelFlow(c, up', down', s, idle)
        <5>1. s + ChannelOwes(c)[m] = s
          <6>1. s + 0 = s
            BY <3>3
          <6> QED
            BY <4>2, <6>1
        <5>2. ChannelFlow(c, up', Append(down, m), s, idle)
          BY <1>1, <3>3, <3>4, <4>2, <5>1, ChannelFlowTells
        <5> QED
          BY <4>2, <5>2
      <4> QED
        BY <4>1, <4>2 DEF ChannelAnswers
    <3>6. ChannelFlow(c, up', down', s, next)
      BY <3>3, <3>5 DEF ChannelFlow
    <3>7. next => remote'[c] = Channel!NoSocket
      BY <3>1, <3>2, <3>3
    <3> QED
      BY <3>2, <3>3, <3>6, <3>7
  <2> QED
    BY <2>1 DEF ChannelFlows
<1>10. ChannelIds'
  <2>1. ChannelOrdered(up', lastWSID', tab)
    BY <1>2, <1>5
  <2>2. lastWSID' # 0 => lastWSID' \in Channels /\ tab'[lastWSID'].at # "new"
    BY <1>1, <1>2, <1>3, <1>5 DEF ChannelIds
  <2>3. \A c \in opens' : c <= lastWSID'
    <3>1. CASE opens' = opens
      <4>1. \A c \in opens : c \in Nat /\ c <= lastWSID
        BY <1>1, <1>4 DEF ChannelIds, ChannelTypes
      <4> QED
        BY <1>6, <3>1, <4>1
    <3>2. CASE opens' = {h.id} /\ h.type = "open"
      <4>1. h.id = lastWSID' /\ h.id <= lastWSID'
        <5>1. lastWSID' = h.id
          BY <1>2, <3>2
        <5>2. lastWSID' <= lastWSID'
          BY <1>6
        <5> QED
          BY <5>1, <5>2
      <4> QED
        BY <3>2, <4>1
    <3> QED
      BY <1>2, <3>1, <3>2 DEF ChannelAnswers
  <2> QED
    BY <1>1, <2>1, <2>2, <2>3 DEF ChannelIds
<1>11. ChannelLimits'
  <2>1. Channel!Sockets' = Channel!Sockets
    BY DEF Channel!Sockets
  <2>2. CASE opens' = opens
    BY <1>1, <2>1, <2>2, ChannelLimitsKept
  <2>3. CASE Cardinality(Channel!Sockets) < MaxWebSockets
    BY <1>1, <2>1, <2>3 DEF ChannelLimits
  <2> QED
    BY <2>2, <2>3 DEF ChannelAnswers
<1> QED
  BY <1>7, <1>9, <1>10, <1>11 DEF ChannelInv

LEMMA ChannelOpenTaken ==
  ASSUME ChannelInv, Channel!Accept, Head(up).type = "open", Channel!Accepts(Head(up))
  PROVE  ChannelInv'
<1>1. ChannelTypes /\ ChannelFlows /\ ChannelIds /\ ChannelLimits /\ up \in Seq(Channel!MsgType)
  BY ChannelParts DEF ChannelTypes
<1>2. /\ up # << >> /\ opens = {} /\ up' = Tail(up) /\ UNCHANGED tab
  BY DEF Channel!Accept
<1>3. PICK h : h = Head(up)
  OBVIOUS
<1>4. h \in Channel!MsgType /\ h.id \in Channels
  <2>1. h \in Channel!MsgType
    BY <1>1, <1>2, <1>3, HeadTailProperties
  <2> QED
    BY <2>1 DEF Channel!MsgType
<1>5. h.id > lastWSID
  BY <1>1, <1>2, <1>3, ChannelOrderedTail DEF ChannelIds
<1>6. h.id \in Nat /\ lastWSID \in Nat /\ 0 \in 0..Credit
  <2>1. Credit \in Nat /\ Channels \subseteq Nat
    BY ChannelBounds DEF Channel!ChannelsAssumption
  <2>2. lastWSID \in Nat
    BY <1>1 DEF ChannelTypes
  <2>3. 0 \in 0..Credit
    BY <2>1
  <2> QED
    BY <1>4, <2>1, <2>2, <2>3
<1>7. PICK m : m = Channel!Msg("error", h.id, 0)
  OBVIOUS
<1>8. m \in Channel!MsgType /\ \A c \in Channels : ChannelOwes(c)[m] = 0
  BY <1>4, <1>6, <1>7, ChannelMessages
<1>9. ~(h.id <= lastWSID)
  BY <1>5, <1>6
<1>10. /\ lastWSID' = h.id /\ UNCHANGED <<remote, failed>>
       /\ \/ down' = Append(down, m) /\ opens' = opens
          \/ Cardinality(Channel!Sockets) < MaxWebSockets /\ opens' = {h.id} /\ down' = down
  BY <1>3, <1>7, <1>9, ChannelCardinality DEF Channel!Accepts, Channel!ToTab
<1>11. failed' \in {Channel!Runs, "closed", "unknown"}
  BY <1>1, <1>10 DEF ChannelTypes
<1>12. ChannelAnswers
  BY <1>3, <1>8, <1>10 DEF ChannelAnswers
<1> QED
  BY <1>2, <1>3, <1>10, <1>11, <1>12, ChannelTakes

\* A frame of a socket: first it is taken, then the socket changes.
LEMMA ChannelKnownTaken ==
  ASSUME ChannelInv, Channel!Accept, Head(up).type # "open", Head(up).id \in Channel!Sockets, Channel!AcceptsKnown(Head(up))
  PROVE  ChannelInv'
<1>1. /\ ChannelTypes /\ ChannelFlows /\ ChannelIds /\ ChannelLimits /\ up \in Seq(Channel!MsgType) /\ down \in Seq(Channel!MsgType)
      /\ remote \in [Channels -> ChannelRemoteType]
  BY ChannelParts DEF ChannelTypes
<1>2. up # << >> /\ opens = {} /\ up' = Tail(up) /\ UNCHANGED tab
  BY DEF Channel!Accept
<1>3. PICK m : m = Head(up)
  OBVIOUS
<1>4. m \in Channel!MsgType /\ m.id \in Channels /\ m.n \in 0..Credit /\ up' \in Seq(Channel!MsgType)
  <2>1. m \in Channel!MsgType /\ up' \in Seq(Channel!MsgType)
    BY <1>1, <1>2, <1>3, HeadTailProperties
  <2> QED
    BY <2>1 DEF Channel!MsgType
<1>5. PICK c : c = m.id
  OBVIOUS
<1>6. PICK s : s = remote[c]
  OBVIOUS
<1>7. /\ c \in Channels /\ s \in ChannelRemoteType /\ s.in
      /\ s.queue \in 0..Queue /\ s.credit \in 0..Credit
  BY <1>1, <1>3, <1>4, <1>5, <1>6 DEF Channel!Sockets, ChannelRemoteType
<1>8. Credit \in Nat /\ Queue \in Nat /\ 0 \in 0..Credit /\ s.credit \in Nat
  BY <1>7, ChannelBounds DEF Channel!ChannelsAssumption
<1>9. s.credit + ChannelGives(c)[m] <= Credit
  <2>1. ChannelFlow(c, up, down, s.credit, ChannelIdle(c))
    BY <1>1, <1>6, <1>7 DEF ChannelFlows
  <2>2. PICK n, idle : n = s.credit /\ idle = ChannelIdle(c)
    OBVIOUS
  <2>3. n \in Nat /\ ChannelFlow(c, up, down, n, idle)
    BY <1>8, <2>1, <2>2
  <2> QED
    BY <1>1, <1>2, <1>3, <1>7, <2>2, <2>3, ChannelFlowTakes
<1>10. ChannelGives(c)[m] = IF m.type = "credit" THEN m.n ELSE 0
  BY <1>4, <1>5 DEF ChannelGives
<1>11. PICK e : e = Channel!Msg("error", c, 0)
  OBVIOUS
<1>12. e \in Channel!MsgType /\ \A x \in Channels : ChannelOwes(x)[e] = 0
  BY <1>7, <1>8, <1>11, ChannelMessages
<1>13. \E r \in ChannelRemoteType :
         /\ remote' = [remote EXCEPT ![c] = r] /\ UNCHANGED <<opens, lastWSID>>
         /\ r.credit = s.credit + ChannelGives(c)[m] /\ failed' = failed
         /\ down' = down \/ down' = Append(down, e)
  <2>1. /\ UNCHANGED <<opens, lastWSID>>
        /\ \/ /\ m.type = "data" /\ s.queue < Queue /\ UNCHANGED <<down, failed>>
              /\ remote' = [remote EXCEPT ![c].queue = @ + 1]
           \/ /\ m.type = "data" /\ s.queue = Queue /\ down' = Append(down, e) /\ UNCHANGED failed
              /\ remote' = [remote EXCEPT ![c] = Channel!Removed(@)]
           \/ m.type = "credit" /\ s.credit + m.n > Credit
           \/ /\ m.type = "credit" /\ s.credit + m.n <= Credit /\ UNCHANGED <<down, failed>>
              /\ remote' = [remote EXCEPT ![c].credit = @ + m.n]
           \/ /\ m.type = "close" /\ UNCHANGED <<down, failed>>
              /\ remote' = [remote EXCEPT ![c].conn = "closed", ![c].closing = TRUE]
    BY <1>3, <1>5, <1>6, <1>11 DEF Channel!AcceptsKnown, Channel!ToTab
  <2>2. CASE /\ m.type = "data" /\ s.queue < Queue /\ UNCHANGED <<down, failed>>
             /\ remote' = [remote EXCEPT ![c].queue = @ + 1]
    <3>1. PICK r : r = [s EXCEPT !.queue = s.queue + 1]
      OBVIOUS
    <3>2. s.queue + 1 \in 0..Queue
      BY <1>7, <1>8, <2>2
    <3>3. r \in ChannelRemoteType /\ r.credit = s.credit
      BY <1>7, <3>1, <3>2 DEF ChannelRemoteType
    <3>4. remote' = [remote EXCEPT ![c] = r]
      BY <1>1, <1>6, <1>7, <2>2, <3>1
    <3>5. r.credit = s.credit + ChannelGives(c)[m]
      BY <1>8, <1>10, <2>2, <3>3
    <3> QED
      BY <2>1, <2>2, <3>3, <3>4, <3>5
  <2>3. CASE /\ m.type = "data" /\ s.queue = Queue /\ down' = Append(down, e) /\ UNCHANGED failed
             /\ remote' = [remote EXCEPT ![c] = Channel!Removed(@)]
    <3>1. PICK r : r = Channel!Removed(s)
      OBVIOUS
    <3>2. r \in ChannelRemoteType /\ r.credit = s.credit
      BY <1>7, <3>1 DEF ChannelRemoteType, Channel!Removed
    <3>3. remote' = [remote EXCEPT ![c] = r]
      BY <1>1, <1>6, <1>7, <2>3, <3>1
    <3>4. r.credit = s.credit + ChannelGives(c)[m]
      BY <1>8, <1>10, <2>3, <3>2
    <3> QED
      BY <2>1, <2>3, <3>2, <3>3, <3>4
  <2>4. CASE /\ m.type = "credit" /\ s.credit + m.n <= Credit /\ UNCHANGED <<down, failed>>
             /\ remote' = [remote EXCEPT ![c].credit = @ + m.n]
    <3>1. PICK r : r = [s EXCEPT !.credit = s.credit + m.n]
      OBVIOUS
    <3>2. s.credit + m.n \in 0..Credit
      BY <1>4, <1>8, <2>4
    <3>3. r \in ChannelRemoteType /\ r.credit = s.credit + m.n
      BY <1>7, <3>1, <3>2 DEF ChannelRemoteType
    <3>4. remote' = [remote EXCEPT ![c] = r]
      BY <1>1, <1>6, <1>7, <2>4, <3>1
    <3>5. r.credit = s.credit + ChannelGives(c)[m]
      BY <1>10, <2>4, <3>3
    <3> QED
      BY <2>1, <2>4, <3>3, <3>4, <3>5
  <2>5. CASE /\ m.type = "close" /\ UNCHANGED <<down, failed>>
             /\ remote' = [remote EXCEPT ![c].conn = "closed", ![c].closing = TRUE]
    <3>1. PICK r : r = [s EXCEPT !.conn = "closed", !.closing = TRUE]
      OBVIOUS
    <3>2. r \in ChannelRemoteType /\ r.credit = s.credit
      BY <1>7, <3>1 DEF ChannelRemoteType
    <3>3. remote' = [remote EXCEPT ![c] = r]
      BY <1>1, <1>6, <1>7, <2>5, <3>1
    <3>4. r.credit = s.credit + ChannelGives(c)[m]
      BY <1>8, <1>10, <2>5, <3>2
    <3> QED
      BY <2>1, <2>5, <3>2, <3>3, <3>4
  <2>6. ~(m.type = "credit" /\ s.credit + m.n > Credit)
    BY <1>4, <1>8, <1>9, <1>10
  <2> QED
    BY <2>1, <2>2, <2>3, <2>4, <2>5, <2>6
<1>14. PICK r \in ChannelRemoteType :
         /\ remote' = [remote EXCEPT ![c] = r] /\ UNCHANGED <<opens, lastWSID>>
         /\ r.credit = s.credit + ChannelGives(c)[m] /\ failed' = failed
         /\ down' = down \/ down' = Append(down, e)
  BY <1>13
<1>15. /\ remote'[c] = r /\ \A x \in Channels \ {c} : remote'[x] = remote[x]
  BY <1>1, <1>7, <1>14
<1>16. ChannelTypes'
  <2>1. down' \in Seq(Channel!MsgType)
    BY <1>1, <1>12, <1>14, AppendProperties
  <2> QED
    BY <1>1, <1>2, <1>4, <1>14, <2>1 DEF ChannelTypes
<1>17. ChannelFlows'
  <2>1. ASSUME NEW x \in Channels
        PROVE  ChannelFlow(x, up', down', remote'[x].credit, ChannelIdle(x)') /\ (ChannelIdle(x)' => remote'[x] = Channel!NoSocket)
    <3>1. ChannelFlow(x, up, down, remote[x].credit, ChannelIdle(x)) /\ (ChannelIdle(x) => remote[x] = Channel!NoSocket)
      BY <1>1 DEF ChannelFlows
    <3>2. PICK n, q, idle : n = remote[x].credit /\ q = remote'[x].credit /\ idle = ChannelIdle(x)
      OBVIOUS
    <3>3. n \in Nat /\ ChannelFlow(x, up, down, n, idle) /\ ChannelIdle(x)' = idle
      BY <1>14, <3>1, <3>2, ChannelParts DEF ChannelIdle
    <3>4. /\ ChannelFlow(x, Tail(up), down, n, idle)
          /\ ChannelFlow(x, Tail(up), down, n + ChannelGives(x)[Head(up)], idle)
      BY <1>1, <1>2, <3>3, ChannelFlowTakes
    <3>5. q \in Nat /\ ChannelFlow(x, up', down, q, idle)
      <4>1. CASE x = c
        <5>1. q = n + ChannelGives(x)[Head(up)]
          BY <1>3, <1>6, <1>14, <1>15, <3>2, <4>1
        <5>2. r.credit \in 0..Credit
          BY <1>14 DEF ChannelRemoteType
        <5>3. q \in Nat
          BY <1>8, <1>15, <3>2, <4>1, <5>2
        <5> QED
          BY <1>2, <3>4, <5>1, <5>3
      <4>2. CASE x # c
        <5>1. q = n
          BY <1>15, <3>2, <4>2
        <5> QED
          BY <1>2, <3>3, <3>4, <5>1
      <4> QED
        BY <4>1, <4>2
    <3>6. ChannelFlow(x, up', down', q, idle)
      <4>1. q + ChannelOwes(x)[e] = q
        BY <1>12, <3>5
      <4>2. ChannelFlow(x, up', Append(down, e), q, idle)
        BY <1>1, <1>12, <3>5, <4>1, ChannelFlowTells
      <4> QED
        BY <1>14, <3>5, <4>2
    <3>7. idle => remote'[x] = Channel!NoSocket
      <4>1. CASE x = c
        <5>1. ~ChannelIdle(c)
          BY <1>1, <1>6, <1>7 DEF ChannelFlows, Channel!NoSocket
        <5> QED
          BY <3>2, <4>1, <5>1
      <4>2. CASE x # c
        BY <1>15, <3>1, <3>2, <4>2
      <4> QED
        BY <4>1, <4>2
    <3> QED
      BY <3>2, <3>3, <3>6, <3>7
  <2> QED
    BY <2>1 DEF ChannelFlows
<1>18. ChannelIds'
  <2>1. ChannelOrdered(up', lastWSID, tab)
    BY <1>1, <1>2, ChannelOrderedTail DEF ChannelIds
  <2> QED
    BY <1>1, <1>2, <1>14, <2>1 DEF ChannelIds
<1>19. ChannelLimits'
  <2>1. Channel!Sockets' \subseteq Channel!Sockets
    <3>1. \A x \in Channels : x # c => remote'[x].in = remote[x].in
      BY <1>15
    <3>2. c \in Channel!Sockets
      BY <1>6, <1>7 DEF Channel!Sockets
    <3> QED
      BY <3>1, <3>2 DEF Channel!Sockets
  <2> QED
    BY <1>1, <1>14, <2>1, ChannelLimitsKept
<1> QED
  BY <1>16, <1>17, <1>18, <1>19 DEF ChannelInv

LEMMA ChannelHostTakes == ASSUME ChannelInv, Channel!Accept PROVE ChannelInv'
<1>1. CASE Head(up).type = "open" /\ Channel!Accepts(Head(up))
  BY <1>1, ChannelOpenTaken
<1>2. CASE Head(up).type # "open" /\ Head(up).id \in Channel!Sockets /\ Channel!AcceptsKnown(Head(up))
  BY <1>2, ChannelKnownTaken
<1>3. CASE /\ Head(up).type # "open" /\ UNCHANGED <<down, opens, remote, lastWSID>>
           /\ IF Head(up).type = "close" THEN UNCHANGED failed ELSE Channel!Fail("unknown")
  <2>1. failed' \in {Channel!Runs, "closed", "unknown"}
    BY <1>3, ChannelParts DEF ChannelTypes, Channel!Fail
  <2>2. ChannelAnswers
    BY <1>3 DEF ChannelAnswers
  <2> QED
    BY <1>3, <2>1, <2>2, ChannelTakes DEF Channel!Accept
<1> QED
  BY <1>1, <1>2, <1>3 DEF Channel!Accept

\* acceptWebSocket: the upstream is there, or it is not.
LEMMA ChannelHostDials == ASSUME ChannelInv, NEW c \in Channels, Channel!Dialed(c) PROVE ChannelInv'
<1>1. /\ ChannelTypes /\ ChannelFlows /\ ChannelIds /\ ChannelLimits /\ down \in Seq(Channel!MsgType) /\ remote \in [Channels -> ChannelRemoteType]
  BY ChannelParts DEF ChannelTypes
<1>2. opens = {c} /\ opens' = {} /\ UNCHANGED <<up, tab, lastWSID, failed>>
  BY DEF Channel!Dialed
<1>3. 0 \in 0..Credit /\ Credit \in Nat /\ Queue \in Nat /\ MaxWebSockets \in Nat /\ Channels \subseteq Nat
  BY ChannelBounds DEF Channel!ChannelsAssumption
<1>4. PICK k \in {"error", "opened"} :
        /\ down' = Append(down, Channel!Msg(k, c, 0))
        /\ k = "error" => remote' = remote
        /\ k = "opened" => remote' = [remote EXCEPT ![c] = [Channel!NoSocket EXCEPT !.in = TRUE, !.conn = "open",
                                                                                   !.reader = TRUE, !.writer = TRUE]]
  <2>1. CASE Channel!ToTab(Channel!Msg("error", c, 0)) /\ UNCHANGED remote
    BY <2>1 DEF Channel!ToTab
  <2>2. CASE /\ Channel!ToTab(Channel!Msg("opened", c, 0))
             /\ remote' = [remote EXCEPT ![c] = [Channel!NoSocket EXCEPT !.in = TRUE, !.conn = "open",
                                                                         !.reader = TRUE, !.writer = TRUE]]
    BY <2>2 DEF Channel!ToTab
  <2> QED
    BY <2>1, <2>2 DEF Channel!Dialed
<1>5. PICK m : m = Channel!Msg(k, c, 0)
  OBVIOUS
<1>6. m \in Channel!MsgType /\ \A x \in Channels : ChannelOwes(x)[m] = IF x = c /\ k = "opened" THEN Credit ELSE 0
  BY <1>3, <1>4, <1>5, ChannelMessages
<1>7. remote[c] = Channel!NoSocket /\ remote[c].credit = 0
  BY <1>1, <1>2 DEF ChannelFlows, ChannelIdle, Channel!NoSocket
<1>8. /\ remote' \in [Channels -> ChannelRemoteType] /\ remote'[c].credit = 0
      /\ \A x \in Channels \ {c} : remote'[x] = remote[x]
  <2>1. CASE k = "error"
    BY <1>1, <1>4, <1>7, <2>1
  <2>2. CASE k = "opened"
    <3>1. PICK s : s = [Channel!NoSocket EXCEPT !.in = TRUE, !.conn = "open", !.reader = TRUE, !.writer = TRUE]
      OBVIOUS
    <3>2. s \in ChannelRemoteType /\ s.credit = 0
      <4>1. 0 \in 0..Queue
        BY <1>3
      <4>2. s = [in |-> TRUE, conn |-> "open", queue |-> 0, credit |-> 0, pending |-> 0, told |-> 0,
                 reader |-> TRUE, writer |-> TRUE, closing |-> FALSE]
        BY <3>1 DEF Channel!NoSocket
      <4> QED
        BY <1>3, <4>1, <4>2 DEF ChannelRemoteType
    <3>3. remote' = [remote EXCEPT ![c] = s]
      BY <1>4, <2>2, <3>1
    <3> QED
      BY <1>1, <3>2, <3>3
  <2> QED
    BY <1>4, <2>1, <2>2
<1>9. ChannelTypes'
  <2>1. down' \in Seq(Channel!MsgType)
    BY <1>1, <1>4, <1>5, <1>6, AppendProperties
  <2> QED
    BY <1>1, <1>2, <1>8, <2>1 DEF ChannelTypes
<1>10. \A x \in Channels : (ChannelIdle(x)' => ChannelIdle(x) /\ x # c) /\ (x # c => ChannelIdle(x)' = ChannelIdle(x))
  <2>1. c <= lastWSID /\ ~(c > lastWSID)
    <3>1. c \in Nat /\ lastWSID \in Nat /\ c <= lastWSID
      BY <1>1, <1>2, <1>3 DEF ChannelIds, ChannelTypes
    <3> QED
      BY <3>1
  <2> QED
    BY <1>2, <2>1 DEF ChannelIdle
<1>11. ChannelFlows'
  <2>1. ASSUME NEW x \in Channels
        PROVE  ChannelFlow(x, up', down', remote'[x].credit, ChannelIdle(x)') /\ (ChannelIdle(x)' => remote'[x] = Channel!NoSocket)
    <3>1. ChannelFlow(x, up, down, remote[x].credit, ChannelIdle(x)) /\ (ChannelIdle(x) => remote[x] = Channel!NoSocket)
      BY <1>1 DEF ChannelFlows
    <3>2. PICK n, idle : n = remote[x].credit /\ idle = ChannelIdle(x)
      OBVIOUS
    <3>3. n \in Nat /\ remote'[x].credit = n
      BY <1>7, <1>8, <3>2, ChannelParts
    <3>4. CASE x # c
      <4>1. n + ChannelOwes(x)[m] = n /\ ChannelOwes(x)[m] = 0
        BY <1>6, <3>3, <3>4
      <4>2. ChannelFlow(x, up, Append(down, m), n, idle)
        BY <1>1, <1>6, <3>1, <3>2, <3>3, <4>1, ChannelFlowTells
      <4> QED
        BY <1>2, <1>4, <1>5, <1>8, <1>10, <3>1, <3>2, <3>3, <3>4, <4>2
    <3>5. CASE x = c
      <4>1. Weighs(up, ChannelGives(c), 0) /\ Weighs(down, ChannelOwes(c), 0)
        BY <1>2, <3>1, <3>5 DEF ChannelFlow, ChannelIdle
      <4>2. PICK w : w = ChannelOwes(c)[m]
        OBVIOUS
      <4>3. w \in 0..Credit
        BY <1>3, <1>6, <4>2
      <4>4. Weighs(Append(down, m), ChannelOwes(c), 0 + w)
        BY <1>1, <1>6, <4>1, <4>2, ChannelWeightTypes, WeighsAppend
      <4>5. 0 + w \in Nat /\ 0 + 0 + (0 + w) <= Credit
        BY <1>3, <4>3
      <4>6. ChannelFlow(c, up, Append(down, m), 0, FALSE)
        BY <4>1, <4>4, <4>5 DEF ChannelFlow
      <4>7. ChannelIdle(c)' = FALSE
        BY <1>10 DEF ChannelIdle
      <4> QED
        BY <1>2, <1>4, <1>5, <1>8, <3>5, <4>6, <4>7
    <3> QED
      BY <3>4, <3>5
  <2> QED
    BY <2>1 DEF ChannelFlows
<1>12. ChannelIds'
  BY <1>1, <1>2 DEF ChannelIds
<1>13. ChannelLimits'
  <2>1. Channel!Sockets' \subseteq Channel!Sockets \cup {c} /\ c \in Channels
    BY <1>8 DEF Channel!Sockets
  <2>2. /\ IsFiniteSet(Channel!Sockets \cup {c}) /\ Cardinality(Channel!Sockets \cup {c}) <= Cardinality(Channel!Sockets) + 1
        /\ Cardinality(Channel!Sockets) \in Nat /\ Cardinality(Channel!Sockets) < MaxWebSockets
    <3>1. IsFiniteSet(Channel!Sockets) /\ Cardinality(Channel!Sockets) < MaxWebSockets
      BY <1>1, <1>2 DEF ChannelLimits
    <3>2. Cardinality(Channel!Sockets) \in Nat
      BY <3>1, FS_CardinalityType
    <3>3. /\ IsFiniteSet(Channel!Sockets \cup {c})
          /\ \/ Cardinality(Channel!Sockets \cup {c}) = Cardinality(Channel!Sockets)
             \/ Cardinality(Channel!Sockets \cup {c}) = Cardinality(Channel!Sockets) + 1
      BY <3>1, FS_AddElement
    <3>4. Cardinality(Channel!Sockets \cup {c}) <= Cardinality(Channel!Sockets) + 1
      BY <3>2, <3>3
    <3> QED
      BY <3>1, <3>2, <3>3, <3>4
  <2>3. /\ IsFiniteSet(Channel!Sockets') /\ Cardinality(Channel!Sockets') <= Cardinality(Channel!Sockets \cup {c})
        /\ Cardinality(Channel!Sockets') \in Nat /\ Cardinality(Channel!Sockets \cup {c}) \in Nat
    BY <2>1, <2>2, FS_Subset, FS_CardinalityType
  <2> QED
    BY <1>2, <1>3, <2>2, <2>3 DEF ChannelLimits
<1> QED
  BY <1>9, <1>11, <1>12, <1>13 DEF ChannelInv

LEMMA ChannelPreserved == ChannelInv /\ [Channel!Next]_(Channel!channelVars) => ChannelInv'
<1> SUFFICES ASSUME ChannelInv, [Channel!Next]_(Channel!channelVars) PROVE ChannelInv'
  OBVIOUS
<1>1. ASSUME UNCHANGED <<up, down, tab, opens, remote, lastWSID>>,
             failed' \in {Channel!Runs, "closed", "unknown"}
      PROVE  ChannelInv'
  <2>1. /\ ChannelTypes' /\ ChannelIds' /\ ChannelLimits'
        /\ \A c \in Channels : ChannelIdle(c)' = ChannelIdle(c)
    BY <1>1 DEF ChannelInv, ChannelTypes, ChannelIds, ChannelLimits, Channel!Sockets, ChannelIdle
  <2>2. ChannelFlows'
    BY <1>1, <2>1 DEF ChannelInv, ChannelFlows
  <2> QED
    BY <2>1, <2>2 DEF ChannelInv
<1>2. failed \in {Channel!Runs, "closed", "unknown"}
  BY DEF ChannelInv, ChannelTypes
<1>3. CASE Channel!Shut
  BY <1>1, <1>3 DEF Channel!Shut, Channel!Fail
<1>4. CASE UNCHANGED Channel!channelVars
  BY <1>1, <1>2, <1>4 DEF Channel!channelVars
<1> QED
  BY <1>3, <1>4, ChannelTabTakes, ChannelHostTakes, ChannelTabOpens, ChannelTabActs, ChannelHostDials,
     ChannelUpstreamActs
     DEF Channel!Next

LEMMA ChannelInvariance == Channel!Spec => []ChannelInv
BY ChannelInitially, ChannelPreserved, PTL DEF Channel!Spec

\* httpgateway/websocket.go, tunnel.js: the state of both ends has its type.
THEOREM ChannelTypeCorrect == Channel!Spec => []Channel!TypeOK
<1>1. ChannelInv => Channel!TypeOK
  BY DEF ChannelInv, ChannelTypes, Channel!TypeOK, ChannelRemoteType
<1> QED
  BY <1>1, ChannelInvariance, PTL

\* httpgateway/websocket.go, tunnel.js: the worker never grants more than the
\* window and never repeats a channel id, and the host has no more sockets
\* than its limit.
THEOREM ChannelsStayKept == Channel!Spec => []Channel!ChannelsKept
<1>1. ChannelInv => Channel!ChannelsKept
  BY ChannelCardinality DEF ChannelInv, ChannelTypes, ChannelLimits, Channel!ChannelsKept, Channel!Runs
<1> QED
  BY <1>1, ChannelInvariance, PTL
=============================================================================
