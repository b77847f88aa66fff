---------------------------- MODULE BrowserProofs ----------------------------
(***************************************************************************)
(* Proofs about what is between a browser and the bundled plugins: its     *)
(* publications, the plugins that own terminals, streams and gateways, and *)
(* Docker projects.  From them, from StreamsProofs and from                *)
(* WebSessionsProofs follow the properties of MCBrowser, for every number  *)
(* of sessions, publications, frames and projects.                         *)
(***************************************************************************)
EXTENDS MCBrowser, StreamsProofs, Functions, SequencesExt

-----------------------------------------------------------------------------
(***************************************************************************)
(* Proofs about browser publications: one publication and worker answers a *)
(* request, and one browser holds a gateway, for any plugins and limits.   *)
(***************************************************************************)

\* The operators of the library, as the component has them.
LEMMA PublishingIsFiniteSet == \A X : Publishing!IsFiniteSet(X) <=> IsFiniteSet(X)
BY DEF Publishing!IsFiniteSet, IsFiniteSet
LEMMA PublishingCardinality == \A X : Publishing!Cardinality(X) = Cardinality(X)
BY DEF Publishing!Cardinality, Publishing!IsFiniteSet, Cardinality, IsFiniteSet
LEMMA PublishingIsPrefix == \A X, Y : Publishing!IsPrefix(X, Y) <=> IsPrefix(X, Y)
BY DEF Publishing!IsPrefix, IsPrefix

\* The constants of the component are as it assumes.
LEMMA PublishingBounds == Publishing!BrowserAssumption
  BY BrowserAssumption

PublishingMounts == [owner : Owners, path : Paths, runtime : SUBSET Runtimes]
PublishingTicketRecords == [owner : Owners, gateway : Gateways, valid : BOOLEAN]
PublishingBrowserRecords == [at : {"out", "refused", "granted", "attached", "left"}, gateway : SUBSET Gateways]

\* A publication is a worker's of its own, or of the one runtime of its owner,
\* and no mount overlaps another.
PublishingPlaced(m, R) ==
  /\ m \in [DOMAIN m -> PublishingMounts] /\ DOMAIN m \subseteq Publications
  /\ R \subseteq [id : Runtimes, owner : Owners] /\ \A r, s \in R : r = s
  /\ \A p \in DOMAIN m :
       m[p].runtime = {} \/ \E r \in R : m[p].runtime = {r.id} /\ m[p].owner = r.owner
  /\ \A p, q \in DOMAIN m : p # q => ~Publishing!Overlap(m[p].path, m[q].path)

\* A gateway is behind a publication of its owner, in the pinned place, and its
\* end was not told yet; a ticket is for a gateway.
PublishingGatewaysKept ==
  /\ gateways \in [DOMAIN gateways -> Publishing!GatewayRecords] /\ DOMAIN gateways \subseteq Gateways
  /\ serving \subseteq DOMAIN gateways /\ announced \in [Gateways -> 0..1]
  /\ \A g \in DOMAIN gateways : announced[g] = 0

PublishingTicketsKept ==
  /\ tickets \in [DOMAIN tickets -> PublishingTicketRecords]
  /\ \A t \in DOMAIN tickets : tickets[t].gateway \in DOMAIN gateways

PublishingBehinds ==
  \A g \in DOMAIN gateways :
    /\ gateways[g].publication \in Publishing!Mounted
    /\ mounts[gateways[g].publication].owner = gateways[g].owner
    /\ basePath # {} => gateways[g].base = basePath

\* A gateway that a browser is attached to is attached until its end is told.
PublishingHolding(b, g) == visitor[b].at = "attached" /\ g \in visitor[b].gateway
PublishingBrowsersKept ==
  /\ visitor \in [Browsers -> PublishingBrowserRecords]
  /\ \A b \in Browsers : \A g, h \in visitor[b].gateway : g = h
  /\ \A b \in Browsers, g \in Gateways : PublishingHolding(b, g) =>
       /\ g \in DOMAIN gateways => gateways[g].attached
       /\ g \notin DOMAIN gateways => announced[g] = 1
       /\ \A c \in Browsers : PublishingHolding(c, g) => c = b

PublishingInv ==
  /\ basePath \subseteq Bases /\ Publishing!Mounted \subseteq spent
  /\ PublishingPlaced(mounts, runtime) /\ PublishingGatewaysKept /\ PublishingTicketsKept /\ PublishingBehinds /\ PublishingBrowsersKept

-----------------------------------------------------------------------------
(* The mount paths that lie above a path are above each other. *)

LEMMA PublishingPrefixesOverlap ==
  ASSUME NEW S, NEW a \in Seq(S), NEW b \in Seq(S), NEW t \in Seq(S),
         IsPrefix(a, t), IsPrefix(b, t), Len(a) <= Len(b)
  PROVE  IsPrefix(a, b)
<1>1. /\ Len(a) \in Nat /\ Len(b) \in Nat /\ Len(t) \in Nat
      /\ Len(a) <= Len(t) /\ Len(b) <= Len(t)
  BY DEF IsPrefix
<1>2. /\ SubSeq(a, 1, Len(a)) = SubSeq(t, 1, Len(a))
      /\ SubSeq(b, 1, Len(b)) = SubSeq(t, 1, Len(b))
  BY DEF IsPrefix
<1>3. /\ SubSeq(a, 1, Len(a)) = [i \in 1..Len(a) |-> a[i]]
      /\ SubSeq(t, 1, Len(a)) = [i \in 1..Len(a) |-> t[i]]
      /\ SubSeq(b, 1, Len(b)) = [i \in 1..Len(b) |-> b[i]]
      /\ SubSeq(t, 1, Len(b)) = [i \in 1..Len(b) |-> t[i]]
      /\ SubSeq(b, 1, Len(a)) = [i \in 1..Len(a) |-> b[i]]
  BY <1>1
<1>4. \A i \in 1..Len(a) : i \in 1..Len(b) /\ t[i] = b[i] /\ a[i] = t[i]
  BY <1>1, <1>2, <1>3
<1>5. SubSeq(a, 1, Len(a)) = SubSeq(b, 1, Len(a))
  BY <1>3, <1>4
<1> QED
  BY <1>5 DEF IsPrefix

LEMMA PublishingTwice ==
  ASSUME NEW a \in Paths, NEW b \in Paths, NEW path \in Paths, IsPrefix(a, path), IsPrefix(b, path)
  PROVE  Publishing!Overlap(a, b)
<1>1. a \in Seq(STRING) /\ b \in Seq(STRING) /\ path \in Seq(STRING)
  BY PublishingBounds DEF Publishing!BrowserAssumption
<1>2. Len(a) \in Nat /\ Len(b) \in Nat
  BY <1>1
<1>3. CASE Len(a) <= Len(b)
  BY <1>1, <1>3, PublishingPrefixesOverlap, PublishingIsPrefix DEF Publishing!Overlap
<1>4. CASE Len(b) <= Len(a)
  BY <1>1, <1>4, PublishingPrefixesOverlap, PublishingIsPrefix DEF Publishing!Overlap
<1> QED
  BY <1>2, <1>3, <1>4

LEMMA PublishingAtMostOne ==
  ASSUME NEW S, \A x, y \in S : x = y
  PROVE  Cardinality(S) <= 1
<1>1. CASE S = {}
  BY <1>1, FS_EmptySet
<1>2. ASSUME NEW x \in S PROVE Cardinality(S) <= 1
  <2>1. S = {x}
    OBVIOUS
  <2> QED
    BY <2>1, FS_Singleton
<1> QED
  BY <1>1, <1>2

-----------------------------------------------------------------------------
(* What happens to the mounts. *)

LEMMA PublishingPlacedFewer ==
  ASSUME NEW m, NEW R, PublishingPlaced(m, R), NEW n, DOMAIN n \subseteq DOMAIN m,
         n = [p \in DOMAIN n |-> m[p]],
         NEW Q, Q \subseteq R,
         \A p \in DOMAIN n, r \in R : m[p].runtime = {r.id} /\ m[p].owner = r.owner => r \in Q
  PROVE  PublishingPlaced(n, Q)
<1>1. \A p \in DOMAIN n : n[p] = m[p] /\ p \in DOMAIN m /\ n[p] \in PublishingMounts
  BY DEF PublishingPlaced
<1>2. n \in [DOMAIN n -> PublishingMounts]
  BY <1>1
<1> QED
  BY <1>1, <1>2 DEF PublishingPlaced

LEMMA PublishingPlacedMore ==
  ASSUME NEW m, NEW R, PublishingPlaced(m, R), NEW p \in Publications, p \notin DOMAIN m,
         NEW x \in PublishingMounts, NEW n, n = Publishing!With(m, p, x),
         x.runtime = {} \/ \E r \in R : x.runtime = {r.id} /\ x.owner = r.owner,
         \A q \in DOMAIN m : ~Publishing!Overlap(m[q].path, x.path)
  PROVE  PublishingPlaced(n, R)
<1>1. /\ DOMAIN n = DOMAIN m \cup {p} /\ n[p] = x
      /\ \A q \in DOMAIN m : n[q] = m[q] /\ q # p
  BY DEF Publishing!With
<1>2. n \in [DOMAIN n -> PublishingMounts]
  <2>1. n = [q \in DOMAIN n |-> n[q]]
    BY DEF Publishing!With
  <2>2. \A q \in DOMAIN n : n[q] \in PublishingMounts
    BY <1>1 DEF PublishingPlaced
  <2> QED
    BY <2>1, <2>2
<1>3. \A a, b : Publishing!Overlap(a, b) <=> Publishing!Overlap(b, a)
  BY PublishingIsPrefix DEF Publishing!Overlap
<1>4. \A q, r \in DOMAIN n : q # r => ~Publishing!Overlap(n[q].path, n[r].path)
  BY <1>1, <1>3 DEF PublishingPlaced
<1> QED
  BY <1>1, <1>2, <1>4 DEF PublishingPlaced

-----------------------------------------------------------------------------
(* closeLocked. *)

LEMMA PublishingCloseKeeps ==
  ASSUME PublishingInv, NEW G, Publishing!Close(G), G \subseteq DOMAIN gateways,
         visitor' \in [Browsers -> PublishingBrowserRecords],
         \A b \in Browsers : visitor'[b].gateway = visitor[b].gateway,
         \A b \in Browsers, g \in Gateways : PublishingHolding(b, g)' => PublishingHolding(b, g)
  PROVE  /\ PublishingGatewaysKept' /\ PublishingTicketsKept' /\ PublishingBrowsersKept'
         /\ DOMAIN gateways' = DOMAIN gateways \ G
         /\ \A g \in DOMAIN gateways' : gateways'[g] = gateways[g]
<1>1. /\ DOMAIN gateways' = DOMAIN gateways \ G
      /\ \A g \in DOMAIN gateways' : gateways'[g] = gateways[g]
      /\ gateways' = [g \in DOMAIN gateways' |-> gateways'[g]]
  BY DEF Publishing!Close, Publishing!Without
<1>2. announced' \in [Gateways -> 0..1]
      /\ \A g \in Gateways : announced'[g] = IF g \in G THEN 1 ELSE announced[g]
  BY DEF Publishing!Close, PublishingInv, PublishingGatewaysKept
<1>3. gateways' \in [DOMAIN gateways' -> Publishing!GatewayRecords]
  <2>1. \A g \in DOMAIN gateways' : gateways'[g] \in Publishing!GatewayRecords
    BY <1>1 DEF PublishingInv, PublishingGatewaysKept
  <2> QED
    BY <1>1, <2>1
<1>4. PublishingGatewaysKept'
  BY <1>1, <1>2, <1>3 DEF Publishing!Close, PublishingInv, PublishingGatewaysKept
<1>5. PublishingTicketsKept'
  <2>1. /\ tickets' = [t \in DOMAIN tickets' |-> tickets[t]]
        /\ \A t \in DOMAIN tickets' : t \in DOMAIN tickets /\ tickets[t].gateway \notin G
    BY DEF Publishing!Close, Publishing!Without
  <2>2. \A t \in DOMAIN tickets' : tickets'[t] = tickets[t] /\ tickets[t] \in PublishingTicketRecords
    BY <2>1 DEF PublishingInv, PublishingTicketsKept
  <2> QED
    BY <1>1, <2>1, <2>2 DEF PublishingInv, PublishingTicketsKept
<1>6. PublishingBrowsersKept'
  BY <1>1, <1>2 DEF PublishingInv, PublishingBrowsersKept
<1> QED
  BY <1>1, <1>4, <1>5, <1>6

LEMMA PublishingBrowsersStay ==
  ASSUME PublishingInv, visitor' = visitor
  PROVE  /\ visitor' \in [Browsers -> PublishingBrowserRecords]
         /\ \A b \in Browsers : visitor'[b].gateway = visitor[b].gateway
         /\ \A b \in Browsers, g \in Gateways : PublishingHolding(b, g)' => PublishingHolding(b, g)
BY DEF PublishingInv, PublishingBrowsersKept, PublishingHolding

\* The gateways that stay are behind publications that stay.
LEMMA PublishingBehindsKeep ==
  ASSUME PublishingInv, NEW G, DOMAIN gateways' = DOMAIN gateways \ G,
         \A g \in DOMAIN gateways' : gateways'[g] = gateways[g],
         \A g \in DOMAIN gateways \ G :
            LET p == gateways[g].publication IN p \in DOMAIN mounts' /\ mounts'[p] = mounts[p],
         basePath' = basePath
  PROVE  PublishingBehinds'
BY DEF PublishingInv, PublishingBehinds, Publishing!Mounted

LEMMA PublishingStarts == Publishing!Init => PublishingInv
<1> SUFFICES ASSUME Publishing!Init PROVE PublishingInv
  OBVIOUS
<1>1. DOMAIN mounts = {} /\ DOMAIN gateways = {} /\ DOMAIN tickets = {}
  BY DEF Publishing!Init
<1>2. PublishingPlaced(mounts, runtime)
  BY <1>1 DEF Publishing!Init, PublishingPlaced
<1>3. PublishingGatewaysKept
  BY <1>1 DEF Publishing!Init, PublishingGatewaysKept
<1>4. PublishingTicketsKept
  BY <1>1 DEF Publishing!Init, PublishingTicketsKept
<1>5. PublishingBehinds
  BY <1>1 DEF PublishingBehinds
<1>6. PublishingBrowsersKept
  BY <1>1 DEF Publishing!Init, PublishingBrowsersKept, PublishingBrowserRecords, PublishingHolding
<1> QED
  BY <1>2, <1>3, <1>4, <1>5, <1>6 DEF Publishing!Init, PublishingInv, Publishing!Mounted

-----------------------------------------------------------------------------
(* The calls of plugins. *)

LEMMA PublishingRegistersKeep ==
  ASSUME PublishingInv, NEW o \in Owners,
         \/ \E r \in Runtimes : Publishing!RegisterRuntime(o, r)
         \/ \E p \in Publications, path \in Paths, shared \in BOOLEAN : Publishing!Register(o, p, path, shared)
  PROVE  PublishingInv'
<1>1. ASSUME NEW r \in Runtimes, Publishing!RegisterRuntime(o, r) PROVE PublishingInv'
  <2>1. runtime = {} /\ runtime' = {[id |-> r, owner |-> o]} /\ mounts' = mounts
    BY <1>1 DEF Publishing!RegisterRuntime
  <2>2. [id |-> r, owner |-> o] \in [id : Runtimes, owner : Owners]
    OBVIOUS
  <2>3. PublishingPlaced(mounts', runtime')
    BY <2>1, <2>2 DEF PublishingInv, PublishingPlaced
  <2> QED
    BY <1>1, <2>3
       DEF Publishing!RegisterRuntime, Publishing!unchangedGateways, PublishingInv,
           PublishingGatewaysKept, PublishingTicketsKept, PublishingBehinds, Publishing!Mounted,
           PublishingBrowsersKept, PublishingHolding
<1>2. ASSUME NEW p \in Publications, NEW path \in Paths, NEW shared \in BOOLEAN,
             Publishing!Register(o, p, path, shared)
      PROVE  PublishingInv'
  <2> DEFINE x == [owner |-> o, path |-> path,
                   runtime |-> IF shared THEN {rt.id : rt \in runtime} ELSE {}]
  <2>0. \A q \in DOMAIN mounts : ~Publishing!Overlap(mounts[q].path, path)
    BY <1>2 DEF Publishing!Register, Publishing!Mounted
  <2>1. p \notin Publishing!Mounted
    BY <1>2 DEF Publishing!Register, PublishingInv
  <2>2. x \in PublishingMounts /\ x.path = path
    <3>1. {rt.id : rt \in runtime} \subseteq Runtimes
      BY DEF PublishingInv, PublishingPlaced
    <3> QED
      BY <3>1 DEF PublishingMounts
  <2>3. x.runtime = {} \/ \E r \in runtime : x.runtime = {r.id} /\ x.owner = r.owner
    <3>1. CASE shared
      <4>1. PICK r \in runtime : r.owner = o
        BY <1>2, <3>1 DEF Publishing!Register
      <4>2. {rt.id : rt \in runtime} = {r.id}
        BY <4>1 DEF PublishingInv, PublishingPlaced
      <4> QED
        BY <3>1, <4>1, <4>2
    <3>2. CASE ~shared
      BY <3>2
    <3> QED
      BY <3>1, <3>2
  <2>4. mounts' = Publishing!With(mounts, p, x)
    BY <1>2 DEF Publishing!Register
  <2> HIDE DEF x
  <2>5. PublishingPlaced(mounts', runtime)
    BY <2>0, <2>1, <2>2, <2>3, <2>4, PublishingPlacedMore DEF PublishingInv, Publishing!Mounted
  <2>6. \A q \in DOMAIN mounts : q \in DOMAIN mounts' /\ mounts'[q] = mounts[q]
    BY <2>1, <2>4 DEF Publishing!With, Publishing!Mounted
  <2>7. PublishingBehinds'
    BY <1>2, <2>6
       DEF Publishing!Register, Publishing!unchangedGateways, PublishingInv, PublishingBehinds,
           Publishing!Mounted
  <2>8. Publishing!Mounted' \subseteq spent'
    BY <1>2, <2>4 DEF Publishing!Register, Publishing!With, Publishing!Mounted, PublishingInv
  <2> QED
    BY <1>2, <2>5, <2>7, <2>8
       DEF Publishing!Register, Publishing!unchangedGateways, PublishingInv, PublishingGatewaysKept,
           PublishingTicketsKept, PublishingBrowsersKept, PublishingHolding
<1> QED
  BY <1>1, <1>2

\* The publications of P go, with the gateways of G behind them.
LEMMA PublishingUnpublishedKeeps ==
  ASSUME PublishingInv, NEW P, P \subseteq Publishing!Mounted, NEW G, G \subseteq DOMAIN gateways, Publishing!Close(G),
         \A g \in DOMAIN gateways \ G : gateways[g].publication \notin P,
         mounts' = Publishing!Without(mounts, P), runtime' \subseteq runtime,
         \A p \in Publishing!Mounted \ P, r \in runtime :
            mounts[p].runtime = {r.id} /\ mounts[p].owner = r.owner => r \in runtime',
         UNCHANGED <<basePath, visitor, spent>>
  PROVE  PublishingInv'
<1>1. /\ PublishingGatewaysKept' /\ PublishingTicketsKept' /\ PublishingBrowsersKept'
      /\ DOMAIN gateways' = DOMAIN gateways \ G
      /\ \A g \in DOMAIN gateways' : gateways'[g] = gateways[g]
  BY PublishingCloseKeeps, PublishingBrowsersStay
<1>2. /\ DOMAIN mounts' = Publishing!Mounted \ P /\ mounts' = [p \in DOMAIN mounts' |-> mounts[p]]
      /\ \A p \in DOMAIN mounts' : mounts'[p] = mounts[p]
  BY DEF Publishing!Without, Publishing!Mounted
<1>3. PublishingPlaced(mounts', runtime')
  <2>1. PublishingPlaced(mounts, runtime) /\ DOMAIN mounts' \subseteq DOMAIN mounts
    BY <1>2 DEF PublishingInv, Publishing!Mounted
  <2> QED
    BY <1>2, <2>1, PublishingPlacedFewer
<1>4. \A g \in DOMAIN gateways \ G : gateways[g].publication \in Publishing!Mounted \ P
  BY DEF PublishingInv, PublishingBehinds
<1>5. PublishingBehinds'
  BY <1>1, <1>2, <1>4 DEF PublishingInv, PublishingBehinds, Publishing!Mounted
<1> QED
  BY <1>1, <1>2, <1>3, <1>5 DEF PublishingInv, Publishing!Mounted

LEMMA PublishingUnpublishesKeep ==
  ASSUME PublishingInv,
         \/ \E o \in Owners : Publishing!RemoveRuntime(o)
         \/ \E o, p : Publishing!Unpublish(o, p)
         \/ \E O, all : Publishing!Stop(O, all)
  PROVE  PublishingInv'
<1>1. ASSUME NEW o \in Owners, Publishing!RemoveRuntime(o) PROVE PublishingInv'
  <2> PICK rt \in runtime :
        LET P == {p \in Publishing!Mounted : rt.id \in mounts[p].runtime}
        IN /\ runtime' = {} /\ Publishing!Close(Publishing!Behind(P)) /\ mounts' = Publishing!Without(mounts, P)
           /\ UNCHANGED <<basePath, visitor, spent>>
    BY <1>1 DEF Publishing!RemoveRuntime
  <2> DEFINE P == {p \in Publishing!Mounted : rt.id \in mounts[p].runtime}
  <2>1. /\ Publishing!Close(Publishing!Behind(P)) /\ mounts' = Publishing!Without(mounts, P)
        /\ P \subseteq Publishing!Mounted
    OBVIOUS
  <2>2. \A p \in Publishing!Mounted \ P, r \in runtime : mounts[p].runtime # {r.id}
    BY DEF PublishingInv, PublishingPlaced
  <2> HIDE DEF P
  <2>3. /\ Publishing!Behind(P) \subseteq DOMAIN gateways
        /\ \A g \in DOMAIN gateways \ Publishing!Behind(P) : gateways[g].publication \notin P
    BY DEF Publishing!Behind
  <2>4. /\ runtime' \subseteq runtime /\ UNCHANGED <<basePath, visitor, spent>>
        /\ \A p \in Publishing!Mounted \ P, r \in runtime :
              mounts[p].runtime = {r.id} /\ mounts[p].owner = r.owner => r \in runtime'
    BY <2>2
  <2> QED
    BY <2>1, <2>3, <2>4, PublishingUnpublishedKeeps
<1>2. ASSUME NEW o, NEW p, Publishing!Unpublish(o, p) PROVE PublishingInv'
  <2>1. /\ Publishing!Behind({p}) \subseteq DOMAIN gateways
        /\ \A g \in DOMAIN gateways \ Publishing!Behind({p}) : gateways[g].publication \notin {p}
    BY DEF Publishing!Behind
  <2> QED
    BY <1>2, <2>1, PublishingUnpublishedKeeps DEF Publishing!Unpublish
<1>3. ASSUME NEW O, NEW all, Publishing!Stop(O, all) PROVE PublishingInv'
  <2> DEFINE P == {p \in Publishing!Mounted : mounts[p].owner \in O}
             G == {g \in DOMAIN gateways : gateways[g].owner \in O}
  <2>1. Publishing!Close(G) /\ mounts' = Publishing!Without(mounts, P) /\ UNCHANGED <<basePath, visitor, spent>>
    BY <1>3 DEF Publishing!Stop
  <2>2. \A g \in DOMAIN gateways \ G : gateways[g].publication \notin P
    BY DEF PublishingInv, PublishingBehinds
  <2>3. /\ runtime' \subseteq runtime
        /\ \A p \in Publishing!Mounted \ P, r \in runtime :
              mounts[p].runtime = {r.id} /\ mounts[p].owner = r.owner => r \in runtime'
    BY <1>3 DEF Publishing!Stop
  <2>4. P \subseteq Publishing!Mounted /\ G \subseteq DOMAIN gateways
    OBVIOUS
  <2> HIDE DEF P, G
  <2> QED
    BY <2>1, <2>2, <2>3, <2>4, PublishingUnpublishedKeeps
<1> QED
  BY <1>1, <1>2, <1>3

\* Gateways of G end by themselves.
LEMMA PublishingClosedKeeps ==
  ASSUME PublishingInv, NEW G, G \subseteq DOMAIN gateways, Publishing!Close(G),
         UNCHANGED <<mounts, runtime, basePath, visitor, spent>>
  PROVE  PublishingInv'
<1>1. /\ PublishingGatewaysKept' /\ PublishingTicketsKept' /\ PublishingBrowsersKept'
      /\ DOMAIN gateways' = DOMAIN gateways \ G
      /\ \A g \in DOMAIN gateways' : gateways'[g] = gateways[g]
  BY PublishingCloseKeeps, PublishingBrowsersStay
<1> QED
  BY <1>1 DEF PublishingInv, PublishingBehinds, Publishing!Mounted

LEMMA PublishingClosesKeep ==
  ASSUME PublishingInv, NEW g, Publishing!Unattached(g) \/ Publishing!Retire(g) \/ \E o : Publishing!CloseGateway(o, g)
  PROVE  PublishingInv'
<1>1. {g} \subseteq DOMAIN gateways /\ Publishing!Close({g}) /\ UNCHANGED <<mounts, runtime, basePath, visitor, spent>>
  BY DEF Publishing!Unattached, Publishing!Retire, Publishing!CloseGateway
<1> QED
  BY <1>1, PublishingClosedKeeps

LEMMA PublishingOpenKeeps ==
  ASSUME PublishingInv, NEW o \in Owners, NEW p \in Publications, NEW g \in Gateways, NEW base \in Bases,
         Publishing!OpenGateway(o, p, g, base)
  PROVE  PublishingInv'
<1> DEFINE x == [owner |-> o, publication |-> p, attached |-> FALSE,
                 base |-> IF basePath = {} THEN {base} ELSE basePath]
<1>1. /\ g \notin DOMAIN gateways /\ gateways' = Publishing!With(gateways, g, x)
      /\ announced[g] = 0
  BY PublishingCardinality DEF Publishing!OpenGateway
<1>2. x \in Publishing!GatewayRecords
  BY DEF PublishingInv, Publishing!GatewayRecords
<1>3. /\ x.publication = p /\ x.owner = o /\ (basePath # {} => x.base = basePath)
      /\ x.attached = FALSE
  OBVIOUS
<1> HIDE DEF x
<1>4. /\ DOMAIN gateways' = DOMAIN gateways \cup {g} /\ gateways'[g] = x
      /\ \A h \in DOMAIN gateways : gateways'[h] = gateways[h] /\ h # g
      /\ gateways' = [h \in DOMAIN gateways' |-> gateways'[h]]
  BY <1>1 DEF Publishing!With
<1>5. gateways' \in [DOMAIN gateways' -> Publishing!GatewayRecords]
  <2>1. \A h \in DOMAIN gateways' : gateways'[h] \in Publishing!GatewayRecords
    BY <1>2, <1>4 DEF PublishingInv, PublishingGatewaysKept
  <2> QED
    BY <1>4, <2>1
<1>6. PublishingGatewaysKept'
  BY <1>1, <1>4, <1>5, PublishingCardinality
     DEF Publishing!OpenGateway, PublishingInv, PublishingGatewaysKept
<1>7. PublishingTicketsKept'
  BY <1>4, PublishingCardinality DEF Publishing!OpenGateway, PublishingInv, PublishingTicketsKept
<1>8. PublishingBehinds'
  BY <1>3, <1>4, PublishingCardinality
     DEF Publishing!OpenGateway, PublishingInv, PublishingBehinds, Publishing!Mounted
<1>9. PublishingBrowsersKept'
  <2>1. \A b \in Browsers : ~PublishingHolding(b, g)
    BY <1>1 DEF PublishingInv, PublishingBrowsersKept
  <2>2. UNCHANGED <<visitor, announced>>
    BY PublishingCardinality DEF Publishing!OpenGateway
  <2> QED
    BY <1>4, <2>1, <2>2 DEF PublishingInv, PublishingBrowsersKept, PublishingHolding
<1> QED
  BY <1>6, <1>7, <1>8, <1>9, PublishingCardinality
     DEF Publishing!OpenGateway, PublishingInv, Publishing!Mounted

\* Only tickets change.
LEMMA PublishingTicketsChange ==
  ASSUME PublishingInv, PublishingTicketsKept', PublishingBrowsersKept',
         UNCHANGED <<mounts, runtime, basePath, gateways, serving, announced>>,
         Publishing!Mounted \subseteq spent'
  PROVE  PublishingInv'
BY DEF PublishingInv, PublishingGatewaysKept, PublishingBehinds, Publishing!Mounted

LEMMA PublishingTicketsFewer ==
  ASSUME PublishingTicketsKept, NEW S
  PROVE  LET kept == Publishing!Without(tickets, S) IN
         /\ kept \in [DOMAIN kept -> PublishingTicketRecords]
         /\ \A t \in DOMAIN kept : t \in DOMAIN tickets /\ kept[t] = tickets[t]
BY DEF Publishing!Without, PublishingTicketsKept

LEMMA PublishingTicketStepsKeep ==
  ASSUME PublishingInv, NEW t, (\E o \in Owners, g \in Gateways : Publishing!Ticket(o, g, t)) \/ Publishing!ExpireTicket(t)
  PROVE  PublishingInv'
<1>0. UNCHANGED <<mounts, runtime, basePath, gateways, serving, announced, visitor>>
      /\ Publishing!Mounted \subseteq spent'
  BY PublishingCardinality DEF Publishing!Ticket, Publishing!ExpireTicket, PublishingInv
<1>1. PublishingBrowsersKept'
  BY <1>0 DEF PublishingInv, PublishingBrowsersKept, PublishingHolding
<1>2. ASSUME NEW o \in Owners, NEW g \in Gateways, Publishing!Ticket(o, g, t) PROVE PublishingTicketsKept'
  <2> DEFINE kept == Publishing!Without(tickets, {u \in DOMAIN tickets : ~tickets[u].valid})
  <2>1. /\ kept \in [DOMAIN kept -> PublishingTicketRecords]
        /\ \A u \in DOMAIN kept : u \in DOMAIN tickets /\ kept[u] = tickets[u]
    BY PublishingTicketsFewer DEF PublishingInv
  <2>2. \/ tickets' = kept
        \/ tickets' = Publishing!With(kept, t, [owner |-> o, gateway |-> g, valid |-> TRUE])
    BY <1>2, PublishingCardinality DEF Publishing!Ticket
  <2>3. g \in DOMAIN gateways'
    BY <1>2, PublishingCardinality DEF Publishing!Ticket
  <2> HIDE DEF kept
  <2>4. CASE tickets' = kept
    BY <1>0, <2>1, <2>4 DEF PublishingInv, PublishingTicketsKept
  <2>5. CASE tickets' = Publishing!With(kept, t, [owner |-> o, gateway |-> g, valid |-> TRUE])
    <3> DEFINE x == [owner |-> o, gateway |-> g, valid |-> TRUE]
    <3>1. x \in PublishingTicketRecords /\ x.gateway = g /\ tickets' = Publishing!With(kept, t, x)
      BY <2>5 DEF PublishingTicketRecords
    <3> HIDE DEF x
    <3>2. /\ tickets' = [u \in DOMAIN tickets' |-> tickets'[u]]
          /\ DOMAIN tickets' = DOMAIN kept \cup {t} /\ tickets'[t] = x
          /\ \A u \in DOMAIN kept : u # t => tickets'[u] = kept[u]
      BY <3>1 DEF Publishing!With
    <3>3. \A u \in DOMAIN tickets' : tickets'[u] \in PublishingTicketRecords
      BY <2>1, <3>1, <3>2
    <3>4. \A u \in DOMAIN tickets' : tickets'[u].gateway \in DOMAIN gateways'
      BY <1>0, <2>1, <2>3, <3>1, <3>2 DEF PublishingInv, PublishingTicketsKept
    <3> QED
      BY <3>2, <3>3, <3>4 DEF PublishingTicketsKept
  <2> QED
    BY <2>2, <2>4, <2>5
<1>3. ASSUME Publishing!ExpireTicket(t) PROVE PublishingTicketsKept'
  <2>1. tickets' = [tickets EXCEPT ![t].valid = FALSE] /\ t \in DOMAIN tickets
    BY <1>3 DEF Publishing!ExpireTicket
  <2>2. PICK x : x = [tickets[t] EXCEPT !.valid = FALSE]
    OBVIOUS
  <2>3. x \in PublishingTicketRecords /\ x.gateway = tickets[t].gateway
    BY <2>1, <2>2 DEF PublishingInv, PublishingTicketsKept, PublishingTicketRecords
  <2>4. tickets' = [tickets EXCEPT ![t] = x]
    BY <2>1, <2>2
  <2>5. PublishingTicketsKept'
    BY <1>0, <2>1, <2>3, <2>4 DEF PublishingInv, PublishingTicketsKept
  <2> QED
    BY <2>5
<1> QED
  BY <1>0, <1>1, <1>2, <1>3, PublishingTicketsChange

LEMMA PublishingBrowserSteps ==
  ASSUME PublishingInv, NEW b \in Browsers, NEW x \in PublishingBrowserRecords, visitor' = [visitor EXCEPT ![b] = x]
  PROVE  /\ visitor' \in [Browsers -> PublishingBrowserRecords] /\ visitor'[b] = x
         /\ \A c \in Browsers : c # b => visitor'[c] = visitor[c]
         /\ \A c \in Browsers : c # b => \A g : PublishingHolding(c, g)' <=> PublishingHolding(c, g)
         /\ \A g : PublishingHolding(b, g)' <=> x.at = "attached" /\ g \in x.gateway
BY DEF PublishingInv, PublishingBrowsersKept, PublishingHolding

LEMMA PublishingConsumeKeeps == ASSUME PublishingInv, NEW b \in Browsers, NEW t, Publishing!Consume(b, t) PROVE PublishingInv'
<1>1. UNCHANGED <<mounts, runtime, basePath, gateways, serving, announced, spent>>
      /\ t \in DOMAIN tickets
  BY DEF Publishing!Consume
<1>2. PublishingTicketsKept'
  <2>1. tickets' = Publishing!Without(tickets, {t})
    BY DEF Publishing!Consume
  <2> QED
    BY <1>1, <2>1, PublishingTicketsFewer DEF PublishingInv, PublishingTicketsKept
<1>3. PICK x \in PublishingBrowserRecords : /\ x.at # "attached" /\ visitor' = [visitor EXCEPT ![b] = x]
                                             /\ \A g, h \in x.gateway : g = h
  <2>1. tickets[t].gateway \in Gateways
    BY <1>1 DEF PublishingInv, PublishingTicketsKept, PublishingTicketRecords
  <2>2. \/ visitor' = [visitor EXCEPT ![b] = [at |-> "granted", gateway |-> {tickets[t].gateway}]]
        \/ visitor' = [visitor EXCEPT ![b] = [at |-> "refused", gateway |-> {}]]
    BY DEF Publishing!Consume
  <2>3. /\ [at |-> "granted", gateway |-> {tickets[t].gateway}] \in PublishingBrowserRecords
        /\ [at |-> "refused", gateway |-> {}] \in PublishingBrowserRecords
    BY <2>1 DEF PublishingBrowserRecords
  <2> QED
    BY <2>2, <2>3
<1>4. PublishingBrowsersKept'
  <2>1. /\ visitor' \in [Browsers -> PublishingBrowserRecords] /\ visitor'[b] = x
        /\ \A c \in Browsers : c # b => visitor'[c] = visitor[c]
        /\ \A c \in Browsers : c # b => \A h : PublishingHolding(c, h)' <=> PublishingHolding(c, h)
        /\ \A h : ~PublishingHolding(b, h)'
    BY <1>3, PublishingBrowserSteps
  <2> QED
    BY <1>1, <1>3, <2>1 DEF PublishingInv, PublishingBrowsersKept
<1> QED
  BY <1>1, <1>2, <1>4, PublishingTicketsChange DEF PublishingInv

LEMMA PublishingAttachKeeps == ASSUME PublishingInv, NEW b \in Browsers, Publishing!Attach(b) PROVE PublishingInv'
<1> PICK g \in visitor[b].gateway :
      /\ visitor[b].at = "granted" /\ Publishing!Available(g)
      /\ gateways' = [gateways EXCEPT ![g].attached = TRUE]
      /\ visitor' = [visitor EXCEPT ![b].at = "attached"]
      /\ UNCHANGED <<mounts, runtime, basePath, serving, announced, tickets, spent, browserClosed>>
  BY DEF Publishing!Attach
<1>1. g \in DOMAIN gateways /\ ~gateways[g].attached /\ g \in Gateways
  BY DEF Publishing!Available, PublishingInv, PublishingGatewaysKept
<1>2. PICK y : y = [gateways[g] EXCEPT !.attached = TRUE]
  OBVIOUS
<1>3. /\ y \in Publishing!GatewayRecords /\ y.publication = gateways[g].publication
      /\ y.owner = gateways[g].owner /\ y.base = gateways[g].base /\ y.attached = TRUE
  BY <1>1, <1>2 DEF PublishingInv, PublishingGatewaysKept, Publishing!GatewayRecords
<1>4. gateways' = [gateways EXCEPT ![g] = y]
  BY <1>1, <1>2
<1>5. /\ DOMAIN gateways' = DOMAIN gateways /\ gateways'[g] = y
      /\ \A h \in DOMAIN gateways : h # g => gateways'[h] = gateways[h]
      /\ gateways' \in [DOMAIN gateways' -> Publishing!GatewayRecords]
  BY <1>1, <1>3, <1>4 DEF PublishingInv, PublishingGatewaysKept
<1>6. PICK x : x = [visitor[b] EXCEPT !.at = "attached"]
  OBVIOUS
<1>7. x \in PublishingBrowserRecords /\ x.gateway = visitor[b].gateway
  BY <1>6 DEF PublishingInv, PublishingBrowsersKept, PublishingBrowserRecords
<1>8. visitor' = [visitor EXCEPT ![b] = x]
  BY <1>6 DEF PublishingInv, PublishingBrowsersKept
<1>9. PublishingGatewaysKept' /\ PublishingTicketsKept' /\ PublishingBehinds'
  <2>1. PublishingGatewaysKept'
    BY <1>5 DEF PublishingInv, PublishingGatewaysKept
  <2>2. PublishingTicketsKept'
    BY <1>5 DEF PublishingInv, PublishingTicketsKept
  <2>3. PublishingBehinds'
    BY <1>3, <1>5 DEF PublishingInv, PublishingBehinds, Publishing!Mounted
  <2> QED
    BY <2>1, <2>2, <2>3
<1>10. PublishingBrowsersKept'
  <2>1. /\ visitor' \in [Browsers -> PublishingBrowserRecords] /\ visitor'[b] = x
        /\ \A c \in Browsers : c # b => visitor'[c] = visitor[c]
        /\ \A c \in Browsers : c # b => \A h : PublishingHolding(c, h)' <=> PublishingHolding(c, h)
        /\ \A h : PublishingHolding(b, h)' <=> x.at = "attached" /\ h \in x.gateway
    BY <1>7, <1>8, PublishingBrowserSteps
  <2>2. \A c \in Browsers : \A h, k \in visitor'[c].gateway : h = k
    BY <1>7, <2>1 DEF PublishingInv, PublishingBrowsersKept
  <2>3. \A h : PublishingHolding(b, h)' => h = g
    BY <1>7, <2>1 DEF PublishingInv, PublishingBrowsersKept
  <2>4. \A c \in Browsers : ~PublishingHolding(c, g)
    BY <1>1 DEF PublishingInv, PublishingBrowsersKept
  <2>5. announced' = announced
    OBVIOUS
  <2> QED
    BY <1>1, <1>3, <1>5, <2>1, <2>2, <2>3, <2>4, <2>5 DEF PublishingInv, PublishingBrowsersKept
<1> QED
  BY <1>9, <1>10 DEF PublishingInv, Publishing!Mounted

LEMMA PublishingLeaveKeeps == ASSUME PublishingInv, NEW b \in Browsers, Publishing!Leave(b) PROVE PublishingInv'
<1>1. PICK x : x = [visitor[b] EXCEPT !.at = "left"]
  OBVIOUS
<1>2. x \in PublishingBrowserRecords /\ x.gateway = visitor[b].gateway /\ x.at = "left"
  BY <1>1 DEF PublishingInv, PublishingBrowsersKept, PublishingBrowserRecords
<1>3. visitor' = [visitor EXCEPT ![b] = x]
  BY <1>1 DEF Publishing!Leave, PublishingInv, PublishingBrowsersKept
<1>4. /\ visitor' \in [Browsers -> PublishingBrowserRecords]
      /\ \A c \in Browsers : visitor'[c].gateway = visitor[c].gateway
      /\ \A c \in Browsers, g \in Gateways : PublishingHolding(c, g)' => PublishingHolding(c, g)
  BY <1>2, <1>3, PublishingBrowserSteps
<1>5. UNCHANGED <<mounts, runtime, basePath, spent>>
  BY DEF Publishing!Leave
<1>6. CASE visitor[b].at = "attached"
  <2>1. PICK G : G \subseteq DOMAIN gateways /\ Publishing!Close(G)
    BY <1>6 DEF Publishing!Leave
  <2>2. /\ PublishingGatewaysKept' /\ PublishingTicketsKept' /\ PublishingBrowsersKept'
        /\ DOMAIN gateways' = DOMAIN gateways \ G
        /\ \A g \in DOMAIN gateways' : gateways'[g] = gateways[g]
    BY <1>4, <2>1, PublishingCloseKeeps
  <2> QED
    BY <1>5, <2>2 DEF PublishingInv, PublishingBehinds, Publishing!Mounted
<1>7. CASE visitor[b].at # "attached"
  <2>1. UNCHANGED <<gateways, serving, announced, tickets>>
    BY <1>7 DEF Publishing!Leave, Publishing!unchangedGateways
  <2>2. PublishingBrowsersKept'
    BY <1>4, <2>1 DEF PublishingInv, PublishingBrowsersKept
  <2> QED
    BY <1>5, <2>1, <2>2
       DEF PublishingInv, PublishingGatewaysKept, PublishingTicketsKept, PublishingBehinds,
           Publishing!Mounted
<1> QED
  BY <1>6, <1>7

LEMMA PublishingOtherStepsKeep ==
  ASSUME PublishingInv, (\E base \in Bases : Publishing!PinBase(base)) \/ \E g : Publishing!ServeEnds(g)
  PROVE  PublishingInv'
<1>1. ASSUME NEW base \in Bases, Publishing!PinBase(base) PROVE PublishingInv'
  BY <1>1
     DEF Publishing!PinBase, Publishing!unchangedGateways, PublishingInv, PublishingGatewaysKept,
         PublishingTicketsKept, PublishingBehinds, Publishing!Mounted, PublishingBrowsersKept,
         PublishingHolding
<1>2. ASSUME NEW g, Publishing!ServeEnds(g) PROVE PublishingInv'
  BY <1>2
     DEF Publishing!ServeEnds, PublishingInv, PublishingGatewaysKept, PublishingTicketsKept,
         PublishingBehinds, Publishing!Mounted, PublishingBrowsersKept, PublishingHolding
<1> QED
  BY <1>1, <1>2

LEMMA PublishingKeeps == PublishingInv /\ [Publishing!Next]_(Publishing!browserVars) => PublishingInv'
<1> SUFFICES ASSUME PublishingInv, [Publishing!Next]_(Publishing!browserVars) PROVE PublishingInv'
  OBVIOUS
<1>1. CASE UNCHANGED Publishing!browserVars
  BY <1>1
     DEF Publishing!browserVars, PublishingInv, PublishingGatewaysKept, PublishingTicketsKept,
         PublishingBehinds, Publishing!Mounted, PublishingBrowsersKept, PublishingHolding
<1>2. CASE Publishing!Next
  <2>1. ASSUME NEW o \in Owners,
               \/ \E r \in Runtimes : Publishing!RegisterRuntime(o, r)
               \/ \E p \in Publications, path \in Paths, shared \in BOOLEAN : Publishing!Register(o, p, path, shared)
        PROVE  PublishingInv'
    BY <2>1, PublishingRegistersKeep
  <2>2. ASSUME \/ \E o \in Owners : Publishing!RemoveRuntime(o)
               \/ \E o, p : Publishing!Unpublish(o, p)
               \/ \E O, all : Publishing!Stop(O, all)
        PROVE  PublishingInv'
    BY <2>2, PublishingUnpublishesKeep
  <2>3. ASSUME NEW o \in Owners, NEW p \in Publications, NEW g \in Gateways, NEW base \in Bases,
               Publishing!OpenGateway(o, p, g, base)
        PROVE  PublishingInv'
    BY <2>3, PublishingOpenKeeps
  <2>4. ASSUME NEW g, Publishing!Unattached(g) \/ Publishing!Retire(g) \/ \E o : Publishing!CloseGateway(o, g)
        PROVE  PublishingInv'
    BY <2>4, PublishingClosesKeep
  <2>5. ASSUME NEW t, (\E o \in Owners, g \in Gateways : Publishing!Ticket(o, g, t)) \/ Publishing!ExpireTicket(t)
        PROVE  PublishingInv'
    BY <2>5, PublishingTicketStepsKeep
  <2>6. ASSUME NEW b \in Browsers, NEW t, Publishing!Consume(b, t) PROVE PublishingInv'
    BY <2>6, PublishingConsumeKeeps
  <2>7. ASSUME NEW b \in Browsers, Publishing!Attach(b) \/ Publishing!Leave(b) PROVE PublishingInv'
    BY <2>7, PublishingAttachKeeps, PublishingLeaveKeeps
  <2>8. ASSUME (\E base \in Bases : Publishing!PinBase(base)) \/ \E g : Publishing!ServeEnds(g) PROVE PublishingInv'
    BY <2>8, PublishingOtherStepsKeep
  <2> QED
    BY <1>2, <2>1, <2>2, <2>3, <2>4, <2>5, <2>6, <2>7, <2>8 DEF Publishing!Next
<1> QED
  BY <1>1, <1>2

LEMMA PublishingInvariance == Publishing!Spec => []PublishingInv
BY PublishingStarts, PublishingKeeps, PTL DEF Publishing!Spec

\* Publications, gateways, tickets and browsers keep their types.
THEOREM PublishingTypeCorrect == Publishing!Spec => []Publishing!TypeOK
<1>1. ASSUME PublishingInv PROVE Publishing!TypeOK
  <2>1. Cardinality(runtime) <= 1
    BY <1>1, PublishingAtMostOne DEF PublishingInv, PublishingPlaced
  <2> QED
    BY <1>1, <2>1, PublishingCardinality
       DEF PublishingInv, PublishingPlaced, PublishingGatewaysKept, PublishingTicketsKept,
           PublishingBrowsersKept, PublishingMounts, PublishingTicketRecords, PublishingBrowserRecords,
           Publishing!Mounted, Publishing!TypeOK
<1> QED
  BY <1>1, PublishingInvariance, PTL

\* core/browser_publication.go: a request has at most one publication and
\* worker to answer it, a gateway is behind a publication of its owner, and it
\* is in one browser.
THEOREM PublicationsStayKept == Publishing!Spec => []Publishing!PublicationsKept
<1>1. ASSUME PublishingInv PROVE Publishing!PublicationsKept
  <2>1. ASSUME NEW path \in Paths PROVE Cardinality(Publishing!Answering(path)) <= 1
    <3>1. \A p, q \in Publishing!Answering(path) : p = q
      BY <1>1, PublishingTwice, PublishingIsPrefix
         DEF PublishingInv, PublishingPlaced, PublishingMounts, Publishing!Answering, Publishing!Mounted
    <3> QED
      BY <3>1, PublishingAtMostOne
  <2>2. ASSUME NEW p \in Publishing!Mounted PROVE Publishing!OwnWorker(p) # Publishing!RuntimeWorker(p)
    <3>1. CASE mounts[p].runtime = {}
      BY <3>1 DEF Publishing!OwnWorker, Publishing!RuntimeWorker, Publishing!Listed
    <3>2. CASE \E r \in runtime : mounts[p].runtime = {r.id} /\ mounts[p].owner = r.owner
      BY <3>2 DEF Publishing!OwnWorker, Publishing!RuntimeWorker, Publishing!Listed
    <3> QED
      BY <1>1, <3>1, <3>2 DEF PublishingInv, PublishingPlaced, Publishing!Mounted
  <2>3. Publishing!OneAnswer
    BY <2>1, <2>2, PublishingCardinality DEF Publishing!OneAnswer
  <2>4. Publishing!GatewaysArePublished
    BY <1>1
       DEF PublishingInv, PublishingGatewaysKept, PublishingTicketsKept, PublishingBehinds,
           Publishing!GatewaysArePublished
  <2>5. Publishing!OneBrowser
    BY <1>1 DEF PublishingInv, PublishingBrowsersKept, PublishingHolding, Publishing!OneBrowser
  <2> QED
    BY <2>3, <2>4, <2>5 DEF Publishing!PublicationsKept
<1> QED
  BY <1>1, PublishingInvariance, PTL


-----------------------------------------------------------------------------
(***************************************************************************)
(* Proofs about the Web Apps plugin: the mounts of the host are those the  *)
(* plugin names, and its gateways are its sessions.                        *)
(***************************************************************************)

\* The operators of the library, as the component has them.
LEMMA AppsIsFiniteSet == \A X : Apps!IsFiniteSet(X) <=> IsFiniteSet(X)
BY DEF Apps!IsFiniteSet, IsFiniteSet
LEMMA AppsCardinality == \A X : Apps!Cardinality(X) = Cardinality(X)
BY DEF Apps!Cardinality, Apps!IsFiniteSet, Cardinality, IsFiniteSet
LEMMA AppsRange == \A X : Apps!Range(X) = Range(X)
BY DEF Apps!Range, Range
LEMMA AppsIsInjective == \A X : Apps!IsInjective(X) <=> IsInjective(X)
BY DEF Apps!IsInjective, IsInjective
LEMMA AppsRestrict == \A X, Y : Apps!Restrict(X, Y) = Restrict(X, Y)
BY DEF Apps!Restrict, Restrict
LEMMA AppsIsPrefix == \A X, Y : Apps!IsPrefix(X, Y) <=> IsPrefix(X, Y)
BY DEF Apps!IsPrefix, IsPrefix

\* The constants of the component are as it assumes.
LEMMA AppsBounds == Apps!AppsAssumption
  BY BrowserAssumption

\* Stored targets have numbers from the counter and mounts that do not overlap.
AppsStored(t) ==
  /\ DOMAIN t \subseteq 1..MaxApps
  /\ \A a \in DOMAIN t : t[a] \in Paths
  /\ \A a, b \in DOMAIN t : a # b => ~Apps!Overlapping(t[a], t[b])

\* The host's publications s are those the plugin names by n, each at the mount
\* its target has in t.
AppsServes(n, s, t) ==
  /\ DOMAIN n \subseteq DOMAIN t
  /\ \A a \in DOMAIN n : n[a] \in Marks /\ n[a] \in DOMAIN s /\ s[n[a]] = t[a]
  /\ \A a, b \in DOMAIN n : n[a] = n[b] => a = b
  /\ \A p \in DOMAIN s : \E a \in DOMAIN n : n[a] = p

\* Gateways are sessions, on a publication that is named, and open.
AppsGated ==
  \A g \in DOMAIN gates :
    /\ g \in DOMAIN opened /\ g \notin closedGates
    /\ opened[g] \in DOMAIN named /\ named[opened[g]] = gates[g]

AppsOpenedWell ==
  /\ DOMAIN opened \subseteq Gates /\ closedGates \subseteq Gates
  /\ \A g \in DOMAIN opened : opened[g] \in 1..MaxApps

AppsInv ==
  /\ on \in BOOLEAN /\ nextId \in 1..(MaxApps + 1)
  /\ AppsStored(targets) /\ AppsServes(named, shown, targets) /\ AppsGated /\ AppsOpenedWell
  /\ ~on => DOMAIN gates = {}

-----------------------------------------------------------------------------
LEMMA AppsEitherWay == \A m, n : Apps!Overlapping(m, n) <=> Apps!Overlapping(n, m)
BY AppsIsPrefix DEF Apps!Overlapping

LEMMA AppsServesSame ==
  ASSUME NEW n, NEW s, NEW t, AppsServes(n, s, t), NEW s2, DOMAIN s2 = DOMAIN s,
         \A p \in DOMAIN s : s2[p] = s[p]
  PROVE  AppsServes(n, s2, t)
BY DEF AppsServes

LEMMA AppsServesFewer ==
  ASSUME NEW n, NEW s, NEW t, AppsServes(n, s, t), NEW a \in DOMAIN n, NEW n2, NEW s2,
         DOMAIN n2 = DOMAIN n \ {a}, \A b \in DOMAIN n2 : n2[b] = n[b],
         DOMAIN s2 = DOMAIN s \ {n[a]}, \A p \in DOMAIN s2 : s2[p] = s[p]
  PROVE  AppsServes(n2, s2, t)
BY DEF AppsServes

LEMMA AppsServesMore ==
  ASSUME NEW n, NEW s, NEW t, AppsServes(n, s, t), NEW a \in DOMAIN t, a \notin DOMAIN n,
         NEW p \in Marks, p \notin DOMAIN s, NEW n2, NEW s2,
         DOMAIN n2 = DOMAIN n \cup {a}, n2[a] = p, \A b \in DOMAIN n : n2[b] = n[b],
         DOMAIN s2 = DOMAIN s \cup {p}, s2[p] = t[a], \A q \in DOMAIN s : s2[q] = s[q]
  PROVE  AppsServes(n2, s2, t)
<1>1. \A b \in DOMAIN n : n[b] # p /\ n[b] \in DOMAIN s /\ b # a
  BY DEF AppsServes
<1>2. \A b \in DOMAIN n2 : n2[b] \in Marks /\ n2[b] \in DOMAIN s2 /\ s2[n2[b]] = t[b]
  BY <1>1 DEF AppsServes
<1>3. \A b, c \in DOMAIN n2 : n2[b] = n2[c] => b = c
  BY <1>1 DEF AppsServes
<1>4. \A q \in DOMAIN s2 : \E b \in DOMAIN n2 : n2[b] = q
  BY <1>1 DEF AppsServes
<1> QED
  BY <1>2, <1>3, <1>4 DEF AppsServes

\* A target that is not named may change.
LEMMA AppsServesMoved ==
  ASSUME NEW n, NEW s, NEW t, AppsServes(n, s, t), NEW t2, DOMAIN n \subseteq DOMAIN t2,
         \A a \in DOMAIN n : t2[a] = t[a]
  PROVE  AppsServes(n, s, t2)
BY DEF AppsServes

-----------------------------------------------------------------------------
LEMMA AppsStarts == Apps!Init => AppsInv
<1> SUFFICES ASSUME Apps!Init PROVE AppsInv
  OBVIOUS
<1>1. /\ DOMAIN targets = {} /\ DOMAIN named = {} /\ DOMAIN shown = {} /\ DOMAIN gates = {}
      /\ DOMAIN opened = {} /\ closedGates = {}
  BY DEF Apps!Init, Apps!Empty
<1>2. on \in BOOLEAN /\ nextId \in 1..(MaxApps + 1)
  <2>1. on = FALSE /\ nextId = 1
    BY DEF Apps!Init
  <2>2. 1 \in 1..(MaxApps + 1)
    BY AppsBounds DEF Apps!AppsAssumption
  <2> QED
    BY <2>1, <2>2
<1> QED
  BY <1>1, <1>2 DEF AppsInv, AppsStored, AppsServes, AppsGated, AppsOpenedWell

\* Gateways close that no session needs any longer.
LEMMA AppsCloseKeeps ==
  ASSUME AppsInv, NEW S, Apps!Close(S), S \subseteq DOMAIN gates, UNCHANGED <<named, opened>>
  PROVE  AppsGated' /\ AppsOpenedWell' /\ DOMAIN gates' \subseteq DOMAIN gates
<1>1. /\ DOMAIN gates' = DOMAIN gates \ S /\ closedGates' = closedGates \cup S
      /\ \A g \in DOMAIN gates' : gates'[g] = gates[g]
  BY AppsRestrict DEF Apps!Close, Apps!Unregistered, Restrict
<1> QED
  BY <1>1 DEF AppsInv, AppsGated, AppsOpenedWell

LEMMA AppsGateEndsKeeps == ASSUME AppsInv, Apps!GateEnds PROVE AppsInv'
<1>1. PICK g \in DOMAIN gates :
        Apps!Close({g}) /\ UNCHANGED <<on, targets, nextId, named, shown, opened>>
  BY DEF Apps!GateEnds
<1> QED
  BY <1>1, AppsCloseKeeps DEF AppsInv

LEMMA AppsTrimmedIs ==
  ASSUME AppsInv, NEW a, NEW m, NEW s, DOMAIN s = DOMAIN shown \ Apps!Conflicting(a, m),
         \A p \in DOMAIN s : s[p] = shown[p]
  PROVE  /\ Apps!Conflicting(a, m) = {} => AppsServes(named, s, targets)
         /\ Apps!Conflicting(a, m) # {} =>
                   /\ a \in DOMAIN named /\ a \in DOMAIN targets
                   /\ AppsServes(Apps!Unregistered(named, {a}), s, targets)
<1>1. CASE Apps!Conflicting(a, m) = {}
  BY <1>1, AppsServesSame DEF AppsInv
<1>2. CASE Apps!Conflicting(a, m) # {}
  <2>1. a \in DOMAIN named /\ Apps!Conflicting(a, m) = {named[a]} /\ a \in DOMAIN targets
    BY <1>2 DEF Apps!Conflicting, Apps!NameOf
  <2>2. AppsServes(Apps!Unregistered(named, {a}), s, targets)
    <3> DEFINE n == Apps!Unregistered(named, {a})
    <3>1. DOMAIN n = DOMAIN named \ {a} /\ \A b \in DOMAIN n : n[b] = named[b]
      BY AppsRestrict DEF Apps!Unregistered, Restrict
    <3> HIDE DEF n
    <3>2. DOMAIN s = DOMAIN shown \ {named[a]} /\ AppsServes(named, shown, targets)
      BY <2>1 DEF AppsInv
    <3>3. AppsServes(n, s, targets)
      BY <2>1, <3>1, <3>2, AppsServesFewer
    <3> QED
      BY <3>3 DEF n
  <2> QED
    BY <1>2, <2>1, <2>2
<1> QED
  BY <1>1, <1>2

LEMMA AppsRestoredKeeps ==
  ASSUME AppsInv, NEW a, NEW m, NEW s, DOMAIN s = DOMAIN shown \ Apps!Conflicting(a, m),
         \A p \in DOMAIN s : s[p] = shown[p], Apps!Restored(a, m, s), targets' = targets
  PROVE  /\ AppsServes(named', shown', targets')
         /\ \A b \in DOMAIN named \ {a} : b \in DOMAIN named' /\ named'[b] = named[b]
<1>1. CASE Apps!Conflicting(a, m) = {}
  BY <1>1, AppsTrimmedIs DEF Apps!Restored
<1>2. CASE Apps!Conflicting(a, m) # {}
  <2> DEFINE n == Apps!Unregistered(named, {a})
  <2>1. a \in DOMAIN named /\ a \in DOMAIN targets /\ AppsServes(n, s, targets)
    BY <1>2, AppsTrimmedIs
  <2>2. DOMAIN n = DOMAIN named \ {a} /\ \A b \in DOMAIN n : n[b] = named[b]
    BY AppsRestrict DEF Apps!Unregistered, Restrict
  <2>3. CASE shown' = s /\ named' = n
    BY <2>1, <2>2, <2>3
  <2>4. ASSUME NEW q \in Apps!Unused(s), shown' = Apps!Registered(s, q, targets[a]),
               named' = [named EXCEPT ![a] = q]
        PROVE  /\ AppsServes(named', shown', targets')
               /\ \A b \in DOMAIN named \ {a} : b \in DOMAIN named' /\ named'[b] = named[b]
    <3>1. q \in Marks /\ q \notin DOMAIN s
      BY AppsRange DEF Apps!Unused
    <3>2. /\ DOMAIN shown' = DOMAIN s \cup {q} /\ shown'[q] = targets[a]
          /\ \A p \in DOMAIN s : shown'[p] = s[p]
      BY <2>4, <3>1 DEF Apps!Registered
    <3>3. /\ DOMAIN named' = DOMAIN n \cup {a} /\ named'[a] = q
          /\ \A b \in DOMAIN n : named'[b] = n[b]
      BY <2>1, <2>2, <2>4
    <3> HIDE DEF n
    <3>4. AppsServes(named', shown', targets)
      BY <2>1, <2>2, <3>1, <3>2, <3>3, AppsServesMore
    <3> QED
      BY <2>2, <3>3, <3>4
  <2> QED
    BY <1>2, <2>3, <2>4 DEF Apps!Restored
<1> QED
  BY <1>1, <1>2

\* A step on a target without a session leaves the gateways on theirs.
LEMMA AppsInactiveGated ==
  ASSUME AppsInv, NEW a, ~Apps!Active(a), UNCHANGED <<opened, closedGates>>,
         DOMAIN gates' = DOMAIN gates, \A g \in DOMAIN gates : gates'[g] = gates[g],
         \A b \in DOMAIN named \ {a} : b \in DOMAIN named' /\ named'[b] = named[b]
  PROVE  AppsGated' /\ AppsOpenedWell'
BY DEF AppsInv, AppsGated, AppsOpenedWell, Apps!Active

\* No gateway is on the publication of a target without a session.
LEMMA AppsNoGates ==
  ASSUME AppsInv, NEW a, ~Apps!Active(a), NEW P, P \subseteq Apps!NameOf(a)
  PROVE  UNION {Apps!GatesOn(p) : p \in P} = {}
BY DEF AppsInv, AppsGated, AppsServes, Apps!Active, Apps!GatesOn, Apps!NameOf

LEMMA AppsClosesNothing ==
  ASSUME AppsInv, Apps!Close({})
  PROVE  /\ DOMAIN gates' = DOMAIN gates /\ \A g \in DOMAIN gates : gates'[g] = gates[g]
         /\ closedGates' = closedGates
BY AppsRestrict DEF Apps!Close, Apps!Unregistered, Restrict

-----------------------------------------------------------------------------
LEMMA AppsWrittenKeeps ==
  ASSUME AppsInv, NEW a \in DOMAIN targets \cup {nextId}, a <= MaxApps, NEW m \in Paths,
         Apps!MountFree(a, m), NEW s,
              DOMAIN s = DOMAIN shown \ Apps!Conflicting(a, m), \A p \in DOMAIN s : s[p] = shown[p],
              Apps!Written(a, m, s)
  PROVE  /\ AppsStored(targets') /\ AppsServes(named', shown', targets')
         /\ nextId' \in 1..(MaxApps + 1)
         /\ \A b \in DOMAIN named \ {a} : b \in DOMAIN named' /\ named'[b] = named[b]
<1> PICK p \in Apps!Unused(s) :
      /\ shown' = Apps!Unregistered(Apps!Registered(s, p, m), Apps!NameOf(a))
      /\ named' = Apps!Registered(named, a, p)
      /\ targets' = Apps!Registered(targets, a, m)
  BY DEF Apps!Written
<1>1. p \in Marks /\ p \notin DOMAIN s /\ p \notin DOMAIN shown
  BY AppsRange DEF Apps!Unused
<1>2. /\ DOMAIN targets' = DOMAIN targets \cup {a} /\ targets'[a] = m
      /\ \A b \in DOMAIN targets : b # a => targets'[b] = targets[b]
  BY DEF Apps!Registered
<1>3. /\ DOMAIN named' = DOMAIN named \cup {a} /\ named'[a] = p
      /\ \A b \in DOMAIN named : b # a => named'[b] = named[b]
  BY DEF Apps!Registered
<1>4. /\ DOMAIN shown' = (DOMAIN s \cup {p}) \ Apps!NameOf(a)
      /\ \A q \in DOMAIN shown' : shown'[q] = IF q = p THEN m ELSE s[q]
  BY AppsRestrict DEF Apps!Registered, Apps!Unregistered, Restrict
<1>5. /\ DOMAIN s \ Apps!NameOf(a) = DOMAIN shown \ Apps!NameOf(a)
      /\ p \notin Apps!NameOf(a)
  BY <1>1 DEF Apps!Conflicting, Apps!NameOf, AppsInv, AppsServes
<1>6. DOMAIN shown' = (DOMAIN shown \ Apps!NameOf(a)) \cup {p}
  BY <1>4, <1>5
<1>7. \A q \in DOMAIN shown' : q # p => shown'[q] = shown[q] /\ q \in DOMAIN shown
  BY <1>4, <1>6
<1>8. shown'[p] = m
  BY <1>4, <1>6
<1>9. a \in 1..MaxApps
  BY AppsBounds DEF Apps!AppsAssumption, AppsInv, AppsStored
<1>10. AppsStored(targets')
  <2>1. DOMAIN targets' \subseteq 1..MaxApps /\ \A b \in DOMAIN targets' : targets'[b] \in Paths
    BY <1>2, <1>9 DEF AppsInv, AppsStored
  <2>2. \A b \in DOMAIN targets \ {a} : ~Apps!Overlapping(targets[b], m) /\ ~Apps!Overlapping(m, targets[b])
    BY AppsEitherWay DEF Apps!MountFree
  <2>3. \A b, c \in DOMAIN targets' : b # c => ~Apps!Overlapping(targets'[b], targets'[c])
    BY <1>2, <2>2 DEF AppsInv, AppsStored
  <2> QED
    BY <2>1, <2>3 DEF AppsStored
<1>11. nextId' \in 1..(MaxApps + 1)
  <2>1. nextId' = IF a = nextId THEN nextId + 1 ELSE nextId
    BY DEF Apps!Written
  <2> QED
    BY <1>9, <2>1, AppsBounds DEF Apps!AppsAssumption, AppsInv
<1>12. AppsServes(named', shown', targets')
  <2>1. DOMAIN named' \subseteq DOMAIN targets'
    BY <1>2, <1>3 DEF AppsInv, AppsServes
  <2>2. ASSUME NEW b \in DOMAIN named, b # a
        PROVE  /\ named'[b] = named[b] /\ named[b] # p /\ named[b] \notin Apps!NameOf(a)
               /\ named[b] \in DOMAIN shown /\ named[b] \in Marks
               /\ shown[named[b]] = targets[b] /\ targets'[b] = targets[b]
    BY <1>1, <1>2, <1>3, <2>2 DEF AppsInv, AppsServes, Apps!NameOf
  <2>3. \A b \in DOMAIN named' :
          named'[b] \in Marks /\ named'[b] \in DOMAIN shown' /\ shown'[named'[b]] = targets'[b]
    BY <1>1, <1>2, <1>3, <1>6, <1>7, <1>8, <2>2
  <2>4. \A b, c \in DOMAIN named' : named'[b] = named'[c] => b = c
    BY <1>3, <2>2 DEF AppsInv, AppsServes
  <2>5. ASSUME NEW q \in DOMAIN shown' PROVE \E b \in DOMAIN named' : named'[b] = q
    <3>1. CASE q = p
      BY <1>3, <3>1
    <3>2. CASE q # p
      <4>1. q \in DOMAIN shown /\ q \notin Apps!NameOf(a)
        BY <1>6, <3>2
      <4>2. PICK b \in DOMAIN named : named[b] = q
        BY <4>1 DEF AppsInv, AppsServes
      <4>3. b # a
        BY <4>1, <4>2 DEF Apps!NameOf
      <4> QED
        BY <1>3, <4>2, <4>3
    <3> QED
      BY <3>1, <3>2
  <2> QED
    BY <2>1, <2>3, <2>4, <2>5 DEF AppsServes
<1> QED
  BY <1>3, <1>10, <1>11, <1>12

LEMMA AppsSaveKeeps == ASSUME AppsInv, Apps!Save PROVE AppsInv'
<1> PICK a \in DOMAIN targets \cup {nextId}, m \in Paths :
      /\ on /\ a <= MaxApps
      /\ Apps!MountFree(a, m) /\ ~Apps!Active(a)
      /\ LET old == Apps!Conflicting(a, m)
             s == Apps!Unregistered(shown, old) IN
         /\ Apps!Close(UNION {Apps!GatesOn(p) : p \in old})
         /\ Apps!Refused(a, m, s) \/ Apps!Unwritten(a, m, s) \/ Apps!Written(a, m, s)
      /\ UNCHANGED <<on, opened>>
  BY DEF Apps!Save
<1> DEFINE s == Apps!Unregistered(shown, Apps!Conflicting(a, m))
<1>1. DOMAIN s = DOMAIN shown \ Apps!Conflicting(a, m) /\ \A p \in DOMAIN s : s[p] = shown[p]
  BY AppsRestrict DEF Apps!Unregistered, Restrict
<1>2. Apps!Conflicting(a, m) \subseteq Apps!NameOf(a)
  BY DEF Apps!Conflicting
<1>3. Apps!Close({})
  BY <1>2, AppsNoGates
<1>4. /\ DOMAIN gates' = DOMAIN gates /\ \A g \in DOMAIN gates : gates'[g] = gates[g]
      /\ closedGates' = closedGates
  BY <1>3, AppsClosesNothing
<1>5. Apps!Refused(a, m, s) \/ Apps!Unwritten(a, m, s) \/ Apps!Written(a, m, s)
  OBVIOUS
<1> HIDE DEF s
<1>6. /\ AppsStored(targets') /\ AppsServes(named', shown', targets')
      /\ nextId' \in 1..(MaxApps + 1)
      /\ \A b \in DOMAIN named \ {a} : b \in DOMAIN named' /\ named'[b] = named[b]
  <2>1. CASE Apps!Refused(a, m, s)
    BY <1>1, <2>1, AppsRestoredKeeps DEF Apps!Refused, AppsInv
  <2>2. CASE Apps!Unwritten(a, m, s)
    <3>1. PICK p \in Apps!Unused(s) :
            /\ Apps!Restored(a, m, Apps!Unregistered(Apps!Registered(s, p, m), {p}))
            /\ UNCHANGED <<targets, nextId>>
      BY <2>2 DEF Apps!Unwritten
    <3> DEFINE z == Apps!Unregistered(Apps!Registered(s, p, m), {p})
    <3>2. p \notin DOMAIN s
      BY AppsRange DEF Apps!Unused
    <3>3. DOMAIN z = DOMAIN s /\ \A q \in DOMAIN z : z[q] = s[q]
      BY <3>2, AppsRestrict DEF Apps!Registered, Apps!Unregistered, Restrict
    <3>4. Apps!Restored(a, m, z)
      BY <3>1
    <3> HIDE DEF z
    <3>5. DOMAIN z = DOMAIN shown \ Apps!Conflicting(a, m) /\ \A q \in DOMAIN z : z[q] = shown[q]
      BY <1>1, <3>3
    <3> QED
      BY <3>1, <3>4, <3>5, AppsRestoredKeeps DEF AppsInv
  <2>3. CASE Apps!Written(a, m, s)
    BY <1>1, <2>3, AppsWrittenKeeps
  <2> QED
    BY <1>5, <2>1, <2>2, <2>3
<1>7. AppsGated' /\ AppsOpenedWell'
  BY <1>4, <1>6, AppsInactiveGated
<1> QED
  BY <1>4, <1>6, <1>7 DEF AppsInv

LEMMA AppsDeleteKeeps == ASSUME AppsInv, NEW a, Apps!Delete(a) PROVE AppsInv'
<1>1. Apps!NameOf(a) \subseteq Apps!NameOf(a) /\ Apps!Close(UNION {Apps!GatesOn(p) : p \in Apps!NameOf(a)})
  BY DEF Apps!Delete
<1>2. Apps!Close({})
  BY <1>1, AppsNoGates DEF Apps!Delete
<1>3. /\ DOMAIN gates' = DOMAIN gates /\ \A g \in DOMAIN gates : gates'[g] = gates[g]
      /\ closedGates' = closedGates
  BY <1>2, AppsClosesNothing
<1>4. /\ DOMAIN targets' = DOMAIN targets \ {a} /\ DOMAIN named' = DOMAIN named \ {a}
      /\ \A b \in DOMAIN targets' : targets'[b] = targets[b]
      /\ \A b \in DOMAIN named' : named'[b] = named[b]
      /\ DOMAIN shown' = DOMAIN shown \ Apps!NameOf(a)
      /\ \A p \in DOMAIN shown' : shown'[p] = shown[p]
  BY AppsRestrict DEF Apps!Delete, Apps!Unregistered, Restrict
<1>5. AppsStored(targets')
  BY <1>4 DEF AppsInv, AppsStored
<1>6. AppsServes(named', shown', targets)
  <2>1. CASE a \in DOMAIN named
    <3>1. DOMAIN shown' = DOMAIN shown \ {named[a]} /\ AppsServes(named, shown, targets)
      BY <1>4, <2>1 DEF Apps!NameOf, AppsInv
    <3> QED
      BY <1>4, <2>1, <3>1, AppsServesFewer
  <2>2. CASE a \notin DOMAIN named
    BY <1>4, <2>2 DEF Apps!NameOf, AppsInv, AppsServes
  <2> QED
    BY <2>1, <2>2
<1>7. AppsServes(named', shown', targets')
  BY <1>4, <1>6, AppsServesMoved DEF AppsInv, AppsServes
<1>8. AppsGated' /\ AppsOpenedWell'
  BY <1>3, <1>4, AppsInactiveGated DEF Apps!Delete
<1> QED
  BY <1>3, <1>5, <1>7, <1>8 DEF Apps!Delete, AppsInv

LEMMA AppsPublishedKeeps ==
  ASSUME AppsInv, NEW a \in DOMAIN targets, Apps!Published(a)
  PROVE  /\ AppsServes(named', shown', targets) /\ a \in DOMAIN named'
         /\ \A b \in DOMAIN named : b \in DOMAIN named' /\ named'[b] = named[b]
<1>1. CASE a \in DOMAIN named
  BY <1>1 DEF Apps!Published, AppsInv
<1>2. CASE a \notin DOMAIN named
  <2>1. PICK p \in Apps!Unused(shown) :
          /\ shown' = Apps!Registered(shown, p, targets[a]) /\ named' = Apps!Registered(named, a, p)
    BY <1>2 DEF Apps!Published
  <2>2. p \in Marks /\ p \notin DOMAIN shown
    BY AppsRange DEF Apps!Unused
  <2>3. /\ DOMAIN shown' = DOMAIN shown \cup {p} /\ shown'[p] = targets[a]
        /\ \A q \in DOMAIN shown : shown'[q] = shown[q]
    BY <2>1, <2>2 DEF Apps!Registered
  <2>4. /\ DOMAIN named' = DOMAIN named \cup {a} /\ named'[a] = p
        /\ \A b \in DOMAIN named : named'[b] = named[b]
    BY <2>1, <1>2 DEF Apps!Registered
  <2>5. AppsServes(named, shown, targets)
    BY DEF AppsInv
  <2>6. AppsServes(named', shown', targets)
    BY <1>2, <2>2, <2>3, <2>4, <2>5, AppsServesMore
  <2> QED
    BY <2>4, <2>6
<1> QED
  BY <1>1, <1>2

LEMMA AppsOpenSessionKeeps == ASSUME AppsInv, NEW a, Apps!OpenSession(a) PROVE AppsInv'
<1>1. a \in DOMAIN targets /\ Apps!Published(a)
  BY AppsCardinality DEF Apps!OpenSession
<1>2. /\ AppsServes(named', shown', targets) /\ a \in DOMAIN named'
      /\ \A b \in DOMAIN named : b \in DOMAIN named' /\ named'[b] = named[b]
  BY <1>1, AppsPublishedKeeps
<1>3. a \in 1..MaxApps /\ UNCHANGED <<on, targets, nextId>> /\ on
  BY <1>1, AppsCardinality DEF Apps!OpenSession, AppsInv, AppsStored
<1>4. AppsGated' /\ AppsOpenedWell'
  <2>1. CASE UNCHANGED <<gates, closedGates, opened>>
    BY <1>2, <2>1 DEF AppsInv, AppsGated, AppsOpenedWell
  <2>2. ASSUME NEW g \in Gates \ (DOMAIN gates \cup DOMAIN opened \cup closedGates),
               gates' = Apps!Registered(gates, g, named'[a]), opened' = Apps!Registered(opened, g, a),
               closedGates' = closedGates
        PROVE  AppsGated' /\ AppsOpenedWell'
    <3>1. /\ DOMAIN gates' = DOMAIN gates \cup {g} /\ gates'[g] = named'[a]
          /\ \A h \in DOMAIN gates : h # g => gates'[h] = gates[h]
      BY <2>2 DEF Apps!Registered
    <3>2. /\ DOMAIN opened' = DOMAIN opened \cup {g} /\ opened'[g] = a
          /\ \A h \in DOMAIN opened : h # g => opened'[h] = opened[h]
      BY <2>2 DEF Apps!Registered
    <3>3. AppsGated'
      BY <1>2, <2>2, <3>1, <3>2 DEF AppsInv, AppsGated
    <3>4. AppsOpenedWell'
      BY <1>3, <2>2, <3>2 DEF AppsInv, AppsOpenedWell
    <3> QED
      BY <3>3, <3>4
  <2>3. ASSUME NEW g \in Gates \ (DOMAIN gates \cup DOMAIN opened \cup closedGates),
               gates' = gates, opened' = opened, closedGates' = closedGates \cup {g}
        PROVE  AppsGated' /\ AppsOpenedWell'
    BY <1>2, <2>3 DEF AppsInv, AppsGated, AppsOpenedWell
  <2> QED
    BY <2>1, <2>2, <2>3, AppsCardinality DEF Apps!OpenSession, Apps!Gateway
<1> QED
  BY <1>2, <1>3, <1>4 DEF AppsInv

LEMMA AppsSessionStepsKeep ==
  ASSUME AppsInv, NEW g \in Gates, Apps!CloseSession(g) \/ Apps!Told(g)
  PROVE  AppsInv'
<1>1. CASE Apps!CloseSession(g)
  <2>1. /\ DOMAIN gates' = DOMAIN gates \ {g} /\ \A h \in DOMAIN gates' : gates'[h] = gates[h]
        /\ closedGates' = closedGates \cup ({g} \cap DOMAIN gates)
    BY <1>1, AppsRestrict DEF Apps!CloseSession, Apps!Close, Apps!Unregistered, Restrict
  <2>2. /\ DOMAIN opened' = DOMAIN opened \ {g}
        /\ \A h \in DOMAIN opened' : opened'[h] = opened[h]
    BY <1>1, AppsRestrict DEF Apps!CloseSession, Apps!Unregistered, Restrict
  <2>3. AppsGated' /\ AppsOpenedWell'
    BY <1>1, <2>1, <2>2 DEF Apps!CloseSession, AppsInv, AppsGated, AppsOpenedWell
  <2> QED
    BY <1>1, <2>1, <2>3 DEF Apps!CloseSession, AppsInv
<1>2. CASE Apps!Told(g)
  <2>1. g \notin DOMAIN gates
    BY <1>2 DEF Apps!Told, AppsInv, AppsGated
  <2>2. /\ DOMAIN opened' \subseteq DOMAIN opened /\ DOMAIN opened \subseteq DOMAIN opened' \cup {g}
        /\ \A h \in DOMAIN opened' : opened'[h] = opened[h]
    BY <1>2, AppsRestrict DEF Apps!Told, Apps!Unregistered, Restrict
  <2>3. AppsGated' /\ AppsOpenedWell'
    BY <1>2, <2>1, <2>2 DEF Apps!Told, AppsInv, AppsGated, AppsOpenedWell
  <2> QED
    BY <1>2, <2>3 DEF Apps!Told, AppsInv
<1> QED
  BY <1>1, <1>2

LEMMA AppsInitializeKeeps == ASSUME AppsInv, Apps!Initialize PROVE AppsInv'
<1> PICK f \in [DOMAIN targets -> Marks] :
      /\ IsInjective(f) /\ named' = f
      /\ shown' = [p \in Range(f) |-> targets[CHOOSE a \in DOMAIN f : f[a] = p]]
  BY AppsRange, AppsIsInjective DEF Apps!Initialize
<1>1. /\ DOMAIN f = DOMAIN targets /\ \A a \in DOMAIN f : f[a] \in Marks /\ f[a] \in Range(f)
      /\ \A p \in Range(f) : \E a \in DOMAIN f : f[a] = p
  BY DEF Range
<1>2. \A a, b \in DOMAIN f : f[a] = f[b] => a = b
  BY DEF IsInjective
<1>3. ASSUME NEW a \in DOMAIN f PROVE shown'[f[a]] = targets[a]
  <2>1. (CHOOSE b \in DOMAIN f : f[b] = f[a]) = a
    BY <1>2
  <2> QED
    BY <1>1, <2>1
<1>4. AppsServes(named', shown', targets')
  <2>1. DOMAIN shown' = Range(f)
    OBVIOUS
  <2>2. targets' = targets
    BY AppsRange, AppsIsInjective DEF Apps!Initialize
  <2> QED
    BY <1>1, <1>2, <1>3, <2>1, <2>2 DEF AppsServes
<1>5. DOMAIN gates' = {} /\ AppsGated' /\ AppsOpenedWell'
  BY AppsRange, AppsIsInjective DEF Apps!Initialize, AppsInv, AppsGated, AppsOpenedWell
<1> QED
  BY <1>4, <1>5, AppsRange, AppsIsInjective DEF Apps!Initialize, AppsInv

LEMMA AppsShutdownKeeps == ASSUME AppsInv, Apps!Shutdown PROVE AppsInv'
<1>1. /\ DOMAIN named' = {} /\ DOMAIN shown' = {} /\ DOMAIN gates' = {}
      /\ DOMAIN opened' = {} /\ closedGates' = {}
  BY DEF Apps!Shutdown, Apps!Empty
<1>2. AppsServes(named', shown', targets') /\ AppsGated' /\ AppsOpenedWell'
  BY <1>1 DEF AppsServes, AppsGated, AppsOpenedWell
<1> QED
  BY <1>1, <1>2 DEF Apps!Shutdown, AppsInv

LEMMA AppsKeeps == AppsInv /\ [Apps!Next]_(Apps!appVars) => AppsInv'
<1> SUFFICES ASSUME AppsInv, [Apps!Next]_(Apps!appVars) PROVE AppsInv'
  OBVIOUS
<1>1. CASE UNCHANGED Apps!appVars
  BY <1>1 DEF Apps!appVars, AppsInv, AppsGated, AppsOpenedWell
<1> QED
  BY <1>1, AppsSaveKeeps, AppsInitializeKeeps, AppsShutdownKeeps, AppsGateEndsKeeps, AppsDeleteKeeps,
     AppsOpenSessionKeeps, AppsSessionStepsKeep DEF Apps!Next

LEMMA AppsInvariance == Apps!Spec => []AppsInv
BY AppsStarts, AppsKeeps, PTL DEF Apps!Spec

\* Targets, publications and gateways keep their types.
THEOREM AppsTypeCorrect == Apps!Spec => []Apps!TypeOK
<1>1. AppsInv => Apps!TypeOK
  BY AppsRange DEF AppsInv, AppsStored, AppsServes, AppsGated, AppsOpenedWell, Apps!TypeOK, Range
<1> QED
  BY <1>1, AppsInvariance, PTL

\* plugins/web-apps: whatever host calls fail, the publications of the host
\* are those the plugin names, each at the mount of its target, and every
\* gateway is a session of the plugin on a stored target.
THEOREM AppsMountsStayNamed == Apps!Spec => [](Apps!MountsAreNamed /\ Apps!GatewaysAreSessions)
<1>1. ASSUME AppsInv PROVE Apps!MountsAreNamed /\ Apps!GatewaysAreSessions
  <2>1. Range(named) = DOMAIN shown /\ IsInjective(named)
    <3>1. /\ \A a \in DOMAIN named : named[a] \in DOMAIN shown
          /\ \A a, b \in DOMAIN named : named[a] = named[b] => a = b
          /\ \A p \in DOMAIN shown : \E a \in DOMAIN named : named[a] = p
      BY <1>1 DEF AppsInv, AppsServes
    <3>2. Range(named) = {named[a] : a \in DOMAIN named}
      BY DEF Range
    <3>3. Range(named) = DOMAIN shown
      BY <3>1, <3>2
    <3>4. IsInjective(named)
      BY <3>1 DEF IsInjective
    <3> QED
      BY <3>3, <3>4
  <2>2. Apps!MountsAreNamed
    BY <1>1, <2>1, AppsRange, AppsIsInjective DEF AppsInv, AppsServes, Apps!MountsAreNamed
  <2>3. Apps!GatewaysAreSessions
    BY <1>1 DEF AppsInv, AppsGated, AppsServes, Apps!NameOf, Apps!GatewaysAreSessions
  <2> QED
    BY <2>2, <2>3
<1> QED
  BY <1>1, AppsInvariance, PTL


-----------------------------------------------------------------------------
(***************************************************************************)
(* Proofs about the Terminal plugin: no shell runs that the plugin does    *)
(* not list, whatever ends by itself.                                      *)
(***************************************************************************)

\* The operators of the library, as the component has them.
LEMMA TerminalIsFiniteSet == \A X : Terminal!IsFiniteSet(X) <=> IsFiniteSet(X)
BY DEF Terminal!IsFiniteSet, IsFiniteSet
LEMMA TerminalCardinality == \A X : Terminal!Cardinality(X) = Cardinality(X)
BY DEF Terminal!Cardinality, Terminal!IsFiniteSet, Cardinality, IsFiniteSet

\* The constants of the component are as it assumes.
LEMMA TerminalBounds == Terminal!TabsAssumption
  BY BrowserAssumption

TerminalStates == {"new", "running", "asked", "exited", "gone"}

TerminalTypes ==
  /\ loaded \in BOOLEAN /\ watched \in BOOLEAN
  /\ Terminal!Listed \subseteq Tabs /\ \A s \in Terminal!Listed : tabs[s] \in {"running", "exited"}
  /\ shell \in [Tabs -> TerminalStates]
  /\ exits \subseteq Tabs

TerminalCounted == IsFiniteSet(Terminal!Listed) /\ Cardinality(Terminal!Listed) <= MaxTabs

TerminalExitsAreOver == \A s \in exits : shell[s] \in {"exited", "gone"}

TerminalInv == TerminalTypes /\ TerminalCounted /\ TerminalExitsAreOver /\ Terminal!NoShellLeftBehind

LEMMA TerminalFewer ==
  ASSUME NEW S, NEW T, IsFiniteSet(S), T \subseteq S, Cardinality(S) <= MaxTabs
  PROVE  IsFiniteSet(T) /\ Cardinality(T) <= MaxTabs
<1>1. IsFiniteSet(T)
  BY FS_Subset
<1>2. Cardinality(T) <= Cardinality(S)
  BY FS_Subset
<1>3. Cardinality(T) \in Nat /\ Cardinality(S) \in Nat
  BY <1>1, FS_CardinalityType
<1> QED
  BY <1>1, <1>2, <1>3, TerminalBounds DEF Terminal!TabsAssumption

LEMMA TerminalOneMore ==
  ASSUME NEW S, NEW T, NEW s, IsFiniteSet(S), T \subseteq S, Cardinality(T) < MaxTabs
  PROVE  IsFiniteSet(T \cup {s}) /\ Cardinality(T \cup {s}) <= MaxTabs
<1>1. IsFiniteSet(T)
  BY FS_Subset
<1>2. /\ IsFiniteSet(T \cup {s})
      /\ Cardinality(T \cup {s}) = Cardinality(T) \/ Cardinality(T \cup {s}) = Cardinality(T) + 1
  BY <1>1, FS_AddElement
<1>3. Cardinality(T) \in Nat
  BY <1>1, FS_CardinalityType
<1> QED
  BY <1>2, <1>3, TerminalBounds DEF Terminal!TabsAssumption

LEMMA TerminalStarts == Terminal!Init => TerminalInv
<1> SUFFICES ASSUME Terminal!Init PROVE TerminalInv
  OBVIOUS
<1>1. Terminal!Listed = {}
  BY DEF Terminal!Init, Terminal!Listed
<1>2. TerminalCounted
  BY <1>1, FS_EmptySet, TerminalBounds DEF Terminal!TabsAssumption, TerminalCounted
<1>3. TerminalTypes
  BY <1>1 DEF Terminal!Init, TerminalTypes, TerminalStates
<1>4. TerminalExitsAreOver /\ Terminal!NoShellLeftBehind
  BY DEF Terminal!Init, TerminalExitsAreOver, Terminal!NoShellLeftBehind
<1> QED
  BY <1>2, <1>3, <1>4 DEF TerminalInv

\* Entries dropped because they had ended.
LEMMA TerminalDrops ==
  ASSUME TerminalInv, NEW S, tabs' = Terminal!Without(S), \A s \in S \cap Terminal!Listed : tabs[s] # "running",
         UNCHANGED <<loaded, shell, exits, watched>>
  PROVE  TerminalInv'
<1>1. Terminal!Listed' = Terminal!Listed \ S /\ \A s \in Terminal!Listed' : tabs'[s] = tabs[s]
  BY DEF Terminal!Without, Terminal!Listed
<1>2. TerminalCounted'
  BY <1>1, TerminalFewer DEF TerminalInv, TerminalCounted
<1>3. TerminalTypes'
  BY <1>1 DEF TerminalInv, TerminalTypes
<1>4. Terminal!NoShellLeftBehind' /\ TerminalExitsAreOver'
  BY <1>1 DEF TerminalInv, Terminal!NoShellLeftBehind, TerminalExitsAreOver
<1> QED
  BY <1>2, <1>3, <1>4 DEF TerminalInv

\* The shells move on, the list stays; none of them comes to run.
LEMMA TerminalShellsMove ==
  ASSUME TerminalInv, UNCHANGED <<loaded, tabs, watched>>, shell' \in [Tabs -> TerminalStates],
         exits' \subseteq Tabs, TerminalExitsAreOver',
         \A s \in Tabs : shell'[s] = "running" => shell[s] = "running"
  PROVE  TerminalInv'
<1>1. Terminal!Listed' = Terminal!Listed
  BY DEF Terminal!Listed
<1>2. TerminalCounted'
  BY <1>1 DEF TerminalInv, TerminalCounted
<1>3. TerminalTypes'
  BY <1>1 DEF TerminalInv, TerminalTypes
<1>4. Terminal!NoShellLeftBehind'
  BY <1>1 DEF TerminalInv, Terminal!NoShellLeftBehind
<1> QED
  BY <1>2, <1>3, <1>4 DEF TerminalInv

LEMMA TerminalOpenKeeps == ASSUME TerminalInv, Terminal!Open PROVE TerminalInv'
<1>1. CASE tabs' = Terminal!Without(Terminal!Purged) /\ shell' = shell
  <2>1. \A s \in Terminal!Purged \cap Terminal!Listed : tabs[s] # "running"
    BY DEF Terminal!Purged
  <2> QED
    BY <1>1, <2>1, TerminalDrops, TerminalCardinality DEF Terminal!Open
<1>2. ASSUME NEW s \in Tabs, shell[s] = "new",
             shell' = [shell EXCEPT ![s] = "running"],
             tabs' = [t \in (Terminal!Listed \ Terminal!Purged) \cup {s} |-> "running"]
      PROVE  TerminalInv'
  <2>1. Terminal!Listed' = (Terminal!Listed \ Terminal!Purged) \cup {s} /\ \A t \in Terminal!Listed' : tabs'[t] = "running"
    BY <1>2 DEF Terminal!Listed
  <2>2. TerminalCounted'
    BY <2>1, TerminalOneMore, TerminalCardinality DEF TerminalInv, TerminalCounted, Terminal!Open
  <2>3. TerminalTypes'
    BY <1>2, <2>1, TerminalCardinality DEF TerminalInv, TerminalTypes, TerminalStates, Terminal!Open
  <2>4. \A t \in Terminal!Listed : tabs[t] = "running" => t \in Terminal!Listed \ Terminal!Purged
    BY DEF Terminal!Purged
  <2>5. Terminal!NoShellLeftBehind'
    BY <1>2, <2>1, <2>4, TerminalCardinality
       DEF TerminalInv, TerminalTypes, Terminal!NoShellLeftBehind, Terminal!Open
  <2>6. TerminalExitsAreOver'
    BY <1>2, TerminalCardinality DEF TerminalInv, TerminalTypes, TerminalExitsAreOver, Terminal!Open
  <2> QED
    BY <2>2, <2>3, <2>5, <2>6 DEF TerminalInv
<1> QED
  BY <1>1, <1>2, TerminalCardinality DEF Terminal!Open

LEMMA TerminalProbeKeeps == ASSUME TerminalInv, Terminal!Probe PROVE TerminalInv'
<1> PICK s \in Tabs :
      /\ shell[s] = "new"
      /\ \/ shell' = [shell EXCEPT ![s] = "asked"] /\ tabs' = tabs
         \/ shell' = [shell EXCEPT ![s] = "running"] /\ tabs' = Terminal!With(s, "running")
  BY TerminalCardinality DEF Terminal!Probe
<1>1. CASE shell' = [shell EXCEPT ![s] = "asked"] /\ tabs' = tabs
  <2>1. shell' \in [Tabs -> TerminalStates]
    BY <1>1 DEF TerminalInv, TerminalTypes, TerminalStates
  <2>2. \A t \in Tabs : shell'[t] = "running" => shell[t] = "running"
    BY <1>1 DEF TerminalInv, TerminalTypes
  <2>3. TerminalExitsAreOver' /\ exits' \subseteq Tabs
    BY <1>1, TerminalCardinality DEF TerminalInv, TerminalTypes, TerminalExitsAreOver, Terminal!Probe
  <2> QED
    BY <1>1, <2>1, <2>2, <2>3, TerminalShellsMove, TerminalCardinality DEF Terminal!Probe
<1>2. CASE shell' = [shell EXCEPT ![s] = "running"] /\ tabs' = Terminal!With(s, "running")
  <2>1. /\ Terminal!Listed' = Terminal!Listed \cup {s} /\ tabs'[s] = "running"
        /\ \A t \in Terminal!Listed : tabs'[t] = IF t = s THEN "running" ELSE tabs[t]
    BY <1>2 DEF Terminal!Listed, Terminal!With
  <2>2. TerminalCounted'
    BY <2>1, TerminalOneMore, TerminalCardinality DEF TerminalInv, TerminalCounted, Terminal!Probe
  <2>3. TerminalTypes'
    BY <1>2, <2>1, TerminalCardinality DEF TerminalInv, TerminalTypes, TerminalStates, Terminal!Probe
  <2>4. Terminal!NoShellLeftBehind'
    BY <1>2, <2>1, TerminalCardinality
       DEF TerminalInv, TerminalTypes, Terminal!NoShellLeftBehind, Terminal!Probe
  <2>5. TerminalExitsAreOver'
    BY <1>2, TerminalCardinality DEF TerminalInv, TerminalTypes, TerminalExitsAreOver, Terminal!Probe
  <2> QED
    BY <2>2, <2>3, <2>4, <2>5 DEF TerminalInv
<1> QED
  BY <1>1, <1>2

LEMMA TerminalCloseKeeps == ASSUME TerminalInv, NEW s \in Tabs, Terminal!Close(s) PROVE TerminalInv'
<1>1. CASE tabs[s] # "running" /\ tabs' = Terminal!Without({s}) /\ shell' = shell
  BY <1>1, TerminalDrops DEF Terminal!Close
<1>2. CASE /\ tabs[s] = "running" /\ tabs' = Terminal!Without({s})
           /\ shell' = [shell EXCEPT ![s] = IF @ = "running" THEN "asked" ELSE @]
  <2>1. Terminal!Listed' = Terminal!Listed \ {s} /\ \A t \in Terminal!Listed' : tabs'[t] = tabs[t]
    BY <1>2 DEF Terminal!Without, Terminal!Listed
  <2>2. TerminalCounted'
    BY <2>1, TerminalFewer DEF TerminalInv, TerminalCounted
  <2>3. TerminalTypes'
    BY <1>2, <2>1 DEF TerminalInv, TerminalTypes, TerminalStates, Terminal!Close
  <2>4. Terminal!NoShellLeftBehind'
    BY <1>2, <2>1 DEF TerminalInv, TerminalTypes, Terminal!NoShellLeftBehind, Terminal!Close
  <2>5. TerminalExitsAreOver'
    BY <1>2 DEF TerminalInv, TerminalTypes, TerminalExitsAreOver, Terminal!Close
  <2> QED
    BY <2>2, <2>3, <2>4, <2>5 DEF TerminalInv
<1> QED
  BY <1>1, <1>2 DEF Terminal!Close

\* A late answer or event is believed only for a session that is known to run
\* or to have ended.
LEMMA TerminalStatusKeeps == ASSUME TerminalInv, NEW s \in Tabs, Terminal!Status(s) PROVE TerminalInv'
<1>1. /\ Terminal!Listed' = Terminal!Listed
      /\ \A t \in Terminal!Listed : tabs'[t] = IF t = s THEN IF Terminal!Alive(s) THEN "running" ELSE "exited"
                                               ELSE tabs[t]
  BY DEF Terminal!Status, Terminal!Listed
<1>2. TerminalCounted'
  BY <1>1 DEF TerminalInv, TerminalCounted
<1>3. TerminalTypes'
  BY <1>1 DEF TerminalInv, TerminalTypes, Terminal!Status
<1>4. Terminal!NoShellLeftBehind' /\ TerminalExitsAreOver'
  BY <1>1
     DEF TerminalInv, TerminalTypes, Terminal!NoShellLeftBehind, TerminalExitsAreOver, Terminal!Status,
         Terminal!Alive
<1> QED
  BY <1>2, <1>3, <1>4 DEF TerminalInv
LEMMA TerminalShellsKeep ==
  ASSUME TerminalInv, NEW s \in Tabs, Terminal!Exits(s) \/ Terminal!Forgets(s)
  PROVE  TerminalInv'
<1>1. CASE Terminal!Exits(s)
  <2>1. shell' \in [Tabs -> TerminalStates] /\ exits' \subseteq Tabs
    BY <1>1 DEF TerminalInv, TerminalTypes, TerminalStates, Terminal!Exits
  <2>2. TerminalExitsAreOver' /\ \A t \in Tabs : shell'[t] = "running" => shell[t] = "running"
    BY <1>1 DEF TerminalInv, TerminalTypes, TerminalExitsAreOver, Terminal!Exits
  <2> QED
    BY <1>1, <2>1, <2>2, TerminalShellsMove DEF Terminal!Exits
<1>2. CASE Terminal!Forgets(s)
  <2>1. shell' \in [Tabs -> TerminalStates] /\ exits' \subseteq Tabs
    BY <1>2 DEF TerminalInv, TerminalTypes, TerminalStates, Terminal!Forgets
  <2>2. TerminalExitsAreOver' /\ \A t \in Tabs : shell'[t] = "running" => shell[t] = "running"
    BY <1>2 DEF TerminalInv, TerminalTypes, TerminalExitsAreOver, Terminal!Forgets
  <2> QED
    BY <1>2, <2>1, <2>2, TerminalShellsMove DEF Terminal!Forgets
<1> QED
  BY <1>1, <1>2

LEMMA TerminalEventKeeps == ASSUME TerminalInv, NEW s \in Tabs, Terminal!Event(s) PROVE TerminalInv'
<1>1. /\ Terminal!Listed' = Terminal!Listed
      /\ \A t \in Terminal!Listed : tabs'[t] # tabs[t] => t = s /\ tabs'[t] = "exited"
  <2>1. CASE tabs' = tabs
    BY <2>1 DEF Terminal!Listed
  <2>2. CASE s \in Terminal!Listed /\ tabs' = Terminal!With(s, "exited")
    <3>1. Terminal!Listed \cup {s} = Terminal!Listed
      BY <2>2
    <3> QED
      BY <2>2, <3>1 DEF Terminal!Listed, Terminal!With
  <2> QED
    BY <2>1, <2>2 DEF Terminal!Event
<1>2. TerminalCounted'
  BY <1>1 DEF TerminalInv, TerminalCounted
<1>3. TerminalTypes'
  BY <1>1 DEF TerminalInv, TerminalTypes, Terminal!Event
<1>4. Terminal!NoShellLeftBehind' /\ TerminalExitsAreOver'
  BY <1>1
     DEF TerminalInv, TerminalTypes, Terminal!NoShellLeftBehind, TerminalExitsAreOver, Terminal!Event
<1> QED
  BY <1>2, <1>3, <1>4 DEF TerminalInv

LEMMA TerminalShutdownKeeps == ASSUME TerminalInv, Terminal!Shutdown PROVE TerminalInv'
<1>1. Terminal!Listed' = {}
  BY DEF Terminal!Shutdown, Terminal!Listed
<1>2. TerminalCounted'
  BY <1>1, FS_EmptySet, TerminalBounds DEF Terminal!TabsAssumption, TerminalCounted
<1>3. TerminalTypes'
  BY <1>1 DEF TerminalInv, TerminalTypes, TerminalStates, Terminal!Shutdown
<1>4. Terminal!NoShellLeftBehind' /\ TerminalExitsAreOver'
  BY DEF TerminalInv, TerminalTypes, Terminal!NoShellLeftBehind, TerminalExitsAreOver, Terminal!Shutdown
<1> QED
  BY <1>2, <1>3, <1>4 DEF TerminalInv

LEMMA TerminalKeeps == TerminalInv /\ [Terminal!Next]_(Terminal!terminalVars) => TerminalInv'
<1> SUFFICES ASSUME TerminalInv, [Terminal!Next]_(Terminal!terminalVars) PROVE TerminalInv'
  OBVIOUS
<1>1. CASE Terminal!Open
  BY <1>1, TerminalOpenKeeps
<1>2. CASE Terminal!OpenRefused
  <2>1. \A s \in Terminal!Purged \cap Terminal!Listed : tabs[s] # "running"
    BY DEF Terminal!Purged
  <2> QED
    BY <1>2, <2>1, TerminalDrops, TerminalCardinality DEF Terminal!OpenRefused
<1>3. CASE Terminal!Probe
  BY <1>3, TerminalProbeKeeps
<1>4. CASE Terminal!Watch
  BY <1>4
     DEF Terminal!Watch, TerminalInv, TerminalTypes, TerminalCounted, TerminalExitsAreOver,
         Terminal!NoShellLeftBehind, Terminal!Listed
<1>5. CASE Terminal!Shutdown
  BY <1>5, TerminalShutdownKeeps
<1>6. ASSUME NEW s \in Tabs, Terminal!Close(s) \/ Terminal!Status(s) \/ Terminal!Exits(s) \/ Terminal!Forgets(s) \/ Terminal!Event(s)
      PROVE  TerminalInv'
  BY <1>6, TerminalCloseKeeps, TerminalStatusKeeps, TerminalShellsKeep, TerminalEventKeeps
<1>7. CASE UNCHANGED Terminal!terminalVars
  BY <1>7
     DEF Terminal!terminalVars, TerminalInv, TerminalTypes, TerminalCounted, TerminalExitsAreOver,
         Terminal!NoShellLeftBehind, Terminal!Listed
<1> QED
  BY <1>1, <1>2, <1>3, <1>4, <1>5, <1>6, <1>7 DEF Terminal!Next

LEMMA TerminalInvariance == Terminal!Spec => []TerminalInv
BY TerminalStarts, TerminalKeeps, PTL DEF Terminal!Spec

\* Tabs, shells and the exits that wait keep their types, and tabs their
\* limit.
THEOREM TerminalTypeCorrect == Terminal!Spec => []Terminal!TypeOK
<1>1. TerminalInv => Terminal!TypeOK
  BY TerminalCardinality
     DEF TerminalInv, TerminalTypes, TerminalCounted, Terminal!TypeOK, TerminalStates
<1> QED
  BY <1>1, TerminalInvariance, PTL

\* plugins/terminal: whatever is opened, closed or ends by itself, a shell
\* that runs and was not asked to end is listed, so that it can be closed.
THEOREM TerminalShellsStayListed == Terminal!Spec => []Terminal!NoShellLeftBehind
<1>1. TerminalInv => Terminal!NoShellLeftBehind
  BY DEF TerminalInv
<1> QED
  BY <1>1, TerminalInvariance, PTL


-----------------------------------------------------------------------------
(***************************************************************************)
(* Proofs about the Remote plugin: each open stream belongs to one         *)
(* session, and diagnostics stay while something names them.               *)
(***************************************************************************)

\* The operators of the library, as the component has them.
LEMMA RemoteIsFiniteSet == \A X : Remote!IsFiniteSet(X) <=> IsFiniteSet(X)
BY DEF Remote!IsFiniteSet, IsFiniteSet
LEMMA RemoteCardinality == \A X : Remote!Cardinality(X) = Cardinality(X)
BY DEF Remote!Cardinality, Remote!IsFiniteSet, Cardinality, IsFiniteSet
LEMMA RemoteRange == \A X : Remote!Range(X) = Range(X)
BY DEF Remote!Range, Range
LEMMA RemoteIsInjective == \A X : Remote!IsInjective(X) <=> IsInjective(X)
BY DEF Remote!IsInjective, IsInjective

\* The constants of the component are as it assumes.
LEMMA RemoteBounds == Remote!RemoteAssumption
  BY BrowserAssumption

RemoteStates == {"new", "open", "closed", "gone"}

RemoteDistinct(q) == \A i, j \in 1..Len(q) : q[i] = q[j] => i = j

RemoteTypes ==
  /\ active \in BOOLEAN
  /\ feeds \in [Feeds -> RemoteStates] /\ closings \subseteq Feeds

\* Targets have had their number from the counter.
RemoteNumbered ==
  /\ DOMAIN remoteTargets = Remote!Protocols /\ created \in [Remote!Protocols -> 0..MaxTargets]
  /\ \A k \in Remote!Protocols : remoteTargets[k] \subseteq 1..created[k]

\* The sessions of a protocol: within the limit, on stored targets.
RemoteSessions(k) ==
  /\ DOMAIN clients[k] \subseteq Feeds
  /\ IsFiniteSet(DOMAIN clients[k]) /\ Cardinality(DOMAIN clients[k]) <= MaxClients
  /\ \A s \in DOMAIN clients[k] : clients[k][s] \in remoteTargets[k]

RemoteListed == DOMAIN clients = Remote!Protocols /\ \A k \in Remote!Protocols : RemoteSessions(k)

\* A stream of a session was opened, and an open stream has one session.
RemoteHeld(s) == s \in DOMAIN clients["rdp"] \/ s \in DOMAIN clients["vnc"]
RemoteStreams ==
  \A s \in Feeds :
    /\ ~(s \in DOMAIN clients["rdp"] /\ s \in DOMAIN clients["vnc"])
    /\ RemoteHeld(s) => feeds[s] # "new"
    /\ feeds[s] = "open" => RemoteHeld(s)
    /\ s \in closings => feeds[s] \in {"closed", "gone"}

\* Scopes are kept once each, within the limit, with all that names them.
RemoteScoped ==
  /\ scopes \in Seq(Scopes) /\ RemoteDistinct(scopes) /\ Len(scopes) <= MaxScopes
  /\ \A s \in DOMAIN scopeOf : scopeOf[s] \in Range(scopes)

RemoteUsed ==
  /\ DOMAIN uses = DOMAIN clients["rdp"]
  /\ \A s \in DOMAIN uses : uses[s] \in Scopes

RemoteInv == RemoteTypes /\ RemoteNumbered /\ RemoteListed /\ RemoteStreams /\ RemoteScoped /\ RemoteUsed

LEMMA RemoteTwo == Remote!Protocols = {"rdp", "vnc"} /\ "rdp" \in Remote!Protocols /\ "vnc" \in Remote!Protocols
BY DEF Remote!Protocols

LEMMA RemoteCutParts ==
  ASSUME NEW f, NEW S
  PROVE  DOMAIN Remote!Cut(f, S) = DOMAIN f \ S /\ \A x \in DOMAIN f \ S : Remote!Cut(f, S)[x] = f[x]
BY DEF Remote!Cut

LEMMA RemotePutParts ==
  ASSUME NEW f, NEW x, NEW v
  PROVE  /\ DOMAIN Remote!Put(f, x, v) = DOMAIN f \cup {x} /\ Remote!Put(f, x, v)[x] = v
         /\ \A y \in DOMAIN f : y # x => Remote!Put(f, x, v)[y] = f[y]
BY DEF Remote!Put

LEMMA RemoteFewer ==
  ASSUME NEW S, NEW T, IsFiniteSet(S), T \subseteq S, Cardinality(S) <= MaxClients
  PROVE  IsFiniteSet(T) /\ Cardinality(T) <= MaxClients
<1>1. IsFiniteSet(T)
  BY FS_Subset
<1>2. Cardinality(T) <= Cardinality(S)
  BY FS_Subset
<1>3. Cardinality(T) \in Nat /\ Cardinality(S) \in Nat
  BY <1>1, FS_CardinalityType
<1> QED
  BY <1>1, <1>2, <1>3, RemoteBounds DEF Remote!RemoteAssumption

LEMMA RemoteOneMore ==
  ASSUME NEW S, NEW s, IsFiniteSet(S), ~(Cardinality(S) >= MaxClients)
  PROVE  IsFiniteSet(S \cup {s}) /\ Cardinality(S \cup {s}) <= MaxClients
<1>2. /\ IsFiniteSet(S \cup {s})
      /\ Cardinality(S \cup {s}) = Cardinality(S) \/ Cardinality(S \cup {s}) = Cardinality(S) + 1
  BY FS_AddElement
<1>3. Cardinality(S) \in Nat
  BY FS_CardinalityType
<1> QED
  BY <1>2, <1>3, RemoteBounds DEF Remote!RemoteAssumption

\* addDiagnostic keeps the scopes distinct and within the limit, and no name of
\* a scope that went.
LEMMA RemoteNotedKeeps ==
  ASSUME RemoteScoped, NEW d \in Scopes, NEW names, Remote!Noted(d, names)
  PROVE  RemoteScoped'
<1> DEFINE all == IF d \in Range(scopes) THEN scopes ELSE Append(scopes, d)
           kept == IF Len(all) > MaxScopes THEN Tail(all) ELSE all
<1>1. Range(scopes) = {scopes[i] : i \in 1..Len(scopes)}
  BY DEF Range, RemoteScoped
<1>2. all \in Seq(Scopes) /\ RemoteDistinct(all) /\ Len(all) <= MaxScopes + 1
  <2>1. CASE d \in Range(scopes)
    BY <2>1, RemoteBounds DEF Remote!RemoteAssumption, RemoteScoped
  <2>2. CASE d \notin Range(scopes)
    <3>1. all = Append(scopes, d)
      BY <2>2
    <3>2. all \in Seq(Scopes) /\ Len(all) = Len(scopes) + 1
      BY <3>1 DEF RemoteScoped
    <3>3. \A i \in 1..Len(scopes) : all[i] = scopes[i] /\ scopes[i] # d
      BY <1>1, <2>2, <3>1 DEF RemoteScoped
    <3>4. all[Len(scopes) + 1] = d
      BY <3>1 DEF RemoteScoped
    <3>5. \A i \in 1..Len(all) : i \in 1..Len(scopes) \/ i = Len(scopes) + 1
      BY <3>2 DEF RemoteScoped
    <3>6. RemoteDistinct(all)
      BY <3>3, <3>4, <3>5 DEF RemoteDistinct, RemoteScoped
    <3> QED
      BY <3>2, <3>6, RemoteBounds DEF Remote!RemoteAssumption, RemoteScoped
  <2> QED
    BY <2>1, <2>2
<1>3. kept \in Seq(Scopes) /\ RemoteDistinct(kept) /\ Len(kept) <= MaxScopes
  <2> HIDE DEF all
  <2>1. CASE Len(all) > MaxScopes
    <3>1. kept = Tail(all) /\ all # << >>
      BY <2>1, <1>2, RemoteBounds DEF Remote!RemoteAssumption
    <3>2. Tail(all) \in Seq(Scopes) /\ Len(Tail(all)) = Len(all) - 1
      BY <1>2, <3>1
    <3>3. ASSUME NEW i \in 1..Len(Tail(all))
          PROVE  Tail(all)[i] = all[i + 1] /\ i + 1 \in 1..Len(all)
      <4>1. Len(all) \in Nat /\ i \in 1..(Len(all) - 1)
        BY <1>2, <3>2
      <4>2. Tail(all)[i] = all[i + 1]
        BY <1>2, <3>1, HeadTailProperties
      <4> QED
        BY <4>1, <4>2
    <3>4. RemoteDistinct(Tail(all))
      BY <1>2, <3>2, <3>3 DEF RemoteDistinct
    <3>5. Len(Tail(all)) <= MaxScopes
      BY <1>2, <3>2, RemoteBounds DEF Remote!RemoteAssumption
    <3> HIDE DEF kept
    <3> QED
      BY <3>1, <3>2, <3>4, <3>5
  <2>2. CASE ~(Len(all) > MaxScopes)
    BY <2>2, <1>2, RemoteBounds DEF Remote!RemoteAssumption
  <2> QED
    BY <2>1, <2>2
<1>4. scopes' = kept /\ scopeOf' = Remote!Cut(names, {s \in DOMAIN names : names[s] \notin Range(kept)})
  BY RemoteRange DEF Remote!Noted
<1> HIDE DEF kept
<1>5. \A s \in DOMAIN scopeOf' : scopeOf'[s] \in Range(kept)
  BY <1>4 DEF Remote!Cut
<1> QED
  BY <1>3, <1>4, <1>5 DEF RemoteScoped

\* The parts that an action leaves alone.
LEMMA RemoteTargetsStill ==
  ASSUME RemoteNumbered, UNCHANGED <<remoteTargets, created>> PROVE RemoteNumbered'
BY DEF RemoteNumbered

LEMMA RemoteSessionsStill ==
  ASSUME NEW k, RemoteSessions(k), clients'[k] = clients[k], remoteTargets' = remoteTargets PROVE RemoteSessions(k)'
BY DEF RemoteSessions

LEMMA RemoteScopesStill ==
  ASSUME RemoteScoped, UNCHANGED <<scopes, scopeOf>> PROVE RemoteScoped'
BY DEF RemoteScoped

LEMMA RemoteClientsChange ==
  ASSUME RemoteListed, NEW k \in Remote!Protocols, NEW f, clients' = [clients EXCEPT ![k] = f]
  PROVE  /\ DOMAIN clients' = Remote!Protocols /\ clients'[k] = f
         /\ \A j \in Remote!Protocols : j # k => clients'[j] = clients[j]
BY DEF RemoteListed

LEMMA RemoteSessionAdded ==
  ASSUME RemoteNumbered, RemoteListed, NEW k \in Remote!Protocols, ~Remote!Full(k), NEW s \in Feeds, NEW a \in remoteTargets[k],
         clients' = [clients EXCEPT ![k] = Remote!Put(@, s, a)], remoteTargets' = remoteTargets
  PROVE  /\ RemoteListed' /\ DOMAIN clients'[k] = DOMAIN clients[k] \cup {s}
         /\ \A j \in Remote!Protocols : j # k => clients'[j] = clients[j]
<1>1. clients'[k] = Remote!Put(clients[k], s, a) /\ DOMAIN clients' = Remote!Protocols
  BY RemoteClientsChange DEF RemoteListed
<1>2. \A j \in Remote!Protocols : j # k => clients'[j] = clients[j]
  BY DEF RemoteListed
<1>3. /\ DOMAIN clients'[k] = DOMAIN clients[k] \cup {s} /\ clients'[k][s] = a
      /\ \A t \in DOMAIN clients[k] : t # s => clients'[k][t] = clients[k][t]
  BY <1>1 DEF Remote!Put
<1>4. IsFiniteSet(DOMAIN clients'[k]) /\ Cardinality(DOMAIN clients'[k]) <= MaxClients
  <2>1. IsFiniteSet(DOMAIN clients[k]) /\ ~(Cardinality(DOMAIN clients[k]) >= MaxClients)
    BY RemoteCardinality DEF Remote!Full, RemoteListed, RemoteSessions
  <2>2. /\ IsFiniteSet(DOMAIN clients[k] \cup {s})
        /\ Cardinality(DOMAIN clients[k] \cup {s}) <= MaxClients
    BY <2>1, RemoteOneMore
  <2> QED
    BY <1>3, <2>2
<1>5. RemoteSessions(k)'
  BY <1>3, <1>4 DEF RemoteListed, RemoteSessions
<1>6. \A j \in Remote!Protocols : j # k => RemoteSessions(j)'
  BY <1>2, RemoteSessionsStill DEF RemoteListed
<1> QED
  BY <1>1, <1>2, <1>3, <1>5, <1>6 DEF RemoteListed

LEMMA RemoteSessionCut ==
  ASSUME RemoteListed, NEW k \in Remote!Protocols, NEW S, clients'[k] = Remote!Cut(clients[k], S), remoteTargets' = remoteTargets
  PROVE  RemoteSessions(k)' /\ DOMAIN clients'[k] = DOMAIN clients[k] \ S
<1>1. /\ DOMAIN clients'[k] = DOMAIN clients[k] \ S
      /\ \A t \in DOMAIN clients[k] \ S : clients'[k][t] = clients[k][t]
  BY DEF Remote!Cut
<1>2. IsFiniteSet(DOMAIN clients'[k]) /\ Cardinality(DOMAIN clients'[k]) <= MaxClients
  BY <1>1, RemoteFewer DEF RemoteListed, RemoteSessions
<1> QED
  BY <1>1, <1>2 DEF RemoteListed, RemoteSessions

LEMMA RemoteSessionDropped ==
  ASSUME RemoteListed, NEW k \in Remote!Protocols, NEW s,
         clients' = [clients EXCEPT ![k] = Remote!Cut(@, {s})], remoteTargets' = remoteTargets
  PROVE  /\ RemoteListed' /\ DOMAIN clients'[k] = DOMAIN clients[k] \ {s}
         /\ \A j \in Remote!Protocols : j # k => clients'[j] = clients[j]
<1>1. clients'[k] = Remote!Cut(clients[k], {s}) /\ DOMAIN clients' = Remote!Protocols
  BY RemoteClientsChange DEF RemoteListed
<1>2. \A j \in Remote!Protocols : j # k => clients'[j] = clients[j]
  BY DEF RemoteListed
<1>3. RemoteSessions(k)' /\ DOMAIN clients'[k] = DOMAIN clients[k] \ {s}
  BY <1>1, RemoteSessionCut
<1>4. \A j \in Remote!Protocols : j # k => RemoteSessions(j)'
  BY <1>2, RemoteSessionsStill DEF RemoteListed
<1> QED
  BY <1>1, <1>2, <1>3, <1>4 DEF RemoteListed

-----------------------------------------------------------------------------
LEMMA RemoteStarts == Remote!Init => RemoteInv
<1> SUFFICES ASSUME Remote!Init PROVE RemoteInv
  OBVIOUS
<1>1. DOMAIN clients["rdp"] = {} /\ DOMAIN clients["vnc"] = {} /\ DOMAIN clients = Remote!Protocols
  BY RemoteTwo DEF Remote!Init
<1>2. \A k \in Remote!Protocols : DOMAIN clients[k] = {}
  BY <1>1 DEF Remote!Protocols
<1>3. RemoteListed
  BY <1>1, <1>2, FS_EmptySet, RemoteBounds DEF Remote!RemoteAssumption, RemoteListed, RemoteSessions
<1>4. RemoteTypes /\ RemoteStreams
  BY <1>1 DEF Remote!Init, RemoteTypes, RemoteStates, RemoteStreams, RemoteHeld
<1>5. RemoteNumbered
  BY RemoteBounds DEF Remote!RemoteAssumption, Remote!Init, RemoteNumbered
<1>6. RemoteScoped
  BY RemoteBounds DEF Remote!RemoteAssumption, Remote!Init, RemoteScoped, RemoteDistinct
<1>7. RemoteUsed
  BY <1>1 DEF Remote!Init, RemoteUsed
<1> QED
  BY <1>3, <1>4, <1>5, <1>6, <1>7 DEF RemoteInv

LEMMA RemoteSaveKeeps == ASSUME RemoteInv, NEW k \in Remote!Protocols, Remote!Save(k) PROVE RemoteInv'
<1>1. /\ created'[k] = created[k] + 1 /\ remoteTargets'[k] = remoteTargets[k] \cup {created[k] + 1}
      /\ \A j \in Remote!Protocols : j # k => created'[j] = created[j] /\ remoteTargets'[j] = remoteTargets[j]
      /\ DOMAIN remoteTargets' = Remote!Protocols
  BY DEF Remote!Save, RemoteInv, RemoteNumbered
<1>2. created' \in [Remote!Protocols -> 0..MaxTargets]
  BY <1>1, RemoteBounds DEF Remote!RemoteAssumption, Remote!Save, RemoteInv, RemoteNumbered
<1>3. \A j \in Remote!Protocols : remoteTargets'[j] \subseteq 1..created'[j]
  BY <1>1, <1>2, RemoteBounds DEF Remote!RemoteAssumption, RemoteInv, RemoteNumbered
<1>4. \A j \in Remote!Protocols : remoteTargets[j] \subseteq remoteTargets'[j] /\ clients'[j] = clients[j]
  BY <1>1 DEF Remote!Save
<1>5. RemoteListed'
  BY <1>4 DEF Remote!Save, RemoteInv, RemoteListed, RemoteSessions
<1>6. RemoteTypes' /\ RemoteStreams' /\ RemoteScoped' /\ RemoteUsed'
  BY DEF Remote!Save, Remote!diagnostics, RemoteInv, RemoteTypes, RemoteStreams, RemoteHeld,
         RemoteScoped, RemoteUsed
<1> QED
  BY <1>1, <1>2, <1>3, <1>5, <1>6 DEF RemoteInv, RemoteNumbered

LEMMA RemoteDeleteKeeps == ASSUME RemoteInv, NEW k \in Remote!Protocols, NEW a, Remote!Delete(k, a) PROVE RemoteInv'
<1>1. /\ remoteTargets'[k] = remoteTargets[k] \ {a} /\ DOMAIN remoteTargets' = Remote!Protocols
      /\ \A j \in Remote!Protocols : j # k => remoteTargets'[j] = remoteTargets[j]
  BY DEF Remote!Delete, RemoteInv, RemoteNumbered
<1>2. RemoteNumbered'
  BY <1>1 DEF Remote!Delete, RemoteInv, RemoteNumbered
<1>3. \A j \in Remote!Protocols : RemoteSessions(j)'
  BY <1>1 DEF Remote!Delete, Remote!Holds, RemoteInv, RemoteListed, RemoteSessions
<1>4. RemoteListed'
  BY <1>3 DEF Remote!Delete, RemoteInv, RemoteListed
<1>5. RemoteTypes' /\ RemoteStreams' /\ RemoteScoped' /\ RemoteUsed'
  BY DEF Remote!Delete, Remote!diagnostics, RemoteInv, RemoteTypes, RemoteStreams, RemoteHeld,
         RemoteScoped, RemoteUsed
<1> QED
  BY <1>2, <1>4, <1>5 DEF RemoteInv

\* Streams move on; none comes to be open.
LEMMA RemoteStreamsMove ==
  ASSUME RemoteInv, clients' = clients, feeds' \in [Feeds -> RemoteStates], closings' \subseteq Feeds,
         \A s \in Feeds : /\ feeds[s] # "new" => feeds'[s] # "new"
                          /\ feeds'[s] = "open" => feeds[s] = "open"
                          /\ s \in closings' => feeds'[s] \in {"closed", "gone"}
  PROVE  RemoteStreams'
BY DEF RemoteInv, RemoteStreams, RemoteHeld

LEMMA RemoteStreamCloses ==
  ASSUME RemoteInv, NEW s \in Feeds, Remote!Closed(s)
  PROVE  /\ feeds' \in [Feeds -> RemoteStates] /\ closings' \subseteq Feeds
         /\ \A t \in Feeds : feeds'[t] = IF t = s THEN "closed" ELSE feeds[t]
         /\ closings' = closings \cup {s}
BY DEF RemoteInv, RemoteTypes, RemoteStates, Remote!Closed

\* What a step on the streams alone keeps.
LEMMA RemoteStreamsOnly ==
  ASSUME RemoteInv, UNCHANGED <<active, remoteTargets, created, clients, Remote!diagnostics>>,
         feeds' \in [Feeds -> RemoteStates], closings' \subseteq Feeds, RemoteStreams'
  PROVE  RemoteInv'
<1>1. RemoteTypes'
  BY DEF RemoteInv, RemoteTypes
<1>2. RemoteNumbered' /\ RemoteScoped'
  BY RemoteTargetsStill, RemoteScopesStill DEF RemoteInv, Remote!diagnostics
<1>3. RemoteListed' /\ RemoteUsed'
  BY DEF RemoteInv, RemoteListed, RemoteSessions, RemoteUsed, Remote!diagnostics
<1> QED
  BY <1>1, <1>2, <1>3 DEF RemoteInv

LEMMA RemoteStreamStepsKeep ==
  ASSUME RemoteInv, Remote!Probe \/ \E s \in Feeds : Remote!Ends(s) \/ Remote!Evicted(s)
  PROVE  RemoteInv'
<1>1. ASSUME NEW s \in Feeds, Remote!Closed(s), feeds[s] \in {"new", "open"},
             UNCHANGED <<active, remoteTargets, created, clients, Remote!diagnostics>>
      PROVE  RemoteInv'
  <2>1. /\ feeds' \in [Feeds -> RemoteStates] /\ closings' \subseteq Feeds
        /\ \A t \in Feeds : feeds'[t] = IF t = s THEN "closed" ELSE feeds[t]
        /\ closings' = closings \cup {s}
    BY <1>1, RemoteStreamCloses
  <2>2. RemoteStreams'
    BY <1>1, <2>1, RemoteStreamsMove DEF RemoteInv, RemoteStreams
  <2> QED
    BY <1>1, <2>1, <2>2, RemoteStreamsOnly
<1>2. ASSUME NEW s \in Feeds, Remote!Evicted(s)
      PROVE  RemoteInv'
  <2>1. /\ feeds' \in [Feeds -> RemoteStates] /\ closings' \subseteq Feeds
        /\ \A t \in Feeds : feeds'[t] = IF t = s THEN "gone" ELSE feeds[t]
        /\ closings' = closings
    BY <1>2 DEF Remote!Evicted, RemoteInv, RemoteTypes, RemoteStates
  <2>2. RemoteStreams'
    BY <1>2, <2>1, RemoteStreamsMove DEF Remote!Evicted, RemoteInv, RemoteStreams
  <2> QED
    BY <1>2, <2>1, <2>2, RemoteStreamsOnly DEF Remote!Evicted
<1> QED
  BY <1>1, <1>2 DEF Remote!Probe, Remote!Ends

LEMMA RemoteOpenRdpKeeps == ASSUME RemoteInv, NEW a, NEW d \in Scopes, Remote!OpenRdp(a, d) PROVE RemoteInv'
<1>1. CASE Remote!Noted(d, scopeOf) /\ UNCHANGED <<clients, feeds, closings, uses>>
  <2>1. RemoteScoped'
    BY <1>1, RemoteNotedKeeps DEF RemoteInv
  <2>2. RemoteNumbered'
    BY RemoteTargetsStill DEF Remote!OpenRdp, RemoteInv
  <2>3. RemoteTypes' /\ RemoteStreams' /\ RemoteListed' /\ RemoteUsed'
    BY <1>1
       DEF Remote!OpenRdp, RemoteInv, RemoteTypes, RemoteStreams, RemoteHeld, RemoteListed,
           RemoteSessions, RemoteUsed
  <2> QED
    BY <2>1, <2>2, <2>3 DEF RemoteInv
<1>2. ASSUME NEW s \in Feeds, feeds[s] = "new", Remote!Noted(d, scopeOf), Remote!Abandoned(s),
             UNCHANGED <<clients, uses>>
      PROVE  RemoteInv'
  <2>1. RemoteScoped'
    BY <1>2, RemoteNotedKeeps DEF RemoteInv
  <2>2. RemoteNumbered'
    BY RemoteTargetsStill DEF Remote!OpenRdp, RemoteInv
  <2>3. /\ feeds' \in [Feeds -> RemoteStates] /\ closings' \subseteq Feeds
        /\ \A t \in Feeds : feeds'[t] = IF t = s THEN "closed" ELSE feeds[t]
        /\ closings' = closings \cup {s}
    BY <1>2, RemoteStreamCloses DEF Remote!Abandoned
  <2>4. RemoteStreams'
    BY <1>2, <2>3, RemoteStreamsMove DEF RemoteInv, RemoteStreams
  <2>5. RemoteTypes' /\ RemoteListed' /\ RemoteUsed'
    BY <1>2, <2>3 DEF Remote!OpenRdp, RemoteInv, RemoteTypes, RemoteListed, RemoteSessions, RemoteUsed
  <2> QED
    BY <2>1, <2>2, <2>4, <2>5 DEF RemoteInv
<1>3. ASSUME a \in remoteTargets["rdp"], NEW s \in Feeds, feeds[s] = "new",
             Remote!Noted(d, Remote!Put(scopeOf, s, d)), Remote!Opened(s),
                    clients' = [clients EXCEPT !["rdp"] = Remote!Put(@, s, a)],
                    uses' = Remote!Put(uses, s, d), closings' = closings
      PROVE  RemoteInv'
  <2>1. RemoteScoped'
    BY <1>3, RemoteNotedKeeps DEF RemoteInv
  <2>2. RemoteNumbered'
    BY RemoteTargetsStill DEF Remote!OpenRdp, RemoteInv
  <2>3. /\ RemoteListed' /\ DOMAIN clients'["rdp"] = DOMAIN clients["rdp"] \cup {s}
        /\ clients'["vnc"] = clients["vnc"]
    BY <1>3, RemoteSessionAdded, RemoteTwo DEF Remote!OpenRdp, RemoteInv
  <2>4. /\ feeds' \in [Feeds -> RemoteStates]
        /\ \A t \in Feeds : feeds'[t] = IF t = s THEN "open" ELSE feeds[t]
    BY <1>3 DEF Remote!Opened, RemoteInv, RemoteTypes, RemoteStates
  <2>5. RemoteStreams'
    BY <1>3, <2>3, <2>4 DEF RemoteInv, RemoteStreams, RemoteHeld
  <2>6. DOMAIN uses' = DOMAIN uses \cup {s} /\ \A t \in DOMAIN uses' : uses'[t] \in Scopes
    BY <1>3 DEF Remote!Put, RemoteInv, RemoteUsed
  <2>7. RemoteTypes' /\ RemoteUsed'
    BY <1>3, <2>3, <2>4, <2>6 DEF Remote!OpenRdp, RemoteInv, RemoteTypes, RemoteUsed
  <2> QED
    BY <2>1, <2>2, <2>3, <2>5, <2>7 DEF RemoteInv
<1> QED
  BY <1>1, <1>2, <1>3 DEF Remote!OpenRdp

LEMMA RemoteOpenVncKeeps == ASSUME RemoteInv, NEW a, Remote!OpenVnc(a) PROVE RemoteInv'
<1> PICK s \in Feeds :
      /\ feeds[s] = "new" /\ Remote!Opened(s)
      /\ clients' = [clients EXCEPT !["vnc"] = Remote!Put(@, s, a)]
  BY DEF Remote!OpenVnc
<1>1. RemoteScoped' /\ RemoteNumbered'
  BY RemoteTargetsStill, RemoteScopesStill DEF Remote!OpenVnc, Remote!diagnostics, RemoteInv
<1>2. /\ RemoteListed' /\ DOMAIN clients'["vnc"] = DOMAIN clients["vnc"] \cup {s}
      /\ clients'["rdp"] = clients["rdp"]
  BY RemoteSessionAdded, RemoteTwo DEF Remote!OpenVnc, RemoteInv
<1>3. /\ feeds' \in [Feeds -> RemoteStates]
      /\ \A t \in Feeds : feeds'[t] = IF t = s THEN "open" ELSE feeds[t]
  BY DEF Remote!Opened, RemoteInv, RemoteTypes, RemoteStates
<1>4. RemoteStreams'
  BY <1>2, <1>3 DEF Remote!OpenVnc, RemoteInv, RemoteStreams, RemoteHeld
<1>5. RemoteTypes' /\ RemoteUsed'
  BY <1>2, <1>3 DEF Remote!OpenVnc, Remote!diagnostics, RemoteInv, RemoteTypes, RemoteUsed
<1> QED
  BY <1>1, <1>2, <1>4, <1>5 DEF RemoteInv

\* A stream that is shut, or was already over.
LEMMA RemoteStreamShuts ==
  ASSUME RemoteInv, NEW s \in Feeds, Remote!Shut(s)
  PROVE  /\ feeds' \in [Feeds -> RemoteStates] /\ closings' \subseteq Feeds
         /\ \A t \in Feeds : t # s => feeds'[t] = feeds[t]
         /\ feeds'[s] = IF feeds[s] = "open" THEN "closed" ELSE feeds[s]
         /\ closings' = IF feeds[s] = "open" THEN closings \cup {s} ELSE closings
<1>1. CASE feeds[s] = "open"
  BY <1>1, RemoteStreamCloses DEF Remote!Shut
<1>2. CASE feeds[s] # "open"
  BY <1>2 DEF Remote!Shut, RemoteInv, RemoteTypes
<1> QED
  BY <1>1, <1>2

LEMMA RemoteClosesKeep ==
  ASSUME RemoteInv, NEW s \in Feeds, Remote!CloseRdp(s) \/ Remote!CloseVnc(s)
  PROVE  RemoteInv'
<1>0. RemoteNumbered'
  BY RemoteTargetsStill DEF Remote!CloseRdp, Remote!CloseVnc, RemoteInv
<1>1. /\ feeds' \in [Feeds -> RemoteStates] /\ closings' \subseteq Feeds
      /\ \A t \in Feeds : t # s => feeds'[t] = feeds[t]
      /\ feeds'[s] = IF feeds[s] = "open" THEN "closed" ELSE feeds[s]
      /\ closings' = IF feeds[s] = "open" THEN closings \cup {s} ELSE closings
  BY RemoteStreamShuts DEF Remote!CloseRdp, Remote!CloseVnc
<1>2. CASE Remote!CloseRdp(s)
  <2>1. /\ RemoteListed' /\ DOMAIN clients'["rdp"] = DOMAIN clients["rdp"] \ {s}
        /\ clients'["vnc"] = clients["vnc"]
    BY <1>2, RemoteSessionDropped, RemoteTwo DEF Remote!CloseRdp, RemoteInv
  <2>2. RemoteStreams'
    BY <1>1, <1>2, <2>1 DEF Remote!CloseRdp, RemoteInv, RemoteTypes, RemoteStreams, RemoteHeld
  <2>3. DOMAIN uses' = DOMAIN uses \ {s} /\ \A t \in DOMAIN uses' : uses'[t] \in Scopes
    BY <1>2 DEF Remote!CloseRdp, Remote!Cut, RemoteInv, RemoteUsed
  <2>4. uses[s] \in Scopes
    BY <1>2 DEF Remote!CloseRdp, RemoteInv, RemoteUsed
  <2>5. RemoteScoped'
    BY <1>2, <2>4, RemoteNotedKeeps DEF Remote!CloseRdp, RemoteInv
  <2>6. RemoteTypes' /\ RemoteUsed'
    BY <1>1, <1>2, <2>1, <2>3 DEF Remote!CloseRdp, RemoteInv, RemoteTypes, RemoteUsed
  <2> QED
    BY <1>0, <2>1, <2>2, <2>5, <2>6 DEF RemoteInv
<1>3. CASE Remote!CloseVnc(s)
  <2>1. /\ RemoteListed' /\ DOMAIN clients'["vnc"] = DOMAIN clients["vnc"] \ {s}
        /\ clients'["rdp"] = clients["rdp"]
    BY <1>3, RemoteSessionDropped, RemoteTwo DEF Remote!CloseVnc, RemoteInv
  <2>2. RemoteStreams'
    BY <1>1, <1>3, <2>1 DEF Remote!CloseVnc, RemoteInv, RemoteTypes, RemoteStreams, RemoteHeld
  <2>3. RemoteScoped'
    BY <1>3, RemoteScopesStill DEF Remote!CloseVnc, Remote!diagnostics, RemoteInv
  <2>4. RemoteTypes' /\ RemoteUsed'
    BY <1>1, <1>3, <2>1 DEF Remote!CloseVnc, Remote!diagnostics, RemoteInv, RemoteTypes, RemoteUsed
  <2> QED
    BY <1>0, <2>1, <2>2, <2>3, <2>4 DEF RemoteInv
<1> QED
  BY <1>2, <1>3

LEMMA RemoteEventKeeps == ASSUME RemoteInv, NEW s \in Feeds, Remote!Event(s) PROVE RemoteInv'
<1>1. RemoteNumbered' /\ feeds' = feeds /\ closings' = closings \ {s} /\ s \in closings
  BY RemoteTargetsStill DEF Remote!Event, RemoteInv
<1>2. CASE UNCHANGED <<clients, Remote!diagnostics>>
  <2>1. RemoteStreams'
    BY <1>1, <1>2, RemoteStreamsMove DEF RemoteInv, RemoteTypes, RemoteStreams
  <2> QED
    BY <1>1, <1>2, <2>1, RemoteStreamsOnly DEF Remote!Event, RemoteInv, RemoteTypes
<1>3. CASE /\ active
           /\ clients' = [k \in Remote!Protocols |-> Remote!Cut(clients[k], {s})]
           /\ uses' = Remote!Cut(uses, {s})
           /\ IF s \in DOMAIN uses THEN Remote!Noted(uses[s], scopeOf) ELSE UNCHANGED <<scopes, scopeOf>>
  <2>1. \A k \in Remote!Protocols : clients'[k] = Remote!Cut(clients[k], {s})
    BY <1>3
  <2>2. \A k \in Remote!Protocols : RemoteSessions(k)' /\ DOMAIN clients'[k] = DOMAIN clients[k] \ {s}
    BY <2>1, RemoteSessionCut DEF Remote!Event, RemoteInv
  <2>3. RemoteListed'
    BY <1>3, <2>2 DEF RemoteListed
  <2>4. RemoteStreams'
    BY <1>1, <2>2, RemoteTwo DEF RemoteInv, RemoteTypes, RemoteStreams, RemoteHeld
  <2>5. DOMAIN uses' = DOMAIN uses \ {s} /\ \A t \in DOMAIN uses' : uses'[t] \in Scopes
    BY <1>3 DEF Remote!Cut, RemoteInv, RemoteUsed
  <2>6. RemoteScoped'
    BY <1>3, RemoteNotedKeeps, RemoteScopesStill DEF RemoteInv, RemoteUsed
  <2>7. RemoteTypes' /\ RemoteUsed'
    BY <1>1, <2>2, <2>5, RemoteTwo DEF Remote!Event, RemoteInv, RemoteTypes, RemoteUsed
  <2> QED
    BY <1>1, <2>3, <2>4, <2>6, <2>7 DEF RemoteInv
<1> QED
  BY <1>2, <1>3 DEF Remote!Event

LEMMA RemoteShutdownKeeps == ASSUME RemoteInv, Remote!Shutdown PROVE RemoteInv'
<1>1. DOMAIN clients'["rdp"] = {} /\ DOMAIN clients'["vnc"] = {} /\ DOMAIN clients' = Remote!Protocols
  BY RemoteTwo DEF Remote!Shutdown
<1>2. \A k \in Remote!Protocols : DOMAIN clients'[k] = {}
  BY <1>1 DEF Remote!Protocols
<1>3. RemoteListed'
  BY <1>1, <1>2, FS_EmptySet, RemoteBounds DEF Remote!RemoteAssumption, RemoteListed, RemoteSessions
<1>4. RemoteTypes' /\ RemoteStreams'
  BY <1>1 DEF Remote!Shutdown, RemoteInv, RemoteTypes, RemoteStates, RemoteStreams, RemoteHeld
<1>5. RemoteNumbered'
  BY RemoteTargetsStill DEF Remote!Shutdown, RemoteInv
<1>6. RemoteScoped'
  BY RemoteBounds DEF Remote!RemoteAssumption, Remote!Shutdown, RemoteScoped, RemoteDistinct
<1>7. RemoteUsed'
  BY <1>1 DEF Remote!Shutdown, RemoteUsed
<1> QED
  BY <1>3, <1>4, <1>5, <1>6, <1>7 DEF RemoteInv

LEMMA RemoteKeeps == RemoteInv /\ [Remote!Next]_(Remote!remoteVars) => RemoteInv'
<1> SUFFICES ASSUME RemoteInv, [Remote!Next]_(Remote!remoteVars) PROVE RemoteInv'
  OBVIOUS
<1>1. ASSUME NEW k \in Remote!Protocols, NEW a, Remote!Save(k) \/ Remote!Delete(k, a)
      PROVE  RemoteInv'
  BY <1>1, RemoteSaveKeeps, RemoteDeleteKeeps
<1>2. ASSUME NEW a, Remote!OpenVnc(a) \/ \E d \in Scopes : Remote!OpenRdp(a, d)
      PROVE  RemoteInv'
  BY <1>2, RemoteOpenVncKeeps, RemoteOpenRdpKeeps
<1>3. CASE Remote!Shutdown
  BY <1>3, RemoteShutdownKeeps
<1>4. CASE Remote!Probe \/ \E s \in Feeds : Remote!Ends(s) \/ Remote!Evicted(s)
  BY <1>4, RemoteStreamStepsKeep
<1>5. ASSUME NEW s \in Feeds, Remote!CloseRdp(s) \/ Remote!CloseVnc(s) \/ Remote!Event(s)
      PROVE  RemoteInv'
  BY <1>5, RemoteClosesKeep, RemoteEventKeeps
<1>6. CASE UNCHANGED Remote!remoteVars
  <2>1. RemoteStreams'
    BY <1>6 DEF Remote!remoteVars, RemoteInv, RemoteStreams, RemoteHeld
  <2> QED
    BY <1>6, <2>1, RemoteStreamsOnly DEF Remote!remoteVars, Remote!diagnostics, RemoteInv, RemoteTypes
<1> QED
  BY <1>1, <1>2, <1>3, <1>4, <1>5, <1>6 DEF Remote!Next

LEMMA RemoteInvariance == Remote!Spec => []RemoteInv
BY RemoteStarts, RemoteKeeps, PTL DEF Remote!Spec

\* Targets, clients, streams and scopes keep their types.
THEOREM RemoteTypeCorrect == Remote!Spec => []Remote!TypeOK
<1>1. ASSUME RemoteInv PROVE Remote!TypeOK
  <2>1. RemoteTypes /\ RemoteNumbered /\ RemoteListed /\ RemoteScoped /\ RemoteUsed
    BY <1>1 DEF RemoteInv
  <2>2. \A k \in Remote!Protocols :
          /\ remoteTargets[k] \subseteq 1..created[k] /\ created[k] \in 0..MaxTargets
          /\ DOMAIN clients[k] \subseteq Feeds /\ Cardinality(DOMAIN clients[k]) <= MaxClients
    BY <2>1 DEF RemoteNumbered, RemoteListed, RemoteSessions
  <2>3. Range(scopes) \subseteq Scopes
    BY <2>1 DEF RemoteScoped, Range
  <2>4. IsInjective(scopes)
    BY <2>1 DEF RemoteScoped, RemoteDistinct, IsInjective
  <2> QED
    BY <2>1, <2>2, <2>3, <2>4, RemoteCardinality, RemoteRange, RemoteIsInjective
       DEF RemoteTypes, RemoteStates, RemoteScoped, RemoteUsed, Remote!TypeOK
<1> QED
  BY <1>1, RemoteInvariance, PTL

\* plugins/remote: each open stream belongs to exactly one session, on a
\* stored target, and the scope a finished session's diagnostics are looked up
\* under is one that is kept.
THEOREM RemoteStaysTidy == Remote!Spec => [](Remote!StreamsAreSessions /\ Remote!DiagnosticsAreKept)
<1>1. ASSUME RemoteInv PROVE Remote!StreamsAreSessions /\ Remote!DiagnosticsAreKept
  <2>1. ASSUME NEW s \in Feeds, feeds[s] = "open"
        PROVE  Cardinality({k \in Remote!Protocols : s \in DOMAIN clients[k]}) = 1
    <3>1. CASE s \in DOMAIN clients["rdp"]
      <4>1. {k \in Remote!Protocols : s \in DOMAIN clients[k]} = {"rdp"}
        BY <1>1, <3>1 DEF RemoteInv, RemoteStreams, Remote!Protocols
      <4> QED
        BY <4>1, FS_Singleton
    <3>2. CASE s \in DOMAIN clients["vnc"]
      <4>1. {k \in Remote!Protocols : s \in DOMAIN clients[k]} = {"vnc"}
        BY <1>1, <3>2 DEF RemoteInv, RemoteStreams, Remote!Protocols
      <4> QED
        BY <4>1, FS_Singleton
    <3> QED
      BY <1>1, <2>1, <3>1, <3>2 DEF RemoteInv, RemoteStreams, RemoteHeld
  <2>2. \A k \in Remote!Protocols : \A s \in DOMAIN clients[k] : clients[k][s] \in remoteTargets[k]
    BY <1>1 DEF RemoteInv, RemoteListed, RemoteSessions
  <2> QED
    BY <1>1, <2>1, <2>2, RemoteCardinality, RemoteRange
       DEF RemoteInv, RemoteScoped, Remote!StreamsAreSessions, Remote!DiagnosticsAreKept
<1> QED
  BY <1>1, RemoteInvariance, PTL


-----------------------------------------------------------------------------
(***************************************************************************)
(* Proofs about the Docker plugin: requests leave the containers of other  *)
(* directories alone, a legacy project appears whole or not at all, and    *)
(* every open terminal is known.                                           *)
(***************************************************************************)

\* The constants of the component are as it assumes.
LEMMA DockerBounds == Docker!LegacyAssumption
  BY BrowserAssumption

DockerCommands == {"up", "start", "stop", "down"}
DockerOnOne == {"c.start", "c.stop", "c.delete"}
DockerCalls == [op : DockerCommands \cup DockerOnOne \cup {"create", "delete"}, name : Names,
                seen : SUBSET Docker!Labels, own : SUBSET (Docker!Folders \cup {Docker!Origin}), shared : BOOLEAN]
DockerHeld == Docker!Contents \cup {Docker!Absent}
DockerFiles == [Docker!Folders -> [Names -> DockerHeld]]
DockerStatus == {"none", "stopped", "running"}
DockerContainers == [Names -> [Docker!Labels -> DockerStatus]]

DockerTypes ==
  /\ phase \in {"down", "migrating", "up"} /\ starts \in 0..MaxStarts
  /\ todo \subseteq Legacy
  /\ settings \in Docker!Folders /\ folder \in Docker!Folders
  /\ files \in DockerFiles /\ docker \in DockerContainers /\ available \in BOOLEAN
  /\ phase = "up" => folder = settings

DockerStagedKept == staged = Docker!Nothing \/ staged \in [name : Names, has : Docker!Contents]

\* While a request is in progress its check still says what the command relies
\* on: the project's own directory is compared, and of the containers it knew
\* none is left, or one of its own was among them; of a container's request
\* the container is the project's own.
DockerCallKept ==
  \/ call = Docker!Free
  \/ /\ call \in DockerCalls /\ phase = "up"
     /\ call.op \in DockerCommands => folder \in call.own /\ (call.seen = {} \/ call.shared)
     /\ call.op \in DockerOnOne => \A l \in call.seen : l[2] \in call.own

DockerShellsKept == known \subseteq Shells /\ open \subseteq known

DockerInv == DockerTypes /\ DockerStagedKept /\ DockerCallKept /\ DockerShellsKept

LEMMA DockerFoldersAre == Docker!Workspace \in Docker!Folders /\ External \subseteq Docker!Folders
BY DEF Docker!Folders

LEMMA DockerWrote ==
  ASSUME NEW F \in DockerFiles, NEW f \in Docker!Folders, NEW n \in Names, NEW has \in DockerHeld
  PROVE  [F EXCEPT ![f][n] = has] \in DockerFiles
<1>1. F[f] \in [Names -> DockerHeld]
  BY DEF DockerFiles
<1>2. [F[f] EXCEPT ![n] = has] \in [Names -> DockerHeld]
  BY <1>1
<1> QED
  BY <1>2 DEF DockerFiles

LEMMA DockerLabelsAre ==
  /\ \A f \in Docker!Folders \cup {Docker!Origin, "other"} : <<f, f>> \in Docker!Labels
  /\ \A f \in Docker!Folders : <<f, Docker!Origin>> \in Docker!Labels
BY DEF Docker!Labels

LEMMA DockerOwnIs ==
  ASSUME DockerTypes, NEW n
  PROVE  /\ Docker!OwnLabel(n) \in Docker!Labels /\ Docker!OwnLabel(n)[1] = folder
         /\ folder \in Docker!Directories(n) /\ Docker!Directories(n) \subseteq Docker!Folders \cup {Docker!Origin}
BY DockerLabelsAre DEF Docker!OwnLabel, Docker!Directories, DockerTypes, Docker!Origin

LEMMA DockerStarts == Docker!Init => DockerInv
<1> SUFFICES ASSUME Docker!Init PROVE DockerInv
  OBVIOUS
<1>1. files \in DockerFiles
  <2>1. Docker!Absent \in DockerHeld /\ {} \in DockerHeld /\ {"compose"} \in DockerHeld
    BY DEF DockerHeld, Docker!Contents
  <2>2. CASE files \in [Docker!Folders -> [Names -> {Docker!Absent}]]
    BY <2>1, <2>2 DEF DockerFiles
  <2>3. CASE \E has \in {{}, {"compose"}} :
               files = [f \in Docker!Folders |-> [m \in Names |-> IF f \in External THEN has ELSE Docker!Absent]]
    BY <2>1, <2>3 DEF DockerFiles
  <2> QED
    BY <2>2, <2>3 DEF Docker!Init
<1>2. docker \in DockerContainers
  BY DEF Docker!Init, DockerContainers, DockerStatus
<1>3. DockerTypes
  BY <1>1, <1>2, DockerBounds DEF Docker!Init, DockerTypes, Docker!LegacyAssumption
<1> QED
  BY <1>3 DEF Docker!Init, DockerInv, DockerStagedKept, DockerCallKept, DockerShellsKept

\* A step that leaves the requests alone.
LEMMA DockerCallStill ==
  ASSUME DockerCallKept, UNCHANGED <<call, folder>>, phase = "up" => phase' = "up"
  PROVE  DockerCallKept'
BY DEF DockerCallKept

LEMMA DockerNoCall == ASSUME DockerCallKept, phase # "up" \/ call = Docker!Free PROVE call = Docker!Free
BY DEF DockerCallKept

LEMMA DockerStartsKeep ==
  ASSUME DockerInv, \/ Docker!Boot \/ Docker!CopyControlFiles \/ Docker!MarkOrigin \/ Docker!MigrationFails \/ Docker!Load \/ Docker!Rename
                    \/ Docker!Shutdown \/ Docker!Crash \/ Docker!DockerSwitched
                    \/ \E n \in Names : Docker!Skip(n) \/ Docker!Stage(n)
                    \/ \E f \in External : Docker!SetFolder(f)
  PROVE  DockerInv'
<1>1. CASE Docker!Boot
  BY <1>1, DockerNoCall, DockerBounds
     DEF Docker!Boot, DockerInv, DockerTypes, DockerStagedKept, DockerCallKept, DockerShellsKept,
         Docker!LegacyAssumption
<1>2. CASE Docker!CopyControlFiles
  <2>1. staged' \in [name : Names, has : Docker!Contents]
    BY <1>2 DEF Docker!CopyControlFiles, DockerInv, DockerStagedKept, Docker!Contents
  <2> QED
    BY <1>2, <2>1, DockerCallStill
       DEF Docker!CopyControlFiles, DockerInv, DockerTypes, DockerStagedKept, DockerShellsKept
<1>3. CASE Docker!MarkOrigin
  <2>1. staged # Docker!Nothing
    <3>1. "compose" \in staged.has /\ "compose" \notin Docker!Nothing.has
      BY <1>3 DEF Docker!MarkOrigin, Docker!Nothing
    <3> QED
      BY <3>1
  <2>2. staged' \in [name : Names, has : Docker!Contents]
    BY <1>3, <2>1 DEF Docker!MarkOrigin, DockerInv, DockerStagedKept, Docker!Contents
  <2> QED
    BY <1>3, <2>2, DockerCallStill
       DEF Docker!MarkOrigin, DockerInv, DockerTypes, DockerStagedKept, DockerShellsKept
<1>4. CASE Docker!MigrationFails
  BY <1>4, DockerCallStill
     DEF Docker!MigrationFails, DockerInv, DockerTypes, DockerStagedKept, DockerShellsKept
<1>5. CASE Docker!Load
  BY <1>5, DockerNoCall
     DEF Docker!Load, DockerInv, DockerTypes, DockerStagedKept, DockerCallKept, DockerShellsKept
<1>6. CASE Docker!Rename
  <2>1. staged # Docker!Nothing
    <3>1. "compose" \in staged.has /\ "compose" \notin Docker!Nothing.has
      BY <1>6 DEF Docker!Rename, Docker!Nothing
    <3> QED
      BY <3>1
  <2>2. staged.name \in Names /\ staged.has \in DockerHeld
    BY <2>1 DEF DockerInv, DockerStagedKept, DockerHeld
  <2>3. files' \in DockerFiles
    BY <1>6, <2>2, DockerWrote, DockerFoldersAre DEF Docker!Rename, DockerInv, DockerTypes
  <2> QED
    BY <1>6, <2>3, DockerCallStill
       DEF Docker!Rename, DockerInv, DockerTypes, DockerStagedKept, DockerShellsKept
<1>7. CASE Docker!Shutdown
  BY <1>7, DockerNoCall
     DEF Docker!Shutdown, DockerInv, DockerTypes, DockerStagedKept, DockerCallKept, DockerShellsKept
<1>8. CASE Docker!Crash
  BY <1>8 DEF Docker!Crash, DockerInv, DockerTypes, DockerStagedKept, DockerCallKept, DockerShellsKept
<1>9. CASE Docker!DockerSwitched
  BY <1>9, DockerCallStill
     DEF Docker!DockerSwitched, DockerInv, DockerTypes, DockerStagedKept, DockerShellsKept
<1>10. ASSUME NEW n \in Names, Docker!Skip(n) PROVE DockerInv'
  BY <1>10, DockerCallStill DEF Docker!Skip, DockerInv, DockerTypes, DockerStagedKept, DockerShellsKept
<1>11. ASSUME NEW n \in Names, Docker!Stage(n) PROVE DockerInv'
  <2>1. staged' \in [name : Names, has : Docker!Contents]
    BY <1>11 DEF Docker!Stage, Docker!Contents
  <2> QED
    BY <1>11, <2>1, DockerCallStill
       DEF Docker!Stage, DockerInv, DockerTypes, DockerStagedKept, DockerShellsKept
<1>12. ASSUME NEW f \in External, Docker!SetFolder(f) PROVE DockerInv'
  BY <1>12, DockerNoCall, DockerFoldersAre
     DEF Docker!SetFolder, Docker!Idle, DockerInv, DockerTypes, DockerStagedKept, DockerCallKept,
         DockerShellsKept
<1> QED
  BY <1>1, <1>2, <1>3, <1>4, <1>5, <1>6, <1>7, <1>8, <1>9, <1>10, <1>11, <1>12

LEMMA DockerOtherToolKeeps == ASSUME DockerInv, NEW n \in Names, Docker!OtherTool(n) PROVE DockerInv'
<1>1. docker' \in DockerContainers
  <2> PICK d \in {Docker!Origin, "other"}, s \in {"none", "stopped", "running"} :
        docker' = [docker EXCEPT ![n][<<d, d>>] = s]
    BY DEF Docker!OtherTool
  <2>1. <<d, d>> \in Docker!Labels /\ docker[n] \in [Docker!Labels -> DockerStatus]
    BY DockerLabelsAre DEF DockerInv, DockerTypes, DockerContainers
  <2>2. [docker[n] EXCEPT ![<<d, d>>] = s] \in [Docker!Labels -> DockerStatus]
    BY <2>1 DEF DockerStatus
  <2> QED
    BY <2>2 DEF DockerInv, DockerTypes, DockerContainers
<1>2. DockerCallKept'
  <2>1. CASE call = Docker!Free
    BY <2>1 DEF Docker!OtherTool, Docker!Free, DockerCallKept
  <2>2. CASE call \in DockerCalls
    <3>1. PICK S : S \subseteq call.seen /\ call' = [call EXCEPT !.seen = S]
      <4>1. call.op # ""
        BY <2>2 DEF DockerCalls, DockerCommands, DockerOnOne
      <4> QED
        BY <4>1 DEF Docker!OtherTool
    <3>2. /\ call' \in DockerCalls /\ call'.op = call.op /\ call'.own = call.own
          /\ call'.seen = S /\ call'.shared = call.shared
      BY <2>2, <3>1 DEF DockerCalls
    <3>3. call.op # "" /\ Docker!Free.op = ""
      BY <2>2 DEF Docker!Free, DockerCalls, DockerCommands, DockerOnOne
    <3> QED
      BY <3>1, <3>2, <3>3 DEF Docker!OtherTool, DockerInv, DockerCallKept
  <2> QED
    BY <2>1, <2>2 DEF DockerInv, DockerCallKept
<1> QED
  BY <1>1, <1>2 DEF Docker!OtherTool, DockerInv, DockerTypes, DockerStagedKept, DockerShellsKept

DockerOps == DockerCommands \cup DockerOnOne \cup {"create", "delete"}

LEMMA DockerPresentAre == \A n : Docker!Present(n) \subseteq Docker!Labels
BY DEF Docker!Present

LEMMA DockerOpsApart ==
  /\ DockerCommands \cap DockerOnOne = {} /\ "create" \notin DockerCommands \cup DockerOnOne
  /\ "delete" \notin DockerCommands \cup DockerOnOne
  /\ DockerCommands \subseteq DockerOps /\ DockerOnOne \subseteq DockerOps /\ "create" \in DockerOps /\ "delete" \in DockerOps
BY DEF DockerCommands, DockerOnOne, DockerOps

\* A check leaves everything but the request.
LEMMA DockerCheckKeeps ==
  ASSUME DockerInv, DockerCallKept',
         UNCHANGED <<phase, starts, todo, staged, settings, folder, files, docker, available,
                     known, open>>
  PROVE  DockerInv'
BY DEF DockerInv, DockerTypes, DockerStagedKept, DockerShellsKept

LEMMA DockerChecksKeep ==
  ASSUME DockerInv, NEW n \in Names,
         \/ Docker!CreateChecked(n) \/ Docker!DeleteChecked(n) \/ Docker!ActionChecked(n)
         \/ \E l \in Docker!Labels : Docker!ContainerChecked(n, l)
  PROVE  DockerInv'
<1> DEFINE own == Docker!Directories(n)
<1>0. own \subseteq Docker!Folders \cup {Docker!Origin} /\ folder \in own /\ folder \in Docker!Folders
      /\ Docker!Present(n) \subseteq Docker!Labels
  BY DockerOwnIs, DockerPresentAre DEF DockerInv, DockerTypes
<1>1. CASE Docker!CreateChecked(n)
  <2>1. call' = Docker!Asked("create", n, Docker!Present(n), {folder}) /\ phase' = "up"
    BY <1>1 DEF Docker!CreateChecked, Docker!Idle
  <2>2. call' \in DockerCalls /\ call'.op = "create"
    <3>1. {folder} \subseteq Docker!Folders \cup {Docker!Origin}
      BY <1>0
    <3> QED
      BY <1>0, <2>1, <3>1, DockerOpsApart DEF Docker!Asked, DockerCalls, DockerOps
  <2>3. DockerCallKept'
    BY <2>1, <2>2, DockerOpsApart DEF DockerCallKept
  <2> QED
    BY <1>1, <2>3, DockerCheckKeeps DEF Docker!CreateChecked
<1>2. CASE Docker!DeleteChecked(n)
  <2>1. call' = Docker!Asked("delete", n, Docker!Present(n), own) /\ phase' = "up"
    BY <1>2 DEF Docker!DeleteChecked, Docker!Checked, Docker!Idle
  <2> HIDE DEF own
  <2>2. call' \in DockerCalls /\ call'.op = "delete"
    BY <1>0, <2>1, DockerOpsApart DEF Docker!Asked, DockerCalls, DockerOps
  <2>3. DockerCallKept'
    BY <2>1, <2>2, DockerOpsApart DEF DockerCallKept
  <2> QED
    BY <1>2, <2>3, DockerCheckKeeps DEF Docker!DeleteChecked
<1>3. CASE Docker!ActionChecked(n)
  <2>0. PICK op \in DockerCommands : call' = Docker!Asked(op, n, Docker!Present(n), own)
    BY <1>3 DEF Docker!ActionChecked, Docker!Checked, DockerCommands
  <2>1. /\ phase' = "up" /\ folder' = folder
        /\ Docker!Present(n) = {} \/ \E l \in Docker!Present(n) : l[1] \in own
    BY <1>3 DEF Docker!ActionChecked, Docker!Idle, Docker!Owned
  <2> HIDE DEF own
  <2>2. /\ call' \in DockerCalls /\ call'.op = op /\ call'.seen = Docker!Present(n) /\ call'.own = own
        /\ call'.shared = \E l \in Docker!Present(n) : l[1] \in own
    BY <1>0, <2>0, DockerOpsApart DEF Docker!Asked, DockerCalls, DockerOps
  <2>3. DockerCallKept'
    BY <1>0, <2>1, <2>2, DockerOpsApart DEF DockerCallKept
  <2> QED
    BY <1>3, <2>3, DockerCheckKeeps DEF Docker!ActionChecked
<1>4. ASSUME NEW l \in Docker!Labels, Docker!ContainerChecked(n, l) PROVE DockerInv'
  <2>0. PICK op \in DockerOnOne : call' = Docker!Asked(op, n, {l}, own)
    BY <1>4 DEF Docker!ContainerChecked, DockerOnOne
  <2>1. phase' = "up" /\ l[2] \in own
    BY <1>4 DEF Docker!ContainerChecked, Docker!Idle, Docker!Manages
  <2> HIDE DEF own
  <2>2. call' \in DockerCalls /\ call'.op = op /\ call'.seen = {l} /\ call'.own = own
    <3>1. {l} \subseteq Docker!Labels
      BY <1>4
    <3> QED
      BY <1>0, <2>0, <3>1, DockerOpsApart DEF Docker!Asked, DockerCalls, DockerOps
  <2>3. DockerCallKept'
    BY <2>1, <2>2, DockerOpsApart DEF DockerCallKept
  <2> QED
    BY <1>4, <2>3, DockerCheckKeeps DEF Docker!ContainerChecked
<1> QED
  BY <1>1, <1>2, <1>3, <1>4

\* The end of a request.
LEMMA DockerEndKeeps ==
  ASSUME DockerInv, call' = Docker!Free, files' \in DockerFiles, docker' \in DockerContainers,
         UNCHANGED <<phase, starts, todo, staged, settings, folder, available, known, open>>
  PROVE  DockerInv'
BY DEF DockerInv, DockerTypes, DockerStagedKept, DockerShellsKept, DockerCallKept

LEMMA DockerCallNamed == ASSUME DockerCallKept, call.op # "" PROVE call \in DockerCalls /\ call.name \in Names
<1>1. Docker!Free.op = ""
  BY DEF Docker!Free
<1>2. call \in DockerCalls
  BY <1>1 DEF DockerCallKept
<1> QED
  BY <1>2 DEF DockerCalls

LEMMA DockerFileStepsKeep ==
  ASSUME DockerInv, Docker!Create \/ Docker!Delete \/ \E n \in Names : Docker!SetFile(n)
  PROVE  DockerInv'
<1>1. CASE Docker!Create
  <2>1. PICK has \in {Docker!Absent, {}, {"compose"}} : files' = [files EXCEPT ![folder][call.name] = has]
    BY <1>1 DEF Docker!Create
  <2>2. has \in DockerHeld /\ call.name \in Names
    BY <1>1, DockerCallNamed DEF Docker!Create, DockerInv, DockerHeld, Docker!Contents
  <2>3. files' \in DockerFiles
    BY <2>1, <2>2, DockerWrote DEF DockerInv, DockerTypes
  <2> QED
    BY <1>1, <2>3, DockerEndKeeps DEF Docker!Create, DockerInv, DockerTypes
<1>2. CASE Docker!Delete
  <2>1. PICK has \in {Docker!Absent} \cup SUBSET files[folder][call.name] :
               files' = [files EXCEPT ![folder][call.name] = has]
    BY <1>2 DEF Docker!Delete
  <2>2. call.name \in Names /\ call.op # ""
    BY <1>2, DockerCallNamed DEF Docker!Delete, DockerInv
  <2>3. files[folder][call.name] \in DockerHeld
    BY <2>2 DEF DockerInv, DockerTypes, DockerFiles
  <2>4. has \in DockerHeld \/ has \subseteq Docker!Absent
    BY <2>1, <2>3 DEF DockerHeld, Docker!Contents
  <2>5. has \in DockerHeld
    BY <2>4 DEF DockerHeld, Docker!Contents, Docker!Absent
  <2>6. files' \in DockerFiles
    BY <2>1, <2>2, <2>5, DockerWrote DEF DockerInv, DockerTypes
  <2> QED
    BY <1>2, <2>6, DockerEndKeeps DEF Docker!Delete, DockerInv, DockerTypes
<1>3. ASSUME NEW n \in Names, Docker!SetFile(n) PROVE DockerInv'
  <2>1. files[folder][n] \in Docker!Contents /\ folder \in Docker!Folders
    BY <1>3 DEF Docker!SetFile, Docker!Exists, DockerInv, DockerTypes, DockerFiles, DockerHeld
  <2>2. files[folder][n] \cup {"compose"} \in DockerHeld
    BY <2>1 DEF DockerHeld, Docker!Contents
  <2>3. files' = [files EXCEPT ![folder][n] = files[folder][n] \cup {"compose"}]
    BY <1>3, <2>1 DEF Docker!SetFile, DockerInv, DockerTypes, DockerFiles
  <2>4. files' \in DockerFiles
    BY <2>1, <2>2, <2>3, DockerWrote DEF DockerInv, DockerTypes
  <2> QED
    BY <1>3, <2>4, DockerEndKeeps, DockerNoCall DEF Docker!SetFile, Docker!Idle, DockerInv, DockerTypes
<1> QED
  BY <1>1, <1>2, <1>3

LEMMA DockerAfterIs ==
  ASSUME NEW op, NEW s \in DockerStatus PROVE Docker!After(op, s) \in DockerStatus
BY DEF Docker!After, DockerStatus

LEMMA DockerDockerStepsKeep == ASSUME DockerInv, Docker!Compose \/ Docker!Container PROVE DockerInv'
<1>1. CASE Docker!Compose
  <2>1. call.name \in Names
    BY <1>1, DockerCallNamed DEF Docker!Compose, DockerInv
  <2>2. docker[call.name] \in [Docker!Labels -> DockerStatus]
    BY <2>1 DEF DockerInv, DockerTypes, DockerContainers
  <2>3. PICK reached :
          docker' = [docker EXCEPT ![call.name] =
                      [l \in Docker!Labels |-> IF l \in reached THEN Docker!After(call.op, @[l]) ELSE @[l]]]
    BY <1>1 DEF Docker!Compose
  <2>4. [l \in Docker!Labels |-> IF l \in reached THEN Docker!After(call.op, docker[call.name][l])
                                ELSE docker[call.name][l]] \in [Docker!Labels -> DockerStatus]
    BY <2>2, DockerAfterIs
  <2>5. docker' \in DockerContainers
    BY <2>1, <2>3, <2>4 DEF DockerInv, DockerTypes, DockerContainers
  <2> QED
    BY <1>1, <2>5, DockerEndKeeps DEF Docker!Compose, DockerInv, DockerTypes
<1>2. CASE Docker!Container
  <2>1. CASE docker' = docker
    BY <1>2, <2>1, DockerEndKeeps DEF Docker!Container, DockerInv, DockerTypes
  <2>2. ASSUME NEW l \in call.seen,
               docker' = [docker EXCEPT ![call.name][l] =
                            CASE call.op = "c.start" -> "running"
                              [] call.op = "c.stop" -> "stopped"
                              [] OTHER -> "none"]
        PROVE  docker' \in DockerContainers
    <3>1. call \in DockerCalls /\ call.name \in Names
      BY <1>2, DockerCallNamed DEF Docker!Container, DockerInv
    <3>2. docker[call.name] \in [Docker!Labels -> DockerStatus] /\ l \in Docker!Labels
      BY <2>2, <3>1 DEF DockerInv, DockerTypes, DockerContainers, DockerCalls
    <3> DEFINE s == CASE call.op = "c.start" -> "running"
                      [] call.op = "c.stop" -> "stopped"
                      [] OTHER -> "none"
    <3>3. s \in DockerStatus
      BY DEF DockerStatus
    <3>4. docker' = [docker EXCEPT ![call.name][l] = s]
      BY <2>2
    <3> HIDE DEF s
    <3>5. [docker[call.name] EXCEPT ![l] = s] \in [Docker!Labels -> DockerStatus]
      BY <3>2, <3>3
    <3> QED
      BY <3>1, <3>4, <3>5 DEF DockerInv, DockerTypes, DockerContainers
  <2> QED
    BY <1>2, <2>1, <2>2, DockerEndKeeps DEF Docker!Container, DockerInv, DockerTypes
<1> QED
  BY <1>1, <1>2

LEMMA DockerTerminalsKeep ==
  ASSUME DockerInv, NEW s \in Shells, (\E n : Docker!TerminalOpen(n, s)) \/ Docker!TerminalClose(s) \/ Docker!ShellEnds(s)
  PROVE  DockerInv'
<1>1. DockerShellsKept'
  BY DEF Docker!TerminalOpen, Docker!TerminalClose, Docker!ShellEnds, DockerInv, DockerShellsKept
<1>2. UNCHANGED <<phase, starts, todo, staged, settings, folder, files, docker, available, call>>
  BY DEF Docker!TerminalOpen, Docker!TerminalClose, Docker!ShellEnds
<1> QED
  BY <1>1, <1>2, DockerCallStill DEF DockerInv, DockerTypes, DockerStagedKept

LEMMA DockerKeeps == DockerInv /\ [Docker!Next]_(Docker!dockerVars) => DockerInv'
<1> SUFFICES ASSUME DockerInv, [Docker!Next]_(Docker!dockerVars) PROVE DockerInv'
  OBVIOUS
<1>1. CASE UNCHANGED Docker!dockerVars
  BY <1>1, DockerCallStill
     DEF Docker!dockerVars, DockerInv, DockerTypes, DockerStagedKept, DockerShellsKept
<1>2. CASE Docker!Next
  <2>1. ASSUME \/ Docker!Boot \/ Docker!CopyControlFiles \/ Docker!MarkOrigin \/ Docker!Rename \/ Docker!MigrationFails \/ Docker!Load
               \/ Docker!Shutdown \/ Docker!Crash \/ Docker!DockerSwitched
        PROVE  DockerInv'
    BY <2>1, DockerStartsKeep
  <2>2. ASSUME Docker!Create \/ Docker!Delete \/ Docker!Compose \/ Docker!Container PROVE DockerInv'
    BY <2>2, DockerFileStepsKeep, DockerDockerStepsKeep
  <2>3. ASSUME NEW n \in Names,
               \/ Docker!Skip(n) \/ Docker!Stage(n) \/ Docker!OtherTool(n) \/ Docker!SetFile(n)
               \/ Docker!CreateChecked(n) \/ Docker!DeleteChecked(n) \/ Docker!ActionChecked(n)
               \/ \E l \in Docker!Labels : Docker!ContainerChecked(n, l)
        PROVE  DockerInv'
    BY <2>3, DockerStartsKeep, DockerOtherToolKeeps, DockerFileStepsKeep, DockerChecksKeep
  <2>4. ASSUME NEW s \in Shells, (\E n \in Names : Docker!TerminalOpen(n, s)) \/ Docker!TerminalClose(s) \/ Docker!ShellEnds(s)
        PROVE  DockerInv'
    BY <2>4, DockerTerminalsKeep
  <2>5. ASSUME NEW f \in External, Docker!SetFolder(f) PROVE DockerInv'
    BY <2>5, DockerStartsKeep
  <2> QED
    BY <1>2, <2>1, <2>2, <2>3, <2>4, <2>5 DEF Docker!Next
<1> QED
  BY <1>1, <1>2

LEMMA DockerInvariance == Docker!Spec => []DockerInv
BY DockerStarts, DockerKeeps, PTL DEF Docker!Spec

\* Folders, projects, containers and terminals keep their types.
THEOREM DockerTypeCorrect == Docker!Spec => []Docker!TypeOK
<1>1. ASSUME DockerInv PROVE Docker!TypeOK
  <2>1. staged.name \in Names \cup {""} /\ staged.has \in Docker!Contents
    <3>1. Docker!Nothing.name = "" /\ Docker!Nothing.has = {} /\ {} \in Docker!Contents
      BY DEF Docker!Nothing, Docker!Contents
    <3> QED
      BY <1>1, <3>1 DEF DockerInv, DockerStagedKept
  <2> QED
    BY <1>1, <2>1
       DEF DockerInv, DockerTypes, DockerShellsKept, Docker!TypeOK, DockerFiles, DockerHeld,
           DockerContainers, DockerStatus
<1> QED
  BY <1>1, DockerInvariance, PTL

\* terminals.go: a terminal that is open is known to the plugin, so that it
\* can be closed.
THEOREM DockerShellsStayKnown == Docker!Spec => []Docker!ShellsKnown
<1>1. DockerInv => Docker!ShellsKnown
  BY DEF DockerInv, DockerShellsKept, Docker!ShellsKnown
<1> QED
  BY <1>1, DockerInvariance, PTL

LEMMA DockerNotFree == ASSUME call.op # "" PROVE call # Docker!Free
<1>1. Docker!Free.op = ""
  BY DEF Docker!Free
<1> QED
  BY <1>1

\* OthersLeftAlone.
LEMMA DockerOthersStay ==
  ASSUME DockerInv, Docker!Next, NEW n \in Names, NEW l \in Docker!Labels,
         docker'[n][l] # docker[n][l], call.op # "", call' = Docker!Free
  PROVE  l[1] \in call.own \/ l[2] \in call.own \/ l \notin call.seen \/ call.shared
<1>1. CASE Docker!Compose
  <2>1. PICK reached \in SUBSET (Docker!Present(call.name) \cup {Docker!OwnLabel(call.name)}) :
          docker' = [docker EXCEPT ![call.name] =
                      [m \in Docker!Labels |-> IF m \in reached THEN Docker!After(call.op, @[m]) ELSE @[m]]]
    BY <1>1 DEF Docker!Compose
  <2>2. call \in DockerCalls /\ call.op \in DockerCommands
    BY <1>1, DockerCallNamed DEF Docker!Compose, DockerCommands, DockerInv
  <2>3. /\ folder \in call.own /\ (call.seen = {} \/ call.shared)
    BY <2>2, DockerNotFree DEF DockerInv, DockerCallKept
  <2> QED
    BY <2>3
<1>2. CASE Docker!Container
  <2>1. PICK m \in call.seen : \E s : docker' = [docker EXCEPT ![call.name][m] = s]
    BY <1>2 DEF Docker!Container
  <2>2. n = call.name /\ l = m
    BY <2>1 DEF DockerInv, DockerTypes, DockerContainers
  <2>3. call \in DockerCalls /\ call.op \in DockerOnOne
    BY <1>2, DockerCallNamed DEF Docker!Container, DockerOnOne, DockerInv
  <2>4. l[2] \in call.own
    BY <2>1, <2>2, <2>3, DockerNotFree DEF DockerInv, DockerCallKept
  <2> QED
    BY <2>4
<1>3. CASE \E m \in Names : Docker!OtherTool(m)
  <2>1. call'.op = call.op /\ Docker!Free.op = ""
    <3>1. PICK m \in Names : Docker!OtherTool(m)
      BY <1>3
    <3>2. PICK S : call' = [call EXCEPT !.seen = S]
      BY <3>1 DEF Docker!OtherTool
    <3>3. call \in DockerCalls
      BY DockerCallNamed DEF DockerInv
    <3> QED
      BY <3>2, <3>3 DEF DockerCalls, Docker!Free
  <2> QED
    BY <2>1
<1>4. CASE docker' = docker
  BY <1>4
<1> QED
  BY <1>1, <1>2, <1>3, <1>4
     DEF Docker!Next, Docker!Boot, Docker!CopyControlFiles, Docker!MarkOrigin, Docker!Rename,
         Docker!MigrationFails, Docker!Load, Docker!Shutdown, Docker!Crash, Docker!DockerSwitched,
         Docker!Create, Docker!Delete, Docker!Skip, Docker!Stage, Docker!SetFile, Docker!CreateChecked,
         Docker!DeleteChecked, Docker!ActionChecked, Docker!ContainerChecked, Docker!TerminalOpen,
         Docker!TerminalClose, Docker!ShellEnds, Docker!SetFolder

\* projects.go checkProjectOwnership, managedContainer: a request changes only
\* containers that are the project's own, came after its check, or share the
\* name with some of its own.
THEOREM DockerOthersStayAlone == Docker!Spec => Docker!OthersLeftAlone
<1>1. DockerInv /\ [Docker!Next]_(Docker!dockerVars) =>
        [\A n \in Names, l \in Docker!Labels :
           docker'[n][l] # docker[n][l] /\ call.op # "" /\ call' = Docker!Free =>
             l[1] \in call.own \/ l[2] \in call.own \/ l \notin call.seen \/ call.shared]_(Docker!dockerVars)
  BY DockerOthersStay DEF Docker!dockerVars
<1> QED
  BY <1>1, DockerInvariance, PTL DEF Docker!Spec, Docker!OthersLeftAlone

LEMMA DockerWholeOnly ==
  ASSUME DockerInv, Docker!Next, NEW n \in Names, phase = "migrating",
         files'[Docker!Workspace][n] # files[Docker!Workspace][n]
  PROVE  files'[Docker!Workspace][n] = {"compose", "origin"}
<1>1. CASE Docker!Rename
  <2>1. files' = [files EXCEPT ![Docker!Workspace][staged.name] = {"compose", "origin"}]
    BY <1>1 DEF Docker!Rename
  <2>2. files[Docker!Workspace] \in [Names -> DockerHeld] /\ DOMAIN files = Docker!Folders
    BY DockerFoldersAre DEF DockerInv, DockerTypes, DockerFiles
  <2> QED
    BY <2>1, <2>2, DockerFoldersAre
<1>2. CASE files' = files
  BY <1>2
<1> QED
  BY <1>1, <1>2
     DEF Docker!Next, Docker!Boot, Docker!CopyControlFiles, Docker!MarkOrigin, Docker!MigrationFails,
         Docker!Load, Docker!Shutdown, Docker!Crash, Docker!DockerSwitched, Docker!Create,
         Docker!Delete, Docker!Compose, Docker!Container, Docker!Idle, Docker!Skip, Docker!Stage,
         Docker!OtherTool, Docker!SetFile, Docker!CreateChecked, Docker!DeleteChecked,
         Docker!ActionChecked, Docker!ContainerChecked, Docker!TerminalOpen, Docker!TerminalClose,
         Docker!ShellEnds, Docker!SetFolder

\* docker_migration.go: a legacy project appears in the workspace with its
\* Compose file and the note where it came from, or not at all, wherever the
\* migration stops.
THEOREM DockerMigrationIsWhole == Docker!Spec => Docker!MigratedWhole
<1>1. DockerInv /\ [Docker!Next]_(Docker!dockerVars) =>
        [\A n \in Names :
           phase = "migrating" /\ files'[Docker!Workspace][n] # files[Docker!Workspace][n] =>
             files'[Docker!Workspace][n] = {"compose", "origin"}]_(Docker!dockerVars)
  BY DockerWholeOnly DEF Docker!dockerVars
<1> QED
  BY <1>1, DockerInvariance, PTL DEF Docker!Spec, Docker!MigratedWhole


-----------------------------------------------------------------------------
(***************************************************************************)
(* Proofs about the server's Compose manager: its files and locks outlive  *)
(* requests that overlap and commands that fail.                           *)
(***************************************************************************)

ComposeOps == Compose!Actions \cup {"none", "create", "write", "delete", "container"}
ComposePlaces == {"idle", "asked", "checked", "running", "ending", "made", "down", "kept"}
ComposeRequestRecords == [op : ComposeOps, project : Projects \cup {"none"}, at : ComposePlaces]

\* A request that holds the lock of its project.
ComposeHolding == {"running", "ending", "down", "kept"}
ComposeHolds(r) == command[r].at \in ComposeHolding

ComposeFormed(r) ==
  /\ command[r].at # "idle" => command[r].project \in Projects
  /\ command[r].at \in {"running", "ending"} => command[r].op \in Compose!Actions
  /\ command[r].at \in {"down", "kept"} => command[r].op = "delete"

ComposeTypes ==
  /\ dir \in [Projects -> {"none", "empty", "compose"}]
  /\ containers \in [Projects -> {"none", "stopped", "running"}]
  /\ outside \subseteq Projects /\ busy \subseteq Projects
  /\ command \in [Clients -> ComposeRequestRecords]
  /\ \A r \in Clients : ComposeFormed(r)

LEMMA ComposeTypesAre == ComposeTypes => Compose!TypeOK
BY DEF ComposeTypes, Compose!TypeOK, ComposeRequestRecords, ComposeOps, ComposePlaces

\* A project is busy with exactly one request.
ComposeLockKept ==
  /\ \A r \in Clients : ComposeHolds(r) => command[r].project \in busy
  /\ \A r, q \in Clients : ComposeHolds(r) /\ ComposeHolds(q) /\ command[r].project = command[q].project => r = q
  /\ \A p \in busy : \E r \in Clients : ComposeHolds(r) /\ command[r].project = p

\* What runs has its Compose file, and what a delete found to be down stays so,
\* but for what other tools bring up.
ComposeOursKept == \A p \in Projects : containers[p] # "none" /\ p \notin outside => dir[p] = "compose"
ComposeWorkKept ==
  \A r \in Clients :
    /\ command[r].at = "running" => dir[command[r].project] = "compose"
    /\ command[r].at = "down" => containers[command[r].project] = "none" \/ command[r].project \in outside

ComposeInv == ComposeTypes /\ ComposeLockKept /\ ComposeOursKept /\ ComposeWorkKept

LEMMA ComposeRequestRecord ==
  ASSUME NEW r \in ComposeRequestRecords, NEW at \in ComposePlaces, NEW n, n = [r EXCEPT !.at = at]
  PROVE  n \in ComposeRequestRecords /\ n.at = at /\ n.op = r.op /\ n.project = r.project
BY DEF ComposeRequestRecords

LEMMA ComposeIdleRecord == Compose!Idle \in ComposeRequestRecords /\ Compose!Idle.at = "idle"
BY DEF Compose!Idle, ComposeRequestRecords, ComposeOps, ComposePlaces

\* A request that moves.
LEMMA ComposeGoesTo ==
  ASSUME ComposeTypes, NEW r \in Clients, NEW at \in ComposePlaces, Compose!Goes(r, at)
  PROVE  /\ command' \in [Clients -> ComposeRequestRecords]
         /\ command'[r].at = at /\ command'[r].op = command[r].op /\ command'[r].project = command[r].project
         /\ \A q \in Clients \ {r} : command'[q] = command[q]
<1>1. PICK n : n = [command[r] EXCEPT !.at = at]
  OBVIOUS
<1>2. command' = [command EXCEPT ![r] = n]
  BY <1>1 DEF Compose!Goes
<1>3. n \in ComposeRequestRecords /\ n.at = at /\ n.op = command[r].op /\ n.project = command[r].project
  BY <1>1, ComposeRequestRecord DEF ComposeTypes
<1>. QED
  BY <1>2, <1>3 DEF ComposeTypes

LEMMA ComposeAnsweredTo ==
  ASSUME ComposeTypes, NEW r \in Clients, Compose!Answered(r)
  PROVE  /\ command' \in [Clients -> ComposeRequestRecords] /\ command'[r].at = "idle"
         /\ \A q \in Clients \ {r} : command'[q] = command[q]
BY ComposeIdleRecord DEF ComposeTypes, Compose!Answered

\* Every request but r stays where it is, and so does r's lock.
LEMMA ComposeLockStill ==
  ASSUME ComposeLockKept, NEW r \in Clients, \A q \in Clients \ {r} : command'[q] = command[q],
         ~ComposeHolds(r), ~ComposeHolds(r)', busy' = busy
  PROVE  ComposeLockKept'
<1>1. \A q \in Clients : ComposeHolds(q)' => q # r /\ ComposeHolds(q) /\ command'[q] = command[q]
  BY DEF ComposeHolds
<1>2. \A q \in Clients : ComposeHolds(q) => ComposeHolds(q)' /\ command'[q] = command[q]
  BY DEF ComposeHolds
<1>. QED
  BY <1>1, <1>2 DEF ComposeLockKept

LEMMA ComposeLockTaken ==
  ASSUME ComposeLockKept, NEW r \in Clients, \A q \in Clients \ {r} : command'[q] = command[q],
         ~ComposeHolds(r), ComposeHolds(r)', command'[r].project = command[r].project, Compose!Acquire(command[r].project)
  PROVE  ComposeLockKept'
<1>1. \A q \in Clients \ {r} : (ComposeHolds(q)' <=> ComposeHolds(q)) /\ command'[q] = command[q]
  BY DEF ComposeHolds
<1>2. command[r].project \notin busy /\ busy' = busy \cup {command[r].project}
  BY DEF Compose!Acquire
<1>3. \A q \in Clients : ComposeHolds(q) => q # r /\ command[q].project # command[r].project
  BY <1>2 DEF ComposeLockKept
<1>. QED
  BY <1>1, <1>2, <1>3 DEF ComposeLockKept

LEMMA ComposeLockReleased ==
  ASSUME ComposeLockKept, NEW r \in Clients, \A q \in Clients \ {r} : command'[q] = command[q],
         ComposeHolds(r), ~ComposeHolds(r)', Compose!Release(command[r].project)
  PROVE  ComposeLockKept'
<1>1. \A q \in Clients \ {r} : (ComposeHolds(q)' <=> ComposeHolds(q)) /\ command'[q] = command[q]
  BY DEF ComposeHolds
<1>2. busy' = busy \ {command[r].project}
  BY DEF Compose!Release
<1>3. \A q \in Clients \ {r} : ComposeHolds(q) => command[q].project # command[r].project
  BY DEF ComposeLockKept
<1>. QED
  BY <1>1, <1>2, <1>3 DEF ComposeLockKept

\* The files of projects and their containers are those of before.
LEMMA ComposeWorkStill ==
  ASSUME ComposeOursKept, ComposeWorkKept, UNCHANGED <<dir, containers, outside>>, NEW r \in Clients,
         \A q \in Clients \ {r} : command'[q] = command[q],
         command'[r].at = "running" => dir[command'[r].project] = "compose",
         command'[r].at = "down" => containers[command'[r].project] = "none"
  PROVE  ComposeOursKept' /\ ComposeWorkKept'
BY DEF ComposeOursKept, ComposeWorkKept

\* Asking, looking and being refused.
LEMMA ComposeAskSteps ==
  ASSUME ComposeInv, NEW r \in Clients,
         \/ \E op \in Compose!Actions \cup {"create", "write", "delete", "container"}, p \in Projects : Compose!Ask(r, op, p)
         \/ Compose!Refuse(r) \/ Compose!Check(r) \/ Compose!Busy(r)
  PROVE  ComposeInv'
<1>0. ComposeTypes /\ ComposeLockKept /\ ComposeOursKept /\ ComposeWorkKept /\ ComposeFormed(r)
  BY DEF ComposeInv, ComposeTypes
<1>1. ASSUME command' \in [Clients -> ComposeRequestRecords], \A q \in Clients \ {r} : command'[q] = command[q],
             command'[r].at \in {"idle", "asked", "checked"}, ~ComposeHolds(r), ComposeFormed(r)',
             UNCHANGED <<dir, containers, outside, busy>>
      PROVE  ComposeInv'
  <2>1. ComposeLockKept' /\ ComposeOursKept' /\ ComposeWorkKept'
    BY <1>0, <1>1, ComposeLockStill, ComposeWorkStill DEF ComposeHolds, ComposeHolding
  <2>2. \A q \in Clients : ComposeFormed(q)'
    BY <1>0, <1>1 DEF ComposeFormed, ComposeTypes
  <2>. QED
    BY <1>0, <1>1, <2>1, <2>2 DEF ComposeInv, ComposeTypes
<1>2. ASSUME NEW op \in Compose!Actions \cup {"create", "write", "delete", "container"}, NEW p \in Projects, Compose!Ask(r, op, p)
      PROVE  ComposeInv'
  <2>1. PICK n \in ComposeRequestRecords : n.at = "asked" /\ n.project = p /\ command' = [command EXCEPT ![r] = n]
    <3>1. [op |-> op, project |-> p, at |-> "asked"] \in ComposeRequestRecords
      BY DEF ComposeRequestRecords, ComposeOps, ComposePlaces
    <3>. QED
      BY <1>2, <3>1 DEF Compose!Ask
  <2>2. ~ComposeHolds(r)
    BY <1>2, ComposeIdleRecord DEF Compose!Ask, ComposeHolds, ComposeHolding
  <2>. QED
    BY <1>0, <1>1, <1>2, <2>1, <2>2 DEF Compose!Ask, ComposeTypes, ComposeFormed
<1>3. CASE Compose!Refuse(r)
  BY <1>0, <1>1, <1>3, ComposeAnsweredTo DEF Compose!Refuse, ComposeHolds, ComposeHolding, ComposeFormed
<1>4. CASE Compose!Check(r)
  <2>1. command[r].at = "asked" /\ Compose!Goes(r, "checked") /\ UNCHANGED <<dir, containers, outside, busy>>
    BY <1>4 DEF Compose!Check
  <2>2. /\ command' \in [Clients -> ComposeRequestRecords] /\ \A q \in Clients \ {r} : command'[q] = command[q]
        /\ command'[r].at = "checked" /\ command'[r].project = command[r].project
    BY <1>0, <2>1, ComposeGoesTo DEF ComposePlaces
  <2>. QED
    BY <1>0, <1>1, <2>1, <2>2 DEF ComposeHolds, ComposeHolding, ComposeFormed
<1>5. CASE Compose!Busy(r)
  BY <1>0, <1>1, <1>5, ComposeAnsweredTo DEF Compose!Busy, ComposeHolds, ComposeHolding, ComposeFormed
<1>. QED
  BY <1>2, <1>3, <1>4, <1>5

\* Commands and what they do to containers.
LEMMA ComposeChangedTyped ==
  ASSUME ComposeTypes, NEW p \in Projects, NEW is \in {"none", "stopped", "running"}, Compose!Changed(p, is)
  PROVE  /\ containers' \in [Projects -> {"none", "stopped", "running"}] /\ outside' \subseteq Projects
         /\ containers'[p] = is /\ \A q \in Projects \ {p} : containers'[q] = containers[q]
         /\ is = "none" \/ outside' = outside
         /\ \A q \in Projects \ {p} : q \in outside' <=> q \in outside
BY DEF ComposeTypes, Compose!Changed

LEMMA ComposeCommandSteps ==
  ASSUME ComposeInv, NEW r \in Clients, Compose!Start(r) \/ Compose!Works(r) \/ Compose!Ends(r) PROVE ComposeInv'
<1>0. ComposeTypes /\ ComposeLockKept /\ ComposeOursKept /\ ComposeWorkKept /\ ComposeFormed(r) /\ \A q \in Clients : ComposeFormed(q)
  BY DEF ComposeInv, ComposeTypes
<1>1. CASE Compose!Start(r)
  <2>1. PICK at \in {"running", "ending"} :
          Compose!Goes(r, at) /\ (at = "running" => dir[command[r].project] = "compose")
    BY <1>1 DEF Compose!Start
  <2>2. /\ command[r].op \in Compose!Actions /\ command[r].at = "checked" /\ Compose!Acquire(command[r].project)
        /\ UNCHANGED <<dir, containers, outside>>
    BY <1>1 DEF Compose!Start
  <2>3. /\ command' \in [Clients -> ComposeRequestRecords] /\ \A q \in Clients \ {r} : command'[q] = command[q]
        /\ command'[r].at = at /\ command'[r].project = command[r].project /\ command'[r].op = command[r].op
    BY <1>0, <2>1, ComposeGoesTo DEF ComposePlaces
  <2>4. ComposeLockKept'
    BY <1>0, <2>1, <2>2, <2>3, ComposeLockTaken DEF ComposeHolds, ComposeHolding
  <2>5. ComposeOursKept' /\ ComposeWorkKept'
    BY <1>0, <2>1, <2>2, <2>3, ComposeWorkStill
  <2>6. \A q \in Clients : ComposeFormed(q)'
    BY <1>0, <2>1, <2>2, <2>3 DEF ComposeFormed
  <2>7. busy' \subseteq Projects
    BY <1>0, <2>2 DEF ComposeFormed, ComposeTypes, Compose!Acquire
  <2>. QED
    BY <1>0, <2>2, <2>3, <2>4, <2>5, <2>6, <2>7 DEF ComposeInv, ComposeTypes
<1>2. CASE Compose!Works(r)
  <2>. DEFINE p == command[r].project
  <2>1. /\ command[r].at = "running" /\ UNCHANGED <<dir, busy, command>>
        /\ command[r].op \in Compose!Actions /\ p \in Projects /\ dir[p] = "compose"
    BY <1>0, <1>2 DEF Compose!Works, ComposeFormed, ComposeWorkKept
  <2>2. PICK is \in Compose!Effects(command[r].op, containers[p]) : Compose!Changed(p, is)
    BY <1>2 DEF Compose!Works
  <2>3. is \in {"none", "stopped", "running"}
    BY <2>1 DEF Compose!Effects, Compose!Actions
  <2>4. /\ containers' \in [Projects -> {"none", "stopped", "running"}] /\ outside' \subseteq Projects
        /\ \A q \in Projects \ {p} : containers'[q] = containers[q]
        /\ \A q \in Projects \ {p} : q \in outside' <=> q \in outside
    BY <1>0, <2>1, <2>2, <2>3, ComposeChangedTyped
  <2>5. ComposeOursKept'
    BY <1>0, <2>1, <2>4 DEF ComposeOursKept
  <2>6. ASSUME NEW q \in Clients, command[q].at = "down" PROVE command[q].project # p
    BY <1>0, <2>1, <2>6 DEF ComposeLockKept, ComposeHolds, ComposeHolding
  <2>7. ComposeWorkKept'
    <3>1. \A q \in Clients : command[q].at = "down" => command[q].project \in Projects \ {p}
      BY <1>0, <2>6 DEF ComposeFormed
    <3>. QED
      BY <1>0, <2>1, <2>4, <3>1 DEF ComposeWorkKept
  <2>8. ComposeLockKept' /\ \A q \in Clients : ComposeFormed(q)'
    BY <1>0, <2>1 DEF ComposeLockKept, ComposeHolds, ComposeFormed
  <2>. QED
    BY <1>0, <2>1, <2>4, <2>5, <2>7, <2>8 DEF ComposeInv, ComposeTypes
<1>3. CASE Compose!Ends(r)
  <2>1. /\ command[r].at \in {"running", "ending"} /\ Compose!Release(command[r].project) /\ Compose!Answered(r)
        /\ UNCHANGED <<dir, containers, outside>>
    BY <1>3 DEF Compose!Ends
  <2>2. /\ command' \in [Clients -> ComposeRequestRecords] /\ \A q \in Clients \ {r} : command'[q] = command[q]
        /\ command'[r].at = "idle"
    BY <1>0, <2>1, ComposeAnsweredTo
  <2>3. ComposeLockKept'
    BY <1>0, <2>1, <2>2, ComposeLockReleased DEF ComposeHolds, ComposeHolding
  <2>4. ComposeOursKept' /\ ComposeWorkKept'
    BY <1>0, <2>1, <2>2, ComposeWorkStill
  <2>5. \A q \in Clients : ComposeFormed(q)'
    BY <1>0, <2>2 DEF ComposeFormed
  <2>. QED
    BY <1>0, <2>1, <2>2, <2>3, <2>4, <2>5 DEF ComposeInv, ComposeTypes, Compose!Release
<1>. QED
  BY <1>1, <1>2, <1>3

LEMMA ComposeContainerStep ==
  ASSUME ComposeInv, NEW r \in Clients, Compose!Container(r) PROVE ComposeInv'
<1>0. ComposeTypes /\ ComposeLockKept /\ ComposeOursKept /\ ComposeWorkKept /\ ComposeFormed(r) /\ \A q \in Clients : ComposeFormed(q)
  BY DEF ComposeInv, ComposeTypes
<1>. DEFINE p == command[r].project
<1>1. /\ command[r].at = "checked" /\ Compose!Answered(r) /\ UNCHANGED <<dir, busy>> /\ p \in Projects
  BY <1>0 DEF Compose!Container, Compose!At, ComposeFormed
<1>2. PICK is \in {"none", "stopped", "running"} : Compose!Changed(p, is) /\ containers[p] # "none"
  BY DEF Compose!Container
<1>3. /\ command' \in [Clients -> ComposeRequestRecords] /\ \A q \in Clients \ {r} : command'[q] = command[q]
      /\ command'[r].at = "idle"
  BY <1>0, <1>1, ComposeAnsweredTo
<1>4. /\ containers' \in [Projects -> {"none", "stopped", "running"}] /\ outside' \subseteq Projects
      /\ containers'[p] = is /\ \A q \in Projects \ {p} : containers'[q] = containers[q]
      /\ is = "none" \/ outside' = outside
      /\ \A q \in Projects \ {p} : q \in outside' <=> q \in outside
  BY <1>0, <1>1, <1>2, ComposeChangedTyped
<1>5. ComposeLockKept'
  BY <1>0, <1>1, <1>3, ComposeLockStill DEF ComposeHolds, ComposeHolding
<1>6. ComposeOursKept'
  <2>. SUFFICES ASSUME NEW q \in Projects, containers'[q] # "none", q \notin outside' PROVE dir'[q] = "compose"
    BY DEF ComposeOursKept
  <2>1. containers[q] # "none" /\ q \notin outside
    BY <1>2, <1>4
  <2>. QED
    BY <1>0, <1>1, <2>1 DEF ComposeOursKept
<1>7. ComposeWorkKept'
  <2>. SUFFICES ASSUME NEW q \in Clients
                PROVE  /\ command'[q].at = "running" => dir'[command'[q].project] = "compose"
                       /\ command'[q].at = "down" => \/ containers'[command'[q].project] = "none"
                                                     \/ command'[q].project \in outside'
    BY DEF ComposeWorkKept
  <2>1. CASE q = r
    BY <1>3, <2>1
  <2>2. CASE q # r /\ command[q].at = "down"
    <3>1. command[q].project \in Projects /\ command'[q] = command[q]
      BY <1>0, <1>3, <2>2 DEF ComposeFormed
    <3>2. containers[command[q].project] = "none" \/ command[q].project \in outside
      BY <1>0, <2>2 DEF ComposeWorkKept
    <3>. QED
      BY <1>2, <1>4, <2>2, <3>1, <3>2
  <2>3. CASE q # r /\ command[q].at # "down"
    BY <1>0, <1>1, <1>3, <2>3 DEF ComposeWorkKept
  <2>. QED
    BY <2>1, <2>2, <2>3
<1>8. \A q \in Clients : ComposeFormed(q)'
  BY <1>0, <1>3 DEF ComposeFormed
<1>. QED
  BY <1>0, <1>1, <1>3, <1>4, <1>5, <1>6, <1>7, <1>8 DEF ComposeInv, ComposeTypes

\* Steps that change the directory of a project.
LEMMA ComposeDirStill ==
  ASSUME ComposeInv, NEW r \in Clients, command[r].project \in Projects, UNCHANGED <<containers, outside>>,
         dir' \in [Projects -> {"none", "empty", "compose"}],
         \A p \in Projects \ {command[r].project} : dir'[p] = dir[p],
         \/ dir[command[r].project] = "compose" => dir'[command[r].project] = "compose"
         \/ command[r].at = "down",
         \A q \in Clients \ {r} : command'[q] = command[q],
         command'[r].at \notin {"running", "down"}
  PROVE  ComposeOursKept' /\ ComposeWorkKept'
<1>. DEFINE p == command[r].project
<1>0. ComposeTypes /\ ComposeLockKept /\ ComposeOursKept /\ ComposeWorkKept /\ \A q \in Clients : ComposeFormed(q)
  BY DEF ComposeInv, ComposeTypes
<1>1. CASE dir[p] = "compose" => dir'[p] = "compose"
  <2>1. \A q \in Projects : dir[q] = "compose" => dir'[q] = "compose"
    BY <1>1
  <2>2. \A q \in Clients : command[q].at = "running" => command[q].project \in Projects
    BY <1>0 DEF ComposeFormed
  <2>. QED
    BY <1>0, <2>1, <2>2 DEF ComposeOursKept, ComposeWorkKept
<1>2. CASE command[r].at = "down"
  <2>1. containers[p] = "none" \/ p \in outside
    BY <1>0, <1>2 DEF ComposeWorkKept
  <2>2. ComposeOursKept'
    BY <1>0, <2>1 DEF ComposeOursKept
  <2>3. \A q \in Clients \ {r} : command[q].at = "running" => command[q].project \in Projects \ {p}
    BY <1>0, <1>2 DEF ComposeLockKept, ComposeHolds, ComposeHolding, ComposeFormed
  <2>4. ComposeWorkKept'
    BY <1>0, <2>3 DEF ComposeWorkKept
  <2>. QED
    BY <2>2, <2>4
<1>. QED
  BY <1>1, <1>2

LEMMA ComposeDirSteps ==
  ASSUME ComposeInv, NEW r \in Clients, Compose!Create(r) \/ Compose!Filled(r) \/ Compose!Write(r) \/ Compose!Delete(r) \/ Compose!Remove(r) PROVE ComposeInv'
<1>0. ComposeTypes /\ ComposeLockKept /\ ComposeOursKept /\ ComposeWorkKept /\ ComposeFormed(r) /\ \A q \in Clients : ComposeFormed(q)
  BY DEF ComposeInv, ComposeTypes
<1>. DEFINE p == command[r].project
<1>1. CASE Compose!Create(r)
  <2>1. /\ command[r].at = "asked" /\ dir[p] = "none" /\ dir' = [dir EXCEPT ![p] = "empty"]
        /\ Compose!Goes(r, "made") /\ UNCHANGED <<containers, outside, busy>> /\ p \in Projects
    BY <1>0, <1>1 DEF Compose!Create, Compose!At, ComposeFormed
  <2>2. /\ command' \in [Clients -> ComposeRequestRecords] /\ \A q \in Clients \ {r} : command'[q] = command[q]
        /\ command'[r].at = "made" /\ command'[r].project = p
    BY <1>0, <2>1, ComposeGoesTo DEF ComposePlaces
  <2>3. dir' \in [Projects -> {"none", "empty", "compose"}] /\ \A q \in Projects \ {p} : dir'[q] = dir[q]
    BY <1>0, <2>1 DEF ComposeTypes
  <2>4. ComposeOursKept' /\ ComposeWorkKept'
    BY <2>1, <2>2, <2>3, ComposeDirStill
  <2>5. ComposeLockKept'
    BY <1>0, <2>1, <2>2, ComposeLockStill DEF ComposeHolds, ComposeHolding
  <2>6. \A q \in Clients : ComposeFormed(q)'
    BY <1>0, <2>1, <2>2 DEF ComposeFormed
  <2>. QED
    BY <1>0, <2>1, <2>2, <2>3, <2>4, <2>5, <2>6 DEF ComposeInv, ComposeTypes
<1>2. ASSUME command[r].at \in {"made", "checked"}, Compose!Answered(r), UNCHANGED <<containers, outside, busy>>,
             NEW is \in {"none", "empty", "compose"}, dir' = [dir EXCEPT ![p] = is],
             dir[p] = "compose" => is = "compose"
      PROVE  ComposeInv'
  <2>1. p \in Projects
    BY <1>0, <1>2 DEF ComposeFormed
  <2>2. /\ command' \in [Clients -> ComposeRequestRecords] /\ \A q \in Clients \ {r} : command'[q] = command[q]
        /\ command'[r].at = "idle"
    BY <1>0, <1>2, ComposeAnsweredTo
  <2>3. /\ dir' \in [Projects -> {"none", "empty", "compose"}] /\ \A q \in Projects \ {p} : dir'[q] = dir[q]
        /\ dir'[p] = is
    BY <1>0, <1>2, <2>1 DEF ComposeTypes
  <2>4. ComposeOursKept' /\ ComposeWorkKept'
    BY <1>2, <2>1, <2>2, <2>3, ComposeDirStill
  <2>5. ComposeLockKept'
    BY <1>0, <1>2, <2>2, ComposeLockStill DEF ComposeHolds, ComposeHolding
  <2>6. \A q \in Clients : ComposeFormed(q)'
    BY <1>0, <2>2 DEF ComposeFormed
  <2>. QED
    BY <1>0, <1>2, <2>2, <2>3, <2>4, <2>5, <2>6 DEF ComposeInv, ComposeTypes
<1>3. CASE Compose!Filled(r)
  <2>1. command[r].at = "made" /\ Compose!Answered(r) /\ UNCHANGED <<containers, outside, busy>>
    BY <1>3 DEF Compose!Filled, Compose!At
  <2>2. PICK is : dir' = [dir EXCEPT ![p] = is] /\ is \in {"none", "compose", dir[p]}
                  /\ (dir[p] = "compose" => is = "compose")
    BY <1>3 DEF Compose!Filled
  <2>3. is \in {"none", "empty", "compose"}
    <3>1. p \in Projects
      BY <1>0, <2>1 DEF ComposeFormed
    <3>. QED
      BY <1>0, <2>2, <3>1 DEF ComposeTypes
  <2>. QED
    BY <1>2, <2>1, <2>2, <2>3
<1>4. CASE Compose!Write(r)
  <2>1. command[r].at = "checked" /\ Compose!Answered(r) /\ UNCHANGED <<containers, outside, busy>>
    BY <1>4 DEF Compose!Write, Compose!At
  <2>2. PICK is \in {"none", "compose"} : dir' = [dir EXCEPT ![p] = is] /\ (dir[p] = "compose" => is = "compose")
    BY <1>4 DEF Compose!Write
  <2>. QED
    BY <1>2, <2>1, <2>2
<1>5. CASE Compose!Delete(r)
  <2>1. PICK at \in {"down", "kept"} : Compose!Goes(r, at) /\ (at = "down" => containers[p] = "none")
    BY <1>5 DEF Compose!Delete
  <2>2. /\ command[r].op = "delete" /\ command[r].at = "checked" /\ Compose!Acquire(p)
        /\ UNCHANGED <<dir, containers, outside>>
    BY <1>5 DEF Compose!Delete, Compose!At
  <2>3. /\ command' \in [Clients -> ComposeRequestRecords] /\ \A q \in Clients \ {r} : command'[q] = command[q]
        /\ command'[r].at = at /\ command'[r].project = p /\ command'[r].op = "delete"
    BY <1>0, <2>1, <2>2, ComposeGoesTo DEF ComposePlaces
  <2>4. ComposeLockKept'
    BY <1>0, <2>1, <2>2, <2>3, ComposeLockTaken DEF ComposeHolds, ComposeHolding
  <2>5. ComposeOursKept' /\ ComposeWorkKept'
    BY <1>0, <2>1, <2>2, <2>3, ComposeWorkStill
  <2>6. \A q \in Clients : ComposeFormed(q)'
    BY <1>0, <2>1, <2>2, <2>3 DEF ComposeFormed
  <2>7. busy' \subseteq Projects
    BY <1>0, <2>2 DEF ComposeFormed, ComposeTypes, Compose!Acquire
  <2>. QED
    BY <1>0, <2>2, <2>3, <2>4, <2>5, <2>6, <2>7 DEF ComposeInv, ComposeTypes
<1>6. CASE Compose!Remove(r)
  <2>1. /\ command[r].at \in {"down", "kept"} /\ Compose!Release(p) /\ Compose!Answered(r) /\ UNCHANGED <<containers, outside>>
        /\ p \in Projects
    BY <1>0, <1>6 DEF Compose!Remove, ComposeFormed
  <2>2. /\ dir' \in [Projects -> {"none", "empty", "compose"}] /\ \A q \in Projects \ {p} : dir'[q] = dir[q]
        /\ command[r].at = "down" \/ dir' = dir
    <3>1. CASE UNCHANGED dir
      BY <1>0, <3>1 DEF ComposeTypes
    <3>2. CASE command[r].at = "down" /\ \E is \in {"none", "empty"} :
             dir' = [dir EXCEPT ![p] = IF @ = "none" THEN @ ELSE is]
      BY <1>0, <3>2 DEF ComposeTypes
    <3>. QED
      BY <1>6, <3>1, <3>2 DEF Compose!Remove
  <2>3. /\ command' \in [Clients -> ComposeRequestRecords] /\ \A q \in Clients \ {r} : command'[q] = command[q]
        /\ command'[r].at = "idle"
    BY <1>0, <2>1, ComposeAnsweredTo
  <2>4. ComposeOursKept' /\ ComposeWorkKept'
    BY <2>1, <2>2, <2>3, ComposeDirStill
  <2>5. ComposeLockKept'
    BY <1>0, <2>1, <2>3, ComposeLockReleased DEF ComposeHolds, ComposeHolding
  <2>6. \A q \in Clients : ComposeFormed(q)'
    BY <1>0, <2>3 DEF ComposeFormed
  <2>. QED
    BY <1>0, <2>1, <2>2, <2>3, <2>4, <2>5, <2>6 DEF ComposeInv, ComposeTypes, Compose!Release
<1>. QED
  BY <1>1, <1>3, <1>4, <1>5, <1>6

LEMMA ComposeOtherToolStep ==
  ASSUME ComposeInv, NEW p \in Projects, Compose!OtherTool(p) PROVE ComposeInv'
<1>0. ComposeTypes /\ ComposeLockKept /\ ComposeOursKept /\ ComposeWorkKept /\ \A q \in Clients : ComposeFormed(q)
  BY DEF ComposeInv, ComposeTypes
<1>1. /\ containers' \in [Projects -> {"none", "stopped", "running"}] /\ outside' \subseteq Projects
      /\ \A q \in Projects \ {p} : containers'[q] = containers[q] /\ (q \in outside' <=> q \in outside)
      /\ containers'[p] = "none" \/ p \in outside'
      /\ UNCHANGED <<dir, busy, command>>
  <2>1. CASE containers[p] = "none" /\ outside' = outside \cup {p} /\ containers' = [containers EXCEPT ![p] = "running"]
    BY <1>0, <2>1 DEF Compose!OtherTool, ComposeTypes
  <2>2. CASE Compose!Changed(p, "none")
    BY <1>0, <2>2, ComposeChangedTyped DEF Compose!OtherTool
  <2>. QED
    BY <2>1, <2>2 DEF Compose!OtherTool
<1>2. ComposeOursKept'
  BY <1>0, <1>1 DEF ComposeOursKept
<1>3. ComposeWorkKept'
  <2>1. \A r \in Clients : command[r].at = "down" => command[r].project \in Projects
    BY <1>0 DEF ComposeFormed
  <2>. QED
    BY <1>0, <1>1, <2>1 DEF ComposeWorkKept
<1>4. ComposeLockKept' /\ \A q \in Clients : ComposeFormed(q)'
  BY <1>0, <1>1 DEF ComposeLockKept, ComposeHolds, ComposeFormed
<1>. QED
  BY <1>0, <1>1, <1>2, <1>3, <1>4 DEF ComposeInv, ComposeTypes

LEMMA ComposeInvStart == Compose!Init => ComposeInv
<1>. SUFFICES ASSUME Compose!Init PROVE ComposeInv
  OBVIOUS
<1>1. command \in [Clients -> ComposeRequestRecords] /\ \A r \in Clients : command[r].at = "idle"
  BY ComposeIdleRecord DEF Compose!Init
<1>. QED
  BY <1>1
     DEF Compose!Init, ComposeInv, ComposeTypes, ComposeFormed, ComposeLockKept, ComposeHolds,
         ComposeHolding, ComposeOursKept, ComposeWorkKept

LEMMA ComposeInvKept == ComposeInv /\ [Compose!Next]_(Compose!composeVars) => ComposeInv'
<1>1. ComposeInv /\ UNCHANGED Compose!composeVars => ComposeInv'
  BY DEF Compose!composeVars, ComposeInv, ComposeTypes, ComposeFormed, ComposeLockKept, ComposeHolds,
         ComposeOursKept, ComposeWorkKept
<1>. QED
  BY <1>1, ComposeAskSteps, ComposeCommandSteps, ComposeContainerStep, ComposeDirSteps,
     ComposeOtherToolStep
     DEF Compose!Next

LEMMA ComposeInvariance == Compose!Spec => []ComposeInv
  BY ComposeInvStart, ComposeInvKept, PTL DEF Compose!Spec

\* Directories, containers and requests keep their types.
THEOREM ComposeTypeCorrect == Compose!Spec => []Compose!TypeOK
<1>1. ComposeInv => Compose!TypeOK
  BY ComposeTypesAre DEF ComposeInv
<1>. QED
  BY <1>1, ComposeInvariance, PTL

\* dockercompose/manager.go Action, Delete, acquire: however requests overlap,
\* the directory of a project stays while RunPilot's containers of it exist,
\* and a project is busy exactly while one request works on it.
THEOREM ComposeProjectsStayKept == Compose!Spec => [](Compose!ProjectsKept /\ Compose!BusyIsHeld)
<1>1. ComposeInv => Compose!ProjectsKept
  BY DEF ComposeInv, ComposeOursKept, Compose!ProjectsKept
<1>2. ComposeInv => Compose!BusyIsHeld
  BY DEF ComposeInv, ComposeLockKept, ComposeHolds, ComposeHolding, Compose!BusyIsHeld
<1>. QED
  BY <1>1, <1>2, ComposeInvariance, PTL

-----------------------------------------------------------------------------
(* The components together. *)

\* A behaviour of the whole is one of each of its components.
LEMMA WebRuns ==
  Spec => Web!Spec
<1>1. Init => Web!Init
  BY DEF Init
<1>2. [Next]_vars => [Web!Next]_(Web!webVars)
  BY DEF Next, vars, webVars, Web!webVars, Web!store, Web!pluginTickets
<1>. QED
  BY <1>1, <1>2, PTL DEF Spec, Web!Spec

LEMMA ExchangesRuns ==
  Spec => Exchange!Spec
<1>1. Init => Exchange!Init
  BY DEF Init
<1>2. [Next]_vars => [Exchange!Next]_(Exchange!exchangeVars)
  BY DEF Next, vars, Gateway, gatewayVars, exchangeVars, Exchange!exchangeVars
<1>. QED
  BY <1>1, <1>2, PTL DEF Spec, Exchange!Spec

LEMMA ChannelsRuns ==
  Spec => Channel!Spec
<1>1. Init => Channel!Init
  BY DEF Init
<1>2. [Next]_vars => [Channel!Next]_(Channel!channelVars)
  BY DEF Next, vars, Gateway, gatewayVars, channelVars, Channel!channelVars
<1>. QED
  BY <1>1, <1>2, PTL DEF Spec, Channel!Spec

LEMMA PublicationsRuns ==
  Spec => Publishing!Spec
<1>1. Init => Publishing!Init
  BY DEF Init
<1>2. [Next]_vars => [Publishing!Next]_(Publishing!browserVars)
  BY DEF Next, vars, Gateway, gatewayVars, publicationVars, Publishing!browserVars
<1>. QED
  BY <1>1, <1>2, PTL DEF Spec, Publishing!Spec

LEMMA ApplicationSocketRuns ==
  Spec => Socket!Spec
<1>1. Init => Socket!Init
  BY DEF Init
<1>2. [Next]_vars => [Socket!Next]_(Socket!socketVars)
  BY DEF Next, vars, socketVars, Socket!socketVars
<1>. QED
  BY <1>1, <1>2, PTL DEF Spec, Socket!Spec

LEMMA AppsRuns ==
  Spec => Apps!Spec
<1>1. Init => Apps!Init
  BY DEF Init
<1>2. [Next]_vars => [Apps!Next]_(Apps!appVars)
  BY DEF Next, vars, Plugin, pluginVars, appVars, Apps!appVars
<1>. QED
  BY <1>1, <1>2, PTL DEF Spec, Apps!Spec

LEMMA TerminalRuns ==
  Spec => Terminal!Spec
<1>1. Init => Terminal!Init
  BY DEF Init
<1>2. [Next]_vars => [Terminal!Next]_(Terminal!terminalVars)
  BY DEF Next, vars, Plugin, pluginVars, terminalVars, Terminal!terminalVars
<1>. QED
  BY <1>1, <1>2, PTL DEF Spec, Terminal!Spec

LEMMA RemoteRuns ==
  Spec => Remote!Spec
<1>1. Init => Remote!Init
  BY DEF Init
<1>2. [Next]_vars => [Remote!Next]_(Remote!remoteVars)
  BY DEF Next, vars, Plugin, pluginVars, remoteVars, Remote!remoteVars
<1>. QED
  BY <1>1, <1>2, PTL DEF Spec, Remote!Spec

LEMMA DockerRuns ==
  Spec => Docker!Spec
<1>1. Init => Docker!Init
  BY DEF Init
<1>2. [Next]_vars => [Docker!Next]_(Docker!dockerVars)
  BY DEF Next, vars, Plugin, pluginVars, dockerVars, Docker!dockerVars
<1>. QED
  BY <1>1, <1>2, PTL DEF Spec, Docker!Spec

LEMMA ComposeRuns ==
  Spec => Compose!Spec
<1>1. Init => Compose!Init
  BY DEF Init
<1>2. [Next]_vars => [Compose!Next]_(Compose!composeVars)
  BY DEF Next, vars, composeVars, Compose!composeVars
<1>. QED
  BY <1>1, <1>2, PTL DEF Spec, Compose!Spec

\* Every variable of every component holds values of its type, also those of
\* the components that do not run.  What the reader of guacd's instructions
\* parses is a recursive function of its input: its types are left to TLC.
THEOREM BrowserTypesCorrect == Spec => [](part # "guacamole" => TypeOK)
<1>1. Init => part \in Parts
  BY DEF Init
<1>2. part \in Parts /\ [Next]_vars => (part \in Parts)'
  BY DEF Next, vars
<1>3. Spec => [](part \in Parts)
  BY <1>1, <1>2, PTL DEF Spec
<1>4. Web!Spec => []Web!TypeOK
  BY Web!TypeCorrect, BrowserAssumption
<1>5. /\ part \in Parts /\ Web!TypeOK /\ Publishing!TypeOK /\ Socket!TypeOK
      /\ Exchange!TypeOK /\ Channel!TypeOK /\ Apps!TypeOK /\ Terminal!TypeOK
      /\ Remote!TypeOK /\ Docker!TypeOK /\ Compose!TypeOK
      => (part # "guacamole" => TypeOK)
  BY DEF TypeOK
<1>. QED
  BY <1>3, <1>4, <1>5, WebRuns, PublicationsRuns, ApplicationSocketRuns, ExchangesRuns, ChannelsRuns,
     AppsRuns, TerminalRuns, RemoteRuns, DockerRuns, ComposeRuns,
     PublishingTypeCorrect, SocketTypeCorrect, ExchangeTypeCorrect, ChannelTypeCorrect,
     AppsTypeCorrect, TerminalTypeCorrect, RemoteTypeCorrect, DockerTypeCorrect,
     ComposeTypeCorrect, PTL

\* web/auth_sessions.go: a revoked session stays revoked and a ticket opens only
\* the socket of the session it was given to.
THEOREM BrowserSessionsKept == Spec => []WebSessionsKept
<1>1. Web!Spec => []Web!WebSessionsKept
  BY Web!WebSessionsStayKept, BrowserAssumption
<1>. QED
  BY <1>1, WebRuns, PTL DEF WebSessionsKept

\* core/browser_publication.go: a request has one publication and worker to
\* answer it, and a gateway one browser.
THEOREM BrowserPublicationsKept == Spec => []PublicationsKept
  BY PublicationsStayKept, PublicationsRuns, PTL DEF PublicationsKept

\* web/application_ws.go: frames carry the next number, answers come in order,
\* and a stream's bytes between its attachment and its end.
THEOREM BrowserSocketInOrder == Spec => []SocketInOrder
  BY SocketStaysInOrder, ApplicationSocketRuns, PTL DEF SocketInOrder

\* httpgateway/gateway.go, websocket.go and the worker of publications.js: the
\* host and its own worker never meet a broken window, a second end or a used
\* id, and keep their limits.
THEOREM BrowserGatewayWindows == Spec => []GatewayWindows
  BY ExchangeWindowsStayKept, ChannelsStayKept, ExchangesRuns, ChannelsRuns, PTL DEF GatewayWindows

\* What the plugins and the server's Compose manager own is what they list,
\* whatever fails or ends by itself, and a project is locked only while it is
\* worked on (plugins/apps, terminal, remote, docker; dockercompose/manager.go).
THEOREM BrowserPluginsTidy == Spec => []PluginsTidy
  BY AppsMountsStayNamed, TerminalShellsStayListed, RemoteStaysTidy,
     DockerShellsStayKnown, ComposeProjectsStayKept,
     AppsRuns, TerminalRuns, RemoteRuns, DockerRuns, ComposeRuns, PTL DEF PluginsTidy

\* plugins/docker projects.go, docker_migration.go: containers of other
\* directories are left alone and a legacy project appears complete or not at
\* all, in whatever order requests, moves of the folder and restarts come.
THEOREM BrowserDockerApart == Spec => DockerApart
  BY DockerOthersStayAlone, DockerMigrationIsWhole, DockerRuns, PTL DEF DockerApart
=============================================================================
