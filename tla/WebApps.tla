-------------------------------- MODULE WebApps --------------------------------
(* The Web Apps plugin: the targets it stores, the browser publication it      *)
(* keeps for every target, and the gateway sessions on them                    *)
(* (plugins/web-apps/backend/plugin.go).  A request is one step, for the       *)
(* backend is entered by one call at a time; each host call it makes may be    *)
(* refused, which is how the limits of the host and the mounts of other        *)
(* plugins appear.  The host's part is that of BrowserPublications.            *)
EXTENDS Naturals, FiniteSets, Functions, SequencesExt

CONSTANTS
  Mounts,        \* the mount paths in use, as sequences of segments
  Marks,         \* identifiers of publications
  Gates,         \* identifiers of gateways
  MaxApps,       \* bound: targets ever created
  MaxGates       \* bound: 8 sessions of the plugin, 8 gateways of an owner

AppsAssumption == MaxApps \in Nat

VARIABLES
  on,            \* the plugin is loaded
  targets,       \* storage: target id -> mount path
  nextId,        \* storage: the next target id
  named,         \* p.publications: target id -> publication
  shown,         \* the host's publications of the plugin: id -> mount path
  gates,         \* the host's gateways of the plugin: id -> publication
  opened,        \* p.sessions: gateway -> target id
  told           \* http.gateway.closed events on their way

appVars == <<on, targets, nextId, named, shown, gates, opened, told>>

Empty == << >>
Overlapping(m, n) == IsPrefix(m, n) \/ IsPrefix(n, m)

Init ==
  /\ on = FALSE /\ targets = Empty /\ nextId = 1
  /\ named = Empty /\ shown = Empty /\ gates = Empty /\ opened = Empty
  /\ told = {}

-----------------------------------------------------------------------------
(* The host. *)

Unregistered(f, ids) == Restrict(f, DOMAIN f \ ids)
Registrable(s, m) == \A p \in DOMAIN s : ~Overlapping(s[p], m)
Registered(s, p, m) == [q \in DOMAIN s \cup {p} |-> IF q = p THEN m ELSE s[q]]

\* Identifiers are random: a new one is not one still in use or named.
Unused(s) == Marks \ (DOMAIN s \cup DOMAIN shown \cup Range(named))
GatesOn(p) == {g \in DOMAIN gates : gates[g] = p}

\* Gateways close, and each tells the plugin so.
Close(gs) ==
  /\ gates' = Unregistered(gates, gs)
  /\ told' = told \cup gs

\* An unattached gateway expires, its browser leaves, or its upstream fails.
GateEnds ==
  \E g \in DOMAIN gates :
    /\ Close({g})
    /\ UNCHANGED <<on, targets, nextId, named, shown, opened>>

-----------------------------------------------------------------------------
(* Targets. *)

NameOf(a) == IF a \in DOMAIN named THEN {named[a]} ELSE {}
Active(a) == \E g \in DOMAIN opened : opened[g] = a

\* The mount paths of the other targets leave room for this one.
MountFree(a, m) == \A b \in DOMAIN targets \ {a} : ~Overlapping(targets[b], m)

\* The old mount is removed before the new one is asked for when the host
\* could not hold both.
Conflicting(a, m) ==
  IF a \in DOMAIN targets /\ Overlapping(targets[a], m) THEN NameOf(a) ELSE {}

\* A move that failed puts the old publication back, if it was removed and the
\* host still grants it; one that was not removed is named again.
Restored(a, m, s) ==
  IF Conflicting(a, m) = {} THEN shown' = s /\ named' = named
  ELSE \/ shown' = s /\ named' = Unregistered(named, {a})
       \/ \E q \in Unused(s) :
            /\ Registrable(s, targets[a])
            /\ shown' = Registered(s, q, targets[a])
            /\ named' = [named EXCEPT ![a] = q]

Refused(a, m, s) == Restored(a, m, s) /\ UNCHANGED <<targets, nextId>>

\* The store fails: the new publication is removed again.  (Variant: it stays.)
UnwrittenKeepsNew(a, m, s) ==
  \E p \in Unused(s) :
    /\ Registrable(s, m)
    /\ Restored(a, m, Registered(s, p, m))
    /\ UNCHANGED <<targets, nextId>>

Unwritten(a, m, s) ==
  \E p \in Unused(s) :
    /\ Registrable(s, m)
    /\ Restored(a, m, Unregistered(Registered(s, p, m), {p}))
    /\ UNCHANGED <<targets, nextId>>

\* The target is stored under its new mount, then the old publication goes.
Written(a, m, s) ==
  \E p \in Unused(s) :
    /\ Registrable(s, m)
    /\ shown' = Unregistered(Registered(s, p, m), NameOf(a))
    /\ named' = Registered(named, a, p)
    /\ targets' = Registered(targets, a, m)
    /\ nextId' = IF a = nextId THEN nextId + 1 ELSE nextId

\* apps.targets.save: a new target or one whose mount changes.
Save ==
  \E a \in DOMAIN targets \cup {nextId}, m \in Mounts :
    /\ on /\ a <= MaxApps
    /\ a \in DOMAIN targets => targets[a] # m
    /\ MountFree(a, m) /\ ~Active(a)
    /\ LET old == Conflicting(a, m)
           s == Unregistered(shown, old) IN
       /\ Close(UNION {GatesOn(p) : p \in old})
       /\ Refused(a, m, s) \/ Unwritten(a, m, s) \/ Written(a, m, s)
    /\ UNCHANGED <<on, opened>>

\* apps.targets.delete; a store that fails leaves everything.
Delete(a) ==
  /\ on /\ a \in DOMAIN targets /\ ~Active(a)
  /\ targets' = Unregistered(targets, {a})
  /\ shown' = Unregistered(shown, NameOf(a))
  /\ named' = Unregistered(named, {a})
  /\ Close(UNION {GatesOn(p) : p \in NameOf(a)})
  /\ UNCHANGED <<on, nextId, opened>>

-----------------------------------------------------------------------------
(* Sessions. *)

\* The publication a session needs: the one the target has, or a new one.
Published(a) ==
  IF a \in DOMAIN named THEN UNCHANGED <<shown, named>>
  ELSE \E p \in Unused(shown) :
         /\ Registrable(shown, targets[a])
         /\ shown' = Registered(shown, p, targets[a])
         /\ named' = Registered(named, a, p)

\* http.gateway.open and browser.stream.ticket: a gateway without a ticket is
\* closed again.  (Variant: it is left open.)
GatewayUnclosed(a) ==
  \E g \in Gates \ (DOMAIN gates \cup DOMAIN opened \cup told) :
    /\ gates' = Registered(gates, g, named'[a])
    /\ opened' \in {opened, Registered(opened, g, a)}
    /\ told' = told

Gateway(a) ==
  \E g \in Gates \ (DOMAIN gates \cup DOMAIN opened \cup told) :
    \/ /\ gates' = Registered(gates, g, named'[a])
       /\ opened' = Registered(opened, g, a)
       /\ told' = told
    \/ gates' = gates /\ opened' = opened /\ told' = told \cup {g}

\* apps.session.open; a host call that is refused ends it.
OpenSession(a) ==
  /\ on /\ a \in DOMAIN targets /\ Cardinality(DOMAIN opened) < MaxGates
  /\ Published(a)
  /\ \/ UNCHANGED <<gates, told, opened>>
     \/ Cardinality(DOMAIN gates) < MaxGates /\ Gateway(a)
  /\ UNCHANGED <<on, targets, nextId>>

CloseSession(g) ==
  /\ on /\ g \in DOMAIN opened
  /\ Close({g} \cap DOMAIN gates)
  /\ opened' = Unregistered(opened, {g})
  /\ UNCHANGED <<on, targets, nextId, named, shown>>

\* The event arrives, or was dropped.
Told(g) ==
  /\ g \in told
  /\ told' = told \ {g}
  /\ opened' \in {opened, Unregistered(opened, {g})}
  /\ UNCHANGED <<on, targets, nextId, named, shown, gates>>

-----------------------------------------------------------------------------
(* Start and end of the plugin. *)

\* Every stored target is published; one that is refused ends the plugin.
Initialize ==
  /\ ~on /\ on' = TRUE
  /\ \E f \in [DOMAIN targets -> Marks] :
       /\ IsInjective(f)
       /\ named' = f
       /\ shown' = [p \in Range(f) |-> targets[CHOOSE a \in DOMAIN f : f[a] = p]]
  /\ UNCHANGED <<targets, nextId, gates, opened, told>>

\* The plugin shuts down, or the host that holds all but the storage ends.
Shutdown ==
  /\ on /\ on' = FALSE
  /\ named' = Empty /\ shown' = Empty /\ gates' = Empty /\ opened' = Empty
  /\ told' = {}
  /\ UNCHANGED <<targets, nextId>>

Next ==
  \/ Save \/ Initialize \/ Shutdown \/ GateEnds
  \/ \E a \in 1..MaxApps : Delete(a) \/ OpenSession(a)
  \/ \E g \in Gates : CloseSession(g) \/ Told(g)

Spec == Init /\ [][Next]_appVars

-----------------------------------------------------------------------------
(* Properties. *)

\* Every variable holds values of its type, and stored mounts never overlap.
TypeOK ==
  /\ on \in BOOLEAN
  /\ DOMAIN targets \subseteq 1..MaxApps /\ Range(targets) \subseteq Mounts
  /\ nextId \in 1..(MaxApps + 1)
  /\ \A a, b \in DOMAIN targets : a # b => ~Overlapping(targets[a], targets[b])
  /\ DOMAIN named \subseteq DOMAIN targets /\ Range(named) \subseteq Marks
  /\ DOMAIN shown \subseteq Marks /\ Range(shown) \subseteq Mounts
  /\ DOMAIN gates \subseteq Gates
  /\ DOMAIN opened \subseteq Gates /\ Range(opened) \subseteq 1..MaxApps
  /\ told \subseteq Gates

\* Whatever host calls fail in a save, a delete or an open, the publications of
\* the host are exactly those the plugin names, each at the mount its target is
\* stored with: no forgotten mount blocks a path until RunPilot restarts, and
\* no page is served where its target no longer is.
MountsAreNamed ==
  /\ IsInjective(named) /\ Range(named) = DOMAIN shown
  /\ \A a \in DOMAIN named : shown[named[a]] = targets[a]

\* A gateway of the host is a session of the plugin, on the publication of a
\* target that is stored, however its end was reported.
GatewaysAreSessions ==
  \A g \in DOMAIN gates :
    /\ g \in DOMAIN opened
    /\ opened[g] \in DOMAIN targets
    /\ NameOf(opened[g]) = {gates[g]}
=============================================================================
