------------------------------- MODULE DataRoot -------------------------------
(***************************************************************************)
(* The configuration file and the data root it lives in (config/store.go,  *)
(* root.go, locator.go, daemon.Run): updates saved under the store's lock, *)
(* the administrator's claim, relocations queued while RunPilot serves and *)
(* applied between its end and its next start, and crashes anywhere.       *)
(***************************************************************************)
EXTENDS Naturals

CONSTANTS
  Roots,         \* directories that may hold RunPilot's data
  First,         \* the platform's default root
  MaxEdits       \* bound: configuration updates

RootAssumption == First \in Roots /\ MaxEdits \in Nat

VARIABLES
  phase,         \* up, saving (under the store's lock), stopped (closed), down
  active,        \* the root the open store belongs to
  content,       \* on disk: [is, config] of every root
  locator,       \* on disk: the root the next start opens
  pending,       \* on disk: the queued relocation, if any
  status,        \* on disk: the relocation's last status
  memory,        \* Store.cfg
  previous,      \* the configuration a failed save returns to
  acked,         \* the configuration of a root that requests were told is saved
  setup,         \* the new root an initial setup will queue
  step,          \* ApplyPendingDataRoot
  created,       \* it has made the destination
  chosen         \* roots the administrator switched to as they are

onDisk == <<content, locator, pending, status>>
store == <<memory, previous, acked, setup>>
apply == <<step, created>>
rootVars == <<phase, active, onDisk, store, apply, chosen>>

Fresh == [admin |-> FALSE, edits |-> 0]
Absent == [is |-> "absent", config |-> Fresh]
NoRelocation == {}

Init ==
  /\ phase = "down" /\ active = First /\ locator = First
  /\ content \in [Roots -> {Absent, [is |-> "whole", config |-> Fresh]}] /\ content[First] = Absent
  /\ pending = NoRelocation /\ status = "none" /\ memory = Fresh /\ previous = Fresh
  /\ acked = [root \in Roots |-> Fresh] /\ setup = {} /\ step = "idle" /\ created = FALSE /\ chosen = {}

-----------------------------------------------------------------------------
(* The store. *)

\* OpenWithConfigDir: a root without a configuration gets the default one.
Start ==
  /\ phase = "down" /\ phase' = "up" /\ active' = locator
  /\ memory' = content[locator].config
  /\ content' = [content EXCEPT ![locator].is = IF @ = "absent" THEN "whole" ELSE @]
  /\ previous' = memory' /\ setup' = {}
  /\ UNCHANGED <<locator, pending, status, acked, apply, chosen>>

Change(config, roots) ==
  /\ phase = "up" /\ phase' = "saving"
  /\ previous' = memory /\ memory' = config /\ setup' = roots
  /\ UNCHANGED <<active, onDisk, acked, apply, chosen>>

\* Update, ChangeAdminPassword, SetBearerAuth, SetWebSocketPayloadMode.
Update == memory.edits < MaxEdits /\ Change([memory EXCEPT !.edits = @ + 1], setup)

\* ConfigureAdmin, for the active root or one that the setup will move to.
Claim(roots) == ~memory.admin /\ Change([memory EXCEPT !.admin = TRUE], roots)

\* saveLocked: the rename replaces the file at once or not at all.
Saved ==
  /\ phase = "saving" /\ phase' = "up" /\ acked' = [acked EXCEPT ![active] = memory]
  /\ content' = [content EXCEPT ![active].config = memory]
  /\ UNCHANGED <<active, locator, pending, status, memory, previous, setup, apply, chosen>>

SaveKept ==
  /\ phase = "saving" /\ phase' = "up" /\ setup' = {}
  /\ UNCHANGED <<active, onDisk, memory, previous, acked, apply, chosen>>

SaveFails ==
  /\ phase = "saving" /\ phase' = "up" /\ memory' = previous /\ setup' = {}
  /\ UNCHANGED <<active, onDisk, previous, acked, apply, chosen>>

\* An initial setup that chooses an existing root: its account is claimed
\* there and the locator names it; RunPilot then restarts.
Adopt(root) ==
  /\ phase = "up" /\ root # active
  /\ content[root].is # "absent" /\ ~content[root].config.admin
  /\ content' = [content EXCEPT ![root].config.admin = TRUE]
  /\ acked' = [acked EXCEPT ![root] = content'[root].config]
  /\ locator' \in {root, locator} /\ chosen' = chosen \cup {root}
  /\ UNCHANGED <<phase, active, pending, status, memory, previous, setup, apply>>

-----------------------------------------------------------------------------
(* Relocations are queued by the setup (a copy) or the settings (a switch) *)
(* and applied when a restart has closed everything that could write.      *)

Queue(root, switch) ==
  /\ pending = NoRelocation /\ root # active
  /\ pending' = {[source |-> active, destination |-> root, switch |-> switch]}
  /\ status' = "pending"

QueueMigration ==
  /\ phase = "up" /\ setup # {} /\ setup' = {}
  /\ \/ \E root \in setup : content[root].is = "absent" /\ Queue(root, FALSE)
     \/ UNCHANGED <<pending, status>>  \* refused, or the file cannot be written
  /\ UNCHANGED <<phase, active, content, locator, memory, previous, acked, apply, chosen>>

QueueSwitch(root) ==
  /\ phase = "up" /\ setup = {} /\ Queue(root, TRUE)
  /\ UNCHANGED <<phase, active, content, locator, store, apply, chosen>>

\* The server and the controller are closed before anything is applied.
Restart ==
  /\ phase = "up" /\ phase' = "stopped" /\ step' = "read" /\ created' = FALSE
  /\ UNCHANGED <<active, onDisk, store, chosen>>

\* A crash, or an end without a restart. An update may be on disk untold.
Crash ==
  /\ phase # "down" /\ phase' = "down" /\ step' = "idle" /\ setup' = {}
  /\ content' \in {content} \cup
       (IF phase = "saving" THEN {[content EXCEPT ![active].config = memory]} ELSE {})
  /\ UNCHANGED <<active, locator, pending, status, memory, previous, acked, created, chosen>>

Applied == step' = "idle" /\ phase' = "down"

\* No relocation is queued, or it is not one of the active root.
Skip ==
  /\ step = "read" /\ Applied /\ \A p \in pending : p.source # locator
  /\ pending' = NoRelocation
  /\ UNCHANGED <<active, content, locator, status, store, created, chosen>>

Ours(p) == step = "read" /\ p.source = locator

\* CopyDataRoot: the destination must be new. An incomplete copy has the
\* configuration file or not.
BeginCopy(p) ==
  /\ Ours(p) /\ ~p.switch
  /\ IF content[p.destination].is = "absent"
     THEN /\ \E config \in {Fresh, content[p.source].config} :
               content' = [content EXCEPT ![p.destination] = [is |-> "partial", config |-> config]]
          /\ created' = TRUE /\ step' = "copy"
     ELSE step' = "failed" /\ UNCHANGED <<content, created>>
  /\ UNCHANGED <<phase, active, locator, pending, status, store, chosen>>

Copied(p) ==
  /\ step = "copy" /\ step' = "locate"
  /\ content' = [content EXCEPT ![p.destination] = [is |-> "whole", config |-> content[p.source].config]]
  /\ UNCHANGED <<phase, active, locator, pending, status, store, created, chosen>>

\* An error of the copy or a difference found by VerifyDataRoot.
CopyFails ==
  /\ step = "copy" /\ step' = "failed"
  /\ UNCHANGED <<phase, active, onDisk, store, created, chosen>>

ChooseRoot(p) ==
  /\ Ours(p) /\ p.switch /\ step' \in {"locate", "failed"}
  /\ UNCHANGED <<phase, active, onDisk, store, created, chosen>>

WriteLocatorFirst(p) ==
  /\ step \in {"copy", "locate"} /\ locator' = p.destination /\ step' = "copy"
  /\ UNCHANGED <<phase, active, content, pending, status, store, created, chosen>>

\* WriteDataRoot replaces the locator at once or not at all.
WriteLocator(p) ==
  /\ step = "locate" /\ locator' = p.destination /\ step' = "complete"
  /\ acked' = IF p.switch THEN acked ELSE [acked EXCEPT ![p.destination] = acked[p.source]]
  /\ chosen' = IF p.switch THEN chosen \cup {p.destination} ELSE chosen
  /\ UNCHANGED <<phase, active, content, pending, status, memory, previous, setup, created>>

LocatorFails ==
  /\ step = "locate" /\ step' = "failed"
  /\ UNCHANGED <<phase, active, onDisk, store, created, chosen>>

\* What was created is removed again.
Fail(p) ==
  /\ step = "failed" /\ step' = "settle" /\ status' = "failed"
  /\ content' = IF created THEN [content EXCEPT ![p.destination] = Absent] ELSE content
  /\ UNCHANGED <<phase, active, locator, pending, store, created, chosen>>

Complete ==
  /\ step = "complete" /\ step' = "settle" /\ status' = "complete"
  /\ UNCHANGED <<phase, active, content, locator, pending, store, created, chosen>>

Settle ==
  /\ step = "settle" /\ Applied /\ pending' = NoRelocation
  /\ UNCHANGED <<active, content, locator, status, store, created, chosen>>

Next ==
  \/ Start \/ Update \/ Claim({}) \/ (\E root \in Roots : Claim({root}) \/ Adopt(root) \/ QueueSwitch(root))
  \/ Saved \/ SaveFails \/ QueueMigration \/ Restart \/ Crash \/ Skip
  \/ \E p \in pending : BeginCopy(p) \/ Copied(p) \/ ChooseRoot(p) \/ WriteLocator(p) \/ Fail(p)
  \/ CopyFails \/ LocatorFails \/ Complete \/ Settle

Spec == Init /\ [][Next]_rootVars

-----------------------------------------------------------------------------

Configs == [admin : BOOLEAN, edits : 0 .. MaxEdits]
TypeOK ==
  /\ phase \in {"up", "saving", "stopped", "down"} /\ {active, locator} \subseteq Roots
  /\ content \in [Roots -> [is : {"absent", "partial", "whole"}, config : Configs]]
  /\ pending \in SUBSET [source : Roots, destination : Roots, switch : BOOLEAN]
  /\ status \in {"none", "pending", "complete", "failed"} /\ {memory, previous} \subseteq Configs
  /\ acked \in [Roots -> Configs]
  /\ setup \subseteq Roots /\ chosen \subseteq Roots /\ created \in BOOLEAN
  /\ step \in {"idle", "read", "copy", "locate", "failed", "complete", "settle"}

\* What a request was told is saved in a root is there, and what was saved in
\* a root that is relocated is in the root the next start opens, whatever
\* fails or crashes in between. Only a root the administrator chose as it is
\* may be incomplete.
NothingToldIsLost ==
  /\ content[locator].is = "partial" => locator \in chosen
  /\ \A root \in Roots : /\ acked[root].admin => content[root].config.admin
                         /\ acked[root].edits <= content[root].config.edits

\* Outside the store's lock the configuration in memory is the one on disk.
MemoryIsOnDisk == phase = "up" => memory = content[active].config

\* Neither a failed save nor a relocation cut short anywhere loses or invents
\* configuration (saveLocked, ApplyPendingDataRoot).
RootKept == NothingToldIsLost /\ MemoryIsOnDisk
=============================================================================
