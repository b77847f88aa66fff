----------------------------- MODULE TerminalPlugin -----------------------------
(* The Terminal plugin: the tabs it lists over the host's process sessions     *)
(* (plugins/terminal/backend/plugin.go).  The sessions themselves are those    *)
(* of ProcessSessions, reduced to what a plugin sees of them: a session runs,  *)
(* may have been asked to end, ends on its own, is remembered for a while and  *)
(* then forgotten.  A request or a callback of the plugin is one step; every   *)
(* host call in it may fail.                                                   *)
EXTENDS Naturals, FiniteSets

CONSTANTS
  Tabs,       \* session ids, fresh for every session
  MaxTabs     \* bound: 8 sessions of the plugin

TabsAssumption == MaxTabs \in Nat

VARIABLES
  loaded,     \* the plugin is loaded
  tabs,       \* p.sessions: id -> State
  shell,      \* the host's sessions: id -> "new", "running", "asked", "exited", "gone"
  exits,      \* exit and error callbacks of sessions on their way
  watched     \* a browser is subscribed to the plugin's events

terminalVars == <<loaded, tabs, shell, exits, watched>>

Listed == DOMAIN tabs
Alive(s) == shell[s] \in {"running", "asked"}
Without(S) == [s \in Listed \ S |-> tabs[s]]
With(s, state) == [t \in Listed \cup {s} |-> IF t = s THEN state ELSE tabs[t]]

Init ==
  /\ loaded = TRUE /\ tabs = << >> /\ shell = [s \in Tabs |-> "new"]
  /\ exits = {} /\ watched \in BOOLEAN

-----------------------------------------------------------------------------
(* Requests. *)

\* terminal.open: entries that are known to have ended make room first, even
\* when the session cannot be created.
Purged == {s \in Listed : tabs[s] # "running"}
Open ==
  /\ loaded /\ Cardinality(Listed \ Purged) < MaxTabs
  /\ \/ tabs' = Without(Purged) /\ shell' = shell
     \/ \E s \in Tabs :
          /\ shell[s] = "new"
          /\ shell' = [shell EXCEPT ![s] = "running"]
          /\ tabs' = [t \in (Listed \ Purged) \cup {s} |-> "running"]
  /\ UNCHANGED <<loaded, exits, watched>>

OpenRefused ==
  /\ loaded /\ Cardinality(Listed \ Purged) >= MaxTabs
  /\ tabs' = Without(Purged)
  /\ UNCHANGED <<loaded, shell, exits, watched>>

\* terminal.settings.test: a probe that could not be ended again stays listed,
\* for shutdown to end it.  (Variant: it is forgotten.)
ProbeForgotten ==
  /\ loaded /\ Cardinality(Listed) < MaxTabs
  /\ \E s \in Tabs :
       /\ shell[s] = "new"
       /\ shell' \in {[shell EXCEPT ![s] = "asked"], [shell EXCEPT ![s] = "running"]}
  /\ UNCHANGED <<loaded, tabs, exits, watched>>

Probe ==
  /\ loaded /\ Cardinality(Listed) < MaxTabs
  /\ \E s \in Tabs :
       /\ shell[s] = "new"
       /\ \/ shell' = [shell EXCEPT ![s] = "asked"] /\ tabs' = tabs
          \/ shell' = [shell EXCEPT ![s] = "running"] /\ tabs' = With(s, "running")
  /\ UNCHANGED <<loaded, exits, watched>>

\* terminal.close: an entry that has ended is dropped without asking the host;
\* a session the host has forgotten is dropped too; another failure keeps it.
Close(s) ==
  /\ loaded /\ s \in Listed
  /\ \/ tabs[s] # "running" /\ tabs' = Without({s}) /\ shell' = shell
     \/ /\ tabs[s] = "running" /\ tabs' = Without({s})
        /\ shell' = [shell EXCEPT ![s] = IF @ = "running" THEN "asked" ELSE @]
  /\ UNCHANGED <<loaded, exits, watched>>

\* terminal.status takes the state over while the host remembers the session.
Status(s) ==
  /\ loaded /\ s \in Listed /\ shell[s] # "gone"
  /\ tabs' = [tabs EXCEPT ![s] = IF Alive(s) THEN "running" ELSE "exited"]
  /\ UNCHANGED <<loaded, shell, exits, watched>>

-----------------------------------------------------------------------------
(* The host. *)

\* The shell ends, or its output could not be delivered and the host ends it.
Exits(s) ==
  /\ Alive(s)
  /\ shell' = [shell EXCEPT ![s] = "exited"]
  /\ exits' = exits \cup {s}
  /\ UNCHANGED <<loaded, tabs, watched>>

Forgets(s) ==
  /\ shell[s] = "exited"
  /\ shell' = [shell EXCEPT ![s] = "gone"]
  /\ UNCHANGED <<loaded, tabs, exits, watched>>

\* A browser subscribes, or the last one leaves.
Watch ==
  /\ watched' = ~watched
  /\ UNCHANGED <<loaded, tabs, shell, exits>>

\* The callback passes the event on to the browsers before it marks the entry;
\* without a browser that fails and the entry stays as it is.  The queue of
\* callbacks may also have dropped it.
Event(s) ==
  /\ s \in exits
  /\ exits' = exits \ {s}
  /\ \/ tabs' = tabs
     \/ loaded /\ watched /\ s \in Listed /\ tabs' = With(s, "exited")
  /\ UNCHANGED <<loaded, shell, watched>>

\* The plugin ends: it terminates what it lists as running.
Shutdown ==
  /\ loaded /\ loaded' = FALSE
  /\ shell' = [s \in Tabs |-> IF s \in Listed /\ tabs[s] = "running" /\ shell[s] = "running"
                             THEN "asked" ELSE shell[s]]
  /\ tabs' = << >>
  /\ UNCHANGED <<exits, watched>>

Next ==
  \/ Open \/ OpenRefused \/ Probe \/ Watch \/ Shutdown
  \/ \E s \in Tabs : Close(s) \/ Status(s) \/ Exits(s) \/ Forgets(s) \/ Event(s)

Spec == Init /\ [][Next]_terminalVars

-----------------------------------------------------------------------------
(* Properties. *)

\* Every variable holds values of its type and the limit is kept.
TypeOK ==
  /\ loaded \in BOOLEAN /\ watched \in BOOLEAN
  /\ Listed \subseteq Tabs /\ \A s \in Listed : tabs[s] \in {"running", "exited"}
  /\ shell \in [Tabs -> {"new", "running", "asked", "exited", "gone"}]
  /\ exits \subseteq Tabs
  /\ Cardinality(Listed) <= MaxTabs

\* Whatever the plugin purges, drops or takes over from late answers, a shell
\* that runs and was never asked to end is one the plugin lists as running: a
\* tab can be closed, and the end of the plugin leaves no shell behind.
NoShellLeftBehind ==
  \A s \in Tabs :
    shell[s] = "running" => loaded /\ s \in Listed /\ tabs[s] = "running"
=============================================================================
