----------------------------- MODULE ClusterRun -----------------------------
(***************************************************************************)
(* The run of a command, such as install or start, on the nodes of a       *)
(* normalised configuration (legacy/masson/lib/commands/clusters.js).  All *)
(* the nodes are handled in parallel, by each(nodes, true, handler).  The  *)
(* handler of a node filters the services, connects, calls the plugin of   *)
(* every service of the node, then the command of the services which       *)
(* passed the filter.  The calls of a node run one after the other, in the *)
(* order of node.services.                                                 *)
(*                                                                         *)
(* A command waits until the dependencies its recipe names answer, as      *)
(* legacy/ryba/hive/server2/start.coffee.md:14-16 does; then it runs, and  *)
(* the instance is up.  What the remaining calls of a session become when  *)
(* one has failed is decided by the library which runs them: the model has *)
(* both outcomes.                                                          *)
(***************************************************************************)
EXTENDS RunInput, SequencesExt

CONSTANT Inputs  \* runs

VARIABLES
  input,    \* the run
  phase,    \* node -> what its handler is doing, or how it ended
  pos,      \* node -> position in its list of services
  plugged,  \* instances whose plugin was called
  ran,      \* history: instances whose command has run
  up        \* instances which are up

vars == <<input, phase, pos, plugged, ran, up>>

Phases == {"idle", "open", "plugins", "commands", "done", "skipped", "failed"}

ASSUME InputsAssumption == \A in \in Inputs : WellFormed(in)

Init ==
  /\ input \in Inputs
  /\ phase = [n \in Node |-> "idle"]
  /\ pos = [n \in Node |-> 1]
  /\ plugged = {}
  /\ ran = {}
  /\ up = input.up

-----------------------------------------------------------------------------
list(n) == input.list[n]

Selected(s) == s \in input.selected

\* The handler of the node returns before it connects.
FilteredOut(n) ==
  n \notin input.targets \/ \A i \in DOMAIN list(n) : ~Selected(list(n)[i])

Filter(n) ==
  /\ phase[n] = "idle"
  /\ phase' = [phase EXCEPT ![n] = IF FilteredOut(n) THEN "skipped" ELSE "open"]
  /\ UNCHANGED <<input, pos, plugged, ran, up>>

\* Mutant: the nodes are handled one after the other.
OpenAlone(n) ==
  /\ phase[n] = "open"
  /\ \A m \in Node : phase[m] \notin {"plugins", "commands"}
  /\ phase' = [phase EXCEPT ![n] = "plugins"]
  /\ UNCHANGED <<input, pos, plugged, ran, up>>

Open(n) ==
  /\ phase[n] = "open"
  /\ phase' = [phase EXCEPT ![n] = "plugins"]
  /\ UNCHANGED <<input, pos, plugged, ran, up>>

\* Mutant: an instance which is not found is no error.
NeverOrphan(n, s) == FALSE

\* A service of the node which has no instance there: array_get throws.
Orphan(n, s) == <<s, n>> \notin input.instances

(***************************************************************************)
(* The plugins of all the services of the node, discarding the filters.    *)
(***************************************************************************)
\* Mutant: only the plugins of the filtered services.
FilteredPlugin(s) == s \in input.plugins /\ Selected(s)

HasPlugin(s) == s \in input.plugins

Plugin(n) ==
  /\ phase[n] = "plugins"
  /\ pos[n] \in DOMAIN list(n)
  /\ LET s == list(n)[pos[n]] IN
       /\ HasPlugin(s) => ~Orphan(n, s)
       /\ plugged' = IF HasPlugin(s) THEN plugged \union {<<s, n>>} ELSE plugged
  /\ pos' = [pos EXCEPT ![n] = @ + 1]
  /\ UNCHANGED <<input, phase, ran, up>>

EndPlugins(n) ==
  /\ phase[n] = "plugins"
  /\ pos[n] \notin DOMAIN list(n)
  /\ phase' = [phase EXCEPT ![n] = "commands"]
  /\ pos' = [pos EXCEPT ![n] = 1]
  /\ UNCHANGED <<input, plugged, ran, up>>

(***************************************************************************)
(* The commands of the services which passed the filters.                  *)
(***************************************************************************)
\* Mutant: the recipe waits for its own service too.
OwnAwaited(s) ==
  {i \in input.instances : <<s, i[1]>> \in input.waits \/ i[1] = s}

\* Mutant: the recipe waits only for what the command starts.
StartedAwaited(s) ==
  {i \in input.instances : <<s, i[1]>> \in input.waits /\ Selected(i[1])}

\* The instances which the recipe of a service waits for.
Awaited(s) == {i \in input.instances : <<s, i[1]>> \in input.waits}

\* Mutant: every service of the node is taken from the end of its list.
LastFirst(n) == list(n)[Len(list(n)) + 1 - pos[n]]

Job(n) == list(n)[pos[n]]

Command(n) ==
  /\ phase[n] = "commands"
  /\ pos[n] \in DOMAIN list(n)
  /\ IF Selected(Job(n))
     THEN /\ ~Orphan(n, Job(n))
          /\ Awaited(Job(n)) \subseteq up
          /\ ran' = ran \union {<<Job(n), n>>}
          /\ up' = up \union {<<Job(n), n>>}
     ELSE UNCHANGED <<ran, up>>
  /\ pos' = [pos EXCEPT ![n] = @ + 1]
  /\ UNCHANGED <<input, phase, plugged>>

EndCommands(n) ==
  /\ phase[n] = "commands"
  /\ pos[n] \notin DOMAIN list(n)
  /\ phase' = [phase EXCEPT ![n] = "done"]
  /\ UNCHANGED <<input, pos, plugged, ran, up>>

(***************************************************************************)
(* Failures.                                                               *)
(***************************************************************************)
\* A service of the list which has no instance makes a handler throw.
Broken(n) ==
  \E i \in DOMAIN list(n) : Orphan(n, list(n)[i])
    /\ (HasPlugin(list(n)[i]) \/ Selected(list(n)[i]))

MayFail(n) == n \in input.flaky \/ Broken(n)

\* The connection fails, or the node stops at the call which fails.
Fail(n) ==
  /\ MayFail(n)
  /\ \/ phase[n] \in {"plugins", "commands"}
     \/ phase[n] = "open" /\ n \in input.flaky
  /\ phase' = [phase EXCEPT ![n] = "failed"]
  /\ UNCHANGED <<input, pos, plugged, ran, up>>

\* The call of the plugins fails and the call of the commands goes on.
AbandonPlugins(n) ==
  /\ MayFail(n)
  /\ phase[n] = "plugins"
  /\ phase' = [phase EXCEPT ![n] = "commands"]
  /\ pos' = [pos EXCEPT ![n] = 1]
  /\ UNCHANGED <<input, plugged, ran, up>>

\* A command fails and the next one is called.
AbandonCommand(n) ==
  /\ MayFail(n)
  /\ phase[n] = "commands"
  /\ pos[n] \in DOMAIN list(n)
  /\ Selected(Job(n)) /\ ~Orphan(n, Job(n))
  /\ pos' = [pos EXCEPT ![n] = @ + 1]
  /\ UNCHANGED <<input, phase, plugged, ran, up>>

Advance(n) ==
  Filter(n) \/ Open(n) \/ Plugin(n) \/ EndPlugins(n) \/ Command(n) \/ EndCommands(n)

Next ==
  \E n \in Node : Advance(n) \/ Fail(n) \/ AbandonPlugins(n) \/ AbandonCommand(n)

Spec == Init /\ [][Next]_vars

\* The handlers run in parallel: none keeps another from advancing.
FairSpec == Spec /\ \A n \in Node : WF_vars(Advance(n))

-----------------------------------------------------------------------------
(* Every variable of the run has its type. *)
TypeOK ==
  /\ WellFormed(input)
  /\ phase \in [Node -> Phases]
  /\ pos \in [Node -> Nat \ {0}]
  /\ plugged \subseteq input.instances
  /\ ran \subseteq up
  /\ up \subseteq input.instances

\* The command of an instance has been run.
Ran(s, n) == <<s, n>> \in ran

(* When the command of a service runs on a node, the plugins of all the    *)
(* services of the node were called, those the filters exclude and those   *)
(* which come after it included: a plugin, such as the one of              *)
(* legacy/ryba/ranger/plugins/hbase, hooks a service which comes before    *)
(* its own (clusters.js:74-91).                                            *)
PluginsFirst ==
  \A n \in Node : ~MayFail(n) =>
    \A i, j \in DOMAIN list(n) :
      Ran(list(n)[i], n) /\ list(n)[j] \in input.plugins
        => <<list(n)[j], n>> \in plugged

(* When the command of a service has run on a node without a failure, the  *)
(* services of that node it depends on were run before it, also those      *)
(* whose recipes nothing waits for (clusters.js:92-118).                   *)
LocalDepsFirst ==
  \A n \in Node : ~MayFail(n) =>
    \A i, j \in DOMAIN list(n) :
      Ran(list(n)[i], n) /\ <<list(n)[i], list(n)[j]>> \in input.deps
                         /\ Selected(list(n)[j])
        => Ran(list(n)[j], n)

(***************************************************************************)
(* A set of nodes which no failure elsewhere can stop: what its services   *)
(* wait for is up beforehand or is started by the run on one of them.      *)
(***************************************************************************)
Independent(N) ==
  /\ N \subseteq input.targets
  /\ \A n \in N : ~MayFail(n)
  /\ \A n \in N : \A i \in DOMAIN list(n) : Selected(list(n)[i]) =>
       \A w \in Awaited(list(n)[i]) :
         w \in input.up \/ (w[2] \in N /\ Selected(w[1]))

Ended(n) == phase[n] \in {"done", "skipped"}

\* The handler of the node has a step to take.
Ready(n) ==
  \/ phase[n] \in {"idle", "open", "plugins"}
  \/ /\ phase[n] = "commands"
     /\ pos[n] \in DOMAIN list(n) /\ Selected(Job(n)) => Awaited(Job(n)) \subseteq up

(* The nodes of an independent set never all wait on each other, although  *)
(* every one runs its services in sequence and waits for instances the     *)
(* others have not reached: all follow the order of one graph              *)
(* (normalize.js:598-607, clusters.js:92-118).                             *)
NoDeadlock ==
  \A N \in SUBSET Node :
    Independent(N) /\ (\E n \in N : ~Ended(n)) => \E n \in N : Ready(n)

(* The nodes of an independent set come to their end, whatever fails       *)
(* elsewhere (clusters.js:26, 119-132).                                    *)
Isolation ==
  \A n \in Node :
    (\E N \in SUBSET Node : n \in N /\ Independent(N)) ~> Ended(n)

-----------------------------------------------------------------------------
Promised == INSTANCE Rollout

(* A run only runs commands it was asked to run, each once and after all   *)
(* the instances its recipe waits for are up, on every node, and after the *)
(* commands which come before it on its own node, however the handlers of  *)
(* the nodes interleave and whatever fails or is up beforehand             *)
(* (clusters.js:26-118).                                                   *)
InOrder == Promised!Spec

(* On a node where nothing fails, a command whose recipe has all it waits  *)
(* for, and which comes next in the graph, runs, even when other nodes     *)
(* wait for ever or have failed (clusters.js:26, 92-132).                  *)
Served == Promised!Fairness

-----------------------------------------------------------------------------
\* Strengthenings which make the invariants above inductive.

\* What the handler of a node has done so far, when no call may fail there.
Done(n) ==
  /\ phase[n] \in {"idle", "open"} => pos[n] = 1
  /\ phase[n] = "plugins" =>
       \A i \in DOMAIN list(n) : i < pos[n] /\ list(n)[i] \in input.plugins
         => <<list(n)[i], n>> \in plugged
  /\ phase[n] \in {"commands", "done"} =>
       \A i \in DOMAIN list(n) :
         /\ list(n)[i] \in input.plugins => <<list(n)[i], n>> \in plugged
         /\ i < pos[n] /\ Selected(list(n)[i]) => Ran(list(n)[i], n)
  /\ phase[n] = "done" => pos[n] \notin DOMAIN list(n)
  /\ phase[n] = "skipped" => FilteredOut(n)
  /\ phase[n] # "failed"
  /\ \A s \in Service : Ran(s, n) =>
       /\ phase[n] \in {"commands", "done"}
       /\ \E i \in DOMAIN list(n) : i < pos[n] /\ list(n)[i] = s

Reached == \A n \in Node : ~MayFail(n) => Done(n)

\* The commands which have run are behind the position of their node, also
\* on the nodes where calls fail.
Behind ==
  \A s \in Service, n \in Node : Ran(s, n) =>
    /\ phase[n] \in {"commands", "done", "failed"}
    /\ \E i \in DOMAIN list(n) : i < pos[n] /\ list(n)[i] = s
=============================================================================
