------------------------------ MODULE Placement ------------------------------
(***************************************************************************)
(* The second half of the normalisation of a masson configuration          *)
(* (legacy/masson/lib/config/normalize.js:469-746).  The services and      *)
(* their enabled dependencies are known; this module sorts the dependency  *)
(* graph, places the instances of every service on the nodes from the      *)
(* dependents to their dependencies, orders the services of each node,     *)
(* validates the local dependencies, and configures every instance from    *)
(* the dependencies to their dependents.                                   *)
(*                                                                         *)
(* An affinity is the set of nodes it matches, and the "generic any"       *)
(* affinity the code builds from several ones is their union.  A node is   *)
(* known by its fqdn.  The code of normalize.js is synchronous apart from  *)
(* the loading of modules: a step of the model is the work on one service  *)
(* or, when the services are configured, on one instance.                  *)
(***************************************************************************)
EXTENDS PlacementInput, SequencesExt, TLC

CONSTANT Inputs  \* configurations to normalise

VARIABLES
  services,     \* the registered services
  deps,         \* their enabled dependencies
  affinity,     \* service -> the affinities it has
  status,       \* what normalize.js is doing
  graph,        \* config.graph, the services in dependency order
  index,        \* position in graph of the service being worked on
  instances,    \* service -> the nodes it runs on
  nodeServices, \* node -> config.nodes[node].services
  merged,       \* instances which received their options
  pending,      \* instances of the current service left to configure
  configured    \* instances whose configure function returned

config == <<services, deps>>
vars == <<services, deps, affinity, status, graph, index, instances,
          nodeServices, merged, pending, configured>>

ASSUME InputsAssumption == \A in \in Inputs : WellFormed(in)

Init ==
  \E in \in Inputs :
    /\ services = in.services
    /\ deps = in.deps
    /\ affinity = in.affinity
    /\ nodeServices = in.declared
    /\ status = "sort"
    /\ graph = << >>
    /\ index = 0
    /\ instances = [s \in Service |-> {}]
    /\ merged = {}
    /\ pending = {}
    /\ configured = {}

-----------------------------------------------------------------------------
(***************************************************************************)
(* Graph ordering.  A dependency orders two services unless the target has *)
(* the name of the service, whichever its cluster.                         *)
(***************************************************************************)
Orders(d) == d.to[2] # d.from[2]

\* Mutant: a service which depends on itself is ordered, too.
AllEdges == {<<d.to, d.from>> : d \in deps}

\* Mutant: the arguments of graph.add swapped.
SwappedEdges == {<<d.from, d.to>> : d \in {e \in deps : Orders(e)}}

Edges == {<<d.to, d.from>> : d \in {e \in deps : Orders(e)}}

IsTopologicalSort(o) ==
  /\ IsInjective(o)
  /\ \A s \in services : \E i \in DOMAIN o : o[i] = s
  /\ \A i, j \in DOMAIN o : <<o[i], o[j]>> \in Edges => i < j

Orderings == {o \in [1..Cardinality(services) -> services] :
                IsTopologicalSort(o)}

Sort ==
  /\ status = "sort"
  /\ \E o \in Orderings :
       /\ graph' = o
       /\ index' = Len(o)
  /\ status' = "place"
  /\ UNCHANGED <<config, affinity, instances, nodeServices, merged, pending,
                 configured>>

RejectCycle ==
  /\ status = "sort"
  /\ Orderings = {}
  /\ status' = "cycle"
  /\ UNCHANGED <<config, affinity, graph, index, instances, nodeServices,
                 merged, pending, configured>>

(***************************************************************************)
(* Affinity discovery, from the last service of the graph to the first:    *)
(* the service takes the nodes its affinities match, enters the service    *)
(* list of those nodes, and gives its nodes as an affinity to the          *)
(* dependencies marked as auto.                                            *)
(***************************************************************************)
\* Mutant: several affinities combined with "all".
ResolveAll(s) == {n \in UNION affinity[s] : \A A \in affinity[s] : n \in A}

Resolve(s) == UNION affinity[s]

\* Mutant: an affinity handed only to the dependencies which are local too.
LocalAutoTargets(s) ==
  {d.to : d \in {e \in deps : e.from = s /\ e.auto /\ e.local}}

AutoTargets(s) == {d.to : d \in {e \in deps : e.from = s /\ e.auto}}

\* Mutant: a service the node declares is pushed again.
EnlistAgain(s, nodes) ==
  [n \in Node |-> IF n \in nodes THEN Append(nodeServices[n], s)
                                  ELSE nodeServices[n]]

Enlist(s, nodes) ==
  [n \in Node |-> IF n \in nodes /\ ~Contains(nodeServices[n], s)
                  THEN Append(nodeServices[n], s)
                  ELSE nodeServices[n]]

Place ==
  /\ status = "place"
  /\ index > 0
  /\ LET s == graph[index] IN
       /\ instances' = [instances EXCEPT ![s] = Resolve(s)]
       /\ nodeServices' = Enlist(s, Resolve(s))
       /\ affinity' = [t \in Service |-> IF t \in AutoTargets(s)
                                         THEN affinity[t] \union {Resolve(s)}
                                         ELSE affinity[t]]
  /\ index' = index - 1
  /\ UNCHANGED <<config, status, graph, merged, pending, configured>>

(***************************************************************************)
(* Re-order node services: a sort by position in the graph.                *)
(***************************************************************************)
Position(s) == CHOOSE i \in DOMAIN graph : graph[i] = s

\* Mutant: no sort.
Unsorted(l) == {l}

Rearrangements(l) ==
  {[i \in DOMAIN l |-> l[p[i]]] : p \in Bijection(DOMAIN l, DOMAIN l)}

Sortings(l) ==
  {m \in Rearrangements(l) :
     \A i, j \in DOMAIN m : i < j => Position(m[i]) <= Position(m[j])}

Reorder ==
  /\ status = "place"
  /\ index = 0
  /\ \E lists \in [Node -> UNION {Sortings(nodeServices[n]) : n \in Node}] :
       /\ \A n \in Node : lists[n] \in Sortings(nodeServices[n])
       /\ nodeServices' = lists
  /\ status' = "validate"
  /\ UNCHANGED <<config, affinity, graph, index, instances, merged, pending,
                 configured>>

(***************************************************************************)
(* Re-validate the required dependencies which must be local.              *)
(***************************************************************************)
LocalUnsatisfied ==
  \E d \in deps : d.local /\ d.required
                  /\ ~(instances[d.from] \subseteq instances[d.to])

Validate ==
  /\ status = "validate"
  /\ IF LocalUnsatisfied
     THEN status' = "local" /\ UNCHANGED index
     ELSE status' = "merge" /\ index' = 1
  /\ UNCHANGED <<config, affinity, graph, instances, nodeServices, merged,
                 pending, configured>>

-----------------------------------------------------------------------------
(***************************************************************************)
(* Enrich configuration, from the first service of the graph to the last:  *)
(* the options of all the instances of a service are merged, then every    *)
(* instance is configured.                                                 *)
(***************************************************************************)
\* Mutant: nodes where instances are expected.
NodesOf(s) == instances[s]

InstancesOf(s) == {s} \X instances[s]

\* Mutant: the two loops made one, the options merged one instance ahead.
MergesFirst(s) ==
  {i \in InstancesOf(s) : i = (CHOOSE j \in InstancesOf(s) : TRUE)}

Merges(s) == InstancesOf(s)

Merge ==
  /\ status = "merge"
  /\ index \in DOMAIN graph
  /\ merged' = merged \union Merges(graph[index])
  /\ pending' = instances[graph[index]]
  /\ status' = "configure"
  /\ UNCHANGED <<config, affinity, graph, index, instances, nodeServices,
                 configured>>

SingleUnsatisfied(s) ==
  \E d \in deps : d.from = s /\ d.single /\ Cardinality(instances[d.to]) # 1

Configure(n) ==
  /\ status = "configure"
  /\ n \in pending
  /\ ~SingleUnsatisfied(graph[index])
  /\ configured' = configured \union {<<graph[index], n>>}
  /\ pending' = pending \ {n}
  /\ UNCHANGED <<config, affinity, status, graph, index, instances,
                 nodeServices, merged>>

\* The single option does not apply, or the configure function throws.
RejectConfigure ==
  /\ status = "configure"
  /\ pending # {}
  /\ status' = IF SingleUnsatisfied(graph[index]) THEN "single" ELSE "thrown"
  /\ UNCHANGED <<config, affinity, graph, index, instances, nodeServices,
                 merged, pending, configured>>

\* Mutant: the counter of the loop over the services is not incremented.
SameService ==
  /\ status = "configure"
  /\ pending = {}
  /\ status' = "merge"
  /\ UNCHANGED <<config, affinity, graph, index, instances, nodeServices,
                 merged, pending, configured>>

NextService ==
  /\ status = "configure"
  /\ pending = {}
  /\ index' = index + 1
  /\ status' = "merge"
  /\ UNCHANGED <<config, affinity, graph, instances, nodeServices, merged,
                 pending, configured>>

Return ==
  /\ status = "merge"
  /\ index \notin DOMAIN graph
  /\ status' = "done"
  /\ UNCHANGED <<config, affinity, graph, index, instances, nodeServices,
                 merged, pending, configured>>

Next ==
  \/ Sort
  \/ RejectCycle
  \/ Place
  \/ Reorder
  \/ Validate
  \/ Merge
  \/ \E n \in Node : Configure(n)
  \/ RejectConfigure
  \/ NextService
  \/ Return

Spec == Init /\ [][Next]_vars

\* normalize.js never waits on anything but the loading of a module.
FairSpec == Spec /\ WF_vars(Next)

-----------------------------------------------------------------------------
Rejected == {"cycle", "local", "single", "thrown"}
Enriching == {"merge", "configure", "done", "single", "thrown"}
Placed == {"validate", "local"} \union Enriching

\* The variables other than the service lists of the nodes have their type.
ControlTypeOK ==
  /\ services \subseteq Service
  /\ IsFiniteSet(services)
  /\ deps \subseteq Dependency
  /\ \A d \in deps : {d.from, d.to} \subseteq services
  /\ affinity \in [Service -> SUBSET SUBSET Node]
  /\ status \in {"sort", "place", "cycle"} \union Placed
  /\ graph \in Seq(services)
  /\ index \in 0..(Len(graph) + 1)
  /\ status = "place" => index <= Len(graph)
  /\ status \in {"configure", "single", "thrown"} => index \in DOMAIN graph
  /\ instances \in [Service -> SUBSET Node]
  /\ merged \subseteq Service \X Node
  /\ pending \subseteq Node
  /\ configured \subseteq Service \X Node

(* Every variable of the normalisation has its type. *)
TypeOK == ControlTypeOK /\ nodeServices \in [Node -> Seq(services)]

\* A service depends on one of the services C, of another name.
DependsOn(s, C) == \E d \in deps : d.from = s /\ d.to \in C /\ d.to[2] # s[2]

Cyclic ==
  \E C \in SUBSET services : C # {} /\ \A s \in C : DependsOn(s, C)

(* A configuration is rejected for its cycles exactly if it has some: one  *)
(* of whatever length is found, and no configuration without any is        *)
(* rejected, also when services depend on themselves or on services of     *)
(* their name in another cluster (normalize.js:470-495).                   *)
RejectsCycles == status # "sort" => (status = "cycle" <=> Cyclic)

(* When the configure function of an instance has run, it has run for      *)
(* every instance of the services it depends on: the recipes read what     *)
(* those functions computed, and write into it (normalize.js:694-743).     *)
ConfiguredAfterDeps ==
  \A d \in deps : Orders(d) =>
    \A n \in Node : <<d.from, n>> \in configured
                    => InstancesOf(d.to) \subseteq configured

(* The options of an instance are merged before any dependent sees it, and *)
(* a service which depends on itself finds the options of all its own      *)
(* instances (the two loops of normalize.js:660-745).                      *)
MergedBeforeRead ==
  \A d \in deps : Orders(d) \/ d.to = d.from =>
    \A n \in Node : <<d.from, n>> \in configured
                    => InstancesOf(d.to) \subseteq merged

(* Once placement is over, a service marked as auto runs on every node of  *)
(* the services which depend on it, however long the chain of auto         *)
(* dependencies which brought it there (normalize.js:574-595).             *)
AutoCoLocated ==
  status \in Placed =>
    \A d \in deps : d.auto /\ Orders(d)
                    => instances[d.from] \subseteq instances[d.to]

(* An instance is in the service list of its node exactly once, which is   *)
(* what the merge of options (normalize.js:664-669) and the commands of    *)
(* clusters.js rely on.                                                    *)
ListedOnce ==
  status \in Placed =>
    \A s \in services : \A n \in instances[s] :
      Cardinality({i \in DOMAIN nodeServices[n] : nodeServices[n][i] = s}) = 1

(* The service list of every node, which is the order in which a command   *)
(* runs there, has the dependencies before their dependents                *)
(* (normalize.js:598-607).                                                 *)
NodeOrder ==
  status \in Enriching =>
    \A n \in Node : \A i, j \in DOMAIN nodeServices[n] :
      <<nodeServices[n][i], nodeServices[n][j]>> \in Edges => i < j

\* What the run of a command receives from the normalisation.
Run == INSTANCE RunInput

Normalised ==
  [rank |-> [s \in Service |-> IF s \in services THEN Position(s) ELSE 0],
   list |-> nodeServices,
   instances |-> UNION {InstancesOf(s) : s \in services},
   deps |-> {<<d.from, d.to>> : d \in deps},
   waits |-> {}, plugins |-> {}, selected |-> {}, targets |-> {},
   up |-> {}, flaky |-> {}]

(* A configuration without dependencies between services of one name is    *)
(* handed over in the form the run of a command relies on: the lists of    *)
(* the nodes follow one graph, in which the dependencies come first, and   *)
(* every instance is listed (normalize.js:494-607, 746-754 against         *)
(* clusters.js:26-118).                                                    *)
ReadyToRun ==
  status = "done" /\ (\A d \in deps : Orders(d)) => Run!WellFormed(Normalised)

(* Marking as auto every dependency which is local and required is enough  *)
(* for the validation of local dependencies never to reject.               *)
AutoSatisfiesLocal ==
  status = "local" =>
    \E d \in deps : d.local /\ d.required /\ ~(d.auto /\ Orders(d))

(* The normalisation ends, whatever the dependencies. *)
Settles == <>(status \in Rejected \union {"done"})

-----------------------------------------------------------------------------
\* Strengthenings which make the invariants above inductive.

\* Past the sort, the graph is in dependency order.
GraphSorted == status \notin {"sort", "cycle"} => IsTopologicalSort(graph)

\* While services are placed from the last to the first, a dependent which
\* is placed has handed its nodes over to its auto dependencies, and a
\* dependency which is placed has received those of all its dependents.
Handover ==
  status = "place" =>
    \A d \in deps : d.auto /\ Orders(d) =>
      \A j \in DOMAIN graph : j > index =>
        /\ graph[j] = d.from => instances[d.from] \in affinity[d.to]
        /\ graph[j] = d.to => instances[d.from] \subseteq instances[d.to]

\* The work on the services before the current one is over, and none has
\* begun on the services after it.
Progress ==
  /\ status \in Enriching =>
       /\ \A j \in DOMAIN graph : j < index =>
            InstancesOf(graph[j]) \subseteq configured \intersect merged
       /\ index \in DOMAIN graph /\ status # "merge" =>
            InstancesOf(graph[index]) \subseteq merged
       /\ status = "configure" =>
            InstancesOf(graph[index])
              \subseteq configured \union ({graph[index]} \X pending)
       /\ \A s \in Service, n \in Node : <<s, n>> \in configured =>
            \E j \in DOMAIN graph :
              graph[j] = s /\ j <= index /\ (status = "merge" => j < index)
  /\ status \notin Enriching => configured = {}

\* A list holds a service once, an instance is in the list of its node, and
\* past the sort the lists follow the graph.
Listed ==
  /\ nodeServices \in [Node -> Seq(services)]
  /\ \A n \in Node : IsInjective(nodeServices[n])
  /\ \A s \in Service : \A n \in instances[s] : s \in Range(nodeServices[n])
  /\ status \in Placed =>
       \A n \in Node : \A i, j \in DOMAIN nodeServices[n] :
         i < j => Position(nodeServices[n][i]) < Position(nodeServices[n][j])

IInv == GraphSorted /\ Handover /\ Progress /\ AutoCoLocated /\ Listed

(* Every instance of a dependency marked as auto is placed, also when the  *)
(* two services have the same name in two clusters.                        *)
AutoAlwaysCoLocated ==
  status \in Placed =>
    \A d \in deps : d.auto => instances[d.from] \subseteq instances[d.to]

(* Every service in the list of a node has an instance on that node: the   *)
(* commands retrieve it, and throw when there is none (clusters.js:84-101, *)
(* array_get.js:17-19).                                                    *)
ListedHaveInstances ==
  status \in Placed =>
    \A n \in Node : \A i \in DOMAIN nodeServices[n] :
      n \in instances[nodeServices[n][i]]
=============================================================================
