------------------------------ MODULE RunInput ------------------------------
(***************************************************************************)
(* What the run of a command on the nodes                                  *)
(* (legacy/masson/lib/commands/clusters.js) receives: a normalised         *)
(* configuration, filters, and the outside world.                          *)
(***************************************************************************)
EXTENDS Naturals, Sequences

CONSTANTS
  Service,  \* services of all clusters
  Node      \* nodes

(***************************************************************************)
(* rank is the position of the services in config.graph, list the services *)
(* of the nodes in that order, instances those of the services, deps the   *)
(* dependencies, waits the ones which recipes wait for, plugins the        *)
(* services with a plugin, selected those which pass the filters and have  *)
(* the command, targets the nodes which pass the filters, up what is up    *)
(* beforehand and flaky the nodes on which calls may fail.                 *)
(***************************************************************************)
WellFormed(in) ==
  /\ in.rank \in [Service -> Nat]
  /\ in.list \in [Node -> Seq(Service)]
  /\ in.instances \subseteq Service \X Node
  /\ in.deps \subseteq Service \X Service
  /\ in.waits \subseteq in.deps
  /\ in.plugins \subseteq Service
  /\ in.selected \subseteq Service
  /\ in.targets \subseteq Node
  /\ in.up \subseteq in.instances
  /\ in.flaky \subseteq Node
  /\ \A d \in in.deps : in.rank[d[2]] < in.rank[d[1]]
  /\ \A n \in Node : \A i, j \in DOMAIN in.list[n] :
       i < j => in.rank[in.list[n][i]] < in.rank[in.list[n][j]]
  /\ \A s \in Service, n \in Node :
       <<s, n>> \in in.instances => \E i \in DOMAIN in.list[n] : in.list[n][i] = s
=============================================================================
