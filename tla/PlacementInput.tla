---------------------------- MODULE PlacementInput ----------------------------
(***************************************************************************)
(* What the first half of legacy/masson/lib/config/normalize.js, the       *)
(* discovery, hands over to the second, the placement.                     *)
(***************************************************************************)
EXTENDS Naturals, Sequences, FiniteSets, Functions

CONSTANTS
  Cluster,  \* cluster ids
  Name,     \* service ids, unique inside a cluster
  Node      \* node ids

Service == Cluster \X Name

Dependency == [from: Service, to: Service, auto: BOOLEAN, local: BOOLEAN,
               required: BOOLEAN, single: BOOLEAN]

(***************************************************************************)
(* The registered services, their enabled dependencies, the affinities of  *)
(* the services, and the services each node declares.  The placement reads *)
(* the services of both ends of a dependency unguarded.  A list which      *)
(* comes from an object holds a service at most once.                      *)
(***************************************************************************)
WellFormed(in) ==
  /\ in.services \subseteq Service
  /\ IsFiniteSet(in.services)
  /\ in.deps \subseteq Dependency
  /\ \A d \in in.deps : {d.from, d.to} \subseteq in.services
  /\ in.affinity \in [Service -> SUBSET SUBSET Node]
  /\ in.declared \in [Node -> Seq(in.services)]
  /\ \A n \in Node : IsInjective(in.declared[n])
=============================================================================
