---------------------------- MODULE MCPlacement ----------------------------
(***************************************************************************)
(* Model values for Placement: three services, two of them with the same   *)
(* name in two clusters, two nodes, up to two dependencies of every kind   *)
(* between any services (cycles and self dependencies included), services  *)
(* placed on no node, on one or on two, and a service a node declares.     *)
(***************************************************************************)
EXTENDS Placement

CONSTANTS c1, c2, a, b, n1, n2

MCServices == {<<c1, a>>, <<c1, b>>, <<c2, a>>}

Kinds == {
  [auto |-> FALSE, local |-> FALSE, required |-> FALSE, single |-> FALSE],
  [auto |-> TRUE,  local |-> FALSE, required |-> FALSE, single |-> FALSE],
  [auto |-> TRUE,  local |-> TRUE,  required |-> TRUE,  single |-> FALSE],
  [auto |-> FALSE, local |-> TRUE,  required |-> TRUE,  single |-> FALSE],
  [auto |-> FALSE, local |-> FALSE, required |-> FALSE, single |-> TRUE]}

MCDeps == {[from |-> s, to |-> t, auto |-> k.auto, local |-> k.local,
            required |-> k.required, single |-> k.single] :
             s \in MCServices, t \in MCServices, k \in Kinds}

\* The affinities the configuration gives to each service.
MCAffinity ==
  {[s \in Service |-> CASE s = <<c1, a>> -> x
                       [] s = <<c1, b>> -> y
                       [] s = <<c2, a>> -> z
                       [] OTHER -> {}] :
     x \in {{{n1}}, {{n1}, {n1, n2}}}, y \in {{}, {{n1}}}, z \in {{}, {{n1}}}}

MCInputs ==
  {[services |-> MCServices, deps |-> {d, e}, affinity |-> aff,
    declared |-> [n \in Node |-> IF n = n1 THEN << <<c1, b>> >> ELSE << >>]] :
     d \in MCDeps, e \in MCDeps, aff \in MCAffinity}
=============================================================================
