--------------------------- MODULE PlacementProofs ---------------------------
(***************************************************************************)
(* Proofs about Placement, for every set of clusters, services and nodes   *)
(* and every well-formed configuration.                                    *)
(***************************************************************************)
EXTENDS Placement, FiniteSetTheorems, SequenceTheorems, WellFoundedInduction,
        TLAPS

-----------------------------------------------------------------------------
(* The control variables keep their types (normalize.js:469-746). *)
LEMMA ControlTyped == Spec => []ControlTypeOK
<1>1. Init => ControlTypeOK
  BY InputsAssumption DEF Init, ControlTypeOK, WellFormed
<1>2. ControlTypeOK /\ [Next]_vars => ControlTypeOK'
  <2> SUFFICES ASSUME ControlTypeOK, [Next]_vars PROVE ControlTypeOK'
    OBVIOUS
  <2> USE DEF ControlTypeOK, Placed, Enriching
  <2>1. CASE Sort
    <3>1. PICK o \in Orderings : graph' = o /\ index' = Len(o)
      BY <2>1 DEF Sort
    <3>2. Cardinality(services) \in Nat
      BY FS_CardinalityType
    <3>3. o \in Seq(services)
      BY <3>2 DEF Orderings
    <3>4. Len(o) \in Nat
      BY <3>3
    <3> QED
      BY <2>1, <3>1, <3>3, <3>4 DEF Sort, config
  <2>2. CASE RejectCycle
    BY <2>2 DEF RejectCycle, config
  <2>3. CASE Place
    <3>1. index - 1 \in 0..(Len(graph) + 1)
      BY <2>3 DEF Place
    <3>2. graph[index] \in Service => Resolve(graph[index]) \subseteq Node
      BY DEF Resolve
    <3>3. instances' \in [Service -> SUBSET Node]
      BY <2>3, <3>2 DEF Place
    <3>4. index \in 1..Len(graph) => graph[index] \in Service
      BY ElementOfSeq
    <3> QED
      BY <2>3, <3>1, <3>2, <3>3 DEF Place, config
  <2>4. CASE Reorder
    BY <2>4 DEF Reorder, config
  <2>5. CASE Validate
    BY <2>5 DEF Validate, config
  <2>6. CASE Merge
    <3>1. graph[index] \in Service
      BY <2>6, ElementOfSeq DEF Merge
    <3>2. InstancesOf(graph[index]) \subseteq Service \X Node
      BY <3>1 DEF InstancesOf
    <3>3. pending' \subseteq Node
      BY <2>6, <3>1 DEF Merge
    <3> QED
      BY <2>6, <3>2, <3>3 DEF Merge, Merges, config
  <2>7. ASSUME NEW n \in Node, Configure(n) PROVE ControlTypeOK'
    <3>1. graph[index] \in Service
      BY <2>7, ElementOfSeq DEF Configure
    <3>2. configured' \subseteq Service \X Node
      BY <2>7, <3>1 DEF Configure
    <3> QED
      BY <2>7, <3>2 DEF Configure, config
  <2>8. CASE RejectConfigure
    BY <2>8 DEF RejectConfigure, config
  <2>9. CASE NextService
    <3>1. index + 1 \in 0..(Len(graph) + 1)
      BY <2>9, LenProperties DEF NextService
    <3> QED
      BY <2>9, <3>1 DEF NextService, config
  <2>10. CASE Return
    BY <2>10 DEF Return, config
  <2>11. CASE UNCHANGED vars
    BY <2>11 DEF vars, config
  <2> QED
    BY <2>1, <2>2, <2>3, <2>4, <2>5, <2>6, <2>7, <2>8, <2>9, <2>10, <2>11
       DEF Next
<1> QED
  BY <1>1, <1>2, PTL DEF Spec
-----------------------------------------------------------------------------
(* What follows the sort works on a topological sort of the dependency     *)
(* graph (normalize.js:470-495).                                           *)
LEMMA Sorted == Spec => []GraphSorted
<1>1. Init => GraphSorted
  BY DEF Init, GraphSorted
<1>2. GraphSorted /\ [Next]_vars => GraphSorted'
  <2> SUFFICES ASSUME GraphSorted, [Next]_vars PROVE GraphSorted'
    OBVIOUS
  <2> USE DEF GraphSorted, IsTopologicalSort, Edges, Orders, IsInjective, config
  <2>1. CASE Sort
    BY <2>1 DEF Sort, Orderings
  <2>2. CASE RejectCycle
    BY <2>2 DEF RejectCycle
  <2>3. CASE Place
    BY <2>3 DEF Place
  <2>4. CASE Reorder
    BY <2>4 DEF Reorder
  <2>5. CASE Validate
    BY <2>5 DEF Validate
  <2>6. CASE Merge
    BY <2>6 DEF Merge
  <2>7. ASSUME NEW n \in Node, Configure(n) PROVE GraphSorted'
    BY <2>7 DEF Configure
  <2>8. CASE RejectConfigure
    BY <2>8 DEF RejectConfigure
  <2>9. CASE NextService
    BY <2>9 DEF NextService
  <2>10. CASE Return
    BY <2>10 DEF Return
  <2>11. CASE UNCHANGED vars
    BY <2>11 DEF vars
  <2> QED
    BY <2>1, <2>2, <2>3, <2>4, <2>5, <2>6, <2>7, <2>8, <2>9, <2>10, <2>11
       DEF Next
<1> QED
  BY <1>1, <1>2, PTL DEF Spec

-----------------------------------------------------------------------------
(* Every set of natural numbers has a least element. *)
LEMMA LeastNumber ==
  ASSUME NEW D \in SUBSET Nat, D # {}
  PROVE  \E d \in D : \A e \in D : ~(e < d)
<1> DEFINE R == {p \in Nat \X Nat : p[1] < p[2]}
<1>1. IsWellFoundedOn(R, Nat)
  BY NatLessThanWellFounded DEF OpToRel
<1>2. PICK d \in D : \A e \in D : <<e, d>> \notin R
  <2> HIDE DEF R
  <2> QED
    BY <1>1, WFMin
<1> QED
  BY <1>2

(* What is sorted has no cycle: the first service of a cycle would come    *)
(* after one it depends on.                                                *)
LEMMA SortedHasNoCycle ==
  ASSUME NEW N \in Nat, NEW o \in [1..N -> services], IsTopologicalSort(o)
  PROVE  ~Cyclic
<1> SUFFICES ASSUME NEW C \in SUBSET services, C # {},
                    \A s \in C : \E t \in C : <<t, s>> \in Edges
             PROVE  FALSE
  <2>1. ASSUME NEW C \in SUBSET services, NEW s \in C, DependsOn(s, C)
        PROVE  \E t \in C : <<t, s>> \in Edges
    BY <2>1 DEF DependsOn, Edges, Orders
  <2> QED
    BY <2>1 DEF Cyclic
<1> DEFINE D == {i \in 1..N : o[i] \in C}
<1>1. \A s \in C : \E i \in D : o[i] = s
  BY DEF IsTopologicalSort
<1>2. D \in SUBSET Nat /\ D # {}
  BY <1>1
<1>3. PICK d \in D : \A e \in D : ~(e < d)
  <2> HIDE DEF D
  <2> QED
    BY <1>2, LeastNumber
<1>4. PICK t \in C : <<t, o[d]>> \in Edges
  OBVIOUS
<1>5. PICK e \in D : o[e] = t
  BY <1>1
<1>6. e < d
  BY <1>4, <1>5 DEF IsTopologicalSort
<1> QED
  BY <1>3, <1>6

\* o lists k services, those each of them depends on before it.
Begins(o, k) ==
  /\ o \in [1..k -> services]
  /\ \A i, j \in 1..k : o[i] = o[j] => i = j
  /\ \A j \in 1..k : \A t \in services :
       <<t, o[j]>> \in Edges => \E i \in 1..k : o[i] = t /\ i < j

(* A listing of some services can be continued with one of the others, if  *)
(* there is no cycle.                                                      *)
LEMMA BeginningGrows ==
  ASSUME ~Cyclic, NEW k \in Nat, NEW o, Begins(o, k),
         \E s \in services : \A i \in 1..k : o[i] # s
  PROVE  \E q : Begins(q, k + 1)
<1> DEFINE C == {s \in services : \A i \in 1..k : o[i] # s}
<1>1. PICK s \in C : \A t \in C : <<t, s>> \notin Edges
  <2>1. C \in SUBSET services /\ C # {}
    OBVIOUS
  <2>2. PICK s \in C : ~DependsOn(s, C)
    <3> HIDE DEF C
    <3> QED
      BY <2>1 DEF Cyclic
  <2>3. \A t \in C : <<t, s>> \notin Edges
    <3> HIDE DEF C
    <3> QED
      BY <2>2 DEF DependsOn, Edges, Orders
  <2> QED
    BY <2>3
<1> DEFINE q == [i \in 1..(k + 1) |-> IF i = k + 1 THEN s ELSE o[i]]
<1>2. /\ \A i \in 1..k : i \in 1..(k + 1) /\ q[i] = o[i]
      /\ k + 1 \in 1..(k + 1) /\ q[k + 1] = s
      /\ \A i \in 1..(k + 1) : i \in 1..k \/ i = k + 1
  OBVIOUS
<1>3. q \in [1..(k + 1) -> services]
  BY DEF Begins
<1> HIDE DEF q
<1>4. \A i, j \in 1..(k + 1) : q[i] = q[j] => i = j
  BY <1>2 DEF Begins
<1>5. ASSUME NEW j \in 1..(k + 1), NEW t \in services, <<t, q[j]>> \in Edges
      PROVE  \E i \in 1..(k + 1) : q[i] = t /\ i < j
  <2>1. CASE j \in 1..k
    <3>1. PICK i \in 1..k : o[i] = t /\ i < j
      BY <1>2, <1>5, <2>1 DEF Begins
    <3> QED
      BY <1>2, <3>1
  <2>2. CASE j = k + 1
    <3>1. PICK i \in 1..k : o[i] = t
      BY <1>1, <1>2, <1>5, <2>2
    <3>2. i < k + 1
      OBVIOUS
    <3> QED
      BY <1>2, <2>2, <3>1, <3>2
  <2> QED
    BY <1>2, <2>1, <2>2
<1> QED
  BY <1>3, <1>4, <1>5 DEF Begins

(* Services without a cycle can be sorted: the sort rejects no others.     *)
LEMMA OrderingExists ==
  ASSUME ControlTypeOK, ~Cyclic
  PROVE  Orderings # {}
<1> DEFINE N == Cardinality(services)
           K == {k \in 0..N : ~\E o : Begins(o, k)}
<1>1. N \in Nat /\ IsFiniteSet(services)
  BY FS_CardinalityType DEF ControlTypeOK
<1>2. ASSUME NEW k \in 0..N, NEW o, Begins(o, k)
      PROVE  /\ Cardinality({o[i] : i \in 1..k}) = k
             /\ {o[i] : i \in 1..k} \subseteq services
  <2> DEFINE R == {o[i] : i \in 1..k}
  <2>1. o \in Bijection(1..k, R)
    BY <1>2 DEF Begins, Bijection, Injection, Surjection, IsInjective
  <2>2. IsFiniteSet(1..k) /\ Cardinality(1..k) = k
    BY <1>1, FS_Interval
  <2>3. Cardinality(R) = k
    BY <2>1, <2>2, FS_Bijection DEF ExistsBijection
  <2> QED
    BY <1>2, <2>3 DEF Begins
<1>3. ASSUME NEW k \in 0..N, k < N, NEW o, Begins(o, k)
      PROVE  \E q : Begins(q, k + 1)
  <2>1. {o[i] : i \in 1..k} # services
    BY <1>1, <1>2, <1>3
  <2>2. \E s \in services : \A i \in 1..k : o[i] # s
    BY <1>2, <1>3, <2>1
  <2> QED
    BY <1>3, <2>2, BeginningGrows
<1>4. \E o : Begins(o, 0)
  <2>1. Begins([i \in 1..0 |-> {}], 0)
    BY DEF Begins
  <2> QED
    BY <2>1
<1>5. K = {}
  <2> SUFFICES ASSUME K # {} PROVE FALSE
    OBVIOUS
  <2>1. PICK k \in K : \A e \in K : ~(e < k)
    <3>1. K \in SUBSET Nat
      BY <1>1
    <3> HIDE DEF K
    <3> QED
      BY <3>1, LeastNumber
  <2>2. k \in 0..N /\ k # 0 /\ ~\E o : Begins(o, k)
    BY <1>4
  <2>3. k - 1 \in 0..N /\ k - 1 < k /\ k - 1 < N /\ (k - 1) + 1 = k
    BY <1>1, <2>2
  <2>4. \E o : Begins(o, k - 1)
    BY <2>1, <2>3
  <2> QED
    BY <1>3, <2>2, <2>3, <2>4
<1>6. PICK o : Begins(o, N)
  BY <1>1, <1>5
<1>7. {o[i] : i \in 1..N} = services
  <2>1. N \in 0..N
    BY <1>1
  <2> DEFINE R == {o[i] : i \in 1..N}
  <2>2. Cardinality(R) = Cardinality(services) /\ R \subseteq services
    BY <1>2, <1>6, <2>1
  <2> HIDE DEF R
  <2>3. R = services
    BY <1>1, <2>2, FS_Subset
  <2> QED
    BY <2>3 DEF R
<1>8. IsTopologicalSort(o)
  <2>1. DOMAIN o = 1..N
    BY <1>6 DEF Begins
  <2>2. \A s \in services : \E i \in 1..N : o[i] = s
    BY <1>7
  <2>3. \A i, j \in 1..N : <<o[i], o[j]>> \in Edges => i < j
    BY <1>6 DEF Begins
  <2>4. IsInjective(o)
    BY <1>6, <2>1 DEF Begins, IsInjective
  <2> QED
    BY <2>1, <2>2, <2>3, <2>4 DEF IsTopologicalSort
<1>9. o \in [1..N -> services]
  BY <1>6 DEF Begins
<1> QED
  BY <1>8, <1>9 DEF Orderings

(* A configuration is rejected for a cycle of dependencies exactly if it   *)
(* has one, whatever the number of services and the length of the cycle    *)
(* (normalize.js:470-495).                                                 *)
THEOREM CyclesAreRejected == Spec => []RejectsCycles
<1>1. Init => RejectsCycles
  BY DEF Init, RejectsCycles
<1>2. ControlTypeOK /\ RejectsCycles /\ [Next]_vars => RejectsCycles'
  <2> SUFFICES ASSUME ControlTypeOK, RejectsCycles, [Next]_vars PROVE RejectsCycles'
    OBVIOUS
  <2>1. services' = services /\ deps' = deps
    BY DEF Next, Sort, RejectCycle, Place, Reorder, Validate, Merge, Configure,
           RejectConfigure, NextService, Return, config, vars
  <2>2. Cyclic' = Cyclic
    BY <2>1 DEF Cyclic, DependsOn
  <2>3. CASE Sort
    <3>1. PICK o \in Orderings : graph' = o
      BY <2>3 DEF Sort
    <3>2. ~Cyclic
      <4>1. Cardinality(services) \in Nat
        BY FS_CardinalityType DEF ControlTypeOK
      <4> QED
        BY <4>1, SortedHasNoCycle DEF Orderings
    <3> QED
      BY <2>2, <2>3, <3>2 DEF Sort, RejectsCycles
  <2>4. CASE RejectCycle
    BY <2>2, <2>4, OrderingExists DEF RejectCycle, RejectsCycles
  <2>5. CASE status # "sort" /\ status # "cycle" /\ status' \notin {"sort", "cycle"}
    BY <2>2, <2>5 DEF RejectsCycles
  <2>6. CASE UNCHANGED vars
    BY <2>2, <2>6 DEF RejectsCycles, vars
  <2> QED
    BY <2>3, <2>4, <2>5, <2>6 DEF Next, Place, Reorder, Validate, Merge, Configure,
       RejectConfigure, NextService, Return
<1> QED
  BY <1>1, <1>2, ControlTyped, PTL DEF Spec

-----------------------------------------------------------------------------
(* The step which places a service keeps the promise made to the auto      *)
(* dependencies: a dependency comes before its dependents in the graph, so *)
(* it is placed after them.                                                *)
LEMMA PlaceHandsOver ==
  ASSUME ControlTypeOK, GraphSorted, Handover, Place
  PROVE  Handover'
<1> DEFINE s == graph[index]
<1>1. /\ status = "place" /\ status' = "place"
      /\ index \in 1..Len(graph) /\ index' = index - 1
      /\ UNCHANGED <<deps, graph>>
      /\ graph \in [1..Len(graph) -> services]
      /\ Len(graph) \in Nat
  BY LenProperties DEF Place, ControlTypeOK, config
<1>2. IsTopologicalSort(graph)
  BY <1>1 DEF GraphSorted
<1>3. /\ s \in Service
      /\ instances' = [instances EXCEPT ![s] = Resolve(s)]
      /\ \A t \in Service : affinity'[t] = IF t \in AutoTargets(s)
                                           THEN affinity[t] \union {Resolve(s)}
                                           ELSE affinity[t]
      /\ instances \in [Service -> SUBSET Node]
      /\ affinity \in [Service -> SUBSET SUBSET Node]
  BY <1>1 DEF Place, ControlTypeOK
<1> SUFFICES ASSUME NEW d \in deps, d.auto, Orders(d),
                    NEW j \in DOMAIN graph, j > index - 1
             PROVE  /\ graph[j] = d.from
                        => instances'[d.from] \in affinity'[d.to]
                    /\ graph[j] = d.to
                        => instances'[d.from] \subseteq instances'[d.to]
  BY <1>1 DEF Handover, Orders
<1>4. /\ d.from \in services /\ d.to \in services
      /\ d.from \in Service /\ d.to \in Service
      /\ d.from # d.to
  BY DEF ControlTypeOK, Orders
<1>5. <<d.to, d.from>> \in Edges
  BY DEF Edges
<1>6. PICK k \in DOMAIN graph : graph[k] = d.to
  BY <1>2, <1>4 DEF IsTopologicalSort
<1>7. PICK i \in DOMAIN graph : graph[i] = d.from
  BY <1>2, <1>4 DEF IsTopologicalSort
<1>8. k < i
  BY <1>2, <1>5, <1>6, <1>7 DEF IsTopologicalSort
<1>9. ASSUME graph[j] = d.from
      PROVE  instances'[d.from] \in affinity'[d.to]
  <2>1. j = i
    BY <1>2, <1>7, <1>9 DEF IsTopologicalSort, IsInjective
  <2>2. CASE j = index
    <3>1. d.to \in AutoTargets(s) /\ d.from = s
      BY <1>9, <2>2 DEF AutoTargets
    <3> QED
      BY <1>3, <1>4, <3>1
  <2>3. CASE j > index
    <3>1. d.from # s
      BY <1>1, <1>2, <1>9, <2>3 DEF IsTopologicalSort, IsInjective
    <3>2. instances[d.from] \in affinity[d.to]
      BY <1>1, <1>9, <2>3 DEF Handover
    <3> QED
      BY <1>3, <1>4, <3>1, <3>2
  <2> QED
    BY <1>1, <2>2, <2>3
<1>10. ASSUME graph[j] = d.to
       PROVE  instances'[d.from] \subseteq instances'[d.to]
  <2>1. j = k
    BY <1>2, <1>6, <1>10 DEF IsTopologicalSort, IsInjective
  <2>2. i > index /\ d.from # s
    BY <1>1, <1>2, <1>7, <1>8, <2>1 DEF IsTopologicalSort, IsInjective
  <2>3. CASE j = index
    <3>1. instances[d.from] \in affinity[d.to]
      BY <1>1, <1>7, <2>2 DEF Handover
    <3>2. d.to = s
      BY <1>10, <2>3
    <3>3. instances[d.from] \subseteq Resolve(s)
      BY <3>1, <3>2 DEF Resolve
    <3> QED
      BY <1>3, <1>4, <2>2, <3>2, <3>3
  <2>4. CASE j > index
    <3>1. d.to # s
      BY <1>1, <1>2, <1>10, <2>4 DEF IsTopologicalSort, IsInjective
    <3>2. instances[d.from] \subseteq instances[d.to]
      BY <1>1, <1>10, <2>4 DEF Handover
    <3> QED
      BY <1>3, <1>4, <2>2, <3>1, <3>2
  <2> QED
    BY <1>1, <2>3, <2>4
<1> QED
  BY <1>9, <1>10

(* Once every service is placed, a service marked as auto runs wherever a  *)
(* dependent of it runs, in every configuration (normalize.js:574-595).    *)
THEOREM AutoCoLocation == Spec => []AutoCoLocated
<1> DEFINE Inv == Handover /\ AutoCoLocated
<1>1. Init => Inv
  BY DEF Init, Handover, AutoCoLocated, Placed, Enriching
<1>2. ControlTypeOK /\ GraphSorted /\ Inv /\ [Next]_vars => Inv'
  <2> SUFFICES ASSUME ControlTypeOK, GraphSorted, Handover, AutoCoLocated,
                      [Next]_vars
               PROVE  Inv'
    OBVIOUS
  <2> USE DEF AutoCoLocated, Placed, Enriching, Orders, config
  <2>1. CASE Sort
    <3>1. status' = "place" /\ index' = Len(graph')
      BY <2>1 DEF Sort
    <3>2. graph' \in Seq(services)
      <4>1. Cardinality(services) \in Nat
        BY FS_CardinalityType DEF ControlTypeOK
      <4> QED
        BY <2>1, <4>1 DEF Sort, Orderings
    <3>3. \A j \in DOMAIN graph' : ~(j > index')
      BY <3>1, <3>2, LenProperties
    <3> QED
      BY <3>1, <3>3 DEF Handover
  <2>2. CASE RejectCycle
    BY <2>2 DEF RejectCycle, Handover
  <2>3. CASE Place
    <3>1. AutoCoLocated'
      BY <2>3 DEF Place
    <3> QED
      BY <2>3, <3>1, PlaceHandsOver
  <2>4. CASE Reorder
    <3>1. /\ status = "place" /\ index = 0 /\ status' = "validate"
          /\ UNCHANGED <<deps, instances>>
      BY <2>4 DEF Reorder
    <3>2. ASSUME NEW d \in deps, d.auto, Orders(d)
          PROVE  instances[d.from] \subseteq instances[d.to]
      <4>1. PICK k \in DOMAIN graph : graph[k] = d.to
        BY <3>1 DEF GraphSorted, IsTopologicalSort, ControlTypeOK
      <4>2. k > index
        BY <3>1, LenProperties DEF ControlTypeOK
      <4> QED
        BY <3>1, <3>2, <4>1, <4>2 DEF Handover
    <3> QED
      BY <3>1, <3>2 DEF Handover
  <2>5. CASE Validate
    BY <2>5 DEF Validate, Handover
  <2>6. CASE Merge
    BY <2>6 DEF Merge, Handover
  <2>7. ASSUME NEW n \in Node, Configure(n) PROVE Inv'
    BY <2>7 DEF Configure, Handover
  <2>8. CASE RejectConfigure
    BY <2>8 DEF RejectConfigure, Handover
  <2>9. CASE NextService
    BY <2>9 DEF NextService, Handover
  <2>10. CASE Return
    BY <2>10 DEF Return, Handover
  <2>11. CASE UNCHANGED vars
    BY <2>11 DEF vars, Handover
  <2> QED
    BY <2>1, <2>2, <2>3, <2>4, <2>5, <2>6, <2>7, <2>8, <2>9, <2>10, <2>11
       DEF Next
<1> QED
  BY <1>1, <1>2, ControlTyped, Sorted, PTL DEF Spec
(* Declaring as auto every local and required dependency makes the         *)
(* validation of local dependencies pass (normalize.js:609-652).           *)
THEOREM AutoLocalAccepted == Spec => []AutoSatisfiesLocal
<1> DEFINE Inv == status = "local" => LocalUnsatisfied
<1>1. Init => Inv
  BY DEF Init
<1>2. Inv /\ [Next]_vars => Inv'
  <2> SUFFICES ASSUME Inv, [Next]_vars PROVE Inv'
    OBVIOUS
  <2>1. CASE Validate
    BY <2>1 DEF Validate, LocalUnsatisfied, config
  <2>2. CASE UNCHANGED vars
    BY <2>2 DEF vars, LocalUnsatisfied
  <2> QED
    BY <2>1, <2>2 DEF Next, Sort, RejectCycle, Place, Reorder, Merge,
       Configure, RejectConfigure, NextService, Return, LocalUnsatisfied, config
<1>3. AutoCoLocated /\ Inv => AutoSatisfiesLocal
  BY DEF AutoCoLocated, AutoSatisfiesLocal, LocalUnsatisfied, Placed
<1> QED
  BY <1>1, <1>2, <1>3, AutoCoLocation, PTL DEF Spec

-----------------------------------------------------------------------------
(* The enrichment treats the services one after the other, in the order of *)
(* the graph (normalize.js:654-746).                                       *)
LEMMA Progresses == Spec => []Progress
<1>1. Init => Progress
  BY DEF Init, Progress, Enriching
<1>2. ControlTypeOK /\ Progress /\ [Next]_vars => Progress'
  <2> SUFFICES ASSUME ControlTypeOK, Progress, [Next]_vars PROVE Progress'
    OBVIOUS
  <2> USE DEF Enriching, InstancesOf, config
  <2>1. CASE Sort
    BY <2>1 DEF Sort, Progress
  <2>2. CASE RejectCycle
    BY <2>2 DEF RejectCycle, Progress
  <2>3. CASE Place
    BY <2>3 DEF Place, Progress
  <2>4. CASE Reorder
    BY <2>4 DEF Reorder, Progress
  <2>5. CASE Validate
    <3>1. configured' = {}
      BY <2>5 DEF Validate, Progress
    <3>2. CASE LocalUnsatisfied
      BY <2>5, <3>1, <3>2 DEF Validate, Progress
    <3>3. CASE ~LocalUnsatisfied
      <4>1. status' = "merge" /\ index' = 1 /\ graph' = graph
        BY <2>5, <3>3 DEF Validate
      <4>2. \A j \in DOMAIN graph : ~(j < 1)
        BY LenProperties DEF ControlTypeOK
      <4> QED
        BY <3>1, <4>1, <4>2 DEF Progress
    <3> QED
      BY <3>2, <3>3
  <2>6. CASE Merge
    BY <2>6 DEF Merge, Merges, Progress
  <2>7. ASSUME NEW n \in Node, Configure(n) PROVE Progress'
    <3>1. /\ status = "configure" /\ status' = "configure"
          /\ UNCHANGED <<graph, index, instances, merged>>
          /\ configured' = configured \union {<<graph[index], n>>}
          /\ pending' = pending \ {n}
          /\ index \in DOMAIN graph
      BY <2>7 DEF Configure, ControlTypeOK
    <3>2. \A s \in Service, m \in Node : <<s, m>> \in configured' =>
            \E j \in DOMAIN graph : graph[j] = s /\ j <= index
      <4>1. index <= index
        BY <3>1, LenProperties DEF ControlTypeOK
      <4> QED
        BY <3>1, <4>1 DEF Progress
    <3>3. InstancesOf(graph[index])
            \subseteq configured' \union ({graph[index]} \X pending')
      BY <3>1 DEF Progress
    <3>4. /\ \A j \in DOMAIN graph : j < index =>
               InstancesOf(graph[j]) \subseteq configured' \intersect merged
          /\ InstancesOf(graph[index]) \subseteq merged
      BY <3>1 DEF Progress
    <3> QED
      BY <3>1, <3>2, <3>3, <3>4 DEF Progress
  <2>8. CASE RejectConfigure
    BY <2>8 DEF RejectConfigure, Progress
  <2>9. CASE NextService
    <3>1. /\ status = "configure" /\ status' = "merge" /\ index' = index + 1
          /\ pending = {} /\ UNCHANGED <<graph, instances, merged, configured>>
          /\ index \in DOMAIN graph
      BY <2>9 DEF NextService, ControlTypeOK
    <3>2. InstancesOf(graph[index]) \subseteq configured \intersect merged
      BY <3>1 DEF Progress
    <3>3. \A j \in DOMAIN graph : /\ j < index + 1 <=> j < index \/ j = index
                                  /\ j < index + 1 <=> j <= index
      BY <3>1, LenProperties DEF ControlTypeOK
    <3>4. \A j \in DOMAIN graph : j < index' =>
            InstancesOf(graph[j]) \subseteq configured \intersect merged
      <4>1. ASSUME NEW j \in DOMAIN graph, j < index
            PROVE  InstancesOf(graph[j]) \subseteq configured \intersect merged
        BY <3>1, <4>1 DEF Progress
      <4>2. ASSUME NEW j \in DOMAIN graph, j = index
            PROVE  InstancesOf(graph[j]) \subseteq configured \intersect merged
        BY <3>2, <4>2
      <4> HIDE DEF InstancesOf
      <4> QED
        BY <3>1, <3>3, <4>1, <4>2
    <3>5. \A s \in Service, m \in Node : <<s, m>> \in configured =>
            \E j \in DOMAIN graph : graph[j] = s /\ j < index' /\ j <= index'
      <4>1. \A j \in DOMAIN graph : j < index' => j <= index'
        BY <3>1, LenProperties DEF ControlTypeOK
      <4> QED
        BY <3>1, <3>3, <4>1 DEF Progress
    <3> QED
      BY <3>1, <3>4, <3>5 DEF Progress
  <2>10. CASE Return
    BY <2>10 DEF Return, Progress
  <2>11. CASE UNCHANGED vars
    BY <2>11 DEF vars, Progress
  <2> QED
    BY <2>1, <2>2, <2>3, <2>4, <2>5, <2>6, <2>7, <2>8, <2>9, <2>10, <2>11
       DEF Next
<1> QED
  BY <1>1, <1>2, ControlTyped, PTL DEF Spec

(* A dependency is before its dependents in the graph, so its instances    *)
(* are done when a dependent is configured.                                *)
LEMMA DepsAreDone ==
  ASSUME ControlTypeOK, GraphSorted, Progress,
         NEW d \in deps, Orders(d), NEW n \in Node, <<d.from, n>> \in configured
  PROVE  InstancesOf(d.to) \subseteq configured \intersect merged
<1>1. status \in Enriching
  BY DEF Progress
<1>2. IsTopologicalSort(graph)
  BY <1>1 DEF GraphSorted, Enriching
<1>3. /\ d.from \in Service /\ d.to \in services
      /\ <<d.to, d.from>> \in Edges
  BY DEF ControlTypeOK, Edges
<1>4. PICK j \in DOMAIN graph : graph[j] = d.from /\ j <= index
  BY <1>1, <1>3 DEF Progress
<1>5. PICK k \in DOMAIN graph : graph[k] = d.to
  BY <1>2, <1>3 DEF IsTopologicalSort
<1>6. k < j
  BY <1>2, <1>3, <1>4, <1>5 DEF IsTopologicalSort
<1>7. k < index
  BY <1>4, <1>6, LenProperties DEF ControlTypeOK
<1> QED
  BY <1>1, <1>5, <1>7 DEF Progress

(* Whatever the configuration, the configure function of an instance runs  *)
(* after those of every instance it depends on.                            *)
THEOREM ConfigureOrder == Spec => []ConfiguredAfterDeps
<1>1. ControlTypeOK /\ GraphSorted /\ Progress => ConfiguredAfterDeps
  BY DepsAreDone DEF ConfiguredAfterDeps
<1> QED
  BY <1>1, ControlTyped, Sorted, Progresses, PTL

(* Whatever the configuration, the options of an instance are merged       *)
(* before a dependent, or a sibling of a service which depends on itself,  *)
(* is configured.                                                          *)
THEOREM MergeOrder == Spec => []MergedBeforeRead
<1>1. ASSUME ControlTypeOK, GraphSorted, Progress PROVE MergedBeforeRead
  <2> SUFFICES ASSUME NEW d \in deps, Orders(d) \/ d.to = d.from,
                      NEW n \in Node, <<d.from, n>> \in configured
               PROVE  InstancesOf(d.to) \subseteq merged
    BY DEF MergedBeforeRead
  <2>1. CASE Orders(d)
    BY <1>1, <2>1, DepsAreDone
  <2>2. CASE d.to = d.from
    <3>1. status \in Enriching /\ d.from \in Service
      BY <1>1 DEF Progress, ControlTypeOK
    <3>2. PICK j \in DOMAIN graph : /\ graph[j] = d.from /\ j <= index
                                    /\ status = "merge" => j < index
      BY <1>1, <3>1 DEF Progress
    <3>3. /\ j \in Nat /\ index \in Nat
          /\ graph[j] = d.to
      BY <1>1, <2>2, <3>2, LenProperties DEF ControlTypeOK
    <3>4. ASSUME j < index PROVE InstancesOf(graph[j]) \subseteq merged
      BY <1>1, <3>1, <3>2, <3>4 DEF Progress
    <3>5. ASSUME j = index PROVE InstancesOf(graph[index]) \subseteq merged
      BY <1>1, <3>1, <3>2, <3>3, <3>5 DEF Progress
    <3>6. j < index \/ j = index
      BY <3>2, <3>3
    <3> QED
      BY <3>3, <3>4, <3>5, <3>6
  <2> QED
    BY <2>1, <2>2
<1> QED
  BY <1>1, ControlTyped, Sorted, Progresses, PTL

-----------------------------------------------------------------------------
(* The position of a service in the graph, which Array.indexOf computes. *)
LEMMA PositionIs ==
  ASSUME ControlTypeOK, IsTopologicalSort(graph), NEW s \in services
  PROVE  Position(s) \in 1..Len(graph) /\ graph[Position(s)] = s
BY LenProperties DEF Position, IsTopologicalSort, ControlTypeOK

(* A rearranged list has the elements of the list, each once.  Sorted by   *)
(* position in the graph, it is strictly so: two services are not at the   *)
(* same position.                                                          *)
LEMMA SortedList ==
  ASSUME ControlTypeOK, IsTopologicalSort(graph),
         NEW l \in Seq(services), IsInjective(l), NEW m \in Sortings(l)
  PROVE  /\ m \in Seq(services)
         /\ IsInjective(m)
         /\ Range(m) = Range(l)
         /\ \A i, j \in DOMAIN m : i < j => Position(m[i]) < Position(m[j])
<1> DEFINE D == 1..Len(l)
<1>1. /\ Len(l) \in Nat
      /\ DOMAIN l = D
      /\ \A i \in D : l[i] \in services
  BY LenProperties, ElementOfSeq
<1>2. PICK p \in Bijection(D, D) : m = [i \in D |-> l[p[i]]]
  BY <1>1 DEF Sortings, Rearrangements
<1>3. /\ p \in [D -> D]
      /\ \A i, j \in D : p[i] = p[j] => i = j
      /\ \A i \in D : \E j \in D : p[j] = i
  BY <1>2 DEF Bijection, Injection, Surjection, IsInjective
<1>4. DOMAIN m = D /\ \A i \in D : m[i] = l[p[i]]
  BY <1>2
<1>5. m \in Seq(services) /\ \A i \in D : m[i] \in services
  BY <1>1, <1>2, <1>3
<1> HIDE DEF D
<1>6. IsInjective(m)
  <2> SUFFICES ASSUME NEW i \in D, NEW j \in D, m[i] = m[j]
               PROVE  i = j
    BY <1>4 DEF IsInjective
  <2>1. p[i] \in D /\ p[j] \in D /\ l[p[i]] = l[p[j]]
    BY <1>3, <1>4
  <2>2. p[i] = p[j]
    BY <1>1, <2>1 DEF IsInjective
  <2> QED
    BY <1>3, <2>2
<1>7. Range(m) = Range(l)
  <2>1. \A i \in D : \E j \in D : m[i] = l[j]
    BY <1>3, <1>4
  <2>2. \A i \in D : \E j \in D : m[j] = l[i]
    BY <1>3, <1>4
  <2> QED
    BY <1>1, <1>4, <2>1, <2>2 DEF Range
<1>8. ASSUME NEW i \in D, NEW j \in D, i < j
      PROVE  Position(m[i]) < Position(m[j])
  <2>1. Position(m[i]) <= Position(m[j])
    BY <1>4, <1>8 DEF Sortings
  <2>2. m[i] # m[j]
    BY <1>4, <1>6, <1>8 DEF IsInjective
  <2>3. /\ Position(m[i]) \in 1..Len(graph) /\ graph[Position(m[i])] = m[i]
        /\ Position(m[j]) \in 1..Len(graph) /\ graph[Position(m[j])] = m[j]
    BY <1>5, PositionIs
  <2>4. Len(graph) \in Nat
    BY LenProperties DEF ControlTypeOK
  <2> QED
    BY <2>1, <2>2, <2>3, <2>4
<1> QED
  BY <1>4, <1>5, <1>6, <1>7, <1>8

(* Every list of numbers has an ascending rearrangement: the one insertion *)
(* of the elements, from the first to the last, ends with.                 *)
LEMMA AscendingExists ==
  ASSUME NEW N \in Nat, NEW f \in [1..N -> Nat]
  PROVE  \E p \in Bijection(1..N, 1..N) :
           \A i, j \in 1..N : i < j => f[p[i]] <= f[p[j]]
<1> DEFINE Ascends(p, k) == /\ p \in [1..k -> 1..k]
                            /\ \A i, j \in 1..k : p[i] = p[j] => i = j
                            /\ \A i \in 1..k : \E j \in 1..k : p[j] = i
                            /\ \A i, j \in 1..k : i < j => f[p[i]] <= f[p[j]]
           Sorts(k) == \E p : Ascends(p, k)
           T == {k \in Nat : k <= N /\ ~Sorts(k)}
<1>2. Sorts(0)
  <2>1. Ascends([i \in {} |-> 0], 0)
    OBVIOUS
  <2> QED
    BY <2>1
<1>3. ASSUME NEW k \in Nat, k < N, Sorts(k) PROVE Sorts(k + 1)
  <2>1. PICK p : Ascends(p, k)
    BY <1>3
  <2>2. /\ \A i \in 1..k : p[i] \in 1..k
        /\ \A i, j \in 1..k : p[i] = p[j] => i = j
        /\ \A i, j \in 1..k : i < j => f[p[i]] <= f[p[j]]
    BY <2>1
  <2> HIDE DEF Ascends
  <2> DEFINE Larger == {i \in 1..k : f[k + 1] < f[p[i]]}
  <2>3. PICK c \in 0..k : /\ \A i \in 1..c : f[p[i]] <= f[k + 1]
                          /\ \A i \in (c + 1)..k : f[k + 1] <= f[p[i]]
    <3>1. \A i \in 1..k : p[i] \in 1..N /\ f[p[i]] \in Nat
      <4> SUFFICES ASSUME NEW i \in 1..k PROVE p[i] \in 1..N /\ f[p[i]] \in Nat
        OBVIOUS
      <4>1. p[i] \in 1..k
        BY <2>2
      <4>2. p[i] \in 1..N
        BY <1>3, <4>1
      <4> QED
        BY <4>2
    <3>2. f[k + 1] \in Nat
      BY <1>3
    <3>3. CASE Larger = {}
      <4>1. \A i \in 1..k : f[p[i]] <= f[k + 1]
        BY <3>1, <3>2, <3>3
      <4> QED
        BY <4>1
    <3>4. CASE Larger # {}
      <4>1. PICK m \in Larger : \A i \in Larger : ~(i < m)
        <5>1. Larger \subseteq Nat
          OBVIOUS
        <5> HIDE DEF Larger
        <5> QED
          BY <3>4, <5>1, LeastNumber
      <4>2. m \in 1..k /\ f[k + 1] < f[p[m]]
        OBVIOUS
      <4>3. \A i \in 1..(m - 1) : f[p[i]] <= f[k + 1]
        <5> SUFFICES ASSUME NEW i \in 1..(m - 1) PROVE f[p[i]] <= f[k + 1]
          OBVIOUS
        <5>1. i \in 1..k /\ i < m
          BY <4>2
        <5>2. i \notin Larger
          BY <4>1, <5>1
        <5> QED
          BY <3>1, <3>2, <5>1, <5>2
      <4>4. \A i \in m..k : f[k + 1] <= f[p[i]]
        <5> SUFFICES ASSUME NEW i \in m..k PROVE f[k + 1] <= f[p[i]]
          OBVIOUS
        <5>1. i \in 1..k /\ (i = m \/ m < i)
          BY <4>2
        <5>2. f[p[m]] <= f[p[i]]
          BY <2>2, <3>1, <4>2, <5>1
        <5> QED
          BY <3>1, <3>2, <4>2, <5>1, <5>2
      <4>5. m - 1 \in 0..k /\ (m - 1) + 1 = m
        BY <4>2
      <4> QED
        BY <4>3, <4>4, <4>5
    <3> QED
      BY <3>3, <3>4
  <2> DEFINE q == [i \in 1..(k + 1) |-> IF i <= c THEN p[i]
                                        ELSE IF i = c + 1 THEN k + 1
                                        ELSE p[i - 1]]
  <2>4. /\ DOMAIN q = 1..(k + 1)
        /\ \A i \in 1..c : q[i] = p[i]
        /\ q[c + 1] = k + 1
        /\ \A i \in (c + 2)..(k + 1) : q[i] = p[i - 1]
    OBVIOUS
  <2>5. \A i \in 1..(k + 1) : i \in 1..c \/ i = c + 1 \/ i \in (c + 2)..(k + 1)
    OBVIOUS
  <2>6. /\ \A i \in 1..c : i \in 1..k
        /\ \A i \in (c + 2)..(k + 1) : i - 1 \in 1..k /\ i - 1 \in (c + 1)..k
    OBVIOUS
  <2>7. q \in [1..(k + 1) -> 1..(k + 1)]
    BY <2>2
  <2> HIDE DEF q, Ascends
  <2>8. ASSUME NEW i \in 1..(k + 1), NEW j \in 1..(k + 1), q[i] = q[j]
        PROVE  i = j
    <3>1. \A e \in 1..k : p[e] # k + 1
      BY <2>2
    <3>2. CASE i = c + 1 \/ j = c + 1
      BY <2>8, <2>4, <2>5, <2>6, <3>1, <3>2
    <3>3. CASE i \in 1..c
      <4>1. CASE j \in 1..c
        BY <2>8, <2>2, <2>4, <2>6, <3>3, <4>1
      <4>2. CASE j \in (c + 2)..(k + 1)
        <5>1. i = j - 1
          BY <2>8, <2>2, <2>4, <2>6, <3>3, <4>2
        <5> QED
          BY <3>3, <4>2, <5>1
      <4> QED
        BY <2>5, <3>2, <4>1, <4>2
    <3>4. CASE i \in (c + 2)..(k + 1)
      <4>1. CASE j \in (c + 2)..(k + 1)
        <5>1. i - 1 = j - 1
          BY <2>8, <2>2, <2>4, <2>6, <3>4, <4>1
        <5> QED
          BY <5>1
      <4>2. CASE j \in 1..c
        <5>1. i - 1 = j
          BY <2>8, <2>2, <2>4, <2>6, <3>4, <4>2
        <5> QED
          BY <3>4, <4>2, <5>1
      <4> QED
        BY <2>5, <3>2, <4>1, <4>2
    <3> QED
      BY <2>5, <3>2, <3>3, <3>4
  <2>9. \A i \in 1..(k + 1) : \E j \in 1..(k + 1) : q[j] = i
    <3> SUFFICES ASSUME NEW i \in 1..(k + 1)
                 PROVE  \E j \in 1..(k + 1) : q[j] = i
      OBVIOUS
    <3>1. CASE i = k + 1
      <4>1. c + 1 \in 1..(k + 1) /\ q[c + 1] = i
        BY <2>4, <3>1
      <4> QED
        BY <4>1
    <3>2. CASE i # k + 1
      <4>1. PICK j \in 1..k : p[j] = i
        BY <2>1, <3>2 DEF Ascends
      <4>2. CASE j <= c
        <5>1. j \in 1..(k + 1) /\ q[j] = i
          BY <2>4, <4>1, <4>2
        <5> QED
          BY <5>1
      <4>3. CASE c < j
        <5>1. j + 1 \in 1..(k + 1) /\ q[j + 1] = i
          BY <2>4, <4>1, <4>3
        <5> QED
          BY <5>1
      <4> QED
        BY <4>2, <4>3
    <3> QED
      BY <3>1, <3>2
  <2>10. ASSUME NEW i \in 1..(k + 1), NEW j \in 1..(k + 1), i < j
        PROVE  f[q[i]] <= f[q[j]]
    <3>1. CASE j \in 1..c
      <4>1. i \in 1..c
        BY <2>10, <3>1
      <4> QED
        BY <2>10, <2>2, <2>4, <2>6, <3>1, <4>1
    <3>2. CASE j = c + 1
      <4>1. i \in 1..c
        BY <2>10, <3>2
      <4> QED
        BY <2>3, <2>4, <3>2, <4>1
    <3>3. CASE j \in (c + 2)..(k + 1)
      <4>1. CASE i \in 1..c
        <5>1. i < j - 1
          BY <3>3, <4>1
        <5>2. q[i] = p[i] /\ q[j] = p[j - 1]
          BY <2>4, <3>3, <4>1
        <5> QED
          BY <2>2, <2>6, <3>3, <4>1, <5>1, <5>2
      <4>2. CASE i = c + 1
        BY <2>3, <2>4, <2>6, <3>3, <4>2
      <4>3. CASE i \in (c + 2)..(k + 1)
        <5>1. i - 1 < j - 1
          BY <2>10
        <5>2. q[i] = p[i - 1] /\ q[j] = p[j - 1]
          BY <2>4, <3>3, <4>3
        <5> QED
          BY <2>2, <2>6, <3>3, <4>3, <5>1, <5>2
      <4> QED
        BY <2>5, <4>1, <4>2, <4>3
    <3> QED
      BY <2>5, <3>1, <3>2, <3>3
  <2>11. Ascends(q, k + 1)
    BY <2>7, <2>8, <2>9, <2>10 DEF Ascends
  <2> QED
    BY <2>11
<1>4. T = {}
  <2> SUFFICES ASSUME T # {} PROVE FALSE
    OBVIOUS
  <2>1. T \subseteq Nat
    OBVIOUS
  <2>2. PICK k \in T : \A i \in T : ~(i < k)
    <3> HIDE DEF T
    <3> QED
      BY <2>1, LeastNumber
  <2> HIDE DEF Sorts
  <2>3. k \in Nat /\ k <= N /\ ~Sorts(k)
    OBVIOUS
  <2>4. k # 0
    BY <1>2, <2>3
  <2>5. k - 1 \in Nat /\ k - 1 < N /\ (k - 1) + 1 = k
    BY <2>3, <2>4
  <2>6. k - 1 \notin T
    <3>1. k - 1 < k
      BY <2>3
    <3> HIDE DEF T
    <3> QED
      BY <2>2, <3>1
  <2>7. Sorts(k - 1)
    BY <2>5, <2>6
  <2> QED
    BY <1>3, <2>3, <2>5, <2>7
<1>5. Sorts(N)
  <2> HIDE DEF Sorts
  <2> QED
    BY <1>4
<1>6. PICK p : Ascends(p, N)
  BY <1>5
<1>7. p \in Bijection(1..N, 1..N)
  BY <1>6 DEF Bijection, Injection, Surjection, IsInjective
<1> QED
  BY <1>6, <1>7

(* The services of a list can be sorted: the step which re-orders the      *)
(* lists of the nodes is never without a result (normalize.js:598-607).    *)
LEMMA SortingExists ==
  ASSUME ControlTypeOK, IsTopologicalSort(graph), NEW l \in Seq(services)
  PROVE  Sortings(l) # {}
<1> DEFINE D == 1..Len(l)
           f == [i \in D |-> Position(l[i])]
<1>1. /\ Len(l) \in Nat
      /\ DOMAIN l = D
      /\ \A i \in D : l[i] \in services
  BY LenProperties, ElementOfSeq
<1>2. Len(graph) \in Nat
  BY LenProperties DEF ControlTypeOK
<1>3. f \in [D -> Nat]
  BY <1>1, <1>2, PositionIs
<1>4. PICK p \in Bijection(D, D) :
        \A i, j \in D : i < j => f[p[i]] <= f[p[j]]
  <2> HIDE DEF f
  <2> QED
    BY <1>1, <1>3, AscendingExists
<1>5. p \in [D -> D]
  BY <1>4 DEF Bijection, Injection
<1> DEFINE m == [i \in D |-> l[p[i]]]
<1>6. m \in Rearrangements(l)
  BY <1>1, <1>4 DEF Rearrangements
<1>7. ASSUME NEW i \in D, NEW j \in D, i < j
      PROVE  Position(m[i]) <= Position(m[j])
  <2>1. f[p[i]] <= f[p[j]]
    BY <1>4, <1>7
  <2>2. p[i] \in D /\ p[j] \in D
    BY <1>5
  <2> QED
    BY <2>1, <2>2
<1> QED
  BY <1>6, <1>7 DEF Sortings

(* A service which is placed enters the list of each of its nodes once. *)
LEMMA EnlistOnce ==
  ASSUME ControlTypeOK, Listed, Place
  PROVE  Listed'
<1> DEFINE s == graph[index]
           lists == Enlist(s, Resolve(s))
<1>1. /\ status = "place" /\ status' = "place"
      /\ services' = services
      /\ instances' = [instances EXCEPT ![s] = Resolve(s)]
      /\ instances \in [Service -> SUBSET Node]
      /\ nodeServices' = lists
      /\ s \in services /\ services \subseteq Service
  BY ElementOfSeq DEF Place, ControlTypeOK, config
<1>2. ASSUME NEW n \in Node
      PROVE  /\ lists[n] \in Seq(services)
             /\ IsInjective(lists[n])
             /\ Range(nodeServices[n]) \subseteq Range(lists[n])
             /\ n \in Resolve(s) => s \in Range(lists[n])
  <2> DEFINE l == nodeServices[n]
  <2>1. /\ l \in Seq(services) /\ IsInjective(l)
        /\ Len(l) \in Nat
        /\ DOMAIN l = 1..Len(l)
    BY LenProperties DEF Listed
  <2>2. CASE n \in Resolve(s) /\ ~Contains(l, s)
    <3> DEFINE m == Append(l, s)
    <3>1. lists[n] = m
      BY <2>2 DEF Enlist
    <3>2. /\ m \in Seq(services)
          /\ Len(m) = Len(l) + 1
          /\ \A i \in 1..Len(l) : m[i] = l[i]
          /\ m[Len(l) + 1] = s
      BY <1>1, <2>1, AppendProperties
    <3>3. DOMAIN m = 1..(Len(l) + 1)
      BY <3>2, LenProperties
    <3>4. \A i \in 1..Len(l) : l[i] # s
      BY <2>2 DEF Contains
    <3> HIDE DEF m
    <3>5. IsInjective(m)
      BY <2>1, <3>2, <3>3, <3>4 DEF IsInjective
    <3>6. Range(l) \subseteq Range(m) /\ s \in Range(m)
      BY <2>1, <3>2, <3>3 DEF Range
    <3> QED
      BY <3>1, <3>2, <3>5, <3>6
  <2>3. CASE ~(n \in Resolve(s) /\ ~Contains(l, s))
    <3>1. lists[n] = l
      BY <2>3 DEF Enlist
    <3>2. n \in Resolve(s) => s \in Range(l)
      BY <2>1, <2>3 DEF Contains, Range
    <3> QED
      BY <2>1, <3>1, <3>2
  <2> QED
    BY <2>2, <2>3
<1>3. lists \in [Node -> Seq(services)]
  <2>1. \E f : lists = [n \in Node |-> f[n]]
    BY DEF Enlist
  <2> QED
    BY <1>2, <2>1
<1>4. ASSUME NEW t \in Service, NEW n \in instances'[t]
      PROVE  t \in Range(lists[n])
  <2>1. n \in Node
    BY <1>1, <1>4 DEF ControlTypeOK, Resolve
  <2>2. CASE t = s
    BY <1>1, <1>2, <2>1, <2>2
  <2>3. CASE t # s
    BY <1>1, <1>2, <2>1, <2>3 DEF Listed
  <2> QED
    BY <2>2, <2>3
<1> QED
  BY <1>1, <1>2, <1>3, <1>4 DEF Listed, Placed, Enriching

(* Whatever the configuration, a list holds a service once, and the        *)
(* instances are listed (normalize.js:499-607).                            *)
LEMMA ListsHold == Spec => []Listed
<1>1. Init => Listed
  BY InputsAssumption DEF Init, Listed, WellFormed, Placed, Enriching
<1>2. ControlTypeOK /\ GraphSorted /\ Listed /\ [Next]_vars => Listed'
  <2> SUFFICES ASSUME ControlTypeOK, GraphSorted, Listed, [Next]_vars
               PROVE  Listed'
    OBVIOUS
  <2>1. CASE Place
    BY <2>1, EnlistOnce
  <2>2. CASE Reorder
    <3>1. /\ IsTopologicalSort(graph)
          /\ UNCHANGED <<services, graph, instances>>
      BY <2>2 DEF Reorder, GraphSorted, config
    <3>2. /\ nodeServices' \in [Node -> UNION {Sortings(nodeServices[n]) : n \in Node}]
          /\ \A n \in Node : nodeServices'[n] \in Sortings(nodeServices[n])
      BY <2>2 DEF Reorder
    <3>3. ASSUME NEW n \in Node
          PROVE  LET l == nodeServices'[n] IN
                 /\ l \in Seq(services)
                 /\ IsInjective(l)
                 /\ Range(l) = Range(nodeServices[n])
                 /\ \A i, j \in DOMAIN l : i < j => Position(l[i]) < Position(l[j])
      <4>1. nodeServices[n] \in Seq(services) /\ IsInjective(nodeServices[n])
        BY DEF Listed
      <4>2. nodeServices'[n] \in Sortings(nodeServices[n])
        BY <3>2
      <4> QED
        BY <3>1, <4>1, <4>2, SortedList
    <3>4. nodeServices' \in [Node -> Seq(services)]
      BY <3>2, <3>3
    <3>5. \A s \in Service : \A n \in instances[s] : s \in Range(nodeServices'[n])
      BY <3>3 DEF Listed, ControlTypeOK
    <3> QED
      BY <3>1, <3>3, <3>4, <3>5 DEF Listed, Position
  <2>3. CASE Sort
    BY <2>3 DEF Sort, Listed, Placed, Enriching, config
  <2>4. CASE RejectCycle
    BY <2>4 DEF RejectCycle, Listed, Placed, Enriching, config
  <2>5. ASSUME status \in Placed, UNCHANGED <<config, graph, instances, nodeServices>>
        PROVE  Listed'
    BY <2>5 DEF Listed, Position, config
  <2>6. CASE Validate
    BY <2>5, <2>6 DEF Validate, Placed, Enriching
  <2>7. CASE Merge
    BY <2>5, <2>7 DEF Merge, Placed, Enriching
  <2>8. ASSUME NEW n \in Node, Configure(n) PROVE Listed'
    BY <2>5, <2>8 DEF Configure, Placed, Enriching
  <2>9. CASE RejectConfigure
    BY <2>5, <2>9 DEF RejectConfigure, Placed, Enriching
  <2>10. CASE NextService
    BY <2>5, <2>10 DEF NextService, Placed, Enriching
  <2>11. CASE Return
    BY <2>5, <2>11 DEF Return, Placed, Enriching
  <2>12. CASE UNCHANGED vars
    BY <2>12 DEF vars, config, Listed, Position
  <2> QED
    BY <2>1, <2>2, <2>3, <2>4, <2>6, <2>7, <2>8, <2>9, <2>10, <2>11, <2>12
       DEF Next
<1> QED
  BY <1>1, <1>2, ControlTyped, Sorted, PTL DEF Spec

(* Every variable of the normalisation keeps its type, whatever the        *)
(* configuration.                                                          *)
THEOREM PlacementTyped == Spec => []TypeOK
<1>1. ControlTypeOK /\ Listed => TypeOK
  BY DEF TypeOK, Listed
<1> QED
  BY <1>1, ControlTyped, ListsHold, PTL

(* Whatever the configuration, an instance is in the list of its node      *)
(* exactly once: no service is pushed twice, none is left out.             *)
THEOREM InstanceListedOnce == Spec => []ListedOnce
<1>1. ASSUME ControlTypeOK, Listed PROVE ListedOnce
  <2> SUFFICES ASSUME NEW s \in services, NEW n \in instances[s]
               PROVE  Cardinality({i \in DOMAIN nodeServices[n] :
                                     nodeServices[n][i] = s}) = 1
    BY DEF ListedOnce
  <2>1. s \in Service /\ n \in Node
    BY <1>1 DEF ControlTypeOK
  <2>2. PICK k \in DOMAIN nodeServices[n] : nodeServices[n][k] = s
    BY <1>1, <2>1 DEF Listed, Range
  <2>3. {i \in DOMAIN nodeServices[n] : nodeServices[n][i] = s} = {k}
    BY <1>1, <2>1, <2>2 DEF Listed, IsInjective
  <2> QED
    BY <2>3, FS_Singleton
<1> QED
  BY <1>1, ControlTyped, ListsHold, PTL

(* Two services of one list which the graph orders are in that order. *)
LEMMA ListOrder ==
  ASSUME ControlTypeOK, GraphSorted, Listed, status \in Placed,
         NEW d \in deps, Orders(d)
  PROVE  Position(d.to) < Position(d.from)
<1>1. IsTopologicalSort(graph)
  BY DEF GraphSorted, Placed, Enriching
<1>2. /\ d.from \in services /\ d.to \in services
      /\ <<d.to, d.from>> \in Edges
  BY DEF ControlTypeOK, Edges
<1>3. /\ Position(d.to) \in DOMAIN graph /\ graph[Position(d.to)] = d.to
      /\ Position(d.from) \in DOMAIN graph /\ graph[Position(d.from)] = d.from
  BY <1>1, <1>2, PositionIs, LenProperties DEF ControlTypeOK
<1> QED
  BY <1>1, <1>2, <1>3 DEF IsTopologicalSort

(* Whatever the configuration, a command finds the dependencies of a       *)
(* service before it in the list of a node.                                *)
THEOREM NodesInOrder == Spec => []NodeOrder
<1>1. ASSUME ControlTypeOK, GraphSorted, Listed PROVE NodeOrder
  <2> SUFFICES ASSUME status \in Enriching, NEW n \in Node,
                      NEW i \in DOMAIN nodeServices[n],
                      NEW j \in DOMAIN nodeServices[n],
                      <<nodeServices[n][i], nodeServices[n][j]>> \in Edges
               PROVE  i < j
    BY DEF NodeOrder
  <2> DEFINE l == nodeServices[n]
  <2>1. /\ l \in Seq(services)
        /\ \A a, b \in DOMAIN l : a < b => Position(l[a]) < Position(l[b])
    BY <1>1 DEF Listed, Placed
  <2>2. PICK d \in deps : Orders(d) /\ l[i] = d.to /\ l[j] = d.from
    BY DEF Edges
  <2>3. Position(l[i]) < Position(l[j])
    BY <1>1, <2>2, ListOrder DEF Placed
  <2>4. i \in Nat /\ j \in Nat
    BY <2>1, LenProperties
  <2>5. Position(l[i]) \in Nat /\ Position(l[j]) \in Nat
    <3>1. IsTopologicalSort(graph) /\ Len(graph) \in Nat
      BY <1>1, LenProperties DEF GraphSorted, Enriching, ControlTypeOK
    <3>2. l[i] \in services /\ l[j] \in services
      BY <2>1, ElementOfSeq, LenProperties
    <3> QED
      BY <1>1, <3>1, <3>2, PositionIs
  <2>6. i # j
    BY <2>3, <2>5
  <2>7. ASSUME j < i PROVE FALSE
    <3>1. Position(l[j]) < Position(l[i])
      BY <2>1, <2>7
    <3> QED
      BY <2>3, <2>5, <3>1
  <2> QED
    BY <2>4, <2>6, <2>7
<1> QED
  BY <1>1, ControlTyped, Sorted, ListsHold, PTL

(* The normalisation keeps the promise the run of a command relies on, for *)
(* every configuration without dependencies between services of one name.  *)
THEOREM HandsOverToRun == Spec => []ReadyToRun
<1>1. ASSUME ControlTypeOK, GraphSorted, Listed, status = "done",
             \A d \in deps : Orders(d)
      PROVE  Run!WellFormed(Normalised)
  <2>1. IsTopologicalSort(graph) /\ status \in Placed
    BY <1>1 DEF GraphSorted, Placed, Enriching
  <2>2. \A s \in services : Position(s) \in Nat
    BY <1>1, <2>1, PositionIs, LenProperties DEF ControlTypeOK
  <2>3. services \subseteq Service
    BY <1>1 DEF ControlTypeOK
  <2>4. Normalised.rank \in [Service -> Nat]
    BY <2>2 DEF Normalised
  <2>5. \A s \in services : Normalised.rank[s] = Position(s)
    BY <2>3 DEF Normalised
  <2>6. nodeServices \in [Node -> Seq(Service)]
    BY <1>1, <2>3, SeqMonotonic DEF Listed
  <2>7. UNION {InstancesOf(s) : s \in services} \subseteq Service \X Node
    BY <1>1 DEF InstancesOf, ControlTypeOK
  <2>8. Normalised.deps \subseteq Service \X Service
    BY <1>1, <2>3 DEF Normalised, ControlTypeOK
  <2>9. ASSUME NEW e \in Normalised.deps
        PROVE  Normalised.rank[e[2]] < Normalised.rank[e[1]]
    <3>1. PICK d \in deps : e = <<d.from, d.to>>
      BY DEF Normalised
    <3>2. d.from \in services /\ d.to \in services
      BY <1>1 DEF ControlTypeOK
    <3>3. Position(d.to) < Position(d.from)
      BY <1>1, <2>1, ListOrder
    <3> QED
      BY <2>5, <3>1, <3>2, <3>3
  <2>10. ASSUME NEW n \in Node, NEW i \in DOMAIN nodeServices[n],
                NEW j \in DOMAIN nodeServices[n], i < j
         PROVE  Normalised.rank[nodeServices[n][i]]
                  < Normalised.rank[nodeServices[n][j]]
    <3>1. nodeServices[n] \in Seq(services)
      BY <1>1 DEF Listed
    <3>2. nodeServices[n][i] \in services /\ nodeServices[n][j] \in services
      BY <3>1, ElementOfSeq, LenProperties
    <3>3. Position(nodeServices[n][i]) < Position(nodeServices[n][j])
      BY <1>1, <2>1, <2>10 DEF Listed
    <3> QED
      BY <2>5, <3>2, <3>3
  <2>11. ASSUME NEW s \in Service, NEW n \in Node,
                <<s, n>> \in UNION {InstancesOf(t) : t \in services}
         PROVE  \E i \in DOMAIN nodeServices[n] : nodeServices[n][i] = s
    <3>1. n \in instances[s]
      BY <2>11 DEF InstancesOf
    <3> QED
      BY <1>1, <3>1 DEF Listed, Range
  <2>12. /\ Normalised.list = nodeServices
         /\ Normalised.instances = UNION {InstancesOf(s) : s \in services}
         /\ Normalised.waits = {} /\ Normalised.plugins = {}
         /\ Normalised.selected = {} /\ Normalised.targets = {}
         /\ Normalised.up = {} /\ Normalised.flaky = {}
    BY DEF Normalised
  <2> HIDE DEF Normalised
  <2> QED
    BY <2>4, <2>6, <2>7, <2>8, <2>9, <2>10, <2>11, <2>12 DEF Run!WellFormed
<1> QED
  BY <1>1, ControlTyped, Sorted, ListsHold, PTL DEF ReadyToRun
=============================================================================
