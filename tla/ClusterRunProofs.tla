-------------------------- MODULE ClusterRunProofs --------------------------
(***************************************************************************)
(* Proofs about ClusterRun, for every set of services and nodes and every  *)
(* well-formed run.                                                        *)
(***************************************************************************)
EXTENDS ClusterRun, FiniteSets, SequenceTheorems, WellFoundedInduction, TLAPS

-----------------------------------------------------------------------------
(* Every variable of the run keeps its type: the instances which are       *)
(* plugged or up are those of the configuration, so that a service without *)
(* an instance on a node is never taken for one (array_get.js:2-24).       *)
THEOREM Typed == Spec => []TypeOK
<1> USE DEF TypeOK, Phases
<1>1. Init => TypeOK
  BY InputsAssumption DEF Init, WellFormed
<1>2. TypeOK /\ [Next]_vars => TypeOK'
  <2> SUFFICES ASSUME TypeOK, [Next]_vars PROVE TypeOK'
    OBVIOUS
  <2>1. CASE UNCHANGED vars
    BY <2>1 DEF vars
  <2>2. ASSUME NEW n \in Node, Filter(n) PROVE TypeOK'
    BY <2>2 DEF Filter
  <2>3. ASSUME NEW n \in Node, Open(n) PROVE TypeOK'
    BY <2>3 DEF Open
  <2>4. ASSUME NEW n \in Node, Plugin(n) PROVE TypeOK'
    BY <2>4 DEF Plugin, Orphan
  <2>5. ASSUME NEW n \in Node, EndPlugins(n) PROVE TypeOK'
    BY <2>5 DEF EndPlugins
  <2>6. ASSUME NEW n \in Node, Command(n) PROVE TypeOK'
    BY <2>6 DEF Command, Orphan
  <2>7. ASSUME NEW n \in Node, EndCommands(n) PROVE TypeOK'
    BY <2>7 DEF EndCommands
  <2>8. ASSUME NEW n \in Node, Fail(n) PROVE TypeOK'
    BY <2>8 DEF Fail
  <2>9. ASSUME NEW n \in Node, AbandonPlugins(n) PROVE TypeOK'
    BY <2>9 DEF AbandonPlugins
  <2>10. ASSUME NEW n \in Node, AbandonCommand(n) PROVE TypeOK'
    BY <2>10 DEF AbandonCommand
  <2> QED
    BY <2>1, <2>2, <2>3, <2>4, <2>5, <2>6, <2>7, <2>8, <2>9, <2>10
       DEF Next, Advance
<1> QED
  BY <1>1, <1>2, PTL DEF Spec

(* The list of a node. *)
LEMMA ListTyped ==
  ASSUME TypeOK, NEW n \in Node
  PROVE  /\ list(n) \in Seq(Service)
         /\ Len(list(n)) \in Nat
         /\ DOMAIN list(n) = 1..Len(list(n))
         /\ \A i \in DOMAIN list(n) : list(n)[i] \in Service
<1>1. list(n) \in Seq(Service)
  BY DEF TypeOK, WellFormed, list
<1> QED
  BY <1>1, LenProperties, ElementOfSeq

(* What a node has done is left alone by a step of another node. *)
LEMMA OtherNode ==
  ASSUME NEW m \in Node, Done(m), input' = input,
         phase'[m] = phase[m], pos'[m] = pos[m],
         plugged \subseteq plugged', ran \subseteq ran',
         \A s \in Service : <<s, m>> \in ran' => <<s, m>> \in ran
  PROVE  Done(m)'
  BY DEF Done, list, Selected, FilteredOut, Ran

(* What a node has done is extended by its own steps. *)
LEMMA OwnNode ==
  ASSUME TypeOK, NEW n \in Node, Advance(n), Done(n)
  PROVE  Done(n)'
<1> USE DEF Done, Ran, list, Selected
<1>1. /\ Len(list(n)) \in Nat
      /\ DOMAIN list(n) = 1..Len(list(n))
      /\ pos[n] \in Nat \ {0}
      /\ \A i \in DOMAIN list(n) : list(n)[i] \in Service
      /\ n \in DOMAIN phase /\ n \in DOMAIN pos
  BY ListTyped DEF TypeOK
<1>2. CASE Filter(n)
  BY <1>1, <1>2 DEF Filter, FilteredOut
<1>3. CASE Open(n)
  BY <1>1, <1>3 DEF Open
<1>4. CASE Plugin(n)
  <2>1. /\ phase[n] = "plugins" /\ phase'[n] = "plugins"
        /\ pos'[n] = pos[n] + 1
        /\ input' = input /\ ran' = ran
        /\ plugged \subseteq plugged'
        /\ list(n)[pos[n]] \in input.plugins => <<list(n)[pos[n]], n>> \in plugged'
    BY <1>1, <1>4 DEF Plugin, HasPlugin
  <2>2. \A i \in DOMAIN list(n) : i < pos[n] + 1 => i < pos[n] \/ i = pos[n]
    BY <1>1
  <2> QED
    BY <2>1, <2>2
<1>5. CASE EndPlugins(n)
  <2>1. \A i \in DOMAIN list(n) : i < pos[n]
    BY <1>1, <1>5 DEF EndPlugins
  <2>2. /\ phase[n] = "plugins" /\ phase'[n] = "commands" /\ pos'[n] = 1
        /\ UNCHANGED <<input, plugged, ran>>
    BY <1>1, <1>5 DEF EndPlugins
  <2>3. \A i \in DOMAIN list(n) : ~(i < 1)
    BY <1>1
  <2> QED
    BY <2>1, <2>2, <2>3
<1>6. CASE Command(n)
  <2>1. /\ phase[n] = "commands" /\ phase'[n] = "commands"
        /\ pos'[n] = pos[n] + 1 /\ pos[n] \in DOMAIN list(n)
        /\ input' = input /\ plugged' = plugged
        /\ ran \subseteq ran'
        /\ Selected(list(n)[pos[n]]) => <<list(n)[pos[n]], n>> \in ran'
        /\ \A s \in Service : <<s, n>> \in ran' => <<s, n>> \in ran \/ s = list(n)[pos[n]]
    BY <1>1, <1>6 DEF Command, Job
  <2>2. \A i \in DOMAIN list(n) : i < pos[n] + 1 => i < pos[n] \/ i = pos[n]
    BY <1>1
  <2>3. pos[n] < pos[n] + 1 /\ \A i \in DOMAIN list(n) : i < pos[n] => i < pos[n] + 1
    BY <1>1
  <2> QED
    BY <2>1, <2>2, <2>3
<1>7. CASE EndCommands(n)
  BY <1>1, <1>7 DEF EndCommands
<1> QED
  BY <1>2, <1>3, <1>4, <1>5, <1>6, <1>7 DEF Advance

(* What the nodes on which nothing may fail have done. *)
LEMMA ReachedInv == Spec => []Reached
<1>1. Init => Reached
  BY DEF Init, Reached, Done, Ran
<1>2. TypeOK /\ Reached /\ [Next]_vars => Reached'
  <2> SUFFICES ASSUME TypeOK, Reached, [Next]_vars PROVE Reached'
    OBVIOUS
  <2>1. CASE UNCHANGED vars
    BY <2>1 DEF vars, Reached, Done, Ran, list, Selected, FilteredOut, MayFail,
               Broken, Orphan, HasPlugin
  <2>2. ASSUME NEW n \in Node,
               Advance(n) \/ Fail(n) \/ AbandonPlugins(n) \/ AbandonCommand(n)
        PROVE  Reached'
    <3>1. /\ input' = input
          /\ plugged \subseteq plugged' /\ ran \subseteq ran'
          /\ \A m \in Node : m # n =>
               /\ phase'[m] = phase[m] /\ pos'[m] = pos[m]
               /\ \A s \in Service : <<s, m>> \in ran' => <<s, m>> \in ran
      BY <2>2 DEF Advance, Filter, Open, Plugin, EndPlugins, Command,
                  EndCommands, Fail, AbandonPlugins, AbandonCommand, TypeOK
    <3> SUFFICES ASSUME NEW m \in Node, ~MayFail(m)' PROVE Done(m)'
      BY DEF Reached
    <3>2. ~MayFail(m) /\ Done(m)
      BY <3>1 DEF Reached, MayFail, Broken, Orphan, HasPlugin, Selected, list
    <3>3. CASE m # n
      BY <3>1, <3>2, <3>3, OtherNode
    <3>4. CASE m = n
      <4>1. Advance(n)
        BY <2>2, <3>2, <3>4 DEF Fail, AbandonPlugins, AbandonCommand
      <4> QED
        BY <3>2, <3>4, <4>1, OwnNode
    <3> QED
      BY <3>3, <3>4
  <2> QED
    BY <2>1, <2>2 DEF Next
<1> QED
  BY <1>1, <1>2, Typed, PTL DEF Spec

-----------------------------------------------------------------------------
(* When the command of a service runs on a node, the plugins of all the    *)
(* services of the node were called (clusters.js:74-91).                   *)
THEOREM PluginsBeforeCommands == Spec => []PluginsFirst
<1>1. TypeOK /\ Reached => PluginsFirst
  <2> SUFFICES ASSUME TypeOK, Reached, NEW n \in Node, ~MayFail(n),
                      NEW i \in DOMAIN list(n), NEW j \in DOMAIN list(n),
                      Ran(list(n)[i], n), list(n)[j] \in input.plugins
               PROVE  <<list(n)[j], n>> \in plugged
    BY DEF PluginsFirst
  <2>1. list(n)[i] \in Service
    BY ListTyped
  <2> QED
    BY <2>1 DEF Reached, Done
<1> QED
  BY <1>1, Typed, ReachedInv, PTL

(* The services of a node run after those they depend on there, although   *)
(* no recipe waits for them (clusters.js:92-118).                          *)
THEOREM LocalOrder == Spec => []LocalDepsFirst
<1>1. TypeOK /\ Reached => LocalDepsFirst
  <2> SUFFICES ASSUME TypeOK, Reached, NEW n \in Node, ~MayFail(n),
                      NEW i \in DOMAIN list(n), NEW j \in DOMAIN list(n),
                      Ran(list(n)[i], n), Selected(list(n)[j]),
                      <<list(n)[i], list(n)[j]>> \in input.deps
               PROVE  Ran(list(n)[j], n)
    BY DEF LocalDepsFirst
  <2>1. /\ list(n)[i] \in Service /\ list(n)[j] \in Service
        /\ DOMAIN list(n) = 1..Len(list(n)) /\ Len(list(n)) \in Nat
        /\ pos[n] \in Nat
    BY ListTyped DEF TypeOK
  <2>2. /\ phase[n] \in {"commands", "done"}
        /\ \E k \in DOMAIN list(n) : k < pos[n] /\ list(n)[k] = list(n)[i]
    BY <2>1 DEF Reached, Done
  <2>3. PICK k \in DOMAIN list(n) : k < pos[n] /\ list(n)[k] = list(n)[i]
    BY <2>2
  <2>4. input.rank[list(n)[j]] < input.rank[list(n)[k]]
    BY <2>3 DEF TypeOK, WellFormed
  <2>5. /\ input.rank[list(n)[j]] \in Nat /\ input.rank[list(n)[k]] \in Nat
        /\ k < j => input.rank[list(n)[k]] < input.rank[list(n)[j]]
    BY <2>1, <2>3 DEF TypeOK, WellFormed, list
  <2>6. j < k
    BY <2>1, <2>4, <2>5
  <2>7. j < pos[n]
    BY <2>1, <2>3, <2>6
  <2> QED
    BY <2>2, <2>7 DEF Reached, Done
<1> QED
  BY <1>1, Typed, ReachedInv, PTL

(* A set of natural numbers has a least element. *)
LEMMA Least ==
  ASSUME NEW S, S \subseteq Nat, S # {}
  PROVE  \E x \in S : \A y \in S : x <= y
<1>1. IsWellFoundedOn({p \in Nat \X Nat : p[1] < p[2]}, Nat)
  BY NatLessThanWellFounded DEF OpToRel
<1>2. PICK x \in S : \A y \in S : <<y, x>> \notin {p \in Nat \X Nat : p[1] < p[2]}
  BY <1>1, WFMin
<1>3. \A y \in S : ~(y < x)
  BY <1>2
<1> QED
  BY <1>3

(* What is up beforehand stays up. *)
LEMMA KeptUp == Spec => [](input.up \subseteq up)
<1>1. Init => input.up \subseteq up
  BY DEF Init
<1>2. input.up \subseteq up /\ [Next]_vars => (input.up \subseteq up)'
  BY DEF Next, vars, Advance, Filter, Open, Plugin, EndPlugins, Command,
         EndCommands, Fail, AbandonPlugins, AbandonCommand
<1> QED
  BY <1>1, <1>2, PTL DEF Spec

(* A node of an independent set is not waiting for what another one, which *)
(* is not behind it in the graph, has still to run.                        *)
LEMMA Provided ==
  ASSUME TypeOK, Reached, NEW N, Independent(N), NEW m \in N, NEW t \in Service,
         <<t, m>> \in input.instances, Selected(t),
         phase[m] \in {"commands", "done", "skipped"},
         phase[m] = "commands" =>
           pos[m] \in DOMAIN list(m) /\ input.rank[t] < input.rank[Job(m)]
  PROVE  <<t, m>> \in up
<1>1. /\ m \in Node /\ m \in input.targets /\ Done(m)
      /\ DOMAIN list(m) = 1..Len(list(m)) /\ Len(list(m)) \in Nat
      /\ \A i \in DOMAIN list(m) : list(m)[i] \in Service
      /\ pos[m] \in Nat \ {0}
  BY ListTyped DEF Independent, Reached, TypeOK, WellFormed
<1>2. PICK j \in DOMAIN list(m) : list(m)[j] = t
  BY <1>1 DEF TypeOK, WellFormed, list
<1>3. phase[m] # "skipped"
  BY <1>1, <1>2 DEF Done, FilteredOut
<1>4. j < pos[m]
  <2>1. CASE phase[m] = "done"
    BY <1>1, <2>1 DEF Done
  <2>2. CASE phase[m] = "commands"
    <3>1. /\ pos[m] \in DOMAIN list(m)
          /\ input.rank[list(m)[j]] < input.rank[list(m)[pos[m]]]
      BY <1>2, <2>2 DEF Job
    <3>2. /\ pos[m] < j => input.rank[list(m)[pos[m]]] < input.rank[list(m)[j]]
          /\ input.rank[list(m)[j]] \in Nat
          /\ input.rank[list(m)[pos[m]]] \in Nat
      BY <1>1, <3>1 DEF TypeOK, WellFormed, list
    <3> QED
      BY <1>1, <3>1, <3>2
  <2> QED
    BY <1>3, <2>1, <2>2
<1> QED
  BY <1>1, <1>2, <1>3, <1>4 DEF Done, Ran, TypeOK

(* The nodes of an independent set never all wait on each other: the one   *)
(* whose next command comes first in the graph waits for nothing           *)
(* (normalize.js:598-607, clusters.js:92-118).                             *)
THEOREM DeadlockFree == Spec => []NoDeadlock
<1>1. TypeOK /\ Reached /\ input.up \subseteq up => NoDeadlock
  <2> SUFFICES ASSUME TypeOK, Reached, input.up \subseteq up,
                      NEW N \in SUBSET Node,
                      Independent(N), NEW n0 \in N, ~Ended(n0),
                      \A n \in N : ~Ready(n)
               PROVE  FALSE
    BY DEF NoDeadlock
  <2> DEFINE Stuck == {n \in N : phase[n] = "commands"}
             Ranks == {input.rank[Job(n)] : n \in Stuck}
  <2>1. \A n \in N : /\ n \in Node
                     /\ phase[n] \in {"commands", "done", "skipped"}
    BY DEF Ready, TypeOK, Phases, Reached, Done, Independent
  <2>2. \A n \in Stuck : /\ pos[n] \in DOMAIN list(n)
                         /\ Selected(Job(n))
                         /\ ~(Awaited(Job(n)) \subseteq up)
    BY DEF Ready
  <2>3. \A n \in Stuck : Job(n) \in Service /\ input.rank[Job(n)] \in Nat
    BY <2>1, <2>2, ListTyped DEF Job, TypeOK, WellFormed
  <2>4. Ranks \subseteq Nat /\ Ranks # {}
    BY <2>1, <2>3 DEF Ended
  <2>5. PICK n \in Stuck : \A m \in Stuck : input.rank[Job(n)] <= input.rank[Job(m)]
    <3> HIDE DEF Stuck
    <3>1. PICK x \in Ranks : \A y \in Ranks : x <= y
      <4> HIDE DEF Ranks
      <4> QED BY <2>4, Least
    <3> QED
      BY <3>1
  <2>6. PICK w \in Awaited(Job(n)) : w \notin up
    BY <2>2
  <2>7. PICK t \in Service, m \in Node :
          /\ w = <<t, m>> /\ w \in input.instances
          /\ <<Job(n), t>> \in input.waits
    <3>1. w \in input.instances /\ <<Job(n), w[1]>> \in input.waits
      BY <2>6 DEF Awaited
    <3>2. w \in Service \X Node
      BY <3>1 DEF TypeOK, WellFormed
    <3> QED
      BY <3>1, <3>2
  <2>8. w \in input.up \/ (m \in N /\ Selected(t))
    BY <2>1, <2>2, <2>6, <2>7 DEF Independent, Job
  <2>9. m \in N /\ Selected(t)
    BY <2>6, <2>8
  <2>10. input.rank[t] < input.rank[Job(n)]
    BY <2>7 DEF TypeOK, WellFormed
  <2>11. m \in Stuck => input.rank[t] < input.rank[Job(m)]
    BY <2>3, <2>5, <2>7, <2>10 DEF TypeOK, WellFormed
  <2>12. phase[m] = "commands" =>
           pos[m] \in DOMAIN list(m) /\ input.rank[t] < input.rank[Job(m)]
    BY <2>2, <2>9, <2>11
  <2> QED
    BY <2>1, <2>6, <2>7, <2>9, <2>12, Provided
<1> QED
  BY <1>1, Typed, ReachedInv, KeptUp, PTL
-----------------------------------------------------------------------------
(* Only the nodes which pass the filters get past them. *)
Targeted ==
  \A n \in Node : phase[n] \in {"open", "plugins", "commands"} => n \in input.targets

LEMMA TargetedInv == Spec => []Targeted
<1>1. Init => Targeted
  BY DEF Init, Targeted
<1>2. TypeOK /\ Targeted /\ [Next]_vars => Targeted'
  <2> SUFFICES ASSUME TypeOK, Targeted, [Next]_vars, NEW m \in Node,
                      phase'[m] \in {"open", "plugins", "commands"}
               PROVE  m \in input'.targets
    BY DEF Targeted
  <2>1. CASE UNCHANGED vars
    BY <2>1 DEF vars, Targeted
  <2>2. ASSUME NEW n \in Node, Filter(n) PROVE m \in input'.targets
    BY <2>2 DEF Filter, FilteredOut, Targeted, TypeOK
  <2>3. ASSUME NEW n \in Node,
               \/ Open(n) \/ Plugin(n) \/ EndPlugins(n) \/ Command(n) \/ EndCommands(n)
               \/ Fail(n) \/ AbandonPlugins(n) \/ AbandonCommand(n)
        PROVE  m \in input'.targets
    <3>1. /\ input' = input
          /\ phase'[m] \in {"open", "plugins", "commands"} =>
               phase[m] \in {"open", "plugins", "commands"}
      BY <2>3 DEF Open, Plugin, EndPlugins, Command, EndCommands, Fail,
                  AbandonPlugins, AbandonCommand, TypeOK
    <3> QED
      BY <3>1 DEF Targeted
  <2> QED
    BY <2>1, <2>2, <2>3 DEF Next, Advance
<1> QED
  BY <1>1, <1>2, Typed, PTL DEF Spec

(* When a sound node comes to a service, it has run what comes before it.  *)
LEMMA EarlierRan ==
  ASSUME TypeOK, Reached, NEW n \in Node, Promised!Sound(n),
         phase[n] = "commands", pos[n] \in DOMAIN list(n),
         NEW i \in Promised!Before(Job(n), n)
  PROVE  i \in ran
<1>1. ~MayFail(n)
  BY DEF Promised!Sound, MayFail, Broken, Orphan, list
<1>2. PICK t \in Service :
        /\ i = <<t, n>> /\ i \in input.instances /\ Selected(t)
        /\ input.rank[t] < input.rank[Job(n)]
  <2>1. /\ i \in input.instances /\ i[2] = n /\ i[1] \in input.selected
        /\ input.rank[i[1]] < input.rank[Job(n)]
    BY DEF Promised!Before
  <2>2. i \in Service \X Node
    BY <2>1 DEF TypeOK, WellFormed
  <2> QED
    BY <2>1, <2>2 DEF Selected
<1>3. PICK j \in DOMAIN list(n) : list(n)[j] = t
  BY <1>2 DEF TypeOK, WellFormed, list
<1>4. /\ DOMAIN list(n) = 1..Len(list(n)) /\ Len(list(n)) \in Nat
      /\ pos[n] \in Nat
      /\ list(n)[pos[n]] \in Service
      /\ pos[n] < j => input.rank[list(n)[pos[n]]] < input.rank[list(n)[j]]
      /\ input.rank[list(n)[pos[n]]] \in Nat
      /\ input.rank[t] \in Nat
  BY <1>3, ListTyped DEF TypeOK, WellFormed, list
<1>5. j < pos[n]
  BY <1>2, <1>3, <1>4 DEF Job
<1> QED
  BY <1>1, <1>2, <1>3, <1>5 DEF Reached, Done, Ran

(* A position is only left by moving on, and the commands start behind it. *)
LEMMA BehindInv == Spec => []Behind
<1> USE DEF Behind, Ran, list
<1>1. Init => Behind
  BY DEF Init
<1>2. TypeOK /\ Behind /\ [Next]_vars => Behind'
  <2> SUFFICES ASSUME TypeOK, Behind, [Next]_vars, NEW s \in Service, NEW m \in Node,
                      <<s, m>> \in ran'
               PROVE  /\ phase'[m] \in {"commands", "done", "failed"}
                      /\ \E i \in DOMAIN input'.list[m] :
                           i < pos'[m] /\ input'.list[m][i] = s
    OBVIOUS
  <2>1. CASE UNCHANGED vars
    BY <2>1 DEF vars
  <2>2. ASSUME NEW n \in Node,
               \/ Filter(n) \/ Open(n) \/ Plugin(n) \/ EndPlugins(n)
               \/ AbandonPlugins(n)
        PROVE  /\ m # n /\ phase'[m] = phase[m] /\ pos'[m] = pos[m]
               /\ input' = input /\ ran' = ran
    BY <2>2 DEF Filter, Open, Plugin, EndPlugins, AbandonPlugins, TypeOK
  <2>3. ASSUME NEW n \in Node, EndCommands(n) \/ Fail(n)
        PROVE  /\ m = n => phase'[m] \in {"done", "failed"}
               /\ m # n => phase'[m] = phase[m]
               /\ pos' = pos /\ input' = input /\ ran' = ran
    BY <2>3 DEF EndCommands, Fail, TypeOK
  <2>4. ASSUME NEW n \in Node, Command(n) \/ AbandonCommand(n)
        PROVE  /\ phase' = phase /\ input' = input
               /\ m # n => pos'[m] = pos[m] /\ <<s, m>> \in ran
               /\ m = n => /\ phase[m] = "commands"
                          /\ pos[m] \in DOMAIN list(m) /\ pos'[m] = pos[m] + 1
                          /\ (<<s, m>> \in ran \/ s = list(m)[pos[m]])
    BY <2>4 DEF Command, AbandonCommand, TypeOK, Job
  <2>5. pos[m] \in Nat /\ DOMAIN list(m) \subseteq Nat
    BY ListTyped DEF TypeOK
  <2>6. ASSUME NEW n \in Node, Command(n) \/ AbandonCommand(n), m = n
        PROVE  \E i \in DOMAIN list(m) : i < pos[m] + 1 /\ list(m)[i] = s
    <3>0. /\ pos[m] \in DOMAIN list(m)
          /\ (<<s, m>> \in ran \/ s = list(m)[pos[m]])
      BY <2>4, <2>6
    <3>1. CASE <<s, m>> \in ran
      <4>1. PICK i \in DOMAIN list(m) : i < pos[m] /\ list(m)[i] = s
        BY <3>1
      <4>2. i < pos[m] + 1
        BY <2>5, <4>1
      <4> QED
        BY <4>1, <4>2
    <3>2. CASE s = list(m)[pos[m]]
      <4>1. pos[m] \in DOMAIN list(m) /\ pos[m] < pos[m] + 1
        BY <2>5, <3>0
      <4> QED
        BY <3>2, <4>1
    <3> QED
      BY <3>0, <3>1, <3>2
  <2>7. CASE \E n \in Node : Command(n) \/ AbandonCommand(n)
    <3>1. PICK n \in Node : Command(n) \/ AbandonCommand(n)
      BY <2>7
    <3>2. phase' = phase /\ input' = input
      BY <2>4, <3>1
    <3>3. CASE m = n
      <4>1. phase[m] = "commands" /\ pos'[m] = pos[m] + 1
        BY <2>4, <3>1, <3>3
      <4> QED
        BY <2>6, <3>1, <3>2, <3>3, <4>1
    <3>4. CASE m # n
      <4>1. pos'[m] = pos[m] /\ <<s, m>> \in ran
        BY <2>4, <3>1, <3>4
      <4> QED
        BY <3>2, <4>1
    <3> QED
      BY <3>3, <3>4
  <2> QED
    BY <2>1, <2>2, <2>3, <2>7 DEF Next, Advance
<1> QED
  BY <1>1, <1>2, Typed, PTL DEF Spec

(* A handler never comes to a command a second time, since the positions   *)
(* of a node follow the graph.                                             *)
LEMMA NotYetRan ==
  ASSUME TypeOK, Behind, NEW n \in Node, pos[n] \in DOMAIN list(n)
  PROVE  ~Ran(Job(n), n)
<1> SUFFICES ASSUME Ran(Job(n), n) PROVE FALSE
  OBVIOUS
<1>1. Job(n) \in Service /\ pos[n] \in Nat /\ DOMAIN list(n) \subseteq Nat
  BY ListTyped DEF Job, TypeOK
<1>2. PICK i \in DOMAIN list(n) : i < pos[n] /\ list(n)[i] = Job(n)
  BY <1>1 DEF Behind
<1>3. input.rank[list(n)[i]] < input.rank[list(n)[pos[n]]]
  BY <1>2 DEF TypeOK, WellFormed, list
<1>4. input.rank[Job(n)] \in Nat
  BY <1>1 DEF TypeOK, WellFormed
<1> QED
  BY <1>2, <1>3, <1>4 DEF Job

(* The run does what is promised: every step of a handler either leaves    *)
(* what is up alone or runs a command which may run then                   *)
(* (clusters.js:26-118).                                                   *)
THEOREM RunsInOrder == Spec => InOrder
<1>1. Init => Promised!Init
  BY InputsAssumption DEF Init, Promised!Init, Promised!WellFormed, WellFormed
<1>2. TypeOK /\ Reached /\ Targeted /\ Behind /\ [Next]_vars
        => [Promised!Next]_(Promised!vars)
  <2> SUFFICES ASSUME TypeOK, Reached, Targeted, Behind, [Next]_vars,
                      ~UNCHANGED <<input, ran, up>>
               PROVE  Promised!Next
    BY DEF Promised!vars
  <2>1. PICK n \in Node : Command(n) /\ Selected(Job(n))
    BY DEF Next, vars, Advance, Filter, Open, Plugin, EndPlugins, Command,
           EndCommands, Fail, AbandonPlugins, AbandonCommand
  <2>2. /\ phase[n] = "commands" /\ pos[n] \in DOMAIN list(n)
        /\ <<Job(n), n>> \in input.instances
        /\ Awaited(Job(n)) \subseteq up
        /\ ran' = ran \union {<<Job(n), n>>}
        /\ up' = up \union {<<Job(n), n>>}
        /\ input' = input
    BY <2>1 DEF Command, Orphan
  <2>3. Job(n) \in Service /\ Job(n) \in input.selected /\ n \in input.targets
    BY <2>1, <2>2, ListTyped DEF Job, Selected, Targeted
  <2>4. Promised!Awaits(Job(n)) \subseteq up
    BY <2>2 DEF Promised!Awaits, Awaited
  <2>5. Promised!Sound(n) => Promised!Before(Job(n), n) \subseteq ran
    BY <2>2, EarlierRan
  <2>6. <<Job(n), n>> \notin ran
    BY <2>2, NotYetRan DEF Ran
  <2>7. Promised!Start(Job(n), n)
    BY <2>2, <2>3, <2>4, <2>5, <2>6 DEF Promised!Start
  <2> QED
    BY <2>3, <2>7 DEF Promised!Next
<1> QED
  BY <1>1, <1>2, Typed, ReachedInv, TargetedInv, BehindInv, PTL
     DEF Spec, InOrder, Promised!Spec
=============================================================================
