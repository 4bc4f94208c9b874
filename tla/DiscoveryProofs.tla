-------------------------- MODULE DiscoveryProofs --------------------------
(***************************************************************************)
(* Proofs about Discovery, for every set of clusters and names and every   *)
(* well-formed configuration, cycles of auto dependencies included.        *)
(***************************************************************************)
EXTENDS Discovery, FiniteSetTheorems, SequenceTheorems, TLAPS

\* The inductive invariant.
Inv == TypeOK /\ Known /\ OwnModule /\ NoReentry

Registry == [module: Name, deps: Seq(Dep)]

-----------------------------------------------------------------------------
(* The call on top of the stack, and the ones below it. *)
LEMMA TopAndRest ==
  ASSUME stack \in Seq(Frame), stack # << >>
  PROVE  /\ Len(stack) \in Nat \ {0}
         /\ Top \in Frame
         /\ Rest \in Seq(Frame)
         /\ Len(Rest) = Len(stack) - 1
         /\ \A i \in 1..(Len(stack) - 1) : Rest[i] = stack[i]
<1>1. Len(stack) \in Nat \ {0}
  BY EmptySeq
<1>2. \A i \in 1..Len(stack) : stack[i] \in Frame
  BY ElementOfSeq
<1>3. Top \in Frame
  BY <1>1, <1>2 DEF Top
<1>4. \A i \in 1..(Len(stack) - 1) : stack[i] \in Frame
  BY <1>1, <1>2
<1>5. /\ SubSeq(stack, 1, Len(stack) - 1) \in Seq(Frame)
      /\ Len(SubSeq(stack, 1, Len(stack) - 1))
           = IF 1 <= Len(stack) - 1 THEN (Len(stack) - 1) - 1 + 1 ELSE 0
      /\ \A i \in 1..((Len(stack) - 1) - 1 + 1) :
           SubSeq(stack, 1, Len(stack) - 1)[i] = stack[1 + i - 1]
  <2>1. Len(stack) - 1 \in Int /\ 1 \in Int
    BY <1>1
  <2> QED
    BY <2>1, <1>4, SubSeqProperties
<1>6. /\ Rest \in Seq(Frame)
      /\ Len(Rest) = Len(stack) - 1
  <2>1. (IF 1 <= Len(stack) - 1 THEN (Len(stack) - 1) - 1 + 1 ELSE 0)
          = Len(stack) - 1
    <3>1. \A k \in Nat \ {0} : (IF 1 <= k - 1 THEN (k - 1) - 1 + 1 ELSE 0) = k - 1
      <4> TAKE k \in Nat \ {0}
      <4>1. CASE k = 1
        BY <4>1
      <4>2. CASE k # 1
        BY <4>2
      <4> QED
        BY <4>1, <4>2
    <3> QED
      BY <1>1, <3>1
  <2>2. Len(SubSeq(stack, 1, Len(stack) - 1)) = Len(stack) - 1
    BY <2>1, <1>5
  <2> QED
    BY <2>2, <1>5 DEF Rest
<1>7. \A i \in 1..(Len(stack) - 1) : Rest[i] = stack[i]
  <2> TAKE i \in 1..(Len(stack) - 1)
  <2>1. i \in 1..((Len(stack) - 1) - 1 + 1) /\ 1 + i - 1 = i
    BY <1>1
  <2> QED
    BY <2>1, <1>5 DEF Rest
<1> QED
  BY <1>1, <1>3, <1>6, <1>7

(* A call which goes on keeps its place and its service. *)
LEMMA GoesOn ==
  ASSUME stack \in Seq(Frame), stack # << >>,
         NEW f \in Frame, f.key = Top.key
  PROVE  /\ Append(Rest, f) \in Seq(Frame)
         /\ Append(Rest, f) # << >>
         /\ Len(Append(Rest, f)) = Len(stack)
         /\ \A i \in 1..Len(stack) : Append(Rest, f)[i].key = stack[i].key
<1>1. /\ Append(Rest, f) \in Seq(Frame)
      /\ Append(Rest, f) # << >>
      /\ Len(Append(Rest, f)) = Len(Rest) + 1
      /\ \A i \in 1..Len(Rest) : Append(Rest, f)[i] = Rest[i]
      /\ Append(Rest, f)[Len(Rest) + 1] = f
  BY TopAndRest, AppendProperties
<1>2. /\ Len(stack) \in Nat \ {0}
      /\ Len(Rest) = Len(stack) - 1
      /\ \A i \in 1..(Len(stack) - 1) : Rest[i] = stack[i]
  BY TopAndRest
<1>3. \A i \in 1..Len(stack) : i = Len(stack) \/ i \in 1..(Len(stack) - 1)
  BY <1>2
<1> QED
  BY <1>1, <1>2, <1>3 DEF Top

(* The last pass decides the option disabled, and nothing else. *)
LEMMA SwitchedTyped ==
  ASSUME NEW d \in Dep
  PROVE  /\ Switched(d) \in Dep
         /\ Switched(d).module = d.module /\ Switched(d).cluster = d.cluster
<1> DEFINE v == IF ~Contains(input.clusters, d.cluster) THEN TRUE
                ELSE IF d.disabled # None THEN d.disabled
                ELSE Target(d) \notin DOMAIN svc
<1>1. v \in BOOLEAN \union {None}
  BY DEF Dep
<1>2. Switched(d) = [d EXCEPT !.disabled = v]
  BY DEF Switched
<1>3. ASSUME NEW w \in BOOLEAN \union {None}
      PROVE  /\ [d EXCEPT !.disabled = w] \in Dep
             /\ [d EXCEPT !.disabled = w].module = d.module
             /\ [d EXCEPT !.disabled = w].cluster = d.cluster
  BY DEF Dep
<1> HIDE DEF v
<1> QED
  BY <1>1, <1>2, <1>3

(* What merging a dependency into another gives comes from one of them. *)
LEMMA MergedTyped ==
  ASSUME NEW x \in Dep, NEW y \in Dep
  PROVE  /\ Merged(x, y) \in Dep
         /\ Merged(x, y).module \in {x.module, y.module}
         /\ Merged(x, y).disabled \in {x.disabled, y.disabled}
<1>1. CASE y.text \/ x.text
  BY <1>1 DEF Merged
<1>2. CASE ~(y.text \/ x.text)
  <2> DEFINE module == Option(x.module, y.module)
             service == Option(x.service, y.service)
             prefix == IF y.service = None THEN x.prefix ELSE y.prefix
             cluster == Option(x.cluster, y.cluster)
             auto == Option(x.auto, y.auto)
             required == Option(x.required, y.required)
             disabled == Option(x.disabled, y.disabled)
  <2>1. Merged(x, y) =
          [module |-> module, service |-> service, prefix |-> prefix,
           cluster |-> cluster, auto |-> auto, required |-> required,
           disabled |-> disabled, text |-> FALSE]
    BY <1>2 DEF Merged
  <2>2. module \in {x.module, y.module} /\ disabled \in {x.disabled, y.disabled}
    BY DEF Option
  <2>3. /\ module \in Name \union {None}
        /\ service \in Name \union {None}
        /\ prefix \in Cluster \union {None}
        /\ cluster \in Cluster \union {None}
        /\ disabled \in BOOLEAN \union {None}
    BY DEF Dep, Option
  <2>4. auto \in BOOLEAN \union {None} /\ required \in BOOLEAN \union {None}
    BY DEF Dep, Option
  <2> HIDE DEF module, service, prefix, cluster, auto, required, disabled
  <2> QED
    BY <2>1, <2>2, <2>3, <2>4 DEF Dep
<1> QED
  BY <1>1, <1>2

(* The definition of a module is merged into dependencies of its length. *)
LEMMA MergeTyped ==
  ASSUME NEW old \in Seq(Dep), NEW new \in Seq(Dep),
         old # << >> => Len(old) = Len(new)
  PROVE  /\ MergeDeps(old, new) \in Seq(Dep)
         /\ Len(MergeDeps(old, new)) = Len(new)
         /\ DOMAIN MergeDeps(old, new) = DOMAIN new
         /\ \A i \in DOMAIN new :
              \/ /\ MergeDeps(old, new)[i].module = new[i].module
                 /\ MergeDeps(old, new)[i].disabled = new[i].disabled
              \/ /\ i \in DOMAIN old
                 /\ MergeDeps(old, new)[i].module \in {old[i].module, new[i].module}
                 /\ MergeDeps(old, new)[i].disabled
                      \in {old[i].disabled, new[i].disabled}
<1>1. CASE old = << >>
  BY <1>1 DEF MergeDeps
<1>2. CASE old # << >>
  <2>1. /\ Len(new) \in Nat
        /\ DOMAIN new = 1..Len(new)
        /\ DOMAIN old = 1..Len(new)
    BY <1>2, LenProperties
  <2>2. \A i \in 1..Len(new) : old[i] \in Dep /\ new[i] \in Dep
    BY <1>2, ElementOfSeq
  <2>3. \A i \in 1..Len(new) :
          /\ Merged(old[i], new[i]) \in Dep
          /\ Merged(old[i], new[i]).module \in {old[i].module, new[i].module}
          /\ Merged(old[i], new[i]).disabled \in {old[i].disabled, new[i].disabled}
    BY <2>2, MergedTyped
  <2>4. MergeDeps(old, new) = [i \in 1..Len(new) |-> Merged(old[i], new[i])]
    BY <1>2, <2>1 DEF MergeDeps
  <2>5. MergeDeps(old, new) \in [1..Len(new) -> Dep]
    BY <2>3, <2>4
  <2>6. MergeDeps(old, new) \in Seq(Dep) /\ Len(MergeDeps(old, new)) = Len(new)
    BY <2>1, <2>5
  <2>7. \A i \in DOMAIN new : i \in DOMAIN old
    BY <2>1
  <2> QED
    BY <2>1, <2>3, <2>4, <2>6, <2>7
<1> QED
  BY <1>1, <1>2

(* What a module or the configuration gives is in Given. *)
LEMMA ModulesGiven ==
  /\ \A m \in DOMAIN input.modules : \A i \in DOMAIN input.modules[m] :
       input.modules[m][i].module \in Given
  /\ \A s \in Service : \A i \in DOMAIN input.given[s] :
       input.given[s][i].module \in Given
<1>1. ASSUME NEW m \in DOMAIN input.modules, NEW i \in DOMAIN input.modules[m]
      PROVE  input.modules[m][i].module \in Given
  <2>1. input.modules[m][i].module
          \in {input.modules[m][k].module : k \in DOMAIN input.modules[m]}
    OBVIOUS
  <2> QED
    BY <2>1 DEF Given, Modules
<1>2. ASSUME NEW s \in Service, NEW i \in DOMAIN input.given[s]
      PROVE  input.given[s][i].module \in Given
  <2>1. input.given[s][i].module
          \in {input.given[s][k].module : k \in DOMAIN input.given[s]}
    OBVIOUS
  <2> QED
    BY <2>1 DEF Given, Modules
<1> QED
  BY <1>1, <1>2

-----------------------------------------------------------------------------
(* Initially nothing is visited, and the configuration is well formed. *)
LEMMA InitInv == Init => Inv
<1> SUFFICES ASSUME Init PROVE Inv
  OBVIOUS
<1> USE DEF Init
<1>1. WellFormed(input)
  BY InputsAssumption
<1>2. /\ DOMAIN svc = Declared(input)
      /\ DOMAIN svc \subseteq Service
  BY DEF Declared
<1>3. \A s \in DOMAIN svc :
        /\ svc[s].module = input.module[s] /\ svc[s].deps = input.given[s]
        /\ svc[s] \in Registry
  BY <1>1, <1>2 DEF WellFormed, Registry
<1>4. TypeOK
  <2>1. at \in 0..Len(input.clusters)
    BY <1>1, LenProperties DEF WellFormed
  <2>2. queue \in Seq(Name) /\ stack \in Seq(Frame)
    BY EmptySeq
  <2>3. order \in [Cluster -> Seq(Name)]
    BY <1>1 DEF WellFormed
  <2> QED
    BY <1>1, <1>2, <1>3, <2>1, <2>2, <2>3 DEF TypeOK, Registry
<1>5. Known
  <2>1. \A c \in Cluster : \A i \in DOMAIN order[c] :
          <<c, order[c][i]>> \in DOMAIN svc
    <3> SUFFICES ASSUME NEW c \in Cluster, NEW i \in DOMAIN order[c]
                 PROVE  <<c, order[c][i]>> \in DOMAIN svc
      OBVIOUS
    <3>1. order[c] \in Seq(Name) /\ order[c] = input.declared[c]
      BY <1>1 DEF WellFormed
    <3>2. i \in 1..Len(order[c]) /\ order[c][i] \in Name
      BY <3>1, LenProperties, ElementOfSeq
    <3>3. Contains(input.declared[c], order[c][i])
      BY <3>1, <3>2 DEF Contains
    <3> QED
      BY <1>2, <3>2, <3>3 DEF Declared, Service
  <2> QED
    BY <2>1 DEF Known
<1>6. OwnModule
  <2> SUFFICES ASSUME NEW s \in DOMAIN svc
               PROVE  /\ s[2] \in Given => svc[s].module = s[2]
                      /\ \A i \in DOMAIN svc[s].deps : svc[s].deps[i].module \in Given
                      /\ svc[s].deps # << >> =>
                           /\ svc[s].module \in DOMAIN input.modules
                           /\ Len(svc[s].deps) = Len(input.modules[svc[s].module])
    BY DEF OwnModule
  <2>1. s \in Service /\ svc[s].module = input.module[s] /\ svc[s].deps = input.given[s]
    BY <1>2, <1>3
  <2>2. s[1] \in Cluster /\ s[2] \in Name /\ s = <<s[1], s[2]>>
    BY <2>1 DEF Service
  <2>3. ASSUME s[2] \in Given PROVE svc[s].module = s[2]
    <3>1. s[2] \in Modules(input) \ {None}
      BY <2>2, <2>3, NoneAssumption DEF Given
    <3>2. input.module[<<s[1], s[2]>>] = s[2]
      BY <1>1, <2>2, <3>1 DEF WellFormed
    <3> QED
      BY <2>1, <2>2, <3>2
  <2>4. \A i \in DOMAIN svc[s].deps : svc[s].deps[i].module \in Given
    BY <2>1, ModulesGiven
  <2>5. svc[s].deps # << >> =>
          /\ svc[s].module \in DOMAIN input.modules
          /\ Len(svc[s].deps) = Len(input.modules[svc[s].module])
    BY <1>1, <2>1 DEF WellFormed
  <2> QED
    BY <2>3, <2>4, <2>5
<1>7. NoReentry
  BY DEF NoReentry, IsInjective
<1> QED
  BY <1>4, <1>5, <1>6, <1>7 DEF Inv

(* What the binding of a dependency reads has its type. *)
LEMMA BindingReads ==
  ASSUME Inv, Binding
  PROVE  /\ Top \in Frame
         /\ Top.key \in DOMAIN svc
         /\ svc[Top.key].deps \in Seq(Dep)
         /\ Top.next \in 1..Len(svc[Top.key].deps)
         /\ Current \in Dep
         /\ Current.module \in Given
         /\ Did(Top, Current) \in Name \union {None}
         /\ ClusterOf(Top, Current) \in Cluster
         /\ Advanced(Top, Current) \in Frame
         /\ Advanced(Top, Current).key = Top.key
<1> USE DEF Binding
<1>1. stack \in Seq(Frame) /\ stack # << >>
  BY DEF Inv, TypeOK
<1>2. Top \in Frame /\ Len(stack) \in Nat \ {0}
  BY <1>1, TopAndRest
<1>3. Top.key \in DOMAIN svc
  BY <1>1, <1>2, LenProperties DEF Inv, Known, Top
<1>4. svc[Top.key].deps \in Seq(Dep)
  BY <1>3 DEF Inv, TypeOK
<1>5. Top.next \in 1..Len(svc[Top.key].deps)
  BY <1>4, LenProperties
<1>6. Current \in Dep
  BY <1>4, <1>5, ElementOfSeq DEF Current
<1>7. Current.module \in Given
  BY <1>3 DEF Current, Inv, OwnModule
<1>8. /\ Did(Top, Current) \in Name \union {None}
      /\ Dcluster(Top, Current) \in Cluster \union {None}
  BY <1>2, <1>6 DEF Did, Dcluster, Dep, Frame
<1>9. OuterCluster \in Cluster
  <2>1. input.clusters \in Seq(Cluster)
    BY DEF Inv, TypeOK, WellFormed
  <2>2. at \in 1..Len(input.clusters)
    BY <1>1, <2>1, LenProperties DEF Inv, TypeOK, Known
  <2> QED
    BY <2>1, <2>2, ElementOfSeq DEF OuterCluster
<1>10. ClusterOf(Top, Current) \in Cluster
  BY <1>6, <1>8, <1>9 DEF ClusterOf, Dep
<1>11. /\ Advanced(Top, Current) \in Frame
       /\ Advanced(Top, Current).key = Top.key
  BY <1>2, <1>8 DEF Advanced, Frame
<1> QED
  BY <1>2, <1>3, <1>4, <1>5, <1>6, <1>7, <1>8, <1>10, <1>11

(* A service found for a dependency is a name. *)
LEMMA FoundTyped ==
  ASSUME Inv, Binding
  PROVE  ServiceOf(Top, Current) \in Name \union {None}
<1> DEFINE found == Matches(ClusterOf(Top, Current), Current.module)
<1>1. Did(Top, Current) \in Name \union {None}
  BY BindingReads
<1>2. found \subseteq Service /\ IsFiniteSet(found)
  <2>1. DOMAIN svc \subseteq Service
    BY DEF Inv, TypeOK
  <2>2. IsFiniteSet(Service)
    BY FiniteAssumption, FS_Product DEF Service
  <2> QED
    BY <2>1, <2>2, FS_Subset DEF Matches
<1>3. Cardinality(found) = 1 => (CHOOSE s \in found : TRUE) \in found
  BY <1>2, FS_EmptySet
<1>4. Cardinality(found) = 1 => (CHOOSE s \in found : TRUE)[2] \in Name
  BY <1>2, <1>3 DEF Service
<1> QED
  BY <1>1, <1>4 DEF ServiceOf

(* Binding a dependency changes neither the registry nor its modules. *)
LEMMA BoundKeeps ==
  ASSUME Inv, Binding, NEW service \in Name \union {None}
  PROVE  /\ DOMAIN Bound(service) = DOMAIN svc
         /\ \A s \in DOMAIN svc :
              /\ Bound(service)[s] \in Registry
              /\ Bound(service)[s].module = svc[s].module
              /\ Len(Bound(service)[s].deps) = Len(svc[s].deps)
              /\ DOMAIN Bound(service)[s].deps = DOMAIN svc[s].deps
              /\ \A i \in DOMAIN svc[s].deps :
                   /\ Bound(service)[s].deps[i].module = svc[s].deps[i].module
                   /\ Bound(service)[s].deps[i].disabled = svc[s].deps[i].disabled
<1> DEFINE new == [Current EXCEPT !.cluster = ClusterOf(Top, Current),
                                  !.service = service, !.prefix = None]
           deps == [svc[Top.key].deps EXCEPT ![Top.next] = new]
<1>1. /\ Top.key \in DOMAIN svc
      /\ svc[Top.key].deps \in Seq(Dep)
      /\ Top.next \in 1..Len(svc[Top.key].deps)
      /\ Current \in Dep
      /\ ClusterOf(Top, Current) \in Cluster
  BY BindingReads
<1>2. /\ new \in Dep
      /\ new.module = Current.module /\ new.disabled = Current.disabled
  BY <1>1 DEF Dep
<1>3. deps \in Seq(Dep) /\ Len(deps) = Len(svc[Top.key].deps)
  BY <1>1, <1>2, ExceptSeq
<1>4. Bound(service) = [svc EXCEPT ![Top.key] = [@ EXCEPT !.deps = deps]]
  BY DEF Bound, Current
<1>5. \A s \in DOMAIN svc : svc[s] \in Registry
  BY DEF Inv, TypeOK, Registry
<1>6. ASSUME NEW s \in DOMAIN svc
      PROVE  /\ Bound(service)[s] \in Registry
             /\ Bound(service)[s].module = svc[s].module
             /\ Bound(service)[s].deps = IF s = Top.key THEN deps ELSE svc[s].deps
  <2>1. svc[s] \in Registry
    BY <1>5
  <2>2. CASE s = Top.key
    <3>1. Bound(service)[s] = [svc[s] EXCEPT !.deps = deps]
      BY <1>1, <1>4, <2>2
    <3> HIDE DEF deps
    <3> QED
      BY <1>3, <2>1, <2>2, <3>1 DEF Registry
  <2>3. CASE s # Top.key
    <3>1. Bound(service)[s] = svc[s]
      BY <1>4, <2>3
    <3> QED
      BY <2>1, <2>3, <3>1 DEF Registry
  <2> QED
    BY <2>2, <2>3
<1>7. /\ DOMAIN deps = DOMAIN svc[Top.key].deps
      /\ \A i \in DOMAIN svc[Top.key].deps :
           /\ deps[i].module = svc[Top.key].deps[i].module
           /\ deps[i].disabled = svc[Top.key].deps[i].disabled
  BY <1>2 DEF Current
<1>8. DOMAIN Bound(service) = DOMAIN svc
  BY <1>4
<1> QED
  BY <1>3, <1>6, <1>7, <1>8

-----------------------------------------------------------------------------
(* The invariant is kept by a step which leaves the variables alone. *)
LEMMA StutterInv == ASSUME Inv, UNCHANGED vars PROVE Inv'
  BY DEF vars, Inv, TypeOK, Known, OwnModule, NoReentry, OuterCluster, Given

(* It is kept by a rejection, which only changes the status. *)
LEMMA RejectBindInv == ASSUME Inv, RejectBind PROVE Inv'
<1>1. status' \in {"discover", "nodes", "done"} \union Rejected
  BY DEF RejectBind, Outcome, Rejected
<1> QED
  BY <1>1 DEF RejectBind, Inv, TypeOK, Known, OwnModule, NoReentry,
              OuterCluster, Given

(* It is kept when the outer loop enters a cluster. *)
LEMMA NextClusterInv == ASSUME Inv, NextCluster PROVE Inv'
<1> USE DEF NextCluster
<1> DEFINE c == input.clusters[at + 1]
<1>1. at' \in 1..Len(input.clusters)
  BY LenProperties DEF Inv, TypeOK, WellFormed
<1>2. c \in Cluster
  BY <1>1, ElementOfSeq DEF Inv, TypeOK, WellFormed
<1>3. queue' \in Seq(Name)
  BY <1>2 DEF Inv, TypeOK
<1>4. TypeOK'
  BY <1>1, <1>3 DEF Inv, TypeOK
<1>5. OuterCluster' = c
  BY DEF OuterCluster
<1>6. \A i \in DOMAIN queue' : <<OuterCluster', queue'[i]>> \in DOMAIN svc'
  BY <1>2, <1>5 DEF Inv, Known
<1>7. Known'
  BY <1>1, <1>6 DEF Inv, Known
<1>8. OwnModule' /\ NoReentry'
  BY DEF Inv, OwnModule, NoReentry, Given
<1> QED
  BY <1>4, <1>7, <1>8 DEF Inv

(* It is kept when a service of the cluster is visited. *)
LEMMA VisitInv == ASSUME Inv, Visit PROVE Inv'
<1> USE DEF Visit
<1> DEFINE key == <<OuterCluster, Head(queue)>>
<1>1. /\ queue \in Seq(Name) /\ queue # << >>
      /\ Tail(queue) \in Seq(Name)
      /\ Len(Tail(queue)) = Len(queue) - 1
      /\ \A i \in 1..Len(Tail(queue)) : Tail(queue)[i] = queue[i + 1]
      /\ Len(queue) \in Nat \ {0}
      /\ DOMAIN queue = 1..Len(queue)
      /\ DOMAIN Tail(queue) = 1..Len(Tail(queue))
      /\ Head(queue) = queue[1]
  <2>1. queue \in Seq(Name) /\ queue # << >>
    BY DEF Inv, TypeOK
  <2>2. Tail(queue) \in Seq(Name)
    BY <2>1, HeadTailProperties
  <2> QED
    BY <2>1, <2>2, HeadTailProperties, LenProperties, EmptySeq
<1>2. key \in DOMAIN svc
  BY <1>1 DEF Inv, Known
<1>3. Call(key) \in Frame /\ Call(key).key = key
  BY <1>2 DEF Call, Frame, Inv, TypeOK
<1>4. stack' \in Seq(Frame) /\ DOMAIN stack' = 1..1 /\ stack'[1].key = key
  <2>1. stack' = <<Call(key)>>
    OBVIOUS
  <2>2. \A f \in Frame : /\ <<f>> \in Seq(Frame)
                         /\ DOMAIN <<f>> = 1..1
                         /\ <<f>>[1] = f
    OBVIOUS
  <2> HIDE DEF key, Visit
  <2> QED
    BY <1>3, <2>1, <2>2
<1>5. TypeOK'
  BY <1>1, <1>4 DEF Inv, TypeOK
<1>6. \A i \in DOMAIN queue' : <<OuterCluster', queue'[i]>> \in DOMAIN svc'
  <2>1. OuterCluster' = OuterCluster
    BY DEF OuterCluster
  <2>2. \A i \in DOMAIN Tail(queue) :
          i + 1 \in DOMAIN queue /\ Tail(queue)[i] = queue[i + 1]
    BY <1>1
  <2> QED
    BY <2>1, <2>2 DEF Inv, Known
<1>7. Known'
  <2>1. \A i \in DOMAIN stack' : i = 1
    BY <1>4
  <2>2. \A i \in DOMAIN stack' : stack'[i].key \in DOMAIN svc'
    BY <1>2, <1>4, <2>1
  <2>3. at' > 0
    BY <1>1 DEF Inv, Known
  <2>4. \A c \in Cluster : \A i \in DOMAIN order'[c] :
          <<c, order'[c][i]>> \in DOMAIN svc'
    BY DEF Inv, Known
  <2> HIDE DEF Visit
  <2> QED
    BY <1>6, <2>2, <2>3, <2>4 DEF Known
<1>8. OwnModule'
  BY DEF Inv, OwnModule, Given
<1>9. NoReentry'
  BY <1>4 DEF NoReentry, IsInjective
<1> QED
  BY <1>5, <1>7, <1>8, <1>9 DEF Inv

(* It is kept when a module is loaded, or cannot be. *)
LEMMA LoadInv == ASSUME Inv, Load PROVE Inv'
<1> USE DEF Load
<1> DEFINE m == svc[Top.key].module
           merged == MergeDeps(svc[Top.key].deps, input.modules[m])
           frame == [Top EXCEPT !.next = 1]
<1>1. stack \in Seq(Frame) /\ stack # << >>
  BY DEF Inv, TypeOK
<1>2. Top \in Frame /\ Len(stack) \in Nat \ {0}
  BY <1>1, TopAndRest
<1>3. Top.key \in DOMAIN svc
  BY <1>1, <1>2, LenProperties DEF Inv, Known, Top
<1>4. CASE m \notin DOMAIN input.modules
  BY <1>4 DEF Inv, TypeOK, Known, OwnModule, NoReentry, OuterCluster, Given,
              Rejected
<1>5. CASE m \in DOMAIN input.modules
  <2>1. /\ svc[Top.key] \in Registry
        /\ input.modules[m] \in Seq(Dep)
    BY <1>3, <1>5 DEF Inv, TypeOK, WellFormed, Registry
  <2>2. svc[Top.key].deps # << >>
          => Len(svc[Top.key].deps) = Len(input.modules[m])
    BY <1>3 DEF Inv, OwnModule
  <2>3. /\ merged \in Seq(Dep)
        /\ Len(merged) = Len(input.modules[m])
        /\ DOMAIN merged = DOMAIN input.modules[m]
        /\ \A i \in DOMAIN merged :
             \/ merged[i].module = input.modules[m][i].module
             \/ /\ i \in DOMAIN svc[Top.key].deps
                /\ merged[i].module = svc[Top.key].deps[i].module
    <3> DEFINE old == svc[Top.key].deps
               new == input.modules[m]
    <3>1. old \in Seq(Dep) /\ new \in Seq(Dep) /\ (old # << >> => Len(old) = Len(new))
      BY <2>1, <2>2 DEF Registry
    <3> HIDE DEF old, new, m
    <3>2. /\ MergeDeps(old, new) \in Seq(Dep)
          /\ Len(MergeDeps(old, new)) = Len(new)
          /\ DOMAIN MergeDeps(old, new) = DOMAIN new
          /\ \A i \in DOMAIN new :
               \/ MergeDeps(old, new)[i].module = new[i].module
               \/ /\ i \in DOMAIN old
                  /\ MergeDeps(old, new)[i].module = old[i].module
      BY <3>1, MergeTyped
    <3> QED
      BY <3>2 DEF old, new, m
  <2>4. svc' = [svc EXCEPT ![Top.key] = [@ EXCEPT !.deps = merged]]
    BY <1>5
  <2>5. ASSUME NEW s \in DOMAIN svc
        PROVE  /\ svc'[s] \in Registry
               /\ svc'[s].module = svc[s].module
               /\ svc'[s].deps = IF s = Top.key THEN merged ELSE svc[s].deps
    <3> HIDE DEF merged
    <3>1. svc[s] \in Registry
      BY DEF Inv, TypeOK, Registry
    <3>2. CASE s = Top.key
      <4>1. svc'[s] = [svc[s] EXCEPT !.deps = merged]
        BY <2>4, <3>2
      <4> QED
        BY <2>3, <3>1, <3>2, <4>1 DEF Registry
    <3>3. CASE s # Top.key
      <4>1. svc'[s] = svc[s]
        BY <2>4, <3>3
      <4> QED
        BY <3>1, <3>3, <4>1
    <3> QED
      BY <3>2, <3>3
  <2>6. DOMAIN svc' = DOMAIN svc
    BY <2>4
  <2>7. frame \in Frame /\ frame.key = Top.key
    BY <1>2 DEF Frame
  <2>8. /\ stack' \in Seq(Frame) /\ stack' # << >>
        /\ Len(stack') = Len(stack)
        /\ \A i \in 1..Len(stack) : stack'[i].key = stack[i].key
    <3> HIDE DEF frame
    <3>1. stack' = Append(Rest, frame)
      BY <1>5 DEF frame
    <3> QED
      BY <1>1, <2>7, <3>1, GoesOn
  <2>9. TypeOK'
    <3>1. UNCHANGED <<input, at, queue, order, status>>
      BY <1>5
    <3> HIDE DEF Load, merged, frame
    <3> QED
      BY <2>5, <2>6, <2>8, <3>1 DEF Inv, TypeOK, Registry
  <2>10. DOMAIN stack = 1..Len(stack) /\ DOMAIN stack' = 1..Len(stack)
    BY <1>1, <2>8, LenProperties
  <2>11. Known'
    BY <1>1, <2>6, <2>8, <2>10 DEF Inv, Known, OuterCluster
  <2>12. OwnModule'
    <3> HIDE DEF merged
    <3>1. Given' = Given
      BY DEF Given
    <3>2. \A i \in DOMAIN merged : merged[i].module \in Given
      <4>1. \A i \in DOMAIN input.modules[m] : input.modules[m][i].module \in Given
        BY <1>5, ModulesGiven
      <4>2. \A i \in DOMAIN svc[Top.key].deps :
              svc[Top.key].deps[i].module \in Given
        BY <1>3 DEF Inv, OwnModule
      <4> QED
        BY <2>3, <4>1, <4>2
    <3> SUFFICES ASSUME NEW s \in DOMAIN svc
                 PROVE  /\ s[2] \in Given => svc'[s].module = s[2]
                        /\ \A i \in DOMAIN svc'[s].deps :
                             svc'[s].deps[i].module \in Given
                        /\ svc'[s].deps # << >> =>
                             /\ svc'[s].module \in DOMAIN input.modules
                             /\ Len(svc'[s].deps) = Len(input.modules[svc'[s].module])
      BY <2>6, <3>1 DEF OwnModule
    <3>3. CASE s = Top.key
      BY <1>5, <2>3, <2>5, <3>2, <3>3 DEF Inv, OwnModule
    <3>4. CASE s # Top.key
      BY <2>5, <3>4 DEF Inv, OwnModule
    <3> QED
      BY <3>3, <3>4
  <2>13. NoReentry'
    BY <2>8, <2>10 DEF Inv, NoReentry, IsInjective
  <2> QED
    BY <2>9, <2>11, <2>12, <2>13 DEF Inv
<1> QED
  BY <1>4, <1>5

(* It is kept when a dependency is bound to a service, or to none. *)
LEMMA BindInv == ASSUME Inv, Bind PROVE Inv'
<1> DEFINE service == ServiceOf(Top, Current)
           frame == Advanced(Top, Current)
<1>1. Binding /\ stack \in Seq(Frame) /\ stack # << >>
  BY DEF Bind, Binding, Inv, TypeOK
<1>2. /\ svc' = Bound(service)
      /\ stack' = Append(Rest, frame)
      /\ UNCHANGED <<input, at, queue, order, status>>
  BY DEF Bind
<1>3. service \in Name \union {None}
  BY <1>1, FoundTyped
<1>4. frame \in Frame /\ frame.key = Top.key
  BY <1>1, BindingReads
<1> HIDE DEF service, frame
<1>5. /\ DOMAIN svc' = DOMAIN svc
      /\ \A s \in DOMAIN svc :
           /\ svc'[s] \in Registry
           /\ svc'[s].module = svc[s].module
           /\ Len(svc'[s].deps) = Len(svc[s].deps)
           /\ DOMAIN svc'[s].deps = DOMAIN svc[s].deps
           /\ \A i \in DOMAIN svc[s].deps :
                svc'[s].deps[i].module = svc[s].deps[i].module
  BY <1>1, <1>2, <1>3, BoundKeeps
<1>6. /\ stack' \in Seq(Frame) /\ stack' # << >>
      /\ Len(stack') = Len(stack)
      /\ \A i \in 1..Len(stack) : stack'[i].key = stack[i].key
  BY <1>1, <1>2, <1>4, GoesOn
<1>7. DOMAIN stack = 1..Len(stack) /\ DOMAIN stack' = 1..Len(stack)
  BY <1>1, <1>6, LenProperties
<1>8. TypeOK'
  BY <1>2, <1>5, <1>6 DEF Inv, TypeOK, Registry
<1>9. Known'
  BY <1>1, <1>2, <1>5, <1>6, <1>7 DEF Inv, Known, OuterCluster
<1>10. OwnModule'
  <2>1. Given' = Given /\ input' = input
    BY <1>2 DEF Given
  <2>2. \A s \in DOMAIN svc : svc[s].deps = << >> => svc'[s].deps = << >>
    <3> SUFFICES ASSUME NEW s \in DOMAIN svc, svc[s].deps = << >>
                 PROVE  svc'[s].deps = << >>
      OBVIOUS
    <3>1. svc'[s].deps \in Seq(Dep) /\ Len(svc'[s].deps) = 0
      BY <1>5 DEF Registry
    <3> QED
      BY <3>1, EmptySeq
  <2> QED
    BY <1>5, <2>1, <2>2 DEF Inv, OwnModule
<1>11. NoReentry'
  BY <1>6, <1>7 DEF Inv, NoReentry, IsInjective
<1> QED
  BY <1>8, <1>9, <1>10, <1>11 DEF Inv

(* The service which is registered has a module its cluster has not yet,   *)
(* so its key is new.                                                      *)
LEMMA RegisteredNew ==
  ASSUME Inv, RegisterAuto
  PROVE  /\ Current.module \in Name
         /\ Matches(ClusterOf(Top, Current), Current.module) = {}
         /\ <<ClusterOf(Top, Current), Current.module>> \notin DOMAIN svc
<1> DEFINE c == ClusterOf(Top, Current)
           m == Current.module
<1>1. /\ Binding
      /\ Outcome(Top, Current) = "discover"
      /\ ServiceOf(Top, Current) = None
  BY DEF RegisterAuto
<1>2. /\ Current \in Dep
      /\ m \in Given
      /\ Did(Top, Current) \in Name \union {None}
  BY <1>1, BindingReads
<1>3. Did(Top, Current) = None
  BY <1>1, <1>2, NoneAssumption DEF ServiceOf
<1>4. m \in Name
  BY <1>1, <1>2, <1>3 DEF Outcome, Dep
<1>5. IsFiniteSet(Matches(c, m))
  <2>1. DOMAIN svc \subseteq Service
    BY DEF Inv, TypeOK
  <2>2. IsFiniteSet(Service)
    BY FiniteAssumption, FS_Product DEF Service
  <2> QED
    BY <2>1, <2>2, FS_Subset DEF Matches
<1>6. Cardinality(Matches(c, m)) # 1
  <2>1. Matches(c, m) \subseteq Service
    BY DEF Inv, TypeOK, Matches
  <2>2. Cardinality(Matches(c, m)) = 1
          => (CHOOSE s \in Matches(c, m) : TRUE) \in Matches(c, m)
    BY <1>5, FS_EmptySet
  <2>3. Cardinality(Matches(c, m)) = 1
          => (CHOOSE s \in Matches(c, m) : TRUE)[2] # None
    BY <2>1, <2>2, NoneAssumption DEF Service
  <2> QED
    BY <1>1, <1>3, <2>3 DEF ServiceOf
<1>7. ~(Cardinality(Matches(c, m)) > 1)
  BY <1>1, <1>3 DEF Outcome
<1>8. Matches(c, m) = {}
  <2>1. Cardinality(Matches(c, m)) \in Nat
    BY <1>5, FS_CardinalityType
  <2>2. Cardinality(Matches(c, m)) = 0
    BY <1>6, <1>7, <2>1
  <2> QED
    BY <1>5, <2>2, FS_EmptySet
<1>9. <<c, m>> \notin DOMAIN svc
  <2> SUFFICES ASSUME <<c, m>> \in DOMAIN svc PROVE FALSE
    OBVIOUS
  <2>1. svc[<<c, m>>].module = m
    BY <1>2 DEF Inv, OwnModule
  <2> QED
    BY <1>8, <2>1 DEF Matches
<1> QED
  BY <1>4, <1>8, <1>9

(* It is kept when an auto dependency registers a service and visits it. *)
LEMMA RegisterAutoInv == ASSUME Inv, RegisterAuto PROVE Inv'
<1> DEFINE c == ClusterOf(Top, Current)
           m == Current.module
           key == <<c, m>>
           frame == Advanced(Top, Current)
           under == Append(Rest, frame)
<1>1. Binding /\ stack \in Seq(Frame) /\ stack # << >>
  BY DEF RegisterAuto, Binding, Inv, TypeOK
<1>2. /\ svc' = Registered(key)
      /\ stack' = Append(under, Call(key))
      /\ order' = [order EXCEPT ![c] = Append(@, m)]
      /\ UNCHANGED <<input, at, queue, status>>
  BY DEF RegisterAuto
<1>3. frame \in Frame /\ frame.key = Top.key /\ c \in Cluster /\ m \in Given
  BY <1>1, BindingReads
<1>4. m \in Name /\ key \notin DOMAIN svc
  BY RegisteredNew
<1>5. /\ DOMAIN Bound(m) = DOMAIN svc
      /\ \A s \in DOMAIN svc :
           /\ Bound(m)[s] \in Registry
           /\ Bound(m)[s].module = svc[s].module
           /\ Len(Bound(m)[s].deps) = Len(svc[s].deps)
           /\ DOMAIN Bound(m)[s].deps = DOMAIN svc[s].deps
           /\ \A i \in DOMAIN svc[s].deps :
                Bound(m)[s].deps[i].module = svc[s].deps[i].module
  <2>1. m \in Name \union {None}
    BY <1>4
  <2> HIDE DEF m
  <2> QED
    BY <1>1, <2>1, BoundKeeps
<1>6. svc' = [s \in DOMAIN svc \union {key} |->
                IF s = key THEN [module |-> m, deps |-> << >>] ELSE Bound(m)[s]]
  BY <1>2 DEF Registered
<1>7. /\ under \in Seq(Frame)
      /\ Len(under) = Len(stack)
      /\ \A i \in 1..Len(stack) : under[i].key = stack[i].key
  <2> HIDE DEF frame
  <2> QED
    BY <1>1, <1>3, GoesOn
<1>8. key \in Service /\ Call(key) \in Frame /\ Call(key).key = key
  BY <1>3, <1>4 DEF Call, Frame, Service
<1> HIDE DEF c, m, frame
<1>9. /\ DOMAIN svc' = DOMAIN svc \union {key}
      /\ svc'[key] = [module |-> m, deps |-> << >>]
      /\ \A s \in DOMAIN svc : svc'[s] = Bound(m)[s]
  BY <1>4, <1>6
<1>10. Len(stack) \in Nat /\ DOMAIN stack = 1..Len(stack)
  BY <1>1, LenProperties
<1>11. /\ stack' \in Seq(Frame)
       /\ DOMAIN stack' = 1..(Len(stack) + 1)
       /\ \A i \in 1..Len(stack) : stack'[i].key = stack[i].key
       /\ stack'[Len(stack) + 1].key = key
  <2> DEFINE call == Call(key)
  <2>1. call \in Frame /\ call.key = key /\ stack' = Append(under, call)
    BY <1>2, <1>8
  <2> HIDE DEF under, call
  <2>2. /\ stack' \in Seq(Frame)
        /\ Len(stack') = Len(under) + 1
        /\ \A i \in 1..Len(under) : stack'[i] = under[i]
        /\ stack'[Len(under) + 1] = call
    BY <1>7, <2>1, AppendProperties
  <2>3. DOMAIN stack' = 1..Len(stack')
    BY <2>2, LenProperties
  <2> QED
    BY <1>7, <2>1, <2>2, <2>3
<1>12. /\ order' \in [Cluster -> Seq(Name)]
       /\ \A d \in Cluster : \A i \in DOMAIN order'[d] :
            <<d, order'[d][i]>> \in DOMAIN svc'
  <2>1. order \in [Cluster -> Seq(Name)] /\ order[c] \in Seq(Name)
    BY <1>3 DEF Inv, TypeOK
  <2>2. /\ Append(order[c], m) \in Seq(Name)
        /\ Len(Append(order[c], m)) = Len(order[c]) + 1
        /\ \A i \in 1..Len(order[c]) : Append(order[c], m)[i] = order[c][i]
        /\ Append(order[c], m)[Len(order[c]) + 1] = m
    BY <1>4, <2>1, AppendProperties
  <2>3. /\ DOMAIN order[c] = 1..Len(order[c])
        /\ DOMAIN Append(order[c], m) = 1..(Len(order[c]) + 1)
        /\ Len(order[c]) \in Nat
    BY <2>1, <2>2, LenProperties
  <2>4. order' \in [Cluster -> Seq(Name)]
    BY <1>2, <2>1, <2>2
  <2>5. ASSUME NEW d \in Cluster, NEW i \in DOMAIN order'[d]
        PROVE  <<d, order'[d][i]>> \in DOMAIN svc'
    <3>1. CASE d # c
      <4>1. order'[d] = order[d]
        BY <1>2, <2>1, <3>1
      <4> QED
        BY <1>9, <2>5, <4>1 DEF Inv, Known
    <3>2. CASE d = c
      <4>1. order'[d] = Append(order[c], m)
        BY <1>2, <2>1, <3>2
      <4>2. CASE i = Len(order[c]) + 1
        BY <1>9, <2>2, <3>2, <4>1, <4>2
      <4>3. CASE i # Len(order[c]) + 1
        <5>1. i \in 1..Len(order[c])
          BY <2>3, <2>5, <4>1, <4>3
        <5>2. <<c, order[c][i]>> \in DOMAIN svc
          BY <1>3, <2>3, <5>1 DEF Inv, Known
        <5> QED
          BY <1>9, <2>2, <3>2, <4>1, <5>1, <5>2
      <4> QED
        BY <4>2, <4>3
    <3> QED
      BY <3>1, <3>2
  <2> QED
    BY <2>4, <2>5
<1>13. TypeOK'
  <2>1. DOMAIN svc' \subseteq Service
    BY <1>8, <1>9 DEF Inv, TypeOK
  <2>2. \A s \in DOMAIN svc' : svc'[s] \in Registry
    <3>1. svc'[key] \in Registry
      <4>1. << >> \in Seq(Dep)
        BY EmptySeq
      <4> HIDE DEF key
      <4> QED
        BY <1>4, <1>9, <4>1 DEF Registry
    <3>2. \A s \in DOMAIN svc : svc'[s] \in Registry
      BY <1>5, <1>9
    <3> HIDE DEF key
    <3> QED
      BY <1>9, <3>1, <3>2
  <2> QED
    BY <1>2, <1>11, <1>12, <2>1, <2>2 DEF Inv, TypeOK, Registry
<1>14. Known'
  <2>1. at' > 0
    BY <1>1, <1>2 DEF Inv, Known
  <2>2. \A i \in DOMAIN queue' : <<OuterCluster', queue'[i]>> \in DOMAIN svc'
    BY <1>2, <1>9 DEF Inv, Known, OuterCluster
  <2>3. \A i \in DOMAIN stack' : i \in DOMAIN stack \/ i = Len(stack) + 1
    BY <1>10, <1>11
  <2>4. \A i \in DOMAIN stack' : stack'[i].key \in DOMAIN svc'
    BY <1>9, <1>10, <1>11, <2>3 DEF Inv, Known
  <2> QED
    BY <1>12, <2>1, <2>2, <2>4 DEF Known
<1>15. OwnModule'
  <2>1. Given' = Given /\ input' = input
    BY <1>2 DEF Given
  <2> SUFFICES ASSUME NEW s \in DOMAIN svc'
               PROVE  /\ s[2] \in Given => svc'[s].module = s[2]
                      /\ \A i \in DOMAIN svc'[s].deps :
                           svc'[s].deps[i].module \in Given
                      /\ svc'[s].deps # << >> =>
                           /\ svc'[s].module \in DOMAIN input.modules
                           /\ Len(svc'[s].deps) = Len(input.modules[svc'[s].module])
    BY <2>1 DEF OwnModule
  <2>2. CASE s = key
    BY <1>9, <2>2
  <2>3. CASE s \in DOMAIN svc
    <3>1. svc[s].deps = << >> => svc'[s].deps = << >>
      <4> SUFFICES ASSUME svc[s].deps = << >> PROVE svc'[s].deps = << >>
        OBVIOUS
      <4>1. svc'[s].deps \in Seq(Dep) /\ Len(svc'[s].deps) = 0
        BY <1>5, <1>9, <2>3 DEF Registry
      <4> QED
        BY <4>1, EmptySeq
    <3> QED
      BY <1>5, <1>9, <2>3, <3>1 DEF Inv, OwnModule
  <2> QED
    BY <1>9, <2>2, <2>3
<1>16. NoReentry'
  <2> SUFFICES ASSUME NEW i \in DOMAIN stack', NEW j \in DOMAIN stack',
                      stack'[i].key = stack'[j].key
               PROVE  i = j
    BY DEF NoReentry, IsInjective
  <2>1. \A k \in DOMAIN stack' : k \in DOMAIN stack \/ k = Len(stack) + 1
    BY <1>10, <1>11
  <2>2. \A k \in DOMAIN stack : stack'[k].key = stack[k].key /\ stack'[k].key # key
    BY <1>4, <1>10, <1>11 DEF Inv, Known
  <2>3. \A k, l \in DOMAIN stack : stack[k].key = stack[l].key => k = l
    BY DEF Inv, NoReentry, IsInjective
  <2> QED
    BY <1>11, <2>1, <2>2, <2>3
<1> QED
  BY <1>13, <1>14, <1>15, <1>16 DEF Inv

(* It is kept when a visit is over. *)
LEMMA LeaveInv == ASSUME Inv, Leave PROVE Inv'
<1>1. /\ stack \in Seq(Frame) /\ stack # << >> /\ stack' = Rest
      /\ UNCHANGED <<input, at, queue, order, svc, status>>
  BY DEF Leave, Inv, TypeOK
<1>2. /\ Len(stack) \in Nat \ {0}
      /\ stack' \in Seq(Frame)
      /\ Len(stack') = Len(stack) - 1
      /\ \A i \in 1..(Len(stack) - 1) : stack'[i] = stack[i]
  BY <1>1, TopAndRest
<1>3. /\ DOMAIN stack = 1..Len(stack)
      /\ DOMAIN stack' = 1..(Len(stack) - 1)
      /\ \A i \in DOMAIN stack' : i \in DOMAIN stack /\ stack'[i] = stack[i]
  BY <1>1, <1>2, LenProperties
<1>4. TypeOK'
  BY <1>1, <1>2 DEF Inv, TypeOK
<1>5. Known'
  BY <1>1, <1>3 DEF Inv, Known, OuterCluster
<1>6. OwnModule'
  BY <1>1 DEF Inv, OwnModule, Given
<1>7. NoReentry'
  BY <1>3 DEF Inv, NoReentry, IsInjective
<1> QED
  BY <1>4, <1>5, <1>6, <1>7 DEF Inv

(* It is kept by the last pass over the dependencies. *)
LEMMA CheckInv == ASSUME Inv, Check PROVE Inv'
<1>1. stack = << >> /\ UNCHANGED <<input, at, queue, order, stack>>
  BY DEF Check
<1>2. CASE UNCHANGED svc /\ status' = "unsatisfied"
  BY <1>1, <1>2 DEF Inv, TypeOK, Known, OwnModule, NoReentry, OuterCluster,
                    Given, Rejected
<1>3. CASE /\ svc' = [s \in DOMAIN svc |->
                        [svc[s] EXCEPT !.deps =
                           [i \in DOMAIN @ |-> Switched(@[i])]]]
           /\ status' = "nodes"
  <2>1. DOMAIN svc' = DOMAIN svc
    BY <1>3
  <2>2. ASSUME NEW s \in DOMAIN svc
        PROVE  /\ svc'[s] \in Registry
               /\ svc'[s].module = svc[s].module
               /\ Len(svc'[s].deps) = Len(svc[s].deps)
               /\ DOMAIN svc'[s].deps = DOMAIN svc[s].deps
               /\ \A i \in DOMAIN svc[s].deps :
                    svc'[s].deps[i].module = svc[s].deps[i].module
    <3> DEFINE n == Len(svc[s].deps)
               deps == [i \in 1..n |-> Switched(svc[s].deps[i])]
    <3>1. svc[s] \in Registry /\ svc[s].deps \in Seq(Dep)
      BY DEF Inv, TypeOK, Registry
    <3>2. n \in Nat /\ DOMAIN svc[s].deps = 1..n
      BY <3>1, LenProperties
    <3>3. \A i \in 1..n : svc[s].deps[i] \in Dep
      BY <3>1, ElementOfSeq
    <3>4. \A d \in Dep : Switched(d) \in Dep /\ Switched(d).module = d.module
      BY SwitchedTyped
    <3>5. deps \in [1..n -> Dep]
      BY <3>3, <3>4
    <3>6. deps \in Seq(Dep) /\ Len(deps) = n /\ DOMAIN deps = 1..n
      BY <3>2, <3>5
    <3>7. \A i \in 1..n : deps[i].module = svc[s].deps[i].module
      BY <3>3, <3>4
    <3>8. svc'[s] = [svc[s] EXCEPT !.deps = deps]
      BY <1>3, <3>2
    <3> HIDE DEF deps
    <3> QED
      BY <3>1, <3>2, <3>6, <3>7, <3>8 DEF Registry
  <2>3. TypeOK'
    BY <1>1, <1>3, <2>1, <2>2 DEF Inv, TypeOK, Registry
  <2>4. Known'
    BY <1>1, <2>1 DEF Inv, Known, OuterCluster
  <2>5. OwnModule'
    <3>1. Given' = Given /\ input' = input
      BY <1>1 DEF Given
    <3>2. \A s \in DOMAIN svc : svc[s].deps = << >> => svc'[s].deps = << >>
      <4> SUFFICES ASSUME NEW s \in DOMAIN svc, svc[s].deps = << >>
                   PROVE  svc'[s].deps = << >>
        OBVIOUS
      <4>1. svc'[s].deps \in Seq(Dep) /\ Len(svc'[s].deps) = 0
        BY <2>2 DEF Registry
      <4> QED
        BY <4>1, EmptySeq
    <3> QED
      BY <2>1, <2>2, <3>1, <3>2 DEF Inv, OwnModule
  <2>6. NoReentry'
    BY <1>1 DEF NoReentry, IsInjective
  <2> QED
    BY <2>3, <2>4, <2>5, <2>6 DEF Inv
<1> QED
  BY <1>2, <1>3 DEF Check

(* It is kept when the nodes are validated. *)
LEMMA NodesInv == ASSUME Inv, AcceptNodes \/ RejectNode PROVE Inv'
<1>1. UNCHANGED <<input, at, queue, order, svc, stack>>
  BY DEF AcceptNodes, RejectNode
<1>2. status' \in {"done", "missing", "nocluster"}
  BY DEF AcceptNodes, RejectNode
<1> QED
  BY <1>1, <1>2 DEF Inv, TypeOK, Known, OwnModule, NoReentry, OuterCluster,
                    Given, Rejected

-----------------------------------------------------------------------------
(* The invariant is inductive. *)
LEMMA Invariance == Spec => []Inv
<1>1. Inv /\ [Next]_vars => Inv'
  BY StutterInv, NextClusterInv, VisitInv, LoadInv, RejectBindInv, BindInv,
     RegisterAutoInv, LeaveInv, CheckInv, NodesInv DEF Next
<1> QED
  BY <1>1, InitInv, PTL DEF Spec

(* Every variable of the discovery keeps its type. *)
THEOREM DiscoveryTyped == Spec => []TypeOK
<1>1. Inv => TypeOK
  BY DEF Inv
<1> QED
  BY <1>1, Invariance, PTL

(* However the modules depend on each other, no service is visited inside  *)
(* its own visit: the recursion of discover_service is bounded by the      *)
(* number of services (normalize.js:228-234).                              *)
THEOREM Bounded == Spec => []NoReentry
<1>1. Inv => NoReentry
  BY DEF Inv
<1> QED
  BY <1>1, Invariance, PTL

(* A service is registered only in a cluster which has none of its module, *)
(* whatever was visited before (normalize.js:188-234).                     *)
THEOREM RegistersOnce == Spec => AutoOnce
<1> DEFINE Once ==
      \A s \in DOMAIN svc' : s \notin DOMAIN svc
        => \A t \in DOMAIN svc : t[1] = s[1] => svc[t].module # svc'[s].module
<1>1. Inv /\ [Next]_vars => [Once]_vars
  <2> SUFFICES ASSUME Inv, Next PROVE Once \/ DOMAIN svc' = DOMAIN svc
    BY DEF vars
  <2>1. CASE RegisterAuto
    <3> DEFINE c == ClusterOf(Top, Current)
               m == Current.module
    <3>1. Matches(c, m) = {}
      BY <2>1, RegisteredNew
    <3>2. /\ DOMAIN svc' = DOMAIN svc \union {<<c, m>>}
          /\ svc'[<<c, m>>].module = m
      BY <2>1 DEF RegisterAuto, Registered
    <3> QED
      BY <3>1, <3>2 DEF Matches
  <2>2. CASE Bind
    BY <2>2 DEF Bind, Bound
  <2>3. CASE Load
    BY <2>3 DEF Load
  <2>4. CASE Check
    BY <2>4 DEF Check
  <2>5. CASE NextCluster \/ Visit \/ RejectBind \/ Leave \/ AcceptNodes \/ RejectNode
    BY <2>5 DEF NextCluster, Visit, RejectBind, Leave, AcceptNodes, RejectNode
  <2> QED
    BY <2>1, <2>2, <2>3, <2>4, <2>5 DEF Next
<1> QED
  BY <1>1, Invariance, PTL DEF Spec, AutoOnce
=============================================================================
