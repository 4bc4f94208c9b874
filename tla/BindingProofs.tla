---------------------------- MODULE BindingProofs ----------------------------
(***************************************************************************)
(* Proofs that a declared service is bound to services of the modules its  *)
(* dependencies give, whatever is visited and registered afterwards, and   *)
(* that a service nobody declared is registered for a reason which lasts.  *)
(***************************************************************************)
EXTENDS LoadingProofs

BInv == DeclaredSelected /\ CallsUnnamed /\ VisitedOnce

-----------------------------------------------------------------------------
(* A service found by its module is a registered service of that module. *)
LEMMA FoundMatches ==
  ASSUME Inv, Binding, Did(Top, Current) = None, ServiceOf(Top, Current) # None
  PROVE  /\ <<ClusterOf(Top, Current), ServiceOf(Top, Current)>> \in DOMAIN svc
         /\ svc[<<ClusterOf(Top, Current), ServiceOf(Top, Current)>>].module
              = Current.module
<1> DEFINE c == ClusterOf(Top, Current)
           found == Matches(c, Current.module)
           s == CHOOSE x \in found : TRUE
<1>1. found \subseteq Service /\ IsFiniteSet(found)
  <2>1. DOMAIN svc \subseteq Service
    BY DEF Inv, TypeOK
  <2>2. IsFiniteSet(Service)
    BY FiniteAssumption, FS_Product DEF Service
  <2> QED
    BY <2>1, <2>2, FS_Subset DEF Matches
<1>2. Cardinality(found) = 1 /\ ServiceOf(Top, Current) = s[2]
  BY DEF ServiceOf
<1>3. s \in found
  BY <1>1, <1>2, FS_EmptySet
<1>4. s \in DOMAIN svc /\ s[1] = c /\ svc[s].module = Current.module
  BY <1>3 DEF Matches
<1>5. s = <<s[1], s[2]>>
  BY <1>1, <1>3 DEF Service
<1> QED
  BY <1>2, <1>4, <1>5

(* What the binding of a dependency writes. *)
LEMMA BoundWrites ==
  ASSUME Inv, Binding, NEW service \in Name \union {None}
  PROVE  /\ DOMAIN Bound(service) = DOMAIN svc
         /\ \A s \in DOMAIN svc : s # Top.key => Bound(service)[s] = svc[s]
         /\ \A s \in DOMAIN svc : Bound(service)[s].module = svc[s].module
         /\ DOMAIN Bound(service)[Top.key].deps = DOMAIN svc[Top.key].deps
         /\ \A i \in DOMAIN svc[Top.key].deps :
              i # Top.next => Bound(service)[Top.key].deps[i] = svc[Top.key].deps[i]
         /\ LET d == Bound(service)[Top.key].deps[Top.next] IN
              /\ d.service = service /\ d.cluster = ClusterOf(Top, Current)
              /\ d.module = Current.module /\ d.auto = Current.auto
              /\ d.disabled = Current.disabled /\ d.text = Current.text
<1> DEFINE new == [Current EXCEPT !.cluster = ClusterOf(Top, Current),
                                  !.service = service, !.prefix = None]
           deps == [svc[Top.key].deps EXCEPT ![Top.next] = new]
<1>1. /\ Top.key \in DOMAIN svc
      /\ svc[Top.key].deps \in Seq(Dep)
      /\ Top.next \in 1..Len(svc[Top.key].deps)
      /\ Current \in Dep
  BY BindingReads
<1>2. /\ new.service = service /\ new.cluster = ClusterOf(Top, Current)
      /\ new.module = Current.module /\ new.auto = Current.auto
      /\ new.disabled = Current.disabled /\ new.text = Current.text
  BY <1>1 DEF Dep
<1>3. Bound(service) = [svc EXCEPT ![Top.key] = [@ EXCEPT !.deps = deps]]
  BY DEF Bound, Current
<1>4. svc[Top.key] \in Registry
  BY <1>1 DEF Inv, TypeOK, Registry
<1> HIDE DEF new
<1>5. /\ DOMAIN deps = DOMAIN svc[Top.key].deps
      /\ deps[Top.next] = new
      /\ \A i \in DOMAIN svc[Top.key].deps :
           i # Top.next => deps[i] = svc[Top.key].deps[i]
  <2>1. Top.next \in DOMAIN svc[Top.key].deps
    BY <1>1, LenProperties
  <2> QED
    BY <2>1
<1> HIDE DEF deps
<1>6. /\ DOMAIN Bound(service) = DOMAIN svc
      /\ \A s \in DOMAIN svc : s # Top.key => Bound(service)[s] = svc[s]
      /\ Bound(service)[Top.key].module = svc[Top.key].module
      /\ Bound(service)[Top.key].deps = deps
  BY <1>1, <1>3, <1>4 DEF Registry
<1>7. \A s \in DOMAIN svc : Bound(service)[s].module = svc[s].module
  BY <1>6
<1> QED
  BY <1>2, <1>5, <1>6, <1>7

-----------------------------------------------------------------------------
(* An object has a key once, and what is registered is new. *)
LEMMA NoDuplicatesInit == Init => NoDuplicates
<1> SUFFICES ASSUME Init PROVE NoDuplicates
  OBVIOUS
<1>1. WellFormed(input) /\ order = input.declared /\ queue = << >>
  BY InputsAssumption DEF Init
<1> QED
  BY <1>1 DEF NoDuplicates, WellFormed, IsInjective

LEMMA NoDuplicatesStep == ASSUME Inv, NoDuplicates, [Next]_vars PROVE NoDuplicates'
<1>1. CASE NextCluster
  <2>1. input.clusters \in Seq(Cluster) /\ at \in 0..Len(input.clusters)
    BY DEF Inv, TypeOK, WellFormed
  <2>2. at + 1 \in 1..Len(input.clusters)
    BY <1>1, <2>1, LenProperties DEF NextCluster
  <2>3. input.clusters[at + 1] \in Cluster
    BY <2>1, <2>2, ElementOfSeq
  <2> QED
    BY <1>1, <2>3 DEF NextCluster, NoDuplicates
<1>2. CASE Visit
  <2>1. queue \in Seq(Name) /\ queue # << >> /\ queue' = Tail(queue)
    BY <1>2 DEF Visit, Inv, TypeOK
  <2>2. Tail(queue) \in Seq(Name)
    BY <2>1, HeadTailProperties
  <2>3. /\ Len(Tail(queue)) = Len(queue) - 1 /\ Len(queue) \in Nat
        /\ \A i \in 1..Len(Tail(queue)) : Tail(queue)[i] = queue[i + 1]
        /\ DOMAIN queue = 1..Len(queue)
        /\ DOMAIN Tail(queue) = 1..Len(Tail(queue))
    BY <2>1, <2>2, HeadTailProperties, LenProperties
  <2>4. IsInjective(Tail(queue))
    <3> SUFFICES ASSUME NEW i \in DOMAIN Tail(queue), NEW j \in DOMAIN Tail(queue),
                        Tail(queue)[i] = Tail(queue)[j]
                 PROVE  i = j
      BY DEF IsInjective
    <3>1. i + 1 \in DOMAIN queue /\ j + 1 \in DOMAIN queue /\ queue[i + 1] = queue[j + 1]
      BY <2>3
    <3>2. i + 1 = j + 1
      BY <3>1 DEF NoDuplicates, IsInjective
    <3> QED
      BY <2>3, <3>2
  <2> QED
    BY <1>2, <2>1, <2>4 DEF Visit, NoDuplicates
<1>3. CASE RegisterAuto
  <2> DEFINE c == ClusterOf(Top, Current)
             m == Current.module
  <2>1. /\ order' = [order EXCEPT ![c] = Append(@, m)] /\ queue' = queue
        /\ order \in [Cluster -> Seq(Name)]
    BY <1>3 DEF RegisterAuto, Inv, TypeOK
  <2>2. c \in Cluster
    BY <1>3, BindingReads DEF RegisterAuto
  <2>3. m \in Name /\ <<c, m>> \notin DOMAIN svc
    BY <1>3, RegisteredNew
  <2>4. \A i \in DOMAIN order[c] : order[c][i] # m
    BY <2>2, <2>3 DEF Inv, Known
  <2> HIDE DEF c, m
  <2>5. IsInjective(Append(order[c], m))
    <3> DEFINE l == order[c]
               longer == Append(l, m)
    <3>1. l \in Seq(Name) /\ IsInjective(l) /\ \A i \in DOMAIN l : l[i] # m
      BY <2>1, <2>2, <2>4 DEF NoDuplicates
    <3> HIDE DEF l
    <3>2. /\ longer \in Seq(Name) /\ Len(longer) = Len(l) + 1
          /\ \A i \in 1..Len(l) : longer[i] = l[i]
          /\ longer[Len(l) + 1] = m
      BY <2>3, <3>1, AppendProperties
    <3> HIDE DEF longer
    <3>3. /\ DOMAIN l = 1..Len(l) /\ DOMAIN longer = 1..(Len(l) + 1) /\ Len(l) \in Nat
      BY <3>1, <3>2, LenProperties
    <3>4. \A i \in DOMAIN longer : i \in DOMAIN l \/ i = Len(l) + 1
      BY <3>3
    <3>5. \A i, j \in DOMAIN longer : longer[i] = longer[j] => i = j
      BY <3>1, <3>2, <3>3, <3>4 DEF IsInjective
    <3> QED
      BY <3>5 DEF IsInjective, longer, l
  <2> QED
    BY <2>1, <2>2, <2>5 DEF NoDuplicates
<1>4. CASE Load \/ RejectBind \/ Bind \/ Leave \/ Check \/ AcceptNodes \/ RejectNode
            \/ UNCHANGED vars
  <2>1. UNCHANGED <<queue, order>>
    BY <1>4 DEF Load, RejectBind, Bind, Leave, Check, AcceptNodes, RejectNode, vars
  <2> QED
    BY <2>1 DEF NoDuplicates
<1> QED
  BY <1>1, <1>2, <1>3, <1>4 DEF Next

-----------------------------------------------------------------------------
(* Options of a configuration name no service where none is named. *)
LEMMA GivenUnnamed ==
  ASSUME WellFormed(input), NEW s \in Service, NEW i \in DOMAIN input.given[s],
         NoneNamed(input, s, i)
  PROVE  input.given[s][i].service = None
<1>1. input.given[s] \in Seq(Dep)
  BY DEF WellFormed
<1>2. i \in 1..i
  BY <1>1, LenProperties
<1> QED
  BY <1>2 DEF NoneNamed

(* Initially nothing is bound but by these options. *)
LEMMA InitBinding == Init => BInv
<1> SUFFICES ASSUME Init PROVE BInv
  OBVIOUS
<1>1. /\ WellFormed(input) /\ stack = << >>
      /\ svc = [s \in Declared(input) |->
                  [module |-> input.module[s], deps |-> input.given[s]]]
  BY InputsAssumption DEF Init
<1>2. ASSUME NEW s \in Declared(input)
      PROVE  /\ s \in Service /\ s \in DOMAIN svc
             /\ svc[s].module = input.module[s] /\ svc[s].deps = input.given[s]
  BY <1>1 DEF Declared
<1>3. DeclaredSelected
  BY <1>1, <1>2, GivenUnnamed DEF DeclaredSelected, Selected
<1>4. CallsUnnamed /\ VisitedOnce
  BY <1>1, <1>2 DEF CallsUnnamed, VisitedOnce
<1> QED
  BY <1>3, <1>4 DEF BInv

(* A binding lasts while services are registered. *)
LEMMA SelectedLasts ==
  ASSUME DOMAIN svc \subseteq DOMAIN svc',
         \A s \in DOMAIN svc : svc'[s].module = svc[s].module,
         NEW d, Selected(svc, d)
  PROVE  Selected(svc', d)
  BY DEF Selected, Target

(* What a call does to its own service is all that matters. *)
LEMMA WorkBinding ==
  ASSUME Inv, BInv, stack # << >>, input' = input, NEW f, f.key = Top.key,
         \A k \in DOMAIN stack' :
           \/ stack'[k] = f
           \/ k \in DOMAIN stack /\ k # Len(stack) /\ stack'[k] = stack[k]
           \/ stack'[k].key \notin Declared(input),
         DOMAIN svc \subseteq DOMAIN svc',
         \A s \in DOMAIN svc : svc'[s].module = svc[s].module,
         \A s \in DOMAIN svc : s # Top.key => svc'[s] = svc[s],
         \A s \in Declared(input) : Awaiting(s)' => Awaiting(s),
         Top.key \in Declared(input) =>
           /\ CallUnnamed(f, input, svc'[Top.key].deps)
           /\ \A i \in DOMAIN svc'[Top.key].deps :
                NoneNamed(input, Top.key, i) => Selected(svc', svc'[Top.key].deps[i])
  PROVE  BInv'
<1>1. Len(stack) \in DOMAIN stack
  <2>1. stack \in Seq(Frame)
    BY DEF Inv, TypeOK
  <2> QED
    BY <2>1, TopAndRest, LenProperties
<1>2. \A k \in DOMAIN stack : k # Len(stack) => stack[k].key # Top.key
  <2>1. \A i, k \in DOMAIN stack : stack[i].key = stack[k].key => i = k
    BY DEF Inv, NoReentry, IsInjective
  <2> QED
    BY <1>1, <2>1 DEF Top
<1>3. DeclaredSelected'
  <2> SUFFICES ASSUME NEW s \in Declared(input)
               PROVE  /\ s \in DOMAIN svc' /\ svc'[s].module = input.module[s]
                      /\ \A i \in DOMAIN svc'[s].deps :
                           NoneNamed(input, s, i) => Selected(svc', svc'[s].deps[i])
    BY DEF DeclaredSelected
  <2>1. /\ s \in DOMAIN svc /\ svc[s].module = input.module[s]
        /\ \A i \in DOMAIN svc[s].deps :
             NoneNamed(input, s, i) => Selected(svc, svc[s].deps[i])
    BY DEF BInv, DeclaredSelected
  <2>2. CASE s = Top.key
    BY <2>1, <2>2
  <2>3. CASE s # Top.key
    BY <2>1, <2>3, SelectedLasts
  <2> QED
    BY <2>2, <2>3
<1>4. CallsUnnamed'
  <2> SUFFICES ASSUME NEW k \in DOMAIN stack', stack'[k].key \in Declared(input)
               PROVE  CallUnnamed(stack'[k], input, svc'[stack'[k].key].deps)
    BY DEF CallsUnnamed
  <2>1. CASE stack'[k] = f
    BY <2>1
  <2>2. CASE k \in DOMAIN stack /\ k # Len(stack) /\ stack'[k] = stack[k]
    <3>1. CallUnnamed(stack[k], input, svc[stack[k].key].deps)
      BY <2>2 DEF BInv, CallsUnnamed
    <3>2. svc'[stack[k].key] = svc[stack[k].key]
      BY <1>2, <2>2 DEF Inv, Known
    <3> QED
      BY <2>2, <3>1, <3>2
  <2> QED
    BY <2>1, <2>2
<1>5. VisitedOnce'
  <2> SUFFICES ASSUME NEW s \in Declared(input), Awaiting(s)'
               PROVE  /\ \A k \in DOMAIN stack' : stack'[k].key # s
                      /\ svc'[s].deps = input.given[s]
    BY DEF VisitedOnce
  <2>1. /\ \A k \in DOMAIN stack : stack[k].key # s
        /\ svc[s].deps = input.given[s]
    BY DEF BInv, VisitedOnce
  <2>2. s # Top.key
    BY <1>1, <2>1 DEF Top
  <2>3. s \in DOMAIN svc
    BY DEF BInv, DeclaredSelected
  <2> QED
    BY <2>1, <2>2, <2>3
<1> QED
  BY <1>3, <1>4, <1>5 DEF BInv

(* A service of the cluster which is entered was awaiting already. *)
LEMMA NextClusterBinding == ASSUME Inv, BInv, NextCluster PROVE BInv'
<1>1. /\ at' = at + 1 /\ at + 1 \in DOMAIN input.clusters /\ at + 1 > at
      /\ queue' = order[input.clusters[at + 1]]
      /\ UNCHANGED <<input, order, svc, stack>>
  <2>1. input.clusters \in Seq(Cluster) /\ at \in 0..Len(input.clusters)
    BY DEF Inv, TypeOK, WellFormed
  <2> QED
    BY <2>1, LenProperties DEF NextCluster
<1>2. at \in Nat /\ \A j \in DOMAIN input.clusters : j \in Nat
  <2>1. input.clusters \in Seq(Cluster)
    BY DEF Inv, TypeOK, WellFormed
  <2> QED
    BY <2>1, LenProperties DEF Inv, TypeOK
<1>3. ASSUME NEW s \in Declared(input), Awaiting(s)' PROVE Awaiting(s)
  <2>1. CASE \E i \in DOMAIN queue' : s = <<OuterCluster', queue'[i]>>
    BY <1>1, <2>1 DEF Awaiting, OuterCluster
  <2>2. CASE \E j \in DOMAIN input.clusters :
               /\ j > at + 1 /\ input.clusters[j] = s[1]
               /\ \E i \in DOMAIN order[s[1]] : order[s[1]][i] = s[2]
    BY <1>2, <2>2 DEF Awaiting
  <2> QED
    BY <1>1, <1>3, <2>1, <2>2 DEF Awaiting
<1> QED
  BY <1>1, <1>3 DEF BInv, DeclaredSelected, CallsUnnamed, VisitedOnce

(* The service which is visited was not before, and is not to be again. *)
LEMMA VisitBinding == ASSUME Inv, NoDuplicates, BInv, Visit PROVE BInv'
<1> DEFINE key == <<OuterCluster, Head(queue)>>
<1>1. /\ stack = << >> /\ queue # << >>
      /\ stack' = <<Call(key)>>
      /\ queue' = Tail(queue)
      /\ UNCHANGED <<input, at, order, svc, status>>
  BY DEF Visit
<1>2. /\ Len(Tail(queue)) = Len(queue) - 1
      /\ \A i \in 1..Len(Tail(queue)) : Tail(queue)[i] = queue[i + 1]
      /\ Len(queue) \in Nat \ {0}
      /\ DOMAIN queue = 1..Len(queue)
      /\ DOMAIN Tail(queue) = 1..Len(Tail(queue))
      /\ Head(queue) = queue[1]
  <2>1. queue \in Seq(Name)
    BY DEF Inv, TypeOK
  <2>2. Tail(queue) \in Seq(Name)
    BY <1>1, <2>1, HeadTailProperties
  <2> QED
    BY <1>1, <2>1, <2>2, HeadTailProperties, LenProperties, EmptySeq
<1>3. \A i \in DOMAIN Tail(queue) :
        i + 1 \in DOMAIN queue /\ i + 1 # 1 /\ Tail(queue)[i] = queue[i + 1]
  BY <1>2
<1>4. DOMAIN stack' = {1} /\ stack'[1] = Call(key)
  BY <1>1
<1>5. OuterCluster' = OuterCluster
  BY <1>1 DEF OuterCluster
<1>6. Awaiting(key)
  BY <1>2 DEF Awaiting
<1>7. ASSUME NEW s \in Declared(input), Awaiting(s)' PROVE Awaiting(s) /\ s # key
  <2>1. CASE \E i \in DOMAIN queue' : s = <<OuterCluster', queue'[i]>>
    <3>1. PICK i \in DOMAIN queue' : s = <<OuterCluster', queue'[i]>>
      BY <2>1
    <3>2. /\ i + 1 \in DOMAIN queue /\ i + 1 # 1
          /\ s = <<OuterCluster, queue[i + 1]>>
      BY <1>1, <1>3, <1>5, <3>1
    <3>3. queue[i + 1] # queue[1]
      BY <1>2, <3>2 DEF NoDuplicates, IsInjective
    <3> QED
      BY <1>2, <3>2, <3>3 DEF Awaiting
  <2>2. CASE \E j \in DOMAIN input.clusters :
               /\ j > at /\ input.clusters[j] = s[1]
               /\ \E i \in DOMAIN order[s[1]] : order[s[1]][i] = s[2]
    <3>1. PICK j \in DOMAIN input.clusters : j > at /\ input.clusters[j] = s[1]
      BY <2>2
    <3>2. /\ input.clusters \in Seq(Cluster) /\ IsInjective(input.clusters)
          /\ at \in 0..Len(input.clusters) /\ at > 0
      BY <1>1 DEF Inv, TypeOK, Known, WellFormed
    <3>3. at \in DOMAIN input.clusters /\ j # at
      BY <3>1, <3>2, LenProperties
    <3>4. s[1] # OuterCluster
      BY <3>1, <3>2, <3>3 DEF IsInjective, OuterCluster
    <3> QED
      BY <2>2, <3>4 DEF Awaiting
  <2> QED
    BY <1>1, <1>7, <2>1, <2>2 DEF Awaiting
<1>8. DeclaredSelected'
  BY <1>1 DEF BInv, DeclaredSelected
<1>9. VisitedOnce'
  BY <1>1, <1>4, <1>7 DEF BInv, VisitedOnce, Call
<1>10. ASSUME key \in Declared(input)
       PROVE  CallUnnamed(Call(key), input, svc[key].deps)
  <2>1. svc[key].deps = input.given[key]
    BY <1>6, <1>10 DEF BInv, VisitedOnce
  <2>2. key \in Service /\ WellFormed(input)
    BY <1>10 DEF Declared, Inv, TypeOK
  <2>3. \A i \in DOMAIN input.given[key] :
          NoneNamed(input, key, i) => input.given[key][i].service = None
    BY <2>2, GivenUnnamed
  <2>4. Call(key).key = key /\ Call(key).did = None
    BY DEF Call
  <2> QED
    BY <2>1, <2>3, <2>4 DEF CallUnnamed
<1>11. CallsUnnamed'
  <2>1. Call(key).key = key
    BY DEF Call
  <2> HIDE DEF key
  <2> QED
    BY <1>1, <1>4, <1>10, <2>1 DEF CallsUnnamed
<1> QED
  BY <1>8, <1>9, <1>11 DEF BInv

(* A dependency which neither side binds stays unbound when it is merged. *)
LEMMA MergedUnnamed ==
  ASSUME NEW old \in Seq(Dep), NEW new \in Seq(Dep),
         old # << >> => Len(old) = Len(new),
         NEW i \in DOMAIN new, new[i].service = None,
         i \in DOMAIN old => old[i].service = None
  PROVE  MergeDeps(old, new)[i].service = None
<1>1. CASE old = << >>
  BY <1>1 DEF MergeDeps
<1>2. CASE old # << >>
  <2>1. i \in DOMAIN old
    BY <1>2, LenProperties
  <2>2. MergeDeps(old, new)[i] = Merged(old[i], new[i])
    BY <1>2 DEF MergeDeps
  <2>3. Merged(old[i], new[i]).service = None
    BY <2>1 DEF Merged, Option
  <2> QED
    BY <2>2, <2>3
<1> QED
  BY <1>1, <1>2

(* The call which loads its module leaves its dependencies unbound. *)
LEMMA LoadBinding == ASSUME Inv, BInv, Load PROVE BInv'
<1>1. stack # << >> /\ Top.next = 0 /\ UNCHANGED <<input, at, queue, order>>
  BY DEF Load
<1>2. CASE svc[Top.key].module \notin DOMAIN input.modules
  <2>1. UNCHANGED <<svc, stack>>
    BY <1>2 DEF Load
  <2> QED
    BY <1>1, <2>1 DEF BInv, DeclaredSelected, CallsUnnamed, VisitedOnce, Awaiting,
                      OuterCluster
<1>3. CASE svc[Top.key].module \in DOMAIN input.modules
  <2> DEFINE old == svc[Top.key].deps
             new == input.modules[svc[Top.key].module]
             merged == MergeDeps(old, new)
             frame == [Top EXCEPT !.next = 1]
  <2>1. stack \in Seq(Frame) /\ Top \in Frame /\ Len(stack) \in DOMAIN stack
    BY <1>1, TopAndRest, LenProperties DEF Inv, TypeOK
  <2>2. Top.key \in DOMAIN svc
    BY <2>1 DEF Inv, Known, Top
  <2>3. svc[Top.key] \in Registry
    BY <2>2 DEF Inv, TypeOK, Registry
  <2>4. /\ svc' = [svc EXCEPT ![Top.key] = [@ EXCEPT !.deps = merged]]
        /\ stack' = Append(Rest, frame)
    BY <1>3 DEF Load
  <2>5. old \in Seq(Dep) /\ new \in Seq(Dep) /\ (old # << >> => Len(old) = Len(new))
    BY <1>3, <2>2, <2>3 DEF Inv, TypeOK, WellFormed, OwnModule, Registry
  <2>6. /\ frame \in Frame /\ frame.key = Top.key
        /\ frame.next = 1 /\ frame.did = Top.did
    BY <2>1 DEF Frame
  <2> HIDE DEF old, new, frame
  <2>7. DOMAIN merged = DOMAIN new /\ \A i \in DOMAIN new : i \in 1..i /\ i >= 0
    BY <2>5, MergeTyped, LenProperties
  <2>8. ASSUME Top.key \in Declared(input)
        PROVE  /\ Top.did = None
               /\ \A i \in DOMAIN new :
                    NoneNamed(input, Top.key, i) => merged[i].service = None
    <3>1. CallUnnamed(Top, input, old)
      BY <2>1, <2>8 DEF BInv, CallsUnnamed, Top, old
    <3>2. Top.did = None
      BY <1>1, <3>1 DEF CallUnnamed, NoneNamed
    <3>3. new = input.modules[input.module[Top.key]]
      BY <2>8 DEF BInv, DeclaredSelected, new
    <3>4. ASSUME NEW i \in DOMAIN new, NoneNamed(input, Top.key, i)
          PROVE  merged[i].service = None
      <4>1. new[i].service = None
        BY <2>7, <3>3, <3>4 DEF NoneNamed
      <4>2. i \in DOMAIN old => old[i].service = None
        BY <1>1, <2>7, <3>1, <3>4 DEF CallUnnamed
      <4> QED
        BY <2>5, <4>1, <4>2, MergedUnnamed
    <3> QED
      BY <3>2, <3>4
  <2> HIDE DEF merged
  <2>9. /\ DOMAIN svc \subseteq DOMAIN svc'
        /\ \A s \in DOMAIN svc : svc'[s].module = svc[s].module
        /\ \A s \in DOMAIN svc : s # Top.key => svc'[s] = svc[s]
        /\ svc'[Top.key].deps = merged
    BY <2>2, <2>3, <2>4 DEF Registry
  <2>10. \A k \in DOMAIN stack' :
           \/ stack'[k] = frame
           \/ k \in DOMAIN stack /\ k # Len(stack) /\ stack'[k] = stack[k]
    BY <1>1, <2>1, <2>4, <2>6, TopReplaced
  <2>11. \A s \in Declared(input) : Awaiting(s)' => Awaiting(s)
    BY <1>1 DEF Awaiting, OuterCluster
  <2>12. Top.key \in Declared(input) =>
           /\ CallUnnamed(frame, input, svc'[Top.key].deps)
           /\ \A i \in DOMAIN svc'[Top.key].deps :
                NoneNamed(input, Top.key, i) => Selected(svc', svc'[Top.key].deps[i])
    BY <2>6, <2>7, <2>8, <2>9 DEF CallUnnamed, Selected
  <2> QED
    BY <1>1, <2>6, <2>9, <2>10, <2>11, <2>12, WorkBinding
<1> QED
  BY <1>2, <1>3

(* A dependency which names no service, after none which names one, is     *)
(* bound to the service with its module, and the call remembers none.      *)
LEMMA BoundUnnamed ==
  ASSUME Inv, BInv, Binding, Top.key \in Declared(input),
         NEW service \in Name \union {None},
         DOMAIN svc \subseteq DOMAIN svc',
         \A s \in DOMAIN svc : svc'[s].module = svc[s].module,
         svc'[Top.key] = Bound(service)[Top.key],
         Did(Top, Current) = None /\ service # None =>
           /\ <<ClusterOf(Top, Current), service>> \in DOMAIN svc'
           /\ svc'[<<ClusterOf(Top, Current), service>>].module = Current.module
  PROVE  /\ CallUnnamed(Advanced(Top, Current), input, svc'[Top.key].deps)
         /\ \A i \in DOMAIN svc'[Top.key].deps :
              NoneNamed(input, Top.key, i) => Selected(svc', svc'[Top.key].deps[i])
<1> DEFINE n == Top.next
           old == svc[Top.key].deps
           new == Bound(service)[Top.key].deps
<1>1. /\ old \in Seq(Dep) /\ n \in 1..Len(old) /\ DOMAIN old = 1..Len(old)
  BY BindingReads, LenProperties
<1>2. /\ DOMAIN new = DOMAIN old
      /\ \A i \in DOMAIN old : i # n => new[i] = old[i]
      /\ new[n].service = service /\ new[n].cluster = ClusterOf(Top, Current)
      /\ new[n].module = Current.module
  BY BoundWrites
<1>3. CallUnnamed(Top, input, old)
  <2>1. stack \in Seq(Frame) /\ stack # << >>
    BY DEF Inv, TypeOK, Binding
  <2>2. Len(stack) \in DOMAIN stack
    BY <2>1, TopAndRest, LenProperties
  <2> QED
    BY <2>2 DEF BInv, CallsUnnamed, Top
<1>4. NoneNamed(input, Top.key, n) => Did(Top, Current) = None
  <2> SUFFICES ASSUME NoneNamed(input, Top.key, n) PROVE Did(Top, Current) = None
    OBVIOUS
  <2>1. NoneNamed(input, Top.key, n - 1)
    BY <1>1 DEF NoneNamed
  <2>2. Current.service = None /\ Top.did = None
    BY <1>1, <1>3, <2>1 DEF CallUnnamed, Current
  <2> QED
    BY <2>2 DEF Did
<1>5. /\ Advanced(Top, Current).key = Top.key
      /\ Advanced(Top, Current).next = n + 1
      /\ Advanced(Top, Current).did = Did(Top, Current)
  BY DEF Advanced
<1> HIDE DEF new, old
<1>6. svc'[Top.key].deps = new
  BY DEF new
<1>7. CallUnnamed(Advanced(Top, Current), input, new)
  <2> DEFINE frame == Advanced(Top, Current)
  <2>1. frame.key = Top.key /\ frame.next = n + 1 /\ frame.did = Did(Top, Current)
        /\ frame.next - 1 = n
    BY <1>1, <1>5
  <2>2. \A i \in DOMAIN new :
          i >= n + 1 /\ NoneNamed(input, Top.key, i) => new[i].service = None
    <3> SUFFICES ASSUME NEW i \in DOMAIN new, i >= n + 1, NoneNamed(input, Top.key, i)
                 PROVE  new[i].service = None
      OBVIOUS
    <3>1. i # n /\ i >= n /\ i \in DOMAIN old
      BY <1>1, <1>2
    <3> QED
      BY <1>2, <1>3, <3>1 DEF CallUnnamed
  <2> HIDE DEF frame, n
  <2>3. NoneNamed(input, frame.key, frame.next - 1) => frame.did = None
    BY <1>4, <2>1
  <2>4. CallUnnamed(frame, input, new)
    BY <2>1, <2>2, <2>3 DEF CallUnnamed
  <2> QED
    BY <2>4 DEF frame
<1>8. ASSUME NEW i \in DOMAIN new, NoneNamed(input, Top.key, i)
      PROVE  Selected(svc', new[i])
  <2>1. CASE i = n
    BY <1>2, <1>4, <1>8, <2>1 DEF Selected, Target
  <2>2. CASE i # n
    <3>1. Selected(svc, old[i])
      BY <1>2, <1>8 DEF BInv, DeclaredSelected, old
    <3> QED
      BY <1>2, <1>8, <2>2, <3>1, SelectedLasts
  <2> QED
    BY <2>1, <2>2
<1> QED
  BY <1>6, <1>7, <1>8

LEMMA BindBinding == ASSUME Inv, BInv, Bind PROVE BInv'
<1> DEFINE service == ServiceOf(Top, Current)
           frame == Advanced(Top, Current)
<1>1. /\ Binding /\ stack \in Seq(Frame) /\ stack # << >>
      /\ svc' = Bound(service)
      /\ stack' = Append(Rest, frame)
      /\ UNCHANGED <<input, at, queue, order>>
  BY DEF Bind, Binding, Inv, TypeOK
<1>2. frame \in Frame /\ frame.key = Top.key
  BY <1>1, BindingReads
<1>3. service \in Name \union {None}
  BY <1>1, FoundTyped
<1>4. Did(Top, Current) = None /\ service # None =>
        /\ <<ClusterOf(Top, Current), service>> \in DOMAIN svc
        /\ svc[<<ClusterOf(Top, Current), service>>].module = Current.module
  BY <1>1, FoundMatches
<1> HIDE DEF service
<1>5. /\ DOMAIN svc' = DOMAIN svc
      /\ \A s \in DOMAIN svc : svc'[s].module = svc[s].module
      /\ \A s \in DOMAIN svc : s # Top.key => svc'[s] = svc[s]
  BY <1>1, <1>3, BoundWrites
<1>6. Top.key \in Declared(input) =>
        /\ CallUnnamed(frame, input, svc'[Top.key].deps)
        /\ \A i \in DOMAIN svc'[Top.key].deps :
             NoneNamed(input, Top.key, i) => Selected(svc', svc'[Top.key].deps[i])
  BY <1>1, <1>3, <1>4, <1>5, BoundUnnamed
<1> HIDE DEF frame
<1>7. \A k \in DOMAIN stack' :
        \/ stack'[k] = frame
        \/ k \in DOMAIN stack /\ k # Len(stack) /\ stack'[k] = stack[k]
  BY <1>1, <1>2, TopReplaced
<1>8. \A s \in Declared(input) : Awaiting(s)' => Awaiting(s)
  BY <1>1 DEF Awaiting, OuterCluster
<1> QED
  BY <1>1, <1>2, <1>5, <1>6, <1>7, <1>8, WorkBinding

(* The service which is registered has the module of the dependency, and   *)
(* is not one which was declared.                                          *)
LEMMA RegisterBinding == ASSUME Inv, BInv, RegisterAuto PROVE BInv'
<1> DEFINE c == ClusterOf(Top, Current)
           m == Current.module
           key == <<c, m>>
           frame == Advanced(Top, Current)
           call == Call(key)
<1>1. /\ Binding /\ stack \in Seq(Frame) /\ stack # << >>
      /\ svc' = Registered(key)
      /\ stack' = Append(Append(Rest, frame), call)
      /\ order' = [order EXCEPT ![c] = Append(@, m)]
      /\ UNCHANGED <<input, at, queue>>
  BY DEF RegisterAuto, Binding, Inv, TypeOK
<1>2. frame \in Frame /\ frame.key = Top.key /\ c \in Cluster /\ Top.key \in DOMAIN svc
  BY <1>1, BindingReads
<1>3. m \in Name /\ m \in Name \union {None} /\ key \notin DOMAIN svc
  BY RegisteredNew
<1>4. call \in Frame /\ call.key = key
  BY <1>2, <1>3 DEF Call, Frame, Service
<1>5. /\ DOMAIN svc' = DOMAIN svc \union {key}
      /\ svc'[key].module = m
      /\ \A s \in DOMAIN svc : svc'[s] = Bound(m)[s]
  BY <1>1, <1>3 DEF Registered
<1>6. key \notin Declared(input)
  BY <1>3 DEF BInv, DeclaredSelected
<1> HIDE DEF m
<1>7. /\ \A s \in DOMAIN svc : svc'[s].module = svc[s].module
      /\ \A s \in DOMAIN svc : s # Top.key => svc'[s] = svc[s]
  <2>1. /\ \A s \in DOMAIN svc : Bound(m)[s].module = svc[s].module
        /\ \A s \in DOMAIN svc : s # Top.key => Bound(m)[s] = svc[s]
    BY <1>1, <1>3, BoundWrites
  <2> QED
    BY <1>5, <2>1
<1>8. key \in DOMAIN svc' /\ svc'[key].module = Current.module
      /\ DOMAIN svc \subseteq DOMAIN svc'
  BY <1>5 DEF m
<1>9. Top.key \in Declared(input) =>
        /\ CallUnnamed(frame, input, svc'[Top.key].deps)
        /\ \A i \in DOMAIN svc'[Top.key].deps :
             NoneNamed(input, Top.key, i) => Selected(svc', svc'[Top.key].deps[i])
  <2>1. svc'[Top.key] = Bound(m)[Top.key]
    BY <1>2, <1>5
  <2> QED
    BY <1>1, <1>3, <1>7, <1>8, <2>1, BoundUnnamed
<1> HIDE DEF frame, call, c, key
<1>10. \A k \in DOMAIN stack' :
         \/ stack'[k] = frame
         \/ k \in DOMAIN stack /\ k # Len(stack) /\ stack'[k] = stack[k]
         \/ stack'[k].key \notin Declared(input)
  <2>1. /\ DOMAIN stack = 1..Len(stack) /\ DOMAIN stack' = 1..(Len(stack) + 1)
        /\ stack'[Len(stack)] = frame /\ stack'[Len(stack) + 1] = call
        /\ \A k \in 1..Len(stack) : k # Len(stack) => stack'[k] = stack[k]
    <3>1. /\ stack \in Seq(Frame) /\ stack # << >> /\ frame \in Frame /\ call \in Frame
          /\ stack' = Append(Append(Rest, frame), call)
      BY <1>1, <1>2, <1>4
    <3> QED
      BY <3>1, CallPushed
  <2>2. \A k \in DOMAIN stack' : k = Len(stack) + 1 \/ k \in 1..Len(stack)
    <3>1. Len(stack) \in Nat /\ DOMAIN stack' = 1..(Len(stack) + 1)
      BY <1>1, <2>1, LenProperties
    <3> QED
      BY <3>1
  <2> QED
    BY <1>4, <1>6, <2>1, <2>2
<1>11. ASSUME NEW s \in Declared(input), Awaiting(s)' PROVE Awaiting(s)
  <2>1. CASE \E i \in DOMAIN queue' : s = <<OuterCluster', queue'[i]>>
    BY <1>1, <2>1 DEF Awaiting, OuterCluster
  <2>2. CASE \E j \in DOMAIN input.clusters :
               /\ j > at /\ input.clusters[j] = s[1]
               /\ \E i \in DOMAIN order'[s[1]] : order'[s[1]][i] = s[2]
    <3>1. s[1] \in Cluster /\ s = <<s[1], s[2]>> /\ order \in [Cluster -> Seq(Name)]
      BY DEF Declared, Service, Inv, TypeOK
    <3>2. s # <<c, m>>
      BY <1>6 DEF key
    <3>3. PICK i \in DOMAIN order'[s[1]] : order'[s[1]][i] = s[2]
      BY <2>2
    <3>4. i \in DOMAIN order[s[1]] /\ order[s[1]][i] = s[2]
      <4>1. CASE s[1] # c
        BY <1>1, <3>1, <3>3, <4>1
      <4>2. CASE s[1] = c
        <5>1. order[c] \in Seq(Name) /\ order'[c] = Append(order[c], m)
          BY <1>1, <1>2, <3>1
        <5>2. /\ Append(order[c], m) \in Seq(Name)
              /\ Len(Append(order[c], m)) = Len(order[c]) + 1
              /\ \A k \in 1..Len(order[c]) : Append(order[c], m)[k] = order[c][k]
              /\ Append(order[c], m)[Len(order[c]) + 1] = m
          BY <1>3, <5>1, AppendProperties
        <5>3. /\ DOMAIN order[c] = 1..Len(order[c])
              /\ DOMAIN order'[c] = 1..(Len(order[c]) + 1)
              /\ Len(order[c]) \in Nat
          BY <5>1, <5>2, LenProperties
        <5>4. i # Len(order[c]) + 1
          BY <3>1, <3>2, <3>3, <4>2, <5>1, <5>2
        <5>5. i \in 1..Len(order[c])
          BY <3>3, <4>2, <5>3, <5>4
        <5> QED
          BY <3>3, <4>2, <5>1, <5>2, <5>3, <5>5
      <4> QED
        BY <4>1, <4>2
    <3> QED
      BY <2>2, <3>4 DEF Awaiting
  <2> QED
    BY <1>1, <1>11, <2>1, <2>2 DEF Awaiting
<1> QED
  BY <1>1, <1>2, <1>7, <1>8, <1>9, <1>10, <1>11, WorkBinding

(* A call which is over leaves the others as they are. *)
LEMMA LeaveBinding == ASSUME Inv, BInv, Leave PROVE BInv'
<1>1. /\ stack \in Seq(Frame) /\ stack # << >> /\ stack' = Rest
      /\ UNCHANGED <<input, at, queue, order, svc>>
  BY DEF Leave, Inv, TypeOK
<1>2. /\ Len(stack) \in Nat \ {0}
      /\ stack' \in Seq(Frame)
      /\ Len(stack') = Len(stack) - 1
      /\ \A i \in 1..(Len(stack) - 1) : stack'[i] = stack[i]
  BY <1>1, TopAndRest
<1>3. \A i \in DOMAIN stack' : i \in DOMAIN stack /\ stack'[i] = stack[i]
  BY <1>1, <1>2, LenProperties
<1>4. DeclaredSelected' /\ CallsUnnamed'
  BY <1>1, <1>3 DEF BInv, DeclaredSelected, CallsUnnamed
<1>5. \A s \in Declared(input) : Awaiting(s)' => Awaiting(s)
  BY <1>1 DEF Awaiting, OuterCluster
<1>6. VisitedOnce'
  BY <1>1, <1>3, <1>5 DEF BInv, VisitedOnce
<1> QED
  BY <1>4, <1>6 DEF BInv

(* The last pass binds nothing, and nothing is left to visit. *)
LEMMA CheckBinding == ASSUME Inv, BInv, Check PROVE BInv'
<1>1. /\ stack = << >> /\ queue = << >> /\ at = Len(input.clusters)
      /\ UNCHANGED <<input, at, queue, order, stack>>
  BY DEF Check
<1>2. CASE UNCHANGED svc
  BY <1>1, <1>2 DEF BInv, DeclaredSelected, CallsUnnamed, VisitedOnce, Awaiting,
                    OuterCluster
<1>3. CASE svc' = [s \in DOMAIN svc |->
                     [svc[s] EXCEPT !.deps =
                        [i \in DOMAIN @ |-> Switched(@[i])]]]
  <2>1. \A d \in Dep : /\ Switched(d).module = d.module
                       /\ Switched(d).service = d.service
                       /\ Switched(d).cluster = d.cluster
    BY DEF Switched, Dep
  <2>2. ASSUME NEW s \in DOMAIN svc
        PROVE  /\ svc'[s].module = svc[s].module
               /\ DOMAIN svc'[s].deps = DOMAIN svc[s].deps
               /\ \A i \in DOMAIN svc[s].deps :
                    Selected(svc, svc[s].deps[i]) => Selected(svc, svc'[s].deps[i])
    <3> DEFINE deps == [i \in DOMAIN svc[s].deps |-> Switched(svc[s].deps[i])]
    <3>1. svc[s] \in Registry /\ svc[s].deps \in Seq(Dep)
      BY DEF Inv, TypeOK, Registry
    <3>2. \A i \in DOMAIN svc[s].deps : svc[s].deps[i] \in Dep
      BY <3>1, LenProperties, ElementOfSeq
    <3>3. svc'[s] = [svc[s] EXCEPT !.deps = deps]
      BY <1>3
    <3>4. \A i \in DOMAIN svc[s].deps :
            Selected(svc, svc[s].deps[i]) => Selected(svc, deps[i])
      BY <2>1, <3>2 DEF Selected, Target
    <3>5. DOMAIN deps = DOMAIN svc[s].deps
      OBVIOUS
    <3> HIDE DEF deps
    <3>6. svc'[s].module = svc[s].module /\ svc'[s].deps = deps
      BY <3>1, <3>3 DEF Registry
    <3> QED
      BY <3>4, <3>5, <3>6
  <2>3. DOMAIN svc' = DOMAIN svc
    BY <1>3
  <2>4. ASSUME NEW s \in Declared(input)
        PROVE  /\ s \in DOMAIN svc' /\ svc'[s].module = input.module[s]
               /\ \A i \in DOMAIN svc'[s].deps :
                    NoneNamed(input, s, i) => Selected(svc', svc'[s].deps[i])
    <3>1. /\ s \in DOMAIN svc /\ svc[s].module = input.module[s]
          /\ \A i \in DOMAIN svc[s].deps :
               NoneNamed(input, s, i) => Selected(svc, svc[s].deps[i])
      BY DEF BInv, DeclaredSelected
    <3> QED
      BY <2>2, <2>3, <3>1, SelectedLasts
  <2>5. DeclaredSelected'
    BY <1>1, <2>4 DEF DeclaredSelected
  <2>6. CallsUnnamed'
    BY <1>1 DEF CallsUnnamed
  <2>7. VisitedOnce'
    <3>1. input.clusters \in Seq(Cluster)
      BY DEF Inv, TypeOK, WellFormed
    <3>2. \A j \in DOMAIN input.clusters : ~(j > at)
      BY <1>1, <3>1, LenProperties
    <3> QED
      BY <1>1, <3>2 DEF VisitedOnce, Awaiting
  <2> QED
    BY <2>5, <2>6, <2>7 DEF BInv
<1> QED
  BY <1>2, <1>3 DEF Check

(* The other steps change the status only. *)
LEMMA StatusBinding ==
  ASSUME BInv, RejectBind \/ AcceptNodes \/ RejectNode \/ UNCHANGED vars
  PROVE  BInv'
<1>1. UNCHANGED <<input, at, queue, order, svc, stack>>
  BY DEF RejectBind, AcceptNodes, RejectNode, vars
<1> QED
  BY <1>1 DEF BInv, DeclaredSelected, CallsUnnamed, VisitedOnce, Awaiting,
              OuterCluster

(* A dependency of a declared service which gives a module, and comes      *)
(* after none which names a service, is bound to a service of that module, *)
(* whatever the visits which come later do (normalize.js:187-235).         *)
THEOREM ModuleBound == Spec => []BoundByModule
<1>1. NoDuplicates /\ BInv /\ Inv /\ [Next]_vars => BInv'
  BY NextClusterBinding, VisitBinding, LoadBinding, BindBinding, RegisterBinding,
     LeaveBinding, CheckBinding, StatusBinding DEF Next
<1>2. BInv /\ Inv => BoundByModule
  <2> SUFFICES ASSUME BInv, Inv, NEW s \in Declared(input), s \in DOMAIN svc,
                      NEW i \in DOMAIN svc[s].deps, Unnamed(s, i),
                      Target(svc[s].deps[i]) \in DOMAIN svc
               PROVE  svc[Target(svc[s].deps[i])].module = svc[s].deps[i].module
    BY DEF BoundByModule
  <2>1. svc[s].module = input.module[s]
    BY DEF BInv, DeclaredSelected
  <2>2. NoneNamed(input, s, i)
    <3> SUFFICES ASSUME NEW j \in 1..i
                 PROVE  /\ input.modules[input.module[s]][j].service = None
                        /\ j \in DOMAIN input.given[s] => input.given[s][j].service = None
      BY DEF NoneNamed
    <3>1. \A d \in Sources(s, j) : d.service = None
      BY DEF Unnamed
    <3> QED
      BY <2>1, <3>1 DEF Sources
  <2>3. Selected(svc, svc[s].deps[i])
    BY <2>2 DEF BInv, DeclaredSelected
  <2>4. svc[s].deps[i].service # None
    BY NoneAssumption DEF Inv, TypeOK, Service, Target
  <2> QED
    BY <2>3, <2>4 DEF Selected
<1> QED
  BY <1>1, <1>2, InitBinding, NoDuplicatesInit, NoDuplicatesStep, Invariance, PTL
     DEF Spec

-----------------------------------------------------------------------------
(***************************************************************************)
(* A service which nobody declared is still wanted in the end, by a        *)
(* dependency which was bound to it when it was registered, although the   *)
(* dependent may be visited a second time.                                 *)
(***************************************************************************)
WInv == CallsFit /\ AllWanted

\* What the module of a service defines for its dependencies.
Defined(s) == input.modules[svc[s].module]

-----------------------------------------------------------------------------
(* What a merge gives fits the definition, whatever it is merged into. *)
LEMMA MergedFits ==
  ASSUME NEW old \in Seq(Dep), NEW new \in Seq(Dep),
         old # << >> => Len(old) = Len(new),
         \A i \in DOMAIN new : new[i].text => new[i].auto # TRUE,
         NEW i \in DOMAIN new
  PROVE  Fits(MergeDeps(old, new)[i], new[i])
<1>1. CASE old = << >>
  BY <1>1 DEF MergeDeps, Fits
<1>2. CASE old # << >>
  <2>1. /\ i \in DOMAIN old /\ DOMAIN old = 1..Len(old) /\ DOMAIN new = 1..Len(new)
    BY <1>2, LenProperties
  <2>2. old[i] \in Dep /\ new[i] \in Dep
    BY <2>1, ElementOfSeq
  <2>3. MergeDeps(old, new)[i] = Merged(old[i], new[i])
    BY <1>2 DEF MergeDeps
  <2>4. CASE new[i].text \/ old[i].text
    <3>1. Merged(old[i], new[i]) = new[i]
      BY <2>4 DEF Merged
    <3> QED
      BY <2>3, <3>1 DEF Fits
  <2>5. CASE ~(new[i].text \/ old[i].text)
    BY <2>3, <2>5 DEF Merged, Option, Fits
  <2> QED
    BY <2>4, <2>5
<1> QED
  BY <1>1, <1>2

(* A dependency wants the same service after a merge. *)
LEMMA MergedWants ==
  ASSUME NEW old \in Seq(Dep), NEW new \in Seq(Dep), NEW t, NEW clusters,
         NEW i \in DOMAIN old, i \in DOMAIN new, Wants(t, old[i], new[i], clusters)
  PROVE  Wants(t, MergeDeps(old, new)[i], new[i], clusters)
<1>1. old # << >>
  BY LenProperties
<1>2. MergeDeps(old, new)[i] = Merged(old[i], new[i])
  BY <1>1 DEF MergeDeps
<1>3. ~(new[i].text \/ old[i].text)
  BY DEF Wants
<1>4. old[i].cluster = t[1] /\ old[i].service = t[2] /\ t = <<t[1], t[2]>>
  BY DEF Wants, Target
<1> DEFINE merged == Merged(old[i], new[i])
<1>5. /\ merged.service = old[i].service
      /\ merged.cluster = old[i].cluster
      /\ merged.auto = Option(old[i].auto, new[i].auto)
      /\ merged.disabled \in {old[i].disabled, new[i].disabled}
      /\ merged.text = FALSE
  BY <1>3, <1>4 DEF Merged, Option, Wants
<1> HIDE DEF merged
<1>6. merged.auto = TRUE
  <2>1. old[i].auto = TRUE /\ new[i].auto # FALSE
    BY DEF Wants, WantsAuto
  <2>2. new[i].auto \in BOOLEAN \union {None}
    <3>1. new[i] \in Dep
      BY ElementOfSeq, LenProperties
    <3> QED
      BY <3>1 DEF Dep
  <2>3. new[i].auto = None \/ new[i].auto = TRUE
    BY <2>1, <2>2
  <2> QED
    BY <1>5, <2>1, <2>3 DEF Option
<1>7. Wants(t, merged, new[i], clusters)
  BY <1>5, <1>6 DEF Wants, WantsAuto, Target
<1> QED
  BY <1>2, <1>7 DEF merged

-----------------------------------------------------------------------------
(* Initially every service is declared. *)
LEMMA InitWanted == Init => WInv
<1> SUFFICES ASSUME Init PROVE WInv
  OBVIOUS
<1>1. stack = << >> /\ DOMAIN svc = Declared(input)
  BY DEF Init
<1> QED
  BY <1>1 DEF WInv, CallsFit, AllWanted

(* What a call does to its own service is all that matters. *)
LEMMA WorkWanted ==
  ASSUME Inv, WInv, stack # << >>, input' = input, NEW f, f.key = Top.key,
         \A k \in DOMAIN stack' :
           \/ stack'[k] = f
           \/ k \in DOMAIN stack /\ k # Len(stack) /\ stack'[k] = stack[k]
           \/ stack'[k].next = 0,
         DOMAIN svc \subseteq DOMAIN svc',
         \A s \in DOMAIN svc : svc'[s].module = svc[s].module,
         \A s \in DOMAIN svc : s # Top.key => svc'[s] = svc[s],
         \A i \in DOMAIN svc'[Top.key].deps :
           f.next > 0 => Fits(svc'[Top.key].deps[i], Defined(Top.key)[i]),
         \A t \in DOMAIN svc : \A i \in DOMAIN svc[Top.key].deps :
           Wants(t, svc[Top.key].deps[i], Defined(Top.key)[i], input.clusters)
           => /\ i \in DOMAIN svc'[Top.key].deps
              /\ Wants(t, svc'[Top.key].deps[i], Defined(Top.key)[i], input.clusters),
         \A t \in DOMAIN svc' : t \notin DOMAIN svc =>
           \E i \in DOMAIN svc'[Top.key].deps :
             Wants(t, svc'[Top.key].deps[i], Defined(Top.key)[i], input.clusters)
  PROVE  WInv'
<1>1. Len(stack) \in DOMAIN stack /\ Top.key \in DOMAIN svc
  <2>1. stack \in Seq(Frame)
    BY DEF Inv, TypeOK
  <2>2. Len(stack) \in DOMAIN stack
    BY <2>1, TopAndRest, LenProperties
  <2> QED
    BY <2>2 DEF Inv, Known, Top
<1>2. \A k \in DOMAIN stack : k # Len(stack) => stack[k].key # Top.key
  <2>1. \A i, k \in DOMAIN stack : stack[i].key = stack[k].key => i = k
    BY DEF Inv, NoReentry, IsInjective
  <2> QED
    BY <1>1, <2>1 DEF Top
<1>3. CallsFit'
  <2> SUFFICES ASSUME NEW k \in DOMAIN stack', stack'[k].next > 0,
                      NEW i \in DOMAIN svc'[stack'[k].key].deps
               PROVE  Fits(svc'[stack'[k].key].deps[i],
                           input.modules[svc'[stack'[k].key].module][i])
    BY DEF CallsFit
  <2>1. CASE stack'[k] = f
    BY <1>1, <2>1 DEF Defined
  <2>2. CASE k \in DOMAIN stack /\ k # Len(stack) /\ stack'[k] = stack[k]
    <3>1. svc'[stack[k].key] = svc[stack[k].key]
      BY <1>2, <2>2 DEF Inv, Known
    <3> QED
      BY <2>2, <3>1 DEF WInv, CallsFit
  <2>3. CASE stack'[k].next = 0
    BY <2>3
  <2> QED
    BY <2>1, <2>2, <2>3
<1>4. AllWanted'
  <2> SUFFICES ASSUME NEW t \in DOMAIN svc', t \notin Declared(input)
               PROVE  \E s \in DOMAIN svc' : \E i \in DOMAIN svc'[s].deps :
                        Wants(t, svc'[s].deps[i], input.modules[svc'[s].module][i],
                              input.clusters)
    BY DEF AllWanted
  <2>1. CASE t \notin DOMAIN svc
    BY <1>1, <2>1 DEF Defined
  <2>2. CASE t \in DOMAIN svc
    <3>1. PICK s \in DOMAIN svc : \E i \in DOMAIN svc[s].deps :
            Wants(t, svc[s].deps[i], input.modules[svc[s].module][i], input.clusters)
      BY <2>2 DEF WInv, AllWanted
    <3>2. PICK i \in DOMAIN svc[s].deps :
            Wants(t, svc[s].deps[i], input.modules[svc[s].module][i], input.clusters)
      BY <3>1
    <3>3. CASE s = Top.key
      BY <1>1, <2>2, <3>2, <3>3 DEF Defined
    <3>4. CASE s # Top.key
      BY <3>1, <3>2, <3>4
    <3> QED
      BY <3>3, <3>4
  <2> QED
    BY <2>1, <2>2
<1> QED
  BY <1>3, <1>4 DEF WInv

(* The definition is merged into dependencies which want a service. *)
LEMMA LoadWanted == ASSUME Inv, WInv, Load PROVE WInv'
<1>1. stack # << >> /\ UNCHANGED input
  BY DEF Load
<1>2. CASE svc[Top.key].module \notin DOMAIN input.modules
  <2>1. UNCHANGED <<svc, stack>>
    BY <1>2 DEF Load
  <2> QED
    BY <1>1, <2>1 DEF WInv, CallsFit, AllWanted
<1>3. CASE svc[Top.key].module \in DOMAIN input.modules
  <2> DEFINE old == svc[Top.key].deps
             new == Defined(Top.key)
             merged == MergeDeps(old, new)
             frame == [Top EXCEPT !.next = 1]
  <2>1. stack \in Seq(Frame) /\ Top \in Frame /\ Len(stack) \in DOMAIN stack
    BY <1>1, TopAndRest, LenProperties DEF Inv, TypeOK
  <2>2. Top.key \in DOMAIN svc
    BY <2>1 DEF Inv, Known, Top
  <2>3. svc[Top.key] \in Registry
    BY <2>2 DEF Inv, TypeOK, Registry
  <2>4. /\ svc' = [svc EXCEPT ![Top.key] = [@ EXCEPT !.deps = merged]]
        /\ stack' = Append(Rest, frame)
    BY <1>3 DEF Load, Defined
  <2>5. /\ old \in Seq(Dep) /\ new \in Seq(Dep)
        /\ old # << >> => Len(old) = Len(new)
        /\ \A i \in DOMAIN new : new[i].text => new[i].auto # TRUE
    BY <1>3, <2>2, <2>3 DEF Inv, TypeOK, WellFormed, OwnModule, Registry, Defined
  <2>6. frame \in Frame /\ frame.key = Top.key
    BY <2>1 DEF Frame
  <2> HIDE DEF old, new, frame
  <2>7. DOMAIN merged = DOMAIN new /\ \A i \in DOMAIN old : i \in DOMAIN new
    BY <2>5, MergeTyped, LenProperties
  <2>8. \A i \in DOMAIN new : Fits(merged[i], new[i])
    BY <2>5, MergedFits
  <2>9. \A t \in DOMAIN svc : \A i \in DOMAIN old :
          Wants(t, old[i], new[i], input.clusters)
          => Wants(t, merged[i], new[i], input.clusters)
    BY <2>5, <2>7, MergedWants
  <2> HIDE DEF merged
  <2>10. /\ DOMAIN svc' = DOMAIN svc
         /\ \A s \in DOMAIN svc : svc'[s].module = svc[s].module
         /\ \A s \in DOMAIN svc : s # Top.key => svc'[s] = svc[s]
         /\ svc'[Top.key].deps = merged
    BY <2>2, <2>3, <2>4 DEF Registry
  <2>11. \A k \in DOMAIN stack' :
           \/ stack'[k] = frame
           \/ k \in DOMAIN stack /\ k # Len(stack) /\ stack'[k] = stack[k]
    BY <1>1, <2>1, <2>4, <2>6, TopReplaced
  <2> QED
    BY <1>1, <2>6, <2>7, <2>8, <2>9, <2>10, <2>11, WorkWanted DEF old, new
<1> QED
  BY <1>2, <1>3

(* What is known of the dependency which is bound. *)
LEMMA CurrentFits ==
  ASSUME Inv, WInv, Binding
  PROVE  /\ Top.next \in DOMAIN svc[Top.key].deps
         /\ \A i \in DOMAIN svc[Top.key].deps :
              Fits(svc[Top.key].deps[i], Defined(Top.key)[i])
         /\ Fits(Current, Defined(Top.key)[Top.next])
<1>1. stack \in Seq(Frame) /\ stack # << >>
  BY DEF Inv, TypeOK, Binding
<1>2. Len(stack) \in DOMAIN stack
  BY <1>1, TopAndRest, LenProperties
<1>3. Top.next > 0 /\ Top.next \in DOMAIN svc[Top.key].deps
  BY BindingReads, LenProperties
<1> QED
  BY <1>2, <1>3 DEF WInv, CallsFit, Top, Current, Defined

(* A dependency which names a service keeps it, and its cluster. *)
LEMMA BoundWanted ==
  ASSUME Inv, WInv, Binding, NEW service \in Name \union {None},
         Current.service # None => service = Current.service
  PROVE  /\ \A i \in DOMAIN Bound(service)[Top.key].deps :
              Fits(Bound(service)[Top.key].deps[i], Defined(Top.key)[i])
         /\ \A t \in DOMAIN svc : \A i \in DOMAIN svc[Top.key].deps :
              Wants(t, svc[Top.key].deps[i], Defined(Top.key)[i], input.clusters)
              => /\ i \in DOMAIN Bound(service)[Top.key].deps
                 /\ Wants(t, Bound(service)[Top.key].deps[i], Defined(Top.key)[i],
                          input.clusters)
<1> DEFINE n == Top.next
           old == svc[Top.key].deps
           bound == Bound(service)[Top.key].deps
           new == Defined(Top.key)
<1>1. /\ DOMAIN bound = DOMAIN old
      /\ \A i \in DOMAIN old : i # n => bound[i] = old[i]
      /\ bound[n].service = service /\ bound[n].cluster = ClusterOf(Top, Current)
      /\ bound[n].auto = Current.auto /\ bound[n].disabled = Current.disabled
      /\ bound[n].text = Current.text
  BY BoundWrites
<1>2. /\ n \in DOMAIN old
      /\ \A i \in DOMAIN old : Fits(old[i], new[i])
      /\ Fits(Current, new[n])
  BY CurrentFits
<1>3. old[n] = Current
  BY DEF Current
<1>4. Current.cluster # None => ClusterOf(Top, Current) = Current.cluster
  BY DEF ClusterOf
<1> HIDE DEF n, old, bound, new
<1>5. Fits(bound[n], new[n])
  BY <1>1, <1>2, <1>4 DEF Fits
<1>6. ASSUME NEW t \in DOMAIN svc, Wants(t, Current, new[n], input.clusters)
      PROVE  Wants(t, bound[n], new[n], input.clusters)
  <2>1. t \in Service
    BY DEF Inv, TypeOK
  <2>2. t[1] # None /\ t[2] # None /\ t = <<t[1], t[2]>>
    BY <2>1, NoneAssumption DEF Service
  <2>3. Current.cluster = t[1] /\ Current.service = t[2]
    BY <1>6, <2>2 DEF Wants, Target
  <2>4. bound[n].cluster = t[1] /\ bound[n].service = t[2]
    BY <1>1, <1>4, <2>2, <2>3
  <2> QED
    BY <1>1, <1>6, <2>2, <2>4 DEF Wants, WantsAuto, Target
<1>7. \A i \in DOMAIN bound : Fits(bound[i], new[i])
  BY <1>1, <1>2, <1>5
<1>8. \A t \in DOMAIN svc : \A i \in DOMAIN old :
        Wants(t, old[i], new[i], input.clusters)
        => i \in DOMAIN bound /\ Wants(t, bound[i], new[i], input.clusters)
  BY <1>1, <1>3, <1>6
<1> QED
  BY <1>7, <1>8 DEF old, bound, new

LEMMA BindWanted == ASSUME Inv, WInv, Bind PROVE WInv'
<1> DEFINE service == ServiceOf(Top, Current)
           frame == Advanced(Top, Current)
<1>1. /\ Binding /\ stack \in Seq(Frame) /\ stack # << >>
      /\ svc' = Bound(service)
      /\ stack' = Append(Rest, frame)
      /\ UNCHANGED input
  BY DEF Bind, Binding, Inv, TypeOK
<1>2. frame \in Frame /\ frame.key = Top.key
  BY <1>1, BindingReads
<1>3. service \in Name \union {None}
  BY <1>1, FoundTyped
<1>4. Current.service # None => service = Current.service
  BY DEF ServiceOf, Did
<1> HIDE DEF service, frame
<1>5. /\ DOMAIN svc' = DOMAIN svc
      /\ \A s \in DOMAIN svc : svc'[s].module = svc[s].module
      /\ \A s \in DOMAIN svc : s # Top.key => svc'[s] = svc[s]
  BY <1>1, <1>3, BoundWrites
<1>6. /\ \A i \in DOMAIN svc'[Top.key].deps :
           Fits(svc'[Top.key].deps[i], Defined(Top.key)[i])
      /\ \A t \in DOMAIN svc : \A i \in DOMAIN svc[Top.key].deps :
           Wants(t, svc[Top.key].deps[i], Defined(Top.key)[i], input.clusters)
           => /\ i \in DOMAIN svc'[Top.key].deps
              /\ Wants(t, svc'[Top.key].deps[i], Defined(Top.key)[i], input.clusters)
  BY <1>1, <1>3, <1>4, BoundWanted
<1>7. \A k \in DOMAIN stack' :
        \/ stack'[k] = frame
        \/ k \in DOMAIN stack /\ k # Len(stack) /\ stack'[k] = stack[k]
  BY <1>1, <1>2, TopReplaced
<1> QED
  BY <1>1, <1>2, <1>5, <1>6, <1>7, WorkWanted

(* The service which is registered is wanted by the dependency bound to it. *)
LEMMA RegisterWanted == ASSUME Inv, WInv, RegisterAuto PROVE WInv'
<1> DEFINE c == ClusterOf(Top, Current)
           m == Current.module
           key == <<c, m>>
           frame == Advanced(Top, Current)
           call == Call(key)
           n == Top.next
           new == Defined(Top.key)
<1>1. /\ Binding /\ stack \in Seq(Frame) /\ stack # << >>
      /\ svc' = Registered(key)
      /\ stack' = Append(Append(Rest, frame), call)
      /\ UNCHANGED input
  BY DEF RegisterAuto, Binding, Inv, TypeOK
<1>2. /\ frame \in Frame /\ frame.key = Top.key /\ c \in Cluster
      /\ Top.key \in DOMAIN svc
      /\ Did(Top, Current) \in Name \union {None}
  BY <1>1, BindingReads
<1>3. m \in Name /\ m \in Name \union {None} /\ key \notin DOMAIN svc
  BY RegisteredNew
<1>4. call \in Frame /\ call.next = 0
  BY <1>2, <1>3 DEF Call, Frame, Service
<1>5. /\ DOMAIN svc' = DOMAIN svc \union {key}
      /\ \A s \in DOMAIN svc : svc'[s] = Bound(m)[s]
  BY <1>1, <1>3 DEF Registered
<1>6. /\ WantsAuto(Current) /\ Current.service = None
      /\ Contains(input.clusters, c)
  <2>1. Did(Top, Current) = None /\ WantsAuto(Current)
    BY <1>2, NoneAssumption DEF RegisterAuto, ServiceOf
  <2>2. Current.service = None
    BY <2>1 DEF Did
  <2>3. HasServices(c)
    BY <2>1 DEF RegisterAuto, Outcome
  <2>4. input.clusters \in Seq(Cluster)
    BY DEF Inv, TypeOK, WellFormed
  <2>5. Contains(input.clusters, c)
    BY <2>3, <2>4, LenProperties DEF HasServices, Contains
  <2> QED
    BY <2>1, <2>2, <2>5
<1>7. Fits(Current, new[n]) /\ n \in DOMAIN svc[Top.key].deps
  BY <1>1, CurrentFits
<1>8. Current.cluster # None => c = Current.cluster
  BY DEF ClusterOf
<1> HIDE DEF frame, call, new, n
<1>9. /\ n \in DOMAIN svc'[Top.key].deps
      /\ Wants(key, svc'[Top.key].deps[n], new[n], input.clusters)
  <2> DEFINE d == svc'[Top.key].deps[n]
  <2>1. /\ n \in DOMAIN svc'[Top.key].deps
        /\ d.service = m /\ d.cluster = c /\ d.auto = Current.auto
        /\ d.disabled = Current.disabled /\ d.text = Current.text
    <3> HIDE DEF m, c
    <3>1. /\ DOMAIN Bound(m)[Top.key].deps = DOMAIN svc[Top.key].deps
          /\ LET b == Bound(m)[Top.key].deps[Top.next] IN
               /\ b.service = m /\ b.cluster = ClusterOf(Top, Current)
               /\ b.auto = Current.auto
               /\ b.disabled = Current.disabled /\ b.text = Current.text
      BY <1>1, <1>3, BoundWrites
    <3> QED
      BY <1>2, <1>5, <1>7, <3>1 DEF n, c
  <2> HIDE DEF d, m, c
  <2>2. /\ new[n].service = None /\ new[n].cluster \in {None, c}
        /\ ~Current.text /\ ~new[n].text
    BY <1>6, <1>7, <1>8 DEF Fits, WantsAuto
  <2>3. new[n].disabled # TRUE /\ new[n].auto # FALSE
    <3>1. Current.auto = TRUE
      BY <1>6 DEF WantsAuto
    <3>2. new[n].auto = None \/ new[n].auto = TRUE
      BY <1>7, <3>1 DEF Fits
    <3>. QED
      BY <1>6, <1>7, <3>2, NoneAssumption DEF Fits, WantsAuto
  <2> QED
    BY <1>6, <2>1, <2>2, <2>3 DEF Wants, WantsAuto, Target, d
<1> HIDE DEF m
<1>10. /\ \A s \in DOMAIN svc : svc'[s].module = svc[s].module
       /\ \A s \in DOMAIN svc : s # Top.key => svc'[s] = svc[s]
       /\ DOMAIN svc \subseteq DOMAIN svc'
  <2>1. /\ \A s \in DOMAIN svc : Bound(m)[s].module = svc[s].module
        /\ \A s \in DOMAIN svc : s # Top.key => Bound(m)[s] = svc[s]
    BY <1>1, <1>3, BoundWrites
  <2> QED
    BY <1>5, <2>1
<1>11. /\ \A i \in DOMAIN svc'[Top.key].deps :
            Fits(svc'[Top.key].deps[i], Defined(Top.key)[i])
       /\ \A t \in DOMAIN svc : \A i \in DOMAIN svc[Top.key].deps :
            Wants(t, svc[Top.key].deps[i], Defined(Top.key)[i], input.clusters)
            => /\ i \in DOMAIN svc'[Top.key].deps
               /\ Wants(t, svc'[Top.key].deps[i], Defined(Top.key)[i], input.clusters)
  <2>1. svc'[Top.key] = Bound(m)[Top.key]
    BY <1>2, <1>5
  <2> QED
    BY <1>1, <1>3, <1>6, <2>1, BoundWanted
<1> HIDE DEF key
<1>12. \A k \in DOMAIN stack' :
         \/ stack'[k] = frame
         \/ k \in DOMAIN stack /\ k # Len(stack) /\ stack'[k] = stack[k]
         \/ stack'[k].next = 0
  <2>1. /\ DOMAIN stack = 1..Len(stack) /\ DOMAIN stack' = 1..(Len(stack) + 1)
        /\ stack'[Len(stack)] = frame /\ stack'[Len(stack) + 1] = call
        /\ \A k \in 1..Len(stack) : k # Len(stack) => stack'[k] = stack[k]
    <3>1. /\ stack \in Seq(Frame) /\ stack # << >> /\ frame \in Frame /\ call \in Frame
          /\ stack' = Append(Append(Rest, frame), call)
      BY <1>1, <1>2, <1>4
    <3> QED
      BY <3>1, CallPushed
  <2>2. \A k \in DOMAIN stack' : k = Len(stack) + 1 \/ k \in 1..Len(stack)
    <3>1. Len(stack) \in Nat /\ DOMAIN stack' = 1..(Len(stack) + 1)
      BY <1>1, <2>1, LenProperties
    <3> QED
      BY <3>1
  <2> QED
    BY <1>4, <2>1, <2>2
<1>13. \A t \in DOMAIN svc' : t \notin DOMAIN svc =>
         \E i \in DOMAIN svc'[Top.key].deps :
           Wants(t, svc'[Top.key].deps[i], Defined(Top.key)[i], input.clusters)
  BY <1>5, <1>9 DEF new
<1> QED
  BY <1>1, <1>2, <1>10, <1>11, <1>12, <1>13, WorkWanted

(* A call which is over leaves the others as they are. *)
LEMMA LeaveWanted == ASSUME Inv, WInv, Leave PROVE WInv'
<1>1. /\ stack \in Seq(Frame) /\ stack # << >> /\ stack' = Rest
      /\ UNCHANGED <<input, svc>>
  BY DEF Leave, Inv, TypeOK
<1>2. /\ Len(stack) \in Nat \ {0}
      /\ stack' \in Seq(Frame)
      /\ Len(stack') = Len(stack) - 1
      /\ \A i \in 1..(Len(stack) - 1) : stack'[i] = stack[i]
  BY <1>1, TopAndRest
<1>3. \A i \in DOMAIN stack' : i \in DOMAIN stack /\ stack'[i] = stack[i]
  BY <1>1, <1>2, LenProperties
<1> QED
  BY <1>1, <1>3 DEF WInv, CallsFit, AllWanted

(* A dependency whose service is registered is not disabled. *)
LEMMA CheckWanted == ASSUME Inv, WInv, Check PROVE WInv'
<1>1. stack = << >> /\ UNCHANGED <<input, stack>>
  BY DEF Check
<1>2. CASE UNCHANGED svc
  BY <1>1, <1>2 DEF WInv, CallsFit, AllWanted
<1>3. CASE svc' = [s \in DOMAIN svc |->
                     [svc[s] EXCEPT !.deps =
                        [i \in DOMAIN @ |-> Switched(@[i])]]]
  <2>1. ASSUME NEW d \in Dep, NEW t \in DOMAIN svc, NEW new,
               Wants(t, d, new, input.clusters)
        PROVE  Wants(t, Switched(d), new, input.clusters)
    <3>1. Contains(input.clusters, d.cluster) /\ Target(d) \in DOMAIN svc
      <4>1. t \in Service
        BY DEF Inv, TypeOK
      <4> QED
        BY <2>1, <4>1 DEF Wants, Target, Service
    <3>2. Switched(d) = [d EXCEPT !.disabled = IF d.disabled # None THEN d.disabled
                                               ELSE Target(d) \notin DOMAIN svc]
      BY <3>1 DEF Switched
    <3>3. Switched(d).disabled
            = IF d.disabled # None THEN d.disabled ELSE Target(d) \notin DOMAIN svc
      BY <3>2 DEF Dep
    <3>4. Switched(d).disabled # TRUE
      BY <2>1, <3>1, <3>3 DEF Wants, WantsAuto
    <3>5. /\ Switched(d).service = d.service /\ Switched(d).cluster = d.cluster
          /\ Switched(d).auto = d.auto /\ Switched(d).text = d.text
      BY DEF Switched, Dep
    <3> QED
      BY <2>1, <3>4, <3>5 DEF Wants, WantsAuto, Target
  <2>2. ASSUME NEW s \in DOMAIN svc
        PROVE  /\ svc'[s].module = svc[s].module
               /\ DOMAIN svc'[s].deps = DOMAIN svc[s].deps
               /\ \A i \in DOMAIN svc[s].deps :
                    svc[s].deps[i] \in Dep /\ svc'[s].deps[i] = Switched(svc[s].deps[i])
    <3> DEFINE deps == [i \in DOMAIN svc[s].deps |-> Switched(svc[s].deps[i])]
    <3>1. svc[s] \in Registry /\ svc[s].deps \in Seq(Dep)
      BY DEF Inv, TypeOK, Registry
    <3>2. \A i \in DOMAIN svc[s].deps : svc[s].deps[i] \in Dep
      BY <3>1, LenProperties, ElementOfSeq
    <3>3. svc'[s] = [svc[s] EXCEPT !.deps = deps]
      BY <1>3
    <3>4. DOMAIN deps = DOMAIN svc[s].deps
          /\ \A i \in DOMAIN svc[s].deps : deps[i] = Switched(svc[s].deps[i])
      OBVIOUS
    <3> HIDE DEF deps
    <3>5. svc'[s].module = svc[s].module /\ svc'[s].deps = deps
      BY <3>1, <3>3 DEF Registry
    <3> QED
      BY <3>2, <3>4, <3>5
  <2>3. DOMAIN svc' = DOMAIN svc
    BY <1>3
  <2>4. AllWanted'
    <3> SUFFICES ASSUME NEW t \in DOMAIN svc, t \notin Declared(input)
                 PROVE  \E s \in DOMAIN svc' : \E i \in DOMAIN svc'[s].deps :
                          Wants(t, svc'[s].deps[i], input.modules[svc'[s].module][i],
                                input.clusters)
      BY <1>1, <2>3 DEF AllWanted
    <3>1. PICK s \in DOMAIN svc : \E i \in DOMAIN svc[s].deps :
            Wants(t, svc[s].deps[i], input.modules[svc[s].module][i], input.clusters)
      BY DEF WInv, AllWanted
    <3>2. PICK i \in DOMAIN svc[s].deps :
            Wants(t, svc[s].deps[i], input.modules[svc[s].module][i], input.clusters)
      BY <3>1
    <3>3. Wants(t, svc'[s].deps[i], input.modules[svc'[s].module][i], input.clusters)
      BY <2>1, <2>2, <3>2
    <3> QED
      BY <2>2, <2>3, <3>3
  <2>5. CallsFit'
    BY <1>1 DEF CallsFit
  <2> QED
    BY <2>4, <2>5 DEF WInv
<1> QED
  BY <1>2, <1>3 DEF Check

(* The other steps change neither the services nor the calls, but that a   *)
(* new call has bound nothing.                                             *)
LEMMA OtherWanted ==
  ASSUME WInv, \/ NextCluster \/ Visit \/ RejectBind \/ AcceptNodes \/ RejectNode
               \/ UNCHANGED vars
  PROVE  WInv'
<1>1. CASE Visit
  <2>1. stack' = <<Call(<<OuterCluster, Head(queue)>>)>> /\ UNCHANGED <<input, svc>>
    BY <1>1 DEF Visit
  <2>2. DOMAIN stack' = {1} /\ stack'[1].next = 0
    BY <2>1 DEF Call
  <2> QED
    BY <2>1, <2>2 DEF WInv, CallsFit, AllWanted
<1>2. CASE NextCluster \/ RejectBind \/ AcceptNodes \/ RejectNode \/ UNCHANGED vars
  <2>1. UNCHANGED <<input, svc, stack>>
    BY <1>2 DEF NextCluster, RejectBind, AcceptNodes, RejectNode, vars
  <2> QED
    BY <2>1 DEF WInv, CallsFit, AllWanted
<1> QED
  BY <1>1, <1>2

(* A service which nobody declared is bound, in the end, to an auto        *)
(* dependency which wants it: a second visit of the dependent, which       *)
(* merges the module over what is bound, does not lose it                  *)
(* (normalize.js:160, 174-180).                                            *)
THEOREM AutosWanted == Spec => []AutoWanted
<1>1. WInv /\ Inv /\ [Next]_vars => WInv'
  BY LoadWanted, BindWanted, RegisterWanted, LeaveWanted, CheckWanted, OtherWanted
     DEF Next
<1>2. WInv => AutoWanted
  BY DEF WInv, AllWanted, AutoWanted, Wants
<1> QED
  BY <1>1, <1>2, InitWanted, Invariance, PTL DEF Spec
=============================================================================
