---------------------------- MODULE LoadingProofs ----------------------------
(***************************************************************************)
(* Proofs that the discovery leaves no service out, although the loops run *)
(* over objects to which the recursive calls add services, and that every  *)
(* step brings it nearer to its end.                                       *)
(***************************************************************************)
EXTENDS DiscoveryProofs, WellFoundedInduction

LInv == CallsLoaded /\ AllVisited /\ NothingLeft

-----------------------------------------------------------------------------
(* Only the frame on top of the stack changes while a call goes on. *)
LEMMA TopReplaced ==
  ASSUME stack \in Seq(Frame), stack # << >>, NEW f \in Frame
  PROVE  /\ Append(Rest, f) \in Seq(Frame)
         /\ DOMAIN Append(Rest, f) = 1..Len(stack)
         /\ DOMAIN stack = 1..Len(stack)
         /\ Len(stack) \in 1..Len(stack)
         /\ Append(Rest, f)[Len(stack)] = f
         /\ \A k \in 1..Len(stack) : k # Len(stack) => Append(Rest, f)[k] = stack[k]
<1>1. /\ Append(Rest, f) \in Seq(Frame)
      /\ Len(Append(Rest, f)) = Len(Rest) + 1
      /\ \A i \in 1..Len(Rest) : Append(Rest, f)[i] = Rest[i]
      /\ Append(Rest, f)[Len(Rest) + 1] = f
  BY TopAndRest, AppendProperties
<1>2. /\ Len(stack) \in Nat \ {0}
      /\ Len(Rest) = Len(stack) - 1
      /\ \A i \in 1..(Len(stack) - 1) : Rest[i] = stack[i]
  BY TopAndRest
<1>3. Len(Append(Rest, f)) = Len(stack)
  BY <1>1, <1>2
<1>4. DOMAIN Append(Rest, f) = 1..Len(stack) /\ DOMAIN stack = 1..Len(stack)
  BY <1>1, <1>3, LenProperties
<1>5. \A k \in 1..Len(stack) : k # Len(stack) => k \in 1..(Len(stack) - 1)
  BY <1>2
<1>6. Len(stack) \in 1..Len(stack)
  BY <1>2
<1> QED
  BY <1>1, <1>2, <1>4, <1>5, <1>6

(* A call which makes another one goes below it. *)
LEMMA CallPushed ==
  ASSUME stack \in Seq(Frame), stack # << >>, NEW f \in Frame, NEW g \in Frame,
         stack' = Append(Append(Rest, f), g)
  PROVE  /\ DOMAIN stack = 1..Len(stack) /\ DOMAIN stack' = 1..(Len(stack) + 1)
         /\ Len(stack) \in 1..Len(stack)
         /\ stack'[Len(stack)] = f /\ stack'[Len(stack) + 1] = g
         /\ \A k \in 1..Len(stack) : k # Len(stack) => stack'[k] = stack[k]
<1> DEFINE under == Append(Rest, f)
<1>1. /\ under \in Seq(Frame)
      /\ DOMAIN under = 1..Len(stack)
      /\ DOMAIN stack = 1..Len(stack)
      /\ Len(stack) \in 1..Len(stack)
      /\ under[Len(stack)] = f
      /\ \A k \in 1..Len(stack) : k # Len(stack) => under[k] = stack[k]
  BY TopReplaced
<1>2. under \in Seq(Frame) /\ stack' = Append(under, g)
  BY <1>1
<1>3. Len(stack) \in Nat /\ Len(under) = Len(stack)
  <2>1. DOMAIN under = DOMAIN stack
    BY <1>1
  <2> HIDE DEF under
  <2> QED
    BY <1>2, <2>1, LenProperties
<1> HIDE DEF under
<1>4. /\ stack' \in Seq(Frame)
      /\ Len(stack') = Len(under) + 1
      /\ \A i \in 1..Len(under) : stack'[i] = under[i]
      /\ stack'[Len(under) + 1] = g
  BY <1>2, AppendProperties
<1>5. DOMAIN stack' = 1..Len(stack')
  BY <1>4, LenProperties
<1> QED
  BY <1>1, <1>3, <1>4, <1>5

(* The work of the call on top of the stack concerns its service only. *)
LEMMA TopWorks ==
  ASSUME Inv, CallsLoaded, AllVisited, stack # << >>,
         NEW f \in Frame, f.key = Top.key, stack' = Append(Rest, f),
         UNCHANGED <<input, at, queue, order>>,
         DOMAIN svc' = DOMAIN svc,
         \A s \in DOMAIN svc : s # Top.key => svc'[s] = svc[s],
         f.next > 0 => Loaded(svc'[Top.key], input.modules, f.next - 1)
  PROVE  CallsLoaded' /\ AllVisited'
<1>1. stack \in Seq(Frame)
  BY DEF Inv, TypeOK
<1>2. /\ DOMAIN stack' = 1..Len(stack)
      /\ DOMAIN stack = 1..Len(stack)
      /\ Len(stack) \in 1..Len(stack)
      /\ stack'[Len(stack)] = f
      /\ \A k \in 1..Len(stack) : k # Len(stack) => stack'[k] = stack[k]
  BY <1>1, TopReplaced
<1>3. \A k \in DOMAIN stack : k # Len(stack) => stack[k].key # Top.key
  <2>1. Len(stack) \in DOMAIN stack
    BY <1>2
  <2>2. \A i, k \in DOMAIN stack : stack[i].key = stack[k].key => i = k
    BY DEF Inv, NoReentry, IsInjective
  <2> QED
    BY <2>1, <2>2 DEF Top
<1> DEFINE top == Len(stack)
<1>0. top \in DOMAIN stack' /\ stack'[top].key = Top.key
  <2>1. top \in 1..top
    BY <1>2
  <2>2. stack'[top] = f
    BY <1>2
  <2> QED
    BY <1>2, <2>1, <2>2
<1>4. CallsLoaded'
  <2> SUFFICES ASSUME NEW k \in DOMAIN stack', stack'[k].next > 0
               PROVE  Loaded(svc'[stack'[k].key], input.modules, stack'[k].next - 1)
    BY DEF CallsLoaded
  <2>1. CASE k = Len(stack)
    BY <1>2, <2>1
  <2>2. CASE k # Len(stack)
    <3>1. stack'[k] = stack[k] /\ k \in DOMAIN stack
      BY <1>2, <2>2
    <3>2. Loaded(svc[stack[k].key], input.modules, stack[k].next - 1)
      BY <3>1 DEF CallsLoaded
    <3>3. svc'[stack[k].key] = svc[stack[k].key]
      BY <1>3, <2>2, <3>1 DEF Inv, Known
    <3> QED
      BY <3>1, <3>2, <3>3
  <2> QED
    BY <2>1, <2>2
<1>5. AllVisited'
  <2> SUFFICES ASSUME NEW s \in DOMAIN svc'
               PROVE  \/ \E k \in DOMAIN stack' : stack'[k].key = s
                      \/ Awaiting(s)'
                      \/ Loaded(svc'[s], input'.modules, Len(svc'[s].deps))
    BY DEF AllVisited
  <2>1. CASE \E k \in DOMAIN stack : stack[k].key = s
    BY <1>2, <2>1 DEF Top
  <2>2. CASE Awaiting(s)
    BY <2>2 DEF Awaiting, OuterCluster
  <2>3. CASE s # Top.key /\ Loaded(svc[s], input.modules, Len(svc[s].deps))
    BY <2>3
  <2>4. CASE s = Top.key
    BY <1>0, <2>4
  <2> QED
    BY <2>1, <2>2, <2>3, <2>4 DEF AllVisited
<1> QED
  BY <1>4, <1>5

-----------------------------------------------------------------------------
(* Initially the declared services are to be visited. *)
LEMMA InitLoading == Init => LInv
<1> SUFFICES ASSUME Init PROVE LInv
  OBVIOUS
<1>1. /\ at = 0 /\ stack = << >> /\ status = "discover"
      /\ order = input.declared /\ WellFormed(input)
      /\ DOMAIN svc = Declared(input)
  BY InputsAssumption DEF Init
<1>2. CallsLoaded /\ NothingLeft
  BY <1>1 DEF CallsLoaded, NothingLeft
<1>3. ASSUME NEW s \in DOMAIN svc PROVE Awaiting(s)
  <2>1. s[1] \in Cluster /\ Contains(input.declared[s[1]], s[2])
    BY <1>1 DEF Declared, Service
  <2>2. input.declared[s[1]] \in Seq(Name) /\ input.clusters \in Seq(Cluster)
    BY <1>1, <2>1 DEF WellFormed
  <2>3. \E i \in DOMAIN order[s[1]] : order[s[1]][i] = s[2]
    BY <1>1, <2>1, <2>2, LenProperties DEF Contains
  <2>4. input.declared[s[1]] # << >>
    BY <2>1, <2>2, EmptySeq DEF Contains
  <2>5. Contains(input.clusters, s[1])
    BY <1>1, <2>1, <2>4 DEF WellFormed
  <2>6. \E j \in DOMAIN input.clusters : j > 0 /\ input.clusters[j] = s[1]
    BY <2>2, <2>5, LenProperties DEF Contains
  <2> QED
    BY <1>1, <2>3, <2>6 DEF Awaiting
<1> QED
  BY <1>2, <1>3 DEF LInv, AllVisited

(* A service of the cluster which is entered is in the queue. *)
LEMMA NextClusterLoading == ASSUME Inv, LInv, NextCluster PROVE LInv'
<1>1. /\ stack = << >> /\ queue = << >> /\ at' = at + 1 /\ status = "discover"
      /\ queue' = order[input.clusters[at + 1]]
      /\ UNCHANGED <<input, order, svc, stack, status>>
  BY DEF NextCluster
<1>2. CallsLoaded' /\ NothingLeft'
  BY <1>1 DEF CallsLoaded, NothingLeft
<1>3. ASSUME NEW s \in DOMAIN svc
      PROVE  Awaiting(s)' \/ Loaded(svc'[s], input'.modules, Len(svc'[s].deps))
  <2>1. CASE Loaded(svc[s], input.modules, Len(svc[s].deps))
    BY <1>1, <2>1
  <2>2. CASE Awaiting(s)
    <3>1. PICK j \in DOMAIN input.clusters :
            /\ j > at /\ input.clusters[j] = s[1]
            /\ \E i \in DOMAIN order[s[1]] : order[s[1]][i] = s[2]
      BY <1>1, <2>2 DEF Awaiting
    <3>2. at \in Nat /\ j \in Nat
      <4>1. input.clusters \in Seq(Cluster)
        BY DEF Inv, TypeOK, WellFormed
      <4> QED
        BY <4>1, LenProperties DEF Inv, TypeOK
    <3>3. CASE j > at + 1
      BY <1>1, <3>1, <3>3 DEF Awaiting
    <3>4. CASE j = at + 1
      <4>1. PICK i \in DOMAIN order[s[1]] : order[s[1]][i] = s[2]
        BY <3>1
      <4>2. i \in DOMAIN queue' /\ queue'[i] = s[2] /\ OuterCluster' = s[1]
        BY <1>1, <3>1, <3>4, <4>1 DEF OuterCluster
      <4>3. s = <<s[1], s[2]>>
        BY DEF Inv, TypeOK, Service
      <4> QED
        BY <4>2, <4>3 DEF Awaiting
    <3> QED
      BY <3>1, <3>2, <3>3, <3>4
  <2> QED
    BY <1>1, <2>1, <2>2 DEF LInv, AllVisited
<1>4. AllVisited'
  BY <1>1, <1>3 DEF AllVisited
<1> QED
  BY <1>2, <1>4 DEF LInv

(* The head of the queue is visited, and the others stay in it. *)
LEMMA VisitLoading == ASSUME Inv, LInv, Visit PROVE LInv'
<1>1. /\ stack = << >> /\ queue # << >> /\ status = "discover"
      /\ stack' = <<Call(<<OuterCluster, Head(queue)>>)>>
      /\ queue' = Tail(queue)
      /\ UNCHANGED <<input, at, order, svc, status>>
  BY DEF Visit
<1>2. /\ queue \in Seq(Name)
      /\ Len(Tail(queue)) = Len(queue) - 1
      /\ \A i \in 1..Len(Tail(queue)) : Tail(queue)[i] = queue[i + 1]
      /\ Len(queue) \in Nat \ {0}
      /\ DOMAIN queue = 1..Len(queue)
      /\ DOMAIN Tail(queue) = 1..Len(Tail(queue))
      /\ Head(queue) = queue[1]
  <2>1. queue \in Seq(Name)
    BY DEF Inv, TypeOK
  <2>2. Tail(queue) \in Seq(Name)
    BY <1>1, <2>1, HeadTailProperties
  <2> QED
    BY <1>1, <2>1, <2>2, HeadTailProperties, LenProperties, EmptySeq
<1>3. /\ DOMAIN stack' = {1}
      /\ stack'[1].key = <<OuterCluster, Head(queue)>>
      /\ stack'[1].next = 0
  BY <1>1 DEF Call
<1>4. CallsLoaded'
  BY <1>3 DEF CallsLoaded
<1>5. NothingLeft'
  BY <1>1 DEF NothingLeft
<1>6. ASSUME NEW s \in DOMAIN svc
      PROVE  \/ \E k \in DOMAIN stack' : stack'[k].key = s
             \/ Awaiting(s)'
             \/ Loaded(svc'[s], input'.modules, Len(svc'[s].deps))
  <2>1. CASE Loaded(svc[s], input.modules, Len(svc[s].deps))
    BY <1>1, <2>1
  <2>2. ASSUME NEW i \in DOMAIN queue, s = <<OuterCluster, queue[i]>>
        PROVE  (\E k \in DOMAIN stack' : stack'[k].key = s) \/ Awaiting(s)'
    <3>1. CASE i = 1
      BY <1>2, <1>3, <2>2, <3>1
    <3>2. CASE i # 1
      <4>1. i - 1 \in DOMAIN Tail(queue) /\ Tail(queue)[i - 1] = queue[i]
        BY <1>2, <3>2
      <4>2. OuterCluster' = OuterCluster
        BY <1>1 DEF OuterCluster
      <4> QED
        BY <1>1, <2>2, <4>1, <4>2 DEF Awaiting
    <3> QED
      BY <3>1, <3>2
  <2>3. CASE Awaiting(s)
    BY <1>1, <2>2, <2>3 DEF Awaiting
  <2> QED
    BY <1>1, <2>1, <2>3 DEF LInv, AllVisited
<1>7. AllVisited'
  BY <1>1, <1>6 DEF AllVisited
<1> QED
  BY <1>4, <1>5, <1>7 DEF LInv

(* The call which loads its module has bound nothing yet. *)
LEMMA LoadLoading == ASSUME Inv, LInv, Load PROVE LInv'
<1>1. /\ stack # << >> /\ status = "discover"
      /\ UNCHANGED <<input, at, queue, order>>
      /\ status' \in {"discover", "notfound"}
  BY DEF Load
<1>2. NothingLeft'
  BY <1>1 DEF NothingLeft
<1>3. CASE svc[Top.key].module \notin DOMAIN input.modules
  <2>1. UNCHANGED <<svc, stack>>
    BY <1>3 DEF Load
  <2> QED
    BY <1>1, <1>2, <2>1 DEF LInv, CallsLoaded, AllVisited, Awaiting, OuterCluster
<1>4. CASE svc[Top.key].module \in DOMAIN input.modules
  <2> DEFINE old == svc[Top.key].deps
             new == input.modules[svc[Top.key].module]
             merged == MergeDeps(old, new)
             frame == [Top EXCEPT !.next = 1]
  <2>1. stack \in Seq(Frame) /\ Top \in Frame
    BY <1>1, TopAndRest DEF Inv, TypeOK
  <2>2. Top.key \in DOMAIN svc
    BY <1>1, <2>1, TopAndRest, LenProperties DEF Inv, Known, Top
  <2>3. svc[Top.key] \in Registry
    BY <2>2 DEF Inv, TypeOK, Registry
  <2>4. /\ svc' = [svc EXCEPT ![Top.key] = [@ EXCEPT !.deps = merged]]
        /\ stack' = Append(Rest, frame)
    BY <1>4 DEF Load
  <2>5. old \in Seq(Dep) /\ new \in Seq(Dep) /\ (old # << >> => Len(old) = Len(new))
    BY <1>4, <2>2, <2>3 DEF Inv, TypeOK, WellFormed, OwnModule, Registry
  <2>6. frame \in Frame /\ frame.key = Top.key /\ frame.next = 1
    BY <2>1 DEF Frame
  <2> HIDE DEF old, new, frame
  <2>7. merged \in Seq(Dep) /\ Len(merged) = Len(new)
    BY <2>5, MergeTyped
  <2>8. \A i \in DOMAIN merged : ~(i <= 0)
    BY <2>7, LenProperties
  <2> HIDE DEF merged
  <2>9. /\ DOMAIN svc' = DOMAIN svc
        /\ \A s \in DOMAIN svc : s # Top.key => svc'[s] = svc[s]
        /\ svc'[Top.key].module = svc[Top.key].module
        /\ svc'[Top.key].deps = merged
    BY <2>2, <2>3, <2>4 DEF Registry
  <2>10. Loaded(svc'[Top.key], input.modules, 0)
    BY <1>4, <2>7, <2>8, <2>9 DEF Loaded, new
  <2>11. Loaded(svc'[Top.key], input.modules, frame.next - 1)
    BY <2>6, <2>10
  <2>12. CallsLoaded' /\ AllVisited'
    BY <1>1, <2>4, <2>6, <2>9, <2>11, TopWorks DEF LInv
  <2> QED
    BY <1>2, <2>12 DEF LInv
<1> QED
  BY <1>3, <1>4

(* Binding a dependency binds it to a cluster, and leaves the others. *)
LEMMA BoundLoaded ==
  ASSUME Inv, CallsLoaded, Binding, NEW service \in Name \union {None}
  PROVE  /\ \A s \in DOMAIN svc : s # Top.key => Bound(service)[s] = svc[s]
         /\ Loaded(Bound(service)[Top.key], input.modules,
                   Advanced(Top, Current).next - 1)
<1> DEFINE new == [Current EXCEPT !.cluster = ClusterOf(Top, Current),
                                  !.service = service, !.prefix = None]
           deps == [svc[Top.key].deps EXCEPT ![Top.next] = new]
<1>1. /\ Top.key \in DOMAIN svc
      /\ svc[Top.key].deps \in Seq(Dep)
      /\ Top.next \in 1..Len(svc[Top.key].deps)
      /\ Current \in Dep
      /\ ClusterOf(Top, Current) \in Cluster
  BY BindingReads
<1>2. new \in Dep /\ new.cluster # None
  BY <1>1, NoneAssumption DEF Dep
<1>3. Bound(service) = [svc EXCEPT ![Top.key] = [@ EXCEPT !.deps = deps]]
  BY DEF Bound, Current
<1>4. svc[Top.key] \in Registry
  BY <1>1 DEF Inv, TypeOK, Registry
<1> HIDE DEF new
<1>5. deps \in Seq(Dep) /\ Len(deps) = Len(svc[Top.key].deps)
  BY <1>1, <1>2, ExceptSeq
<1>6. /\ DOMAIN deps = DOMAIN svc[Top.key].deps
      /\ deps[Top.next] = new
      /\ \A i \in DOMAIN deps : i # Top.next => deps[i] = svc[Top.key].deps[i]
  <2>1. Top.next \in DOMAIN svc[Top.key].deps
    BY <1>1, LenProperties
  <2> QED
    BY <2>1
<1> HIDE DEF deps
<1>7. /\ \A s \in DOMAIN svc : s # Top.key => Bound(service)[s] = svc[s]
      /\ Bound(service)[Top.key].module = svc[Top.key].module
      /\ Bound(service)[Top.key].deps = deps
  BY <1>1, <1>3, <1>4 DEF Registry
<1>8. Loaded(svc[Top.key], input.modules, Top.next - 1)
  <2>1. stack # << >> /\ stack \in Seq(Frame)
    BY DEF Binding, Inv, TypeOK
  <2>2. Len(stack) \in DOMAIN stack
    BY <2>1, TopAndRest, LenProperties
  <2>3. Top.next > 0
    BY <1>1
  <2> QED
    BY <2>2, <2>3 DEF CallsLoaded, Top
<1>9. \A i \in DOMAIN deps : i <= Top.next => deps[i].cluster # None
  <2> SUFFICES ASSUME NEW i \in DOMAIN deps, i <= Top.next
               PROVE  deps[i].cluster # None
    OBVIOUS
  <2>1. CASE i = Top.next
    BY <1>2, <1>6, <2>1
  <2>2. CASE i # Top.next
    <3>1. i \in DOMAIN svc[Top.key].deps /\ i \in Nat /\ Top.next \in Nat
      BY <1>1, <1>6, LenProperties
    <3>2. i <= Top.next - 1
      BY <2>2, <3>1
    <3> QED
      BY <1>6, <1>8, <2>2, <3>1, <3>2 DEF Loaded
  <2> QED
    BY <2>1, <2>2
<1>10. Advanced(Top, Current).next - 1 = Top.next
  BY <1>1 DEF Advanced
<1> QED
  BY <1>5, <1>7, <1>8, <1>9, <1>10 DEF Loaded

(* The dependency which is bound is one more of its service. *)
LEMMA BindLoading == ASSUME Inv, LInv, Bind PROVE LInv'
<1> DEFINE service == ServiceOf(Top, Current)
           frame == Advanced(Top, Current)
<1>1. /\ Binding /\ stack # << >> /\ status = "discover"
      /\ svc' = Bound(service)
      /\ stack' = Append(Rest, frame)
      /\ UNCHANGED <<input, at, queue, order, status>>
  BY DEF Bind, Binding
<1>2. service \in Name \union {None}
  BY <1>1, FoundTyped
<1>3. frame \in Frame /\ frame.key = Top.key
  BY <1>1, BindingReads
<1> HIDE DEF service
<1>4. /\ \A s \in DOMAIN svc : s # Top.key => svc'[s] = svc[s]
      /\ Loaded(svc'[Top.key], input.modules, frame.next - 1)
  BY <1>1, <1>2, BoundLoaded DEF LInv
<1>5. DOMAIN svc' = DOMAIN svc
  BY <1>1 DEF Bound
<1> HIDE DEF frame
<1>6. CallsLoaded' /\ AllVisited'
  BY <1>1, <1>3, <1>4, <1>5, TopWorks DEF LInv
<1>7. NothingLeft'
  BY <1>1 DEF NothingLeft
<1> QED
  BY <1>6, <1>7 DEF LInv

(* A call which is over leaves its service loaded. *)
LEMMA LeaveLoading == ASSUME Inv, LInv, Leave PROVE LInv'
<1>1. /\ stack \in Seq(Frame) /\ stack # << >> /\ stack' = Rest
      /\ Top.next > Len(svc[Top.key].deps) /\ status = "discover"
      /\ UNCHANGED <<input, at, queue, order, svc, status>>
  BY DEF Leave, Inv, TypeOK
<1>2. /\ Len(stack) \in Nat \ {0}
      /\ stack' \in Seq(Frame)
      /\ Len(stack') = Len(stack) - 1
      /\ \A i \in 1..(Len(stack) - 1) : stack'[i] = stack[i]
      /\ Top \in Frame
  BY <1>1, TopAndRest
<1>3. /\ DOMAIN stack = 1..Len(stack)
      /\ DOMAIN stack' = 1..(Len(stack) - 1)
      /\ \A i \in DOMAIN stack' : i \in DOMAIN stack /\ stack'[i] = stack[i]
      /\ \A i \in DOMAIN stack : i # Len(stack) => i \in DOMAIN stack'
      /\ Len(stack) \in DOMAIN stack
  BY <1>1, <1>2, LenProperties
<1>4. CallsLoaded'
  BY <1>1, <1>3 DEF LInv, CallsLoaded
<1>5. NothingLeft'
  BY <1>1 DEF NothingLeft
<1>6. Loaded(svc[Top.key], input.modules, Len(svc[Top.key].deps))
  <2>1. Top.key \in DOMAIN svc
    BY <1>3 DEF Inv, Known, Top
  <2>2. svc[Top.key].deps \in Seq(Dep)
    BY <2>1 DEF Inv, TypeOK
  <2>3. /\ Len(svc[Top.key].deps) \in Nat /\ Top.next \in Nat
        /\ DOMAIN svc[Top.key].deps = 1..Len(svc[Top.key].deps)
    BY <1>2, <2>2, LenProperties DEF Frame
  <2>4. Top.next > 0
    BY <1>1, <2>3
  <2>5. Loaded(svc[Top.key], input.modules, Top.next - 1)
    BY <1>3, <2>4 DEF LInv, CallsLoaded, Top
  <2>6. \A i \in DOMAIN svc[Top.key].deps : i <= Top.next - 1
    BY <1>1, <2>3
  <2> QED
    BY <2>5, <2>6 DEF Loaded
<1>7. AllVisited'
  <2> SUFFICES ASSUME NEW s \in DOMAIN svc
               PROVE  \/ \E k \in DOMAIN stack' : stack'[k].key = s
                      \/ Awaiting(s)'
                      \/ Loaded(svc'[s], input'.modules, Len(svc'[s].deps))
    BY <1>1 DEF AllVisited
  <2>1. CASE \E k \in DOMAIN stack : stack[k].key = s
    <3>1. PICK k \in DOMAIN stack : stack[k].key = s
      BY <2>1
    <3>2. CASE k # Len(stack)
      BY <1>3, <3>1, <3>2
    <3>3. CASE k = Len(stack)
      BY <1>1, <1>6, <3>1, <3>3 DEF Top
    <3> QED
      BY <3>2, <3>3
  <2>2. CASE Awaiting(s)
    BY <1>1, <2>2 DEF Awaiting, OuterCluster
  <2>3. CASE Loaded(svc[s], input.modules, Len(svc[s].deps))
    BY <1>1, <2>3
  <2> QED
    BY <2>1, <2>2, <2>3 DEF LInv, AllVisited
<1> QED
  BY <1>4, <1>5, <1>7 DEF LInv

(* The service which is registered is visited at once. *)
LEMMA RegisterLoading == ASSUME Inv, LInv, RegisterAuto PROVE LInv'
<1> DEFINE c == ClusterOf(Top, Current)
           m == Current.module
           key == <<c, m>>
           frame == Advanced(Top, Current)
           top == Len(stack)
<1>1. /\ Binding /\ stack \in Seq(Frame) /\ stack # << >> /\ status = "discover"
      /\ svc' = Registered(key)
      /\ stack' = Append(Append(Rest, frame), Call(key))
      /\ order' = [order EXCEPT ![c] = Append(@, m)]
      /\ UNCHANGED <<input, at, queue, status>>
  BY DEF RegisterAuto, Binding, Inv, TypeOK
<1>2. /\ frame \in Frame /\ frame.key = Top.key /\ c \in Cluster
      /\ Top.key \in DOMAIN svc
  BY <1>1, BindingReads
<1>3. m \in Name /\ m \in Name \union {None} /\ key \notin DOMAIN svc
  BY RegisteredNew
<1>4. Call(key) \in Frame /\ Call(key).key = key /\ Call(key).next = 0
  BY <1>2, <1>3 DEF Call, Frame, Service
<1>5. /\ DOMAIN svc' = DOMAIN svc \union {key}
      /\ \A s \in DOMAIN svc : svc'[s] = Bound(m)[s]
  BY <1>1, <1>3 DEF Registered
<1> HIDE DEF m, frame
<1>6. /\ \A s \in DOMAIN svc : s # Top.key => svc'[s] = svc[s]
      /\ Loaded(svc'[Top.key], input.modules, frame.next - 1)
  <2>1. /\ \A s \in DOMAIN svc : s # Top.key => Bound(m)[s] = svc[s]
        /\ Loaded(Bound(m)[Top.key], input.modules, frame.next - 1)
    BY <1>1, <1>3, BoundLoaded DEF LInv, frame
  <2> QED
    BY <1>2, <1>5, <2>1
<1>7. /\ DOMAIN stack = 1..top /\ DOMAIN stack' = 1..(top + 1)
      /\ top \in 1..top
      /\ stack'[top] = frame
      /\ stack'[top + 1].key = key /\ stack'[top + 1].next = 0
      /\ \A k \in 1..top : k # top => stack'[k] = stack[k]
  <2> DEFINE call == Call(key)
  <2>1. call \in Frame /\ call.key = key /\ call.next = 0
        /\ stack' = Append(Append(Rest, frame), call)
    BY <1>1, <1>4
  <2> HIDE DEF call
  <2> QED
    BY <1>1, <1>2, <2>1, CallPushed
<1>8. top \in Nat
  BY <1>1, LenProperties
<1> HIDE DEF c, key, top
<1>9. \A k \in DOMAIN stack' : k = top + 1 \/ k = top \/ (k \in 1..top /\ k # top)
  BY <1>7, <1>8
<1>10. \A k \in 1..top : k # top => stack[k].key # Top.key
  <2>1. \A i, k \in DOMAIN stack : stack[i].key = stack[k].key => i = k
    BY DEF Inv, NoReentry, IsInjective
  <2> QED
    BY <1>7, <2>1 DEF Top, top
<1>11. CallsLoaded'
  <2> SUFFICES ASSUME NEW k \in DOMAIN stack', stack'[k].next > 0
               PROVE  Loaded(svc'[stack'[k].key], input.modules, stack'[k].next - 1)
    BY <1>1 DEF CallsLoaded
  <2>1. CASE k = top + 1
    BY <1>7, <2>1
  <2>2. CASE k = top
    BY <1>2, <1>6, <1>7, <2>2
  <2>3. CASE k \in 1..top /\ k # top
    <3>1. stack'[k] = stack[k] /\ k \in DOMAIN stack
      BY <1>7, <2>3
    <3>2. Loaded(svc[stack[k].key], input.modules, stack[k].next - 1)
      BY <3>1 DEF LInv, CallsLoaded
    <3>3. svc'[stack[k].key] = svc[stack[k].key]
      BY <1>6, <1>10, <2>3, <3>1 DEF Inv, Known
    <3> QED
      BY <3>1, <3>2, <3>3
  <2> QED
    BY <1>9, <2>1, <2>2, <2>3
<1>12. \A s \in DOMAIN svc : Awaiting(s) => Awaiting(s)'
  <2> SUFFICES ASSUME NEW s \in DOMAIN svc, Awaiting(s) PROVE Awaiting(s)'
    OBVIOUS
  <2>1. CASE \E i \in DOMAIN queue : s = <<OuterCluster, queue[i]>>
    BY <1>1, <2>1 DEF Awaiting, OuterCluster
  <2>2. CASE \E j \in DOMAIN input.clusters :
               /\ j > at /\ input.clusters[j] = s[1]
               /\ \E i \in DOMAIN order[s[1]] : order[s[1]][i] = s[2]
    <3>1. s[1] \in Cluster /\ order \in [Cluster -> Seq(Name)]
      BY DEF Inv, TypeOK, Service
    <3>2. \A i \in DOMAIN order[s[1]] :
            i \in DOMAIN order'[s[1]] /\ order'[s[1]][i] = order[s[1]][i]
      <4>1. CASE s[1] # c
        BY <1>1, <3>1, <4>1
      <4>2. CASE s[1] = c
        <5>1. order[c] \in Seq(Name) /\ order'[c] = Append(order[c], m)
          BY <1>1, <1>2, <3>1
        <5>2. /\ Append(order[c], m) \in Seq(Name)
              /\ Len(Append(order[c], m)) = Len(order[c]) + 1
              /\ \A i \in 1..Len(order[c]) : Append(order[c], m)[i] = order[c][i]
          BY <1>3, <5>1, AppendProperties
        <5>3. /\ DOMAIN order[c] = 1..Len(order[c])
              /\ DOMAIN order'[c] = 1..(Len(order[c]) + 1)
              /\ Len(order[c]) \in Nat
          BY <5>1, <5>2, LenProperties
        <5> QED
          BY <4>2, <5>1, <5>2, <5>3
      <4> QED
        BY <4>1, <4>2
    <3> QED
      BY <1>1, <2>2, <3>2 DEF Awaiting
  <2> QED
    BY <2>1, <2>2 DEF Awaiting
<1>13. AllVisited'
  <2> SUFFICES ASSUME NEW s \in DOMAIN svc'
               PROVE  \/ \E k \in DOMAIN stack' : stack'[k].key = s
                      \/ Awaiting(s)'
                      \/ Loaded(svc'[s], input'.modules, Len(svc'[s].deps))
    BY DEF AllVisited
  <2>1. CASE s = key
    BY <1>7, <1>8, <2>1
  <2>2. CASE s = Top.key
    <3>1. top \in DOMAIN stack' /\ stack'[top].key = Top.key
      BY <1>2, <1>7, <1>8
    <3> QED
      BY <2>2, <3>1
  <2>3. CASE s \in DOMAIN svc /\ s # Top.key
    <3>1. CASE \E k \in DOMAIN stack : stack[k].key = s
      <4>1. PICK k \in DOMAIN stack : stack[k].key = s
        BY <3>1
      <4>2. k \in 1..top /\ k # top
        BY <1>7, <2>3, <4>1 DEF Top, top
      <4>3. k \in DOMAIN stack' /\ stack'[k] = stack[k]
        BY <1>7, <1>8, <4>2
      <4> QED
        BY <4>1, <4>3
    <3>2. CASE Awaiting(s)
      BY <1>12, <2>3, <3>2
    <3>3. CASE Loaded(svc[s], input.modules, Len(svc[s].deps))
      BY <1>1, <1>6, <2>3, <3>3
    <3> QED
      BY <2>3, <3>1, <3>2, <3>3 DEF LInv, AllVisited
  <2> QED
    BY <1>5, <2>1, <2>2, <2>3
<1>14. NothingLeft'
  BY <1>1 DEF NothingLeft
<1> QED
  BY <1>11, <1>13, <1>14 DEF LInv

(* The last pass changes neither the dependencies' number nor their        *)
(* cluster.                                                                *)
LEMMA CheckLoading == ASSUME Inv, LInv, Check PROVE LInv'
<1>1. /\ stack = << >> /\ queue = << >> /\ at = Len(input.clusters)
      /\ status = "discover"
      /\ UNCHANGED <<input, at, queue, order, stack>>
  BY DEF Check
<1>2. NothingLeft' /\ CallsLoaded'
  BY <1>1 DEF NothingLeft, CallsLoaded
<1>3. DOMAIN svc' = DOMAIN svc
  BY DEF Check
<1>4. ASSUME NEW s \in DOMAIN svc, Loaded(svc[s], input.modules, Len(svc[s].deps))
      PROVE  Loaded(svc'[s], input.modules, Len(svc'[s].deps))
  <2>1. CASE UNCHANGED svc
    BY <1>4, <2>1
  <2>2. CASE svc' = [t \in DOMAIN svc |->
                       [svc[t] EXCEPT !.deps =
                          [i \in DOMAIN @ |-> Switched(@[i])]]]
    <3> DEFINE n == Len(svc[s].deps)
               deps == [i \in 1..n |-> Switched(svc[s].deps[i])]
    <3>1. svc[s] \in Registry /\ svc[s].deps \in Seq(Dep)
      BY DEF Inv, TypeOK, Registry
    <3>2. n \in Nat /\ DOMAIN svc[s].deps = 1..n
      BY <3>1, LenProperties
    <3>3. \A i \in 1..n : svc[s].deps[i] \in Dep
      BY <3>1, ElementOfSeq
    <3>4. \A d \in Dep : Switched(d) \in Dep /\ Switched(d).cluster = d.cluster
      BY SwitchedTyped
    <3>5. deps \in [1..n -> Dep]
      BY <3>3, <3>4
    <3>6. Len(deps) = n /\ DOMAIN deps = 1..n
      BY <3>2, <3>5
    <3>7. \A i \in 1..n : deps[i].cluster # None
      BY <1>4, <3>2, <3>3, <3>4 DEF Loaded
    <3>8. svc'[s] = [svc[s] EXCEPT !.deps = deps]
      BY <2>2, <3>2
    <3> HIDE DEF deps
    <3>9. svc'[s].module = svc[s].module /\ svc'[s].deps = deps
      BY <3>1, <3>8 DEF Registry
    <3> QED
      BY <1>4, <3>6, <3>7, <3>9 DEF Loaded
  <2> QED
    BY <2>1, <2>2 DEF Check
<1>5. AllVisited'
  BY <1>1, <1>3, <1>4 DEF LInv, AllVisited, Awaiting, OuterCluster
<1> QED
  BY <1>2, <1>5 DEF LInv

(* The other steps touch neither the services nor what is to be visited. *)
LEMMA StatusLoading ==
  ASSUME LInv, RejectBind \/ AcceptNodes \/ RejectNode \/ UNCHANGED vars
  PROVE  LInv'
<1>1. UNCHANGED <<input, at, queue, order, svc, stack>>
  BY DEF RejectBind, AcceptNodes, RejectNode, vars
<1>2. CallsLoaded' /\ AllVisited'
  BY <1>1 DEF LInv, CallsLoaded, AllVisited, Awaiting, OuterCluster
<1>3. status' \in {"nodes", "done"} => status \in {"nodes", "done"}
  <2>1. CASE RejectBind
    BY <2>1, Z3 DEF RejectBind, Outcome
  <2>2. CASE AcceptNodes \/ RejectNode \/ UNCHANGED vars
    BY <2>2 DEF AcceptNodes, RejectNode, vars
  <2> QED
    BY <2>1, <2>2
<1>4. NothingLeft'
  BY <1>1, <1>3 DEF LInv, NothingLeft
<1> QED
  BY <1>2, <1>4 DEF LInv

-----------------------------------------------------------------------------
(* Whatever is registered while the loops run, every service has the       *)
(* dependencies of its module in the end, all of them bound to a cluster:  *)
(* none is left out because a loop had passed it (normalize.js:123-262).   *)
THEOREM EveryServiceLoaded == Spec => []AllLoaded
<1>1. LInv /\ Inv /\ [Next]_vars => LInv'
  BY NextClusterLoading, VisitLoading, LoadLoading, BindLoading, RegisterLoading,
     LeaveLoading, CheckLoading, StatusLoading DEF Next
<1>2. LInv /\ Inv => AllLoaded
  <2> SUFFICES ASSUME LInv, Inv, status = "done", NEW s \in DOMAIN svc
               PROVE  /\ svc[s].module \in DOMAIN input.modules
                      /\ Len(svc[s].deps) = Len(input.modules[svc[s].module])
                      /\ \A i \in DOMAIN svc[s].deps : svc[s].deps[i].cluster # None
    BY DEF AllLoaded
  <2>1. stack = << >> /\ queue = << >> /\ at = Len(input.clusters)
    BY DEF LInv, NothingLeft
  <2>2. input.clusters \in Seq(Cluster) /\ svc[s].deps \in Seq(Dep)
    BY DEF Inv, TypeOK, WellFormed
  <2>3. \A j \in DOMAIN input.clusters : ~(j > at)
    BY <2>1, <2>2, LenProperties
  <2>4. ~Awaiting(s)
    BY <2>1, <2>3 DEF Awaiting
  <2>5. Loaded(svc[s], input.modules, Len(svc[s].deps))
    BY <2>1, <2>4 DEF LInv, AllVisited
  <2>6. \A i \in DOMAIN svc[s].deps : i <= Len(svc[s].deps)
    BY <2>2, LenProperties
  <2> QED
    BY <2>5, <2>6 DEF Loaded
<1> QED
  BY <1>1, <1>2, InitLoading, Invariance, PTL DEF Spec

-----------------------------------------------------------------------------
(* Every set of natural numbers has a least element. *)
LEMMA LeastNumber ==
  ASSUME NEW D \in SUBSET Nat, D # {}
  PROVE  \E d \in D : \A e \in D : ~(e < d)
<1> DEFINE R == {p \in Nat \X Nat : p[1] < p[2]}
<1>1. IsWellFoundedOn(R, Nat)
  BY NatLessThanWellFounded DEF OpToRel
<1>2. PICK d \in D : \A e \in D : <<e, d>> \notin R
  <2> HIDE DEF R
  <2> QED
    BY <1>1, WFMin
<1> QED
  BY <1>2

\* The numbers of s and t which differ first, if they are among the first k,
\* are not smaller in s.
NotFewer(s, t, k) ==
  \A i \in 1..k : (\A j \in 1..(i - 1) : s[j] = t[j]) => ~(s[i] < t[i])

(* What is least in its first numbers has, among those which agree with it *)
(* there, one which is least in the next number too. *)
LEMMA NextLeast ==
  ASSUME NEW n \in Nat, NEW S \in SUBSET [1..n -> Nat], NEW k \in Nat, k < n,
         NEW t \in S, \A s \in S : NotFewer(s, t, k)
  PROVE  \E u \in S : \A s \in S : NotFewer(s, u, k + 1)
<1> DEFINE Same(s) == \A j \in 1..k : s[j] = t[j]
           D == {s[k + 1] : s \in {r \in S : Same(r)}}
<1>1. k + 1 \in 1..n
  OBVIOUS
<1>2. t[k + 1] \in D
  OBVIOUS
<1>3. D \in SUBSET Nat
  BY <1>1
<1>4. PICK d \in D : \A e \in D : ~(e < d)
  <2> HIDE DEF D
  <2> QED
    BY <1>2, <1>3, LeastNumber
<1>5. PICK u \in S : Same(u) /\ u[k + 1] = d
  BY <1>4
<1>6. ASSUME NEW s \in S, NEW i \in 1..(k + 1), \A j \in 1..(i - 1) : s[j] = u[j]
      PROVE  ~(s[i] < u[i])
  <2>1. CASE i \in 1..k
    <3>1. \A j \in 1..(i - 1) : j \in 1..k
      BY <2>1
    <3>2. \A j \in 1..(i - 1) : s[j] = t[j]
      BY <1>5, <1>6, <3>1
    <3>3. ~(s[i] < t[i])
      BY <2>1, <3>2 DEF NotFewer
    <3> QED
      BY <1>5, <2>1, <3>3
  <2>2. CASE i = k + 1
    <3>1. Same(s)
      BY <1>5, <1>6, <2>2
    <3>2. s[k + 1] \in D
      BY <3>1
    <3> HIDE DEF D
    <3> QED
      BY <1>4, <1>5, <2>2, <3>2
  <2>3. i \in 1..k \/ i = k + 1
    OBVIOUS
  <2> QED
    BY <2>1, <2>2, <2>3
<1> QED
  BY <1>5, <1>6 DEF NotFewer

(* Lists of n numbers cannot become fewer for ever: any set of them, the   *)
(* ones a behaviour goes through for instance, has one than which none is  *)
(* fewer.  With EveryStepShrinks, the recursion of discover_service ends   *)
(* (normalize.js:143-262).                                                 *)
LEMMA FewerWellFounded ==
  ASSUME NEW n \in Nat, NEW S \in SUBSET [1..n -> Nat], S # {}
  PROVE  \E t \in S : \A s \in S : ~Fewer(s, t)
<1> DEFINE Reached(k) == \E t \in S : \A s \in S : NotFewer(s, t, k)
           K == {k \in 0..n : ~Reached(k)}
<1>1. Reached(0)
  BY DEF NotFewer
<1>2. \A k \in Nat : k < n /\ Reached(k) => Reached(k + 1)
  BY NextLeast
<1>3. K = {}
  <2> SUFFICES ASSUME K # {} PROVE FALSE
    OBVIOUS
  <2>1. PICK k \in K : \A e \in K : ~(e < k)
    <3>1. K \in SUBSET Nat
      OBVIOUS
    <3> HIDE DEF K
    <3> QED
      BY <3>1, LeastNumber
  <2>2. k \in 0..n /\ ~Reached(k) /\ k # 0
    BY <1>1
  <2>3. k - 1 \in 0..n /\ k - 1 < k /\ k - 1 \in Nat /\ k - 1 < n /\ (k - 1) + 1 = k
    BY <2>2
  <2>4. Reached(k - 1)
    BY <2>1, <2>3
  <2> HIDE DEF Reached
  <2> QED
    BY <1>2, <2>2, <2>3, <2>4
<1>4. Reached(n)
  <2> HIDE DEF Reached
  <2> QED
    BY <1>3
<1>5. PICK t \in S : \A s \in S : NotFewer(s, t, n)
  BY <1>4
<1>6. \A s \in S : ~Fewer(s, t)
  <2>1. DOMAIN t = 1..n
    OBVIOUS
  <2> QED
    BY <1>5, <2>1 DEF NotFewer, Fewer
<1> QED
  BY <1>6

(* The first of six numbers which differs is smaller. *)
LEMMA FewerSix ==
  ASSUME NEW a, NEW b, DOMAIN b = 1..6,
         \/ a[1] < b[1]
         \/ a[1] = b[1] /\ a[2] < b[2]
         \/ a[1] = b[1] /\ a[2] = b[2] /\ a[3] < b[3]
         \/ a[1] = b[1] /\ a[2] = b[2] /\ a[3] = b[3] /\ a[4] < b[4]
         \/ a[1] = b[1] /\ a[2] = b[2] /\ a[3] = b[3] /\ a[4] = b[4] /\ a[5] < b[5]
         \/ /\ a[1] = b[1] /\ a[2] = b[2] /\ a[3] = b[3] /\ a[4] = b[4] /\ a[5] = b[5]
            /\ a[6] < b[6]
  PROVE  Fewer(a, b)
<1>1. ASSUME NEW i \in 1..6, a[i] < b[i], \A j \in 1..(i - 1) : a[j] = b[j]
      PROVE  Fewer(a, b)
  BY <1>1 DEF Fewer
<1>2. CASE a[1] < b[1]
  BY <1>1, <1>2
<1>3. CASE a[1] = b[1] /\ a[2] < b[2]
  BY <1>1, <1>3
<1>4. CASE a[1] = b[1] /\ a[2] = b[2] /\ a[3] < b[3]
  BY <1>1, <1>4
<1>5. CASE a[1] = b[1] /\ a[2] = b[2] /\ a[3] = b[3] /\ a[4] < b[4]
  BY <1>1, <1>5
<1>6. CASE a[1] = b[1] /\ a[2] = b[2] /\ a[3] = b[3] /\ a[4] = b[4] /\ a[5] < b[5]
  BY <1>1, <1>6
<1>7. CASE /\ a[1] = b[1] /\ a[2] = b[2] /\ a[3] = b[3] /\ a[4] = b[4] /\ a[5] = b[5]
           /\ a[6] < b[6]
  BY <1>1, <1>7
<1> QED
  BY <1>2, <1>3, <1>4, <1>5, <1>6, <1>7

\* What the numbers are made of.
Numbered ==
  /\ Phase \in {0, 1, 2}
  /\ Unregistered \in Nat
  /\ Len(input.clusters) - at \in Nat
  /\ Len(queue) \in Nat
  /\ Len(stack) \in Nat
  /\ LeftOnTop \in Nat

(* A module has a number of dependencies. *)
LEMMA SizeTyped == ASSUME Inv, NEW m PROVE Size(m) \in Nat
  BY LenProperties DEF Size, Inv, TypeOK, WellFormed

(* What the numbers are made of is a number. *)
LEMMA ToDoNumbered == Inv => Numbered
<1> SUFFICES ASSUME Inv PROVE Numbered
  OBVIOUS
<1>1. Phase \in {0, 1, 2}
  BY DEF Phase
<1>2. Unregistered \in Nat
  <2>1. IsFiniteSet(Service)
    BY FiniteAssumption, FS_Product DEF Service
  <2>2. IsFiniteSet(Service \ DOMAIN svc)
    BY <2>1, FS_Difference
  <2> QED
    BY <2>2, FS_CardinalityType DEF Unregistered
<1>3. Len(input.clusters) - at \in Nat
  BY LenProperties DEF Inv, TypeOK, WellFormed
<1>4. Len(queue) \in Nat /\ Len(stack) \in Nat
  BY LenProperties DEF Inv, TypeOK
<1>5. LeftOnTop \in Nat
  <2>1. CASE stack = << >>
    BY <2>1 DEF LeftOnTop
  <2>2. CASE stack # << >>
    <3> DEFINE n == Size(svc[Top.key].module)
    <3>1. Top \in Frame
      BY <2>2, TopAndRest DEF Inv, TypeOK
    <3>2. n \in Nat
      BY SizeTyped
    <3>3. Top.next \in Nat
      BY <3>1 DEF Frame
    <3>4. LeftOnTop = LeftOf(Top, n)
      BY <2>2 DEF LeftOnTop
    <3> HIDE DEF n
    <3> QED
      BY <3>2, <3>3, <3>4 DEF LeftOf
  <2> QED
    BY <2>1, <2>2
<1> QED
  BY <1>1, <1>2, <1>3, <1>4, <1>5 DEF Numbered

(* The numbers are six. *)
LEMMA ToDoTyped ==
  ASSUME Numbered
  PROVE  /\ ToDo \in [1..6 -> Nat]
         /\ ToDo[1] = Phase /\ ToDo[2] = Unregistered
         /\ ToDo[3] = Len(input.clusters) - at
         /\ ToDo[4] = Len(queue) /\ ToDo[5] = Len(stack) /\ ToDo[6] = LeftOnTop
<1>1. \A a1, a2, a3, a4, a5, a6 \in Nat :
        <<a1, a2, a3, a4, a5, a6>> \in [1..6 -> Nat]
  OBVIOUS
<1>2. Phase \in Nat
  BY DEF Numbered
<1>3. ToDo \in [1..6 -> Nat]
  BY <1>1, <1>2 DEF Numbered, ToDo
<1> QED
  BY <1>3 DEF ToDo

(* A step brings the discovery nearer to its end. *)
LEMMA ToDoFewer ==
  ASSUME ToDo' \in [1..6 -> Nat], ToDo \in [1..6 -> Nat],
         Inv,
         \/ Phase' < Phase
         \/ /\ Phase' = Phase
            /\ \/ Unregistered' < Unregistered
               \/ /\ Unregistered' = Unregistered
                  /\ input' = input
                  /\ \/ at' = at + 1
                     \/ at' = at /\ Len(queue') < Len(queue)
                     \/ at' = at /\ queue' = queue /\ Len(stack') < Len(stack)
                     \/ /\ at' = at /\ queue' = queue /\ Len(stack') = Len(stack)
                        /\ LeftOnTop' < LeftOnTop
  PROVE  Fewer(ToDo', ToDo)
<1> DEFINE a == ToDo'
           b == ToDo
<1>1. /\ b[1] = Phase /\ a[1] = Phase'
      /\ b[2] = Unregistered /\ a[2] = Unregistered'
      /\ b[3] = Len(input.clusters) - at /\ a[3] = Len(input'.clusters) - at'
      /\ b[4] = Len(queue) /\ a[4] = Len(queue')
      /\ b[5] = Len(stack) /\ a[5] = Len(stack')
      /\ b[6] = LeftOnTop /\ a[6] = LeftOnTop'
  BY DEF ToDo
<1>2. input' = input /\ at' = at + 1 => a[3] < b[3]
  <2>1. Len(input.clusters) \in Nat /\ at \in Nat
    <3>1. input.clusters \in Seq(Cluster) /\ at \in 0..Len(input.clusters)
      BY DEF Inv, TypeOK, WellFormed
    <3> QED
      BY <3>1, LenProperties
  <2>2. \A n, k \in Nat : n - (k + 1) < n - k
    OBVIOUS
  <2> QED
    BY <1>1, <2>1, <2>2
<1>3. input' = input /\ at' = at => a[3] = b[3]
  BY <1>1
<1>4. \/ a[1] < b[1]
      \/ a[1] = b[1] /\ a[2] < b[2]
      \/ a[1] = b[1] /\ a[2] = b[2] /\ a[3] < b[3]
      \/ a[1] = b[1] /\ a[2] = b[2] /\ a[3] = b[3] /\ a[4] < b[4]
      \/ a[1] = b[1] /\ a[2] = b[2] /\ a[3] = b[3] /\ a[4] = b[4] /\ a[5] < b[5]
      \/ /\ a[1] = b[1] /\ a[2] = b[2] /\ a[3] = b[3] /\ a[4] = b[4] /\ a[5] = b[5]
         /\ a[6] < b[6]
  <2>1. queue' = queue => a[4] = b[4]
    BY <1>1
  <2> HIDE DEF a, b
  <2> QED
    BY <1>1, <1>2, <1>3, <2>1
<1>5. DOMAIN b = 1..6
  OBVIOUS
<1>6. Fewer(a, b)
  <2> HIDE DEF a, b
  <2> QED
    BY <1>4, <1>5, FewerSix
<1> QED
  BY <1>6

-----------------------------------------------------------------------------
(* The outer loop has fewer clusters left. *)
LEMMA NextClusterFewer ==
  ASSUME ToDo' \in [1..6 -> Nat], ToDo \in [1..6 -> Nat], Inv, NextCluster PROVE Fewer(ToDo', ToDo)
<1>1. at' = at + 1
  BY DEF NextCluster
<1>2. Phase' = Phase /\ Unregistered' = Unregistered /\ input' = input
  BY DEF NextCluster, Phase, Unregistered
<1> QED
  BY <1>1, <1>2, ToDoFewer

(* A visit takes a service from the queue. *)
LEMMA VisitFewer ==
  ASSUME ToDo' \in [1..6 -> Nat], ToDo \in [1..6 -> Nat], Inv, Visit PROVE Fewer(ToDo', ToDo)
<1>1. at' = at
  BY DEF Visit
<1>2. Phase' = Phase /\ Unregistered' = Unregistered /\ input' = input
  BY DEF Visit, Phase, Unregistered
<1>3. Len(queue') < Len(queue)
  <2>1. queue \in Seq(Name) /\ queue # << >> /\ queue' = Tail(queue)
    BY DEF Visit, Inv, TypeOK
  <2>2. Len(queue') = Len(queue) - 1 /\ Len(queue) \in Nat
    BY <2>1, HeadTailProperties, LenProperties
  <2> QED
    BY <2>2
<1> QED
  BY <1>1, <1>2, <1>3, ToDoFewer

(* The one who goes on has less left. *)
LEMMA LessLeft ==
  \A x, n \in Nat :
    x <= n => (IF x + 1 <= n THEN n + 1 - (x + 1) ELSE 0) < n + 1 - x
OBVIOUS

(* A call which goes on with less left. *)
LEMMA WorkFewer ==
  ASSUME ToDo' \in [1..6 -> Nat], ToDo \in [1..6 -> Nat], Inv, stack # << >>,
         NEW f \in Frame, f.key = Top.key, f.next = Top.next + 1,
         Top.next <= Size(svc[Top.key].module),
         stack' = Append(Rest, f),
         DOMAIN svc' = DOMAIN svc,
         svc'[Top.key].module = svc[Top.key].module,
         UNCHANGED <<input, at, queue, status>>
  PROVE  Fewer(ToDo', ToDo)
<1> DEFINE n == Size(svc[Top.key].module)
<1>1. at' = at
  OBVIOUS
<1>2. Phase' = Phase /\ Unregistered' = Unregistered /\ input' = input /\ queue' = queue
  BY DEF Phase, Unregistered
<1>3. stack \in Seq(Frame) /\ Top \in Frame
  BY TopAndRest DEF Inv, TypeOK
<1>4. Len(stack') = Len(stack) /\ stack' # << >>
  BY <1>3, GoesOn
<1>5. stack'[Len(stack)] = f
  BY <1>3, TopReplaced
<1>6. Top' = f
  BY <1>4, <1>5 DEF Top
<1>7. LeftOnTop = LeftOf(Top, n)
  BY DEF LeftOnTop
<1>8. LeftOnTop' = LeftOf(f, n)
  BY <1>4, <1>6 DEF LeftOnTop, Size
<1>9. n \in Nat
  BY SizeTyped
<1>10. Top.next \in Nat
  BY <1>3 DEF Frame
<1>11. LeftOnTop' < LeftOnTop
  <2> HIDE DEF n
  <2>1. Top.next <= n
    BY DEF n
  <2>2. LeftOf(Top, n) = n + 1 - Top.next
    BY <2>1 DEF LeftOf
  <2>3. LeftOf(f, n) < n + 1 - Top.next
    BY <1>9, <1>10, <2>1, LessLeft DEF LeftOf
  <2> QED
    BY <1>7, <1>8, <2>2, <2>3
<1> QED
  BY <1>1, <1>2, <1>4, <1>11, ToDoFewer

(* A module which is loaded is not loaded again by the same call. *)
LEMMA LoadFewer ==
  ASSUME ToDo' \in [1..6 -> Nat], ToDo \in [1..6 -> Nat], Inv, Load PROVE Fewer(ToDo', ToDo)
<1> DEFINE m == svc[Top.key].module
           f == [Top EXCEPT !.next = 1]
<1>1. /\ stack \in Seq(Frame) /\ stack # << >> /\ Top \in Frame
      /\ Top.key \in DOMAIN svc
  <2>1. stack \in Seq(Frame) /\ stack # << >>
    BY DEF Load, Inv, TypeOK
  <2>2. Top \in Frame /\ Len(stack) \in Nat \ {0}
    BY <2>1, TopAndRest
  <2> QED
    BY <2>1, <2>2, LenProperties DEF Inv, Known, Top
<1>2. CASE m \notin DOMAIN input.modules
  <2>1. Phase' < Phase
    BY <1>2 DEF Load, Phase
  <2> QED
    BY <2>1, ToDoFewer
<1>3. CASE m \in DOMAIN input.modules
  <2>1. /\ f \in Frame /\ f.key = Top.key /\ f.next = Top.next + 1
        /\ Top.next = 0
    <3>1. Top.next = 0
      BY DEF Load
    <3>2. f \in Frame
      BY <1>1 DEF Frame
    <3>3. f.key = Top.key /\ f.next = 1
      BY <1>1 DEF Frame
    <3> HIDE DEF f
    <3> QED
      BY <3>1, <3>2, <3>3
  <2>2. stack' = Append(Rest, f) /\ UNCHANGED <<input, at, queue, status>>
    BY <1>3 DEF Load
  <2>3. /\ DOMAIN svc' = DOMAIN svc
        /\ svc'[Top.key].module = m
    <3> DEFINE merged == MergeDeps(svc[Top.key].deps, input.modules[m])
    <3>1. svc' = [svc EXCEPT ![Top.key] = [@ EXCEPT !.deps = merged]]
      BY <1>3 DEF Load
    <3>2. svc[Top.key] \in Registry
      BY <1>1 DEF Inv, TypeOK, Registry
    <3> HIDE DEF merged
    <3> QED
      BY <1>1, <3>1, <3>2 DEF Registry
  <2>4. Top.next <= Size(m)
    <3>1. Size(m) \in Nat
      BY SizeTyped
    <3> QED
      BY <2>1, <3>1
  <2> HIDE DEF f
  <2> QED
    BY <1>1, <2>1, <2>2, <2>3, <2>4, WorkFewer
<1> QED
  BY <1>2, <1>3

(* What is indexed is not empty. *)
LEMMA HasDeps ==
  ASSUME NEW deps \in Seq(Dep), NEW i \in 1..Len(deps)
  PROVE  deps # << >>
<1> SUFFICES ASSUME deps = << >> PROVE FALSE
  OBVIOUS
<1>1. Len(deps) = 0
  OBVIOUS
<1> QED
  BY <1>1

(* A dependency which is bound is left behind. *)
LEMMA BindFewer ==
  ASSUME ToDo' \in [1..6 -> Nat], ToDo \in [1..6 -> Nat], Inv, Bind PROVE Fewer(ToDo', ToDo)
<1> DEFINE f == Advanced(Top, Current)
           n == Size(svc[Top.key].module)
<1>1. /\ Binding /\ stack # << >>
      /\ stack' = Append(Rest, f) /\ UNCHANGED <<input, at, queue, status>>
  BY DEF Bind, Binding
<1>2. /\ Top.key \in DOMAIN svc
      /\ svc[Top.key].deps \in Seq(Dep)
      /\ Top.next \in 1..Len(svc[Top.key].deps)
      /\ f \in Frame /\ f.key = Top.key
  BY <1>1, BindingReads
<1>3. f.next = Top.next + 1
  BY DEF Advanced
<1>4. DOMAIN svc' = DOMAIN svc /\ svc'[Top.key].module = svc[Top.key].module
  <2>1. svc' = Bound(ServiceOf(Top, Current))
    BY DEF Bind
  <2>2. ServiceOf(Top, Current) \in Name \union {None}
    BY <1>1, FoundTyped
  <2> QED
    BY <1>1, <1>2, <2>1, <2>2, BoundKeeps
<1>5. Top.next <= n
  <2>1. svc[Top.key].deps # << >>
    BY <1>2, HasDeps
  <2>2. n = Len(svc[Top.key].deps)
    BY <1>2, <2>1 DEF Size, Inv, OwnModule
  <2> QED
    BY <1>2, <2>2
<1> HIDE DEF f
<1> QED
  BY <1>1, <1>2, <1>3, <1>4, <1>5, WorkFewer

(* The service which is registered was not, and there are finitely many. *)
LEMMA RegisterFewer ==
  ASSUME ToDo' \in [1..6 -> Nat], ToDo \in [1..6 -> Nat], Inv, RegisterAuto PROVE Fewer(ToDo', ToDo)
<1> DEFINE key == <<ClusterOf(Top, Current), Current.module>>
           left == Service \ DOMAIN svc
<1>1. Binding /\ UNCHANGED <<input, at, queue, status>>
  BY DEF RegisterAuto, Binding
<1>2. key \in left
  BY <1>1, BindingReads, RegisteredNew DEF Service
<1>3. DOMAIN svc' = DOMAIN svc \union {key}
  BY DEF RegisterAuto, Registered
<1>4. Service \ DOMAIN svc' = left \ {key}
  BY <1>3
<1>5. IsFiniteSet(left)
  <2>1. IsFiniteSet(Service)
    BY FiniteAssumption, FS_Product DEF Service
  <2> QED
    BY <2>1, FS_Difference
<1> HIDE DEF key
<1>6. Cardinality(left \ {key}) = Cardinality(left) - 1 /\ Cardinality(left) \in Nat
  <2> HIDE DEF left
  <2> QED
    BY <1>2, <1>5, FS_RemoveElement, FS_CardinalityType
<1>7. Unregistered' < Unregistered
  <2>1. Unregistered = Cardinality(left) /\ Unregistered' = Cardinality(left \ {key})
    BY <1>4 DEF Unregistered
  <2> HIDE DEF left
  <2> QED
    BY <1>6, <2>1
<1>8. Phase' = Phase
  BY <1>1 DEF Phase
<1> QED
  BY <1>7, <1>8, ToDoFewer

(* A visit which is over leaves the stack. *)
LEMMA LeaveFewer ==
  ASSUME ToDo' \in [1..6 -> Nat], ToDo \in [1..6 -> Nat], Inv, Leave PROVE Fewer(ToDo', ToDo)
<1>1. at' = at
  BY DEF Leave
<1>2. Phase' = Phase /\ Unregistered' = Unregistered /\ input' = input /\ queue' = queue
  BY DEF Leave, Phase, Unregistered
<1>3. Len(stack') = Len(stack) - 1 /\ Len(stack) \in Nat
  BY TopAndRest DEF Leave, Inv, TypeOK
<1>4. Len(stack') < Len(stack)
  BY <1>3
<1> QED
  BY <1>1, <1>2, <1>4, ToDoFewer

(* A rejection, and the passes after the discovery, end a phase. *)
LEMMA PhaseFewer ==
  ASSUME ToDo' \in [1..6 -> Nat], ToDo \in [1..6 -> Nat], Inv, RejectBind \/ Check \/ AcceptNodes \/ RejectNode
  PROVE  Fewer(ToDo', ToDo)
<1>1. Phase' < Phase
  <2>1. CASE RejectBind
    BY <2>1 DEF RejectBind, Binding, Outcome, Phase
  <2>2. CASE Check
    BY <2>2 DEF Check, Phase
  <2>3. CASE AcceptNodes \/ RejectNode
    BY <2>3 DEF AcceptNodes, RejectNode, Phase
  <2> QED
    BY <2>1, <2>2, <2>3
<1> QED
  BY <1>1, ToDoFewer

(* Every step brings the discovery nearer to its end: registering and      *)
(* visiting further services, inside the loops over the services, takes    *)
(* one from the finitely many which can be registered, and no call binds a *)
(* dependency twice (normalize.js:143-262).                                *)
THEOREM EveryStepShrinks == Spec => Shrinks
<1> DEFINE Typed == ToDo \in [1..6 -> Nat]
<1>1. Inv => Typed
  BY ToDoNumbered, ToDoTyped
<1>2. Typed /\ Typed' /\ Inv /\ [Next]_vars
        => [ToDo' \in [1..6 -> Nat] /\ Fewer(ToDo', ToDo)]_vars
  <2> SUFFICES ASSUME Typed, Typed', Inv, Next
               PROVE  Fewer(ToDo', ToDo)
    OBVIOUS
  <2> QED
    BY NextClusterFewer, VisitFewer, LoadFewer, BindFewer, RegisterFewer, LeaveFewer,
       PhaseFewer DEF Next
<1> QED
  <2> HIDE DEF Typed
  <2> QED
    BY <1>1, <1>2, Invariance, PTL DEF Spec, Shrinks
=============================================================================
