--------------------------- MODULE HandoverProofs ---------------------------
(***************************************************************************)
(* Proofs about what the discovery hands over to the placement: which      *)
(* dependencies are enabled, and that the services they and the nodes name *)
(* are registered, for every well-formed configuration.                    *)
(***************************************************************************)
EXTENDS DiscoveryProofs

\* How the normalisation goes on, or ends, once the dependencies are checked.
Passed == {"nodes", "done", "missing", "nocluster"}

-----------------------------------------------------------------------------
(* What the configuration forces stays forced. *)
LEMMA StillForced ==
  ASSUME input' = input, NEW s, NEW i, svc'[s].module = svc[s].module,
         Forced(s, i)
  PROVE  Forced(s, i)'
BY DEF Forced, Sources, Declared

(* An option of the module, or of a declared service, is a source. *)
LEMMA SourceForces ==
  /\ \A s, i : input.modules[svc[s].module][i].disabled = FALSE => Forced(s, i)
  /\ \A s, i : s \in Declared(input) /\ i \in DOMAIN input.given[s]
               /\ input.given[s][i].disabled = FALSE => Forced(s, i)
BY DEF Forced, Sources

(* Initially a service has the options of the configuration only. *)
LEMMA InitSwitching == Init => Switching
<1> SUFFICES ASSUME Init PROVE Switching
  OBVIOUS
<1>1. status = "discover"
  BY DEF Init
<1>2. ASSUME NEW s \in DOMAIN svc, NEW i \in DOMAIN svc[s].deps,
             svc[s].deps[i].disabled = FALSE
      PROVE  Forced(s, i)
  <2>1. s \in Declared(input) /\ svc[s].deps = input.given[s]
    BY DEF Init
  <2> QED
    BY <1>2, <2>1, SourceForces
<1> QED
  BY <1>1, <1>2 DEF Switching

(* The invariant is kept while the registry is left alone, *)
(* once the dependencies are checked and before.           *)
LEMMA UntouchedSwitching ==
  ASSUME Switching, UNCHANGED <<input, svc>>,
         status \in Passed => status' \in Passed,
         status' \in {"nodes", "done"} => status \in {"nodes", "done"}
  PROVE  Switching'
<1>1. \A s \in DOMAIN svc : \A i \in DOMAIN svc[s].deps :
        Forced(s, i) => Forced(s, i)'
  BY StillForced
<1> QED
  BY <1>1 DEF Switching, Passed, Target

(* Before that, it is enough that what is not disabled is forced. *)
LEMMA ForcedSwitching ==
  ASSUME status' \notin {"nodes", "done"},
         \A s \in DOMAIN svc' : \A i \in DOMAIN svc'[s].deps :
           svc'[s].deps[i].disabled = FALSE => Forced(s, i)'
  PROVE  Switching'
BY DEF Switching

(* It is kept when a module is loaded: a merged option was set before, or  *)
(* is an option of the module.                                             *)
LEMMA LoadSwitching == ASSUME Inv, Switching, Load PROVE Switching'
<1>1. /\ status = "discover" /\ status' \in {"discover", "notfound"}
      /\ input' = input
  BY DEF Load
<1>2. CASE svc[Top.key].module \notin DOMAIN input.modules
  <2>1. svc' = svc
    BY <1>2 DEF Load
  <2> QED
    BY <1>1, <2>1, UntouchedSwitching DEF Passed
<1>3. CASE svc[Top.key].module \in DOMAIN input.modules
  <2> DEFINE old == svc[Top.key].deps
             new == input.modules[svc[Top.key].module]
             merged == MergeDeps(old, new)
  <2>1. stack \in Seq(Frame) /\ stack # << >>
    BY DEF Load, Inv, TypeOK
  <2>2. Top.key \in DOMAIN svc
    BY <2>1, TopAndRest, LenProperties DEF Inv, Known, Top
  <2>3. svc[Top.key] \in Registry
    BY <2>2 DEF Inv, TypeOK, Registry
  <2>4. svc' = [svc EXCEPT ![Top.key] = [@ EXCEPT !.deps = merged]]
    BY <1>3 DEF Load
  <2>5. old \in Seq(Dep) /\ new \in Seq(Dep) /\ (old # << >> => Len(old) = Len(new))
    BY <1>3, <2>2, <2>3 DEF Inv, TypeOK, WellFormed, OwnModule, Registry
  <2> HIDE DEF old, new
  <2>6. /\ DOMAIN merged = DOMAIN new
        /\ \A i \in DOMAIN new :
             \/ merged[i].disabled = new[i].disabled
             \/ i \in DOMAIN old /\ merged[i].disabled = old[i].disabled
    BY <2>5, MergeTyped
  <2> HIDE DEF merged
  <2>7. /\ DOMAIN svc' = DOMAIN svc
        /\ \A s \in DOMAIN svc : s # Top.key => svc'[s] = svc[s]
        /\ svc'[Top.key].module = svc[Top.key].module
        /\ svc'[Top.key].deps = merged
    BY <2>2, <2>3, <2>4 DEF Registry
  <2>8. ASSUME NEW s \in DOMAIN svc', NEW i \in DOMAIN svc'[s].deps,
               svc'[s].deps[i].disabled = FALSE
        PROVE  Forced(s, i)'
    <3>1. s \in DOMAIN svc /\ svc'[s].module = svc[s].module
      BY <2>7
    <3>2. Forced(s, i)
      <4>1. CASE s # Top.key
        BY <1>1, <2>7, <2>8, <3>1, <4>1 DEF Switching
      <4>2. CASE s = Top.key /\ new[i].disabled = FALSE
        BY <4>2, SourceForces DEF new
      <4>3. CASE s = Top.key /\ i \in DOMAIN old /\ old[i].disabled = FALSE
        BY <1>1, <3>1, <4>3 DEF Switching, old
      <4> QED
        BY <2>6, <2>7, <2>8, <4>1, <4>2, <4>3
    <3> QED
      BY <1>1, <3>1, <3>2, StillForced
  <2> QED
    BY <1>1, <2>8, ForcedSwitching
<1> QED
  BY <1>2, <1>3

(* It is kept when a dependency is bound, which leaves the option alone. *)
LEMMA BindSwitching == ASSUME Inv, Switching, Bind PROVE Switching'
<1>1. /\ Binding /\ status = "discover" /\ UNCHANGED <<input, status>>
      /\ svc' = Bound(ServiceOf(Top, Current))
  BY DEF Bind, Binding
<1>2. ServiceOf(Top, Current) \in Name \union {None}
  BY <1>1, FoundTyped
<1>3. /\ DOMAIN svc' = DOMAIN svc
      /\ \A s \in DOMAIN svc :
           /\ svc'[s].module = svc[s].module
           /\ DOMAIN svc'[s].deps = DOMAIN svc[s].deps
           /\ \A i \in DOMAIN svc[s].deps :
                svc'[s].deps[i].disabled = svc[s].deps[i].disabled
  BY <1>1, <1>2, BoundKeeps
<1>4. \A s \in DOMAIN svc : \A i \in DOMAIN svc[s].deps :
        svc[s].deps[i].disabled = FALSE => Forced(s, i)'
  BY <1>1, <1>3, StillForced DEF Switching
<1> QED
  BY <1>1, <1>3, <1>4, ForcedSwitching

(* It is kept when a service is registered, which has no dependency yet. *)
LEMMA RegisterSwitching == ASSUME Inv, Switching, RegisterAuto PROVE Switching'
<1> DEFINE m == Current.module
           key == <<ClusterOf(Top, Current), m>>
<1>1. /\ Binding /\ status = "discover" /\ UNCHANGED <<input, status>>
      /\ svc' = Registered(key)
  BY DEF RegisterAuto, Binding
<1>2. m \in Name \union {None} /\ key \notin DOMAIN svc
  BY RegisteredNew
<1>3. /\ DOMAIN svc' = DOMAIN svc \union {key}
      /\ svc'[key].deps = << >>
      /\ \A s \in DOMAIN svc : svc'[s] = Bound(m)[s]
  BY <1>1, <1>2 DEF Registered
<1> HIDE DEF m, key
<1>4. \A s \in DOMAIN svc :
        /\ svc'[s].module = svc[s].module
        /\ DOMAIN svc'[s].deps = DOMAIN svc[s].deps
        /\ \A i \in DOMAIN svc[s].deps :
             svc'[s].deps[i].disabled = svc[s].deps[i].disabled
  BY <1>1, <1>2, <1>3, BoundKeeps
<1>5. \A s \in DOMAIN svc : \A i \in DOMAIN svc[s].deps :
        svc[s].deps[i].disabled = FALSE => Forced(s, i)'
  BY <1>1, <1>4, StillForced DEF Switching
<1>6. ASSUME NEW s \in DOMAIN svc', NEW i \in DOMAIN svc'[s].deps,
             svc'[s].deps[i].disabled = FALSE
      PROVE  Forced(s, i)'
  <2>1. s # key
    BY <1>3, <1>6
  <2>2. s \in DOMAIN svc
    BY <1>3, <2>1
  <2> QED
    BY <1>4, <1>5, <1>6, <2>2
<1> QED
  BY <1>1, <1>6, ForcedSwitching

(* The last pass over the dependencies enables the ones whose service is   *)
(* registered, and leaves none undecided.                                  *)
LEMMA CheckSwitching == ASSUME Inv, Switching, Check PROVE Switching'
<1>1. status = "discover" /\ input' = input
  BY DEF Check
<1>2. CASE UNCHANGED svc /\ status' = "unsatisfied"
  BY <1>1, <1>2, UntouchedSwitching DEF Passed
<1>3. CASE /\ svc' = [s \in DOMAIN svc |->
                        [svc[s] EXCEPT !.deps =
                           [i \in DOMAIN @ |-> Switched(@[i])]]]
           /\ status' = "nodes"
  <2>1. DOMAIN svc' = DOMAIN svc
    BY <1>3
  <2>2. \A s \in DOMAIN svc :
          /\ svc'[s].module = svc[s].module
          /\ DOMAIN svc'[s].deps = DOMAIN svc[s].deps
          /\ \A i \in DOMAIN svc[s].deps :
               svc'[s].deps[i] = Switched(svc[s].deps[i])
    <3> TAKE s \in DOMAIN svc
    <3>1. svc[s] \in Registry
      BY DEF Inv, TypeOK, Registry
    <3>2. svc'[s] = [svc[s] EXCEPT !.deps =
                       [i \in DOMAIN svc[s].deps |-> Switched(svc[s].deps[i])]]
      BY <1>3
    <3> QED
      BY <3>1, <3>2 DEF Registry
  <2>3. ASSUME NEW s \in DOMAIN svc, NEW i \in DOMAIN svc[s].deps
        PROVE  /\ svc'[s].deps[i].disabled # None
               /\ svc'[s].deps[i].disabled = FALSE /\ ~Forced(s, i)'
                    => Target(svc'[s].deps[i]) \in DOMAIN svc'
    <3> DEFINE d == svc[s].deps[i]
    <3>1. d \in Dep
      <4>1. svc[s].deps \in Seq(Dep)
        BY DEF Inv, TypeOK
      <4> QED
        BY <4>1, LenProperties, ElementOfSeq
    <3>2. svc'[s].deps[i] = Switched(d)
      BY <2>2
    <3>3. d.disabled = FALSE => Forced(s, i)'
      BY <1>1, <2>2, StillForced DEF Switching
    <3> HIDE DEF d
    <3>4. Switched(d).disabled # None
      BY <3>1, NoneAssumption DEF Switched, Dep
    <3>5. Switched(d).disabled = FALSE /\ d.disabled # FALSE
            => Target(d) \in DOMAIN svc
      BY <3>1 DEF Switched, Dep
    <3>6. Target(Switched(d)) = Target(d)
      BY <3>1 DEF Switched, Dep, Target
    <3>7. Target(svc'[s].deps[i]) = Target(Switched(d))
      BY <3>2 DEF Target
    <3> QED
      BY <2>1, <3>2, <3>3, <3>4, <3>5, <3>6, <3>7
  <2> QED
    BY <1>3, <2>1, <2>2, <2>3 DEF Switching, Target
<1> QED
  BY <1>2, <1>3 DEF Check
(* The options which disable dependencies are decided once and for all. *)
LEMMA SwitchingInvariance == Spec => []Switching
<1>1. ASSUME Inv, Switching, [Next]_vars PROVE Switching'
  <2>1. CASE Load
    BY <1>1, <2>1, LoadSwitching
  <2>2. CASE Bind
    BY <1>1, <2>2, BindSwitching
  <2>3. CASE RegisterAuto
    BY <1>1, <2>3, RegisterSwitching
  <2>4. CASE Check
    BY <1>1, <2>4, CheckSwitching
  <2>5. CASE RejectBind
    <3>1. UNCHANGED <<input, svc>> /\ status = "discover"
      BY <2>5 DEF RejectBind, Binding
    <3>2. status' \notin {"nodes", "done"}
      BY <2>5 DEF RejectBind, Outcome
    <3> QED
      BY <1>1, <3>1, <3>2, UntouchedSwitching DEF Passed
  <2>6. CASE NextCluster \/ Visit \/ Leave \/ UNCHANGED vars
    <3>1. UNCHANGED <<input, svc, status>>
      BY <2>6 DEF NextCluster, Visit, Leave, vars
    <3> QED
      BY <1>1, <3>1, UntouchedSwitching
  <2>7. CASE AcceptNodes \/ RejectNode
    <3>1. /\ UNCHANGED <<input, svc>> /\ status = "nodes"
          /\ status' \in {"done", "missing", "nocluster"}
      BY <2>7 DEF AcceptNodes, RejectNode
    <3> QED
      BY <1>1, <3>1, UntouchedSwitching DEF Passed
  <2> QED
    BY <1>1, <2>1, <2>2, <2>3, <2>4, <2>5, <2>6, <2>7 DEF Next
<1>2. Inv /\ Switching /\ [Next]_vars => Switching'
  BY <1>1
<1> QED
  BY <1>2, InitSwitching, Invariance, PTL DEF Spec

(* The placement starts with nodes which were validated against the        *)
(* registry it is given.                                                   *)
LEMMA ValidatedInvariance == Spec => []Validated
<1>1. Init => Validated
  BY DEF Init, Validated
<1>2. ASSUME Validated, [Next]_vars PROVE Validated'
  <2>1. CASE AcceptNodes
    <3>1. /\ \A n \in Node : Faults(n) = {}
          /\ UNCHANGED <<input, svc>>
      BY <2>1 DEF AcceptNodes
    <3> QED
      BY <3>1 DEF Validated, Faults, IsRegistered
  <2>2. CASE RejectNode
    BY <2>2 DEF RejectNode, Validated
  <2>3. CASE UNCHANGED vars
    BY <1>2, <2>3 DEF vars, Validated, Faults, IsRegistered
  <2>4. CASE NextCluster \/ Visit \/ Bind \/ RegisterAuto \/ Leave
    <3>1. status' = "discover"
      BY <2>4 DEF NextCluster, Visit, Bind, RegisterAuto, Leave, Binding
    <3> QED
      BY <3>1 DEF Validated
  <2>5. CASE Load \/ RejectBind \/ Check
    <3>1. status' # "done"
      BY <2>5 DEF Load, RejectBind, Check, Outcome, Binding
    <3> QED
      BY <3>1 DEF Validated
  <2> QED
    BY <1>2, <2>1, <2>2, <2>3, <2>4, <2>5 DEF Next
<1>3. Validated /\ [Next]_vars => Validated'
  BY <1>2
<1> QED
  BY <1>1, <1>3, PTL DEF Spec

-----------------------------------------------------------------------------
(* An enabled dependency which nothing forces is to a registered service,  *)
(* however many visits and registrations came after its binding            *)
(* (normalize.js:341-408).                                                 *)
THEOREM EnabledServices == Spec => []EnabledExist
<1>1. Switching => EnabledExist
  BY DEF Switching, EnabledExist, Settled
<1> QED
  BY <1>1, SwitchingInvariance, PTL

(* In a configuration which forces nothing, a dependency of a registered   *)
(* service which is handed over is to a registered service.                *)
LEMMA HandedOver ==
  ASSUME Inv, Switching, status = "done", Unforced,
         NEW s \in DOMAIN svc, NEW i \in DOMAIN svc[s].deps,
         svc[s].deps[i].disabled # TRUE
  PROVE  /\ svc[s].deps[i] \in Dep
         /\ Target(svc[s].deps[i]) \in DOMAIN svc
<1> DEFINE m == svc[s].module
<1>1. /\ s \in Service /\ svc[s].deps \in Seq(Dep)
      /\ WellFormed(input)
  BY DEF Inv, TypeOK
<1>2. svc[s].deps[i] \in Dep
  BY <1>1, LenProperties, ElementOfSeq
<1>3. svc[s].deps[i].disabled = FALSE
  BY <1>2 DEF Switching, Dep
<1>4. svc[s].deps # << >>
  BY <1>1, LenProperties, EmptySeq
<1>5. m \in DOMAIN input.modules /\ i \in DOMAIN input.modules[m]
  <2>1. m \in DOMAIN input.modules /\ Len(svc[s].deps) = Len(input.modules[m])
    BY <1>4 DEF Inv, OwnModule
  <2>2. input.modules[m] \in Seq(Dep)
    BY <1>1, <2>1 DEF WellFormed
  <2> QED
    BY <1>1, <2>1, <2>2, LenProperties
<1>6. ~Forced(s, i)
  BY <1>1, <1>5 DEF Unforced, Forced, Sources
<1> QED
  BY <1>2, <1>3, <1>6 DEF Switching

(* A node's list is handed over as services, each of them once. *)
LEMMA ListHandedOver ==
  ASSUME Inv, Validated, status = "done", Listed, NEW n \in Node
  PROVE  /\ Discovered.declared[n] \in Seq(DOMAIN svc)
         /\ IsInjective(Discovered.declared[n])
<1> DEFINE list == input.listed[n]
           out == [i \in DOMAIN list |-> <<list[i].cluster, list[i].service>>]
<1>1. list \in Seq(Entry)
  BY DEF Inv, TypeOK, WellFormed
<1>2. Len(list) \in Nat /\ DOMAIN list = 1..Len(list)
  BY <1>1, LenProperties
<1>3. \A i \in DOMAIN list : list[i] \in Entry
  BY <1>1, <1>2, ElementOfSeq
<1>4. \A i \in DOMAIN list : out[i] \in DOMAIN svc
  BY DEF Validated, Faults, Listed, IsRegistered
<1>5. Discovered.declared[n] = out
  BY DEF Discovered
<1>6. \A i, j \in DOMAIN list : out[i] = out[j] => i = j
  <2>1. \A i, j \in DOMAIN list : list[i] = list[j] => i = j
    BY DEF Listed, IsInjective
  <2>2. \A e, f \in Entry : e.cluster = f.cluster /\ e.service = f.service => e = f
    BY DEF Entry
  <2> HIDE DEF list
  <2> QED
    BY <1>3, <2>1, <2>2
<1> HIDE DEF list
<1>7. out \in Seq(DOMAIN svc)
  BY <1>2, <1>4
<1>8. IsInjective(out)
  BY <1>6 DEF IsInjective
<1> QED
  BY <1>5, <1>7, <1>8

(* What the discovery hands over is what the placement relies on, whatever *)
(* the modules, the clusters and the nodes declare                         *)
(* (normalize.js:341-467 against 469-745).                                 *)
THEOREM Handover == Spec => []ReadyToPlace
<1>1. ASSUME Inv, Switching, Validated PROVE ReadyToPlace
  <2> SUFFICES ASSUME status = "done", Unforced, Listed
               PROVE  Stage!WellFormed(Discovered)
    BY DEF ReadyToPlace
  <2>1. Stage!Service = Service
    BY DEF Stage!Service, Service
  <2>2. Discovered.services = DOMAIN svc
    BY DEF Discovered
  <2>3. DOMAIN svc \subseteq Service
    BY <1>1 DEF Inv, TypeOK
  <2>4. IsFiniteSet(DOMAIN svc)
    BY <2>3, FiniteAssumption, FS_Product, FS_Subset DEF Service
  <2>5. ASSUME NEW d \in Discovered.deps
        PROVE  /\ d \in Stage!Dependency
               /\ {d.from, d.to} \subseteq DOMAIN svc
    <3>1. PICK s \in DOMAIN svc : \E i \in DOMAIN svc[s].deps :
            /\ svc[s].deps[i].disabled # TRUE
            /\ d = [from |-> s, to |-> Target(svc[s].deps[i]),
                    auto |-> svc[s].deps[i].auto = TRUE, local |-> FALSE,
                    required |-> svc[s].deps[i].required = TRUE, single |-> FALSE]
      BY <2>5 DEF Discovered
    <3> PICK i \in DOMAIN svc[s].deps :
            /\ svc[s].deps[i].disabled # TRUE
            /\ d = [from |-> s, to |-> Target(svc[s].deps[i]),
                    auto |-> svc[s].deps[i].auto = TRUE, local |-> FALSE,
                    required |-> svc[s].deps[i].required = TRUE, single |-> FALSE]
      BY <3>1
    <3>2. /\ svc[s].deps[i] \in Dep
          /\ Target(svc[s].deps[i]) \in DOMAIN svc
      BY <1>1, <3>1, HandedOver
    <3>3. (svc[s].deps[i].auto = TRUE) \in BOOLEAN /\ (svc[s].deps[i].required = TRUE) \in BOOLEAN
      BY <3>2 DEF Dep
    <3> QED
      BY <2>1, <2>3, <3>1, <3>2, <3>3 DEF Stage!Dependency
  <2>6. Discovered.affinity \in [Service -> SUBSET SUBSET Node]
    BY DEF Discovered
  <2>7. Discovered.declared \in [Node -> Seq(DOMAIN svc)]
    <3>1. \A n \in Node : Discovered.declared[n] \in Seq(DOMAIN svc)
      BY <1>1, ListHandedOver
    <3>2. Discovered.declared = [n \in Node |-> Discovered.declared[n]]
      BY DEF Discovered
    <3> QED
      BY <3>1, <3>2
  <2>8. \A n \in Node : IsInjective(Discovered.declared[n])
    BY <1>1, ListHandedOver
  <2>9. \A n \in Node : Stage!IsInjective(Discovered.declared[n])
    BY <2>8 DEF IsInjective, Stage!IsInjective
  <2>10. Stage!IsFiniteSet(DOMAIN svc)
    BY <2>4 DEF IsFiniteSet, Stage!IsFiniteSet
  <2> QED
    BY <2>1, <2>2, <2>3, <2>5, <2>6, <2>7, <2>9, <2>10 DEF Stage!WellFormed
<1>2. Inv /\ Switching /\ Validated => ReadyToPlace
  BY <1>1
<1> QED
  BY <1>2, Invariance, SwitchingInvariance, ValidatedInvariance, PTL
=============================================================================
