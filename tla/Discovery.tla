------------------------------ MODULE Discovery ------------------------------
(***************************************************************************)
(* The first half of the normalisation of a masson configuration           *)
(* (legacy/masson/lib/config/normalize.js:123-262 and 341-467).  The       *)
(* services the clusters declare are visited one after the other: the      *)
(* module of a service is loaded, its dependencies are bound to services,  *)
(* and a dependency marked as auto which no service satisfies registers    *)
(* one, which is visited at once by a recursive call.  A last pass enables *)
(* or disables the dependencies, or rejects the configuration; then the    *)
(* services which the nodes declare are validated.                         *)
(*                                                                         *)
(* An element of stack is a call of discover_service: its local variables  *)
(* did and dcluster are those of the function, and outlive an iteration of *)
(* its loop.  Every await is inside this one sequence of calls.            *)
(***************************************************************************)
EXTENDS Naturals, Sequences, FiniteSets, SequencesExt, TLC

CONSTANTS
  Cluster,  \* cluster ids
  Name,     \* service ids and modules: a service defaults to its id's module
  Node,     \* nodes
  None,     \* an option which is not set
  Inputs    \* configurations to normalise

VARIABLES
  input,    \* the configuration and the modules it can load
  at,       \* position in input.clusters of the outer loop
  queue,    \* services of that cluster the loop has not visited yet
  order,    \* cluster -> its service ids, as they were registered
  svc,      \* registered services: key -> its module and dependencies
  stack,    \* calls of discover_service
  status    \* what normalize.js is doing, or how it ended

vars == <<input, at, queue, order, svc, stack, status>>

Service == Cluster \X Name

(***************************************************************************)
(* A dependency.  An option service written "c:s" gives a prefix c and a   *)
(* service s.  A dependency written as a string, the module, is text, and  *)
(* gives nothing else.                                                     *)
(***************************************************************************)
Dep == [module: Name \union {None}, service: Name \union {None},
        prefix: Cluster \union {None}, cluster: Cluster \union {None},
        auto: BOOLEAN \union {None}, required: BOOLEAN \union {None},
        disabled: BOOLEAN \union {None}, text: BOOLEAN]

\* A service in the list of a node.
Entry == [cluster: Cluster \union {None}, service: Name \union {None}]

Frame == [key: Service, next: Nat, did: Name \union {None},
          dcluster: Cluster \union {None}]

\* The modules which dependencies give.
Modules(in) ==
  (UNION {{in.modules[m][i].module : i \in DOMAIN in.modules[m]} :
            m \in DOMAIN in.modules})
    \union (UNION {{in.given[s][i].module : i \in DOMAIN in.given[s]} :
                     s \in Service})

(***************************************************************************)
(* clusters are the declared ones and declared their services, the keys of *)
(* objects in their order; those of the clusters in empty are objects      *)
(* without a key, those of the others without a service are not there.     *)
(* given are the options a service of the configuration adds to   *)
(* the dependencies of its module: none at all, or some for each           *)
(* dependency.  listed are the services the nodes declare.                 *)
(* A service whose id is the module of a dependency is of that module.     *)
(***************************************************************************)
WellFormed(in) ==
  /\ in.clusters \in Seq(Cluster)
  /\ in.declared \in [Cluster -> Seq(Name)]
  /\ \A c \in Cluster : in.declared[c] # << >> => Contains(in.clusters, c)
  /\ in.empty \subseteq Cluster
  /\ IsInjective(in.clusters) /\ \A c \in Cluster : IsInjective(in.declared[c])
  /\ in.module \in [Service -> Name]
  /\ DOMAIN in.modules \subseteq Name
  /\ \A m \in DOMAIN in.modules :
       /\ in.modules[m] \in Seq(Dep)
       /\ \A i \in DOMAIN in.modules[m] :
            in.modules[m][i].text => in.modules[m][i].auto # TRUE
  /\ in.given \in [Service -> Seq(Dep)]
  /\ \A s \in Service : in.given[s] # << >> =>
       /\ in.module[s] \in DOMAIN in.modules
       /\ Len(in.given[s]) = Len(in.modules[in.module[s]])
  /\ in.listed \in [Node -> Seq(Entry)]
  /\ \A m \in Modules(in) \ {None} : \A c \in Cluster : in.module[<<c, m>>] = m

ASSUME NoneAssumption == None \notin Name /\ None \notin Cluster /\ None \notin BOOLEAN
ASSUME FiniteAssumption == IsFiniteSet(Cluster) /\ IsFiniteSet(Name)
ASSUME InputsAssumption == \A in \in Inputs : WellFormed(in)

Declared(in) ==
  {s \in Service : Contains(in.declared[s[1]], s[2])}

Init ==
  /\ input \in Inputs
  /\ at = 0
  /\ queue = << >>
  /\ order = input.declared
  /\ svc = [s \in Declared(input) |->
              [module |-> input.module[s], deps |-> input.given[s]]]
  /\ stack = << >>
  /\ status = "discover"

-----------------------------------------------------------------------------
Top == stack[Len(stack)]
Rest == SubSeq(stack, 1, Len(stack) - 1)

Call(key) == [key |-> key, next |-> 0, did |-> None, dcluster |-> None]

\* The cluster of the outer loop, which the recursive calls see too.
OuterCluster == input.clusters[at]

\* The services object exists: it is created when the loop gets there.
HasServices(c) ==
  \E i \in DOMAIN input.clusters :
    /\ input.clusters[i] = c
    /\ input.declared[c] # << >> \/ c \in input.empty \/ i <= at

NextCluster ==
  /\ status = "discover"
  /\ stack = << >>
  /\ queue = << >>
  /\ at < Len(input.clusters)
  /\ at' = at + 1
  /\ queue' = order[input.clusters[at + 1]]
  /\ UNCHANGED <<input, order, svc, stack, status>>

Visit ==
  /\ status = "discover"
  /\ stack = << >>
  /\ queue # << >>
  /\ stack' = <<Call(<<OuterCluster, Head(queue)>>)>>
  /\ queue' = Tail(queue)
  /\ UNCHANGED <<input, at, order, svc, status>>

(***************************************************************************)
(* The definition of the module is merged into the service.  The options   *)
(* which the configuration or a former visit set are kept where the        *)
(* definition has none, unless one of the two is text.                     *)
(***************************************************************************)
Option(old, new) == IF new = None THEN old ELSE new

Merged(old, new) ==
  IF new.text \/ old.text THEN new
  ELSE [module |-> Option(old.module, new.module),
        service |-> Option(old.service, new.service),
        prefix |-> IF new.service = None THEN old.prefix ELSE new.prefix,
        cluster |-> Option(old.cluster, new.cluster),
        auto |-> Option(old.auto, new.auto),
        required |-> Option(old.required, new.required),
        disabled |-> Option(old.disabled, new.disabled),
        text |-> FALSE]

\* Mutant: the definition replaces what a former visit bound.
Replaced(old, new) == new

MergeDeps(old, new) ==
  IF old = << >> THEN new
  ELSE [i \in DOMAIN new |-> Merged(old[i], new[i])]

Load ==
  /\ status = "discover"
  /\ stack # << >>
  /\ Top.next = 0
  /\ LET module == svc[Top.key].module IN
       IF module \in DOMAIN input.modules
       THEN /\ svc' = [svc EXCEPT ![Top.key].deps =
                         MergeDeps(@, input.modules[module])]
            /\ stack' = Append(Rest, [Top EXCEPT !.next = 1])
            /\ UNCHANGED status
       ELSE status' = "notfound" /\ UNCHANGED <<svc, stack>>
  /\ UNCHANGED <<input, at, queue, order>>

(***************************************************************************)
(* The binding of one dependency d in the frame f.                         *)
(***************************************************************************)
\* Mutant: "c:s" split without the reverse.
DidUnreversed(f, d) ==
  IF d.service = None THEN f.did
  ELSE IF d.prefix = None THEN d.service
  ELSE d.prefix

Did(f, d) == IF d.service # None THEN d.service ELSE f.did

Dcluster(f, d) == IF d.service # None THEN d.prefix ELSE f.dcluster

ClusterOf(f, d) ==
  IF d.cluster # None THEN d.cluster
  ELSE IF Dcluster(f, d) # None THEN Dcluster(f, d)
  ELSE OuterCluster

\* Mutant: a service is no match for its own dependencies.
OtherMatches(c, m) ==
  {s \in DOMAIN svc : s[1] = c /\ svc[s].module = m /\ s # Top.key}

\* Mutant: the id compared instead of the module.
IdMatches(c, m) == {s \in DOMAIN svc : s[1] = c /\ s[2] = m}

\* Services of a cluster with a module.
Matches(c, m) == {s \in DOMAIN svc : s[1] = c /\ svc[s].module = m}

\* The service a dependency names, or else the one with its module.
ServiceOf(f, d) ==
  IF Did(f, d) # None THEN Did(f, d)
  ELSE LET found == Matches(ClusterOf(f, d), d.module) IN
       IF Cardinality(found) = 1 THEN (CHOOSE s \in found : TRUE)[2]
       ELSE None

WantsAuto(d) == d.auto = TRUE /\ d.disabled # TRUE

\* Why the binding of a dependency throws, or "discover".
Outcome(f, d) ==
  IF Did(f, d) = None /\ d.module = None THEN "unidentified"
  ELSE IF \/ Did(f, d) = None
             /\ ~Contains(input.clusters, ClusterOf(f, d))
          \/ WantsAuto(d) /\ ~HasServices(ClusterOf(f, d))
  THEN "crash"
  ELSE IF Did(f, d) = None /\ Cardinality(Matches(ClusterOf(f, d), d.module)) > 1
  THEN "multiple"
  ELSE IF WantsAuto(d) /\ Did(f, d) # None
          /\ <<ClusterOf(f, d), Did(f, d)>> \notin DOMAIN svc
  THEN "notsure"
  ELSE "discover"

\* The dependency bound next.
Binding ==
  /\ status = "discover"
  /\ stack # << >>
  /\ Top.next \in DOMAIN svc[Top.key].deps

Current == svc[Top.key].deps[Top.next]

RejectBind ==
  /\ Binding
  /\ Outcome(Top, Current) # "discover"
  /\ status' = Outcome(Top, Current)
  /\ UNCHANGED <<input, at, queue, order, svc, stack>>

\* Mutant: the id which was found is assigned to did.
AdvancedFound(f, d) ==
  [f EXCEPT !.next = @ + 1, !.did = ServiceOf(f, d), !.dcluster = Dcluster(f, d)]

\* Mutant: the loop does not advance.
Repeated(f, d) == [f EXCEPT !.did = Did(f, d), !.dcluster = Dcluster(f, d)]

\* The frame after an iteration of the loop over the dependencies.
Advanced(f, d) ==
  [key |-> f.key, next |-> f.next + 1,
   did |-> Did(f, d), dcluster |-> Dcluster(f, d)]

Bound(service) ==
  [svc EXCEPT ![Top.key].deps[Top.next] =
     [@ EXCEPT !.cluster = ClusterOf(Top, Current), !.service = service,
               !.prefix = None]]

\* Nothing to register: the dependency is not auto, or is satisfied.
Bind ==
  /\ Binding
  /\ Outcome(Top, Current) = "discover"
  /\ ~WantsAuto(Current) \/ ServiceOf(Top, Current) # None
  /\ svc' = Bound(ServiceOf(Top, Current))
  /\ stack' = Append(Rest, Advanced(Top, Current))
  /\ UNCHANGED <<input, at, queue, order, status>>

\* A service of the module of the dependency, which is bound to it.
Registered(new) ==
  [s \in DOMAIN svc \union {new} |->
     IF s = new THEN [module |-> Current.module, deps |-> << >>]
                ELSE Bound(Current.module)[s]]

\* Mutant: no recursive call for the service which is registered.
RegisterOnly ==
  /\ Binding
  /\ Outcome(Top, Current) = "discover"
  /\ WantsAuto(Current)
  /\ ServiceOf(Top, Current) = None
  /\ LET new == <<ClusterOf(Top, Current), Current.module>> IN
       /\ svc' = Registered(new)
       /\ stack' = Append(Rest, Advanced(Top, Current))
       /\ order' = [order EXCEPT ![new[1]] = Append(@, new[2])]
  /\ UNCHANGED <<input, at, queue, status>>

\* The service which satisfies an auto dependency is registered and visited.
RegisterAuto ==
  /\ Binding
  /\ Outcome(Top, Current) = "discover"
  /\ WantsAuto(Current)
  /\ ServiceOf(Top, Current) = None
  /\ LET new == <<ClusterOf(Top, Current), Current.module>> IN
       /\ svc' = Registered(new)
       /\ stack' = Append(Append(Rest, Advanced(Top, Current)), Call(new))
       /\ order' = [order EXCEPT ![new[1]] = Append(@, new[2])]
  /\ UNCHANGED <<input, at, queue, status>>

Leave ==
  /\ status = "discover"
  /\ stack # << >>
  /\ Top.next > Len(svc[Top.key].deps)
  /\ stack' = Rest
  /\ UNCHANGED <<input, at, queue, order, svc, status>>

-----------------------------------------------------------------------------
(***************************************************************************)
(* Dependencies: every one is enabled, disabled, or rejects.               *)
(***************************************************************************)
Target(d) == <<d.cluster, d.service>>

Unsatisfied(d) == d.required = TRUE /\ Target(d) \notin DOMAIN svc

\* Mutant: enabled by default.
SwitchedOn(d) ==
  [d EXCEPT !.disabled = IF @ # None THEN @ ELSE FALSE]

Switched(d) ==
  [d EXCEPT !.disabled =
     IF ~Contains(input.clusters, d.cluster) THEN TRUE
     ELSE IF @ # None THEN @
     ELSE Target(d) \notin DOMAIN svc]

Check ==
  /\ status = "discover"
  /\ stack = << >>
  /\ queue = << >>
  /\ at = Len(input.clusters)
  /\ IF \E s \in DOMAIN svc : \E i \in DOMAIN svc[s].deps :
          Unsatisfied(svc[s].deps[i])
     THEN status' = "unsatisfied" /\ UNCHANGED svc
     ELSE /\ svc' = [s \in DOMAIN svc |->
                       [svc[s] EXCEPT !.deps =
                          [i \in DOMAIN @ |-> Switched(@[i])]]]
          /\ status' = "nodes"
  /\ UNCHANGED <<input, at, queue, order, stack>>

(***************************************************************************)
(* Normalize nodes: the services they declare are looked up.  An entry     *)
(* without a service, which a key "s" instead of "c:s" gives, is not.      *)
(***************************************************************************)
\* Mutant: the service may be in any cluster.
RegisteredAnywhere(e) == \E s \in DOMAIN svc : s[2] = e.service

IsRegistered(e) == <<e.cluster, e.service>> \in DOMAIN svc

\* Entries which reject the configuration, or make the lookup throw.
Faults(n) ==
  {i \in DOMAIN input.listed[n] :
     /\ input.listed[n][i].service # None
     /\ \/ ~Contains(input.clusters, input.listed[n][i].cluster)
        \/ ~IsRegistered(input.listed[n][i])}

AcceptNodes ==
  /\ status = "nodes"
  /\ \A n \in Node : Faults(n) = {}
  /\ status' = "done"
  /\ UNCHANGED <<input, at, queue, order, svc, stack>>

\* The first fault of a node which has one.
RejectNode ==
  /\ status = "nodes"
  /\ \E n \in Node : \E i \in Faults(n) :
       /\ \A j \in Faults(n) : i <= j
       /\ status' = IF Contains(input.clusters, input.listed[n][i].cluster)
                    THEN "missing" ELSE "nocluster"
  /\ UNCHANGED <<input, at, queue, order, svc, stack>>

Next ==
  \/ NextCluster
  \/ Visit
  \/ Load
  \/ RejectBind
  \/ Bind
  \/ RegisterAuto
  \/ Leave
  \/ Check
  \/ AcceptNodes
  \/ RejectNode

Spec == Init /\ [][Next]_vars

\* normalize.js never waits on anything but the loading of a module.
FairSpec == Spec /\ WF_vars(Next)

-----------------------------------------------------------------------------
Rejected ==
  {"notfound", "unidentified", "crash", "multiple", "notsure", "unsatisfied",
   "missing", "nocluster"}

(* Every variable of the discovery has its type. *)
TypeOK ==
  /\ WellFormed(input)
  /\ at \in 0..Len(input.clusters)
  /\ queue \in Seq(Name)
  /\ order \in [Cluster -> Seq(Name)]
  /\ DOMAIN svc \subseteq Service
  /\ \A s \in DOMAIN svc : svc[s] \in [module: Name, deps: Seq(Dep)]
  /\ stack \in Seq(Frame)
  /\ status \in {"discover", "nodes", "done"} \union Rejected

(* No service is visited while a visit of it is under way, although the    *)
(* modules may depend on each other in a cycle of auto dependencies: the   *)
(* service a recursive call visits is registered before the call           *)
(* (normalize.js:228-234).                                                 *)
NoReentry == IsInjective([i \in DOMAIN stack |-> stack[i].key])

(* Auto dependencies give a cluster at most one service of a module, and   *)
(* none of a module the cluster declares (normalize.js:188-221).           *)
AutoOnce ==
  [][\A s \in DOMAIN svc' : s \notin DOMAIN svc
       => \A t \in DOMAIN svc : t[1] = s[1] => svc[t].module # svc'[s].module]_vars

\* The normalisation has succeeded and dep i of the service s is bound.
Settled(s, i) ==
  status = "done" /\ s \in DOMAIN svc /\ i \in DOMAIN svc[s].deps

\* The options the configuration and the module give to a dependency.
Sources(s, i) ==
  {input.modules[svc[s].module][i]}
    \union (IF s \in Declared(input) /\ i \in DOMAIN input.given[s]
            THEN {input.given[s][i]} ELSE {})

(* Every service has the dependencies of its module in the end, all of     *)
(* them bound to a cluster, also when it was registered while the loop     *)
(* over its cluster was under way, which then never visits it              *)
(* (normalize.js:228-262).                                                 *)
AllLoaded ==
  status = "done" =>
    \A s \in DOMAIN svc :
      /\ svc[s].module \in DOMAIN input.modules
      /\ Len(svc[s].deps) = Len(input.modules[svc[s].module])
      /\ \A i \in DOMAIN svc[s].deps : svc[s].deps[i].cluster # None

Forced(s, i) == \E d \in Sources(s, i) : d.disabled = FALSE

(* A dependency which is handed over as enabled, without the configuration *)
(* or the module forcing it, is to a registered service: the rest of       *)
(* normalize.js reads that service unguarded (normalize.js:470-740).       *)
EnabledExist ==
  \A s \in DOMAIN svc : \A i \in DOMAIN svc[s].deps :
    Settled(s, i) /\ svc[s].deps[i].disabled = FALSE /\ ~Forced(s, i)
    => Target(svc[s].deps[i]) \in DOMAIN svc

\* The dependency i of a service comes after none which names a service.
Unnamed(s, i) == \A j \in 1..i : \A d \in Sources(s, j) : d.service = None

(* A dependency of a declared service which gives a module and no service  *)
(* is bound to a service of that module, provided no dependency before it  *)
(* names a service: the visits which came later did not spoil the binding  *)
(* (normalize.js:187-235).  A service which was registered may be visited  *)
(* twice, and then the bound dependencies name a service.                  *)
BoundByModule ==
  \A s \in DOMAIN svc \intersect Declared(input) : \A i \in DOMAIN svc[s].deps :
    Settled(s, i) /\ Unnamed(s, i)
                  /\ Target(svc[s].deps[i]) \in DOMAIN svc
    => svc[Target(svc[s].deps[i])].module = svc[s].deps[i].module

(* A service nobody declared is wanted by an auto dependency, still bound  *)
(* to it in the end: a second visit of the dependent keeps the binding     *)
(* (normalize.js:160, 174-180).                                            *)
AutoWanted ==
  status = "done" =>
    \A t \in DOMAIN svc \ Declared(input) :
      \E s \in DOMAIN svc : \E i \in DOMAIN svc[s].deps :
        WantsAuto(svc[s].deps[i]) /\ Target(svc[s].deps[i]) = t

(* The discovery ends, whatever the dependencies of the modules. *)
Settles == <>(status \in Rejected \union {"done"})

\* How much of the normalisation is left.
Phase == CASE status = "discover" -> 2 [] status = "nodes" -> 1 [] OTHER -> 0

Unregistered == Cardinality(Service \ DOMAIN svc)

\* What a call whose module has n dependencies has left to load and to bind.
LeftOf(call, n) == IF call.next <= n THEN n + 1 - call.next ELSE 0

Size(module) ==
  IF module \in DOMAIN input.modules THEN Len(input.modules[module]) ELSE 0

LeftOnTop == IF stack = << >> THEN 0 ELSE LeftOf(Top, Size(svc[Top.key].module))

\* A number is preceded by those which are smaller after a step which makes
\* it larger: a visit, for instance, takes a service from the queue.
ToDo ==
  <<Phase, Unregistered, Len(input.clusters) - at, Len(queue), Len(stack), LeftOnTop>>

\* The first number which differs is smaller.
Fewer(a, b) ==
  \E i \in DOMAIN b : a[i] < b[i] /\ \A j \in 1..(i - 1) : a[j] = b[j]

(* Every step brings the discovery nearer to its end, even when a second   *)
(* visit binds again what was bound, or auto dependencies in a cycle make  *)
(* a visit register and visit further services (normalize.js:143-262).     *)
Shrinks == [][ToDo' \in [1..6 -> Nat] /\ Fewer(ToDo', ToDo)]_vars

\* What the placement receives.  The options local and single, and the
\* affinities, come along unchanged.
Stage == INSTANCE PlacementInput

Discovered ==
  [services |-> DOMAIN svc,
   deps |-> UNION {{[from |-> s, to |-> Target(svc[s].deps[i]),
                     auto |-> svc[s].deps[i].auto = TRUE, local |-> FALSE,
                     required |-> svc[s].deps[i].required = TRUE, single |-> FALSE] :
                      i \in {j \in DOMAIN svc[s].deps :
                               svc[s].deps[j].disabled # TRUE}} :
                     s \in DOMAIN svc},
   affinity |-> [s \in Service |-> {}],
   declared |-> [n \in Node |->
     [i \in DOMAIN input.listed[n] |->
       <<input.listed[n][i].cluster, input.listed[n][i].service>>]]]

\* No dependency is marked as not disabled, and the lists of the nodes come
\* from objects whose keys have a cluster and a service.
Unforced ==
  /\ \A m \in DOMAIN input.modules : \A i \in DOMAIN input.modules[m] :
       input.modules[m][i].disabled # FALSE
  /\ \A s \in Service : \A i \in DOMAIN input.given[s] :
       input.given[s][i].disabled # FALSE

Listed ==
  \A n \in Node :
    /\ IsInjective(input.listed[n])
    /\ \A i \in DOMAIN input.listed[n] : input.listed[n][i].service # None

(* A configuration which is accepted is handed over in the form which the  *)
(* placement relies on: the services at both ends of every enabled         *)
(* dependency, and those the nodes declare, are registered                 *)
(* (normalize.js:341-467 against 469-745).                                 *)
ReadyToPlace ==
  status = "done" /\ Unforced /\ Listed => Stage!WellFormed(Discovered)

-----------------------------------------------------------------------------
\* Strengthenings which make the invariants above inductive.

Given == Modules(input)

\* What is listed or visited is registered.
Known ==
  /\ stack # << >> \/ queue # << >> => at > 0
  /\ \A c \in Cluster : \A i \in DOMAIN order[c] :
       <<c, order[c][i]>> \in DOMAIN svc
  /\ \A i \in DOMAIN queue : <<OuterCluster, queue[i]>> \in DOMAIN svc
  /\ \A i \in DOMAIN stack : stack[i].key \in DOMAIN svc

\* A service with the id of a given module is of that module, and the
\* dependencies of a service are those of its module.
OwnModule ==
  \A s \in DOMAIN svc :
    /\ s[2] \in Given => svc[s].module = s[2]
    /\ \A i \in DOMAIN svc[s].deps : svc[s].deps[i].module \in Given
    /\ svc[s].deps # << >> =>
         /\ svc[s].module \in DOMAIN input.modules
         /\ Len(svc[s].deps) = Len(input.modules[svc[s].module])

\* A service of the queue, or of a cluster the outer loop has not reached.
Awaiting(s) ==
  \/ \E i \in DOMAIN queue : s = <<OuterCluster, queue[i]>>
  \/ \E j \in DOMAIN input.clusters :
       /\ j > at /\ input.clusters[j] = s[1]
       /\ \E i \in DOMAIN order[s[1]] : order[s[1]][i] = s[2]

\* A service has the dependencies of its module, the first n of them bound.
Loaded(service, modules, n) ==
  /\ service.module \in DOMAIN modules
  /\ Len(service.deps) = Len(modules[service.module])
  /\ \A i \in DOMAIN service.deps : i <= n => service.deps[i].cluster # None

\* A call which has loaded its module has bound the dependencies before the
\* next one.
CallsLoaded ==
  \A k \in DOMAIN stack :
    stack[k].next > 0 => Loaded(svc[stack[k].key], input.modules, stack[k].next - 1)

\* A service which is neither being visited nor to be visited is loaded.
AllVisited ==
  \A s \in DOMAIN svc :
    \/ \E k \in DOMAIN stack : stack[k].key = s
    \/ Awaiting(s)
    \/ Loaded(svc[s], input.modules, Len(svc[s].deps))

\* The dependencies are checked once there is nothing left to visit.
NothingLeft ==
  status \in {"nodes", "done"} =>
    stack = << >> /\ queue = << >> /\ at = Len(input.clusters)

\* An object has a key once, and no service is registered twice.
NoDuplicates ==
  /\ IsInjective(queue)
  /\ \A c \in Cluster : IsInjective(order[c])

\* A dependency is bound to a service of its module, or to none.
Selected(services, d) ==
  \/ d.service = None
  \/ Target(d) \in DOMAIN services /\ services[Target(d)].module = d.module

\* The dependency i of the declared service s comes after none which names a
\* service, and names none.
NoneNamed(in, s, i) ==
  \A j \in 1..i :
    /\ in.modules[in.module[s]][j].service = None
    /\ j \in DOMAIN in.given[s] => in.given[s][j].service = None

\* What BoundByModule says, at every moment of the discovery.
DeclaredSelected ==
  \A s \in Declared(input) :
    /\ s \in DOMAIN svc /\ svc[s].module = input.module[s]
    /\ \A i \in DOMAIN svc[s].deps :
         NoneNamed(input, s, i) => Selected(svc, svc[s].deps[i])

\* The service a call remembers comes from a dependency which names it, and
\* what the call has not reached yet is not bound.
CallUnnamed(f, in, deps) ==
  /\ NoneNamed(in, f.key, f.next - 1) => f.did = None
  /\ \A i \in DOMAIN deps :
       i >= f.next /\ NoneNamed(in, f.key, i) => deps[i].service = None

CallsUnnamed ==
  \A k \in DOMAIN stack :
    stack[k].key \in Declared(input)
    => CallUnnamed(stack[k], input, svc[stack[k].key].deps)

\* A declared service which is to be visited has not been visited.
VisitedOnce ==
  \A s \in Declared(input) : Awaiting(s) =>
    /\ \A k \in DOMAIN stack : stack[k].key # s
    /\ svc[s].deps = input.given[s]

\* What a module defines for a dependency is kept in it.
Fits(d, new) ==
  /\ new.service = None \/ d.service # None
  /\ new.cluster = None \/ d.cluster = new.cluster
  /\ new.disabled = None \/ d.disabled = new.disabled
  /\ new.auto = None \/ d.auto = new.auto
  /\ d.auto = TRUE => ~d.text /\ ~new.text

CallsFit ==
  \A k \in DOMAIN stack :
    LET service == svc[stack[k].key] IN
      stack[k].next > 0 =>
        \A i \in DOMAIN service.deps :
          Fits(service.deps[i], input.modules[service.module][i])

\* A dependency wants the service t, and will when its module, which defines
\* it as new, is merged into it again.
Wants(t, d, new, clusters) ==
  /\ WantsAuto(d) /\ Target(d) = t /\ Contains(clusters, t[1])
  /\ ~d.text /\ ~new.text
  /\ new.service = None /\ new.cluster \in {None, t[1]}
  /\ new.auto # FALSE /\ new.disabled # TRUE

AllWanted ==
  \A t \in DOMAIN svc \ Declared(input) :
    \E s \in DOMAIN svc : \E i \in DOMAIN svc[s].deps :
      Wants(t, svc[s].deps[i], input.modules[svc[s].module][i], input.clusters)

\* Before the last pass, a dependency which is not disabled is forced; after
\* it, one which is not forced is to a registered service.
Switching ==
  \A s \in DOMAIN svc : \A i \in DOMAIN svc[s].deps :
    /\ svc[s].deps[i].disabled = FALSE /\ ~Forced(s, i) =>
         /\ status \in {"nodes", "done", "missing", "nocluster"}
         /\ Target(svc[s].deps[i]) \in DOMAIN svc
    /\ status \in {"nodes", "done"} => svc[s].deps[i].disabled # None

\* Nodes which were accepted declare registered services.
Validated == status = "done" => \A n \in Node : Faults(n) = {}

(* A dependency which gives a module and no service is bound to a service  *)
(* of that module.                                                         *)
ModuleSelects ==
  \A s \in DOMAIN svc : \A i \in DOMAIN svc[s].deps :
    Settled(s, i) /\ (\A d \in Sources(s, i) : d.service = None)
                  /\ Target(svc[s].deps[i]) \in DOMAIN svc
    => svc[Target(svc[s].deps[i])].module = svc[s].deps[i].module

(* A required dependency on a module is rejected as "not defined" only if  *)
(* its cluster has no service of that module.                              *)
RejectedIfUndefined ==
  status = "unsatisfied" =>
    \E s \in DOMAIN svc : \E i \in DOMAIN svc[s].deps :
      LET d == svc[s].deps[i] IN
        /\ Unsatisfied(d)
        /\ d.service = None => Matches(d.cluster, d.module) = {}

(* A dependency whose cluster is not found is disabled or rejected, as the *)
(* comment at normalize.js:354 says; nothing throws before that check.     *)
MissingClusterHandled ==
  status = "crash" => Contains(input.clusters, ClusterOf(Top, Current))
=============================================================================
