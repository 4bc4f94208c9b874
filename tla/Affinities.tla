----------------------------- MODULE Affinities -----------------------------
(***************************************************************************)
(* The affinities of one service, from the configuration to its instances: *)
(* the handlers of legacy/masson/lib/config/affinities.js, in the order in *)
(* which legacy/masson/lib/config/normalize.js calls them.  Every affinity *)
(* is normalised, or the configuration rejected; the dependents of the     *)
(* service hand over their nodes as affinities more; then the affinities   *)
(* are resolved to the ids of the nodes they match.                        *)
(*                                                                         *)
(* The order of the nodes and of the values plays no role, except in a     *)
(* generic affinity, where an earlier value may keep the code from         *)
(* reading a later one.                                                    *)
(***************************************************************************)
EXTENDS Naturals, Sequences, FiniteSets, SequencesExt

CONSTANTS
  Node,       \* the keys of config.nodes
  Id,         \* ids and fqdns, also of nodes which do not exist
  Tag,        \* names of tags
  Word,       \* values of tags
  None,       \* an option which is not given
  Undefined,  \* no value, where the code expects one
  Crash,      \* a TypeError
  Depth,      \* how deep an affinity nests others, for every affinity
  Inputs      \* configurations to normalise

VARIABLES
  node,        \* config.nodes
  affinities,  \* service.affinity
  dependents,  \* nodes of the dependents which are still to be placed
  handed,      \* history: the nodes handed over
  status,      \* what normalize.js is doing
  index,       \* the affinity being normalised
  instances    \* service.instances

vars == <<node, affinities, dependents, handed, status, index, instances>>

-----------------------------------------------------------------------------
(***************************************************************************)
(* An affinity has a type and an option match.  Its shape tells how its    *)
(* values are written in the configuration: "missing", "malformed"         *)
(* (neither of the accepted types), "string", "list" or "object".  names,  *)
(* tags and values are the keys of the object which handlers[].normalize   *)
(* makes of a string or a list, and which is what the rest of the code     *)
(* reads; parts are the affinities in a generic one.                       *)
(***************************************************************************)
Affinity == DOMAIN Depth

Nests(a) == a.type \in {None, "generic"}

\* Only the type of an affinity of the service has a default.
Typed(a) == IF a.type = None THEN [a EXCEPT !.type = "generic"] ELSE a

\* Mutant: without "match", as the default would do.
Unmatched(ids) ==
  [type |-> "nodes", shape |-> "object", names |-> ids, match |-> None]

\* What a dependent which is placed gives to the service.
Given(ids) ==
  [type |-> "nodes", shape |-> "object", names |-> ids, match |-> "any"]

ASSUME AffinityAssumption ==
  /\ Depth \in [Affinity -> Nat]
  /\ \A a \in Affinity :
       /\ {"type", "shape", "match"} \subseteq DOMAIN a
       /\ Typed(a) \in Affinity
       /\ Nests(a) => /\ "parts" \in DOMAIN a
                      /\ a.parts \in Seq(Affinity)
                      /\ \A i \in DOMAIN a.parts : Depth[a.parts[i]] < Depth[a]
       /\ a.type = "nodes" => /\ "names" \in DOMAIN a
                              /\ a.names \subseteq Id
                              /\ IsFiniteSet(a.names)
       /\ a.type = "tags" =>
            /\ "tags" \in DOMAIN a
            /\ IsFiniteSet(a.tags)
            /\ \A e \in a.tags : /\ {"tag", "values", "match"} \subseteq DOMAIN e
                                 /\ e.tag \in Tag
                                 /\ e.values \subseteq Word
                                 /\ IsFiniteSet(e.values)
  /\ \A ids \in SUBSET Node : Given(ids) \in Affinity

\* No value is a set of ids or of words, nor is a TypeError; no mode is None.
ASSUME SentinelAssumption ==
  /\ None \notin {"all", "any", "none"}
  /\ Crash # Undefined
  /\ \A S \in SUBSET Id : S # Crash /\ S # Undefined
  /\ \A S \in SUBSET Word : S # Undefined

WellFormed(in) ==
  /\ in.node \in [Node -> [id : Id, fqdn : Id,
                           tags : [Tag -> {Undefined} \union SUBSET Word]]]
  /\ in.affinities \in Seq(Affinity)
  /\ in.dependents \in Seq(SUBSET Node)

ASSUME InputsAssumption == \A in \in Inputs : WellFormed(in)

Init ==
  \E in \in Inputs :
    /\ node = in.node
    /\ affinities = in.affinities
    /\ dependents = in.dependents
    /\ handed = {}
    /\ status = "normalize"
    /\ index = 1
    /\ instances = {}

-----------------------------------------------------------------------------
(***************************************************************************)
(* handlers[type].normalize: which affinities are accepted.                *)
(***************************************************************************)
Written(shape) == shape \notin {"missing", "malformed"}

\* Mutant: "match" is required with more than two values only.
TwoNeedNoMatch(names, match) == Cardinality(names) > 2 => match # None

Determined(names, match) == Cardinality(names) > 1 => match # None

AcceptedTag(e) == Written(e.shape) /\ Determined(e.values, e.match)

AcceptedTags(a) ==
  /\ a.shape = "object"
  /\ \A e \in a.tags : AcceptedTag(e)
  /\ Determined(a.tags, a.match)

AcceptedNodes(a) == Written(a.shape) /\ Determined(a.names, a.match)

\* Whether an affinity is accepted, when r tells which of its parts are.
Accepts(a, r) ==
  \/ a.type = "tags" /\ AcceptedTags(a)
  \/ a.type = "nodes" /\ AcceptedNodes(a)
  \/ a.type = "services" /\ Written(a.shape)
  \/ /\ a.type = "generic"
     /\ a.shape = "list"
     /\ \A i \in DOMAIN a.parts : r[a.parts[i]]

Accepted[a \in Affinity] == Accepts(a, Accepted)

Normalize ==
  /\ status = "normalize"
  /\ index \in DOMAIN affinities
  /\ LET a == Typed(affinities[index]) IN
       IF Accepted[a]
       THEN /\ affinities' = [affinities EXCEPT ![index] = a]
            /\ index' = index + 1
            /\ UNCHANGED status
       ELSE status' = "rejected" /\ UNCHANGED <<affinities, index>>
  /\ UNCHANGED <<node, dependents, handed, instances>>

EndNormalize ==
  /\ status = "normalize"
  /\ index \notin DOMAIN affinities
  /\ status' = "place"
  /\ UNCHANGED <<node, affinities, dependents, handed, index, instances>>

-----------------------------------------------------------------------------
(***************************************************************************)
(* match[mode]: of the tests, each the subject and the output of a node,   *)
(* those whose subject shares an element with all, any or none of the      *)
(* values.                                                                 *)
(***************************************************************************)
Modes == {"all", "any", "none"}

Shares(value, subject) == value \intersect subject # {}

Hits(values, t, i) ==
  /\ values[i] # Undefined
  /\ t.subject # Undefined
  /\ Shares(values[i], t.subject)

\* The loops of "any" and "none" end at the first value which matches.
Reached(mode, values, t, i) ==
  mode = "all" \/ \A j \in 1..(i - 1) : ~Hits(values, t, j)

\* Mutant: no mode skips the nodes without a subject.
ThrowsUnskipped(mode, values, t) ==
  \E i \in DOMAIN values :
    IF t.subject = Undefined THEN values[i] # {} ELSE values[i] = Undefined

\* A value is undefined, or "none" reads a subject which is.
Throws(mode, values, t) ==
  \E i \in DOMAIN values :
    /\ Reached(mode, values, t, i)
    /\ IF t.subject = Undefined THEN mode = "none" /\ values[i] # {}
                                ELSE values[i] = Undefined

Passes(mode, values, t) ==
  CASE mode = "all" ->
         t.subject # Undefined /\ \A i \in DOMAIN values : Hits(values, t, i)
    [] mode = "any" -> \E i \in DOMAIN values : Hits(values, t, i)
    [] mode = "none" -> ~\E i \in DOMAIN values : Hits(values, t, i)

match(mode, values, tests) ==
  IF mode \notin Modes \/ \E t \in tests : Throws(mode, values, t)
  THEN Crash
  ELSE {t.output : t \in {u \in tests : Passes(mode, values, u)}}

Mode(a) == IF a.match = None THEN "all" ELSE a.match

-----------------------------------------------------------------------------
(***************************************************************************)
(* handlers[type].resolve.                                                 *)
(***************************************************************************)
Singletons(names) == SetToSeq({{x} : x \in names})

IdTests == {[subject |-> {node[n].id}, output |-> node[n].id] : n \in Node}

\* The output of a node is its fqdn here, and its id everywhere else.
FqdnTests == {[subject |-> {node[n].fqdn}, output |-> node[n].fqdn] : n \in Node}

TagTests(tag) == {[subject |-> node[node[n].id].tags[tag],
                   output |-> node[n].id] : n \in Node}

\* The tags of a node are looked up by its id.
ResolveTag(e) ==
  IF \E n \in Node : node[n].id \notin Node
  THEN Crash
  ELSE match(Mode(e), Singletons(e.values), TagTests(e.tag))

ResolveTags(a) ==
  LET found == {ResolveTag(e) : e \in a.tags}
  IN  IF Crash \in found
      THEN Crash
      ELSE match(Mode(a), SetToSeq(found), IdTests)

ResolveNodes(a) == match(Mode(a), Singletons(a.names), FqdnTests)

\* What resolve returns, when r gives what it returns for the parts.
Resolved(a, r) ==
  CASE a.type = "tags" -> ResolveTags(a)
    [] a.type = "nodes" -> ResolveNodes(a)
    [] a.type = "services" -> Undefined
    [] a.type = "generic" ->
         LET found == [i \in DOMAIN a.parts |-> r[a.parts[i]]]
         IN  IF \E i \in DOMAIN found : found[i] = Crash
             THEN Crash
             ELSE match(Mode(a), found, IdTests)
    [] OTHER -> Crash

Resolution[a \in Affinity] == Resolved(a, Resolution)

Resolve(a) == Resolved(a, Resolution)

(***************************************************************************)
(* A dependent which is placed gives its nodes to the service.             *)
(***************************************************************************)
HandOver ==
  /\ status = "place"
  /\ dependents # << >>
  /\ affinities' = Append(affinities, Given(Head(dependents)))
  /\ handed' = handed \union Head(dependents)
  /\ dependents' = Tail(dependents)
  /\ UNCHANGED <<node, status, index, instances>>

\* Mutant: several affinities combined with the default, "all".
Default(as) ==
  IF Len(as) = 1 THEN as[1]
                 ELSE [type |-> "generic", shape |-> "list", parts |-> as,
                       match |-> None]

Combined(as) ==
  IF Len(as) = 1 THEN as[1]
                 ELSE [type |-> "generic", shape |-> "list", parts |-> as,
                       match |-> "any"]

\* Mutant: an fqdn is taken for the id of a node.
FoundByFqdn(ids) == ids \subseteq {node[n].fqdn : n \in Node}

\* The instances are looked up by id, and again by the id of their node.
Found(ids) == ids \subseteq Node /\ \A i \in ids : node[i].id \in Node

Place ==
  /\ status = "place"
  /\ dependents = << >>
  /\ LET ids == IF affinities = << >> THEN {} ELSE Resolve(Combined(affinities)) IN
       IF ids \notin {Crash, Undefined} /\ Found(ids)
       THEN status' = "placed" /\ instances' = ids
       ELSE status' = "crashed" /\ UNCHANGED instances
  /\ UNCHANGED <<node, affinities, dependents, handed, index>>

Next == Normalize \/ EndNormalize \/ HandOver \/ Place

Spec == Init /\ [][Next]_vars

-----------------------------------------------------------------------------
(* Every variable has its type: the instances of a service are on nodes    *)
(* which exist, whatever ids and fqdns the configuration gives to them.    *)
TypeOK ==
  /\ node \in [Node -> [id : Id, fqdn : Id,
                        tags : [Tag -> {Undefined} \union SUBSET Word]]]
  /\ affinities \in Seq(Affinity)
  /\ dependents \in Seq(SUBSET Node)
  /\ handed \subseteq Node
  /\ status \in {"normalize", "place", "placed", "rejected", "crashed"}
  /\ index \in 1..(Len(affinities) + 1)
  /\ instances \subseteq Node
  /\ \A i \in instances : node[i].id \in Node

\* Every node has its key as id and as fqdn, the default of both.
Plain == \A n \in Node : node[n].id = n /\ node[n].fqdn = n

(***************************************************************************)
(* What an affinity means, as sets of nodes.                               *)
(***************************************************************************)
Combine(mode, family) ==
  CASE mode = "all" -> {n \in Node : \A S \in family : n \in S}
    [] mode = "any" -> UNION family
    [] mode = "none" -> Node \ UNION family
    [] OTHER -> {}

Carrying(tag, word) ==
  {n \in Node : node[n].tags[tag] # Undefined /\ word \in node[n].tags[tag]}

\* Even with no value at all, "all" wants the tag.
TagMeaning(e) ==
  LET found == Combine(Mode(e), {Carrying(e.tag, w) : w \in e.values})
  IN  IF Mode(e) = "all" THEN {n \in found : node[n].tags[e.tag] # Undefined}
                         ELSE found

\* The meaning of an affinity, when r gives the meaning of its parts.
Means(a, r) ==
  CASE a.type = "nodes" -> Combine(Mode(a), {{x} \intersect Node : x \in a.names})
    [] a.type = "tags" -> Combine(Mode(a), {TagMeaning(e) : e \in a.tags})
    [] a.type = "generic" ->
         Combine(Mode(a), {r[a.parts[i]] : i \in DOMAIN a.parts})
    [] OTHER -> {}

Meaning[a \in Affinity] == Means(a, Meaning)

(* A service is placed on the nodes at least one of its affinities means,  *)
(* those its dependents have handed over included, and on no other: what   *)
(* Placement takes for granted (affinities.js:75-92, 145-172, 225-236,     *)
(* normalize.js:502-531).                                                  *)
UnionOfMeanings ==
  status = "placed" /\ Plain =>
    instances = UNION {Meaning[affinities[i]] : i \in DOMAIN affinities}

(* A service is placed on all the nodes of its dependents, none of them    *)
(* being lost in the way their affinities are combined with its own        *)
(* (normalize.js:583-595).                                                 *)
HandedOver == status = "placed" /\ Plain => handed \subseteq instances

\* The affinity when the default of the option match is "any", its own one
\* and those of its tags.
OrAny(x) == IF x.match = None THEN [x EXCEPT !.match = "any"] ELSE x

Reread(a) ==
  IF a.type = "tags" THEN [OrAny(a) EXCEPT !.tags = {OrAny(e) : e \in a.tags}]
                     ELSE OrAny(a)

\* What resolve returns then, for the affinity and all which are in it.
Alternative[a \in Affinity] == Resolved(Reread(a), Alternative)

\* Without the option match, an affinity has no value, or several parts,
\* none of which normalize refuses; or so has one of its tags or, when r
\* tells which, of its parts.
Leaves(a, r) ==
  \/ a.match = None /\ a.type = "nodes" /\ a.names = {}
  \/ a.match = None /\ a.type = "tags" /\ a.tags = {}
  \/ a.match = None /\ a.type = "generic" /\ Len(a.parts) # 1
  \/ a.type = "tags" /\ \E e \in a.tags : e.match = None /\ e.values = {}
  \/ a.type = "generic" /\ \E i \in DOMAIN a.parts : r[a.parts[i]]

LeftOpen[a \in Affinity] == Leaves(a, LeftOpen)

(* The default of the option match decides where a service goes in two     *)
(* cases only, which normalize accepts: an affinity or a tag without       *)
(* values, and a generic affinity of several parts, of which, unlike the   *)
(* values of the other types, no match is required.  In every other        *)
(* affinity, at any depth, "any" for "all" would change nothing            *)
(* (affinities.js:44-74, 91, 129-142, 220-222).                            *)
DefaultSettlesOnlyOpen ==
  status \in {"place", "placed", "crashed"} =>
    \A i \in DOMAIN affinities :
      LeftOpen[affinities[i]] \/ Alternative[affinities[i]] = Resolve(affinities[i])

\* What normalize accepts and resolve cannot handle, when r tells which of
\* the parts are of this kind.
Affects(a, r) ==
  \/ a.type = "services"
  \/ Mode(a) \notin Modes
  \/ a.type = "tags" /\ \E e \in a.tags :
       \/ Mode(e) \notin Modes
       \/ Mode(e) = "none" /\ \E n \in Node : node[n].tags[e.tag] = Undefined
  \/ a.type = "generic" /\ \E i \in DOMAIN a.parts : r[a.parts[i]]

Affected[a \in Affinity] == Affects(a, Affected)

(* An affinity which was accepted resolves, unless it is of type services, *)
(* has an unknown match, or excludes the values of a tag some nodes do not *)
(* have (affinities.js:44-73, 95-144, 175-195, 201-224 against 246-338).   *)
AcceptedResolves ==
  status = "crashed" /\ Plain =>
    \E i \in DOMAIN affinities : Affected[affinities[i]]

-----------------------------------------------------------------------------
\* Strengthenings which make the invariants above inductive.

\* What has been normalised was accepted; dependents give more of the kind.
AllAccepted ==
  \A i \in DOMAIN affinities :
    status \in {"place", "placed", "crashed"} \/ i < index => Accepted[affinities[i]]

\* The nodes handed over are still among the affinities.
HandedKept ==
  /\ status \in {"normalize", "rejected"} => handed = {}
  /\ \A n \in handed : \E i \in DOMAIN affinities : \E ids \in SUBSET Node :
       n \in ids /\ affinities[i] = Given(ids)

\* The instances are what the affinities resolve to.
Decided ==
  /\ status = "placed" =>
       IF affinities = << >> THEN instances = {}
       ELSE /\ instances = Resolve(Combined(affinities))
            /\ instances \notin {Crash, Undefined}
  /\ status = "crashed" =>
       /\ affinities # << >>
       /\ LET ids == Resolve(Combined(affinities))
          IN  ids \notin {Crash, Undefined} => ~Found(ids)

IInv == TypeOK /\ AllAccepted /\ HandedKept /\ Decided

(* A node without a tag matches none of its values: an affinity which      *)
(* excludes some values of the tag accepts the node (affinities.js:303).   *)
NoneMatchesUntagged ==
  ~ /\ status = "crashed"
    /\ Plain
    /\ \A i \in DOMAIN affinities :
         /\ affinities[i].type = "tags" /\ Mode(affinities[i]) \in Modes
         /\ \A e \in affinities[i].tags : Mode(e) \in Modes
=============================================================================
