-------------------------- MODULE AffinitiesProofs --------------------------
(***************************************************************************)
(* Proofs about Affinities, for every set of nodes and tags, affinities of *)
(* any depth and any number of them.                                       *)
(***************************************************************************)
EXTENDS Affinities, FunctionTheorems, FiniteSetTheorems, SequenceTheorems,
        WellFoundedInduction, TLAPS

-----------------------------------------------------------------------------
(* The numbers are well-ordered, in the form the proofs by induction over  *)
(* the nesting of affinities use.                                          *)
LEMMA LeastNumber ==
  ASSUME NEW D \in SUBSET Nat, D # {}
  PROVE  \E d \in D : \A e \in D : ~(e < d)
<1> DEFINE R == {p \in Nat \X Nat : p[1] < p[2]}
<1>1. IsWellFoundedOn(R, Nat)
  BY NatLessThanWellFounded DEF OpToRel
<1>2. PICK d \in D : \A e \in D : <<e, d>> \notin R
  <2> HIDE DEF R
  <2> QED
    BY <1>1, WFMin
<1> QED
  BY <1>2

(* Every number but the first one has a predecessor.                       *)
LEMMA Predecessor == \A n \in Nat : n # 0 => n - 1 \in Nat /\ n - 1 < n
OBVIOUS

(* What G makes of an element and a function to V depends on the function  *)
(* at less deep elements only.                                             *)
Local(T, depth, V, G) ==
  /\ G \in [T \X [T -> V] -> V]
  /\ \A a \in T : \A g, h \in [T -> V] :
       (\A b \in T : depth[b] < depth[a] => g[b] = h[b])
         => G[<<a, g>>] = G[<<a, h>>]

(* A function whose value at an element depends on its values at less deep *)
(* elements only is well-defined: the recursion of the handlers ends.      *)
LEMMA RecursionExists ==
  ASSUME NEW T, NEW depth \in [T -> Nat], NEW V, NEW G, V # {},
         Local(T, depth, V, G)
  PROVE  \E f \in [T -> V] : \A a \in T : f[a] = G[<<a, f>>]
<1> USE DEF Local
<1> PICK v \in V : TRUE
  OBVIOUS
<1> DEFINE Below(f, k) == /\ f \in [T -> V]
                          /\ \A a \in T : depth[a] < k => f[a] = G[<<a, f>>]
           Stuck == {k \in Nat : ~\E f : Below(f, k)}
<1>1. ASSUME NEW f, NEW g, NEW k \in Nat, NEW l \in Nat, Below(f, k), Below(g, l),
             NEW a \in T, depth[a] < k, depth[a] < l
      PROVE  f[a] = g[a]
  <2> DEFINE D == {d \in Nat : /\ d < k /\ d < l
                               /\ \E b \in T : depth[b] = d /\ f[b] # g[b]}
  <2>1. SUFFICES ASSUME f[a] # g[a] PROVE FALSE
    OBVIOUS
  <2>2. depth[a] \in D
    BY <1>1, <2>1
  <2>3. PICK d \in D : \A e \in D : ~(e < d)
    <3>1. D \in SUBSET Nat /\ D # {}
      BY <2>2
    <3> HIDE DEF D
    <3> QED
      BY <3>1, LeastNumber
  <2>4. PICK b \in T : depth[b] = d /\ f[b] # g[b]
    OBVIOUS
  <2>5. \A c \in T : depth[c] < depth[b] => f[c] = g[c]
    <3> SUFFICES ASSUME NEW c \in T, depth[c] < depth[b], f[c] # g[c]
                 PROVE  FALSE
      OBVIOUS
    <3>1. depth[c] \in Nat /\ d \in Nat /\ d < k /\ d < l
      OBVIOUS
    <3>2. depth[c] < k /\ depth[c] < l
      BY <2>4, <3>1
    <3>3. depth[c] \in D
      BY <3>1, <3>2
    <3> QED
      BY <2>3, <2>4, <3>3
  <2>6. G[<<b, f>>] = G[<<b, g>>]
    BY <1>1, <2>5
  <2>7. f[b] = G[<<b, f>>] /\ g[b] = G[<<b, g>>]
    BY <1>1, <2>4
  <2> QED
    BY <2>4, <2>6, <2>7
<1>2. \A k \in Nat : \E f : Below(f, k)
  <2> SUFFICES ASSUME Stuck # {} PROVE FALSE
    OBVIOUS
  <2>1. PICK k \in Stuck : \A e \in Stuck : ~(e < k)
    <3>1. Stuck \in SUBSET Nat
      OBVIOUS
    <3> HIDE DEF Stuck
    <3> QED
      BY <3>1, LeastNumber
  <2>2. k \in Nat /\ ~\E f : Below(f, k)
    OBVIOUS
  <2>3. Below([a \in T |-> v], 0)
    <3>1. [a \in T |-> v] \in [T -> V]
      OBVIOUS
    <3>2. ASSUME NEW a \in T PROVE ~(depth[a] < 0)
      <4>1. depth[a] \in Nat
        OBVIOUS
      <4> QED
        BY <4>1
    <3> QED
      BY <3>1, <3>2
  <2> HIDE DEF Below
  <2>4. k # 0
    BY <2>2, <2>3
  <2>5. PICK f : Below(f, k - 1)
    <3>1. k - 1 \in Nat /\ k - 1 < k
      <4> HIDE DEF Stuck
      <4> QED
        BY <2>2, <2>4, Predecessor
    <3>2. k - 1 \notin Stuck
      BY <2>1, <2>2, <3>1
    <3> QED
      BY <3>1, <3>2
  <2> DEFINE g == [a \in T |-> IF depth[a] < k - 1 THEN f[a] ELSE G[<<a, f>>]]
  <2>6. f \in [T -> V] /\ g \in [T -> V]
    BY <2>5 DEF Below
  <2>7. ASSUME NEW a \in T, depth[a] < k PROVE g[a] = G[<<a, g>>]
    <3>1. \A b \in T : depth[b] < depth[a] => f[b] = g[b]
      BY <2>2, <2>7
    <3>2. G[<<a, f>>] = G[<<a, g>>]
      BY <2>6, <3>1
    <3> QED
      BY <2>5, <3>2 DEF Below
  <2>8. Below(g, k)
    BY <2>6, <2>7 DEF Below
  <2> QED
    BY <2>2, <2>8
<1> DEFINE at(a) == CHOOSE g : Below(g, depth[a] + 1)
           F == [a \in T |-> at(a)[a]]
<1>3. ASSUME NEW a \in T PROVE Below(at(a), depth[a] + 1)
  <2>1. depth[a] + 1 \in Nat
    OBVIOUS
  <2> HIDE DEF Below
  <2> QED
    BY <1>2, <2>1
<1>4. F \in [T -> V]
  <2> SUFFICES ASSUME NEW a \in T PROVE at(a)[a] \in V
    OBVIOUS
  <2> HIDE DEF at
  <2>1. at(a) \in [T -> V]
    BY <1>3
  <2> QED
    BY <2>1
<1>5. ASSUME NEW a \in T PROVE F[a] = G[<<a, F>>]
  <2> HIDE DEF at
  <2>1. at(a) \in [T -> V] /\ at(a)[a] = G[<<a, at(a)>>]
    <3>1. depth[a] < depth[a] + 1
      <4>1. depth[a] \in Nat
        OBVIOUS
      <4> QED
        BY <4>1
    <3> QED
      BY <1>3, <3>1
  <2>2. ASSUME NEW b \in T, depth[b] < depth[a] PROVE at(a)[b] = F[b]
    <3>1. /\ depth[b] + 1 \in Nat /\ depth[a] + 1 \in Nat
          /\ depth[b] < depth[b] + 1 /\ depth[b] < depth[a] + 1
      BY <2>2
    <3>2. Below(at(a), depth[a] + 1) /\ Below(at(b), depth[b] + 1)
      BY <1>3
    <3> HIDE DEF Below
    <3>3. at(a)[b] = at(b)[b]
      BY <1>1, <3>1, <3>2
    <3> QED
      BY <3>3
  <2>3. G[<<a, at(a)>>] = G[<<a, F>>]
    BY <1>4, <2>1, <2>2
  <2> QED
    BY <2>1, <2>3
<1> QED
  BY <1>4, <1>5

-----------------------------------------------------------------------------
(* Parts are less deep than the affinity they are in.                      *)
LEMMA Nested ==
  ASSUME NEW a \in Affinity, a.type = "generic", NEW i \in DOMAIN a.parts
  PROVE  a.parts[i] \in Affinity /\ Depth[a.parts[i]] < Depth[a]
<1>1. a.parts \in Seq(Affinity) /\ Depth[a.parts[i]] < Depth[a]
  BY AffinityAssumption DEF Nests
<1> QED
  BY <1>1, ElementOfSeq, LenProperties

(* What is accepted is well-defined: the recursion reaches the parts.      *)
LEMMA AcceptedRecurs == \A a \in Affinity : Accepted[a] = Accepts(a, Accepted)
<1> DEFINE G == [p \in Affinity \X [Affinity -> BOOLEAN] |-> Accepts(p[1], p[2])]
<1>1. G \in [Affinity \X [Affinity -> BOOLEAN] -> BOOLEAN]
  BY DEF Accepts
<1>2. ASSUME NEW a \in Affinity,
             NEW g \in [Affinity -> BOOLEAN], NEW h \in [Affinity -> BOOLEAN],
             \A b \in Affinity : Depth[b] < Depth[a] => g[b] = h[b]
      PROVE  G[<<a, g>>] = G[<<a, h>>]
  <2>1. a.type = "generic" => \A i \in DOMAIN a.parts : g[a.parts[i]] = h[a.parts[i]]
    BY <1>2, Nested
  <2>2. Accepts(a, g) = Accepts(a, h)
    BY <2>1 DEF Accepts
  <2> QED
    BY <2>2
<1>3. \E f \in [Affinity -> BOOLEAN] : \A a \in Affinity : f[a] = G[<<a, f>>]
  <2>1. Local(Affinity, Depth, BOOLEAN, G)
    <3> HIDE DEF G
    <3> QED
      BY <1>1, <1>2 DEF Local
  <2>2. Depth \in [Affinity -> Nat] /\ BOOLEAN # {}
    BY AffinityAssumption
  <2> HIDE DEF G
  <2> QED
    BY <2>1, <2>2, RecursionExists
<1>4. PICK f \in [Affinity -> BOOLEAN] : \A a \in Affinity : f[a] = Accepts(a, f)
  BY <1>3
<1>5. f = [a \in Affinity |-> Accepts(a, f)]
  BY <1>4
<1>6. Accepted = [a \in Affinity |-> Accepts(a, Accepted)]
  BY <1>5 DEF Accepted
<1> QED
  BY <1>6
-----------------------------------------------------------------------------
(* What match returns: a TypeError or some of the outputs.                 *)
LEMMA MatchTyped ==
  ASSUME NEW mode, NEW values, NEW tests, \A t \in tests : t.output \in Id
  PROVE  match(mode, values, tests) \in {Crash} \union SUBSET Id
BY DEF match

LEMMA NodeTyped ==
  ASSUME TypeOK, NEW n \in Node
  PROVE  /\ node[n].id \in Id
         /\ node[n].fqdn \in Id
         /\ node[n].tags \in [Tag -> {Undefined} \union SUBSET Word]
BY DEF TypeOK

(* What resolve may return.                                                *)
Results == {Crash, Undefined} \union SUBSET Id

LEMMA ResolvedTyped ==
  ASSUME TypeOK, NEW a, NEW r
  PROVE  Resolved(a, r) \in Results
<1>1. ASSUME NEW mode, NEW values PROVE match(mode, values, IdTests) \in Results
  <2>1. \A t \in IdTests : t.output \in Id
    BY NodeTyped DEF IdTests
  <2> QED
    BY <2>1, MatchTyped DEF Results
<1>2. ASSUME NEW mode, NEW values PROVE match(mode, values, FqdnTests) \in Results
  <2>1. \A t \in FqdnTests : t.output \in Id
    BY NodeTyped DEF FqdnTests
  <2> QED
    BY <2>1, MatchTyped DEF Results
<1>3. Crash \in Results /\ Undefined \in Results
  BY DEF Results
<1>4. ResolveTags(a) \in Results
  BY <1>1, <1>3 DEF ResolveTags
<1>5. ResolveNodes(a) \in Results
  BY <1>2 DEF ResolveNodes
<1> QED
  BY <1>1, <1>3, <1>4, <1>5 DEF Resolved

(* What resolve returns is well-defined, as the recursion reaches the      *)
(* parts of every generic affinity.                                        *)
LEMMA ResolutionRecurs ==
  ASSUME TypeOK
  PROVE  /\ Resolution \in [Affinity -> Results]
         /\ \A a \in Affinity : Resolution[a] = Resolved(a, Resolution)
<1> DEFINE G == [p \in Affinity \X [Affinity -> Results] |-> Resolved(p[1], p[2])]
<1>1. G \in [Affinity \X [Affinity -> Results] -> Results]
  BY ResolvedTyped
<1>2. ASSUME NEW a \in Affinity,
             NEW g \in [Affinity -> Results], NEW h \in [Affinity -> Results],
             \A b \in Affinity : Depth[b] < Depth[a] => g[b] = h[b]
      PROVE  G[<<a, g>>] = G[<<a, h>>]
  <2>1. a.type = "generic" =>
          [i \in DOMAIN a.parts |-> g[a.parts[i]]] = [i \in DOMAIN a.parts |-> h[a.parts[i]]]
    BY <1>2, Nested
  <2>2. Resolved(a, g) = Resolved(a, h)
    BY <2>1 DEF Resolved
  <2> QED
    BY <2>2
<1>3. \E f \in [Affinity -> Results] : \A a \in Affinity : f[a] = G[<<a, f>>]
  <2>1. Local(Affinity, Depth, Results, G)
    <3> HIDE DEF G
    <3> QED
      BY <1>1, <1>2 DEF Local
  <2>2. Depth \in [Affinity -> Nat] /\ Results # {}
    BY AffinityAssumption DEF Results
  <2> HIDE DEF G
  <2> QED
    BY <2>1, <2>2, RecursionExists
<1>4. PICK f \in [Affinity -> Results] : \A a \in Affinity : f[a] = Resolved(a, f)
  BY <1>3
<1>5. f = [a \in Affinity |-> Resolved(a, f)]
  BY <1>4
<1>6. Resolution = [a \in Affinity |-> Resolved(a, Resolution)]
  BY <1>5 DEF Resolution
<1> QED
  BY <1>6, ResolvedTyped

LEMMA CombineTyped ==
  ASSUME NEW mode, NEW family \in SUBSET SUBSET Node
  PROVE  Combine(mode, family) \in SUBSET Node
BY DEF Combine

LEMMA TagMeaningTyped == \A e : TagMeaning(e) \in SUBSET Node
<1> SUFFICES ASSUME NEW e PROVE TagMeaning(e) \in SUBSET Node
  OBVIOUS
<1>1. {Carrying(e.tag, w) : w \in e.values} \in SUBSET SUBSET Node
  BY DEF Carrying
<1>2. Combine(Mode(e), {Carrying(e.tag, w) : w \in e.values}) \in SUBSET Node
  BY <1>1, CombineTyped
<1> QED
  BY <1>2 DEF TagMeaning

LEMMA MeansTyped ==
  ASSUME NEW a \in Affinity, NEW r \in [Affinity -> SUBSET Node]
  PROVE  Means(a, r) \in SUBSET Node
<1>1. CASE a.type = "nodes"
  <2>1. {{x} \intersect Node : x \in a.names} \in SUBSET SUBSET Node
    OBVIOUS
  <2> QED
    BY <1>1, <2>1, CombineTyped DEF Means
<1>2. CASE a.type = "tags"
  <2>1. {TagMeaning(e) : e \in a.tags} \in SUBSET SUBSET Node
    BY TagMeaningTyped
  <2> QED
    BY <1>2, <2>1, CombineTyped DEF Means
<1>3. CASE a.type = "generic"
  <2>1. {r[a.parts[i]] : i \in DOMAIN a.parts} \in SUBSET SUBSET Node
    BY <1>3, Nested
  <2> QED
    BY <1>3, <2>1, CombineTyped DEF Means
<1> QED
  BY <1>1, <1>2, <1>3 DEF Means

(* So is what an affinity means.                                           *)
LEMMA MeaningRecurs == \A a \in Affinity : Meaning[a] = Means(a, Meaning)
<1> DEFINE G == [p \in Affinity \X [Affinity -> SUBSET Node] |-> Means(p[1], p[2])]
<1>1. G \in [Affinity \X [Affinity -> SUBSET Node] -> SUBSET Node]
  BY MeansTyped
<1>2. ASSUME NEW a \in Affinity,
             NEW g \in [Affinity -> SUBSET Node], NEW h \in [Affinity -> SUBSET Node],
             \A b \in Affinity : Depth[b] < Depth[a] => g[b] = h[b]
      PROVE  G[<<a, g>>] = G[<<a, h>>]
  <2>1. a.type = "generic" =>
          {g[a.parts[i]] : i \in DOMAIN a.parts} = {h[a.parts[i]] : i \in DOMAIN a.parts}
    BY <1>2, Nested
  <2>2. Means(a, g) = Means(a, h)
    BY <2>1 DEF Means
  <2> QED
    BY <2>2
<1>3. \E f \in [Affinity -> SUBSET Node] : \A a \in Affinity : f[a] = G[<<a, f>>]
  <2>1. Local(Affinity, Depth, SUBSET Node, G)
    <3> HIDE DEF G
    <3> QED
      BY <1>1, <1>2 DEF Local
  <2>2. Depth \in [Affinity -> Nat] /\ (SUBSET Node) # {}
    BY AffinityAssumption
  <2> HIDE DEF G
  <2> QED
    BY <2>1, <2>2, RecursionExists
<1>4. PICK f \in [Affinity -> SUBSET Node] : \A a \in Affinity : f[a] = Means(a, f)
  BY <1>3
<1>5. f = [a \in Affinity |-> Means(a, f)]
  BY <1>4
<1>6. Meaning = [a \in Affinity |-> Means(a, Meaning)]
  BY <1>5 DEF Meaning
<1> QED
  BY <1>6

(* So is which affinities cannot be resolved.                              *)
LEMMA AffectedRecurs == \A a \in Affinity : Affected[a] = Affects(a, Affected)
<1> DEFINE G == [p \in Affinity \X [Affinity -> BOOLEAN] |-> Affects(p[1], p[2])]
<1>1. G \in [Affinity \X [Affinity -> BOOLEAN] -> BOOLEAN]
  BY DEF Affects
<1>2. ASSUME NEW a \in Affinity,
             NEW g \in [Affinity -> BOOLEAN], NEW h \in [Affinity -> BOOLEAN],
             \A b \in Affinity : Depth[b] < Depth[a] => g[b] = h[b]
      PROVE  G[<<a, g>>] = G[<<a, h>>]
  <2>1. a.type = "generic" => \A i \in DOMAIN a.parts : g[a.parts[i]] = h[a.parts[i]]
    BY <1>2, Nested
  <2>2. Affects(a, g) = Affects(a, h)
    BY <2>1 DEF Affects
  <2> QED
    BY <2>2
<1>3. \E f \in [Affinity -> BOOLEAN] : \A a \in Affinity : f[a] = G[<<a, f>>]
  <2>1. Local(Affinity, Depth, BOOLEAN, G)
    <3> HIDE DEF G
    <3> QED
      BY <1>1, <1>2 DEF Local
  <2>2. Depth \in [Affinity -> Nat] /\ BOOLEAN # {}
    BY AffinityAssumption
  <2> HIDE DEF G
  <2> QED
    BY <2>1, <2>2, RecursionExists
<1>4. PICK f \in [Affinity -> BOOLEAN] : \A a \in Affinity : f[a] = Affects(a, f)
  BY <1>3
<1>5. f = [a \in Affinity |-> Affects(a, f)]
  BY <1>4
<1>6. Affected = [a \in Affinity |-> Affects(a, Affected)]
  BY <1>5 DEF Affected
<1> QED
  BY <1>6
-----------------------------------------------------------------------------
(* A finite set, made a sequence by SetToSeq, keeps its elements.          *)
LEMMA Listing ==
  ASSUME NEW S, IsFiniteSet(S)
  PROVE  /\ SetToSeq(S) \in [1..Cardinality(S) -> S]
         /\ Cardinality(S) \in Nat
         /\ {SetToSeq(S)[i] : i \in DOMAIN SetToSeq(S)} = S
<1>1. Cardinality(S) \in Nat /\ ExistsBijection(1..Cardinality(S), S)
  BY FS_CardinalityType
<1>2. PICK g : g \in Bijection(1..Cardinality(S), S)
  BY <1>1 DEF ExistsBijection
<1>3. g \in [1..Cardinality(S) -> S] /\ IsInjective(g)
  BY <1>2 DEF Bijection, Injection, IsInjective
<1> DEFINE f == SetToSeq(S)
<1>4. f \in [1..Cardinality(S) -> S] /\ IsInjective(f)
  BY <1>3 DEF SetToSeq
<1>5. f \in Injection(1..Cardinality(S), S)
  BY <1>4 DEF Injection, IsInjective
<1>6. Cardinality(1..Cardinality(S)) = Cardinality(S)
  BY <1>1, FS_Interval
<1>7. f \in Surjection(1..Cardinality(S), S)
  <2> HIDE DEF f
  <2> QED
    BY <1>5, <1>6, FS_Injection
<1>8. \A x \in S : \E i \in 1..Cardinality(S) : f[i] = x
  BY <1>7 DEF Surjection
<1> QED
  BY <1>1, <1>4, <1>8

(* The image of a finite set under a function is finite.                   *)
LEMMA FiniteImage ==
  ASSUME NEW S, IsFiniteSet(S), NEW f, DOMAIN f = S, f = [x \in S |-> f[x]]
  PROVE  IsFiniteSet({f[x] : x \in S})
<1> DEFINE T == {f[x] : x \in S}
<1>1. f \in Surjection(S, T)
  <2>1. f \in [S -> T]
    OBVIOUS
  <2>2. \A t \in T : \E x \in S : f[x] = t
    OBVIOUS
  <2> HIDE DEF T
  <2> QED
    BY <2>1, <2>2, Fun_IsSurj
<1> HIDE DEF T
<1>2. IsFiniteSet(T)
  BY <1>1, FS_Surjection
<1> QED
  BY <1>2 DEF T

(* The values of an affinity: a singleton for each name.                   *)
LEMMA SingletonsListed ==
  ASSUME NEW S, IsFiniteSet(S)
  PROVE  /\ Singletons(S) \in [1..Cardinality({{x} : x \in S}) -> {{x} : x \in S}]
         /\ Cardinality({{x} : x \in S}) \in Nat
         /\ {Singletons(S)[i] : i \in DOMAIN Singletons(S)} = {{x} : x \in S}
<1> DEFINE f == [x \in S |-> {x}]
<1>1. IsFiniteSet({f[x] : x \in S})
  <2>1. DOMAIN f = S /\ f = [x \in S |-> f[x]]
    OBVIOUS
  <2> HIDE DEF f
  <2> QED
    BY <2>1, FiniteImage
<1>2. {f[x] : x \in S} = {{x} : x \in S}
  OBVIOUS
<1> QED
  BY <1>1, <1>2, Listing DEF Singletons

(* With a single value, "any" is "all".                                    *)
LEMMA SingleMatch ==
  ASSUME NEW values, DOMAIN values = {1}, NEW tests
  PROVE  match("any", values, tests) = match("all", values, tests)
<1>1. \A t \in tests : Throws("any", values, t) <=> Throws("all", values, t)
  BY DEF Throws, Reached
<1>2. \A t \in tests : Passes("any", values, t) <=> Passes("all", values, t)
  BY DEF Passes, Hits
<1>3. "any" \in Modes /\ "all" \in Modes
  BY DEF Modes
<1>4. {u \in tests : Passes("any", values, u)} = {u \in tests : Passes("all", values, u)}
  BY <1>2
<1> QED
  BY <1>1, <1>3, <1>4 DEF match
-----------------------------------------------------------------------------
(* How a result of resolve agrees with what the affinity means: it is the  *)
(* meaning, or the affinity is one which normalize should have rejected.   *)
Agrees(result, meaning, affected) ==
  \/ result = Crash /\ affected
  \/ result = Undefined /\ affected /\ meaning = {}
  \/ result = meaning /\ meaning \subseteq Node

(* When the nodes have their keys as ids, the tests of both kinds are one  *)
(* for every node, which has itself as its subject.                        *)
LEMMA PlainTests ==
  ASSUME TypeOK, Plain
  PROVE  /\ IdTests = {[subject |-> {n}, output |-> n] : n \in Node}
         /\ FqdnTests = IdTests
         /\ \A n \in Node : {n} # Undefined
         /\ \A S \in SUBSET Node : S # Undefined /\ S # Crash
<1>1. Node \subseteq Id
  BY NodeTyped DEF Plain
<1>2. IdTests = {[subject |-> {n}, output |-> n] : n \in Node}
  BY DEF IdTests, Plain
<1>3. FqdnTests = {[subject |-> {n}, output |-> n] : n \in Node}
  BY DEF FqdnTests, Plain
<1>4. \A S \in SUBSET Node : S # Undefined /\ S # Crash
  BY <1>1, SentinelAssumption
<1> QED
  BY <1>2, <1>3, <1>4

(* match, with a test for every node, combines the sets of nodes which hit *)
(* its values; "all" wants a subject as well.                              *)
TestsOf(test) == {test[n] : n \in Node}

StandFor(values, test, means) ==
  /\ \A n \in Node : test[n].output = n
  /\ \A i \in DOMAIN values : means[i] \subseteq Node
  /\ \A n \in Node : \A i \in DOMAIN values :
       Hits(values, test[n], i) <=> n \in means[i]

Matched(mode, values, test, means) ==
  {n \in Combine(mode, {means[i] : i \in DOMAIN values}) :
     mode = "all" => test[n].subject # Undefined}

LEMMA MatchCombines ==
  ASSUME NEW mode \in Modes, NEW values, NEW test, NEW means,
         StandFor(values, test, means)
  PROVE  match(mode, values, TestsOf(test)) \in {Crash, Matched(mode, values, test, means)}
<1> DEFINE tests == TestsOf(test)
<1> USE DEF TestsOf, StandFor, Matched
<1> DEFINE C == Combine(mode, {means[i] : i \in DOMAIN values})
           D == {n \in C : mode = "all" => test[n].subject # Undefined}
<1>1. ASSUME NEW n \in Node
      PROVE  Passes(mode, values, test[n]) <=> n \in D
  <2>1. CASE mode = "all"
    BY <2>1 DEF Passes, Combine
  <2>2. CASE mode = "any"
    BY <2>2 DEF Passes, Combine
  <2>3. CASE mode = "none"
    BY <2>3 DEF Passes, Combine
  <2> QED
    BY <2>1, <2>2, <2>3 DEF Modes
<1>2. D \subseteq Node
  BY CombineTyped
<1>3. {t.output : t \in {u \in tests : Passes(mode, values, u)}} = D
  <2> HIDE DEF D
  <2>1. ASSUME NEW t \in tests, Passes(mode, values, t) PROVE t.output \in D
    BY <1>1, <2>1
  <2>2. ASSUME NEW n \in D
        PROVE  \E t \in tests : Passes(mode, values, t) /\ t.output = n
    BY <1>1, <1>2
  <2> QED
    BY <2>1, <2>2
<1> QED
  BY <1>3 DEF match

(* The values which are sets of ids stand for the nodes among them, those  *)
(* which are undefined for none, or for a TypeError.                       *)
LEMMA MatchNodes ==
  ASSUME TypeOK, Plain, NEW mode \in Modes, NEW values, NEW means,
         \A i \in DOMAIN values : means[i] \subseteq Node,
         \A i \in DOMAIN values :
           \/ values[i] = Undefined /\ means[i] = {}
           \/ values[i] # Undefined /\ means[i] = values[i] \intersect Node
  PROVE  LET result == match(mode, values, IdTests)
         IN  \/ result = Combine(mode, {means[i] : i \in DOMAIN values})
             \/ result = Crash /\ \E i \in DOMAIN values : values[i] = Undefined
<1> DEFINE test == [n \in Node |-> [subject |-> {n}, output |-> n]]
<1>1. IdTests = TestsOf(test)
  BY PlainTests DEF TestsOf
<1>2. \A n \in Node : test[n].output = n /\ test[n].subject = {n}
  OBVIOUS
<1>3. \A n \in Node : test[n].subject # Undefined
  BY <1>2, PlainTests
<1> HIDE DEF test
<1>4. ASSUME NEW n \in Node, NEW i \in DOMAIN values
      PROVE  Hits(values, test[n], i) <=> n \in means[i]
  BY <1>2, <1>3 DEF Hits, Shares
<1> DEFINE result == match(mode, values, IdTests)
           C == Combine(mode, {means[i] : i \in DOMAIN values})
<1>5. result \in {Crash, Matched(mode, values, test, means)}
  <2>1. StandFor(values, test, means)
    BY <1>2, <1>4 DEF StandFor
  <2> QED
    BY <1>1, <2>1, MatchCombines
<1>6. Matched(mode, values, test, means) = C
  <2>1. C \subseteq Node
    BY CombineTyped
  <2>2. Matched(mode, values, test, means)
          = {n \in C : mode = "all" => test[n].subject # Undefined}
    BY DEF Matched
  <2> HIDE DEF C
  <2> QED
    BY <1>3, <2>1, <2>2
<1>7. ASSUME result = Crash, result # C
      PROVE  \E i \in DOMAIN values : values[i] = Undefined
  <2>1. C \in SUBSET Node
    BY CombineTyped
  <2>2. PICK n \in Node : Throws(mode, values, test[n])
    <3>1. {t.output : t \in {u \in IdTests : Passes(mode, values, u)}} # Crash
      <4>1. {t.output : t \in {u \in IdTests : Passes(mode, values, u)}} \in SUBSET Node
        BY PlainTests
      <4> QED
        BY <4>1, PlainTests
    <3> QED
      BY <1>1, <1>7, <3>1 DEF match, TestsOf
  <2> QED
    BY <1>3, <2>2 DEF Throws
<1> QED
  BY <1>5, <1>6, <1>7

(* The values of a tag stand for the nodes which carry them.               *)
LEMMA TagResolves ==
  ASSUME TypeOK, Plain, NEW e, e.tag \in Tag, e.values \subseteq Word,
         IsFiniteSet(e.values), Mode(e) \in Modes
  PROVE  \/ ResolveTag(e) = TagMeaning(e)
         \/ /\ ResolveTag(e) = Crash
            /\ Mode(e) = "none"
            /\ \E n \in Node : node[n].tags[e.tag] = Undefined
<1> DEFINE values == Singletons(e.values)
           test == [n \in Node |-> [subject |-> node[n].tags[e.tag], output |-> n]]
           carries == [i \in DOMAIN values |->
                         {n \in Node : /\ node[n].tags[e.tag] # Undefined
                                       /\ values[i] \intersect node[n].tags[e.tag] # {}}]
<1>1. TagTests(e.tag) = TestsOf(test)
  BY DEF TagTests, TestsOf, Plain
<1>2. \A n \in Node : test[n].output = n /\ test[n].subject = node[n].tags[e.tag]
  OBVIOUS
<1>3. ResolveTag(e) = match(Mode(e), values, TagTests(e.tag))
  BY DEF ResolveTag, Plain
<1>4. {values[i] : i \in DOMAIN values} = {{w} : w \in e.values}
  BY SingletonsListed
<1>5. \A i \in DOMAIN values : values[i] # Undefined
  BY <1>4, SentinelAssumption
<1>6. {carries[i] : i \in DOMAIN values} = {Carrying(e.tag, w) : w \in e.values}
  <2>1. ASSUME NEW i \in DOMAIN values, NEW w, values[i] = {w}
        PROVE  carries[i] = Carrying(e.tag, w)
    BY <2>1 DEF Carrying
  <2>2. \A i \in DOMAIN values : \E w \in e.values : values[i] = {w}
    BY <1>4
  <2>3. \A w \in e.values : \E i \in DOMAIN values : values[i] = {w}
    BY <1>4
  <2> HIDE DEF values, carries
  <2>4. ASSUME NEW i \in DOMAIN values
        PROVE  carries[i] \in {Carrying(e.tag, w) : w \in e.values}
    BY <2>1, <2>2
  <2>5. ASSUME NEW w \in e.values
        PROVE  Carrying(e.tag, w) \in {carries[i] : i \in DOMAIN values}
    BY <2>1, <2>3
  <2> QED
    BY <2>4, <2>5
<1>7. \A i \in DOMAIN values : /\ carries[i] \subseteq Node
                               /\ \A n \in Node : n \in carries[i] <=>
                                    /\ node[n].tags[e.tag] # Undefined
                                    /\ values[i] \intersect node[n].tags[e.tag] # {}
  OBVIOUS
<1> HIDE DEF values, test, carries
<1>8. \A n \in Node : \A i \in DOMAIN values :
        Hits(values, test[n], i) <=> n \in carries[i]
  BY <1>2, <1>5, <1>7 DEF Hits, Shares
<1> DEFINE C == Combine(Mode(e), {carries[i] : i \in DOMAIN values})
<1>9. match(Mode(e), values, TagTests(e.tag))
        \in {Crash, Matched(Mode(e), values, test, carries)}
  <2>1. StandFor(values, test, carries)
    BY <1>2, <1>7, <1>8 DEF StandFor
  <2> QED
    BY <1>1, <2>1, MatchCombines
<1>10. Matched(Mode(e), values, test, carries) = TagMeaning(e)
  <2>1. C \subseteq Node /\ C = Combine(Mode(e), {Carrying(e.tag, w) : w \in e.values})
    BY <1>6, <1>7, CombineTyped
  <2>2. Matched(Mode(e), values, test, carries)
          = {n \in C : Mode(e) = "all" => test[n].subject # Undefined}
    BY DEF Matched
  <2> HIDE DEF C
  <2> QED
    BY <1>2, <2>1, <2>2 DEF TagMeaning
<1>11. ASSUME match(Mode(e), values, TagTests(e.tag)) = Crash,
              TagMeaning(e) # Crash
       PROVE  Mode(e) = "none" /\ \E n \in Node : node[n].tags[e.tag] = Undefined
  <2>1. {t.output : t \in {u \in TagTests(e.tag) : Passes(Mode(e), values, u)}} # Crash
    <3>1. {t.output : t \in {u \in TagTests(e.tag) : Passes(Mode(e), values, u)}}
            \in SUBSET Node
      BY <1>1, <1>2 DEF TestsOf
    <3> QED
      BY <3>1, PlainTests
  <2>2. PICK n \in Node : Throws(Mode(e), values, test[n])
    BY <1>1, <1>11, <2>1 DEF match, TestsOf
  <2> QED
    BY <1>2, <1>5, <2>2 DEF Throws
<1>12. TagMeaning(e) # Crash
  BY TagMeaningTyped, PlainTests
<1> QED
  BY <1>3, <1>9, <1>10, <1>11, <1>12
-----------------------------------------------------------------------------
(* What an affinity of each type consists of.                              *)
Fields(a) ==
  /\ a.type = "nodes" => a.names \subseteq Id /\ IsFiniteSet(a.names)
  /\ a.type = "tags" =>
       /\ IsFiniteSet(a.tags)
       /\ \A e \in a.tags : /\ e.tag \in Tag
                            /\ e.values \subseteq Word
                            /\ IsFiniteSet(e.values)

LEMMA NodesResolve ==
  ASSUME TypeOK, Plain, NEW a, a.type = "nodes", Fields(a), Mode(a) \in Modes
  PROVE  ResolveNodes(a) = Means(a, Meaning)
<1> DEFINE values == Singletons(a.names)
           means == [i \in DOMAIN values |-> values[i] \intersect Node]
<1>1. {values[i] : i \in DOMAIN values} = {{x} : x \in a.names}
  BY SingletonsListed DEF Fields
<1>2. {means[i] : i \in DOMAIN values} = {{x} \intersect Node : x \in a.names}
  <2>1. {means[i] : i \in DOMAIN values} = {values[i] \intersect Node : i \in DOMAIN values}
    OBVIOUS
  <2> HIDE DEF values, means
  <2>2. ASSUME NEW i \in DOMAIN values
        PROVE  values[i] \intersect Node \in {{x} \intersect Node : x \in a.names}
    BY <1>1
  <2>3. ASSUME NEW x \in a.names
        PROVE  {x} \intersect Node \in {values[i] \intersect Node : i \in DOMAIN values}
    BY <1>1
  <2> QED
    BY <2>1, <2>2, <2>3
<1>3. /\ \A i \in DOMAIN values : means[i] = values[i] \intersect Node
      /\ \A i \in DOMAIN values : means[i] \subseteq Node
  OBVIOUS
<1> HIDE DEF values, means
<1>4. \A i \in DOMAIN values : values[i] # Undefined
  <2>1. \A x \in a.names : {x} # Undefined
    BY SentinelAssumption DEF Fields
  <2> QED
    BY <1>1, <2>1
<1>5. match(Mode(a), values, IdTests) = Combine(Mode(a), {means[i] : i \in DOMAIN values})
  <2>1. \A i \in DOMAIN values :
           \/ values[i] = Undefined /\ means[i] = {}
           \/ values[i] # Undefined /\ means[i] = values[i] \intersect Node
    BY <1>3, <1>4
  <2> QED
    BY <1>3, <1>4, <2>1, MatchNodes
<1> QED
  BY <1>2, <1>5, PlainTests DEF ResolveNodes, Means, values

LEMMA TagsResolve ==
  ASSUME TypeOK, Plain, NEW a, a.type = "tags", Fields(a), Mode(a) \in Modes
  PROVE  \/ ResolveTags(a) = Means(a, Meaning)
         \/ ResolveTags(a) = Crash /\ Affects(a, Affected)
<1> DEFINE found == {ResolveTag(e) : e \in a.tags}
<1>1. ASSUME NEW e \in a.tags
      PROVE  ResolveTag(e) = TagMeaning(e) \/ (ResolveTag(e) = Crash /\ Affects(a, Affected))
  <2>1. e.tag \in Tag /\ e.values \subseteq Word /\ IsFiniteSet(e.values)
    BY DEF Fields
  <2>2. CASE Mode(e) \in Modes
    <3>1. \/ ResolveTag(e) = TagMeaning(e)
          \/ /\ ResolveTag(e) = Crash
             /\ Mode(e) = "none"
             /\ \E n \in Node : node[n].tags[e.tag] = Undefined
      BY <2>1, <2>2, TagResolves
    <3>2. Mode(e) = "none" /\ (\E n \in Node : node[n].tags[e.tag] = Undefined)
            => Affects(a, Affected)
      BY DEF Affects
    <3> QED
      BY <3>1, <3>2
  <2>3. CASE Mode(e) \notin Modes
    BY <2>3 DEF Affects, ResolveTag, match
  <2> QED
    BY <2>2, <2>3
<1>2. CASE Crash \in found
  <2>1. PICK e \in a.tags : ResolveTag(e) = Crash
    BY <1>2
  <2>2. TagMeaning(e) # Crash
    BY TagMeaningTyped, PlainTests
  <2>3. Affects(a, Affected)
    BY <1>1, <2>1, <2>2
  <2> QED
    BY <1>2, <2>3 DEF ResolveTags
<1>3. CASE Crash \notin found
  <2>1. \A e \in a.tags : ResolveTag(e) = TagMeaning(e)
    BY <1>1, <1>3
  <2>2. found = {TagMeaning(e) : e \in a.tags}
    BY <2>1
  <2>3. IsFiniteSet(found)
    <3> DEFINE f == [e \in a.tags |-> TagMeaning(e)]
    <3>1. IsFiniteSet({f[e] : e \in a.tags})
      <4>1. DOMAIN f = a.tags /\ f = [e \in a.tags |-> f[e]] /\ IsFiniteSet(a.tags)
        BY DEF Fields
      <4> HIDE DEF f
      <4> QED
        BY <4>1, FiniteImage
    <3>2. {f[e] : e \in a.tags} = found
      BY <2>2
    <3> QED
      BY <3>1, <3>2
  <2>4. found \in SUBSET SUBSET Node
    BY <2>2, TagMeaningTyped
  <2> HIDE DEF found
  <2> DEFINE values == SetToSeq(found)
  <2>5. {values[i] : i \in DOMAIN values} = found
    BY <2>3, Listing
  <2> HIDE DEF values
  <2>6. \A i \in DOMAIN values : values[i] \subseteq Node /\ values[i] # Undefined
    BY <2>4, <2>5, PlainTests
  <2>7. match(Mode(a), values, IdTests) = Combine(Mode(a), {values[i] : i \in DOMAIN values})
    <3>1. \A i \in DOMAIN values : values[i] = values[i] \intersect Node
      BY <2>6
    <3>2. \A i \in DOMAIN values :
            \/ values[i] = Undefined /\ values[i] = {}
            \/ values[i] # Undefined /\ values[i] = values[i] \intersect Node
      BY <2>6, <3>1
    <3> QED
      BY <2>6, <3>2, MatchNodes
  <2>8. ResolveTags(a) = match(Mode(a), values, IdTests)
    BY <1>3 DEF ResolveTags, found, values
  <2>9. Means(a, Meaning) = Combine(Mode(a), {TagMeaning(e) : e \in a.tags})
    BY DEF Means
  <2> QED
    BY <2>2, <2>5, <2>7, <2>8, <2>9
<1> QED
  BY <1>2, <1>3
(* What holds of the parts of an affinity holds of the affinity.           *)
Settled(a) == Accepted[a] => Agrees(Resolution[a], Meaning[a], Affected[a])

LEMMA PartsResolve ==
  ASSUME TypeOK, Plain, NEW a, a.type = "generic", Mode(a) \in Modes,
         \A i \in DOMAIN a.parts :
           Agrees(Resolution[a.parts[i]], Meaning[a.parts[i]], Affected[a.parts[i]])
  PROVE  \/ Resolved(a, Resolution) = Means(a, Meaning) /\ Means(a, Meaning) \subseteq Node
         \/ Resolved(a, Resolution) = Crash /\ Affects(a, Affected)
<1> DEFINE found == [i \in DOMAIN a.parts |-> Resolution[a.parts[i]]]
           means == [i \in DOMAIN a.parts |-> Meaning[a.parts[i]]]
<1>1. Resolved(a, Resolution) = IF \E i \in DOMAIN found : found[i] = Crash
                                THEN Crash
                                ELSE match(Mode(a), found, IdTests)
  BY DEF Resolved
<1>2. Means(a, Meaning) = Combine(Mode(a), {means[i] : i \in DOMAIN found})
  BY DEF Means
<1>3. \A i \in DOMAIN found : Agrees(found[i], means[i], Affected[a.parts[i]])
  OBVIOUS
<1>4. DOMAIN found = DOMAIN a.parts
  OBVIOUS
<1> HIDE DEF found, means
<1>5. \A i \in DOMAIN found : Affected[a.parts[i]] => Affects(a, Affected)
  BY <1>4 DEF Affects
<1>6. \A S \in SUBSET Node : S # Undefined /\ S # Crash
  BY PlainTests
<1>7. CASE \E i \in DOMAIN found : found[i] = Crash
  BY <1>1, <1>3, <1>5, <1>6, <1>7, SentinelAssumption DEF Agrees
<1>8. CASE ~\E i \in DOMAIN found : found[i] = Crash
  <2>1. \A i \in DOMAIN found : means[i] \subseteq Node
    BY <1>3, <1>8 DEF Agrees
  <2>2. \A i \in DOMAIN found :
          \/ found[i] = Undefined /\ means[i] = {}
          \/ found[i] # Undefined /\ means[i] = found[i] \intersect Node
    BY <1>3, <1>6, <1>8 DEF Agrees
  <2>3. \/ match(Mode(a), found, IdTests)
              = Combine(Mode(a), {means[i] : i \in DOMAIN found})
        \/ /\ match(Mode(a), found, IdTests) = Crash
           /\ \E i \in DOMAIN found : found[i] = Undefined
    BY <2>1, <2>2, MatchNodes
  <2>4. \A i \in DOMAIN found : found[i] = Undefined => Affects(a, Affected)
    BY <1>3, <1>5, <1>6, SentinelAssumption DEF Agrees
  <2>5. Means(a, Meaning) \subseteq Node
    <3>1. {means[i] : i \in DOMAIN found} \in SUBSET SUBSET Node
      BY <2>1
    <3> QED
      BY <1>2, <3>1, CombineTyped
  <2> QED
    BY <1>1, <1>2, <1>8, <2>3, <2>4, <2>5
<1> QED
  BY <1>7, <1>8

(* An affinity which is accepted resolves to what it means, unless it, or  *)
(* a part of it, is of the kind which resolve does not handle.             *)
LEMMA ResolvedAgrees ==
  ASSUME TypeOK, Plain, NEW a, Fields(a), Accepts(a, Accepted),
         a.type = "generic" =>
           \A i \in DOMAIN a.parts :
             Agrees(Resolution[a.parts[i]], Meaning[a.parts[i]], Affected[a.parts[i]])
  PROVE  Agrees(Resolved(a, Resolution), Means(a, Meaning), Affects(a, Affected))
<1> DEFINE result == Resolved(a, Resolution)
<1>1. a.type \in {"nodes", "tags", "services", "generic"}
  BY DEF Accepts
<1>2. CASE a.type = "services"
  <2>1. result = Undefined /\ Affects(a, Affected) /\ Means(a, Meaning) = {}
    BY <1>2 DEF Resolved, Affects, Means
  <2> QED
    BY <2>1 DEF Agrees
<1>3. CASE a.type # "services" /\ Mode(a) \notin Modes
  <2>1. result = Crash /\ Affects(a, Affected)
    BY <1>1, <1>3 DEF Resolved, ResolveTags, ResolveNodes, match, Affects
  <2> QED
    BY <2>1 DEF Agrees
<1>4. CASE a.type # "services" /\ Mode(a) \in Modes
  <2>1. CASE a.type = "nodes"
    <3>1. {{x} \intersect Node : x \in a.names} \in SUBSET SUBSET Node
      OBVIOUS
    <3>2. Means(a, Meaning) \subseteq Node
      BY <2>1, <3>1, CombineTyped DEF Means
    <3>3. result = ResolveNodes(a)
      BY <2>1 DEF Resolved
    <3>4. result = Means(a, Meaning)
      BY <1>4, <2>1, <3>3, NodesResolve
    <3> QED
      BY <3>2, <3>4 DEF Agrees
  <2>2. CASE a.type = "tags"
    <3>1. {TagMeaning(e) : e \in a.tags} \in SUBSET SUBSET Node
      BY TagMeaningTyped
    <3>2. Means(a, Meaning) \subseteq Node
      BY <2>2, <3>1, CombineTyped DEF Means
    <3>3. result = ResolveTags(a)
      BY <2>2 DEF Resolved
    <3>4. result = Means(a, Meaning) \/ (result = Crash /\ Affects(a, Affected))
      BY <1>4, <2>2, <3>3, TagsResolve
    <3> QED
      BY <3>2, <3>4 DEF Agrees
  <2>3. CASE a.type = "generic"
    BY <1>4, <2>3, PartsResolve DEF Agrees
  <2> QED
    BY <1>1, <1>4, <2>1, <2>2, <2>3
<1> QED
  BY <1>2, <1>3, <1>4

(* Hence every affinity which is accepted, however deep its parts are.     *)
LEMMA AllSettled ==
  ASSUME TypeOK, Plain
  PROVE  \A a \in Affinity : Settled(a)
<1> DEFINE D == {Depth[a] : a \in {b \in Affinity : ~Settled(b)}}
<1> SUFFICES ASSUME D # {} PROVE FALSE
  OBVIOUS
<1>1. D \in SUBSET Nat
  BY AffinityAssumption
<1>2. PICK d \in D : \A e \in D : ~(e < d)
  <2> HIDE DEF D
  <2> QED
    BY <1>1, LeastNumber
<1>3. PICK a \in Affinity : ~Settled(a) /\ Depth[a] = d
  OBVIOUS
<1>4. \A b \in Affinity : Depth[b] < Depth[a] => Settled(b)
  BY <1>2, <1>3
<1>5. Accepted[a] /\ ~Agrees(Resolution[a], Meaning[a], Affected[a])
  BY <1>3 DEF Settled
<1>6. Accepts(a, Accepted)
  BY <1>5, AcceptedRecurs
<1>7. Fields(a)
  BY AffinityAssumption DEF Fields
<1>8. ASSUME a.type = "generic", NEW i \in DOMAIN a.parts
      PROVE  Agrees(Resolution[a.parts[i]], Meaning[a.parts[i]], Affected[a.parts[i]])
  <2>1. Accepted[a.parts[i]]
    BY <1>6, <1>8 DEF Accepts
  <2>2. a.parts[i] \in Affinity /\ Depth[a.parts[i]] < Depth[a]
    BY <1>8, Nested
  <2> QED
    BY <1>4, <2>1, <2>2 DEF Settled
<1>9. Agrees(Resolved(a, Resolution), Means(a, Meaning), Affects(a, Affected))
  BY <1>6, <1>7, <1>8, ResolvedAgrees
<1>10. Resolution[a] = Resolved(a, Resolution) /\ Meaning[a] = Means(a, Meaning)
  BY ResolutionRecurs, MeaningRecurs
<1>11. Affected[a] = Affects(a, Affected)
  BY AffectedRecurs
<1> QED
  BY <1>5, <1>9, <1>10, <1>11
-----------------------------------------------------------------------------
(* What the affinities of the service resolve to, all together.            *)
Outcome == Resolve(Combined(affinities))

LEMMA OutcomeAgrees ==
  ASSUME TypeOK, Plain, affinities # << >>,
         \A i \in DOMAIN affinities : Accepted[affinities[i]]
  PROVE  Agrees(Outcome, UNION {Meaning[affinities[i]] : i \in DOMAIN affinities},
                \E i \in DOMAIN affinities : Affected[affinities[i]])
<1> DEFINE c == Combined(affinities)
           affected == \E i \in DOMAIN affinities : Affected[affinities[i]]
           meaning == UNION {Meaning[affinities[i]] : i \in DOMAIN affinities}
<1>1. /\ affinities \in Seq(Affinity)
      /\ DOMAIN affinities = 1..Len(affinities)
      /\ Len(affinities) \in Nat
      /\ \A i \in DOMAIN affinities : affinities[i] \in Affinity
  BY LenProperties, ElementOfSeq DEF TypeOK
<1>2. \A i \in DOMAIN affinities :
        Agrees(Resolution[affinities[i]], Meaning[affinities[i]], Affected[affinities[i]])
  BY <1>1, AllSettled DEF Settled
<1>3. CASE Len(affinities) = 1
  <2>1. DOMAIN affinities = {1}
    BY <1>1, <1>3
  <2>2. c = affinities[1]
    BY <1>3 DEF Combined
  <2>3. Outcome = Resolution[affinities[1]]
    BY <1>1, <2>1, <2>2, ResolutionRecurs DEF Outcome, Resolve
  <2>4. meaning = Meaning[affinities[1]]
    BY <2>1
  <2>5. Affected[affinities[1]] => affected
    BY <2>1
  <2>6. Agrees(Resolution[affinities[1]], Meaning[affinities[1]], Affected[affinities[1]])
    BY <1>2, <2>1
  <2> HIDE DEF meaning, affected
  <2>7. Agrees(Outcome, meaning, affected)
    BY <2>3, <2>4, <2>5, <2>6 DEF Agrees
  <2> QED
    BY <2>7 DEF meaning, affected
<1>4. CASE Len(affinities) # 1
  <2>1. /\ c.type = "generic" /\ c.shape = "list" /\ c.parts = affinities
        /\ Mode(c) = "any"
    BY <1>4, SentinelAssumption DEF Combined, Mode
  <2> HIDE DEF c
  <2>2. Fields(c) /\ Accepts(c, Accepted)
    BY <2>1 DEF Fields, Accepts
  <2>3. Agrees(Resolved(c, Resolution), Means(c, Meaning), Affects(c, Affected))
    BY <1>2, <2>1, <2>2, ResolvedAgrees
  <2>4. Means(c, Meaning) = meaning
    BY <2>1 DEF Means, Combine
  <2>5. Affects(c, Affected) => affected
    BY <2>1 DEF Affects, Modes
  <2>6. Outcome = Resolved(c, Resolution)
    BY DEF Outcome, Resolve, c
  <2> HIDE DEF meaning, affected
  <2>7. Agrees(Outcome, meaning, affected)
    BY <2>3, <2>4, <2>5, <2>6 DEF Agrees
  <2> QED
    BY <2>7 DEF meaning, affected
<1> QED
  BY <1>3, <1>4

(* Resolving reads nothing but the nodes and the affinities.               *)
LEMMA OutcomeKept ==
  ASSUME node' = node, affinities' = affinities
  PROVE  Outcome' = Outcome
<1>1. Resolution' = Resolution
  BY SMT DEF Resolution, Resolved, ResolveTags, ResolveNodes, ResolveTag, TagTests,
             IdTests, FqdnTests
<1> QED
  BY <1>1, SMT DEF Outcome, Resolve, Resolved, ResolveTags, ResolveNodes, ResolveTag,
                   TagTests, IdTests, FqdnTests

LEMMA InitIInv == Init => IInv
<1> SUFFICES ASSUME NEW in \in Inputs,
                    node = in.node, affinities = in.affinities,
                    dependents = in.dependents, handed = {},
                    status = "normalize", index = 1, instances = {}
             PROVE  IInv
  BY DEF Init
<1>1. WellFormed(in)
  BY InputsAssumption
<1>2. affinities \in Seq(Affinity) /\ Len(affinities) \in Nat
  BY <1>1, LenProperties DEF WellFormed
<1>3. DOMAIN affinities = 1..Len(affinities)
  BY <1>2, LenProperties
<1>4. TypeOK
  BY <1>1, <1>2 DEF TypeOK, WellFormed
<1>5. AllAccepted
  BY <1>3 DEF AllAccepted
<1> QED
  BY <1>4, <1>5 DEF IInv, HandedKept, Decided

(* The affinities a dependent gives are accepted.                          *)
LEMMA GivenAccepted ==
  ASSUME NEW ids \in SUBSET Node
  PROVE  Given(ids) \in Affinity /\ Accepted[Given(ids)]
<1>1. Given(ids) \in Affinity
  BY AffinityAssumption
<1>2. Accepts(Given(ids), Accepted)
  BY SentinelAssumption DEF Given, Accepts, AcceptedNodes, Written, Determined
<1> QED
  BY <1>1, <1>2, AcceptedRecurs

LEMMA NormalizeIInv ==
  ASSUME IInv, Normalize
  PROVE  IInv'
<1> DEFINE a == Typed(affinities[index])
<1>1. /\ status = "normalize" /\ index \in DOMAIN affinities
      /\ UNCHANGED <<node, dependents, handed, instances>>
  BY DEF Normalize
<1>2. /\ affinities \in Seq(Affinity) /\ Len(affinities) \in Nat
      /\ DOMAIN affinities = 1..Len(affinities)
      /\ index \in 1..Len(affinities)
  BY <1>1, LenProperties DEF IInv, TypeOK
<1>3. a \in Affinity
  BY <1>1, <1>2, ElementOfSeq, AffinityAssumption
<1>4. handed = {} /\ status # "placed"
  BY <1>1 DEF IInv, HandedKept
<1>5. CASE Accepted[a]
  <2>1. /\ affinities' = [affinities EXCEPT ![index] = a]
        /\ index' = index + 1 /\ status' = status
    BY <1>5 DEF Normalize
  <2> HIDE DEF a
  <2>2. affinities' \in Seq(Affinity) /\ Len(affinities') = Len(affinities)
    BY <1>2, <1>3, <2>1, ExceptSeq
  <2>3. DOMAIN affinities' = 1..Len(affinities)
    BY <2>2, LenProperties
  <2>4. TypeOK'
    <3>1. index' \in 1..(Len(affinities') + 1)
      BY <1>2, <2>1, <2>2
    <3> QED
      BY <1>1, <2>1, <2>2, <3>1 DEF IInv, TypeOK
  <2>5. AllAccepted'
    <3>1. ASSUME NEW i \in 1..Len(affinities), i < index + 1
          PROVE  Accepted[affinities'[i]]
      <4>1. CASE i = index
        BY <1>2, <1>5, <2>1, <4>1
      <4>2. CASE i # index
        <5>1. i < index /\ affinities'[i] = affinities[i]
          BY <1>2, <2>1, <3>1, <4>2
        <5> QED
          BY <1>2, <5>1 DEF IInv, AllAccepted
      <4> QED
        BY <4>1, <4>2
    <3> QED
      BY <1>1, <2>1, <2>3, <3>1 DEF AllAccepted
  <2>6. HandedKept' /\ Decided'
    BY <1>1, <1>4, <2>1 DEF HandedKept, Decided
  <2> QED
    BY <2>4, <2>5, <2>6 DEF IInv
<1>6. CASE ~Accepted[a]
  <2>1. status' = "rejected" /\ UNCHANGED <<affinities, index>>
    BY <1>6 DEF Normalize
  <2>2. TypeOK'
    BY <1>1, <2>1 DEF IInv, TypeOK
  <2>3. AllAccepted'
    BY <1>1, <2>1 DEF IInv, AllAccepted
  <2>4. HandedKept' /\ Decided'
    BY <1>1, <1>4, <2>1 DEF HandedKept, Decided
  <2> QED
    BY <2>2, <2>3, <2>4 DEF IInv
<1> QED
  BY <1>5, <1>6

LEMMA EndNormalizeIInv ==
  ASSUME IInv, EndNormalize
  PROVE  IInv'
<1>1. /\ status = "normalize" /\ index \notin DOMAIN affinities /\ status' = "place"
      /\ UNCHANGED <<node, affinities, dependents, handed, index, instances>>
  BY DEF EndNormalize
<1>2. /\ Len(affinities) \in Nat
      /\ DOMAIN affinities = 1..Len(affinities)
      /\ index \in 1..(Len(affinities) + 1)
  BY LenProperties DEF IInv, TypeOK
<1>3. index = Len(affinities) + 1
  BY <1>1, <1>2
<1>4. AllAccepted'
  <2>1. ASSUME NEW i \in DOMAIN affinities PROVE Accepted[affinities[i]]
    <3>1. i < index
      BY <1>2, <1>3
    <3> QED
      BY <3>1 DEF IInv, AllAccepted
  <2> QED
    BY <1>1, <2>1 DEF AllAccepted
<1>5. TypeOK'
  BY <1>1 DEF IInv, TypeOK
<1>6. HandedKept' /\ Decided'
  BY <1>1 DEF IInv, HandedKept, Decided
<1> QED
  BY <1>4, <1>5, <1>6 DEF IInv
LEMMA HandOverIInv ==
  ASSUME IInv, HandOver
  PROVE  IInv'
<1> DEFINE ids == Head(dependents)
           n == Len(affinities) + 1
<1>1. /\ status = "place" /\ dependents # << >>
      /\ affinities' = Append(affinities, Given(ids))
      /\ handed' = handed \union ids
      /\ dependents' = Tail(dependents)
      /\ UNCHANGED <<node, status, index, instances>>
  BY DEF HandOver
<1>2. /\ affinities \in Seq(Affinity) /\ Len(affinities) \in Nat
      /\ DOMAIN affinities = 1..Len(affinities)
      /\ index \in 1..(Len(affinities) + 1)
  BY LenProperties DEF IInv, TypeOK
<1>3. ids \in SUBSET Node /\ dependents' \in Seq(SUBSET Node)
  BY <1>1, HeadTailProperties DEF IInv, TypeOK
<1>4. Given(ids) \in Affinity /\ Accepted[Given(ids)]
  BY <1>3, GivenAccepted
<1> HIDE DEF ids
<1>5. /\ affinities' \in Seq(Affinity)
      /\ Len(affinities') = Len(affinities) + 1
      /\ \A i \in 1..Len(affinities) : affinities'[i] = affinities[i]
      /\ affinities'[n] = Given(ids)
  BY <1>1, <1>2, <1>4, AppendProperties
<1>6. DOMAIN affinities' = 1..(Len(affinities) + 1)
  BY <1>5, LenProperties
<1>7. /\ n \in DOMAIN affinities'
      /\ \A i \in DOMAIN affinities : i \in DOMAIN affinities'
      /\ \A i \in DOMAIN affinities' : i = n \/ i \in DOMAIN affinities
  BY <1>2, <1>6
<1> HIDE DEF n
<1>8. TypeOK'
  <2>1. index' \in 1..(Len(affinities') + 1)
    BY <1>1, <1>2, <1>5
  <2>2. handed' \subseteq Node
    BY <1>1, <1>3 DEF IInv, TypeOK
  <2> QED
    BY <1>1, <1>3, <1>5, <2>1, <2>2 DEF IInv, TypeOK
<1>9. AllAccepted'
  <2>1. \A i \in DOMAIN affinities : Accepted[affinities[i]]
    BY <1>1 DEF IInv, AllAccepted
  <2>2. \A i \in DOMAIN affinities' : Accepted[affinities'[i]]
    BY <1>2, <1>4, <1>5, <1>7, <2>1
  <2> QED
    BY <2>2 DEF AllAccepted
<1>10. HandedKept'
  <2>1. ASSUME NEW m \in handed'
        PROVE  \E i \in DOMAIN affinities' : \E S \in SUBSET Node :
                 m \in S /\ affinities'[i] = Given(S)
    <3>1. CASE m \in ids
      BY <1>3, <1>5, <1>7, <3>1
    <3>2. CASE m \in handed
      <4>1. PICK i \in DOMAIN affinities : \E S \in SUBSET Node :
              m \in S /\ affinities[i] = Given(S)
        BY <3>2 DEF IInv, HandedKept
      <4>2. i \in DOMAIN affinities' /\ affinities'[i] = affinities[i]
        BY <1>2, <1>5, <1>7
      <4> QED
        BY <4>1, <4>2
    <3> QED
      BY <1>1, <2>1, <3>1, <3>2
  <2>2. status' \notin {"normalize", "rejected"}
    BY <1>1
  <2> QED
    BY <2>1, <2>2 DEF HandedKept
<1>11. Decided'
  BY <1>1 DEF Decided
<1> QED
  BY <1>8, <1>9, <1>10, <1>11 DEF IInv

LEMMA PlaceIInv ==
  ASSUME IInv, Place
  PROVE  IInv'
<1> DEFINE ids == IF affinities = << >> THEN {} ELSE Outcome
<1>1. /\ status = "place"
      /\ IF ids \notin {Crash, Undefined} /\ Found(ids)
         THEN status' = "placed" /\ instances' = ids
         ELSE status' = "crashed" /\ UNCHANGED instances
      /\ UNCHANGED <<node, affinities, dependents, handed, index>>
  BY DEF Place, Outcome
<1>2. Outcome' = Outcome
  BY <1>1, OutcomeKept
<1>3. AllAccepted'
  BY <1>1 DEF IInv, AllAccepted
<1>4. HandedKept'
  BY <1>1 DEF IInv, HandedKept
<1>5. CASE ids \notin {Crash, Undefined} /\ Found(ids)
  <2>1. status' = "placed" /\ instances' = ids
    BY <1>1, <1>5
  <2>2. TypeOK'
    BY <1>1, <1>5, <2>1 DEF IInv, TypeOK, Found
  <2>3. Decided'
    BY <1>1, <1>2, <1>5, <2>1 DEF Decided, Outcome
  <2> QED
    BY <1>3, <1>4, <2>2, <2>3 DEF IInv
<1>6. CASE ~(ids \notin {Crash, Undefined} /\ Found(ids))
  <2>1. status' = "crashed" /\ instances' = instances
    BY <1>1, <1>6
  <2>2. TypeOK'
    BY <1>1, <2>1 DEF IInv, TypeOK
  <2>3. affinities # << >>
    <3>1. \A S \in SUBSET Id : S # Crash /\ S # Undefined
      BY SentinelAssumption
    <3>2. {} \notin {Crash, Undefined} /\ Found({})
      BY <3>1 DEF Found
    <3> QED
      BY <1>6, <3>2
  <2>4. Found(Outcome)' = Found(Outcome)
    BY <1>1, <1>2 DEF Found
  <2>5. Decided'
    BY <1>1, <1>2, <1>6, <2>1, <2>3, <2>4 DEF Decided, Outcome
  <2> QED
    BY <1>3, <1>4, <2>2, <2>5 DEF IInv
<1> QED
  BY <1>5, <1>6

LEMMA StutterIInv ==
  ASSUME IInv, UNCHANGED vars
  PROVE  IInv'
<1>1. UNCHANGED <<node, affinities, dependents, handed, status, index, instances>>
  BY DEF vars
<1>2. Outcome' = Outcome
  BY <1>1, OutcomeKept
<1>3. Found(Outcome)' = Found(Outcome)
  BY <1>1, <1>2 DEF Found
<1>4. TypeOK' /\ AllAccepted' /\ HandedKept'
  BY <1>1 DEF IInv, TypeOK, AllAccepted, HandedKept
<1>5. Decided'
  BY <1>1, <1>2, <1>3 DEF IInv, Decided, Outcome
<1> QED
  BY <1>4, <1>5 DEF IInv

(* The inductive invariant.                                                *)
LEMMA IInvHolds == Spec => []IInv
<1>1. IInv /\ [Next]_vars => IInv'
  BY NormalizeIInv, EndNormalizeIInv, HandOverIInv, PlaceIInv, StutterIInv DEF Next
<1> QED
  BY <1>1, InitIInv, PTL DEF Spec

-----------------------------------------------------------------------------
(* The instances of a service are on nodes which exist, and each is found  *)
(* again by the id of its node.                                            *)
THEOREM AffinitiesTyped == Spec => []TypeOK
<1>1. IInv => TypeOK
  BY DEF IInv
<1> QED
  BY <1>1, IInvHolds, PTL

LEMMA PlacedAsMeant == IInv => UnionOfMeanings
<1> SUFFICES ASSUME IInv, status = "placed", Plain
             PROVE  instances = UNION {Meaning[affinities[i]] : i \in DOMAIN affinities}
  BY DEF UnionOfMeanings
<1>1. CASE affinities = << >>
  BY <1>1 DEF IInv, Decided
<1>2. CASE affinities # << >>
  <2> DEFINE meaning == UNION {Meaning[affinities[i]] : i \in DOMAIN affinities}
             affected == \E i \in DOMAIN affinities : Affected[affinities[i]]
  <2>1. instances = Outcome /\ instances \notin {Crash, Undefined}
    BY <1>2 DEF IInv, Decided, Outcome
  <2>2. \A i \in DOMAIN affinities : Accepted[affinities[i]]
    BY DEF IInv, AllAccepted
  <2>3. Agrees(Outcome, meaning, affected)
    BY <1>2, <2>2, OutcomeAgrees DEF IInv
  <2> HIDE DEF meaning, affected
  <2>4. instances = meaning
    BY <2>1, <2>3 DEF Agrees
  <2> QED
    BY <2>4 DEF meaning
<1> QED
  BY <1>1, <1>2

(* A service is placed on the nodes at least one of its affinities means,  *)
(* and on no other.                                                        *)
THEOREM PlacedWhereMeant == Spec => []UnionOfMeanings
  BY IInvHolds, PlacedAsMeant, PTL

(* A service is placed on all the nodes of its dependents.                 *)
THEOREM DependentsServed == Spec => []HandedOver
<1>1. ASSUME IInv PROVE HandedOver
  <2> SUFFICES ASSUME status = "placed", Plain, NEW m \in handed
               PROVE  m \in instances
    BY DEF HandedOver
  <2>1. PICK i \in DOMAIN affinities : \E S \in SUBSET Node :
          m \in S /\ affinities[i] = Given(S)
    BY <1>1 DEF IInv, HandedKept
  <2>2. PICK S \in SUBSET Node : m \in S /\ affinities[i] = Given(S)
    BY <2>1
  <2>3. Meaning[Given(S)] = Means(Given(S), Meaning)
    BY GivenAccepted, MeaningRecurs
  <2>4. Means(Given(S), Meaning) = Combine("any", {{x} \intersect Node : x \in S})
    BY SentinelAssumption DEF Means, Given, Mode
  <2>5. m \in Combine("any", {{x} \intersect Node : x \in S})
    BY <2>2 DEF Combine
  <2>6. instances = UNION {Meaning[affinities[j]] : j \in DOMAIN affinities}
    BY <1>1, PlacedAsMeant DEF UnionOfMeanings
  <2> QED
    BY <2>2, <2>3, <2>4, <2>5, <2>6
<1> QED
  BY <1>1, IInvHolds, PTL

(* An affinity which was accepted resolves, but for the kinds which resolve *)
(* does not handle.                                                         *)
THEOREM AcceptedOnesResolve == Spec => []AcceptedResolves
<1>1. ASSUME IInv PROVE AcceptedResolves
  <2> SUFFICES ASSUME status = "crashed", Plain
               PROVE  \E i \in DOMAIN affinities : Affected[affinities[i]]
    BY DEF AcceptedResolves
  <2> DEFINE meaning == UNION {Meaning[affinities[i]] : i \in DOMAIN affinities}
             affected == \E i \in DOMAIN affinities : Affected[affinities[i]]
  <2>1. /\ affinities # << >>
        /\ Outcome \notin {Crash, Undefined} => ~Found(Outcome)
    BY <1>1 DEF IInv, Decided, Outcome
  <2>2. \A i \in DOMAIN affinities : Accepted[affinities[i]]
    BY <1>1 DEF IInv, AllAccepted
  <2>3. Agrees(Outcome, meaning, affected)
    BY <1>1, <2>1, <2>2, OutcomeAgrees DEF IInv
  <2> HIDE DEF meaning, affected
  <2>4. ASSUME Outcome = meaning, meaning \subseteq Node PROVE FALSE
    <3>1. Outcome \notin {Crash, Undefined}
      BY <1>1, <2>4, PlainTests DEF IInv
    <3>2. Found(Outcome)
      BY <2>4 DEF Found, Plain
    <3> QED
      BY <2>1, <3>1, <3>2
  <2>5. affected
    BY <2>3, <2>4 DEF Agrees
  <2> QED
    BY <2>5 DEF affected
<1> QED
  BY <1>1, IInvHolds, PTL
-----------------------------------------------------------------------------
(* Without the option match, an accepted affinity has at most one value.   *)
LEMMA OneValue ==
  ASSUME NEW S, IsFiniteSet(S), S # {}, Determined(S, None)
  PROVE  /\ \E x : S = {x}
         /\ DOMAIN SetToSeq(S) = {1}
<1>1. Cardinality(S) \in Nat /\ ~(Cardinality(S) > 1)
  BY FS_CardinalityType DEF Determined
<1>2. Cardinality(S) # 0
  BY FS_EmptySet
<1>3. Cardinality(S) = 1
  BY <1>1, <1>2
<1>4. \E x : S = {x}
  BY <1>3, FS_Singleton
<1>5. DOMAIN SetToSeq(S) = 1..1
  BY <1>3, Listing
<1> QED
  BY <1>4, <1>5

LEMMA OneSingleton ==
  ASSUME NEW S, IsFiniteSet(S), S # {}, Determined(S, None)
  PROVE  DOMAIN Singletons(S) = {1}
<1>1. PICK x : S = {x}
  BY OneValue
<1>2. {{y} : y \in S} = {{x}}
  BY <1>1
<1>3. Cardinality({{x}}) = 1
  BY FS_Singleton
<1>4. DOMAIN Singletons(S) = 1..1
  BY <1>2, <1>3, SingletonsListed
<1> QED
  BY <1>4

(* What the other default changes in an affinity or in a tag.              *)
LEMMA OrAnyFields ==
  ASSUME NEW x, "match" \in DOMAIN x
  PROVE  /\ Mode(OrAny(x)) = IF x.match = None THEN "any" ELSE Mode(x)
         /\ "type" \in DOMAIN x => OrAny(x).type = x.type
         /\ "names" \in DOMAIN x => OrAny(x).names = x.names
         /\ "parts" \in DOMAIN x => OrAny(x).parts = x.parts
         /\ "tag" \in DOMAIN x => OrAny(x).tag = x.tag
         /\ "values" \in DOMAIN x => OrAny(x).values = x.values
<1>1. CASE x.match # None
  BY <1>1 DEF OrAny
<1>2. CASE x.match = None
  <2> DEFINE b == [x EXCEPT !.match = "any"]
  <2>1. OrAny(x) = b
    BY <1>2 DEF OrAny
  <2>2. b.match = "any"
    OBVIOUS
  <2>3. /\ "type" \in DOMAIN x => b.type = x.type
        /\ "names" \in DOMAIN x => b.names = x.names
        /\ "parts" \in DOMAIN x => b.parts = x.parts
        /\ "tag" \in DOMAIN x => b.tag = x.tag
        /\ "values" \in DOMAIN x => b.values = x.values
    OBVIOUS
  <2> HIDE DEF b
  <2>4. Mode(b) = "any"
    BY <2>2, SentinelAssumption DEF Mode
  <2> QED
    BY <1>2, <2>1, <2>3, <2>4
<1> QED
  BY <1>1, <1>2

LEMMA RereadFields ==
  ASSUME NEW a \in Affinity
  PROVE  /\ Mode(Reread(a)) = Mode(OrAny(a))
         /\ Reread(a).type = a.type
         /\ a.type = "nodes" => Reread(a).names = a.names
         /\ a.type = "generic" => Reread(a).parts = a.parts
         /\ a.type = "tags" => Reread(a).tags = {OrAny(e) : e \in a.tags}
<1>1. /\ {"type", "match"} \subseteq DOMAIN a
      /\ a.type = "nodes" => "names" \in DOMAIN a
      /\ a.type = "generic" => "parts" \in DOMAIN a
      /\ a.type = "tags" => "tags" \in DOMAIN a
  BY AffinityAssumption DEF Nests
<1>2. CASE a.type = "tags"
  <2> DEFINE x == OrAny(a)
             t == {OrAny(e) : e \in a.tags}
             b == [x EXCEPT !.tags = t]
  <2>1. DOMAIN x = DOMAIN a
    BY DEF OrAny
  <2>2. x.type = a.type
    BY <1>1, OrAnyFields
  <2>3. Reread(a) = b
    BY <1>2 DEF Reread
  <2> HIDE DEF x, t
  <2>4. b.type = x.type /\ b.match = x.match /\ b.tags = t
    BY <1>1, <1>2, <2>1
  <2>5. Mode(b) = Mode(x)
    BY <2>4 DEF Mode
  <2> QED
    BY <1>2, <2>2, <2>3, <2>4, <2>5 DEF x, t
<1>3. CASE a.type # "tags"
  BY <1>1, <1>3, OrAnyFields DEF Reread
<1> QED
  BY <1>2, <1>3

(* With one value at most, both defaults give the same result.             *)
LEMMA DefaultsMatch ==
  ASSUME NEW x, "match" \in DOMAIN x, NEW values, NEW tests,
         x.match = None => DOMAIN values = {1}
  PROVE  match(Mode(OrAny(x)), values, tests) = match(Mode(x), values, tests)
<1>1. CASE x.match = None
  <2>1. Mode(x) = "all" /\ Mode(OrAny(x)) = "any"
    BY <1>1, OrAnyFields DEF Mode
  <2> QED
    BY <1>1, <2>1, SingleMatch
<1>2. CASE x.match # None
  <2>1. Mode(OrAny(x)) = Mode(x)
    BY <1>2, OrAnyFields
  <2> QED
    BY <2>1
<1> QED
  BY <1>1, <1>2

LEMMA NodesDefault ==
  ASSUME NEW a \in Affinity, Accepted[a], a.type = "nodes",
         a.match = None => a.names # {}
  PROVE  ResolveNodes(Reread(a)) = ResolveNodes(a)
<1>1. "match" \in DOMAIN a /\ IsFiniteSet(a.names)
  BY AffinityAssumption
<1>2. a.match = None => DOMAIN Singletons(a.names) = {1}
  <2>1. Determined(a.names, a.match)
    BY AcceptedRecurs DEF Accepts, AcceptedNodes
  <2> QED
    BY <1>1, <2>1, OneSingleton
<1>3. ResolveNodes(Reread(a)) = match(Mode(OrAny(a)), Singletons(a.names), FqdnTests)
  BY RereadFields DEF ResolveNodes
<1> QED
  BY <1>1, <1>2, <1>3, DefaultsMatch DEF ResolveNodes

LEMMA TagDefault ==
  ASSUME NEW a \in Affinity, Accepted[a], a.type = "tags", NEW e \in a.tags,
         e.match = None => e.values # {}
  PROVE  ResolveTag(OrAny(e)) = ResolveTag(e)
<1>1. {"tag", "match", "values"} \subseteq DOMAIN e /\ IsFiniteSet(e.values)
  BY AffinityAssumption
<1>2. e.match = None => DOMAIN Singletons(e.values) = {1}
  <2>1. Determined(e.values, e.match)
    BY AcceptedRecurs DEF Accepts, AcceptedTags, AcceptedTag
  <2> QED
    BY <1>1, <2>1, OneSingleton
<1>3. OrAny(e).tag = e.tag /\ OrAny(e).values = e.values
  BY <1>1, OrAnyFields
<1>4. match(Mode(OrAny(e)), Singletons(e.values), TagTests(e.tag))
        = match(Mode(e), Singletons(e.values), TagTests(e.tag))
  BY <1>1, <1>2, DefaultsMatch
<1> QED
  BY <1>3, <1>4 DEF ResolveTag

LEMMA TagsDefault ==
  ASSUME NEW a \in Affinity, Accepted[a], a.type = "tags",
         a.match = None => a.tags # {},
         \A e \in a.tags : e.match = None => e.values # {}
  PROVE  ResolveTags(Reread(a)) = ResolveTags(a)
<1> DEFINE found == {ResolveTag(e) : e \in a.tags}
           values == SetToSeq(found)
<1>1. "match" \in DOMAIN a /\ IsFiniteSet(a.tags)
  BY AffinityAssumption
<1>2. {ResolveTag(e) : e \in Reread(a).tags} = found
  <2>1. Reread(a).tags = {OrAny(e) : e \in a.tags}
    BY RereadFields
  <2>2. \A e \in a.tags : ResolveTag(OrAny(e)) = ResolveTag(e)
    BY TagDefault
  <2> QED
    BY <2>1, <2>2
<1>3. a.match = None => DOMAIN values = {1}
  <2> SUFFICES ASSUME a.match = None PROVE DOMAIN values = {1}
    OBVIOUS
  <2>1. Determined(a.tags, None)
    BY AcceptedRecurs DEF Accepts, AcceptedTags
  <2>2. PICK x : a.tags = {x}
    BY <1>1, <2>1, OneValue
  <2>3. found = {ResolveTag(x)}
    BY <2>2
  <2>4. IsFiniteSet(found) /\ found # {} /\ Cardinality(found) = 1
    BY <2>3, FS_Singleton
  <2> HIDE DEF found
  <2>5. Determined(found, None)
    BY <2>4 DEF Determined
  <2> QED
    BY <2>4, <2>5, OneValue
<1> HIDE DEF found, values
<1>4. match(Mode(OrAny(a)), values, IdTests) = match(Mode(a), values, IdTests)
  BY <1>1, <1>3, DefaultsMatch
<1>5. ResolveTags(a) = IF Crash \in found THEN Crash ELSE match(Mode(a), values, IdTests)
  BY DEF ResolveTags, found, values
<1>6. ResolveTags(Reread(a))
        = IF Crash \in found THEN Crash ELSE match(Mode(Reread(a)), values, IdTests)
  BY <1>2 DEF ResolveTags, values
<1> QED
  BY <1>4, <1>5, <1>6, RereadFields

(* So do they for an affinity whose parts they leave alone.                *)
LEMMA ResolvedDefault ==
  ASSUME NEW a \in Affinity, Accepted[a], ~Leaves(a, LeftOpen), NEW r, NEW s,
         a.type = "generic" => \A i \in DOMAIN a.parts : r[a.parts[i]] = s[a.parts[i]]
  PROVE  Resolved(Reread(a), r) = Resolved(a, s)
<1>1. Reread(a).type = a.type
  BY RereadFields
<1>2. CASE a.type = "nodes"
  <2>1. ResolveNodes(Reread(a)) = ResolveNodes(a)
    BY <1>2, NodesDefault DEF Leaves
  <2> QED
    BY <1>1, <1>2, <2>1 DEF Resolved
<1>3. CASE a.type = "tags"
  <2>1. ResolveTags(Reread(a)) = ResolveTags(a)
    BY <1>3, TagsDefault DEF Leaves
  <2> QED
    BY <1>1, <1>3, <2>1 DEF Resolved
<1>4. CASE a.type = "generic"
  <2> DEFINE found == [i \in DOMAIN a.parts |-> s[a.parts[i]]]
             crash == \E i \in DOMAIN found : found[i] = Crash
  <2>1. [i \in DOMAIN a.parts |-> r[a.parts[i]]] = found
    BY <1>4
  <2>2. a.match = None => DOMAIN found = {1}
    <3>1. a.parts \in Seq(Affinity)
      BY <1>4, AffinityAssumption DEF Nests
    <3>2. DOMAIN a.parts = 1..Len(a.parts)
      BY <3>1, LenProperties
    <3>3. a.match = None => Len(a.parts) = 1
      BY <1>4 DEF Leaves
    <3>4. DOMAIN found = DOMAIN a.parts /\ 1..1 = {1}
      OBVIOUS
    <3> HIDE DEF found
    <3> QED
      BY <3>2, <3>3, <3>4
  <2>3. Resolved(a, s) = IF crash THEN Crash ELSE match(Mode(a), found, IdTests)
    BY <1>4 DEF Resolved
  <2>4. Resolved(Reread(a), r)
          = IF crash THEN Crash ELSE match(Mode(Reread(a)), found, IdTests)
    <3>1. Reread(a).parts = a.parts
      BY <1>4, RereadFields
    <3> HIDE DEF found
    <3>2. [i \in DOMAIN Reread(a).parts |-> r[Reread(a).parts[i]]] = found
      BY <2>1, <3>1
    <3> QED
      BY <1>1, <1>4, <3>2 DEF Resolved
  <2> HIDE DEF found, crash
  <2>5. match(Mode(OrAny(a)), found, IdTests) = match(Mode(a), found, IdTests)
    BY <2>2, AffinityAssumption, DefaultsMatch
  <2> QED
    BY <2>3, <2>4, <2>5, RereadFields
<1>5. CASE a.type \notin {"nodes", "tags", "generic"}
  BY <1>1, <1>5 DEF Resolved
<1> QED
  BY <1>2, <1>3, <1>4, <1>5

(* What resolve returns with the other default is well-defined.            *)
LEMMA AlternativeRecurs ==
  ASSUME TypeOK
  PROVE  \A a \in Affinity : Alternative[a] = Resolved(Reread(a), Alternative)
<1> DEFINE G == [p \in Affinity \X [Affinity -> Results] |-> Resolved(Reread(p[1]), p[2])]
<1>1. G \in [Affinity \X [Affinity -> Results] -> Results]
  BY ResolvedTyped
<1>2. ASSUME NEW a \in Affinity,
             NEW g \in [Affinity -> Results], NEW h \in [Affinity -> Results],
             \A b \in Affinity : Depth[b] < Depth[a] => g[b] = h[b]
      PROVE  G[<<a, g>>] = G[<<a, h>>]
  <2>1. Reread(a).type = "generic" =>
          a.type = "generic" /\ Reread(a).parts = a.parts
    BY RereadFields
  <2>2. a.type = "generic" =>
          [i \in DOMAIN a.parts |-> g[a.parts[i]]] = [i \in DOMAIN a.parts |-> h[a.parts[i]]]
    BY <1>2, Nested
  <2>3. Resolved(Reread(a), g) = Resolved(Reread(a), h)
    <3> DEFINE b == Reread(a)
    <3>1. b.type = "generic" =>
            [i \in DOMAIN b.parts |-> g[b.parts[i]]] = [i \in DOMAIN b.parts |-> h[b.parts[i]]]
      BY <2>1, <2>2
    <3> HIDE DEF b
    <3>2. Resolved(b, g) = Resolved(b, h)
      BY <3>1 DEF Resolved
    <3> QED
      BY <3>2 DEF b
  <2> QED
    BY <2>3
<1>3. \E f \in [Affinity -> Results] : \A a \in Affinity : f[a] = G[<<a, f>>]
  <2>1. Local(Affinity, Depth, Results, G)
    <3> HIDE DEF G
    <3> QED
      BY <1>1, <1>2 DEF Local
  <2>2. Depth \in [Affinity -> Nat] /\ Results # {}
    BY AffinityAssumption DEF Results
  <2> HIDE DEF G
  <2> QED
    BY <2>1, <2>2, RecursionExists
<1>4. PICK f \in [Affinity -> Results] : \A a \in Affinity : f[a] = Resolved(Reread(a), f)
  BY <1>3
<1>5. f = [a \in Affinity |-> Resolved(Reread(a), f)]
  BY <1>4
<1>6. Alternative = [a \in Affinity |-> Resolved(Reread(a), Alternative)]
  BY <1>5 DEF Alternative
<1> QED
  BY <1>6

(* So is where the default is left to decide.                              *)
LEMMA LeftOpenRecurs == \A a \in Affinity : LeftOpen[a] = Leaves(a, LeftOpen)
<1> DEFINE G == [p \in Affinity \X [Affinity -> BOOLEAN] |-> Leaves(p[1], p[2])]
<1>1. G \in [Affinity \X [Affinity -> BOOLEAN] -> BOOLEAN]
  BY DEF Leaves
<1>2. ASSUME NEW a \in Affinity,
             NEW g \in [Affinity -> BOOLEAN], NEW h \in [Affinity -> BOOLEAN],
             \A b \in Affinity : Depth[b] < Depth[a] => g[b] = h[b]
      PROVE  G[<<a, g>>] = G[<<a, h>>]
  <2>1. a.type = "generic" => \A i \in DOMAIN a.parts : g[a.parts[i]] = h[a.parts[i]]
    BY <1>2, Nested
  <2>2. Leaves(a, g) = Leaves(a, h)
    BY <2>1 DEF Leaves
  <2> QED
    BY <2>2
<1>3. \E f \in [Affinity -> BOOLEAN] : \A a \in Affinity : f[a] = G[<<a, f>>]
  <2>1. Local(Affinity, Depth, BOOLEAN, G)
    <3> HIDE DEF G
    <3> QED
      BY <1>1, <1>2 DEF Local
  <2>2. Depth \in [Affinity -> Nat] /\ BOOLEAN # {}
    BY AffinityAssumption
  <2> HIDE DEF G
  <2> QED
    BY <2>1, <2>2, RecursionExists
<1>4. PICK f \in [Affinity -> BOOLEAN] : \A a \in Affinity : f[a] = Leaves(a, f)
  BY <1>3
<1>5. f = [a \in Affinity |-> Leaves(a, f)]
  BY <1>4
<1>6. LeftOpen = [a \in Affinity |-> Leaves(a, LeftOpen)]
  BY <1>5 DEF LeftOpen
<1> QED
  BY <1>6

(* Both defaults give the same result for every accepted affinity in which *)
(* nothing is left open, however deep its parts are.                       *)
SameReading(a) == Accepted[a] /\ ~LeftOpen[a] => Alternative[a] = Resolution[a]

LEMMA AllReadTheSame ==
  ASSUME TypeOK
  PROVE  \A a \in Affinity : SameReading(a)
<1> DEFINE D == {Depth[a] : a \in {b \in Affinity : ~SameReading(b)}}
<1> SUFFICES ASSUME D # {} PROVE FALSE
  OBVIOUS
<1>1. D \in SUBSET Nat
  BY AffinityAssumption
<1>2. PICK d \in D : \A e \in D : ~(e < d)
  <2> HIDE DEF D
  <2> QED
    BY <1>1, LeastNumber
<1>3. PICK a \in Affinity : ~SameReading(a) /\ Depth[a] = d
  OBVIOUS
<1>4. \A b \in Affinity : Depth[b] < Depth[a] => SameReading(b)
  BY <1>2, <1>3
<1>5. Accepted[a] /\ ~LeftOpen[a] /\ Alternative[a] # Resolution[a]
  BY <1>3 DEF SameReading
<1>6. Accepts(a, Accepted) /\ ~Leaves(a, LeftOpen)
  BY <1>5, AcceptedRecurs, LeftOpenRecurs
<1>7. ASSUME a.type = "generic", NEW i \in DOMAIN a.parts
      PROVE  Alternative[a.parts[i]] = Resolution[a.parts[i]]
  <2>1. Accepted[a.parts[i]] /\ ~LeftOpen[a.parts[i]]
    BY <1>6, <1>7 DEF Accepts, Leaves
  <2>2. a.parts[i] \in Affinity /\ Depth[a.parts[i]] < Depth[a]
    BY <1>7, Nested
  <2> QED
    BY <1>4, <2>1, <2>2 DEF SameReading
<1>8. Resolved(Reread(a), Alternative) = Resolved(a, Resolution)
  BY <1>5, <1>6, <1>7, ResolvedDefault
<1> QED
  BY <1>5, <1>8, AlternativeRecurs, ResolutionRecurs

(* The default of the option match decides where a service goes only in an *)
(* affinity or a tag without values, and in a generic affinity of several  *)
(* parts (affinities.js:91).                                               *)
THEOREM DefaultSettlesNothingElse == Spec => []DefaultSettlesOnlyOpen
<1>1. ASSUME IInv PROVE DefaultSettlesOnlyOpen
  <2> SUFFICES ASSUME status \in {"place", "placed", "crashed"},
                      NEW i \in DOMAIN affinities, ~LeftOpen[affinities[i]]
               PROVE  Alternative[affinities[i]] = Resolve(affinities[i])
    BY DEF DefaultSettlesOnlyOpen
  <2>1. affinities[i] \in Affinity
    BY <1>1, LenProperties, ElementOfSeq DEF IInv, TypeOK
  <2>2. Accepted[affinities[i]]
    BY <1>1 DEF IInv, AllAccepted
  <2>3. Alternative[affinities[i]] = Resolution[affinities[i]]
    BY <1>1, <2>1, <2>2, AllReadTheSame DEF SameReading, IInv
  <2> QED
    BY <1>1, <2>1, <2>3, ResolutionRecurs DEF Resolve, IInv
<1> QED
  BY <1>1, IInvHolds, PTL
=============================================================================
