---------------------------- MODULE MCAffinities ----------------------------
(***************************************************************************)
(* Model values for Affinities: three nodes, one tagged with two words,    *)
(* one with one of them, and one without the tag; or a node whose fqdn or  *)
(* whose id is not its key.  A service has up to two affinities, of every  *)
(* type, shape and match, and up to two dependents, also without nodes.    *)
(***************************************************************************)
EXTENDS Affinities

CONSTANTS n1, n2, n3, foreign, rack, zone, w1, w2

Tagged == [k \in Node |-> [l \in Tag |->
  CASE l = rack /\ k = n1 -> {w1, w2}
    [] l = rack /\ k = n2 -> {w1}
    [] l = zone /\ k = n2 -> {w2}
    [] OTHER -> Undefined]]

Named(k, id, fqdn) ==
  [l \in Node |-> [id |-> IF l = k THEN id ELSE l,
                   fqdn |-> IF l = k THEN fqdn ELSE l, tags |-> Tagged[l]]]

Configs == {Named(n1, n1, n1), Named(n1, n1, foreign), Named(n1, foreign, n1), Named(n1, n2, n1)}

Match == {None, "all", "any", "none"}

NodesAffinities ==
  [type : {"nodes"}, shape : {"list"}, match : Match,
   names : {{}, {n1}, {foreign}, {n1, n2}}]
    \union [type : {"nodes"}, shape : {"missing", "malformed", "string", "object"},
            match : {None, "some"}, names : {{n2}}]

Words ==
  [tag : {rack}, shape : {"object"}, values : {{w1}, {w1, w2}}, match : Match]
    \union [tag : {rack}, shape : {"list"}, values : {{}, {w2}, {w1, w2}}, match : {None}]
    \union [tag : {rack}, shape : {"malformed", "string"}, values : {{w1}}, match : {None}]

TagsAffinities ==
  [type : {"tags"}, shape : {"object"}, match : {None, "any"}, tags : {{e} : e \in Words}]
    \union [type : {"tags"}, shape : {"object"}, match : Match,
            tags : {{[tag |-> rack, shape |-> "string", values |-> {w1}, match |-> None],
                     [tag |-> zone, shape |-> "object", values |-> {w2}, match |-> m]} :
                      m \in {None, "none"}}]
    \union [type : {"tags"}, shape : {"missing", "list", "object"}, match : {None}, tags : {{}}]

ServicesAffinities ==
  [type : {"services"}, shape : {"missing", "list"}, match : {None}, names : {{}}]

Simple == NodesAffinities \union TagsAffinities \union ServicesAffinities

GenericAffinities ==
  [type : {None}, shape : {"list"}, match : Match,
   parts : {<<a, b>> : a \in {c \in Simple : c.match \in {None, "any"}},
                       b \in {c \in NodesAffinities : c.match = "any"} \union ServicesAffinities}]
    \union [type : {"generic"}, shape : {"list", "malformed"}, match : {"any"},
            parts : {<<[type |-> "generic", shape |-> "list", match |-> m,
                        parts |-> <<a, a>>]>> :
                       m \in Match, a \in {c \in NodesAffinities : c.match = "none"}}
                      \union {<< >>, <<[type |-> None, shape |-> "list", match |-> None,
                                        parts |-> << >>]>>}]
    \union {[type |-> None, shape |-> "list", match |-> None, parts |-> <<a>>] :
              a \in {c \in Simple : c.match = None}
                     \union {[type |-> "generic", shape |-> "list", match |-> None,
                             parts |-> <<c>>] :
                               c \in {d \in Simple : d.match \in {None, "none"}}}}

Tops == Simple \union GenericAffinities

MCAffinity ==
  LET within(S) == UNION {Range(a.parts) : a \in {b \in S : Nests(b)}}
      all == Tops \union within(Tops) \union within(within(Tops))
  IN  all \union {Typed(a) : a \in all} \union {Given(ids) : ids \in SUBSET Node}

\* Generic affinities are nested at most twice.
MCDepth ==
  LET nested(a) == IF Nests(a) THEN Range(a.parts) ELSE {}
  IN  [a \in MCAffinity |->
         IF nested(a) = {} THEN 0
         ELSE IF \A b \in nested(a) : nested(b) = {} THEN 1 ELSE 2]

MCInputs ==
  [node : Configs, affinities : {<<a>> : a \in Tops},
   dependents : {<< >>, <<{n1, n2}>>}]
    \union
  [node : Configs,
   affinities : {<< >>} \union {<<a, b>> : a \in Simple, b \in NodesAffinities},
   dependents : {<< >>, <<{}>>, <<{n1}, {n2, n3}>>}]
=============================================================================
