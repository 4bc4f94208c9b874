---------------------------- MODULE MCDiscovery ----------------------------
(***************************************************************************)
(* Model values for Discovery.  Services have the module of their id, but  *)
(* p and q which have b and a.  c1 and c2 are declared with one service,   *)
(* with two, or with none in c2; c3 is not declared.  Module a has two     *)
(* dependencies and module b one, or none, of kinds which cover every      *)
(* branch: by module, by service, as text, disabled, and auto dependencies *)
(* inside the cluster and to c2, on modules which depend on each other in  *)
(* a cycle and on m, which is a module only when b has a dependency.  With *)
(* some modules the configuration adds options to the first dependency of  *)
(* a in c1, or a node declares services: registered ones, unknown ones,    *)
(* some without a cluster or a service, and one twice.                     *)
(***************************************************************************)
EXTENDS Discovery

CONSTANTS c1, c2, c3, a, b, m, p, q, n1, n2

Plain == [module |-> None, service |-> None, prefix |-> None,
          cluster |-> None, auto |-> None, required |-> None,
          disabled |-> None, text |-> FALSE]

ByModule == {[Plain EXCEPT !.module = x] : x \in {a, b}}

Auto == {[d EXCEPT !.auto = TRUE, !.cluster = c, !.disabled = x] :
           d \in ByModule, c \in {None, c2}, x \in {None, TRUE}}

Kinds == ByModule \union Auto \union {
  [Plain EXCEPT !.module = b, !.text = TRUE],
  [Plain EXCEPT !.module = b, !.required = TRUE],
  [Plain EXCEPT !.module = b, !.auto = FALSE, !.required = FALSE],
  [Plain EXCEPT !.module = b, !.cluster = c3],
  [Plain EXCEPT !.module = a, !.service = q, !.cluster = c3, !.required = TRUE],
  [Plain EXCEPT !.service = p],
  [Plain EXCEPT !.service = p, !.prefix = c2, !.auto = TRUE],
  [Plain EXCEPT !.service = q, !.prefix = c2],
  [Plain EXCEPT !.service = a, !.prefix = c3, !.disabled = FALSE],
  [Plain EXCEPT !.module = m, !.auto = TRUE],
  Plain}

\* The kinds the module b uses.
Few == ByModule \union {d \in Auto : d.disabled = None} \union {
  [Plain EXCEPT !.module = b, !.text = TRUE],
  [Plain EXCEPT !.service = q, !.prefix = c2]}

ModuleSets ==
  {(a :> <<d, e>>) @@ (b :> << >>) : d \in Kinds, e \in Kinds}
  \union {(a :> <<d, e>>) @@ (b :> <<f>>) @@ (m :> << >>) :
            d \in Kinds, e \in Kinds, f \in Few}

\* Modules to which a configuration adds options, or whose services nodes
\* declare.
Simple(modules) == /\ modules[b] = << >>
                   /\ modules[a][1].cluster # c3
                   /\ modules[a][2] \in ByModule

Options == {
  [Plain EXCEPT !.disabled = FALSE],
  [Plain EXCEPT !.disabled = TRUE],
  [Plain EXCEPT !.cluster = c2, !.auto = TRUE, !.required = TRUE],
  [Plain EXCEPT !.service = q, !.prefix = c2],
  [Plain EXCEPT !.module = b, !.text = TRUE],
  [Plain EXCEPT !.service = p, !.auto = FALSE, !.required = TRUE]}

Input(declared, empty, modules, given, listed) ==
  [clusters |-> <<c1, c2>>,
   declared |-> [c \in Cluster |-> CASE c = c1 -> declared[1]
                                     [] c = c2 -> declared[2]
                                     [] OTHER -> << >>],
   empty |-> empty,
   module |-> [s \in Service |-> CASE s[2] = p -> b
                                   [] s[2] = q -> a
                                   [] OTHER -> s[2]],
   modules |-> modules,
   given |-> [s \in Service |-> IF s = <<c1, a>> THEN given ELSE << >>],
   listed |-> [n \in Node |-> IF n = n1 THEN listed ELSE << >>]]

Entries == {<< >>,
  <<[cluster |-> c1, service |-> a], [cluster |-> c2, service |-> b]>>,
  <<[cluster |-> c1, service |-> None], [cluster |-> None, service |-> a]>>,
  <<[cluster |-> c2, service |-> a], [cluster |-> c2, service |-> a]>>}

Declarations ==
  {<< <<a>>, << >> >>, << <<p>>, <<m>> >>, << <<a, p>>, <<q>> >>,
   << <<q, a>>, <<p, q>> >>}

Cases ==
  {x \in Declarations \X ModuleSets \X
         ({<< >>} \union {<<o, Plain>> : o \in Options}) \X Entries :
     \/ x[3] = << >> /\ x[4] = << >>
     \/ Simple(x[2]) /\ x[3] = << >>
     \/ Simple(x[2]) /\ x[4] = << >> /\ x[1][1] # <<p>>}

\* The services of c2, if it has none, are also an empty object.
MCInputs ==
  {Input(x[1], {}, x[2], x[3], x[4]) : x \in Cases}
    \union
  {Input(x[1], {c2}, x[2], x[3], x[4]) :
     x \in {y \in Cases : y[1][2] = << >> /\ y[3] = << >> /\ y[2][b] = << >>}}
=============================================================================
