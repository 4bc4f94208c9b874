---------------------------- MODULE MCClusterRun ----------------------------
(***************************************************************************)
(* Model values for ClusterRun: three services in the order a, b, c on two *)
(* nodes which list some of them.  The dependencies form every graph that  *)
(* order allows; recipes wait for all of them or for none but those on a.  *)
(* Service c has a plugin, which hooks the services before it.  The        *)
(* command is filtered by service or by node, on a cluster which is down,  *)
(* of which a is up, or b on n2 only, or all but a; without failures, with *)
(* a node which fails, or with a service a node lists without an instance. *)
(***************************************************************************)
EXTENDS ClusterRun

CONSTANTS a, b, c, n1, n2

Lists == {<<a, c>>, <<b, c>>, <<a, b>>, <<a, b, c>>}

Graphs == {{<<b, a>>, <<c, a>>, <<c, b>>}, {<<c, a>>}, {<<c, b>>, <<b, a>>}}

Listed(l1, l2) ==
  {<<s, n1>> : s \in Range(l1)} \union {<<s, n2>> : s \in Range(l2)}

Ups == {{}, {a} \X Node, {<<b, n2>>}, {b, c} \X Node}

MCInputs ==
  {in \in
    {[rank |-> [s \in Service |-> CASE s = a -> 1 [] s = b -> 2 [] s = c -> 3],
      list |-> [n \in Node |-> IF n = n1 THEN l1 ELSE l2],
      instances |-> Listed(l1, l2) \ orphans,
      deps |-> g,
      waits |-> {d \in g : d[2] \in w},
      plugins |-> {c},
      selected |-> f[1],
      targets |-> f[2],
      up |-> u \intersect (Listed(l1, l2) \ orphans),
      flaky |-> x] :
       l1 \in Lists, l2 \in Lists, g \in Graphs, w \in {{a}, {a, b}},
       f \in {<<{a, b, c}, {n1, n2}>>, <<{b}, {n1, n2}>>, <<{a, b, c}, {n2}>>},
       u \in Ups, x \in {{}, {n1}}, orphans \in {{}, {<<c, n1>>}}} :
    in.flaky = {} \/ \A s \in Range(in.list[n1]) : <<s, n1>> \in in.instances}
=============================================================================
