------------------------------- MODULE Rollout -------------------------------
(***************************************************************************)
(* What the run of a command on the nodes promises to the operator of the  *)
(* clusters (legacy/masson/lib/commands/clusters.js): which command may    *)
(* run at which moment, without sessions, plugins or positions in a list.  *)
(* The command of an instance runs once, also if the instance is up        *)
(* beforehand.  It runs when the instances its recipe waits for are up     *)
(* and, on a sound node, after the commands of those which come before it  *)
(* in the graph.  On the other nodes, where calls fail, the order is not   *)
(* promised.                                                               *)
(***************************************************************************)
EXTENDS RunInput

VARIABLES
  input,  \* the run, any well-formed one
  ran,    \* instances whose command has run
  up      \* instances which are up

vars == <<input, ran, up>>

Init ==
  /\ WellFormed(input)
  /\ ran = {}
  /\ up = input.up

\* Nothing fails on the node, and what it lists has an instance.
Sound(n) ==
  /\ n \notin input.flaky
  /\ \A i \in DOMAIN input.list[n] : <<input.list[n][i], n>> \in input.instances

\* The instances of the node whose commands run before the one of a service.
Before(s, n) ==
  {i \in input.instances :
     i[2] = n /\ i[1] \in input.selected /\ input.rank[i[1]] < input.rank[s]}

Awaits(s) == {i \in input.instances : <<s, i[1]>> \in input.waits}

Start(s, n) ==
  /\ <<s, n>> \in input.instances \ ran
  /\ s \in input.selected
  /\ n \in input.targets
  /\ Awaits(s) \subseteq up
  /\ Sound(n) => Before(s, n) \subseteq ran
  /\ ran' = ran \union {<<s, n>>}
  /\ up' = up \union {<<s, n>>}
  /\ input' = input

Next == \E s \in Service, n \in Node : Start(s, n)

Spec == Init /\ [][Next]_vars

\* The command which may run on a sound node runs, whatever fails elsewhere.
Fairness == \A s \in Service, n \in Node : WF_vars(Sound(n) /\ Start(s, n))
=============================================================================
