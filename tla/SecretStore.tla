----------------------------- MODULE SecretStore -----------------------------
(***************************************************************************)
(* What the secret store of masson promises (legacy/masson/lib/secrets.js  *)
(* and the commands of lib/commands/secrets): a map from properties to     *)
(* secrets, created once, which a command changes at the property it was   *)
(* given and nowhere else.  The promise has two limits.  A command which   *)
(* is killed while it makes its change may leave a store nobody can read,  *)
(* and then only its removal helps.  Commands which change the store at    *)
(* the same time, or a store removed under a command, leave anything.      *)
(***************************************************************************)
EXTENDS Sequences

CONSTANTS
  Client,     \* terminals, which run one command after the other
  Key,        \* properties
  Value,      \* secrets
  NoValue,    \* what a property without a secret has
  Arguments,  \* lists of properties given to secrets unset
  Missing,    \* there is no store
  Broken,     \* there is one which cannot be read
  Unknown     \* nothing is promised of the store

VARIABLES
  store,  \* the secrets, or one of the three
  asked   \* client -> what is left of the change it was asked to make

vars == <<store, asked>>

Secrets == [Key -> Value \union {NoValue}]

NoSecrets == [k \in Key |-> NoValue]

Changes ==
  [cmd : {"init"}, keys : {<< >>}, value : {NoValue}]
    \union [cmd : {"set"}, keys : {<<k>> : k \in Key}, value : Value]
    \union [cmd : {"unset"}, keys : Arguments, value : {NoValue}]

\* What a client is asked which runs no command, or one which only reads.
Nothing == [cmd |-> "get", keys |-> << >>, value |-> NoValue]

Init ==
  /\ store = Missing
  /\ asked = [c \in Client |-> Nothing]

Changing == {c \in Client : asked[c] # Nothing}

Begin(c) ==
  /\ asked[c] = Nothing
  /\ \E j \in Changes : asked' = [asked EXCEPT ![c] = j]
  /\ store' = IF Changing = {} THEN store ELSE Unknown

\* secrets init
Create(c) ==
  /\ asked[c].cmd = "init"
  /\ store = Missing
  /\ store' = NoSecrets
  /\ UNCHANGED asked

\* secrets set
Put(c) ==
  /\ asked[c].cmd = "set"
  /\ store \in Secrets
  /\ store' = [store EXCEPT ![Head(asked[c].keys)] = asked[c].value]
  /\ UNCHANGED asked

\* secrets unset, for the first of its properties
Drop(c) ==
  /\ asked[c].cmd = "unset"
  /\ store \in Secrets
  /\ store[Head(asked[c].keys)] # NoValue
  /\ store' = [store EXCEPT ![Head(asked[c].keys)] = NoValue]
  /\ UNCHANGED asked

\* The secrets show the change which a command makes first.
Made(j, s) ==
  /\ j.cmd = "init" => s = NoSecrets
  /\ j.cmd = "set" => s[Head(j.keys)] = j.value
  /\ j.cmd = "unset" => s[Head(j.keys)] = NoValue

\* secrets unset goes on with its next property.
Proceed(c) ==
  /\ asked[c].cmd = "unset"
  /\ Tail(asked[c].keys) # << >>
  /\ store # Unknown => store \in Secrets /\ Made(asked[c], store)
  /\ asked' = [asked EXCEPT ![c].keys = Tail(@)]
  /\ UNCHANGED store

\* A command ends, fails, or is killed, perhaps while it makes its change.
End(c) ==
  /\ asked[c] # Nothing
  /\ asked' = [asked EXCEPT ![c] = Nothing]
  /\ IF store = Unknown
     THEN IF Changing = {c}
          THEN store' \in Secrets \union {Missing, Broken}
          ELSE UNCHANGED store
     ELSE \/ UNCHANGED store
          \/ store \in Secrets /\ Made(asked[c], store) /\ store' = Broken

\* The user removes the store.
Remove ==
  /\ store # Missing
  /\ store' = IF Changing = {} THEN Missing ELSE Unknown
  /\ UNCHANGED asked

Next ==
  \/ \E c \in Client :
       Begin(c) \/ Create(c) \/ Put(c) \/ Drop(c) \/ Proceed(c) \/ End(c)
  \/ Remove

Spec == Init /\ [][Next]_vars
=============================================================================
