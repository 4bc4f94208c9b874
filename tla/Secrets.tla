------------------------------- MODULE Secrets -------------------------------
(***************************************************************************)
(* The secret store of masson (legacy/masson/lib/secrets.js) and the       *)
(* commands which use it (lib/commands/secrets).  The secrets are one      *)
(* encrypted file.  A client is a place where commands run one after the   *)
(* other, such as a terminal; every command is a process of its own with a *)
(* new Store, which keeps the file it read, and the processes interleave   *)
(* between the file operations, all of them awaited.  A process may be     *)
(* killed at any moment, and the user may remove the file, as the message  *)
(* of secrets init tells him to.                                           *)
(*                                                                         *)
(* fs.writeFile truncates the file, then writes from its beginning: the    *)
(* writes of two processes may overlap, and leave the head of one content  *)
(* followed by the tail of a longer one.                                   *)
(***************************************************************************)
EXTENDS Naturals, Sequences, FiniteSets

CONSTANTS
  Client,     \* terminals
  Key,        \* properties
  Value,      \* secrets
  NoValue,    \* what a property without a secret has
  Arguments,  \* lists of properties given to secrets unset
  Missing,    \* there is no file
  Broken,     \* a content which decrypt rejects
  Unknown     \* in the abstract store: nothing is promised

ASSUME SecretsAssumption ==
  /\ NoValue \notin Value
  /\ Arguments \subseteq Seq(Key) \ {<< >>}
  /\ IsFiniteSet(Key)

VARIABLES
  file,       \* the store: its content, or Missing
  job,        \* client -> the command it runs
  phase,      \* client -> what the command does next
  copy,       \* client -> Store.iv and Store.raw, the content it has read
  data,       \* client -> the content handed to writeFile
  overlapped  \* history: commands which change the store have overlapped

vars == <<file, job, phase, copy, data, overlapped>>

NoSecrets == [k \in Key |-> NoValue]

SecretSet == [Key -> Value \union {NoValue}]

\* Contents are compared by their size; a secret counts for one.
Size(s) == 2 + Cardinality({k \in Key : s[k] # NoValue})

Content == [size : Nat, body : SecretSet \union {Broken}]

ASSUME SentinelsAssumption ==
  /\ Missing \notin Content
  /\ \A x \in {Missing, Broken, Unknown} : x \notin SecretSet
  /\ Missing # Broken /\ Missing # Unknown /\ Broken # Unknown

Empty == [size |-> 0, body |-> Broken]

\* The initialisation vector alone, which decrypt reads as no secrets.
Fresh == [size |-> 1, body |-> NoSecrets]

Encrypted(s) == [size |-> Size(s), body |-> s]

Jobs(lists) ==
  [cmd : {"init", "get"}, keys : {<< >>}, value : {NoValue}]
    \union [cmd : {"set"}, keys : {<<k>> : k \in Key}, value : Value]
    \union [cmd : {"unset"}, keys : lists, value : {NoValue}]

\* The job of a terminal before its first command.
Nothing == [cmd |-> "get", keys |-> << >>, value |-> NoValue]

Phases == {"idle", "exists", "init", "read", "modify", "open", "write"}

Init ==
  /\ file = Missing
  /\ job = [c \in Client |-> Nothing]
  /\ phase = [c \in Client |-> "idle"]
  /\ copy = [c \in Client |-> Empty]
  /\ data = [c \in Client |-> Empty]
  /\ overlapped = FALSE

-----------------------------------------------------------------------------
Goto(c, p) == phase' = [phase EXCEPT ![c] = p]

\* A new process, whose Store has read nothing.
Begin(c) ==
  /\ phase[c] = "idle"
  /\ \E j \in Jobs(Arguments) : job' = [job EXCEPT ![c] = j]
  /\ Goto(c, "exists")
  /\ copy' = [copy EXCEPT ![c] = Empty]
  /\ data' = [data EXCEPT ![c] = Empty]
  /\ UNCHANGED file

\* The test of the command: init wants no store, the others want one.
Exists(c) ==
  /\ phase[c] = "exists"
  /\ Goto(c, IF job[c].cmd = "init"
             THEN IF file = Missing THEN "init" ELSE "idle"
             ELSE IF file = Missing THEN "idle" ELSE "read")
  /\ UNCHANGED <<file, job, copy, data>>

\* Store.init tests again.
StoreInit(c) ==
  /\ phase[c] = "init"
  /\ IF file = Missing
     THEN Goto(c, "open") /\ data' = [data EXCEPT ![c] = Fresh]
     ELSE Goto(c, "idle") /\ UNCHANGED data
  /\ UNCHANGED <<file, job, copy>>

\* Mutant: what cannot be decrypted is taken for a store without secrets.
Indulgent(content) ==
  IF content.body = Broken THEN Encrypted(NoSecrets) ELSE content

Decrypted(content) == content

Readable == file # Missing /\ Decrypted(file).body # Broken

\* The file is gone, or decrypt throws: the command ends.
ReadFails(c) ==
  /\ phase[c] = "read"
  /\ ~Readable
  /\ Goto(c, "idle")
  /\ UNCHANGED <<file, job, copy, data>>

\* secrets get has what it needs, the others go on to change the secrets.
Read(c) ==
  /\ phase[c] = "read"
  /\ Readable
  /\ copy' = [copy EXCEPT ![c] = Decrypted(file)]
  /\ Goto(c, IF job[c].cmd = "get" THEN "idle" ELSE "modify")
  /\ UNCHANGED <<file, job, data>>

\* Mutant: the properties are taken from the end.
LastProperty(c) == job[c].keys[Len(job[c].keys)]

Property(c) == Head(job[c].keys)

\* Mutant: Store.set leaves Store.raw as it was read.
Kept(c, content) == copy

Cached(c, content) == [copy EXCEPT ![c] = content]

Store(c, v) ==
  LET new == Encrypted([copy[c].body EXCEPT ![Property(c)] = v])
  IN  /\ copy' = Cached(c, new)
      /\ data' = [data EXCEPT ![c] = new]
      /\ Goto(c, "open")
      /\ UNCHANGED <<file, job>>

\* The value comes from the arguments, a generator, or stdin.  The option
\* overwrite is tested with the value of the property in an undefined
\* variable, which never holds one.
SetProperty(c) ==
  /\ phase[c] = "modify"
  /\ job[c].cmd = "set"
  /\ Store(c, job[c].value)

UnsetProperty(c) ==
  /\ phase[c] = "modify"
  /\ job[c].cmd = "unset"
  /\ copy[c].body[Property(c)] # NoValue
  /\ Store(c, NoValue)

\* The command stops at the first property which does not exist.
UnsetNothing(c) ==
  /\ phase[c] = "modify"
  /\ job[c].cmd = "unset"
  /\ copy[c].body[Property(c)] = NoValue
  /\ Goto(c, "idle")
  /\ UNCHANGED <<file, job, copy, data>>

-----------------------------------------------------------------------------
(***************************************************************************)
(* fs.writeFile.                                                           *)
(***************************************************************************)
\* Mutant: the file is opened without being truncated.
Untruncated(content) == IF content = Missing THEN Empty ELSE content

Truncated(content) == Empty

Open(c) ==
  /\ phase[c] = "open"
  /\ file' = Truncated(file)
  /\ Goto(c, "write")
  /\ UNCHANGED <<job, copy, data>>

\* A content written over another which may be longer.
Over(new, old) ==
  IF new.size >= old.size THEN new ELSE [size |-> old.size, body |-> Broken]

\* Mutant: the loop over the properties goes one too far.
MoreAndOne(c) == job[c].cmd = "unset" /\ job[c].keys # << >>

More(c) == job[c].cmd = "unset" /\ Tail(job[c].keys) # << >>

\* The command without its first property.
Rest(j) == [cmd |-> j.cmd, keys |-> Tail(j.keys), value |-> j.value]

Write(c) ==
  /\ phase[c] = "write"
  /\ file' = Over(data[c], file)
  /\ IF More(c)
     THEN /\ Goto(c, "modify")
          /\ job' = [job EXCEPT ![c] = Rest(@)]
     ELSE /\ Goto(c, "idle")
          /\ UNCHANGED job
  /\ UNCHANGED <<copy, data>>

-----------------------------------------------------------------------------
Kill(c) ==
  /\ phase[c] # "idle"
  /\ Goto(c, "idle")
  /\ UNCHANGED <<file, job, copy, data>>

\* The user does not remove a file which is open.
Remove ==
  /\ file # Missing
  /\ \A c \in Client : phase[c] # "write"
  /\ file' = Missing
  /\ UNCHANGED <<job, phase, copy, data>>

Step(c) ==
  \/ Begin(c)
  \/ Exists(c)
  \/ StoreInit(c)
  \/ ReadFails(c)
  \/ Read(c)
  \/ SetProperty(c)
  \/ UnsetProperty(c)
  \/ UnsetNothing(c)
  \/ Open(c)
  \/ Write(c)
  \/ Kill(c)

\* The clients whose command changes the store.
Changing == {c \in Client : phase[c] # "idle" /\ job[c].cmd # "get"}

\* Two of them overlap, or the file is removed under one, until all are done.
Track ==
  overlapped' = /\ Changing' # {}
                /\ \/ overlapped
                   \/ \E c, d \in Changing' : c # d
                   \/ file # Missing /\ file' = Missing

Next == ((\E c \in Client : Step(c)) \/ Remove) /\ Track

Spec == Init /\ [][Next]_vars

-----------------------------------------------------------------------------
(* Every variable has its type. *)
TypeOK ==
  /\ file \in Content \union {Missing}
  /\ job \in [Client -> Jobs(Seq(Key) \ {<< >>})]
  /\ phase \in [Client -> Phases]
  /\ copy \in [Client -> Content]
  /\ data \in [Client -> Content]
  /\ overlapped \in BOOLEAN

Writers == {c \in Client : phase[c] = "write"}

\* The secrets as a user sees them: a write takes effect when it begins.
View ==
  IF overlapped THEN Unknown
  ELSE IF Writers # {} THEN data[CHOOSE c \in Writers : TRUE].body
  ELSE IF file = Missing THEN Missing
  ELSE file.body

\* The change each client has to make, or goes on to make.
Asked == [c \in Client |-> IF c \in Changing THEN job[c] ELSE Nothing]

Abstract == INSTANCE SecretStore WITH store <- View, asked <- Asked

(* As long as the commands which change the store do not overlap, it is a  *)
(* map from properties to secrets: init creates it once, set gives the     *)
(* property it was given the secret it was given, unset removes those it   *)
(* was given one after the other, and all of them keep every other         *)
(* property, whatever the commands before them did.  Reading disturbs      *)
(* nothing.  Only a command which is killed while it makes its change      *)
(* breaks the store, which every command then refuses until the user       *)
(* removes it (secrets.js:38-140, 175-203).                                *)
Promise == Abstract!Spec

\* A file which has a content, but one made of two versions.
Mixed(content) ==
  content # Missing /\ content.size > 0 /\ content.body = Broken

(* Only commands which overlap leave a file made of two contents: a        *)
(* removal never leaves the end of the longer file it replaces             *)
(* (secrets.js:80-87, 104-106).                                            *)
MixedByOverlap == [][~Mixed(file) /\ Mixed(file') => overlapped]_vars

-----------------------------------------------------------------------------
\* Strengthenings which make the promise inductive.

\* What a command has in hand in each phase, whatever the others do.
InHand(c) ==
  /\ phase[c] = "init" => job[c].cmd = "init"
  /\ phase[c] = "read" => job[c].cmd # "init"
  /\ phase[c] = "modify" =>
       job[c].cmd \in {"set", "unset"} /\ copy[c].body \in SecretSet
  /\ phase[c] \in {"open", "write"} =>
       /\ job[c].cmd # "get"
       /\ data[c].body \in SecretSet
       /\ job[c].cmd = "init" => data[c].body = NoSecrets
       /\ job[c].cmd = "set" => data[c].body[Property(c)] = job[c].value
       /\ job[c].cmd = "unset" => data[c].body[Property(c)] = NoValue
       /\ job[c].cmd # "init" => copy[c] = data[c]
  /\ phase[c] = "write" => file # Missing

\* What it knows of the file when no other command changes it.
UpToDate(c) ==
  /\ phase[c] = "init" => file = Missing
  /\ phase[c] = "modify" => file = copy[c]
  /\ phase[c] = "open" =>
       \/ job[c].cmd = "init" /\ file = Missing /\ data[c].body = NoSecrets
       \/ /\ job[c].cmd = "set"
          /\ file # Missing /\ file.body \in SecretSet
          /\ data[c].body = [file.body EXCEPT ![Property(c)] = job[c].value]
       \/ /\ job[c].cmd = "unset"
          /\ file # Missing /\ file.body \in SecretSet
          /\ file.body[Property(c)] # NoValue
          /\ data[c].body = [file.body EXCEPT ![Property(c)] = NoValue]
  /\ phase[c] = "write" => file = Empty

Alone ==
  ~overlapped => /\ \A c, d \in Changing : c = d
                 /\ \A c \in Changing : UpToDate(c)

\* Commands only overlap as long as one is under way.
OverlapEnds == overlapped => Changing # {}

IInv == TypeOK /\ (\A c \in Client : InHand(c)) /\ Alone /\ OverlapEnds

(* A secrets set command which goes on to write has found no secret for    *)
(* its property: replacing one needs the option overwrite                  *)
(* (commands/secrets/set.js:12-20).                                        *)
OverwriteNeedsOption ==
  \A c \in Client : phase[c] = "modify" /\ job[c].cmd = "set"
                    => copy[c].body[Property(c)] = NoValue
=============================================================================
