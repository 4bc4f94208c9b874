--------------------------- MODULE SecretsProofs ---------------------------
(***************************************************************************)
(* Proofs about Secrets: types, the implementation of SecretStore, and the *)
(* origin of mixed files.                                                  *)
(***************************************************************************)
EXTENDS Secrets, FiniteSetTheorems, SequenceTheorems, TLAPS

(* The size of a content is a number greater than that of a new store, and *)
(* what set and unset compute from a set of secrets is one again.          *)
LEMMA EncryptedType ==
  ASSUME NEW s \in SecretSet
  PROVE  Encrypted(s) \in Content /\ Encrypted(s).size > 0 /\ Encrypted(s).body = s
<1>1. IsFiniteSet({k \in Key : s[k] # NoValue})
  BY FS_Subset, SecretsAssumption
<1>2. Cardinality({k \in Key : s[k] # NoValue}) \in Nat
  BY <1>1, FS_CardinalityType
<1>. QED
  BY <1>2 DEF Encrypted, Content, Size

(* The contents which no command computes. *)
LEMMA ConstantContents ==
  /\ NoSecrets \in SecretSet
  /\ Empty \in Content
  /\ Fresh \in Content
BY DEF NoSecrets, SecretSet, Empty, Fresh, Content

(* The property of a set or unset command is a property, and the remaining *)
(* properties of an unset command make it an unset command again.          *)
LEMMA JobType ==
  ASSUME NEW j \in Jobs(Seq(Key) \ {<< >>})
  PROVE  /\ j.cmd \in {"set", "unset"} => Head(j.keys) \in Key
         /\ j.cmd = "set" => j.value \in Value
         /\ j.cmd = "unset" => j.keys \in Seq(Key) /\ j.keys # << >>
         /\ j.cmd = "unset" /\ Tail(j.keys) # << >> =>
              Rest(j) \in Jobs(Seq(Key) \ {<< >>})
<1>1. CASE j.cmd = "unset"
  <2>1. /\ j \in [cmd : {"unset"}, keys : Seq(Key) \ {<< >>}, value : {NoValue}]
        /\ j.keys \in Seq(Key) /\ j.keys # << >>
    BY <1>1 DEF Jobs
  <2>2. Head(j.keys) \in Key /\ Tail(j.keys) \in Seq(Key)
    BY <2>1, HeadTailProperties
  <2>. QED
    BY <1>1, <2>1, <2>2 DEF Jobs, Rest
<1>2. CASE j.cmd = "set"
  <2>1. PICK k \in Key : j.keys = <<k>> /\ j.value \in Value
    BY <1>2 DEF Jobs
  <2>. QED
    BY <1>2, <2>1
<1>. QED
  BY <1>1, <1>2

(* The commands a client may begin. *)
LEMMA Beginnings == Jobs(Arguments) \subseteq Jobs(Seq(Key) \ {<< >>})
BY SecretsAssumption DEF Jobs

(* What set and unset compute has the right type. *)
LEMMA Change ==
  ASSUME TypeOK, NEW c \in Client, InHand(c), phase[c] = "modify",
         NEW v \in Value \union {NoValue}
  PROVE  LET s == [copy[c].body EXCEPT ![Property(c)] = v]
         IN  s \in SecretSet /\ Encrypted(s) \in Content /\ Encrypted(s).body = s
<1>1. copy[c].body \in SecretSet
  BY DEF InHand
<1>2. [copy[c].body EXCEPT ![Property(c)] = v] \in SecretSet
  BY <1>1 DEF SecretSet
<1>. QED
  BY <1>2, EncryptedType

(***************************************************************************)
(* Types, and what the commands have in hand.                              *)
(***************************************************************************)
Typed == TypeOK /\ \A c \in Client : InHand(c)

LEMMA TypedInit == Init => Typed
<1>. SUFFICES ASSUME Init PROVE Typed
  OBVIOUS
<1>1. Nothing \in Jobs(Seq(Key) \ {<< >>})
  BY DEF Jobs, Nothing
<1>. QED
  BY <1>1, ConstantContents DEF Init, Typed, TypeOK, InHand, Phases

(* A step of one client preserves the types of everything but the history, *)
(* and what the clients have in hand.                                      *)
LEMMA TypedStep ==
  ASSUME Typed, NEW c \in Client, Step(c), overlapped' \in BOOLEAN
  PROVE  Typed'
<1>. USE DEF Typed, Goto, Property
<1>1. CASE Begin(c)
  <2>1. PICK j \in Jobs(Seq(Key) \ {<< >>}) : job' = [job EXCEPT ![c] = j]
    BY <1>1, Beginnings DEF Begin
  <2>2. TypeOK'
    BY <1>1, <2>1, ConstantContents DEF Begin, TypeOK, Phases
  <2>3. ASSUME NEW d \in Client PROVE InHand(d)'
    BY <1>1, <2>1 DEF Begin, TypeOK, InHand
  <2>. QED
    BY <2>2, <2>3
<1>2. CASE Exists(c)
  <2>1. TypeOK'
    BY <1>2 DEF Exists, TypeOK, Phases
  <2>2. ASSUME NEW d \in Client PROVE InHand(d)'
    BY <1>2 DEF Exists, TypeOK, InHand
  <2>. QED
    BY <2>1, <2>2
<1>3. CASE StoreInit(c)
  <2>1. TypeOK'
    BY <1>3, ConstantContents DEF StoreInit, TypeOK, Phases
  <2>2. ASSUME NEW d \in Client PROVE InHand(d)'
    BY <1>3, ConstantContents DEF StoreInit, TypeOK, InHand, Fresh
  <2>. QED
    BY <2>1, <2>2
<1>4. CASE ReadFails(c)
  BY <1>4 DEF ReadFails, TypeOK, Phases, InHand
<1>5. CASE Read(c)
  <2>1. file \in Content /\ file.body \in SecretSet
    BY <1>5 DEF Read, Readable, Decrypted, TypeOK, Content
  <2>2. job[c].cmd \in {"init", "get", "set", "unset"} /\ job[c].cmd # "init"
    BY <1>5 DEF Read, TypeOK, InHand, Jobs
  <2>3. TypeOK'
    BY <1>5, <2>1 DEF Read, TypeOK, Phases, Decrypted
  <2>4. ASSUME NEW d \in Client PROVE InHand(d)'
    BY <1>5, <2>1, <2>2 DEF Read, TypeOK, InHand, Decrypted
  <2>. QED
    BY <2>3, <2>4
<1>6. ASSUME NEW v \in Value \union {NoValue}, phase[c] = "modify", Store(c, v),
             job[c].cmd = "set" => v = job[c].value,
             job[c].cmd = "unset" => v = NoValue
      PROVE  Typed'
  <2> DEFINE s == [copy[c].body EXCEPT ![Property(c)] = v]
  <2>1. s \in SecretSet /\ Encrypted(s) \in Content /\ Encrypted(s).body = s
    BY <1>6, Change
  <2>2. /\ copy' = [copy EXCEPT ![c] = Encrypted(s)]
        /\ data' = [data EXCEPT ![c] = Encrypted(s)]
        /\ phase' = [phase EXCEPT ![c] = "open"]
        /\ UNCHANGED <<file, job>>
    BY <1>6 DEF Store, Cached
  <2>3. job[c].cmd \in {"set", "unset"} /\ copy[c].body \in SecretSet
    BY <1>6 DEF InHand
  <2>4. s[Property(c)] = v
    <3>1. Property(c) \in Key
      BY <2>3, JobType DEF TypeOK
    <3>. HIDE DEF Property
    <3>. QED
      BY <2>3, <3>1 DEF SecretSet
  <2>. HIDE DEF s
  <2>5. TypeOK'
    BY <2>1, <2>2 DEF TypeOK, Phases
  <2>6. ASSUME NEW d \in Client PROVE InHand(d)'
    <3>1. CASE d # c
      BY <2>2, <3>1 DEF TypeOK, InHand
    <3>2. CASE d = c
      <4>1. /\ phase'[c] = "open" /\ job'[c] = job[c]
            /\ copy'[c] = Encrypted(s) /\ data'[c] = Encrypted(s)
        BY <2>2 DEF TypeOK
      <4>2. /\ data'[c].body \in SecretSet /\ copy'[c] = data'[c]
            /\ data'[c].body[Head(job'[c].keys)] = v
        BY <2>1, <2>4, <4>1
      <4>. QED
        BY <1>6, <2>3, <3>2, <4>1, <4>2 DEF InHand
    <3>. QED
      BY <3>1, <3>2
  <2>. QED
    BY <2>5, <2>6
<1>7. CASE SetProperty(c)
  <2>1. job[c].value \in Value
    BY <1>7, JobType DEF SetProperty, TypeOK
  <2>. QED
    BY <1>6, <1>7, <2>1 DEF SetProperty
<1>8. CASE UnsetProperty(c)
  BY <1>6, <1>8 DEF UnsetProperty
<1>9. CASE UnsetNothing(c)
  BY <1>9 DEF UnsetNothing, TypeOK, Phases, InHand
<1>10. CASE Open(c)
  <2>1. file' \in Content /\ file' # Missing
    BY <1>10, ConstantContents, SentinelsAssumption DEF Open, Truncated
  <2>. QED
    BY <1>10, <2>1 DEF Open, TypeOK, Phases, InHand
<1>11. CASE Write(c)
  <2>1. file' \in Content /\ file' # Missing
    <3>1. data[c] \in Content /\ file \in Content
      BY <1>11 DEF Write, TypeOK, InHand
    <3>2. data[c].size \in Nat /\ file.size \in Nat
      BY <3>1 DEF Content
    <3>3. Over(data[c], file) \in Content
      BY <3>1, <3>2 DEF Over, Content
    <3>. QED
      BY <1>11, <3>3, SentinelsAssumption DEF Write
  <2>2. job' \in [Client -> Jobs(Seq(Key) \ {<< >>})]
    <3>1. CASE More(c)
      <4>1. job[c] \in Jobs(Seq(Key) \ {<< >>}) /\ job[c].cmd = "unset" /\ Tail(job[c].keys) # << >>
        BY <3>1 DEF More, TypeOK
      <4>2. Rest(job[c]) \in Jobs(Seq(Key) \ {<< >>})
        BY <4>1, JobType
      <4>3. job' = [job EXCEPT ![c] = Rest(job[c])]
        BY <1>11, <3>1 DEF Write, TypeOK
      <4>. QED
        BY <4>2, <4>3 DEF TypeOK
    <3>2. CASE ~More(c)
      BY <1>11, <3>2 DEF Write, TypeOK
    <3>. QED
      BY <3>1, <3>2
  <2>3. TypeOK'
    BY <1>11, <2>1, <2>2 DEF Write, TypeOK, Phases
  <2>4. ASSUME NEW d \in Client PROVE InHand(d)'
    <3>1. CASE d # c
      BY <1>11, <2>1, <3>1 DEF Write, TypeOK, InHand
    <3>2. CASE d = c /\ More(c)
      <4>1. job[c].cmd = "unset" /\ job'[c].cmd = "unset"
        BY <1>11, <3>2 DEF Write, More, TypeOK, Rest
      <4>2. copy[c].body \in SecretSet /\ phase'[c] = "modify" /\ copy' = copy
        BY <1>11, <3>2, <4>1 DEF Write, TypeOK, InHand
      <4>. QED
        BY <3>2, <4>1, <4>2 DEF InHand
    <3>3. CASE d = c /\ ~More(c)
      BY <1>11, <3>3 DEF Write, TypeOK, InHand
    <3>. QED
      BY <3>1, <3>2, <3>3
  <2>. QED
    BY <2>3, <2>4
<1>12. CASE Kill(c)
  BY <1>12 DEF Kill, TypeOK, Phases, InHand
<1>. QED
  BY <1>1, <1>2, <1>3, <1>4, <1>5, <1>7, <1>8, <1>9, <1>10, <1>11, <1>12 DEF Step

LEMMA TypedNext == Typed /\ [Next]_vars => Typed'
<1>. SUFFICES ASSUME Typed, [Next]_vars PROVE Typed'
  OBVIOUS
<1>1. CASE Next
  <2>1. overlapped' \in BOOLEAN
    BY <1>1 DEF Next, Track
  <2>2. CASE \E c \in Client : Step(c)
    BY <2>1, <2>2, TypedStep
  <2>3. CASE Remove
    BY <2>1, <2>3 DEF Typed, Remove, TypeOK, InHand, Property
  <2>. QED
    BY <1>1, <2>2, <2>3 DEF Next
<1>2. CASE UNCHANGED vars
  BY <1>2 DEF vars, Typed, TypeOK, InHand, Property
<1>. QED
  BY <1>1, <1>2

-----------------------------------------------------------------------------
(***************************************************************************)
(* A command which is alone knows the file.                                *)
(***************************************************************************)
(* A step of one client leaves what the others have. *)
LEMMA Others ==
  ASSUME Typed, NEW c \in Client, Step(c), NEW d \in Client, d # c
  PROVE  /\ phase'[d] = phase[d] /\ job'[d] = job[d]
         /\ copy'[d] = copy[d] /\ data'[d] = data[d]
<1>. USE DEF Typed, TypeOK, Goto
<1>1. CASE SetProperty(c) \/ UnsetProperty(c)
  <2>1. PICK v, s : /\ copy' = [copy EXCEPT ![c] = s] /\ data' = [data EXCEPT ![c] = s]
                    /\ phase' = [phase EXCEPT ![c] = v] /\ job' = job
    BY <1>1 DEF SetProperty, UnsetProperty, Store, Cached
  <2>. QED
    BY <2>1
<1>2. CASE Write(c)
  <2>1. job' = job \/ job' = [job EXCEPT ![c] = Rest(job[c])]
    BY <1>2 DEF Write
  <2>. QED
    BY <1>2, <2>1 DEF Write
<1>3. CASE Begin(c)
  BY <1>3 DEF Begin
<1>4. CASE Exists(c) \/ StoreInit(c) \/ ReadFails(c) \/ Read(c)
  BY <1>4 DEF Exists, StoreInit, ReadFails, Read
<1>5. CASE UnsetNothing(c) \/ Open(c) \/ Kill(c)
  BY <1>5 DEF UnsetNothing, Open, Kill
<1>. QED
  BY <1>1, <1>2, <1>3, <1>4, <1>5 DEF Step

(* Only a command which changes the store writes the file. *)
LEMMA FileKept ==
  ASSUME Typed, NEW c \in Client, Step(c), c \notin Changing
  PROVE  file' = file
<1>1. ~Open(c) /\ ~Write(c)
  BY DEF Typed, InHand, Changing, Open, Write
<1>. QED
  BY <1>1 DEF Step, Begin, Exists, StoreInit, ReadFails, Read, SetProperty,
     UnsetProperty, Store, UnsetNothing, Kill

(* A write over an empty file leaves exactly what is written. *)
LEMMA WholeWrite ==
  ASSUME Typed, NEW c \in Client, Write(c), file = Empty
  PROVE  file' = data[c]
<1>1. data[c].size \in Nat
  BY DEF Typed, TypeOK, Content
<1>2. file.size = 0
  BY DEF Empty
<1>. QED
  BY <1>1, <1>2 DEF Write, Over

(* A step of a client which is alone keeps its knowledge of the file.      *)
LEMMA OwnStep ==
  ASSUME Typed, NEW c \in Client, Step(c), c \in Changing => UpToDate(c),
         c \in Changing'
  PROVE  UpToDate(c)'
<1>. USE DEF Typed, Goto
<1>1. CASE Begin(c)
  <2>1. phase'[c] = "exists"
    BY <1>1 DEF Begin, TypeOK
  <2>. QED
    BY <2>1 DEF UpToDate
<1>2. CASE Exists(c)
  <2>1. /\ phase'[c] \in {"init", "idle", "read"}
        /\ phase'[c] = "init" => file' = Missing
    BY <1>2 DEF Exists, TypeOK
  <2>. QED
    BY <2>1 DEF UpToDate
<1>3. CASE StoreInit(c)
  <2>1. CASE file = Missing
    <3>1. /\ phase'[c] = "open" /\ data'[c].body = NoSecrets
          /\ file' = Missing /\ job'[c].cmd = "init"
      BY <1>3, <2>1 DEF StoreInit, TypeOK, InHand, Fresh
    <3>. QED
      BY <3>1 DEF UpToDate
  <2>2. CASE file # Missing
    BY <1>3, <2>2 DEF StoreInit, TypeOK, UpToDate
  <2>. QED
    BY <2>1, <2>2
<1>4. CASE ReadFails(c) \/ UnsetNothing(c) \/ Kill(c)
  <2>1. phase'[c] = "idle"
    BY <1>4 DEF ReadFails, UnsetNothing, Kill, TypeOK
  <2>. QED
    BY <2>1 DEF UpToDate
<1>5. CASE Read(c)
  <2>1. phase'[c] \in {"idle", "modify"} /\ file' = copy'[c]
    BY <1>5 DEF Read, Decrypted, TypeOK
  <2>. QED
    BY <2>1 DEF UpToDate
<1>6. ASSUME phase[c] = "modify"
      PROVE  /\ file = copy[c] /\ file # Missing
             /\ file.body \in SecretSet
  <2>1. c \in Changing
    BY <1>6 DEF Changing, InHand
  <2>2. file = copy[c] /\ copy[c] \in Content
    BY <1>6, <2>1 DEF UpToDate, TypeOK
  <2>. QED
    BY <1>6, <2>2, SentinelsAssumption DEF InHand
<1>7. ASSUME NEW v \in Value \union {NoValue}, phase[c] = "modify", Store(c, v)
      PROVE  /\ phase'[c] = "open" /\ file' = file /\ job' = job
             /\ data'[c].body = [file.body EXCEPT ![Property(c)] = v]
  <2> DEFINE s == [copy[c].body EXCEPT ![Property(c)] = v]
  <2>1. Encrypted(s).body = s
    BY <1>7, Change
  <2>2. /\ data' = [data EXCEPT ![c] = Encrypted(s)]
        /\ phase' = [phase EXCEPT ![c] = "open"] /\ file' = file /\ job' = job
    BY <1>7 DEF Store
  <2>3. s = [file.body EXCEPT ![Property(c)] = v]
    BY <1>6, <1>7
  <2>. HIDE DEF s
  <2>4. data'[c].body = s /\ phase'[c] = "open"
    BY <2>1, <2>2 DEF TypeOK
  <2>. QED
    BY <2>2, <2>3, <2>4
<1>8. CASE SetProperty(c)
  <2>1. job[c].value \in Value /\ job[c].cmd = "set" /\ phase[c] = "modify"
    BY <1>8, JobType DEF SetProperty, TypeOK
  <2>2. /\ phase'[c] = "open" /\ file' = file /\ job' = job
        /\ data'[c].body = [file.body EXCEPT ![Property(c)] = job[c].value]
    BY <1>7, <1>8, <2>1 DEF SetProperty
  <2>3. file # Missing /\ file.body \in SecretSet
    BY <1>6, <2>1
  <2>. QED
    BY <2>1, <2>2, <2>3 DEF UpToDate, Property
<1>9. CASE UnsetProperty(c)
  <2>1. job[c].cmd = "unset" /\ phase[c] = "modify"
        /\ copy[c].body[Property(c)] # NoValue
    BY <1>9 DEF UnsetProperty
  <2>2. /\ phase'[c] = "open" /\ file' = file /\ job' = job
        /\ data'[c].body = [file.body EXCEPT ![Property(c)] = NoValue]
    BY <1>7, <1>9 DEF UnsetProperty
  <2>3. file = copy[c] /\ file # Missing /\ file.body \in SecretSet
    BY <1>6, <2>1
  <2>. QED
    BY <2>1, <2>2, <2>3 DEF UpToDate, Property
<1>10. CASE Open(c)
  <2>1. phase'[c] = "write" /\ file' = Empty
    BY <1>10 DEF Open, Truncated, TypeOK
  <2>. QED
    BY <2>1 DEF UpToDate
<1>11. CASE Write(c)
  <2>1. phase'[c] \in {"idle", "modify"} /\ copy' = copy
    BY <1>11 DEF Write, TypeOK
  <2>2. CASE phase'[c] = "modify"
    <3>1. job[c].cmd = "unset" /\ phase[c] = "write"
      BY <1>11, <2>2 DEF Write, More, TypeOK
    <3>2. file = Empty /\ copy[c] = data[c]
      BY <3>1 DEF Changing, UpToDate, InHand
    <3>3. file' = data[c]
      BY <1>11, <3>2, WholeWrite
    <3>. QED
      BY <2>1, <2>2, <3>2, <3>3 DEF UpToDate
  <2>3. CASE phase'[c] = "idle"
    BY <2>3 DEF UpToDate
  <2>. QED
    BY <2>1, <2>2, <2>3
<1>. QED
  BY <1>1, <1>2, <1>3, <1>4, <1>5, <1>8, <1>9, <1>10, <1>11 DEF Step

LEMMA IInvNext == IInv /\ [Next]_vars => IInv'
<1>. SUFFICES ASSUME IInv, [Next]_vars PROVE IInv'
  OBVIOUS
<1>1. Typed /\ Typed'
  BY TypedNext DEF IInv, Typed
<1>2. Alone'
  <2>1. CASE UNCHANGED vars
    BY <2>1 DEF vars, IInv, Alone, Changing, UpToDate, Property
  <2>2. CASE Next
    <3>. SUFFICES ASSUME ~overlapped', NEW d \in Changing'
                  PROVE  (\A e \in Changing' : d = e) /\ UpToDate(d)'
      BY DEF Alone
    <3>1. /\ ~overlapped
          /\ \A e \in Changing' : d = e
          /\ ~(file # Missing /\ file' = Missing)
      BY <1>1, <2>2 DEF Next, Track, Typed, TypeOK
    <3>2. ~Remove
      BY <3>1 DEF Remove
    <3>3. PICK c \in Client : Step(c)
      BY <2>2, <3>2 DEF Next
    <3>4. (\A e, f \in Changing : e = f) /\ \A e \in Changing : UpToDate(e)
      BY <3>1 DEF IInv, Alone
    <3>5. CASE d = c
      <4>1. c \in Changing'
        BY <3>5
      <4>2. UpToDate(c)'
        BY <1>1, <3>3, <3>4, <4>1, OwnStep
      <4>. QED
        BY <3>1, <3>5, <4>2
    <3>6. CASE d # c
      <4>0. d \in Client
        BY DEF Changing
      <4>1. /\ phase'[d] = phase[d] /\ job'[d] = job[d]
            /\ copy'[d] = copy[d] /\ data'[d] = data[d]
        BY <1>1, <3>3, <3>6, <4>0, Others
      <4>2. d \in Changing
        BY <4>0, <4>1 DEF Changing
      <4>3. file' = file
        BY <1>1, <3>3, <3>4, <3>6, <4>2, FileKept
      <4>. QED
        BY <3>1, <3>4, <4>1, <4>2, <4>3 DEF UpToDate, Property
    <3>. QED
      BY <3>1, <3>5, <3>6
  <2>. QED
    BY <2>1, <2>2
<1>3. OverlapEnds'
  <2>1. CASE UNCHANGED vars
    BY <2>1 DEF vars, IInv, OverlapEnds, Changing
  <2>2. CASE Next
    BY <2>2 DEF Next, Track, OverlapEnds
  <2>. QED
    BY <2>1, <2>2
<1>. QED
  BY <1>1, <1>2, <1>3 DEF IInv, Typed

LEMMA IInvInit == Init => IInv
<1>. SUFFICES ASSUME Init PROVE IInv
  OBVIOUS
<1>1. Changing = {}
  BY DEF Init, Changing
<1>2. OverlapEnds
  BY DEF Init, OverlapEnds
<1>. QED
  BY <1>1, <1>2, TypedInit DEF IInv, Typed, Alone

(* Every variable has its type, and as long as the commands which change   *)
(* the store do not overlap, one which is about to write has in hand what  *)
(* the file holds, changed at the property it was given and nowhere else:  *)
(* no command writes secrets it has not read from the file as it is        *)
(* (secrets.js:38-107).                                                    *)
THEOREM SecretsInHand == Spec => []TypeOK /\ [](~overlapped => \A c \in Changing : UpToDate(c))
<1>1. IInv => TypeOK
  BY DEF IInv
<1>2. IInv => (~overlapped => \A c \in Changing : UpToDate(c))
  BY DEF IInv, Alone
<1>. QED
  BY <1>1, <1>2, IInvInit, IInvNext, PTL DEF Spec

(* Only commands which overlap leave a file made of two contents: one that *)
(* is alone truncates the file it writes, whatever was in it.              *)
THEOREM MixingNeedsOverlap == Spec => MixedByOverlap
<1>1. IInv /\ [Next]_vars => [~Mixed(file) /\ Mixed(file') => overlapped]_vars
  <2>. SUFFICES ASSUME IInv, Next, ~overlapped, ~Mixed(file) PROVE ~Mixed(file')
    BY DEF vars
  <2>1. Typed
    BY DEF IInv, Typed
  <2>2. CASE Remove
    BY <2>2 DEF Remove, Mixed
  <2>3. ASSUME NEW c \in Client, Step(c) PROVE ~Mixed(file')
    <3>1. CASE file' = file
      BY <3>1 DEF Mixed
    <3>2. CASE file' # file
      <4>1. c \in Changing
        BY <2>1, <2>3, <3>2, FileKept
      <4>2. UpToDate(c)
        BY <4>1 DEF IInv, Alone
      <4>3. CASE Open(c)
        BY <4>3 DEF Open, Truncated, Empty, Mixed
      <4>4. CASE Write(c)
        <5>1. file' = data[c] /\ data[c].body \in SecretSet
          BY <2>1, <4>2, <4>4, WholeWrite DEF Write, UpToDate, Typed, InHand
        <5>. QED
          BY <5>1, SentinelsAssumption DEF Mixed
      <4>. QED
        BY <2>3, <3>2, <4>3, <4>4 DEF Step, Begin, Exists, StoreInit, ReadFails,
           Read, SetProperty, UnsetProperty, Store, UnsetNothing, Kill
    <3>. QED
      BY <3>1, <3>2
  <2>. QED
    BY <2>2, <2>3 DEF Next
<1>. QED
  BY <1>1, IInvInit, IInvNext, PTL DEF Spec, MixedByOverlap

-----------------------------------------------------------------------------
(***************************************************************************)
(* Secrets implements SecretStore.                                         *)
(***************************************************************************)
(* The view while one command writes, and while none does. *)
LEMMA ViewWriting ==
  ASSUME ~overlapped, NEW c \in Client, Writers = {c}
  PROVE  View = data[c].body
BY DEF View

LEMMA ViewReading ==
  ASSUME ~overlapped, Writers = {}
  PROVE  View = IF file = Missing THEN Missing ELSE file.body
BY DEF View

(* The abstract store has values an abstract store may have. *)
LEMMA ViewUnwritten ==
  ASSUME TypeOK, ~overlapped, Writers = {}
  PROVE  View \in SecretSet \union {Missing, Broken}
BY ViewReading DEF TypeOK, Content

(* The abstract store is asked what the commands which change it are. *)
LEMMA AskedOf ==
  ASSUME Typed
  PROVE  /\ Abstract!Nothing = Nothing
         /\ \A c \in Client : Asked[c] = IF c \in Changing THEN job[c] ELSE Nothing
         /\ \A c \in Client : Asked[c] # Nothing <=> c \in Changing
         /\ Abstract!Changing = Changing
<1>1. Abstract!Nothing = Nothing
  BY DEF Abstract!Nothing, Nothing
<1>2. \A c \in Client : Asked[c] = IF c \in Changing THEN job[c] ELSE Nothing
  BY DEF Asked
<1>3. ASSUME NEW c \in Client PROVE Asked[c] # Nothing <=> c \in Changing
  <2>1. c \in Changing => job[c] # Nothing
    BY DEF Changing, Nothing
  <2>. QED
    BY <1>2, <2>1
<1>. QED
  BY <1>1, <1>2, <1>3 DEF Abstract!Changing, Changing

LEMMA ViewInit == Init => Abstract!Init
<1>. SUFFICES ASSUME Init PROVE View = Missing /\ Asked = [c \in Client |-> Abstract!Nothing]
  BY DEF Abstract!Init
<1>1. ~overlapped /\ Writers = {} /\ Changing = {} /\ file = Missing
  BY DEF Init, Writers, Changing
<1>. QED
  BY <1>1, ViewReading DEF Asked, Nothing, Abstract!Nothing

(* A step of a client changes what it is asked, and nothing else is asked. *)
LEMMA AskedStep ==
  ASSUME Typed, Typed', NEW c \in Client, Step(c)
  PROVE  /\ \A d \in Client : d # c => (d \in Changing' <=> d \in Changing)
         /\ Asked' = [Asked EXCEPT ![c] = IF c \in Changing' THEN job'[c] ELSE Nothing]
<1>1. ASSUME NEW d \in Client, d # c
      PROVE  (d \in Changing' <=> d \in Changing) /\ job'[d] = job[d]
  <2>1. phase'[d] = phase[d] /\ job'[d] = job[d]
    BY <1>1, Others
  <2>. QED
    BY <2>1 DEF Changing
<1>2. Asked' = [d \in Client |-> IF d \in Changing' THEN job'[d] ELSE Nothing]
  BY DEF Asked
<1>3. Asked = [d \in Client |-> IF d \in Changing THEN job[d] ELSE Nothing]
  BY DEF Asked
<1>. QED
  BY <1>1, <1>2, <1>3

(* A command begins, ends, takes its next property, or goes on. *)
LEMMA Kinds ==
  ASSUME Typed, NEW c \in Client, Step(c)
  PROVE  \/ Begin(c)
         \/ c \in Changing /\ c \notin Changing'
         \/ Write(c) /\ More(c)
         \/ job' = job /\ (c \in Changing' <=> c \in Changing)
<1>1. CASE Begin(c)
  BY <1>1
<1>2. CASE Write(c) /\ More(c)
  BY <1>2
<1>3. CASE ~Begin(c) /\ ~(Write(c) /\ More(c))
  <2>1. job' = job /\ phase[c] # "idle"
    BY <1>3 DEF Step, Exists, StoreInit, ReadFails, Read, SetProperty, UnsetProperty,
       Store, UnsetNothing, Open, Write, Kill
  <2>2. c \in Changing' => c \in Changing
    BY <2>1 DEF Changing
  <2>. QED
    BY <2>1, <2>2
<1>. QED
  BY <1>1, <1>2, <1>3

(* A step which neither writes nor ends a write leaves the view as it is.  *)
LEMMA ViewKept ==
  ASSUME Typed, ~overlapped, ~overlapped', NEW c \in Client, Step(c),
         ~Open(c), ~Write(c), ~(Kill(c) /\ phase[c] = "write")
  PROVE  View' = View
<1>. USE DEF Goto
<1>1. file' = file
  BY DEF Step, Begin, Exists, StoreInit, ReadFails, Read, SetProperty,
     UnsetProperty, Store, UnsetNothing, Kill
<1>2. phase[c] # "write" /\ phase'[c] # "write"
  BY DEF Step, Begin, Exists, StoreInit, ReadFails, Read, SetProperty,
     UnsetProperty, Store, UnsetNothing, Kill, Typed, TypeOK
<1>3. \A d \in Client : d # c => phase'[d] = phase[d] /\ data'[d] = data[d]
  BY Others
<1>4. Writers' = Writers /\ \A d \in Writers : data'[d] = data[d]
  BY <1>2, <1>3 DEF Writers
<1>5. Writers # {} => (CHOOSE d \in Writers : TRUE) \in Writers
  OBVIOUS
<1>. QED
  BY <1>1, <1>4, <1>5 DEF View

(* The command which writes, alone, is the one which writes. *)
LEMMA WriterAlone ==
  ASSUME IInv, ~overlapped, NEW c \in Client, phase[c] \in {"open", "write"}
  PROVE  /\ c \in Changing /\ UpToDate(c) /\ InHand(c)
         /\ Changing = {c}
         /\ Writers = IF phase[c] = "write" THEN {c} ELSE {}
         /\ Asked[c] = job[c]
<1>1. Typed
  BY DEF IInv, Typed
<1>2. c \in Changing /\ InHand(c)
  BY <1>1 DEF Changing, Typed, InHand
<1>3. UpToDate(c) /\ \A d \in Changing : d = c
  BY <1>2 DEF IInv, Alone
<1>4. Writers \subseteq Changing
  BY <1>1 DEF Writers, Changing, Typed, InHand
<1>. QED
  BY <1>1, <1>2, <1>3, <1>4, AskedOf DEF Writers

(* What is being written shows the change which was asked. *)
LEMMA ChangeMade ==
  ASSUME IInv, ~overlapped, NEW c \in Client, phase[c] = "write"
  PROVE  /\ View \in Abstract!Secrets
         /\ Abstract!Made(Asked[c], View)
<1>1. InHand(c) /\ Writers = {c} /\ Asked[c] = job[c]
  BY WriterAlone
<1>2. View = data[c].body
  BY <1>1, ViewWriting
<1>. QED
  BY <1>1, <1>2 DEF InHand, SecretSet, Abstract!Secrets, Abstract!Made,
     NoSecrets, Abstract!NoSecrets, Property

(* A command makes its change when its write begins. *)
LEMMA OpenView ==
  ASSUME IInv, IInv', ~overlapped, ~overlapped', NEW c \in Client, Open(c)
  PROVE  Abstract!Create(c) \/ Abstract!Put(c) \/ Abstract!Drop(c)
<1>0. Typed /\ TypeOK /\ Typed'
  BY DEF IInv, Typed
<1>1. /\ phase[c] = "open" /\ job' = job /\ data' = data
      /\ phase' = [phase EXCEPT ![c] = "write"]
  BY DEF Open, Goto
<1>2. /\ c \in Changing /\ UpToDate(c) /\ Writers = {} /\ Asked[c] = job[c]
  BY <1>1, WriterAlone
<1>3. Writers' = {c}
  BY <1>0, <1>1, <1>2 DEF Writers, TypeOK
<1>4. View = IF file = Missing THEN Missing ELSE file.body
  BY <1>2, ViewReading
<1>5. View' = data[c].body
  BY <1>1, <1>3 DEF View
<1>6. Asked' = Asked
  <2>1. Changing' = Changing
    BY <1>0, <1>1, <1>2 DEF Changing, TypeOK
  <2>. QED
    BY <1>1, <2>1 DEF Asked
<1>7. job[c] \in Jobs(Seq(Key) \ {<< >>})
  BY <1>0 DEF TypeOK
<1>8. CASE job[c].cmd = "init"
  <2>1. file = Missing /\ data[c].body = NoSecrets
    BY <1>1, <1>2, <1>8 DEF UpToDate
  <2>. QED
    BY <1>2, <1>4, <1>5, <1>6, <1>8, <2>1
       DEF NoSecrets, Abstract!NoSecrets, Abstract!Create
<1>9. CASE job[c].cmd = "set"
  <2>1. /\ file # Missing /\ file.body \in SecretSet
        /\ data[c].body = [file.body EXCEPT ![Property(c)] = job[c].value]
    BY <1>1, <1>2, <1>9 DEF UpToDate
  <2>2. View \in Abstract!Secrets
    BY <1>4, <2>1 DEF SecretSet, Abstract!Secrets
  <2>. QED
    BY <1>2, <1>4, <1>5, <1>6, <1>9, <2>1, <2>2 DEF Abstract!Put, Property
<1>10. CASE job[c].cmd = "unset"
  <2>1. /\ file # Missing /\ file.body \in SecretSet
        /\ file.body[Property(c)] # NoValue
        /\ data[c].body = [file.body EXCEPT ![Property(c)] = NoValue]
    BY <1>1, <1>2, <1>10 DEF UpToDate
  <2>2. View \in Abstract!Secrets
    BY <1>4, <2>1 DEF SecretSet, Abstract!Secrets
  <2>. QED
    BY <1>2, <1>4, <1>5, <1>6, <1>10, <2>1, <2>2 DEF Abstract!Drop, Property
<1>. QED
  BY <1>1, <1>2, <1>8, <1>9, <1>10 DEF UpToDate

(* The end of a write changes nothing. *)
LEMMA WriteView ==
  ASSUME IInv, ~overlapped, ~overlapped', NEW c \in Client, Write(c)
  PROVE  View' = View
<1>0. Typed /\ TypeOK
  BY DEF IInv, Typed
<1>1. /\ phase[c] = "write" /\ phase'[c] # "write"
      /\ \A d \in Client : d # c => phase'[d] = phase[d]
  <2>1. Step(c)
    BY DEF Step
  <2>2. phase[c] = "write" /\ phase'[c] # "write"
    BY <1>0 DEF Write, Goto, TypeOK
  <2>. QED
    BY <1>0, <2>1, <2>2, Others
<1>2. UpToDate(c) /\ Writers = {c}
  BY <1>1, WriterAlone
<1>3. Writers' = {}
  BY <1>1, <1>2 DEF Writers
<1>4. file' = data[c] /\ file' # Missing
  <2>1. file = Empty
    BY <1>1, <1>2 DEF UpToDate
  <2>. QED
    BY <1>0, <2>1, WholeWrite, SentinelsAssumption DEF TypeOK
<1>5. View = data[c].body
  BY <1>2, ViewWriting
<1>6. View' = file'.body
  BY <1>3, <1>4 DEF View
<1>. QED
  BY <1>4, <1>5, <1>6

(* A command which is killed while it writes breaks the store. *)
LEMMA KillView ==
  ASSUME IInv, ~overlapped, ~overlapped', NEW c \in Client, Kill(c), phase[c] = "write"
  PROVE  View' = Broken
<1>0. Typed /\ TypeOK
  BY DEF IInv, Typed
<1>1. UpToDate(c) /\ Writers = {c}
  BY WriterAlone
<1>2. Writers' = {}
  BY <1>0, <1>1 DEF Kill, Goto, Writers, TypeOK
<1>3. file' = Empty /\ file' # Missing
  BY <1>1, ConstantContents, SentinelsAssumption DEF Kill, UpToDate
<1>. QED
  BY <1>2, <1>3 DEF View, Empty

(* The next property of an unset command. *)
LEMMA AskedRest ==
  ASSUME Typed, Typed', NEW c \in Client, Write(c), More(c)
  PROVE  /\ Asked[c] = job[c] /\ c \in Changing /\ c \in Changing'
         /\ job[c].cmd = "unset" /\ Tail(job[c].keys) # << >>
         /\ Asked' = [Asked EXCEPT ![c].keys = Tail(@)]
<1>1. job[c].cmd = "unset" /\ Tail(job[c].keys) # << >>
  BY DEF More
<1>2. job'[c] = Rest(job[c]) /\ phase'[c] = "modify" /\ phase[c] = "write"
  BY DEF Write, Goto, Typed, TypeOK
<1>3. c \in Changing /\ c \in Changing'
  BY <1>1, <1>2 DEF Changing, Rest
<1>4. Asked[c] = job[c]
  BY <1>3, AskedOf
<1>5. Asked' = [Asked EXCEPT ![c] = Rest(job[c])]
  <2>1. Step(c)
    BY DEF Step
  <2>. QED
    BY <1>2, <1>3, <2>1, AskedStep
<1>6. Rest(job[c]) = [job[c] EXCEPT !.keys = Tail(@)]
  <2>1. job[c] \in [cmd : {"unset"}, keys : Seq(Key) \ {<< >>}, value : {NoValue}]
    BY <1>1 DEF Typed, TypeOK, Jobs
  <2>2. job[c] = [cmd |-> job[c].cmd, keys |-> job[c].keys, value |-> job[c].value]
    BY <2>1
  <2> DEFINE j == job[c]
             t == Tail(job[c].keys)
  <2>3. j = [cmd |-> j.cmd, keys |-> j.keys, value |-> j.value]
    BY <2>2
  <2>4. [j EXCEPT !.keys = t] = [cmd |-> j.cmd, keys |-> t, value |-> j.value]
    <3>. HIDE DEF j, t
    <3>. QED
      BY <2>3
  <2>. QED
    BY <2>4 DEF Rest
<1>. QED
  BY <1>1, <1>3, <1>4, <1>5, <1>6

(* A command which begins is one the abstract store may be asked for. *)
LEMMA AskedMore ==
  ASSUME Typed, Typed', NEW c \in Client, Begin(c), c \in Changing'
  PROVE  /\ c \notin Changing /\ Asked[c] = Abstract!Nothing
         /\ \E j \in Abstract!Changes : Asked' = [Asked EXCEPT ![c] = j]
<1>1. c \notin Changing
  BY DEF Begin, Changing
<1>2. PICK j \in Jobs(Arguments) : job' = [job EXCEPT ![c] = j]
  BY DEF Begin
<1>3. job'[c] = j /\ j.cmd # "get"
  BY <1>2 DEF Typed, TypeOK, Changing
<1>4. j \in Abstract!Changes
  BY <1>3 DEF Jobs, Abstract!Changes
<1>5. Asked' = [Asked EXCEPT ![c] = j]
  <2>1. Step(c)
    BY DEF Step
  <2>. QED
    BY <1>3, <2>1, AskedStep
<1>. QED
  BY <1>1, <1>4, <1>5, AskedOf

(* A command which ends is asked nothing any more. *)
LEMMA AskedLess ==
  ASSUME Typed, Typed', NEW c \in Client, Step(c), c \in Changing, c \notin Changing'
  PROVE  /\ Asked[c] # Abstract!Nothing
         /\ Asked' = [Asked EXCEPT ![c] = Abstract!Nothing]
BY AskedOf, AskedStep

(* All that is left is asked as before. *)
LEMMA AskedSame ==
  ASSUME Typed, Typed', NEW c \in Client, Step(c),
         c \in Changing' <=> c \in Changing,
         c \in Changing => job' = job
  PROVE  Asked' = Asked /\ Changing' = Changing
<1>1. Changing' = Changing
  BY AskedStep DEF Changing
<1>2. \A d \in Changing : job'[d] = job[d]
  BY Others DEF Changing
<1>. QED
  BY <1>1, <1>2 DEF Asked

(* A step of a client does not remove the store. *)
LEMMA FileStays ==
  ASSUME Typed, Typed', NEW c \in Client, Step(c), file # Missing
  PROVE  file' # Missing
<1>1. CASE Open(c)
  BY <1>1, ConstantContents, SentinelsAssumption DEF Open, Truncated
<1>2. CASE Write(c)
  <2>1. data[c] \in Content /\ file \in Content
    BY <1>2 DEF Typed, TypeOK
  <2>2. data[c].size \in Nat /\ file.size \in Nat
    BY <2>1 DEF Content
  <2>3. Over(data[c], file) \in Content
    BY <2>1, <2>2 DEF Over, Content
  <2>. QED
    BY <1>2, <2>3, SentinelsAssumption DEF Write
<1>3. CASE ~Open(c) /\ ~Write(c)
  BY <1>3 DEF Step, Begin, Exists, StoreInit, ReadFails, Read, SetProperty,
     UnsetProperty, Store, UnsetNothing, Kill
<1>. QED
  BY <1>1, <1>2, <1>3

(* A step of a client while commands overlap. *)
LEMMA OverlapStep ==
  ASSUME IInv, IInv', overlapped, NEW c \in Client, Step(c), Track
  PROVE  Abstract!Next \/ (View' = View /\ Asked' = Asked)
<1>0. Typed /\ Typed' /\ Changing # {}
  BY DEF IInv, Typed, OverlapEnds
<1>1. View = Unknown
  BY DEF View
<1>2. overlapped' <=> Changing' # {}
  BY DEF Track
<1>3. Changing' # {} => View' = Unknown
  BY <1>2 DEF View
<1>4. CASE Begin(c) /\ c \in Changing'
  <2>1. Abstract!Begin(c)
    BY <1>0, <1>1, <1>3, <1>4, AskedMore, AskedOf DEF Abstract!Begin
  <2>. QED
    BY <2>1 DEF Abstract!Next
<1>5. CASE c \in Changing /\ c \notin Changing'
  <2>1. Changing' = Changing \ {c}
    BY <1>0, <1>5, AskedStep DEF Changing
  <2>2. CASE Changing = {c}
    <3>1. ~overlapped' /\ Writers' = {}
      <4>1. Writers' \subseteq Changing'
        BY <1>0 DEF Writers, Changing, Typed, InHand
      <4>. QED
        BY <1>2, <2>1, <2>2, <4>1
    <3>2. View' \in SecretSet \union {Missing, Broken}
      <4>1. View' = IF file' = Missing THEN Missing ELSE file'.body
        BY <3>1 DEF View
      <4>. QED
        BY <1>0, <4>1 DEF Typed, TypeOK, Content
    <3>3. Abstract!End(c)
      BY <1>0, <1>1, <1>5, <2>2, <3>2, AskedLess, AskedOf
         DEF Abstract!End, Abstract!Secrets, SecretSet
    <3>. QED
      BY <3>3 DEF Abstract!Next
  <2>3. CASE Changing # {c}
    <3>1. View' = Unknown
      BY <1>3, <1>5, <2>1, <2>3
    <3>2. Abstract!End(c)
      BY <1>0, <1>1, <1>5, <2>3, <3>1, AskedLess, AskedOf DEF Abstract!End
    <3>. QED
      BY <3>2 DEF Abstract!Next
  <2>. QED
    BY <2>2, <2>3
<1>6. CASE Write(c) /\ More(c)
  <2>1. Abstract!Proceed(c)
    <3>1. View' = View
      BY <1>0, <1>1, <1>3, <1>6, AskedRest
    <3>. QED
      BY <1>0, <1>1, <1>6, <3>1, AskedRest DEF Abstract!Proceed
  <2>. QED
    BY <2>1 DEF Abstract!Next
<1>7. CASE /\ c \in Changing' <=> c \in Changing
           /\ c \in Changing => job' = job
  BY <1>0, <1>1, <1>3, <1>7, AskedSame
<1>8. Begin(c) => c \notin Changing
  BY DEF Begin, Changing
<1>. QED
  BY <1>0, <1>4, <1>5, <1>6, <1>7, <1>8, Kinds

(* A step of a command which is alone. *)
LEMMA LoneStep ==
  ASSUME IInv, IInv', ~overlapped, ~overlapped', NEW c \in Client, Step(c), Track
  PROVE  Abstract!Next \/ (View' = View /\ Asked' = Asked)
<1>0. Typed /\ Typed' /\ View # Unknown
  <2>1. Typed /\ Typed' /\ TypeOK
    BY DEF IInv, Typed
  <2>2. CASE Writers = {}
    BY <2>1, <2>2, ViewUnwritten, SentinelsAssumption
  <2>3. CASE Writers # {}
    <3>1. PICK d \in Client : phase[d] = "write"
      BY <2>3 DEF Writers
    <3>2. View \in SecretSet
      BY <3>1, ChangeMade DEF SecretSet, Abstract!Secrets
    <3>. QED
      BY <2>1, <3>2, SentinelsAssumption
  <2>. QED
    BY <2>1, <2>2, <2>3
<1>1. CASE Begin(c) /\ c \in Changing'
  <2>1. Changing = {}
    <3>1. c \notin Changing
      BY <1>1 DEF Begin, Changing
    <3>2. \A d \in Changing : d \in Changing'
      BY <1>0, <3>1, AskedStep DEF Changing
    <3>3. \A d, e \in Changing' : d = e
      BY DEF Track
    <3>. QED
      BY <1>1, <3>1, <3>2, <3>3
  <2>2. View' = View
    <3>1. ~Open(c) /\ ~Write(c) /\ ~(Kill(c) /\ phase[c] = "write")
      BY <1>1 DEF Begin, Open, Write
    <3>. QED
      BY <1>0, <3>1, ViewKept
  <2>3. Abstract!Begin(c)
    BY <1>0, <1>1, <2>1, <2>2, AskedMore, AskedOf DEF Abstract!Begin
  <2>. QED
    BY <2>3 DEF Abstract!Next
<1>2. CASE c \in Changing /\ c \notin Changing'
  <2>1. /\ Asked[c] # Abstract!Nothing
        /\ Asked' = [Asked EXCEPT ![c] = Abstract!Nothing]
    BY <1>0, <1>2, AskedLess
  <2>2. CASE Kill(c) /\ phase[c] = "write"
    <3>1. View' = Broken /\ View \in Abstract!Secrets /\ Abstract!Made(Asked[c], View)
      BY <2>2, KillView, ChangeMade
    <3>2. Abstract!End(c)
      BY <1>0, <2>1, <3>1 DEF Abstract!End
    <3>. QED
      BY <3>2 DEF Abstract!Next
  <2>3. CASE ~(Kill(c) /\ phase[c] = "write")
    <3>1. ~Open(c)
      BY <1>0, <1>2 DEF Open, Goto, Changing, Typed, TypeOK
    <3>2. View' = View
      BY <1>0, <2>3, <3>1, ViewKept, WriteView
    <3>3. Abstract!End(c)
      BY <1>0, <2>1, <3>2 DEF Abstract!End
    <3>. QED
      BY <3>3 DEF Abstract!Next
  <2>. QED
    BY <2>2, <2>3
<1>3. CASE Write(c) /\ More(c)
  <2>1. View' = View /\ phase[c] = "write"
    BY <1>3, WriteView DEF Write
  <2>2. View \in Abstract!Secrets /\ Abstract!Made(Asked[c], View)
    BY <2>1, ChangeMade
  <2>3. Abstract!Proceed(c)
    BY <1>0, <1>3, <2>1, <2>2, AskedRest DEF Abstract!Proceed
  <2>. QED
    BY <2>3 DEF Abstract!Next
<1>4. CASE /\ c \in Changing' <=> c \in Changing
           /\ c \in Changing => job' = job
  <2>1. Asked' = Asked
    BY <1>0, <1>4, AskedSame
  <2>2. CASE Open(c)
    BY <2>2, OpenView DEF Abstract!Next
  <2>3. ~(Kill(c) /\ phase[c] = "write")
    <3>1. phase[c] = "write" => c \in Changing
      BY <1>0 DEF Changing, Typed, InHand
    <3>2. Kill(c) => c \notin Changing'
      BY <1>0 DEF Kill, Goto, Changing, Typed, TypeOK
    <3>. QED
      BY <1>4, <3>1, <3>2
  <2>4. CASE ~Open(c)
    <3>1. View' = View
      BY <1>0, <2>3, <2>4, ViewKept, WriteView
    <3>. QED
      BY <2>1, <3>1
  <2>. QED
    BY <2>2, <2>4
<1>5. Begin(c) => c \notin Changing
  BY DEF Begin, Changing
<1>. QED
  BY <1>0, <1>1, <1>2, <1>3, <1>4, <1>5, Kinds

(* The step with which commands begin to overlap. *)
LEMMA OverlapBegins ==
  ASSUME IInv, IInv', ~overlapped, overlapped', NEW c \in Client, Step(c), Track
  PROVE  Abstract!Next
<1>0. Typed /\ Typed'
  BY DEF IInv, Typed
<1>1. PICK d, e \in Changing' : d # e
  BY <1>0, FileStays DEF Track
<1>2. \A x, y \in Changing : x = y
  BY DEF IInv, Alone
<1>3. d \in Client /\ e \in Client
  BY DEF Changing
<1>4. \A x \in Client : x # c => (x \in Changing' <=> x \in Changing)
  BY <1>0, AskedStep
<1>5. c \in Changing' /\ c \notin Changing /\ Changing # {}
  BY <1>1, <1>2, <1>3, <1>4
<1>6. Begin(c)
  BY <1>0, <1>5, Kinds, AskedRest
<1>7. View' = Unknown
  BY DEF View
<1>8. Abstract!Begin(c)
  BY <1>0, <1>5, <1>6, <1>7, AskedMore, AskedOf DEF Abstract!Begin
<1>. QED
  BY <1>8 DEF Abstract!Next

(* The user removes the file. *)
LEMMA RemoveView ==
  ASSUME IInv, IInv', Remove, Track
  PROVE  Abstract!Next \/ (View' = View /\ Asked' = Asked)
<1>0. Typed /\ Typed' /\ TypeOK
  BY DEF IInv, Typed
<1>1. /\ file # Missing /\ file' = Missing /\ Writers = {} /\ Writers' = {}
      /\ Changing' = Changing /\ job' = job
  BY DEF Remove, Writers, Changing
<1>2. Asked' = Asked
  BY <1>1 DEF Asked
<1>3. overlapped' <=> Changing # {}
  BY <1>1 DEF Track
<1>4. View' = IF Changing = {} THEN Missing ELSE Unknown
  BY <1>1, <1>3 DEF View
<1>5. CASE overlapped
  <2>1. Changing # {} /\ View = Unknown
    BY <1>5 DEF IInv, OverlapEnds, View
  <2>. QED
    BY <1>2, <1>4, <2>1
<1>6. CASE ~overlapped
  <2>1. View = file.body
    BY <1>1, <1>6, ViewReading
  <2>2. View # Missing
    <3>1. file.body \in SecretSet \union {Broken}
      BY <1>0, <1>1 DEF TypeOK, Content
    <3>. QED
      BY <2>1, <3>1, SentinelsAssumption
  <2>3. Abstract!Remove
    BY <1>0, <1>2, <1>4, <2>2, AskedOf DEF Abstract!Remove
  <2>. QED
    BY <2>3 DEF Abstract!Next
<1>. QED
  BY <1>5, <1>6

(* Every step of the program is a step of the abstract store, or none. *)
LEMMA ViewNext == IInv /\ IInv' /\ [Next]_vars => [Abstract!Next]_(Abstract!vars)
<1>. SUFFICES ASSUME IInv, IInv', [Next]_vars
              PROVE  Abstract!Next \/ (View' = View /\ Asked' = Asked)
  BY DEF Abstract!vars
<1>1. CASE UNCHANGED vars
  <2>1. Writers' = Writers /\ Changing' = Changing
    BY <1>1 DEF vars, Writers, Changing
  <2>. QED
    BY <1>1, <2>1 DEF vars, View, Asked
<1>2. CASE Remove /\ Track
  BY <1>2, RemoveView
<1>3. ASSUME NEW c \in Client, Step(c), Track
      PROVE  Abstract!Next \/ (View' = View /\ Asked' = Asked)
  BY <1>3, OverlapStep, LoneStep, OverlapBegins
<1>. QED
  BY <1>1, <1>2, <1>3 DEF Next

(* The secret store implements its promise for any number of clients,      *)
(* properties and secrets: as long as no two commands change the store at  *)
(* the same time, every command changes the properties it was given and no *)
(* others, and only one which is killed while it makes its change leaves a *)
(* file which every command refuses until it is removed.                   *)
THEOREM PromiseKept == Spec => Promise
<1>1. Spec => []IInv
  BY IInvInit, IInvNext, PTL DEF Spec
<1>. QED
  BY <1>1, ViewInit, ViewNext, PTL DEF Spec, Promise, Abstract!Spec
=============================================================================
