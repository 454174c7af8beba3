----------------------- MODULE FederationChangeProofs -----------------------
(***************************************************************************)
(* Proofs that a rotation of the federation key implements Handover, and   *)
(* that the verdicts of both scripts of FederationChange are sound, for    *)
(* any signers, nodes, threshold and offset.                               *)
(***************************************************************************)
EXTENDS FederationChange, FiniteSetTheorems, SequenceTheorems, TLAPS

(***************************************************************************)
(* The inductive invariant.  The probed node has every block, so that a    *)
(* height scheduled from it lies ahead; from the second instruction on the *)
(* height is scheduled, so that no file holds another one; a block that    *)
(* carries the rotation was signed by someone who had the entry, so that   *)
(* it is the block before that height; and the key has changed for the     *)
(* blocks after it.                                                        *)
(***************************************************************************)
Shapes ==
  /\ chain \in Seq([key : {"a", "b"}, change : {"none"} \cup Changes])
  /\ tip \in [Nodes -> Nat]
  /\ DOMAIN file = Signers /\ DOMAIN loaded = Signers
  /\ pc \in Nat
  /\ "b" \in DOMAIN scheduled => scheduled["b"] \in Nat

ProbeIsSynced == tip[Probe] = Top

ScheduledFirst == pc > 1 => "b" \in DOMAIN scheduled

\* The entry of a rotation says what was scheduled.
AsScheduled(e) == e.change = "b" => "b" \in DOMAIN scheduled /\ e.from = scheduled["b"]

FilesAsScheduled ==
  \A s \in Signers :
    /\ \A e \in file[s] : AsScheduled(e)
    /\ \A e \in loaded[s] : AsScheduled(e)

ChainAsScheduled ==
  \A g \in 1..Len(chain) :
    chain[g].change = "b" => "b" \in DOMAIN scheduled /\ g + 1 = scheduled["b"]

KeysFollowChanges ==
  \A h \in 1..Len(chain) :
    chain[h].key = "b" <=> \E g \in 1..h - 1 : chain[g].change = "b"

IInv ==
  /\ Shapes /\ ProbeIsSynced /\ ScheduledFirst
  /\ FilesAsScheduled /\ ChainAsScheduled /\ KeysFollowChanges

-----------------------------------------------------------------------------
(* The job, and lengths.                                                   *)

Instructions ==
  [op : {"schedule", "pause", "bringUp", "wait", "confirm", "resume"}, change : Changes]
    \cup [op : {"write"}, change : Changes, signer : Signers, member : BOOLEAN]

LEMMA WritesAreInstructions ==
  ASSUME NEW c \in Changes, NEW s \in Signers, NEW m \in BOOLEAN
  PROVE  Write(c, s, m) \in Instructions
BY DEF Write, Instructions

LEMMA OpsAreInstructions ==
  ASSUME NEW c \in Changes,
         NEW o \in {"schedule", "pause", "bringUp", "wait", "confirm", "resume"}
  PROVE  Op(o, c) \in Instructions
BY DEF Op, Instructions

LEMMA Concatenation ==
  ASSUME NEW S, NEW s \in Seq(S), NEW t \in Seq(S)
  PROVE  /\ s \o t \in Seq(S)
         /\ s # <<>> => s \o t # <<>> /\ (s \o t)[1] = s[1]
OBVIOUS

LEMMA FunctionIsSequence ==
  ASSUME NEW S, NEW n \in Nat, NEW f \in [1..n -> S]
  PROVE  f \in Seq(S)
OBVIOUS

\* The job is a sequence and begins by scheduling the rotation.
LEMMA JobBegins ==
  /\ DOMAIN Job \subseteq Nat \ {0}
  /\ Job[1] = Op("schedule", "b")
<1> DEFINE head == << Op("schedule", "b"), Op("pause", "b") >>
           tail == << Op("bringUp", "b"), Op("wait", "b"), Op("confirm", "b"),
                      Op("resume", "b") >>
<1>1. /\ Len(SignersA) \in Nat /\ DOMAIN SignersA = 1..Len(SignersA)
      /\ Len(SignersB) \in Nat /\ DOMAIN SignersB = 1..Len(SignersB)
      /\ \A i \in DOMAIN SignersA : SignersA[i] \in Signers
      /\ \A i \in DOMAIN SignersB : SignersB[i] \in Signers
  BY SignerNetworkAssumption DEF Signers, SetA, SetB
<1>2. WriteFilesOfSetA \in Seq(Instructions)
  <2> \A i \in DOMAIN SignersA :
        Write("b", SignersA[i], SignersA[i] = Reused) \in Instructions
    BY <1>1, WritesAreInstructions DEF Changes
  <2> QED
    BY <1>1, FunctionIsSequence DEF WriteFilesOfSetA
<1>3. WriteFilesOfNewSigners \in Seq(Instructions)
  <2> DEFINE n == IF Len(SignersB) = 0 THEN 0 ELSE Len(SignersB) - 1
  <2>1. n \in Nat /\ 1..Len(SignersB) - 1 = 1..n /\ \A i \in 1..n : i + 1 \in DOMAIN SignersB
    BY <1>1
  <2>2. \A i \in 1..n : Write("b", SignersB[i + 1], TRUE) \in Instructions
    BY <1>1, <2>1, WritesAreInstructions DEF Changes
  <2> QED
    BY <2>1, <2>2, FunctionIsSequence DEF WriteFilesOfNewSigners
<1>4. WriteFilesOfActiveSigners \in Seq(Instructions)
  <2> \A i \in DOMAIN SignersB : Write("size", SignersB[i], TRUE) \in Instructions
    BY <1>1, WritesAreInstructions DEF Changes
  <2> QED
    BY <1>1, FunctionIsSequence DEF WriteFilesOfActiveSigners
<1>5. /\ \A c \in Changes : << Op("schedule", c), Op("pause", c) >> \in Seq(Instructions)
      /\ tail \in Seq(Instructions)
      /\ << Op("wait", "size"), Op("confirm", "size"), Op("resume", "size") >>
           \in Seq(Instructions)
  BY OpsAreInstructions DEF Changes
<1>6. head \in Seq(Instructions) /\ head # <<>> /\ head[1] = Op("schedule", "b")
  BY <1>5 DEF Changes
<1>7. /\ RotationScript \in Seq(Instructions) /\ RotationScript # <<>>
      /\ RotationScript[1] = Op("schedule", "b")
  <2> DEFINE one == head \o WriteFilesOfSetA
             two == one \o WriteFilesOfNewSigners
  <2>1. one \in Seq(Instructions) /\ one # <<>> /\ one[1] = Op("schedule", "b")
    BY <1>2, <1>6, Concatenation
  <2>2. two \in Seq(Instructions) /\ two # <<>> /\ two[1] = Op("schedule", "b")
    <3> HIDE DEF one
    <3> QED  BY <1>3, <2>1, Concatenation
  <2>3. RotationScript = two \o tail
    BY DEF RotationScript
  <2> HIDE DEF one, two, tail
  <2> QED
    BY <1>5, <2>2, <2>3, Concatenation
<1>8. BlockSizeScript \in Seq(Instructions)
  <2> DEFINE one == << Op("schedule", "size"), Op("pause", "size") >> \o WriteFilesOfActiveSigners
             rest == << Op("wait", "size"), Op("confirm", "size"), Op("resume", "size") >>
  <2>1. one \in Seq(Instructions)
    BY <1>4, <1>5, Concatenation DEF Changes
  <2>2. BlockSizeScript = one \o rest /\ rest \in Seq(Instructions)
    BY <1>5 DEF BlockSizeScript
  <2> HIDE DEF one, rest
  <2> QED
    BY <2>1, <2>2, Concatenation
<1>9. Job \in Seq(Instructions) /\ Job[1] = Op("schedule", "b")
  BY <1>7, <1>8, Concatenation DEF Job
<1> QED
  BY <1>9

\* At the first instruction nothing but the schedule of the rotation is done.
LEMMA FirstInstruction ==
  ASSUME pc = 1
  PROVE  /\ Instruction.change = "b"
         /\ \A op \in {"pause", "write", "bringUp", "wait", "confirm", "resume"} : ~At(op)
BY JobBegins DEF Instruction, At, Op

-----------------------------------------------------------------------------
(* The invariant.                                                          *)

LEMMA InitIInv == Init => IInv
<1> SUFFICES ASSUME Init PROVE IInv
  OBVIOUS
<1> USE SignerNetworkAssumption DEF Init, NetInit
<1>1. Shapes
  BY DEF Shapes
<1>2. ProbeIsSynced /\ ScheduledFirst
  BY DEF ProbeIsSynced, ScheduledFirst, Top
<1>3. FilesAsScheduled
  BY DEF FilesAsScheduled, AsScheduled
<1>4. ChainAsScheduled /\ KeysFollowChanges
  BY DEF ChainAsScheduled, KeysFollowChanges
<1> QED
  BY <1>1, <1>2, <1>3, <1>4 DEF IInv

\* A block that carries the rotation is the one before the scheduled height:
\* whoever signed it had the entry.
LEMMA BlockAsScheduled ==
  ASSUME IInv, NEW change, Produce(change), change = "b"
  PROVE  "b" \in DOMAIN scheduled /\ Top + 2 = scheduled["b"]
<1> DEFINE block == [key |-> KeyAt(Top + 1), change |-> change]
           signing == {s \in Signers : Signs(s, block, Top + 1)}
<1>1. Cardinality(signing) >= Threshold
  BY DEF Produce
<1>2. signing # {}
  <2> HIDE DEF signing
  <2> SUFFICES ASSUME signing = {} PROVE FALSE
    OBVIOUS
  <2>1. Cardinality(signing) = 0
    BY FS_EmptySet
  <2>2. 0 >= Threshold
    BY <1>1, <2>1
  <2> QED
    BY <2>2, SignerNetworkAssumption
<1>3. PICK s \in Signers : Signs(s, block, Top + 1)
  BY <1>2
<1>4. block.change = "b"
  OBVIOUS
<1>5. PICK e \in loaded[s] : e.from = Top + 1 + 1 /\ e.change = "b"
  <2> HIDE DEF block
  <2>1. {block.change} \ {"none"} = {e.change : e \in {x \in loaded[s] : x.from = Top + 1 + 1}}
    BY <1>3 DEF Signs
  <2>2. "b" \in {e.change : e \in {x \in loaded[s] : x.from = Top + 1 + 1}}
    BY <1>4, <2>1
  <2> QED
    BY <2>2
<1> QED
  BY <1>5 DEF IInv, FilesAsScheduled, AsScheduled, Shapes, Top

\* The key of the next block changes with the first change in the chain.
LEMMA KeyOfNext ==
  ASSUME Shapes
  PROVE  KeyAt(Top + 1) = "b" <=> \E g \in 1..Top : chain[g].change = "b"
<1>1. Top \in Nat /\ DOMAIN chain = 1..Top
  BY DEF Shapes, Top
<1>2. ASSUME NEW g \in 1..Top + 1, InForceFrom(g, "b")
      PROVE  \E x \in 1..Top : chain[x].change = "b"
  BY <1>1, <1>2 DEF InForceFrom
<1>3. ASSUME NEW x \in 1..Top, chain[x].change = "b"
      PROVE  \E g \in 1..Top + 1 : InForceFrom(g, "b")
  <2> x + 1 \in 1..Top + 1 /\ x + 1 - 1 = x
    BY <1>1
  <2> QED
    BY <1>1, <1>3 DEF InForceFrom
<1> QED
  BY <1>2, <1>3 DEF KeyAt

\* What a step may do to the schedule: it computes a height that is not yet
\* computed, and for "b" at the first instruction at the latest.
LEMMA ScriptOrder ==
  ASSUME IInv, Scripts \/ Environment
  PROVE  /\ pc' \in Nat
         /\ ScheduledFirst'
         /\ "b" \in DOMAIN scheduled =>
              "b" \in DOMAIN scheduled' /\ scheduled'["b"] = scheduled["b"]
         /\ "b" \in DOMAIN scheduled' => scheduled'["b"] \in Nat
<1> USE FirstInstruction, JobBegins
    DEF IInv, Shapes, ScheduledFirst, Running, At, Continue, Fail
<1>1. CASE SchedulesHeight
  <2>1. tip[Probe] + Offset \in Nat
    BY SignerNetworkAssumption, FederationChangeAssumption
  <2>2. pc = 1 => Instruction.change = "b"
    OBVIOUS
  <2> QED
    BY <1>1, <2>1, <2>2 DEF SchedulesHeight
<1>2. CASE TogglesPause
  BY <1>2 DEF TogglesPause
<1>3. CASE WritesFile
  BY <1>3 DEF WritesFile
<1>4. CASE BringsUpNewSigners
  BY <1>4 DEF BringsUpNewSigners
<1>5. CASE \E n \in Nodes : ConfirmsNode(n)
  BY <1>5 DEF ConfirmsNode
<1>6. CASE HeightReached
  BY <1>6 DEF HeightReached
<1>7. CASE SeesProgress \/ SeesNoProgress \/ Stalls
  BY <1>7 DEF SeesProgress, SeesNoProgress, Stalls
<1>8. CASE Confirmed \/ NotConfirmed
  BY <1>8 DEF Confirmed, NotConfirmed
<1>9. CASE BringUpRaises \/ CallRaises
  BY <1>9 DEF BringUpRaises, CallRaises
<1>10. CASE Environment
  BY <1>10 DEF Environment, script
<1> QED
  BY <1>1, <1>2, <1>3, <1>4, <1>5, <1>6, <1>7, <1>8, <1>9, <1>10 DEF Scripts

\* What a step may do to chain and tip.
LEMMA NetworkOrder ==
  ASSUME IInv, Scripts \/ Environment
  PROVE  /\ tip' \in [Nodes -> Nat]
         /\ ProbeIsSynced'
         /\ \/ UNCHANGED chain
            \/ UNCHANGED scheduled /\ \E change \in {"none"} \cup Changes : Produce(change)
<1> USE SignerNetworkAssumption DEF IInv, Shapes, ProbeIsSynced, Top
<1>1. CASE Scripts
  <2> UNCHANGED <<chain, tip>>
    BY <1>1 DEF Scripts, SchedulesHeight, TogglesPause, WritesFile, BringsUpNewSigners,
       ConfirmsNode, HeightReached, SeesProgress, SeesNoProgress, Stalls, Confirmed,
       NotConfirmed, BringUpRaises, CallRaises, Start, netVars
  <2> QED
    OBVIOUS
<1>2. CASE Environment
  <2> UNCHANGED scheduled
    BY <1>2 DEF Environment, script
  <2>1. ASSUME NEW change \in {"none"} \cup Changes, Produce(change)
        PROVE  tip' \in [Nodes -> Nat] /\ ProbeIsSynced'
    BY <2>1 DEF Produce
  <2>2. ASSUME NEW n \in Nodes, Catch(n)
        PROVE  UNCHANGED chain /\ tip' \in [Nodes -> Nat] /\ ProbeIsSynced'
    BY <2>2 DEF Catch
  <2>3. ASSUME NEW s \in Signers, Reload(s) \/ SignerDies(s)
        PROVE  UNCHANGED <<chain, tip>>
    BY <2>3 DEF Reload, SignerDies
  <2>4. ASSUME NEW n \in ChaosNodes, NEW paused, Arm(n, paused) \/ Act(n) \/ Recover(n)
        PROVE  UNCHANGED chain /\ tip' \in [Nodes -> Nat] /\ ProbeIsSynced'
    BY <2>4 DEF Arm, Act, Recover
  <2> QED
    BY <1>2, <2>1, <2>2, <2>3, <2>4 DEF Environment, Network, Produces
<1> QED
  BY <1>1, <1>2

\* What a step may do to the files.
LEMMA FileOrder ==
  ASSUME IInv, Scripts \/ Environment
  PROVE  DOMAIN file' = Signers /\ DOMAIN loaded' = Signers /\ FilesAsScheduled'
<1> USE DEF IInv, Shapes, FilesAsScheduled, AsScheduled
<1>1. "b" \in DOMAIN scheduled =>
        "b" \in DOMAIN scheduled' /\ scheduled'["b"] = scheduled["b"]
  BY ScriptOrder
<1>2. CASE UNCHANGED <<file, loaded>>
  BY <1>1, <1>2
<1>3. CASE WritesFile
  <2> UNCHANGED <<loaded, scheduled>>
    BY <1>3 DEF WritesFile
  <2> DEFINE s == Instruction.signer
             new == FileSoFar(s) \cup {NewEntry(scheduled[Instruction.change])}
  <2>1. file' = [file EXCEPT ![s] = new] /\ pc \in Nat \ {0, 1}
    BY <1>3, FirstInstruction, JobBegins DEF WritesFile, At, Running
  <2>2. AsScheduled(NewEntry(scheduled[Instruction.change]))
    BY <2>1 DEF NewEntry, ScheduledFirst
  <2>3. s \in Signers => \A e \in FileSoFar(s) : AsScheduled(e)
    BY DEF FileSoFar
  <2>4. s \in Signers => \A e \in new : AsScheduled(e)
    BY <2>2, <2>3
  <2> HIDE DEF s, new
  <2> QED
    BY <2>1, <2>4
<1>4. ASSUME NEW group, Start(group), UNCHANGED scheduled
      PROVE  DOMAIN file' = Signers /\ DOMAIN loaded' = Signers /\ FilesAsScheduled'
  BY <1>4 DEF Start
<1>5. CASE Scripts
  BY <1>2, <1>3, <1>4, <1>5 DEF Scripts, SchedulesHeight, TogglesPause, BringsUpNewSigners,
     ConfirmsNode, HeightReached, SeesProgress, SeesNoProgress, Stalls, Confirmed,
     NotConfirmed, BringUpRaises, CallRaises, netVars
<1>6. CASE Environment
  <2>1. ASSUME NEW s \in Signers, Reload(s)
        PROVE  DOMAIN file' = Signers /\ DOMAIN loaded' = Signers /\ FilesAsScheduled'
    BY <1>1, <2>1 DEF Reload
  <2>2. (\E s \in Signers : Reload(s)) \/ UNCHANGED <<file, loaded>>
    BY <1>6 DEF Environment, Network, Produces, Produce, Catch, SignerDies, Arm, Act, Recover
  <2> QED
    BY <1>2, <2>1, <2>2
<1> QED
  BY <1>5, <1>6

\* A step keeps the invariant.
LEMMA StepIInv == IInv /\ [Next]_vars => IInv'
<1> SUFFICES ASSUME IInv, [Next]_vars PROVE IInv'
  OBVIOUS
<1>1. CASE UNCHANGED vars
  BY <1>1 DEF IInv, Shapes, ProbeIsSynced, ScheduledFirst, FilesAsScheduled, AsScheduled,
     ChainAsScheduled, KeysFollowChanges, Top, vars, netVars, script
<1>2. CASE Scripts \/ Environment
  <2>1. /\ "b" \in DOMAIN scheduled =>
             "b" \in DOMAIN scheduled' /\ scheduled'["b"] = scheduled["b"]
        /\ pc' \in Nat /\ ScheduledFirst'
        /\ "b" \in DOMAIN scheduled' => scheduled'["b"] \in Nat
    BY <1>2, ScriptOrder
  <2>2. /\ tip' \in [Nodes -> Nat] /\ ProbeIsSynced'
        /\ \/ UNCHANGED chain
           \/ UNCHANGED scheduled /\ \E change \in {"none"} \cup Changes : Produce(change)
    BY <1>2, NetworkOrder
  <2>3. DOMAIN file' = Signers /\ DOMAIN loaded' = Signers /\ FilesAsScheduled'
    BY <1>2, FileOrder
  <2>4. CASE UNCHANGED chain
    BY <2>1, <2>2, <2>3, <2>4 DEF IInv, Shapes, ChainAsScheduled, KeysFollowChanges
  <2>5. CASE UNCHANGED scheduled /\ \E change \in {"none"} \cup Changes : Produce(change)
    <3>1. PICK change \in {"none"} \cup Changes : Produce(change)
      BY <2>5
    <3> DEFINE block == [key |-> KeyAt(Top + 1), change |-> change]
    <3>2. /\ chain' = Append(chain, block) /\ Top \in Nat
          /\ block \in [key : {"a", "b"}, change : {"none"} \cup Changes]
      BY <3>1 DEF Produce, KeyAt, IInv, Shapes, Top
    <3>3. block.change = "b" => "b" \in DOMAIN scheduled /\ Top + 2 = scheduled["b"]
      BY <3>1, BlockAsScheduled
    <3>4. block.key = "b" <=> \E g \in 1..Top : chain[g].change = "b"
      BY KeyOfNext DEF IInv
    <3> HIDE DEF block
    <3>5. /\ chain' \in Seq([key : {"a", "b"}, change : {"none"} \cup Changes])
          /\ Len(chain') = Top + 1
          /\ \A g \in 1..Top : chain'[g] = chain[g]
          /\ chain'[Top + 1] = block
      BY <3>2 DEF IInv, Shapes, Top
    <3>6. ChainAsScheduled'
      BY <2>5, <3>2, <3>3, <3>5 DEF IInv, ChainAsScheduled, Top
    <3>7. KeysFollowChanges'
      <4> SUFFICES ASSUME NEW h \in 1..Top + 1
                   PROVE  chain'[h].key = "b" <=>
                            \E g \in 1..h - 1 : chain'[g].change = "b"
        BY <3>5 DEF KeysFollowChanges
      <4>1. CASE h = Top + 1
        BY <3>2, <3>4, <3>5, <4>1
      <4>2. CASE h \in 1..Top
        BY <3>2, <3>5, <4>2 DEF IInv, KeysFollowChanges, Top
      <4>3. h = Top + 1 \/ h \in 1..Top
        BY <3>2
      <4> QED
        BY <4>1, <4>2, <4>3
    <3> QED
      BY <2>1, <2>2, <2>3, <3>5, <3>6, <3>7 DEF IInv, Shapes
  <2> QED
    BY <2>2, <2>4, <2>5
<1> QED
  BY <1>1, <1>2 DEF Next

-----------------------------------------------------------------------------
(* The refinement.                                                         *)

announcedHeight == IF "b" \in DOMAIN scheduled THEN scheduled["b"] ELSE 0
keys == [h \in DOMAIN chain |-> chain[h].key]

LEMMA KeysOfChain ==
  ASSUME Shapes
  PROVE  keys \in Seq({"a", "b"}) /\ Len(keys) = Top /\ \A h \in 1..Top : keys[h] = chain[h].key
<1>1. Top \in Nat /\ DOMAIN chain = 1..Top
  BY DEF Shapes, Top
<1>2. keys \in [1..Top -> {"a", "b"}]
  <2>1. \A h \in 1..Top : chain[h] \in [key : {"a", "b"}, change : {"none"} \cup Changes]
    BY LenProperties, ZenonT(30) DEF Shapes, Top
  <2>2. \A h \in 1..Top : chain[h].key \in {"a", "b"}
    BY <2>1
  <2> QED
    BY <1>1, <2>2 DEF keys
<1>3. keys \in Seq({"a", "b"})
  BY <1>1, <1>2, FunctionIsSequence
<1> QED
  BY <1>1, <1>2, <1>3 DEF keys

\* A block continues the chain of the abstract specification.
LEMMA ProduceIsBlock ==
  ASSUME IInv, IInv', NEW change \in {"none"} \cup Changes, Produce(change), UNCHANGED scheduled
  PROVE  \E key \in {"a", "b"} : Announced!Block(key)
<1> DEFINE key == KeyAt(Top + 1)
           block == [key |-> key, change |-> change]
<1>1. key \in {"a", "b"} /\ Top \in Nat
  BY DEF KeyAt, IInv, Shapes, Top
<1>2. key = "b" <=> \E g \in 1..Top : chain[g].change = "b"
  BY KeyOfNext DEF IInv
<1> HIDE DEF key
<1>3. chain' = Append(chain, block)
  BY DEF Produce, key
<1>4. keys' = Append(keys, key)
  <2>1. Len(chain') = Top + 1 /\ chain'[Top + 1].key = key
        /\ \A h \in 1..Top : chain'[h] = chain[h]
    BY <1>1, <1>3 DEF IInv, Shapes, Top
  <2>2. /\ keys \in Seq({"a", "b"}) /\ Len(keys) = Top
        /\ \A h \in 1..Top : keys[h] = chain[h].key
    BY KeysOfChain DEF IInv
  <2>3. DOMAIN chain' = 1..Top + 1
    BY <2>1 DEF IInv, Shapes
  <2>4. keys' = [h \in 1..Top + 1 |-> chain'[h].key]
    BY <2>3 DEF keys
  <2>5. Append(keys, key) = [h \in 1..Top + 1 |-> IF h = Top + 1 THEN key ELSE keys[h]]
    <3>1. Append(keys, key) \in Seq({"a", "b"}) /\ Len(Append(keys, key)) = Top + 1
      BY <1>1, <2>2
    <3>2. Append(keys, key) \in [1..Top + 1 -> {"a", "b"}]
      BY <3>1, LenProperties
    <3>3. \A h \in 1..Top + 1 :
            Append(keys, key)[h] = IF h = Top + 1 THEN key ELSE keys[h]
      BY <1>1, <2>2
    <3> QED
      BY <3>2, <3>3
  <2>6. \A h \in 1..Top + 1 : chain'[h].key = IF h = Top + 1 THEN key ELSE keys[h]
    BY <1>1, <2>1, <2>2
  <2> HIDE DEF key
  <2> QED
    BY <2>4, <2>5, <2>6
<1>5. keys # <<>> /\ keys[Len(keys)] = "b" => key = "b"
  <2> SUFFICES ASSUME keys # <<>>, keys[Len(keys)] = "b" PROVE key = "b"
    OBVIOUS
  <2>1. Top \in 1..Top /\ chain[Top].key = "b"
    BY <1>1, KeysOfChain DEF IInv
  <2>2. \E g \in 1..Top - 1 : chain[g].change = "b"
    BY <2>1 DEF IInv, KeysFollowChanges, Top
  <2> QED
    BY <1>1, <1>2, <2>2
<1>6. key = "b" => \/ keys # <<>> /\ keys[Len(keys)] = "b"
                   \/ announcedHeight = Len(keys) + 1
  <2> SUFFICES ASSUME key = "b"
               PROVE  \/ keys # <<>> /\ keys[Len(keys)] = "b"
                      \/ announcedHeight = Len(keys) + 1
    OBVIOUS
  <2>1. PICK g \in 1..Top : chain[g].change = "b"
    BY <1>2
  <2>2. CASE g = Top
    BY <1>1, <2>1, <2>2, KeysOfChain DEF IInv, ChainAsScheduled, announcedHeight, Top
  <2>3. CASE g # Top
    <3>1. g \in 1..Top - 1 /\ Top \in 1..Top
      BY <1>1, <2>3
    <3>2. chain[Top].key = "b"
      BY <2>1, <3>1 DEF IInv, KeysFollowChanges, Top
    <3> QED
      BY <1>1, <3>1, <3>2, KeysOfChain DEF IInv
  <2> QED
    BY <2>2, <2>3
<1>7. announcedHeight' = announcedHeight
  BY DEF announcedHeight
<1> QED
  BY <1>1, <1>4, <1>5, <1>6, <1>7
     DEF Announced!Block, Announced!TakenOver, announcedHeight, keys

\* Every step is an announcement, a block or a stutter of the abstract
\* specification.
LEMMA StepHandover ==
  IInv /\ IInv' /\ [Next]_vars => [Announced!Next]_(Announced!vars)
<1> SUFFICES ASSUME IInv, IInv', [Next]_vars PROVE [Announced!Next]_(Announced!vars)
  OBVIOUS
<1>1. CASE UNCHANGED vars
  BY <1>1 DEF Announced!vars, vars, netVars, script
<1>2. CASE Scripts \/ Environment
  <2>1. CASE UNCHANGED <<chain, scheduled>>
    BY <2>1 DEF Announced!vars
  <2>2. CASE SchedulesHeight
    <3> UNCHANGED chain
      BY <2>2 DEF SchedulesHeight, netVars
    <3>1. keys' = keys /\ Len(keys) = Top /\ Top \in Nat
      BY KeysOfChain DEF keys, IInv, Shapes, Top
    <3>2. CASE "b" \in DOMAIN scheduled \/ Instruction.change # "b"
      <4> announcedHeight' = announcedHeight
        BY <2>2, <3>2 DEF SchedulesHeight, announcedHeight
      <4> QED
        BY <3>1 DEF Announced!vars, announcedHeight, keys
    <3>3. CASE "b" \notin DOMAIN scheduled /\ Instruction.change = "b"
      <4>1. announcedHeight = 0
        BY <3>3 DEF announcedHeight
      <4>2. announcedHeight' = Top + Offset
        BY <2>2, <3>3 DEF SchedulesHeight, announcedHeight, IInv, ProbeIsSynced
      <4>3. announcedHeight' \in Nat /\ announcedHeight' > Len(keys)
        BY <3>1, <4>2, FederationChangeAssumption
      <4> QED
        BY <3>1, <4>1, <4>3 DEF Announced!Next, Announced!Announce, announcedHeight, keys
    <3> QED
      BY <3>2, <3>3
  <2>3. ASSUME NEW change \in {"none"} \cup Changes, Produce(change), UNCHANGED scheduled
        PROVE  Announced!Next
    BY <2>3, ProduceIsBlock DEF Announced!Next
  <2>4. \/ UNCHANGED chain
        \/ UNCHANGED scheduled /\ \E change \in {"none"} \cup Changes : Produce(change)
    BY <1>2, NetworkOrder
  <2>5. SchedulesHeight \/ UNCHANGED scheduled
    BY <1>2 DEF Scripts, Environment, TogglesPause, WritesFile, BringsUpNewSigners,
       ConfirmsNode, HeightReached, SeesProgress, SeesNoProgress, Stalls, Confirmed,
       NotConfirmed, BringUpRaises, CallRaises, script
  <2> QED
    BY <2>1, <2>2, <2>3, <2>4, <2>5
<1> QED
  BY <1>1, <1>2 DEF Next

\* "signer-set-b took over at height ...": the new key signs from exactly the
\* announced height on or never, whichever files the signers of a round have
\* read, whoever exits, and wherever the script is interrupted by an exception.
THEOREM HandsOverAsAnnounced == Spec => TakesOverAsAnnounced
<1>1. Init => Announced!Init
  BY DEF Init, NetInit, Announced!Init
<1> QED
  BY <1>1, InitIInv, StepIInv, StepHandover, PTL
     DEF Spec, TakesOverAsAnnounced, Announced!Spec

-----------------------------------------------------------------------------
(***************************************************************************)
(* Where change c is scheduled and where it is waited for; all of its      *)
(* instructions lie from the first up to the second after the other.       *)
(***************************************************************************)
First(c) == IF c = "b" THEN 1 ELSE Len(RotationScript) + 1
Awaited(c) == IF c = "b" THEN Len(RotationScript) - 2 ELSE Len(Job) - 2

(***************************************************************************)
(* The inductive invariant.  A change has a height from its first          *)
(* instruction on (InOrder); behind the wait the chain has that height,    *)
(* behind the confirmation it has the change (Reaches), and the block size *)
(* is scheduled behind a rotation that is in force.  The chaos loops are   *)
(* paused from before the wait on, so that a node that had the height has  *)
(* lost at most its last block since, by the action that had passed its    *)
(* gate (StillThere).  So a node is confirmed exactly if the change is in  *)
(* force, and what is in force at a height the chain has reached, or not,  *)
(* stays so (ReadRight).                                                   *)
(***************************************************************************)
InOrder ==
  /\ \A c \in Changes :
       /\ pc > First(c) => c \in DOMAIN scheduled
       /\ c \in DOMAIN scheduled => pc = 0 \/ pc > First(c)
       /\ pc \in First(c) + 2..Awaited(c) + 2 => pauseFile
  /\ outcome # "none" => pc = 0

Reaches ==
  /\ \A c \in Changes :
       /\ pc > Awaited(c) => Top >= scheduled[c]
       /\ pc > Awaited(c) + 1 => InForceFrom(scheduled[c], c)
  /\ "size" \in DOMAIN scheduled =>
       /\ "b" \in DOMAIN scheduled /\ scheduled["b"] < scheduled["size"]
       /\ InForceFrom(scheduled["b"], "b")

StillThere ==
  \A c \in Changes : pc \in {Awaited(c) + 1, Awaited(c) + 2} =>
    \A n \in Nodes :
      /\ tip[n] + 1 >= scheduled[c]
      /\ chaos[n] = "armed" => tip[n] >= scheduled[c]

ReadRight ==
  /\ \A c \in Changes : pc = Awaited(c) + 1 =>
       \A n \in DOMAIN seen : seen[n] = InForceFrom(scheduled[c], c)
  /\ (\A c \in Changes : pc # Awaited(c) + 1) => seen = <<>>
  /\ outcome = "unconfirmed" =>
       \A c \in DOMAIN scheduled : c = "size" \/ "size" \notin DOMAIN scheduled =>
         Top >= scheduled[c] /\ ~InForceFrom(scheduled[c], c)

VInv == TypeOK /\ InOrder /\ Reaches /\ StillThere /\ ReadRight

-----------------------------------------------------------------------------
(* The job.                                                                *)

\* What a script is before its last instructions.
Prefix(p, c) ==
  /\ p \in Seq(Instructions) /\ Len(p) >= 2
  /\ p[1] = Op("schedule", c) /\ p[2] = Op("pause", c)
  /\ \A i \in 3..Len(p) : p[i].op = "write" /\ p[i].change = c

Writing(w, c) ==
  w \in Seq(Instructions) /\ \A i \in 1..Len(w) : w[i].op = "write" /\ w[i].change = c

LEMMA Elements ==
  ASSUME NEW S, NEW s \in Seq(S), NEW t \in Seq(S)
  PROVE  /\ s \o t \in Seq(S)
         /\ Len(s) \in Nat /\ Len(t) \in Nat /\ Len(s \o t) = Len(s) + Len(t)
         /\ \A i \in 1..Len(s) : (s \o t)[i] = s[i]
         /\ \A i \in 1..Len(t) : (s \o t)[Len(s) + i] = t[i]
OBVIOUS

LEMMA WritingFollows ==
  ASSUME NEW p, NEW w, NEW c, Prefix(p, c), Writing(w, c)
  PROVE  Prefix(p \o w, c)
<1>1. /\ p \o w \in Seq(Instructions)
      /\ Len(p) \in Nat /\ Len(w) \in Nat /\ Len(p \o w) = Len(p) + Len(w)
      /\ \A i \in 1..Len(p) : (p \o w)[i] = p[i]
      /\ \A i \in 1..Len(w) : (p \o w)[Len(p) + i] = w[i]
  BY Elements DEF Prefix, Writing
<1>2. ASSUME NEW i \in 3..Len(p \o w)
      PROVE  (p \o w)[i].op = "write" /\ (p \o w)[i].change = c
  <2>1. CASE i <= Len(p)
    BY <1>1, <2>1 DEF Prefix
  <2>2. CASE i > Len(p)
    <3>1. PICK j \in 1..Len(w) : i = Len(p) + j
      <4> i - Len(p) \in 1..Len(w) /\ i = Len(p) + (i - Len(p))
        BY <1>1, <2>2
      <4> QED
        OBVIOUS
    <3>2. (p \o w)[i] = w[j]
      BY <1>1, <3>1
    <3> QED
      BY <3>2 DEF Writing
  <2> QED
    BY <1>1, <2>1, <2>2
<1> QED
  BY <1>1, <1>2 DEF Prefix

LEMMA WritingOfSets ==
  /\ Writing(WriteFilesOfSetA, "b") /\ Writing(WriteFilesOfNewSigners, "b")
  /\ Writing(WriteFilesOfActiveSigners, "size")
<1>1. /\ Len(SignersA) \in Nat /\ DOMAIN SignersA = 1..Len(SignersA)
      /\ Len(SignersB) \in Nat /\ DOMAIN SignersB = 1..Len(SignersB)
      /\ \A i \in DOMAIN SignersA : SignersA[i] \in Signers
      /\ \A i \in DOMAIN SignersB : SignersB[i] \in Signers
  BY SignerNetworkAssumption DEF Signers, SetA, SetB
<1>2. \A c, s, m : Write(c, s, m).op = "write" /\ Write(c, s, m).change = c
  BY DEF Write
<1>3. ASSUME NEW c \in Changes, NEW n \in Nat, NEW f,
             f = [i \in 1..n |-> f[i]],
             \A i \in 1..n : \E s \in Signers, m \in BOOLEAN : f[i] = Write(c, s, m)
      PROVE  Writing(f, c)
  <2>1. \A i \in 1..n : f[i] \in Instructions /\ f[i].op = "write" /\ f[i].change = c
    BY <1>2, <1>3, WritesAreInstructions
  <2>2. f \in Seq(Instructions) /\ Len(f) = n
    <3> f \in [1..n -> Instructions]
      BY <1>3, <2>1
    <3> QED
      BY FunctionIsSequence
  <2> QED
    BY <2>1, <2>2 DEF Writing
<1>4. Writing(WriteFilesOfSetA, "b")
  <2> \A i \in 1..Len(SignersA) :
        WriteFilesOfSetA[i] = Write("b", SignersA[i], SignersA[i] = Reused)
    BY <1>1 DEF WriteFilesOfSetA
  <2> WriteFilesOfSetA = [i \in 1..Len(SignersA) |-> WriteFilesOfSetA[i]]
    BY <1>1 DEF WriteFilesOfSetA
  <2> \A i \in 1..Len(SignersA) : \E s \in Signers, m \in BOOLEAN :
        WriteFilesOfSetA[i] = Write("b", s, m)
    <3> TAKE i \in 1..Len(SignersA)
    <3> SignersA[i] \in Signers /\ (SignersA[i] = Reused) \in BOOLEAN
      BY <1>1
    <3> QED
      OBVIOUS
  <2> QED
    BY <1>1, <1>3 DEF Changes
<1>5. Writing(WriteFilesOfNewSigners, "b")
  <2> DEFINE n == IF Len(SignersB) = 0 THEN 0 ELSE Len(SignersB) - 1
  <2>1. n \in Nat /\ 1..Len(SignersB) - 1 = 1..n /\ \A i \in 1..n : i + 1 \in DOMAIN SignersB
    BY <1>1
  <2> HIDE DEF n
  <2>2. WriteFilesOfNewSigners = [i \in 1..n |-> Write("b", SignersB[i + 1], TRUE)]
    BY <2>1 DEF WriteFilesOfNewSigners
  <2>3. /\ WriteFilesOfNewSigners = [i \in 1..n |-> WriteFilesOfNewSigners[i]]
        /\ \A i \in 1..n : WriteFilesOfNewSigners[i] = Write("b", SignersB[i + 1], TRUE)
    BY <2>2
  <2>4. \A i \in 1..n : \E s \in Signers, m \in BOOLEAN :
          WriteFilesOfNewSigners[i] = Write("b", s, m)
    BY <1>1, <2>1, <2>3
  <2> QED
    BY <1>3, <2>1, <2>3, <2>4 DEF Changes
<1>6. Writing(WriteFilesOfActiveSigners, "size")
  <2>1. /\ WriteFilesOfActiveSigners =
             [i \in 1..Len(SignersB) |-> WriteFilesOfActiveSigners[i]]
        /\ \A i \in 1..Len(SignersB) :
             WriteFilesOfActiveSigners[i] = Write("size", SignersB[i], TRUE)
    BY <1>1 DEF WriteFilesOfActiveSigners
  <2>2. \A i \in 1..Len(SignersB) : \E s \in Signers, m \in BOOLEAN :
          WriteFilesOfActiveSigners[i] = Write("size", s, m)
    BY <1>1, <2>1
  <2> QED
    BY <1>1, <1>3, <2>1, <2>2 DEF Changes
<1> QED
  BY <1>4, <1>5, <1>6

LEMMA PrefixBegins == \A c \in Changes : Prefix(<< Op("schedule", c), Op("pause", c) >>, c)
<1> SUFFICES ASSUME NEW c \in Changes
             PROVE  Prefix(<< Op("schedule", c), Op("pause", c) >>, c)
  OBVIOUS
<1> Op("schedule", c) \in Instructions /\ Op("pause", c) \in Instructions
  BY OpsAreInstructions
<1> QED
  BY DEF Prefix

LEMMA RotationIs ==
  LET r == Len(RotationScript) IN
  /\ RotationScript \in Seq(Instructions) /\ r \in Nat /\ r >= 6
  /\ RotationScript[1] = Op("schedule", "b") /\ RotationScript[2] = Op("pause", "b")
  /\ \A i \in 3..r - 4 : RotationScript[i].op = "write" /\ RotationScript[i].change = "b"
  /\ RotationScript[r - 3] = Op("bringUp", "b") /\ RotationScript[r - 2] = Op("wait", "b")
  /\ RotationScript[r - 1] = Op("confirm", "b") /\ RotationScript[r] = Op("resume", "b")
<1> DEFINE head == << Op("schedule", "b"), Op("pause", "b") >>
           p == (head \o WriteFilesOfSetA) \o WriteFilesOfNewSigners
           t == << Op("bringUp", "b"), Op("wait", "b"), Op("confirm", "b"),
                   Op("resume", "b") >>
<1>1. Prefix(p, "b")
  <2>1. Prefix(head, "b")
    BY PrefixBegins DEF Changes
  <2> HIDE DEF head
  <2> QED
    BY <2>1, WritingFollows, WritingOfSets
<1>2. t \in Seq(Instructions) /\ Len(t) = 4
      /\ t[1] = Op("bringUp", "b") /\ t[2] = Op("wait", "b")
      /\ t[3] = Op("confirm", "b") /\ t[4] = Op("resume", "b")
  BY OpsAreInstructions DEF Changes
<1>3. RotationScript = p \o t
  BY DEF RotationScript
<1> HIDE DEF p, t
<1>4. /\ RotationScript \in Seq(Instructions)
      /\ Len(p) \in Nat /\ Len(RotationScript) = Len(p) + 4
      /\ \A i \in 1..Len(p) : RotationScript[i] = p[i]
      /\ \A i \in 1..4 : RotationScript[Len(p) + i] = t[i]
  <2>0. p \in Seq(Instructions) /\ t \in Seq(Instructions)
    BY <1>1, <1>2 DEF Prefix
  <2>1. /\ p \o t \in Seq(Instructions)
        /\ Len(p) \in Nat /\ Len(p \o t) = Len(p) + Len(t)
        /\ \A i \in 1..Len(p) : (p \o t)[i] = p[i]
        /\ \A i \in 1..Len(t) : (p \o t)[Len(p) + i] = t[i]
    BY <2>0, Elements
  <2> QED
    BY <1>2, <1>3, <2>1
<1>5. /\ Len(RotationScript) - 3 = Len(p) + 1 /\ Len(RotationScript) - 2 = Len(p) + 2
      /\ Len(RotationScript) - 1 = Len(p) + 3 /\ Len(RotationScript) - 4 = Len(p)
      /\ Len(p) >= 2
  BY <1>1, <1>4 DEF Prefix
<1>6. /\ RotationScript[Len(p) + 1] = t[1] /\ RotationScript[Len(p) + 2] = t[2]
      /\ RotationScript[Len(p) + 3] = t[3] /\ RotationScript[Len(p) + 4] = t[4]
      /\ RotationScript[1] = p[1] /\ RotationScript[2] = p[2]
  BY <1>4, <1>5
<1> QED
  BY <1>1, <1>2, <1>4, <1>5, <1>6 DEF Prefix

LEMMA BlockSizeIs ==
  LET q == Len(BlockSizeScript) IN
  /\ BlockSizeScript \in Seq(Instructions) /\ q \in Nat /\ q >= 5
  /\ BlockSizeScript[1] = Op("schedule", "size") /\ BlockSizeScript[2] = Op("pause", "size")
  /\ \A i \in 3..q - 3 : BlockSizeScript[i].op = "write" /\ BlockSizeScript[i].change = "size"
  /\ BlockSizeScript[q - 2] = Op("wait", "size") /\ BlockSizeScript[q - 1] = Op("confirm", "size")
  /\ BlockSizeScript[q] = Op("resume", "size")
<1> DEFINE head == << Op("schedule", "size"), Op("pause", "size") >>
           p == head \o WriteFilesOfActiveSigners
           t == << Op("wait", "size"), Op("confirm", "size"), Op("resume", "size") >>
<1>1. Prefix(p, "size")
  <2>1. Prefix(head, "size")
    BY PrefixBegins DEF Changes
  <2> HIDE DEF head
  <2> QED
    BY <2>1, WritingFollows, WritingOfSets
<1>2. t \in Seq(Instructions) /\ Len(t) = 3 /\ t[1] = Op("wait", "size")
      /\ t[2] = Op("confirm", "size") /\ t[3] = Op("resume", "size")
  BY OpsAreInstructions DEF Changes
<1>3. BlockSizeScript = p \o t
  BY DEF BlockSizeScript
<1> HIDE DEF p, t
<1>4. /\ BlockSizeScript \in Seq(Instructions)
      /\ Len(p) \in Nat /\ Len(BlockSizeScript) = Len(p) + 3
      /\ \A i \in 1..Len(p) : BlockSizeScript[i] = p[i]
      /\ \A i \in 1..3 : BlockSizeScript[Len(p) + i] = t[i]
  <2>0. p \in Seq(Instructions) /\ t \in Seq(Instructions)
    BY <1>1, <1>2 DEF Prefix
  <2>1. /\ p \o t \in Seq(Instructions)
        /\ Len(p) \in Nat /\ Len(p \o t) = Len(p) + Len(t)
        /\ \A i \in 1..Len(p) : (p \o t)[i] = p[i]
        /\ \A i \in 1..Len(t) : (p \o t)[Len(p) + i] = t[i]
    BY <2>0, Elements
  <2> QED
    BY <1>2, <1>3, <2>1
<1>5. /\ Len(BlockSizeScript) - 2 = Len(p) + 1 /\ Len(BlockSizeScript) - 1 = Len(p) + 2
      /\ Len(BlockSizeScript) - 3 = Len(p) /\ Len(p) >= 2
  BY <1>1, <1>4 DEF Prefix
<1>6. /\ BlockSizeScript[Len(p) + 1] = t[1] /\ BlockSizeScript[Len(p) + 2] = t[2]
      /\ BlockSizeScript[Len(p) + 3] = t[3]
      /\ BlockSizeScript[1] = p[1] /\ BlockSizeScript[2] = p[2]
  BY <1>4, <1>5
<1> QED
  BY <1>1, <1>2, <1>4, <1>5, <1>6 DEF Prefix

\* Where each change has its instructions in the job.
LEMMA Places ==
  /\ Len(Job) \in Nat /\ DOMAIN Job = 1..Len(Job)
  /\ First("b") = 1 /\ First("size") = Awaited("b") + 3 /\ Len(Job) = Awaited("size") + 2
  /\ \A c \in Changes :
       /\ First(c) \in Nat /\ Awaited(c) \in Nat /\ Awaited(c) > First(c) + 1
       /\ Job[First(c)] = Op("schedule", c) /\ Job[First(c) + 1] = Op("pause", c)
       /\ \A i \in First(c) + 2..Awaited(c) - 1 :
            Job[i].op \in {"write", "bringUp"} /\ Job[i].change = c
       /\ Job[Awaited(c)] = Op("wait", c) /\ Job[Awaited(c) + 1] = Op("confirm", c)
       /\ Job[Awaited(c) + 2] = Op("resume", c)
<1> DEFINE r == Len(RotationScript)
           q == Len(BlockSizeScript)
<1>1. /\ Job \in Seq(Instructions) /\ r \in Nat /\ q \in Nat /\ r >= 6 /\ q >= 5
      /\ Len(Job) = r + q
      /\ \A i \in 1..r : Job[i] = RotationScript[i]
      /\ \A i \in 1..q : Job[r + i] = BlockSizeScript[i]
  BY RotationIs, BlockSizeIs, Elements DEF Job
<1>2. Len(Job) \in Nat /\ DOMAIN Job = 1..Len(Job)
  BY <1>1
<1>3. /\ First("b") = 1 /\ Awaited("b") = r - 2
      /\ First("size") = r + 1 /\ Awaited("size") = r + (q - 2)
  BY <1>1 DEF First, Awaited
<1>4. ASSUME NEW i \in 3..r - 3
      PROVE  Job[i].op \in {"write", "bringUp"} /\ Job[i].change = "b"
  <2>1. Job[i] = RotationScript[i]
    BY <1>1
  <2>2. CASE i = r - 3
    BY <2>1, <2>2, RotationIs DEF Op
  <2>3. CASE i # r - 3
    <3> i \in 3..r - 4
      BY <1>1, <2>3
    <3> QED
      BY <2>1, RotationIs
  <2> QED
    BY <2>2, <2>3
<1>5. ASSUME NEW i \in r + 3..r + (q - 3)
      PROVE  Job[i].op \in {"write", "bringUp"} /\ Job[i].change = "size"
  <2>1. PICK j \in 3..q - 3 : i = r + j
    <3> i - r \in 3..q - 3 /\ i = r + (i - r)
      BY <1>1
    <3> QED
      OBVIOUS
  <2>2. Job[i] = BlockSizeScript[j]
    BY <1>1, <2>1
  <2> QED
    BY <2>2, BlockSizeIs
<1>6. /\ Job[1] = Op("schedule", "b") /\ Job[2] = Op("pause", "b")
      /\ Job[r - 2] = Op("wait", "b") /\ Job[r - 1] = Op("confirm", "b")
      /\ Job[r] = Op("resume", "b")
  <2> {1, 2, r - 2, r - 1, r} \subseteq 1..r
    BY <1>1
  <2> QED
    BY <1>1, RotationIs
<1>7. /\ Job[r + 1] = Op("schedule", "size") /\ Job[r + 2] = Op("pause", "size")
      /\ Job[r + (q - 2)] = Op("wait", "size") /\ Job[r + (q - 1)] = Op("confirm", "size")
      /\ Job[r + q] = Op("resume", "size")
  <2> {1, 2, q - 2, q - 1, q} \subseteq 1..q
    BY <1>1
  <2> QED
    BY <1>1, BlockSizeIs
<1> HIDE DEF r, q
<1>8. ASSUME NEW c \in Changes
      PROVE  /\ First(c) \in Nat /\ Awaited(c) \in Nat /\ Awaited(c) > First(c) + 1
             /\ Job[First(c)] = Op("schedule", c) /\ Job[First(c) + 1] = Op("pause", c)
             /\ \A i \in First(c) + 2..Awaited(c) - 1 :
                  Job[i].op \in {"write", "bringUp"} /\ Job[i].change = c
             /\ Job[Awaited(c)] = Op("wait", c) /\ Job[Awaited(c) + 1] = Op("confirm", c)
             /\ Job[Awaited(c) + 2] = Op("resume", c)
  <2>1. CASE c = "b"
    <3> r - 2 + 1 = r - 1 /\ r - 2 + 2 = r /\ r - 2 - 1 = r - 3
      BY <1>1
    <3> QED
      BY <1>1, <1>3, <1>4, <1>6, <2>1, SMTT(30)
  <2>2. CASE c = "size"
    <3> /\ r + (q - 2) + 1 = r + (q - 1) /\ r + (q - 2) + 2 = r + q
        /\ r + (q - 2) - 1 = r + (q - 3) /\ r + 1 + 1 = r + 2 /\ r + 1 + 2 = r + 3
      BY <1>1
    <3> QED
      BY <1>1, <1>3, <1>5, <1>7, <2>2, SMTT(30)
  <2> QED
    BY <2>1, <2>2 DEF Changes
<1> QED
  BY <1>1, <1>2, <1>3, <1>8

\* Which instruction is at hand says where the script is.
LEMMA ThisPlace ==
  ASSUME pc \in 0..Len(Job) + 1, Running
  PROVE  \E c \in Changes :
           /\ pc \in First(c)..Awaited(c) + 2 /\ Instruction.change = c
           /\ At("schedule") => pc = First(c)
           /\ At("pause") => pc = First(c) + 1
           /\ At("write") \/ At("bringUp") => pc \in First(c) + 2..Awaited(c) - 1
           /\ At("wait") => pc = Awaited(c)
           /\ At("confirm") => pc = Awaited(c) + 1
           /\ At("resume") => pc = Awaited(c) + 2
<1>1. PICK c \in Changes : pc \in First(c)..Awaited(c) + 2
  <2> pc \in 1..Len(Job) /\ "b" \in Changes /\ "size" \in Changes
    BY Places DEF Running, Changes
  <2> QED
    BY Places
<1>2. /\ First(c) \in Nat /\ Awaited(c) \in Nat /\ Awaited(c) > First(c) + 1
      /\ Job[First(c)] = Op("schedule", c) /\ Job[First(c) + 1] = Op("pause", c)
      /\ \A i \in First(c) + 2..Awaited(c) - 1 :
           Job[i].op \in {"write", "bringUp"} /\ Job[i].change = c
      /\ Job[Awaited(c)] = Op("wait", c) /\ Job[Awaited(c) + 1] = Op("confirm", c)
      /\ Job[Awaited(c) + 2] = Op("resume", c)
  BY Places
<1>3. \A o : Op(o, c).op = o /\ Op(o, c).change = c
  BY DEF Op
<1>4. \/ pc = First(c) \/ pc = First(c) + 1 \/ pc \in First(c) + 2..Awaited(c) - 1
      \/ pc = Awaited(c) \/ pc = Awaited(c) + 1 \/ pc = Awaited(c) + 2
  BY <1>1, <1>2
<1>5. \/ pc = First(c) /\ Instruction = Op("schedule", c)
      \/ pc = First(c) + 1 /\ Instruction = Op("pause", c)
      \/ /\ pc \in First(c) + 2..Awaited(c) - 1
         /\ Instruction.op \in {"write", "bringUp"} /\ Instruction.change = c
      \/ pc = Awaited(c) /\ Instruction = Op("wait", c)
      \/ pc = Awaited(c) + 1 /\ Instruction = Op("confirm", c)
      \/ pc = Awaited(c) + 2 /\ Instruction = Op("resume", c)
  BY <1>2, <1>4 DEF Instruction
<1> QED
  BY <1>1, <1>3, <1>5 DEF At

-----------------------------------------------------------------------------
(* Steps of the network.                                                   *)

\* Blocks stay.
LEMMA ChainGrows ==
  ASSUME IInv, Scripts \/ Environment
  PROVE  /\ Top \in Nat /\ Top' \in Nat /\ Top' >= Top
         /\ DOMAIN chain = 1..Top /\ DOMAIN chain' = 1..Top'
         /\ \A g \in 1..Top : chain'[g] = chain[g]
<1>1. Top \in Nat /\ DOMAIN chain = 1..Top
  BY DEF IInv, Shapes, Top
<1>2. CASE UNCHANGED chain
  BY <1>1, <1>2 DEF Top
<1>3. ASSUME NEW change \in {"none"} \cup Changes, Produce(change)
      PROVE  /\ Top' \in Nat /\ Top' >= Top /\ DOMAIN chain' = 1..Top'
             /\ \A g \in 1..Top : chain'[g] = chain[g]
  <2> DEFINE block == [key |-> KeyAt(Top + 1), change |-> change]
  <2>1. chain' = Append(chain, block) /\ block \in [key : {"a", "b"}, change : {"none"} \cup Changes]
    BY <1>3 DEF Produce, KeyAt
  <2> HIDE DEF block
  <2> QED
    BY <1>1, <2>1 DEF IInv, Shapes, Top
<1> QED
  BY <1>1, <1>2, <1>3, NetworkOrder

\* So does what is in force, and at a height that is reached also what is not.
LEMMA InForceStays ==
  ASSUME IInv, Scripts \/ Environment, NEW h \in Nat, NEW c
  PROVE  /\ InForceFrom(h, c) => h - 1 \in DOMAIN chain' /\ chain'[h - 1].change = c
         /\ Top >= h /\ ~InForceFrom(h, c) =>
              ~(h - 1 \in DOMAIN chain' /\ chain'[h - 1].change = c)
BY ChainGrows DEF InForceFrom

\* What is behind the script stays behind it.
LEMMA ReachesStays ==
  ASSUME IInv, TypeOK, Reaches, Scripts \/ Environment, UNCHANGED scheduled,
         \A c \in Changes : pc > Awaited(c) => c \in DOMAIN scheduled,
         pc' = pc \/ pc' = 0
  PROVE  Reaches'
<1>1. pc' \in Nat /\ pc \in Nat /\ \A c \in Changes : Awaited(c) \in Nat
  BY Places DEF IInv, Shapes
<1>2. \A c \in DOMAIN scheduled : scheduled[c] \in Nat
  BY SignerNetworkAssumption DEF TypeOK
<1>3. Top \in Nat /\ Top' \in Nat /\ Top' >= Top
  BY ChainGrows
<1>4. ASSUME NEW c \in DOMAIN scheduled, InForceFrom(scheduled[c], c)
      PROVE  InForceFrom(scheduled[c], c)'
  <2> scheduled[c] - 1 \in DOMAIN chain' /\ chain'[scheduled[c] - 1].change = c
    BY <1>2, <1>4, InForceStays
  <2> QED
    BY DEF InForceFrom
<1>5. ASSUME NEW c \in Changes, pc' > Awaited(c)
      PROVE  Top' >= scheduled[c] /\ (pc' > Awaited(c) + 1 => InForceFrom(scheduled[c], c)')
  <2> pc' = pc /\ c \in DOMAIN scheduled
    BY <1>1, <1>5
  <2> QED
    BY <1>1, <1>2, <1>3, <1>4, <1>5 DEF Reaches
<1>6. "size" \in DOMAIN scheduled => InForceFrom(scheduled["b"], "b")'
  BY <1>4 DEF Reaches
<1> QED
  BY <1>1, <1>5, <1>6 DEF Reaches

LEMMA ScheduledBehind ==
  ASSUME InOrder, pc \in Nat, NEW c \in Changes, pc >= Awaited(c)
  PROVE  c \in DOMAIN scheduled
BY Places DEF InOrder

\* A paused node loses no more than the action that had passed its gate takes.
LEMMA NodesStayThere ==
  ASSUME TypeOK, pauseFile, Network(pauseFile \/ ~Running), NEW n \in Nodes, NEW h \in Nat,
         tip[n] + 1 >= h, chaos[n] = "armed" => tip[n] >= h,
         Top >= h
  PROVE  tip'[n] + 1 >= h /\ (chaos'[n] = "armed" => tip'[n] >= h)
<1>1. tip[n] \in Nat /\ Top \in Nat /\ tip[Probe] \in Nat /\ DOMAIN tip = Nodes /\ DOMAIN chaos = Nodes
  BY SignerNetworkAssumption DEF TypeOK, NetTypeOK, Top
<1>2. ASSUME NEW change \in {"none"} \cup Changes, Produce(change)
      PROVE  tip'[n] + 1 >= h /\ (chaos'[n] = "armed" => tip'[n] >= h)
  BY <1>1, <1>2 DEF Produce
<1>3. ASSUME NEW m \in Nodes, Catch(m)
      PROVE  tip'[n] + 1 >= h /\ (chaos'[n] = "armed" => tip'[n] >= h)
  BY <1>1, <1>3 DEF Catch
<1>4. ASSUME NEW s \in Signers, Reload(s) \/ SignerDies(s)
      PROVE  tip'[n] + 1 >= h /\ (chaos'[n] = "armed" => tip'[n] >= h)
  BY <1>4 DEF Reload, SignerDies
<1>5. ASSUME NEW m \in ChaosNodes,
             Arm(m, pauseFile \/ ~Running) \/ Act(m) \/ Recover(m)
      PROVE  tip'[n] + 1 >= h /\ (chaos'[n] = "armed" => tip'[n] >= h)
  <2>1. CASE Act(m)
    <3>1. CASE m = n
      BY <1>1, <2>1, <3>1 DEF Act
    <3>2. CASE m # n
      BY <1>1, <2>1, <3>2 DEF Act
    <3> QED
      BY <3>1, <3>2
  <2>2. CASE Recover(m)
    BY <1>1, <2>2 DEF Recover
  <2> ~Arm(m, pauseFile \/ ~Running)
    BY DEF Arm
  <2> QED
    BY <1>5, <2>1, <2>2
<1> QED
  BY <1>2, <1>3, <1>4, <1>5 DEF Network, Produces

LEMMA EnvironmentKeeps ==
  ASSUME IInv, VInv, Environment
  PROVE  InOrder' /\ Reaches' /\ StillThere' /\ ReadRight'
<1>1. /\ pc' = pc /\ outcome' = outcome /\ scheduled' = scheduled
      /\ pauseFile' = pauseFile /\ seen' = seen
      /\ Network(pauseFile \/ ~Running)
  BY DEF Environment, script
<1>2. InOrder'
  BY <1>1 DEF VInv, InOrder
<1>3. pc \in Nat /\ \A c \in Changes : Awaited(c) \in Nat /\ Awaited(c) > First(c) + 1
                                       /\ First(c) \in Nat
  BY Places DEF IInv, Shapes
<1>4. \A c \in Changes : pc >= Awaited(c) => c \in DOMAIN scheduled
  BY <1>3, ScheduledBehind DEF VInv
<1>5. Reaches'
  <2> \A c \in Changes : pc > Awaited(c) => c \in DOMAIN scheduled
    BY <1>3, <1>4
  <2> QED
    BY <1>1, ReachesStays DEF VInv
<1>6. \A c \in DOMAIN scheduled : scheduled[c] \in Nat
  BY SignerNetworkAssumption DEF VInv, TypeOK
<1>7. StillThere'
  <2> SUFFICES ASSUME NEW c \in Changes, pc \in {Awaited(c) + 1, Awaited(c) + 2}, NEW n \in Nodes
               PROVE  /\ tip'[n] + 1 >= scheduled[c]
                      /\ chaos'[n] = "armed" => tip'[n] >= scheduled[c]
    BY <1>1 DEF StillThere
  <2>1. scheduled[c] \in Nat /\ Top >= scheduled[c]
    BY <1>3, <1>4, <1>6 DEF VInv, Reaches
  <2>2. pauseFile
    BY <1>3 DEF VInv, InOrder
  <2>3. tip[n] + 1 >= scheduled[c] /\ (chaos[n] = "armed" => tip[n] >= scheduled[c])
    BY DEF VInv, StillThere
  <2> QED
    BY <1>1, <2>1, <2>2, <2>3, NodesStayThere DEF VInv
<1>8. ASSUME NEW c \in DOMAIN scheduled, Top >= scheduled[c]
      PROVE  /\ InForceFrom(scheduled[c], c)' <=> InForceFrom(scheduled[c], c)
             /\ Top' >= scheduled[c]
  <2>1. /\ InForceFrom(scheduled[c], c) =>
             scheduled[c] - 1 \in DOMAIN chain' /\ chain'[scheduled[c] - 1].change = c
        /\ Top >= scheduled[c] /\ ~InForceFrom(scheduled[c], c) =>
             ~(scheduled[c] - 1 \in DOMAIN chain' /\ chain'[scheduled[c] - 1].change = c)
    BY <1>6, InForceStays
  <2>2. InForceFrom(scheduled[c], c)' <=>
          scheduled[c] - 1 \in DOMAIN chain' /\ chain'[scheduled[c] - 1].change = c
    BY <1>1 DEF InForceFrom
  <2> QED
    BY <1>6, <1>8, <2>1, <2>2, ChainGrows
<1>9. ReadRight'
  <2>1. ASSUME NEW c \in Changes, pc = Awaited(c) + 1, NEW n \in DOMAIN seen
        PROVE  seen[n] = InForceFrom(scheduled[c], c)'
    <3> c \in DOMAIN scheduled /\ Top >= scheduled[c]
      BY <1>3, <1>4, <2>1 DEF VInv, Reaches
    <3> seen[n] = InForceFrom(scheduled[c], c)
      BY <2>1 DEF VInv, ReadRight
    <3> InForceFrom(scheduled[c], c)' = InForceFrom(scheduled[c], c)
      BY <1>1, <1>8 DEF InForceFrom
    <3> QED
      OBVIOUS
  <2>2. ASSUME outcome = "unconfirmed", NEW c \in DOMAIN scheduled,
               c = "size" \/ "size" \notin DOMAIN scheduled
        PROVE  Top' >= scheduled[c] /\ ~InForceFrom(scheduled[c], c)'
    BY <1>8, <2>2 DEF VInv, ReadRight
  <2>3. (\A c \in Changes : pc # Awaited(c) + 1) => seen = <<>>
    BY DEF VInv, ReadRight
  <2>4. \A c \in Changes : pc' = Awaited(c) + 1 =>
          \A n \in DOMAIN seen' : seen'[n] = InForceFrom(scheduled[c], c)'
    BY <1>1, <2>1
  <2>5. outcome' = "unconfirmed" =>
       \A c \in DOMAIN scheduled' : c = "size" \/ "size" \notin DOMAIN scheduled' =>
         Top' >= scheduled'[c] /\ ~InForceFrom(scheduled[c], c)'
    BY <1>1, <2>2
  <2> QED
    BY <1>1, <2>3, <2>4, <2>5 DEF ReadRight
<1> QED
  BY <1>2, <1>5, <1>7, <1>9

-----------------------------------------------------------------------------
(* Steps of the scripts.                                                   *)

LEMMA ScriptsLeaveNetwork == Scripts => UNCHANGED <<chain, tip, chaos>>
BY DEF Scripts, SchedulesHeight, TogglesPause, WritesFile, BringsUpNewSigners, ConfirmsNode,
   HeightReached, SeesProgress, SeesNoProgress, Stalls, Confirmed, NotConfirmed,
   BringUpRaises, CallRaises, Start, netVars

\* The converse of ThisPlace.
LEMMA PlaceOf ==
  ASSUME NEW c \in Changes
  PROVE  /\ pc = First(c) => At("schedule") /\ Instruction.change = c
         /\ pc = First(c) + 1 => At("pause")
         /\ pc = Awaited(c) => At("wait") /\ Instruction.change = c
         /\ pc = Awaited(c) + 1 => At("confirm") /\ Instruction.change = c
         /\ At("resume") => \A d \in Changes : pc + 1 \notin First(d) + 2..Awaited(d) + 2
<1>1. \A o : Op(o, c).op = o /\ Op(o, c).change = c
  BY DEF Op
<1>2. /\ First(c) \in DOMAIN Job /\ First(c) + 1 \in DOMAIN Job
      /\ Awaited(c) \in DOMAIN Job /\ Awaited(c) + 1 \in DOMAIN Job
  BY Places, SMTT(30) DEF Changes
<1>3. /\ pc = First(c) => At("schedule") /\ Instruction.change = c
      /\ pc = First(c) + 1 => At("pause")
      /\ pc = Awaited(c) => At("wait") /\ Instruction.change = c
      /\ pc = Awaited(c) + 1 => At("confirm") /\ Instruction.change = c
  BY <1>1, <1>2, Places DEF At, Running, Instruction
<1>4. ASSUME At("resume"), NEW d \in Changes
      PROVE  pc + 1 \notin First(d) + 2..Awaited(d) + 2
  <2>1. PICK e \in Changes : pc = Awaited(e) + 2
    <3> pc \in 0..Len(Job) + 1 /\ Running
      BY <1>4, Places DEF At, Running
    <3> QED
      BY <1>4, ThisPlace
  <2> QED
    BY <2>1, Places, SMTT(30) DEF Changes
<1> QED
  BY <1>3, <1>4

LEMMA FailKeeps ==
  ASSUME IInv, VInv, NEW why, Fail(why), UNCHANGED <<chain, tip, chaos, scheduled>>,
         why = "unconfirmed" =>
           \A c \in DOMAIN scheduled : c = "size" \/ "size" \notin DOMAIN scheduled =>
             Top >= scheduled[c] /\ ~InForceFrom(scheduled[c], c)
  PROVE  InOrder' /\ Reaches' /\ StillThere' /\ ReadRight'
<1>1. pc' = 0 /\ outcome' = why /\ seen' = <<>> /\ DOMAIN seen' = {}
  BY DEF Fail
<1>2. \A c \in Changes : First(c) \in Nat /\ Awaited(c) \in Nat
  BY Places
<1>3. Top' = Top /\ \A c : InForceFrom(scheduled[c], c)' <=> InForceFrom(scheduled[c], c)
  BY DEF Top, InForceFrom
<1>4. InOrder'
  BY <1>1, <1>2 DEF InOrder
<1>5. Reaches'
  BY <1>1, <1>2, <1>3 DEF Reaches, VInv
<1>6. StillThere'
  BY <1>1, <1>2 DEF StillThere
<1>7. ReadRight'
  BY <1>1, <1>2, <1>3 DEF ReadRight
<1> QED
  BY <1>4, <1>5, <1>6, <1>7

LEMMA ContinueKeeps ==
  ASSUME IInv, VInv, Running, Continue, UNCHANGED <<chain, tip, chaos, scheduled>>,
         ~At("schedule"), seen' = <<>>,
         At("pause") => pauseFile',
         ~At("pause") /\ ~At("resume") => pauseFile' = pauseFile,
         At("wait") => \A n \in Nodes : tip[n] >= Target,
         At("confirm") => InForceFrom(Target, Instruction.change)
  PROVE  InOrder' /\ Reaches' /\ StillThere' /\ ReadRight'
<1>1. pc' = pc + 1 /\ outcome' = outcome /\ DOMAIN seen' = {}
  BY DEF Continue
<1>2. /\ pc \in Nat \ {0}
      /\ \A c \in Changes : /\ First(c) \in Nat \ {0} /\ Awaited(c) \in Nat
                            /\ Awaited(c) > First(c) + 1
  BY Places, SMTT(30) DEF Running, Changes
<1>3. Top' = Top /\ \A c : InForceFrom(scheduled[c], c)' <=> InForceFrom(scheduled[c], c)
  BY DEF Top, InForceFrom
<1>4. outcome = "none"
  BY <1>2 DEF VInv, InOrder
<1>5. \A c \in DOMAIN scheduled : scheduled[c] \in Nat
  BY SignerNetworkAssumption DEF VInv, TypeOK
<1>6. ASSUME NEW c \in Changes
      PROVE  /\ pc + 1 > First(c) => c \in DOMAIN scheduled
             /\ c \in DOMAIN scheduled => pc + 1 > First(c)
             /\ pc + 1 \in First(c) + 2..Awaited(c) + 2 => pauseFile'
  <2>1. pc # First(c)
    BY PlaceOf
  <2>2. ASSUME pc + 1 \in First(c) + 2..Awaited(c) + 2 PROVE pauseFile'
    <3>1. CASE pc = First(c) + 1
      BY <3>1, PlaceOf
    <3>2. CASE pc # First(c) + 1
      <4>1. pc \in First(c) + 2..Awaited(c) + 2
        BY <1>2, <2>2, <3>2
      <4>2. ~At("resume")
        BY <2>2, PlaceOf
      <4>3. ~At("pause") \/ pauseFile'
        OBVIOUS
      <4> QED
        BY <4>1, <4>2, <4>3 DEF VInv, InOrder
    <3> QED
      BY <3>1, <3>2
  <2> QED
    BY <1>2, <2>1, <2>2 DEF VInv, InOrder
<1>7. InOrder'
  BY <1>1, <1>4, <1>6 DEF InOrder
<1>8. ASSUME NEW c \in Changes, pc + 1 > Awaited(c)
      PROVE  /\ Top >= scheduled[c] /\ c \in DOMAIN scheduled
             /\ pc + 1 > Awaited(c) + 1 => InForceFrom(scheduled[c], c)
  <2>0. c \in DOMAIN scheduled /\ scheduled[c] \in Nat
    BY <1>2, <1>5, <1>8, ScheduledBehind DEF VInv
  <2>1. CASE pc = Awaited(c)
    <3> tip[Probe] >= scheduled[c] /\ Probe \in Nodes
      BY <2>1, PlaceOf, SignerNetworkAssumption DEF Target
    <3> QED
      BY <1>2, <2>0, <2>1 DEF IInv, ProbeIsSynced
  <2>2. CASE pc = Awaited(c) + 1
    <3> InForceFrom(scheduled[c], c)
      BY <2>2, PlaceOf DEF Target
    <3> QED
      BY <1>2, <2>0, <2>2 DEF VInv, Reaches
  <2>3. CASE pc > Awaited(c) + 1
    BY <1>2, <2>0, <2>3 DEF VInv, Reaches
  <2> QED
    BY <1>2, <1>8, <2>1, <2>2, <2>3
<1>9. Reaches'
  BY <1>1, <1>2, <1>3, <1>8 DEF VInv, Reaches
<1>10. StillThere'
  <2> SUFFICES ASSUME NEW c \in Changes, pc + 1 \in {Awaited(c) + 1, Awaited(c) + 2},
                      NEW n \in Nodes
               PROVE  /\ tip[n] + 1 >= scheduled[c]
                      /\ chaos[n] = "armed" => tip[n] >= scheduled[c]
    BY <1>1 DEF StillThere
  <2>1. CASE pc = Awaited(c)
    <3> tip[n] >= scheduled[c] /\ scheduled[c] \in Nat /\ tip[n] \in Nat
      BY <1>2, <1>5, <2>1, PlaceOf, ScheduledBehind DEF Target, VInv, IInv, Shapes
    <3> QED
      OBVIOUS
  <2>2. CASE pc = Awaited(c) + 1
    BY <2>2 DEF VInv, StillThere
  <2> QED
    BY <1>2, <2>1, <2>2
<1>11. ReadRight'
  BY <1>1, <1>4 DEF ReadRight
<1> QED
  BY <1>7, <1>9, <1>10, <1>11

LEMMA SchedulesHeightKeeps ==
  ASSUME IInv, VInv, SchedulesHeight
  PROVE  InOrder' /\ Reaches' /\ StillThere' /\ ReadRight'
<1>1. PICK c \in Changes : pc = First(c) /\ Instruction.change = c
  <2> pc \in 0..Len(Job) + 1 /\ Running /\ At("schedule")
    BY DEF VInv, TypeOK, SchedulesHeight, At
  <2> QED
    BY ThisPlace
<1>2. /\ pc' = pc + 1 /\ outcome' = outcome /\ pauseFile' = pauseFile
      /\ seen' = seen /\ chain' = chain
      /\ DOMAIN scheduled' = DOMAIN scheduled \cup {c}
      /\ \A d \in DOMAIN scheduled : scheduled'[d] = scheduled[d]
      /\ c \notin DOMAIN scheduled => scheduled'[c] = tip[Probe] + Offset
  BY <1>1 DEF SchedulesHeight, Continue, netVars
<1>3. /\ pc \in Nat \ {0} /\ "b" \in Changes /\ "size" \in Changes
      /\ \A d \in Changes : /\ First(d) \in Nat \ {0} /\ Awaited(d) \in Nat
                            /\ Awaited(d) > First(d) + 1
      /\ First("size") = Awaited("b") + 3
      /\ Changes = {"b", "size"}
  BY <1>1, Places DEF Changes
<1>4. c \notin DOMAIN scheduled /\ outcome = "none"
  BY <1>1, <1>3 DEF VInv, InOrder
<1>5. \A d \in DOMAIN scheduled : scheduled[d] \in Nat
  BY SignerNetworkAssumption DEF VInv, TypeOK
<1>6. seen = <<>> /\ DOMAIN seen = {}
  <2> \A d \in Changes : pc # Awaited(d) + 1
    BY <1>1, <1>3
  <2> QED
    BY DEF VInv, ReadRight
<1>7. \A d \in DOMAIN scheduled : InForceFrom(scheduled[d], d)' <=> InForceFrom(scheduled[d], d)
  BY <1>2 DEF InForceFrom
<1>8. InOrder'
  <2>1. ASSUME NEW d \in Changes, d # c
        PROVE  /\ pc + 1 > First(d) => d \in DOMAIN scheduled
               /\ d \in DOMAIN scheduled => pc + 1 > First(d)
               /\ pc + 1 \notin First(d) + 2..Awaited(d) + 2
    BY <1>1, <1>3, <2>1 DEF VInv, InOrder
  <2>2. pc + 1 \notin First(c) + 2..Awaited(c) + 2 /\ pc + 1 > First(c)
    BY <1>1, <1>3
  <2> QED
    BY <1>2, <1>4, <2>1, <2>2 DEF InOrder
<1>9. c = "size" => /\ "b" \in DOMAIN scheduled /\ Top >= scheduled["b"]
                    /\ InForceFrom(scheduled["b"], "b")
  <2> SUFFICES ASSUME c = "size"
               PROVE  /\ "b" \in DOMAIN scheduled /\ Top >= scheduled["b"]
                      /\ InForceFrom(scheduled["b"], "b")
    OBVIOUS
  <2> pc > Awaited("b") + 1 /\ pc > Awaited("b") /\ pc > First("b")
    BY <1>1, <1>3
  <2> QED
    BY <1>3 DEF VInv, InOrder, Reaches
<1>10. Reaches'
  <2>1. ASSUME NEW d \in Changes, pc + 1 > Awaited(d)
        PROVE  d = "b" /\ c = "size"
    BY <1>1, <1>3, <2>1
  <2>2. c = "size" => /\ Top' >= scheduled'["b"] /\ InForceFrom(scheduled["b"], "b")'
                      /\ scheduled'["b"] < scheduled'["size"] /\ "b" \in DOMAIN scheduled'
    BY <1>2, <1>3, <1>4, <1>5, <1>7, <1>9, FederationChangeAssumption
       DEF IInv, Shapes, ProbeIsSynced, Top
  <2>3. c # "size" => "size" \notin DOMAIN scheduled'
    BY <1>1, <1>2, <1>3 DEF VInv, InOrder
  <2>4. ASSUME NEW d \in Changes, pc' > Awaited(d)
        PROVE  Top' >= scheduled'[d] /\ InForceFrom(scheduled[d], d)'
    <3> d = "b" /\ c = "size"
      BY <1>2, <2>1, <2>4
    <3> QED
      BY <2>2
  <2>5. "size" \in DOMAIN scheduled' => c = "size"
    BY <2>3
  <2>6. \A d \in Changes : pc' > Awaited(d) + 1 => pc' > Awaited(d)
    BY <1>2, <1>3
  <2> QED
    BY <2>2, <2>4, <2>5, <2>6 DEF Reaches
<1>11. StillThere'
  <2> \A d \in Changes : pc + 1 \notin {Awaited(d) + 1, Awaited(d) + 2}
    BY <1>1, <1>3
  <2> QED
    BY <1>2 DEF StillThere
<1>12. ReadRight'
  BY <1>2, <1>4, <1>6 DEF ReadRight
<1> QED
  BY <1>8, <1>10, <1>11, <1>12

\* The place of a confirmation, and what holds there.
LEMMA AtConfirm ==
  ASSUME IInv, VInv, At("confirm")
  PROVE  \E c \in Changes :
           /\ pc = Awaited(c) + 1 /\ Instruction.change = c /\ Target = scheduled[c]
           /\ c \in DOMAIN scheduled /\ scheduled[c] \in Nat /\ Top >= scheduled[c]
           /\ \A n \in Nodes : tip[n] + 1 >= scheduled[c]
           /\ \A n \in DOMAIN seen : seen[n] = InForceFrom(scheduled[c], c)
<1>1. PICK c \in Changes : pc = Awaited(c) + 1 /\ Instruction.change = c
  <2> pc \in 0..Len(Job) + 1 /\ Running
    BY DEF VInv, TypeOK, At
  <2> QED
    BY ThisPlace
<1>2. pc \in Nat /\ Awaited(c) \in Nat /\ pc >= Awaited(c) /\ pc > Awaited(c)
  BY <1>1, Places
<1>3. c \in DOMAIN scheduled
  BY <1>2, ScheduledBehind DEF VInv
<1>4. scheduled[c] \in Nat
  BY <1>3, SignerNetworkAssumption DEF VInv, TypeOK
<1>5. Target = scheduled[c]
  BY <1>1 DEF Target
<1> QED
  BY <1>1, <1>2, <1>3, <1>4, <1>5 DEF VInv, Reaches, StillThere, ReadRight

LEMMA ConfirmsNodeKeeps ==
  ASSUME IInv, VInv, NEW n \in Nodes, ConfirmsNode(n)
  PROVE  InOrder' /\ Reaches' /\ StillThere' /\ ReadRight'
<1>1. PICK c \in Changes :
        /\ pc = Awaited(c) + 1 /\ Instruction.change = c /\ Target = scheduled[c]
        /\ c \in DOMAIN scheduled /\ scheduled[c] \in Nat /\ Top >= scheduled[c]
        /\ \A m \in Nodes : tip[m] + 1 >= scheduled[c]
        /\ \A m \in DOMAIN seen : seen[m] = InForceFrom(scheduled[c], c)
  BY AtConfirm DEF ConfirmsNode
<1>2. /\ UNCHANGED <<chain, tip, chaos, pc, outcome, scheduled, pauseFile>>
      /\ DOMAIN seen' = DOMAIN seen \cup {n}
      /\ \A m \in DOMAIN seen : seen'[m] = seen[m]
      /\ seen'[n] = (tip[n] >= Target - 1 /\ InForceFrom(Target, Instruction.change))
  BY DEF ConfirmsNode, netVars
<1>3. pc \in Nat \ {0} /\ \A d \in Changes : Awaited(d) \in Nat
  BY <1>1, Places, SMTT(30) DEF Changes
<1>4. InOrder' /\ Reaches' /\ StillThere'
  BY <1>2 DEF VInv, InOrder, Reaches, StillThere, InForceFrom, Top
<1>5. outcome = "none"
  BY <1>3 DEF VInv, InOrder
<1>6. seen'[n] = InForceFrom(scheduled[c], c)
  <2> tip[n] >= scheduled[c] - 1
    BY <1>1 DEF IInv, Shapes
  <2> InForceFrom(scheduled[c], c) \in BOOLEAN
    BY DEF InForceFrom
  <2> QED
    BY <1>1, <1>2
<1>7. ReadRight'
  <2>1. \A m \in DOMAIN seen' : seen'[m] = InForceFrom(scheduled[c], c)
    BY <1>1, <1>2, <1>6
  <2>2. \A d \in Changes : pc = Awaited(d) + 1 => d = c
    <3> TAKE d \in Changes
    <3> QED
      BY <1>1, Places, SMTT(30) DEF Changes
  <2>3. InForceFrom(scheduled[c], c)' = InForceFrom(scheduled[c], c)
    BY <1>2 DEF InForceFrom
  <2> QED
    BY <1>1, <1>2, <1>5, <2>1, <2>2, <2>3 DEF ReadRight
<1> QED
  BY <1>4, <1>7

LEMMA ScriptsKeep ==
  ASSUME IInv, VInv, Scripts
  PROVE  InOrder' /\ Reaches' /\ StillThere' /\ ReadRight'
<1>0. UNCHANGED <<chain, tip, chaos>>
  BY ScriptsLeaveNetwork
<1>1. CASE SchedulesHeight
  BY <1>1, SchedulesHeightKeeps
<1>2. CASE \E n \in Nodes : ConfirmsNode(n)
  BY <1>2, ConfirmsNodeKeeps
<1>3. CASE SeesProgress \/ SeesNoProgress
  <2> UNCHANGED <<pc, outcome, scheduled, pauseFile, seen>>
    BY <1>3 DEF SeesProgress, SeesNoProgress
  <2> QED
    BY <1>0 DEF VInv, InOrder, Reaches, StillThere, ReadRight, InForceFrom, Top
<1>4. CASE Stalls \/ BringUpRaises \/ CallRaises
  <2> PICK why : Fail(why) /\ why # "unconfirmed" /\ scheduled' = scheduled
    BY <1>4 DEF Stalls, BringUpRaises, CallRaises
  <2> QED
    BY <1>0, FailKeeps
<1>5. CASE NotConfirmed
  <2>1. PICK c \in Changes :
          /\ pc = Awaited(c) + 1 /\ Instruction.change = c /\ Target = scheduled[c]
          /\ c \in DOMAIN scheduled /\ scheduled[c] \in Nat /\ Top >= scheduled[c]
          /\ \A m \in Nodes : tip[m] + 1 >= scheduled[c]
          /\ \A m \in DOMAIN seen : seen[m] = InForceFrom(scheduled[c], c)
    BY <1>5, AtConfirm DEF NotConfirmed
  <2>2. ~InForceFrom(scheduled[c], c)
    BY <1>5, <2>1 DEF NotConfirmed, AllSeen
  <2>3. \A d \in DOMAIN scheduled : d = "size" \/ "size" \notin DOMAIN scheduled => d = c
    <3>1. DOMAIN scheduled \subseteq Changes /\ Changes = {"b", "size"}
      BY DEF VInv, TypeOK, Changes
    <3>2. c = "b" => pc # 0 /\ ~(pc > First("size"))
      BY <2>1, Places, SMTT(30) DEF Changes
    <3>3. c = "b" => "size" \notin DOMAIN scheduled
      BY <3>1, <3>2 DEF VInv, InOrder
    <3> QED
      BY <2>1, <3>1, <3>3
  <2>4. Fail("unconfirmed") /\ scheduled' = scheduled
    BY <1>5 DEF NotConfirmed
  <2> QED
    BY <1>0, <2>1, <2>2, <2>3, <2>4, FailKeeps
<1>6. CASE Confirmed
  <2>1. PICK c \in Changes :
          /\ pc = Awaited(c) + 1 /\ Instruction.change = c /\ Target = scheduled[c]
          /\ \A m \in DOMAIN seen : seen[m] = InForceFrom(scheduled[c], c)
    BY <1>6, AtConfirm DEF Confirmed
  <2>2. InForceFrom(Target, Instruction.change)
    BY <1>6, <2>1, SignerNetworkAssumption DEF Confirmed, AllSeen
  <2>3. At("confirm") /\ Running /\ Continue /\ UNCHANGED <<scheduled, pauseFile>> /\ seen' = <<>>
    BY <1>6 DEF Confirmed, At
  <2>4. ~At("schedule") /\ ~At("pause") /\ ~At("resume") /\ ~At("wait")
    BY <2>3 DEF At
  <2> QED
    BY <1>0, <2>2, <2>3, <2>4, ContinueKeeps
<1>7. ASSUME Running, ~At("confirm")
      PROVE  seen = <<>>
  <2> \A c \in Changes : pc # Awaited(c) + 1
    BY <1>7, PlaceOf
  <2> QED
    BY DEF VInv, ReadRight
<1>8. CASE HeightReached
  <2>1. At("wait") /\ Running /\ Continue /\ UNCHANGED <<scheduled, pauseFile, seen>>
    BY <1>8 DEF HeightReached, At
  <2>2. ~At("schedule") /\ ~At("pause") /\ ~At("resume") /\ ~At("confirm")
    BY <2>1 DEF At
  <2>3. \A n \in Nodes : tip[n] >= Target
    BY <1>8 DEF HeightReached, Reached, HeightSeen
  <2> QED
    BY <1>0, <1>7, <2>1, <2>2, <2>3, ContinueKeeps
<1>9. CASE WritesFile \/ BringsUpNewSigners
  <2>1. /\ At("write") \/ At("bringUp")
        /\ Running /\ Continue /\ UNCHANGED <<scheduled, pauseFile, seen>>
    BY <1>9 DEF WritesFile, BringsUpNewSigners, At
  <2>2. ~At("schedule") /\ ~At("pause") /\ ~At("resume") /\ ~At("confirm") /\ ~At("wait")
    BY <2>1 DEF At
  <2> QED
    BY <1>0, <1>7, <2>1, <2>2, ContinueKeeps
<1>10. CASE TogglesPause
  <2>1. /\ At("pause") \/ At("resume")
        /\ Running /\ Continue /\ UNCHANGED <<scheduled, seen>> /\ pauseFile' = At("pause")
    BY <1>10 DEF TogglesPause, At
  <2>2. ~At("schedule") /\ ~At("confirm") /\ ~At("wait")
    BY <2>1 DEF At
  <2> QED
    BY <1>0, <1>7, <2>1, <2>2, ContinueKeeps
<1> QED
  BY <1>1, <1>2, <1>3, <1>4, <1>5, <1>6, <1>8, <1>9, <1>10 DEF Scripts

-----------------------------------------------------------------------------
(* Type correctness.                                                       *)

LEMMA NetworkTypes ==
  ASSUME TypeOK, IInv, IInv', Network(pauseFile \/ ~Running), Top' \in Nat, Top' >= Top
  PROVE  NetTypeOK'
<1> USE SignerNetworkAssumption DEF TypeOK, NetTypeOK
<1>1. chain' \in Seq([key : {"a", "b"}, change : {"none"} \cup Changes])
  BY DEF IInv, Shapes
<1>2. tip \in [Nodes -> Nat] /\ Top \in Nat /\ \A n \in Nodes : tip[n] <= Top
  BY DEF Top
<1>3. ASSUME NEW change \in {"none"} \cup Changes, Produce(change)
      PROVE  NetTypeOK'
  <2>1. Top' = Top + 1
    <3> DEFINE block == [key |-> KeyAt(Top + 1), change |-> change]
    <3>1. /\ chain' = Append(chain, block)
          /\ block \in [key : {"a", "b"}, change : {"none"} \cup Changes]
      BY <1>3 DEF Produce, KeyAt
    <3> HIDE DEF block
    <3> QED
      BY <3>1 DEF Top
  <2>2. tip' \in [Nodes -> 0..Top']
    BY <1>2, <1>3, <2>1 DEF Produce
  <2> QED
    BY <1>1, <1>3, <2>2 DEF Produce
<1>4. ASSUME NEW n \in Nodes, Catch(n)
      PROVE  NetTypeOK'
  <2>1. Top' = Top /\ tip' \in [Nodes -> 0..Top']
    BY <1>2, <1>4 DEF Catch, Top
  <2> QED
    BY <1>1, <1>4, <2>1 DEF Catch
<1>5. ASSUME NEW s \in Signers, Reload(s) \/ SignerDies(s)
      PROVE  NetTypeOK'
  <2>1. UNCHANGED <<chain, tip, chaos, file>> /\ alive' \subseteq Signers /\ Top' = Top
    BY <1>5 DEF Reload, SignerDies, Top
  <2>2. \A x \in Signers : loaded'[x] = loaded[x] \/ loaded'[x] = file[x]
    <3> DOMAIN loaded = Signers
      BY DEF IInv, Shapes
    <3> QED
      BY <1>5 DEF Reload, SignerDies
  <2> QED
    BY <1>1, <2>1, <2>2
<1>6. ASSUME NEW n \in ChaosNodes, Arm(n, pauseFile \/ ~Running) \/ Act(n) \/ Recover(n)
      PROVE  NetTypeOK'
  <2>1. UNCHANGED <<chain, alive, file, loaded>> /\ Top' = Top
    BY <1>6 DEF Arm, Act, Recover, Top
  <2>2. chaos' \in [Nodes -> {"idle", "armed", "rewound", "down"}]
    BY <1>6 DEF Arm, Act, Recover
  <2>3. tip' \in [Nodes -> 0..Top']
    <3>1. tip' = tip \/ (tip[n] > 0 /\ tip' = [tip EXCEPT ![n] = tip[n] - 1])
      <4>1. Arm(n, pauseFile \/ ~Running) => tip' = tip
        BY DEF Arm
      <4>2. Recover(n) => tip' = tip
        BY DEF Recover
      <4>3. Act(n) => tip' = tip \/ (tip[n] > 0 /\ tip' = [tip EXCEPT ![n] = tip[n] - 1])
        BY DEF Act
      <4> QED
        BY <1>6, <4>1, <4>2, <4>3
    <3>2. tip[n] > 0 => tip[n] - 1 \in 0..Top
      BY <1>2
    <3> QED
      BY <2>1, <3>1, <3>2
  <2> QED
    BY <1>1, <2>1, <2>2, <2>3
<1> QED
  BY <1>3, <1>4, <1>5, <1>6 DEF Network, Produces

LEMMA FileTypes ==
  ASSUME IInv, VInv, Scripts
  PROVE  NetTypeOK'
<1> USE DEF VInv, TypeOK, NetTypeOK
<1>1. UNCHANGED <<chain, tip, chaos>> /\ Top' = Top
  BY ScriptsLeaveNetwork DEF Top
<1>2. CASE UNCHANGED <<alive, file, loaded>>
  BY <1>1, <1>2
<1>3. CASE WritesFile
  <2>1. PICK c \in Changes : pc \in First(c) + 2..Awaited(c) - 1 /\ Instruction.change = c
    <3> Running /\ At("write")
      BY <1>3 DEF WritesFile, At
    <3> QED
      BY ThisPlace
  <2>2. scheduled[c] \in 0..MaxHeight
    BY <2>1, Places DEF InOrder
  <2>3. Instruction.member \in BOOLEAN
    <3>1. Instruction \in Instructions /\ Instruction.op = "write"
      <4> Job \in Seq(Instructions)
        BY RotationIs, BlockSizeIs, Elements DEF Job
      <4> QED
        BY <1>3 DEF WritesFile, At, Running, Instruction
    <3> QED
      BY <3>1 DEF Instructions
  <2>4. NewEntry(scheduled[c]) \in Entry
    BY <2>1, <2>2, <2>3 DEF NewEntry, Entry
  <2>5. \A s \in Signers : FileSoFar(s) \subseteq Entry
    <3>1. 0 \in 0..MaxHeight
      BY SignerNetworkAssumption
    <3>2. [from |-> 0, change |-> "a", member |-> FALSE] \in Entry
      BY <3>1 DEF Entry
    <3> QED
      BY <3>2 DEF FileSoFar
  <2> DEFINE new == FileSoFar(Instruction.signer) \cup {NewEntry(scheduled[c])}
  <2>6. file' = [file EXCEPT ![Instruction.signer] = new] /\ UNCHANGED <<alive, loaded>>
    BY <1>3, <2>1 DEF WritesFile
  <2>7. Instruction.signer \in Signers => new \subseteq Entry
    BY <2>4, <2>5
  <2> HIDE DEF new
  <2>8. \A s \in Signers : file'[s] \subseteq Entry
    BY <2>6, <2>7 DEF IInv, Shapes
  <2> QED
    BY <1>1, <2>6, <2>8
<1>4. ASSUME NEW group, Start(group), group \subseteq Signers
      PROVE  NetTypeOK'
  <2>1. /\ alive' \subseteq Signers /\ file' = file
        /\ \A s \in Signers : loaded'[s] = file[s] \/ loaded'[s] = loaded[s]
    BY <1>4 DEF Start
  <2> QED
    BY <1>1, <2>1
<1>5. SetB \ SetA \subseteq Signers
  BY DEF Signers
<1>6. CASE BringsUpNewSigners
  BY <1>4, <1>5, <1>6 DEF BringsUpNewSigners
<1>7. CASE BringUpRaises
  BY <1>4, <1>5, <1>7 DEF BringUpRaises
<1> QED
  BY <1>2, <1>3, <1>6, <1>7 DEF Scripts, SchedulesHeight, TogglesPause, ConfirmsNode,
     HeightReached, SeesProgress, SeesNoProgress, Stalls, Confirmed, NotConfirmed,
     CallRaises, netVars

\* The script's own variables.
ScriptTypes ==
  /\ pc \in 0..Len(Job) + 1
  /\ outcome \in {"none", "raised", "stalled", "unconfirmed"}
  /\ DOMAIN scheduled \subseteq Changes
  /\ \A c \in DOMAIN scheduled : scheduled[c] \in 0..MaxHeight
  /\ pauseFile \in BOOLEAN
  /\ DOMAIN seen \subseteq Nodes /\ DOMAIN last \in {{}, Nodes}
  /\ still \in 0..StallPolls

LEMMA ScriptTypesKept ==
  ASSUME IInv, TypeOK, Scripts
  PROVE  ScriptTypes'
<1> USE FederationChangeAssumption, SignerNetworkAssumption DEF TypeOK, ScriptTypes
<1>1. Len(Job) \in Nat /\ DOMAIN Job = 1..Len(Job)
  BY Places
<1>2. Running => pc + 1 \in 0..Len(Job) + 1
  BY <1>1 DEF Running
<1>3. \A o : At(o) => Running
  BY DEF At
<1>4. CASE SchedulesHeight
  <2>1. Instruction.change \in Changes
    <3> Running
      BY <1>3, <1>4 DEF SchedulesHeight
    <3> QED
      BY ThisPlace
  <2>2. tip[Probe] + Offset \in 0..MaxHeight
    BY <1>4 DEF SchedulesHeight, IInv, Shapes
  <2> QED
    BY <1>2, <1>3, <1>4, <2>1, <2>2 DEF SchedulesHeight, Continue
<1>5. CASE TogglesPause
  BY <1>2, <1>3, <1>5 DEF TogglesPause, Continue, At
<1>6. CASE WritesFile
  BY <1>2, <1>3, <1>6 DEF WritesFile, Continue
<1>7. CASE BringsUpNewSigners
  BY <1>2, <1>3, <1>7 DEF BringsUpNewSigners, Continue
<1>8. ASSUME NEW n \in Nodes, ConfirmsNode(n)
      PROVE  ScriptTypes'
  BY <1>8 DEF ConfirmsNode
<1>9. CASE HeightReached
  BY <1>2, <1>3, <1>9 DEF HeightReached, Continue
<1>10. CASE SeesProgress \/ SeesNoProgress
  BY <1>10 DEF SeesProgress, SeesNoProgress, Heights
<1>11. CASE Confirmed
  BY <1>2, <1>3, <1>11 DEF Confirmed, Continue
<1>12. ASSUME NEW why \in {"raised", "stalled", "unconfirmed"}, Fail(why), scheduled' = scheduled
       PROVE  ScriptTypes'
  <2>1. DOMAIN seen' = {} /\ DOMAIN last' = {}
    BY <1>12 DEF Fail
  <2>2. pc' \in 0..Len(Job) + 1 /\ still' \in 0..StallPolls
    BY <1>1, <1>12 DEF Fail
  <2>3. outcome' = why /\ pauseFile' \in BOOLEAN
    BY <1>12 DEF Fail
  <2>4. DOMAIN scheduled' \subseteq Changes
        /\ \A c \in DOMAIN scheduled' : scheduled'[c] \in 0..MaxHeight
    BY <1>12
  <2> QED
    BY <2>1, <2>2, <2>3, <2>4
<1>13. CASE Stalls \/ NotConfirmed \/ BringUpRaises \/ CallRaises
  BY <1>12, <1>13 DEF Stalls, NotConfirmed, BringUpRaises, CallRaises
<1> QED
  BY <1>4, <1>5, <1>6, <1>7, <1>8, <1>9, <1>10, <1>11, <1>13 DEF Scripts

LEMMA StepVInv == IInv /\ IInv' /\ VInv /\ [Next]_vars => VInv'
<1> SUFFICES ASSUME IInv, IInv', VInv, [Next]_vars PROVE VInv'
  OBVIOUS
<1>1. CASE UNCHANGED vars
  BY <1>1 DEF VInv, TypeOK, NetTypeOK, Top, InOrder, Reaches, StillThere, ReadRight,
     InForceFrom, vars, netVars, script
<1>2. CASE Scripts
  <2>1. ScriptTypes'
    BY <1>2, ScriptTypesKept DEF VInv
  <2> QED
    BY <1>2, <2>1, FileTypes, ScriptsKeep DEF VInv, TypeOK, ScriptTypes
<1>3. CASE Environment
  <2>1. UNCHANGED script /\ Network(pauseFile \/ ~Running)
    BY <1>3 DEF Environment
  <2>2. NetTypeOK'
    BY <1>3, <2>1, ChainGrows, NetworkTypes DEF VInv
  <2>3. TypeOK'
    BY <2>1, <2>2 DEF VInv, TypeOK, script
  <2> QED
    BY <1>3, <2>3, EnvironmentKeeps DEF VInv
<1> QED
  BY <1>1, <1>2, <1>3 DEF Next

LEMMA InitVInv == Init => VInv
<1> SUFFICES ASSUME Init PROVE VInv
  OBVIOUS
<1> USE FederationChangeAssumption, SignerNetworkAssumption DEF Init, NetInit
<1>1. NetTypeOK
  <2>1. chain \in Seq([key : {"a", "b"}, change : {"none"} \cup Changes]) /\ Top = 0
    BY DEF Top
  <2>2. [from |-> 0, change |-> "a", member |-> TRUE] \in Entry
    BY DEF Entry
  <2>3. \A s \in Signers : file[s] \subseteq Entry
    <3> HIDE DEF Entry
    <3> QED
      BY <2>2
  <2>4. tip \in [Nodes -> 0..Top] /\ chaos \in [Nodes -> {"idle", "armed", "rewound", "down"}]
    BY <2>1
  <2>5. alive \subseteq Signers /\ loaded = file
    BY DEF Signers
  <2> QED
    BY <2>1, <2>3, <2>4, <2>5 DEF NetTypeOK
<1>2. TypeOK
  <2>1. DOMAIN scheduled = {} /\ DOMAIN seen = {} /\ DOMAIN last = {}
    OBVIOUS
  <2>2. pc \in 0..Len(Job) + 1 /\ still \in 0..StallPolls
    BY Places
  <2>3. outcome = "none" /\ pauseFile \in BOOLEAN
    OBVIOUS
  <2> QED
    BY <1>1, <2>1, <2>2, <2>3 DEF TypeOK
<1>3. \A c \in Changes : First(c) \in Nat \ {0} /\ Awaited(c) \in Nat /\ Awaited(c) > First(c) + 1
  BY Places DEF Changes
<1>4. InOrder
  BY <1>3 DEF InOrder
<1>5. Reaches /\ StillThere
  BY <1>3 DEF Reaches, StillThere
<1>6. ReadRight
  BY <1>3 DEF ReadRight
<1> QED
  BY <1>2, <1>4, <1>5, <1>6 DEF VInv

LEMMA Invariance == Spec => [](IInv /\ VInv)
<1>1. IInv /\ VInv /\ [Next]_vars => (IInv /\ VInv)'
  BY StepIInv, StepVInv
<1> QED
  BY <1>1, InitIInv, InitVInv, PTL DEF Spec

\* Every state of the job is one that the scripts, the signers and the nodes can
\* be in: heights and entries lie within what was scheduled and produced.
THEOREM TypesOfJob == Spec => []TypeOK
<1>1. IInv /\ VInv => TypeOK
  BY DEF VInv
<1> QED
  BY <1>1, Invariance, PTL

\* A script that passed has seen its change made, signed with signer-set-b's key
\* from the scheduled height on; one that says a node does not have the change is
\* right, although each node is asked once and may just have been rewound.
THEOREM VerdictIsSound == Spec => []VerdictSound
<1>1. IInv /\ VInv => VerdictSound
  <2> SUFFICES ASSUME IInv, VInv PROVE VerdictSound
    OBVIOUS
  <2>1. \A c \in DOMAIN scheduled : scheduled[c] \in Nat
    BY SignerNetworkAssumption DEF VInv, TypeOK
  <2>2. ASSUME NEW c \in Changes, Passed(c)
        PROVE  /\ InForceFrom(scheduled[c], c)
               /\ Top >= scheduled[c] /\ chain[scheduled[c]].key = "b"
    <3>1. \A i \in DOMAIN Job : Job[i].op = "resume" /\ Job[i].change = c => i = Awaited(c) + 2
      <4> SUFFICES ASSUME NEW i \in DOMAIN Job, Job[i].op = "resume", Job[i].change = c
                   PROVE  i = Awaited(c) + 2
        OBVIOUS
      <4>1. PICK d \in Changes : i \in First(d)..Awaited(d) + 2
        BY Places, SMTT(30) DEF Changes
      <4>2. /\ First(d) \in Nat /\ Awaited(d) \in Nat /\ Awaited(d) > First(d) + 1
            /\ Job[First(d)] = Op("schedule", d) /\ Job[First(d) + 1] = Op("pause", d)
            /\ \A k \in First(d) + 2..Awaited(d) - 1 : Job[k].op \in {"write", "bringUp"}
            /\ Job[Awaited(d)] = Op("wait", d) /\ Job[Awaited(d) + 1] = Op("confirm", d)
            /\ Job[Awaited(d) + 2] = Op("resume", d)
        BY Places
      <4>3. \A o : Op(o, d).op = o /\ Op(o, d).change = d
        BY DEF Op
      <4>4. i \notin First(d) + 2..Awaited(d) - 1
        BY <4>2
      <4>5. i # First(d) /\ i # First(d) + 1 /\ i # Awaited(d) /\ i # Awaited(d) + 1
        BY <4>2, <4>3
      <4>6. i = Awaited(d) + 2
        BY <4>1, <4>2, <4>4, <4>5
      <4> QED
        BY <4>2, <4>3, <4>6
    <3>2. Awaited(c) + 2 \in DOMAIN Job /\ Job[Awaited(c) + 2] = Op("resume", c)
          /\ Awaited(c) \in Nat
      BY Places DEF Changes
    <3>3. pc > Awaited(c) + 2
      <4> DEFINE i == CHOOSE k \in DOMAIN Job : Job[k].op = "resume" /\ Job[k].change = c
      <4>1. Op("resume", c).op = "resume" /\ Op("resume", c).change = c
        BY DEF Op
      <4>2. i \in DOMAIN Job /\ Job[i].op = "resume" /\ Job[i].change = c
        BY <3>2, <4>1
      <4>3. i = Awaited(c) + 2
        BY <3>1, <4>2
      <4>4. pc > i
        BY <2>2 DEF Passed
      <4> QED
        BY <4>3, <4>4
    <3>4. pc \in Nat /\ pc > Awaited(c) /\ pc > Awaited(c) + 1 /\ pc >= Awaited(c)
      BY <3>2, <3>3 DEF IInv, Shapes
    <3>5. /\ c \in DOMAIN scheduled /\ scheduled[c] \in Nat
          /\ InForceFrom(scheduled[c], c) /\ Top >= scheduled[c]
      BY <2>1, <3>4, ScheduledBehind DEF VInv, Reaches
    <3>6. \E g \in 1..scheduled[c] - 1 : chain[g].change = "b"
      <4>1. Top \in Nat /\ DOMAIN chain = 1..Top
        BY DEF IInv, Shapes, Top
      <4>2. CASE c = "b"
        <5> scheduled["b"] - 1 \in 1..scheduled["b"] - 1
            /\ chain[scheduled["b"] - 1].change = "b"
          BY <3>5, <4>1, <4>2 DEF InForceFrom
        <5> QED
          BY <4>2
      <4>3. CASE c = "size"
        <5>1. /\ scheduled["b"] \in Nat /\ scheduled["b"] < scheduled["size"]
              /\ InForceFrom(scheduled["b"], "b")
          BY <2>1, <3>5, <4>3 DEF VInv, Reaches
        <5>2. scheduled["b"] - 1 \in 1..scheduled["size"] - 1
              /\ chain[scheduled["b"] - 1].change = "b"
          BY <3>5, <4>1, <4>3, <5>1 DEF InForceFrom
        <5> QED
          BY <4>3, <5>2
      <4> QED
        BY <4>2, <4>3 DEF Changes
    <3>7. scheduled[c] \in 1..Len(chain)
      BY <3>5, <3>6 DEF Top, IInv, Shapes
    <3> QED
      BY <3>5, <3>6, <3>7 DEF IInv, KeysFollowChanges
  <2>3. ASSUME NEW c \in DOMAIN scheduled, outcome = "unconfirmed",
               c = "size" \/ "size" \notin DOMAIN scheduled
        PROVE  ~InForceFrom(scheduled[c], c)
    BY <2>3 DEF VInv, ReadRight
  <2> QED
    BY <2>2, <2>3 DEF VerdictSound
<1> QED
  BY <1>1, Invariance, PTL
=============================================================================
