--------------------------- MODULE CeremonyProofs ----------------------------
(***************************************************************************)
(* Proofs about Ceremony, for any number of signers, any payloads and any  *)
(* number of runs that die or succeed.                                     *)
(***************************************************************************)
EXTENDS Ceremony, TLAPS

(***************************************************************************)
(* The inductive invariant.  What a step may rely on was left by the step  *)
(* before it in the same script (Ready), since nothing else touches the    *)
(* disk meanwhile; Linked says which step that was.  The aggregated key    *)
(* comes after all other files, with or without something in it            *)
(* (Coherent), which is why a guard that looks for pubkeys.txt is enough.  *)
(* A script that assembles set-b comes there with a key that was written   *)
(* by it or signed with by it (KeyInHand).  Of signatures, one run has one *)
(* payload and uses the nonces that it made itself (OwnNonces).            *)
(***************************************************************************)
GenerateOps == {"createkey", "pubkeys", "createnodevss", "aggregate", "aggpubkey"}
SignOps == {"createblockvss", "sign", "computesig"}
Instructions == [op : GenerateOps \cup SignOps \cup {"assemble"}, set : Sets, round : Rounds]

Prior(op) ==
  CASE op = "pubkeys" -> "createkey"
    [] op = "createnodevss" -> "pubkeys"
    [] op = "aggregate" -> "createnodevss"
    [] op = "aggpubkey" -> "aggregate"
    [] op = "sign" -> "createblockvss"
    [] op = "computesig" -> "sign"

Starters == {"createkey", "createblockvss", "assemble"}

\* y may follow x in a script.
Precedes(x, y) ==
  /\ y.op # "createkey"
  /\ y.op \in Starters => x.op \in {"aggpubkey", "computesig"}
  /\ y.op \notin Starters => x.op = Prior(y.op) /\ x.set = y.set /\ x.round = y.round

Linked(p) ==
  /\ p \in Seq(Instructions)
  /\ \A k \in 1..Len(p) - 1 : Precedes(p[k], p[k + 1])

\* The files of set s, one step of the ceremony after the other.
HasKeys(s) ==
  \A i \in Signers :
    Readable(s, {Key(i), PublicKey(i)}) /\ disk[s][Key(i)] = disk[s][PublicKey(i)]

HasPubkeys(s) ==
  /\ HasKeys(s)
  /\ Readable(s, {Pubkeys})
  /\ disk[s][Pubkeys].of = [i \in Signers |-> disk[s][Key(i)]]

HasNodeVss(s, r) ==
  /\ HasPubkeys(s)
  /\ \A i \in Signers :
       /\ Readable(s, {NodeVss(i)})
       /\ disk[s][NodeVss(i)].run = r
       /\ disk[s][NodeVss(i)].to = disk[s][Pubkeys].of

HasShares(s, r) ==
  /\ HasNodeVss(s, r)
  /\ \A i \in Signers : Readable(s, {Share(i)}) /\ disk[s][Share(i)].run = r

HasBlockVss(s, round) ==
  \A i \in Signers :
    BlockVss(round, i) \in DOMAIN disk[s] /\ disk[s][BlockVss(round, i)].run = runs

HasLocalSigs(s, round) ==
  \A j \in Signers :
    LET l == disk[s][LocalSig(round, j)] IN
    /\ LocalSig(round, j) \in DOMAIN disk[s]
    /\ l.signs = payload /\ l.set = s /\ l.signer = j
    /\ l.share = disk[s][Share(j)].run
    /\ l.nonces = [i \in Signers |-> disk[s][BlockVss(round, i)].run]

\* What step x relies on.
Ready(x) ==
  /\ x.op \in GenerateOps => Aggpubkey \notin DOMAIN disk[x.set]
  /\ x.op = "createkey" /\ x.set = "b" => Exists("a", {Aggpubkey})
  /\ x.op = "pubkeys" => HasKeys(x.set)
  /\ x.op = "createnodevss" => HasPubkeys(x.set)
  /\ x.op = "aggregate" => HasNodeVss(x.set, runs)
  /\ x.op = "aggpubkey" => HasShares(x.set, runs)
  /\ x.op \in {"sign", "computesig"} => HasBlockVss(x.set, x.round)
  /\ x.op = "computesig" => HasLocalSigs(x.set, x.round)

\* What x relies on when the script ends in the assembly of set-b.
HasKeyOfB == Readable("b", {Aggpubkey})
KeyAhead(x) == x.set = "b" /\ x.op \in GenerateOps \cup {"createblockvss", "sign"}
EndsInB(p) == p # <<>> /\ p[Len(p)].op = "assemble" /\ p[Len(p)].set = "b"
KeyInHand == EndsInB(program) => KeyAhead(Instruction) \/ HasKeyOfB

Scripted ==
  /\ DOMAIN disk = Sets /\ runs \in Nat
  /\ Linked(program)
  /\ program # <<>> => runs > 0 /\ Ready(Instruction)
  /\ KeyInHand

Coherent(s) ==
  Exists(s, {Aggpubkey}) =>
    \E r \in Nat \ {0} : HasShares(s, r) /\ disk[s][Aggpubkey] \in {[run |-> r], Torn}

SetsCoherent == \A s \in Sets : Coherent(s)

ConfigsCoherent ==
  \A x \in DOMAIN configs :
    \E r \in Nat \ {0} :
      /\ configs[x].nodevss = {r}
      /\ configs[x].key \in (IF x[1] = "a" THEN {r, Torn.run} ELSE {r})

OwnNonces ==
  /\ \A x \in sigs :
       /\ x.run \in Nat /\ x.run <= runs
       /\ x.run = runs => x.signs = payload
       /\ \A i \in Signers : x.nonces[i] = x.run
  /\ \A x, y \in sigs : x.run = y.run => x.signs = y.signs

IInv == Scripted /\ SetsCoherent /\ ConfigsCoherent /\ OwnNonces /\ CombinesOneRound

-----------------------------------------------------------------------------
(* Scripts.                                                                *)

LEMMA LinkedConcat ==
  ASSUME NEW p, NEW q, Linked(p), Linked(q), p # <<>>, q # <<>>,
         Precedes(p[Len(p)], q[1])
  PROVE  Linked(p \o q) /\ (p \o q) # <<>> /\ (p \o q)[1] = p[1]
         /\ (p \o q)[Len(p \o q)] = q[Len(q)]
<1> USE DEF Linked
<1>1. /\ p \o q \in Seq(Instructions) /\ Len(p \o q) = Len(p) + Len(q)
      /\ Len(p) \in Nat \ {0} /\ Len(q) \in Nat \ {0}
  OBVIOUS
<1>2. \A k \in 1..Len(p) : (p \o q)[k] = p[k]
  OBVIOUS
<1>3. \A k \in 1..Len(q) : (p \o q)[Len(p) + k] = q[k]
  OBVIOUS
<1>4. ASSUME NEW k \in 1..Len(p \o q) - 1
      PROVE  Precedes((p \o q)[k], (p \o q)[k + 1])
  <2>1. CASE k < Len(p)
    <3> k \in 1..Len(p) - 1 /\ k \in 1..Len(p) /\ k + 1 \in 1..Len(p)
      BY <1>1, <2>1
    <3> QED
      BY <1>2
  <2>2. CASE k = Len(p)
    <3> (p \o q)[k] = p[Len(p)] /\ (p \o q)[k + 1] = q[1]
      BY <1>1, <1>2, <1>3, <2>2
    <3> QED
      OBVIOUS
  <2>3. CASE k > Len(p)
    <3> DEFINE j == k - Len(p)
    <3>1. j \in 1..Len(q) - 1 /\ j \in 1..Len(q) /\ j + 1 \in 1..Len(q)
          /\ k = Len(p) + j /\ k + 1 = Len(p) + (j + 1)
      BY <1>1, <2>3
    <3>2. (p \o q)[k] = q[j] /\ (p \o q)[k + 1] = q[j + 1]
      <4> HIDE DEF j
      <4> QED
        BY <1>3, <3>1
    <3> HIDE DEF j
    <3> QED
      BY <3>1, <3>2
  <2> QED
    BY <1>1, <2>1, <2>2, <2>3
<1> QED
  BY <1>1, <1>2, <1>3, <1>4

LEMMA GenerateLinked ==
  ASSUME NEW s \in Sets
  PROVE  /\ Linked(Generate(s)) /\ Generate(s) # <<>>
         /\ Generate(s)[1] = Op("createkey", s)
         /\ Generate(s)[Len(Generate(s))] = Op("aggpubkey", s)
<1> Generate(s) \in Seq(Instructions)
  BY DEF Generate, Op, Instructions, GenerateOps, Rounds
<1> QED
  BY DEF Linked, Generate, Op, Precedes, Prior, Starters

LEMMA SignOffLinked ==
  ASSUME NEW s \in Sets, NEW r \in Rounds
  PROVE  /\ Linked(SignOff(s, r)) /\ SignOff(s, r) # <<>>
         /\ SignOff(s, r)[1] = [op |-> "createblockvss", set |-> s, round |-> r]
         /\ SignOff(s, r)[Len(SignOff(s, r))].op = "computesig"
<1> SignOff(s, r) \in Seq(Instructions)
  BY DEF SignOff, Instructions, SignOps
<1> QED
  BY DEF Linked, SignOff, Precedes, Prior, Starters

LEMMA AssembleLinked ==
  ASSUME NEW s \in Sets
  PROVE  /\ Linked(<<Op("assemble", s)>>) /\ <<Op("assemble", s)>> # <<>>
         /\ <<Op("assemble", s)>>[1] = Op("assemble", s)
<1> <<Op("assemble", s)>> \in Seq(Instructions)
  BY DEF Op, Instructions, Rounds
<1> QED
  BY DEF Linked

\* The step after x has x before it.
LEMMA NextStep ==
  ASSUME Linked(program), program # <<>>
  PROVE  /\ Instruction \in Instructions
         /\ Linked(Tail(program))
         /\ Tail(program) # <<>> =>
              /\ Head(Tail(program)) \in Instructions
              /\ Precedes(Instruction, Head(Tail(program)))
<1>1. /\ program \in Seq(Instructions) /\ Len(program) \in Nat \ {0}
      /\ Tail(program) \in Seq(Instructions) /\ Len(Tail(program)) = Len(program) - 1
      /\ \A k \in 1..Len(program) - 1 : Tail(program)[k] = program[k + 1]
  BY DEF Linked
<1>2. Instruction = program[1] /\ Instruction \in Instructions
  BY <1>1 DEF Instruction
<1>3. ASSUME NEW k \in 1..Len(Tail(program)) - 1
      PROVE  Precedes(Tail(program)[k], Tail(program)[k + 1])
  <2> k + 1 \in 1..Len(program) - 1 /\ k \in 1..Len(program) - 1
    BY <1>1
  <2> QED
    BY <1>1 DEF Linked
<1>4. ASSUME Tail(program) # <<>>
      PROVE  Head(Tail(program)) = program[2] /\ 1 \in 1..Len(program) - 1
             /\ program[2] \in Instructions
  BY <1>1, <1>4
<1> QED
  BY <1>1, <1>2, <1>3, <1>4 DEF Linked

-----------------------------------------------------------------------------
(* Files.                                                                  *)

\* What writing does to the files of a set.
LEMMA PutEffect ==
  ASSUME DOMAIN disk = Sets, NEW s \in Sets, NEW new, Put(s, new)
  PROVE  /\ DOMAIN disk' = Sets
         /\ \A t \in Sets \ {s} : disk'[t] = disk[t]
         /\ DOMAIN disk'[s] = DOMAIN new \cup DOMAIN disk[s]
         /\ \A f \in DOMAIN new : disk'[s][f] = new[f]
         /\ \A f \in DOMAIN disk[s] \ DOMAIN new : disk'[s][f] = disk[s][f]
BY DEF Put, Overlay

\* Of the files of S only those of `own` change, and each of them to its contents,
\* to nothing or not at all; all of them do, or the script has died.
Effect(own, contents) ==
  /\ DOMAIN disk' = Sets
  /\ \A t \in Sets \ {S} : disk'[t] = disk[t]
  /\ \A f : f \notin own => f \in DOMAIN disk'[S] <=> f \in DOMAIN disk[S]
  /\ \A f \in DOMAIN disk[S] : f \notin own => disk'[S][f] = disk[S][f]
  /\ \A f \in own : f \in DOMAIN disk'[S] =>
       \/ disk'[S][f] = contents[f]
       \/ disk'[S][f] = Torn
       \/ f \in DOMAIN disk[S] /\ disk'[S][f] = disk[S][f]
  /\ \/ /\ program' = Tail(program)
        /\ \A f \in own : f \in DOMAIN disk'[S] /\ disk'[S][f] = contents[f]
     \/ program' = <<>>

LEMMA StepEffect ==
  ASSUME DOMAIN disk = Sets, S \in Sets,
         NEW op, NEW files, NEW contents,
         Len(files) \in Nat, DOMAIN files = 1..Len(files),
         Step(op, files, contents)
  PROVE  Effect({files[i] : i \in DOMAIN files}, contents)
<1> DEFINE own == {files[i] : i \in DOMAIN files}
<1>1. CASE Writes(files, contents)
  <2> DEFINE new == [f \in own |-> contents[f]]
  <2>1. Put(S, new) /\ DOMAIN new = own /\ \A f \in own : new[f] = contents[f]
    BY <1>1 DEF Writes
  <2>2. program' = Tail(program)
    BY <1>1 DEF Writes, Continue
  <2> HIDE DEF new, own
  <2>3. /\ DOMAIN disk' = Sets
        /\ \A t \in Sets \ {S} : disk'[t] = disk[t]
        /\ DOMAIN disk'[S] = own \cup DOMAIN disk[S]
        /\ \A f \in own : disk'[S][f] = contents[f]
        /\ \A f \in DOMAIN disk[S] \ own : disk'[S][f] = disk[S][f]
    BY <2>1, PutEffect
  <2>4. Effect(own, contents)
    BY <2>2, <2>3 DEF Effect
  <2> QED
    BY <2>4 DEF own
<1>2. CASE Dies(files, contents)
  <2>1. PICK new : /\ Put(S, new)
                   /\ DOMAIN new \subseteq own
                   /\ \A f \in DOMAIN new : new[f] = contents[f] \/ new[f] = Torn
    <3>1. ASSUME NEW k \in 0..Len(files)
          PROVE  /\ DOMAIN Written(files, contents, k) \subseteq own
                 /\ \A f \in DOMAIN Written(files, contents, k) :
                      Written(files, contents, k)[f] = contents[f]
      BY DEF Written
    <3>2. CASE \E k \in 0..Len(files) : Put(S, Written(files, contents, k))
      BY <3>1, <3>2
    <3>3. CASE \E k \in 1..Len(files) :
                 Put(S, Overlay([f \in {files[k]} |-> Torn], Written(files, contents, k - 1)))
      <4>1. PICK k \in 1..Len(files) :
              Put(S, Overlay([f \in {files[k]} |-> Torn], Written(files, contents, k - 1)))
        BY <3>3
      <4>2. k - 1 \in 0..Len(files) /\ files[k] \in own
        OBVIOUS
      <4> DEFINE done == Written(files, contents, k - 1)
                 new == Overlay([f \in {files[k]} |-> Torn], done)
      <4>3. DOMAIN done \subseteq own /\ \A f \in DOMAIN done : done[f] = contents[f]
        BY <3>1, <4>2
      <4>4. DOMAIN new \subseteq own
            /\ \A f \in DOMAIN new : new[f] = contents[f] \/ new[f] = Torn
        <5> HIDE DEF done, own
        <5> QED
          BY <4>2, <4>3 DEF Overlay
      <4>5. Put(S, new)
        BY <4>1
      <4> HIDE DEF new, own
      <4> QED
        BY <4>4, <4>5
    <3> QED
      BY <1>2, <3>2, <3>3 DEF Dies
  <2>2. program' = <<>>
    BY <1>2 DEF Dies
  <2> HIDE DEF own
  <2>3. /\ DOMAIN disk' = Sets
        /\ \A t \in Sets \ {S} : disk'[t] = disk[t]
        /\ DOMAIN disk'[S] = DOMAIN new \cup DOMAIN disk[S]
        /\ \A f \in DOMAIN new : disk'[S][f] = new[f]
        /\ \A f \in DOMAIN disk[S] \ DOMAIN new : disk'[S][f] = disk[S][f]
    BY <2>1, PutEffect
  <2>4. Effect(own, contents)
    BY <2>1, <2>2, <2>3 DEF Effect
  <2> QED
    BY <2>4 DEF own
<1> QED
  BY <1>1, <1>2 DEF Step

\* The files of a set that a ceremony makes.
SetFiles ==
  {Pubkeys, Aggpubkey} \cup {Key(i) : i \in Signers} \cup {PublicKey(i) : i \in Signers}
    \cup {NodeVss(i) : i \in Signers} \cup {Share(i) : i \in Signers}

\* Whatever happens to other files, a set stays as it is.
LEMMA SameSetFiles ==
  ASSUME NEW s \in Sets,
         \A f \in SetFiles : f \in DOMAIN disk'[s] <=> f \in DOMAIN disk[s],
         \A f \in SetFiles : f \in DOMAIN disk[s] => disk'[s][f] = disk[s][f]
  PROVE  /\ HasKeys(s) => HasKeys(s)'
         /\ HasPubkeys(s) => HasPubkeys(s)'
         /\ \A r : HasNodeVss(s, r) => HasNodeVss(s, r)'
         /\ \A r : HasShares(s, r) => HasShares(s, r)'
         /\ Coherent(s) => Coherent(s)'
<1>1. \A i \in Signers : {Key(i), PublicKey(i), NodeVss(i), Share(i), Pubkeys, Aggpubkey}
                            \subseteq SetFiles
  BY DEF SetFiles
<1>2. {Pubkeys, Aggpubkey} \subseteq SetFiles
  BY DEF SetFiles
<1>3. \A F \in SUBSET SetFiles : Readable(s, F)' <=> Readable(s, F)
  BY DEF Readable
<1>4. HasKeys(s) => HasKeys(s)'
  BY <1>1, <1>3 DEF HasKeys, Readable
<1>5. HasPubkeys(s) => HasPubkeys(s)'
  <2> SUFFICES ASSUME HasPubkeys(s) PROVE HasPubkeys(s)'
    OBVIOUS
  <2>1. HasKeys(s)' /\ Readable(s, {Pubkeys})' /\ disk'[s][Pubkeys] = disk[s][Pubkeys]
    BY <1>2, <1>3, <1>4 DEF HasPubkeys, Readable
  <2>2. \A i \in Signers : disk'[s][Key(i)] = disk[s][Key(i)]
    BY <1>1 DEF HasPubkeys, HasKeys, Readable
  <2> QED
    BY <2>1, <2>2 DEF HasPubkeys
<1>6. ASSUME NEW r, HasNodeVss(s, r) PROVE HasNodeVss(s, r)'
  <2>1. HasPubkeys(s)' /\ disk'[s][Pubkeys] = disk[s][Pubkeys]
    BY <1>2, <1>5, <1>6 DEF HasNodeVss, HasPubkeys, Readable
  <2>2. \A i \in Signers : Readable(s, {NodeVss(i)})' /\ disk'[s][NodeVss(i)] = disk[s][NodeVss(i)]
    BY <1>1, <1>3, <1>6 DEF HasNodeVss, Readable
  <2> QED
    BY <1>6, <2>1, <2>2 DEF HasNodeVss
<1>7. ASSUME NEW r, HasShares(s, r) PROVE HasShares(s, r)'
  <2>1. \A i \in Signers : Readable(s, {Share(i)})' /\ disk'[s][Share(i)] = disk[s][Share(i)]
    BY <1>1, <1>3, <1>7 DEF HasShares, Readable
  <2> QED
    BY <1>6, <1>7, <2>1 DEF HasShares
<1>8. Coherent(s) => Coherent(s)'
  <2>1. Exists(s, {Aggpubkey})' =>
          Exists(s, {Aggpubkey}) /\ disk'[s][Aggpubkey] = disk[s][Aggpubkey]
    BY <1>2 DEF Exists
  <2> QED
    BY <1>7, <2>1 DEF Coherent
<1> QED
  BY <1>4, <1>5, <1>6, <1>7, <1>8

-----------------------------------------------------------------------------
(* The steps of a script.                                                  *)

\* The only step that may follow each one and begins nothing new.
LEMMA Followers ==
  ASSUME NEW x \in Instructions, NEW y \in Instructions,
         y.op \notin Starters, Precedes(x, y)
  PROVE  /\ y.set = x.set /\ y.round = x.round
         /\ x.op = "createkey" => y.op = "pubkeys"
         /\ x.op = "pubkeys" => y.op = "createnodevss"
         /\ x.op = "createnodevss" => y.op = "aggregate"
         /\ x.op = "aggregate" => y.op = "aggpubkey"
         /\ x.op # "aggpubkey" /\ x.op # "computesig" /\ x.op # "assemble"
         /\ x.op = "createblockvss" => y.op = "sign"
         /\ x.op = "sign" => y.op = "computesig"
BY DEF Instructions, Precedes, Prior, Starters, GenerateOps, SignOps

\* The key of set-b stays, and is there when it was written or signed with.
KeepsKeyOfB ==
  HasKeyOfB \/ (S = "b" /\ Instruction.op \in {"aggpubkey", "sign"}) => HasKeyOfB'

\* A script goes on if each step leaves what the one after it relies on.
LEMMA ScriptGoesOn ==
  ASSUME Scripted, program # <<>>, DOMAIN disk' = Sets, runs' = runs,
         \/ /\ program' = Tail(program)
            /\ \A y \in Instructions :
                 y.op \notin Starters /\ Precedes(Instruction, y) => Ready(y)'
            /\ KeepsKeyOfB
         \/ program' = <<>>
  PROVE  Scripted'
<1>1. CASE program' = <<>>
  <2> Linked(<<>>)
    BY DEF Linked
  <2> QED
    BY <1>1 DEF Scripted, KeyInHand, EndsInB
<1>2. CASE program' # <<>>
  <2>1. PICK y \in Instructions : y = Instruction' /\ Precedes(Instruction, y)
    BY <1>2, NextStep DEF Scripted, Instruction
  <2>2. program' = Tail(program) /\ Linked(program') /\ KeepsKeyOfB
    BY <1>2, NextStep DEF Scripted
  <2>3. Ready(y)'
    <3>1. CASE y.op \notin Starters
      BY <1>2, <2>1, <3>1
    <3>2. CASE y.op \in Starters
      BY <2>1, <3>2 DEF Ready, Precedes, Starters, GenerateOps
    <3> QED
      BY <3>1, <3>2
  <2>4. EndsInB(program') => EndsInB(program)
    BY <1>2, <2>2 DEF EndsInB, Scripted, Linked
  <2>5. KeyAhead(Instruction) => KeyAhead(y) \/ HasKeyOfB'
    <3> SUFFICES ASSUME KeyAhead(Instruction) PROVE KeyAhead(y) \/ HasKeyOfB'
      OBVIOUS
    <3>1. CASE Instruction.op \in {"aggpubkey", "sign"}
      BY <2>2, <3>1 DEF KeepsKeyOfB, KeyAhead, S
    <3>2. CASE Instruction.op \notin {"aggpubkey", "sign"}
      <4>1. y.op \notin Starters /\ Instruction \in Instructions
        BY <2>1, <3>2, NextStep DEF Precedes, KeyAhead, GenerateOps, Scripted
      <4>2. y.set = "b" /\ y.op \in GenerateOps \cup {"createblockvss", "sign"}
        BY <2>1, <3>2, <4>1, Followers DEF KeyAhead, GenerateOps
      <4> QED
        BY <4>2 DEF KeyAhead
    <3> QED
      BY <3>1, <3>2
  <2>6. KeyInHand'
    BY <2>1, <2>2, <2>4, <2>5 DEF KeyInHand, Scripted, KeepsKeyOfB
  <2> QED
    BY <1>2, <2>1, <2>2, <2>3, <2>6 DEF Scripted
<1> QED
  BY <1>1, <1>2

\* The step at hand.
LEMMA ThisStep ==
  ASSUME Scripted, NEW op, At(op)
  PROVE  /\ program # <<>> /\ Instruction \in Instructions /\ Instruction.op = op
         /\ S \in Sets /\ R \in Rounds /\ runs > 0 /\ Ready(Instruction) /\ Ours # Torn
<1>1. program # <<>> /\ Instruction \in Instructions /\ Instruction.op = op
  BY NextStep DEF Scripted, At
<1> QED
  BY <1>1 DEF Scripted, Instructions, S, R, Ours, Torn

\* A step that does not write the aggregated key keeps it.
LEMMA OthersKeepTheKey ==
  ASSUME S \in Sets, NEW own, NEW contents, Effect(own, contents), Aggpubkey \notin own,
         Instruction.op = "sign" => Readable(S, {Aggpubkey}),
         Instruction.op # "aggpubkey"
  PROVE  KeepsKeyOfB
<1> SUFFICES ASSUME HasKeyOfB PROVE HasKeyOfB'
  BY DEF KeepsKeyOfB, HasKeyOfB
<1>1. "b" \in Sets
  BY DEF Sets
<1> QED
  BY <1>1 DEF HasKeyOfB, Readable, Effect, Torn

LEMMA KeyFilesAre ==
  /\ Len(KeyFiles) \in Nat /\ DOMAIN KeyFiles = 1..Len(KeyFiles)
  /\ {KeyFiles[k] : k \in DOMAIN KeyFiles} =
       {Key(i) : i \in Signers} \cup {PublicKey(i) : i \in Signers}
<1> USE CeremonyAssumption
<1>1. 2 * N \in Nat /\ DOMAIN KeyFiles = 1..2 * N
  BY DEF KeyFiles
<1>2. Len(KeyFiles) = 2 * N
  BY <1>1 DEF KeyFiles
<1>3. ASSUME NEW k \in 1..2 * N
      PROVE  KeyFiles[k] \in {Key(i) : i \in Signers} \cup {PublicKey(i) : i \in Signers}
  <2>1. (k % 2 = 1 => (k + 1) \div 2 \in 1..N) /\ (k % 2 # 1 => k \div 2 \in 1..N)
    OBVIOUS
  <2> QED
    BY <2>1 DEF KeyFiles, Signers
<1>4. ASSUME NEW i \in Signers
      PROVE  \E j, k \in 1..2 * N : KeyFiles[j] = Key(i) /\ KeyFiles[k] = PublicKey(i)
  <2>1. /\ 2 * i - 1 \in 1..2 * N /\ 2 * i \in 1..2 * N
        /\ (2 * i - 1) % 2 = 1 /\ ((2 * i - 1) + 1) \div 2 = i
        /\ (2 * i) % 2 = 0 /\ (2 * i) \div 2 = i
    BY DEF Signers
  <2>2. KeyFiles[2 * i - 1] = Key(i) /\ KeyFiles[2 * i] = PublicKey(i)
    BY <2>1 DEF KeyFiles
  <2> QED
    BY <2>1, <2>2
<1> QED
  BY <1>1, <1>2, <1>3, <1>4

DiskInv == Scripted /\ SetsCoherent

\* What holds of the disk after a step that writes nothing of a finished set.
LEMMA GenerateStep ==
  ASSUME DiskInv, NEW op \in GenerateOps, NEW own, NEW contents,
         At(op), Aggpubkey \notin own, Effect(own, contents)
  PROVE  SetsCoherent' /\ Aggpubkey \notin DOMAIN disk'[S]
<1>1. S \in Sets /\ Aggpubkey \notin DOMAIN disk[S]
  BY ThisStep DEF DiskInv, Ready, S
<1>2. Aggpubkey \notin DOMAIN disk'[S] /\ \A t \in Sets \ {S} : disk'[t] = disk[t]
  BY <1>1 DEF Effect
<1>3. ASSUME NEW t \in Sets PROVE Coherent(t)'
  <2>1. CASE t = S
    BY <1>2, <2>1 DEF Coherent, Exists
  <2>2. CASE t # S
    BY <1>2, <2>2, SameSetFiles DEF DiskInv, SetsCoherent
  <2> QED
    BY <2>1, <2>2
<1> QED
  BY <1>2, <1>3 DEF SetsCoherent

LEMMA CreateKeysStep == DiskInv /\ CreateKeys => DiskInv'
<1> SUFFICES ASSUME DiskInv, CreateKeys PROVE DiskInv'
  OBVIOUS
<1> DEFINE own == {Key(i) : i \in Signers} \cup {PublicKey(i) : i \in Signers}
           keyOf(f) == IF S = "b" /\ f[2] = Reused THEN disk["a"][f] ELSE Ours
           contents == [f \in {KeyFiles[k] : k \in DOMAIN KeyFiles} |-> keyOf(f)]
<1>1. Step("createkey", KeyFiles, contents) /\ runs' = runs
  BY DEF CreateKeys
<1>2. At("createkey")
  BY <1>1 DEF Step
<1>3. /\ program # <<>> /\ Instruction \in Instructions /\ Instruction.op = "createkey"
      /\ S \in Sets /\ Ready(Instruction) /\ Ours # Torn
  BY <1>2, ThisStep DEF DiskInv
<1>4. /\ Len(KeyFiles) \in Nat /\ DOMAIN KeyFiles = 1..Len(KeyFiles)
      /\ own = {KeyFiles[k] : k \in DOMAIN KeyFiles}
  BY KeyFilesAre
<1>5. \A i \in Signers : contents[Key(i)] = contents[PublicKey(i)] /\ contents[Key(i)] # Torn
  <2> SUFFICES ASSUME NEW i \in Signers
               PROVE  contents[Key(i)] = contents[PublicKey(i)] /\ contents[Key(i)] # Torn
    OBVIOUS
  <2>1. contents[Key(i)] = keyOf(Key(i)) /\ contents[PublicKey(i)] = keyOf(PublicKey(i))
    BY <1>4
  <2>2. Key(i)[2] = i /\ PublicKey(i)[2] = i
    BY DEF Key, PublicKey
  <2>3. CASE S = "b" /\ i = Reused
    <3>1. HasKeys("a")
      BY <1>3, <2>3 DEF Ready, S, DiskInv, SetsCoherent, Coherent, Sets, HasShares,
         HasNodeVss, HasPubkeys
    <3> QED
      BY <2>1, <2>2, <2>3, <3>1 DEF HasKeys, Readable
  <2>4. CASE ~(S = "b" /\ i = Reused)
    BY <1>3, <2>1, <2>2, <2>4
  <2> QED
    BY <2>3, <2>4
<1> HIDE DEF contents
<1>6. Aggpubkey \notin own
  BY DEF Aggpubkey, Key, PublicKey
<1>7. Effect(own, contents)
  <2> DOMAIN disk = Sets
    BY DEF DiskInv, Scripted
  <2>1. Effect({KeyFiles[k] : k \in DOMAIN KeyFiles}, contents)
    BY <1>1, <1>3, <1>4, StepEffect
  <2> HIDE DEF own
  <2> QED
    BY <1>4, <2>1
<1>8. SetsCoherent' /\ Aggpubkey \notin DOMAIN disk'[S]
  BY <1>2, <1>6, <1>7, GenerateStep DEF GenerateOps
<1>9. ASSUME program' = Tail(program), program' # <<>>,
             NEW y \in Instructions, y.op \notin Starters, Precedes(Instruction, y)
      PROVE  Ready(y)'
  <2>1. y.set = S /\ y.op = "pubkeys"
    BY <1>3, <1>9, Followers DEF S
  <2>2. \A f \in own : f \in DOMAIN disk'[S] /\ disk'[S][f] = contents[f]
    BY <1>7, <1>9 DEF Effect
  <2>3. HasKeys(y.set)'
    BY <1>5, <2>1, <2>2 DEF HasKeys, Readable, Torn
  <2> QED
    BY <1>8, <2>1, <2>3 DEF Ready, GenerateOps
<1>10. KeepsKeyOfB
  BY <1>3, <1>6, <1>7, OthersKeepTheKey
<1> QED
  BY <1>1, <1>3, <1>7, <1>8, <1>9, <1>10, ScriptGoesOn DEF DiskInv, Effect

LEMMA WritePubkeysFileStep == DiskInv /\ WritePubkeysFile => DiskInv'
<1> SUFFICES ASSUME DiskInv, WritePubkeysFile PROVE DiskInv'
  OBVIOUS
<1> DEFINE contents == [f \in {Pubkeys} |-> [run |-> runs, of |-> OwnKeys]]
<1>1. Step("pubkeys", <<Pubkeys>>, contents) /\ runs' = runs
  BY DEF WritePubkeysFile
<1>2. At("pubkeys")
  BY <1>1 DEF Step
<1>3. /\ program # <<>> /\ Instruction \in Instructions /\ Instruction.op = "pubkeys"
      /\ S \in Sets /\ HasKeys(S)
  BY <1>2, ThisStep DEF DiskInv, Ready, S
<1>4. contents[Pubkeys].of = OwnKeys /\ contents[Pubkeys] # Torn
  <2> [run |-> runs, of |-> OwnKeys] # Torn
    <3> DOMAIN [run |-> runs, of |-> OwnKeys] # DOMAIN Torn
      BY DEF Torn
    <3> QED
      OBVIOUS
  <2> QED
    OBVIOUS
<1> HIDE DEF contents
<1>5. Effect({Pubkeys}, contents)
  <2> DOMAIN disk = Sets
    BY DEF DiskInv, Scripted
  <2> DEFINE files == <<Pubkeys>>
  <2>1. Len(files) \in Nat /\ DOMAIN files = 1..Len(files)
        /\ {files[i] : i \in DOMAIN files} = {Pubkeys}
    OBVIOUS
  <2> HIDE DEF files
  <2>2. Effect({files[i] : i \in DOMAIN files}, contents)
    BY <1>1, <1>3, <2>1, StepEffect DEF files
  <2> QED
    BY <2>1, <2>2
<1>6. SetsCoherent' /\ Aggpubkey \notin DOMAIN disk'[S]
  <2> Aggpubkey \notin {Pubkeys}
    BY DEF Aggpubkey, Pubkeys
  <2> QED
    BY <1>2, <1>5, GenerateStep DEF GenerateOps
<1>7. ASSUME program' = Tail(program), program' # <<>>,
             NEW y \in Instructions, y.op \notin Starters, Precedes(Instruction, y)
      PROVE  Ready(y)'
  <2>1. y.set = S /\ y.op = "createnodevss"
    BY <1>3, <1>7, Followers DEF S
  <2>2. Pubkeys \in DOMAIN disk'[S] /\ disk'[S][Pubkeys] = contents[Pubkeys]
    BY <1>5, <1>7 DEF Effect
  <2>3. \A i \in Signers : Key(i) \notin {Pubkeys} /\ PublicKey(i) \notin {Pubkeys}
    BY DEF Key, PublicKey, Pubkeys
  <2>4. \A i \in Signers :
          /\ Key(i) \in DOMAIN disk[S] /\ PublicKey(i) \in DOMAIN disk[S]
          /\ Key(i) \in DOMAIN disk'[S] /\ disk'[S][Key(i)] = disk[S][Key(i)]
          /\ PublicKey(i) \in DOMAIN disk'[S] /\ disk'[S][PublicKey(i)] = disk[S][PublicKey(i)]
    BY <1>3, <1>5, <2>3 DEF Effect, HasKeys, Readable
  <2>5. HasKeys(y.set)'
    BY <1>3, <2>1, <2>4 DEF HasKeys, Readable, Torn
  <2>6. HasPubkeys(y.set)'
    <3> contents[Pubkeys].of = [i \in Signers |-> disk'[S][Key(i)]]
      BY <1>4, <2>4 DEF OwnKeys
    <3> QED
      BY <1>4, <2>1, <2>2, <2>5 DEF HasPubkeys, HasKeys, Readable, Torn
  <2> QED
    BY <1>6, <2>1, <2>6 DEF Ready, GenerateOps
<1>8. KeepsKeyOfB
  <2>1. Aggpubkey \notin {Pubkeys}
    BY DEF Aggpubkey, Pubkeys
  <2> QED
    BY <1>3, <1>5, <2>1, OthersKeepTheKey
<1> QED
  BY <1>1, <1>3, <1>5, <1>6, <1>7, <1>8, ScriptGoesOn DEF DiskInv, Effect

\* One file for each signer.
LEMMA SignerFiles ==
  ASSUME NEW files, files = [i \in Signers |-> files[i]]
  PROVE  Len(files) \in Nat /\ DOMAIN files = 1..Len(files)
BY CeremonyAssumption DEF Signers

\* A step that writes neither keys nor pubkeys.txt keeps them.
LEMMA KeepsPubkeys ==
  ASSUME NEW s \in Sets, s = S, HasPubkeys(s), NEW own, NEW contents, Effect(own, contents),
         Pubkeys \notin own, \A i \in Signers : Key(i) \notin own /\ PublicKey(i) \notin own
  PROVE  HasPubkeys(s)' /\ disk'[s][Pubkeys] = disk[s][Pubkeys]
<1>1. Pubkeys \in DOMAIN disk'[s] /\ disk'[s][Pubkeys] = disk[s][Pubkeys]
  BY DEF HasPubkeys, Effect, Readable
<1>2. \A i \in Signers :
        /\ Key(i) \in DOMAIN disk'[s] /\ disk'[s][Key(i)] = disk[s][Key(i)]
        /\ PublicKey(i) \in DOMAIN disk'[s] /\ disk'[s][PublicKey(i)] = disk[s][PublicKey(i)]
  BY DEF HasPubkeys, HasKeys, Effect, Readable
<1>3. HasKeys(s)' /\ Readable(s, {Pubkeys})'
  BY <1>1, <1>2 DEF HasPubkeys, HasKeys, Readable
<1> QED
  BY <1>1, <1>2, <1>3 DEF HasPubkeys

LEMMA CreateNodeVssStep == DiskInv /\ CreateNodeVss => DiskInv'
<1> SUFFICES ASSUME DiskInv, CreateNodeVss PROVE DiskInv'
  OBVIOUS
<1> DEFINE own == {NodeVss(i) : i \in Signers}
           contents == [f \in {NodeVss(i) : i \in Signers} |-> [run |-> runs, to |-> OwnKeys]]
           files == [i \in Signers |-> NodeVss(i)]
<1>1. Step("createnodevss", files, contents) /\ runs' = runs
  BY DEF CreateNodeVss
<1>2. At("createnodevss")
  BY <1>1 DEF Step
<1>3. /\ program # <<>> /\ Instruction \in Instructions /\ Instruction.op = "createnodevss"
      /\ S \in Sets /\ HasPubkeys(S)
  BY <1>2, ThisStep DEF DiskInv, Ready, S
<1>4. \A i \in Signers :
        /\ contents[NodeVss(i)].run = runs /\ contents[NodeVss(i)].to = OwnKeys
        /\ contents[NodeVss(i)] # Torn
  <2> [run |-> runs, to |-> OwnKeys] # Torn
    <3> DOMAIN [run |-> runs, to |-> OwnKeys] # DOMAIN Torn
      BY DEF Torn
    <3> QED
      OBVIOUS
  <2> QED
    OBVIOUS
<1> HIDE DEF contents
<1>5. Effect(own, contents)
  <2> DOMAIN disk = Sets
    BY DEF DiskInv, Scripted
  <2>1. {files[i] : i \in DOMAIN files} = own
    OBVIOUS
  <2>2. Len(files) \in Nat /\ DOMAIN files = 1..Len(files)
    BY SignerFiles
  <2> HIDE DEF files, own
  <2>3. Effect({files[i] : i \in DOMAIN files}, contents)
    BY <1>1, <1>3, <2>2, StepEffect
  <2> QED
    BY <2>1, <2>3
<1>6. SetsCoherent' /\ Aggpubkey \notin DOMAIN disk'[S]
  <2>1. Aggpubkey \notin own
    BY DEF Aggpubkey, NodeVss
  <2> HIDE DEF own
  <2> QED
    BY <1>2, <1>5, <2>1, GenerateStep DEF GenerateOps
<1>7. ASSUME program' = Tail(program), program' # <<>>,
             NEW y \in Instructions, y.op \notin Starters, Precedes(Instruction, y)
      PROVE  Ready(y)'
  <2>1. y.set = S /\ y.op = "aggregate"
    BY <1>3, <1>7, Followers DEF S
  <2>2. \A f \in own : f \in DOMAIN disk'[S] /\ disk'[S][f] = contents[f]
    BY <1>5, <1>7 DEF Effect
  <2>3. /\ Pubkeys \notin own
        /\ \A i \in Signers : Key(i) \notin own /\ PublicKey(i) \notin own /\ NodeVss(i) \in own
    BY DEF Key, PublicKey, Pubkeys, NodeVss
  <2> HIDE DEF own
  <2>4. HasPubkeys(y.set)' /\ disk'[S][Pubkeys] = disk[S][Pubkeys]
    BY <1>3, <1>5, <2>1, <2>3, KeepsPubkeys
  <2>5. disk[S][Pubkeys].of = OwnKeys
    BY <1>3 DEF HasPubkeys, OwnKeys
  <2>6. HasNodeVss(y.set, runs)'
    BY <1>1, <1>4, <2>1, <2>2, <2>3, <2>4, <2>5 DEF HasNodeVss, Readable
  <2> QED
    BY <1>6, <2>1, <2>6 DEF Ready, GenerateOps
<1>8. KeepsKeyOfB
  <2>1. Aggpubkey \notin own
    BY DEF Aggpubkey, NodeVss
  <2> HIDE DEF own
  <2> QED
    BY <1>3, <1>5, <2>1, OthersKeepTheKey
<1> QED
  BY <1>1, <1>3, <1>5, <1>6, <1>7, <1>8, ScriptGoesOn DEF DiskInv, Effect

LEMMA AggregateStep == DiskInv /\ Aggregate => DiskInv'
<1> SUFFICES ASSUME DiskInv, Aggregate PROVE DiskInv'
  OBVIOUS
<1> DEFINE own == {Share(i) : i \in Signers}
           contents == [f \in {Share(i) : i \in Signers} |-> Ours]
           files == [i \in Signers |-> Share(i)]
<1>1. Step("aggregate", files, contents) /\ runs' = runs
  BY DEF Aggregate
<1>2. At("aggregate")
  BY <1>1 DEF Step
<1>3. /\ program # <<>> /\ Instruction \in Instructions /\ Instruction.op = "aggregate"
      /\ S \in Sets /\ HasNodeVss(S, runs) /\ Ours # Torn
  BY <1>2, ThisStep DEF DiskInv, Ready, S
<1>4. \A i \in Signers : contents[Share(i)].run = runs /\ contents[Share(i)] # Torn
  BY <1>3 DEF Ours
<1> HIDE DEF contents
<1>5. Effect(own, contents)
  <2> DOMAIN disk = Sets
    BY DEF DiskInv, Scripted
  <2>1. {files[i] : i \in DOMAIN files} = own
    OBVIOUS
  <2>2. Len(files) \in Nat /\ DOMAIN files = 1..Len(files)
    BY SignerFiles
  <2> HIDE DEF files, own
  <2>3. Effect({files[i] : i \in DOMAIN files}, contents)
    BY <1>1, <1>3, <2>2, StepEffect
  <2> QED
    BY <2>1, <2>3
<1>6. SetsCoherent' /\ Aggpubkey \notin DOMAIN disk'[S]
  <2>1. Aggpubkey \notin own
    BY DEF Aggpubkey, Share
  <2> HIDE DEF own
  <2> QED
    BY <1>2, <1>5, <2>1, GenerateStep DEF GenerateOps
<1>7. ASSUME program' = Tail(program), program' # <<>>,
             NEW y \in Instructions, y.op \notin Starters, Precedes(Instruction, y)
      PROVE  Ready(y)'
  <2>1. y.set = S /\ y.op = "aggpubkey"
    BY <1>3, <1>7, Followers DEF S
  <2>2. \A f \in own : f \in DOMAIN disk'[S] /\ disk'[S][f] = contents[f]
    BY <1>5, <1>7 DEF Effect
  <2>3. /\ Pubkeys \notin own
        /\ \A i \in Signers : Key(i) \notin own /\ PublicKey(i) \notin own
                              /\ NodeVss(i) \notin own /\ Share(i) \in own
    BY DEF Key, PublicKey, Pubkeys, NodeVss, Share
  <2> HIDE DEF own
  <2>4. HasPubkeys(y.set)' /\ disk'[S][Pubkeys] = disk[S][Pubkeys]
    BY <1>3, <1>5, <2>1, <2>3, KeepsPubkeys DEF HasNodeVss
  <2>5. \A i \in Signers : NodeVss(i) \in DOMAIN disk'[S]
                           /\ disk'[S][NodeVss(i)] = disk[S][NodeVss(i)]
    BY <1>3, <1>5, <2>3 DEF Effect, HasNodeVss, Readable
  <2>6. HasNodeVss(y.set, runs)'
    BY <1>1, <1>3, <2>1, <2>4, <2>5 DEF HasNodeVss, Readable
  <2>7. HasShares(y.set, runs)'
    BY <1>1, <1>4, <2>1, <2>2, <2>3, <2>6 DEF HasShares, Readable
  <2> QED
    BY <1>6, <2>1, <2>7 DEF Ready, GenerateOps
<1>8. KeepsKeyOfB
  <2>1. Aggpubkey \notin own
    BY DEF Aggpubkey, Share
  <2> HIDE DEF own
  <2> QED
    BY <1>3, <1>5, <2>1, OthersKeepTheKey
<1> QED
  BY <1>1, <1>3, <1>5, <1>6, <1>7, <1>8, ScriptGoesOn DEF DiskInv, Effect

LEMMA WriteAggpubkeyFileStep == DiskInv /\ WriteAggpubkeyFile => DiskInv'
<1> SUFFICES ASSUME DiskInv, WriteAggpubkeyFile PROVE DiskInv'
  OBVIOUS
<1> DEFINE own == {Aggpubkey}
           contents == [f \in {Aggpubkey} |-> Ours]
<1>1. Step("aggpubkey", <<Aggpubkey>>, contents) /\ runs' = runs
  BY DEF WriteAggpubkeyFile
<1>2. At("aggpubkey")
  BY <1>1 DEF Step
<1>3. /\ program # <<>> /\ Instruction \in Instructions /\ Instruction.op = "aggpubkey"
      /\ S \in Sets /\ HasShares(S, runs) /\ Aggpubkey \notin DOMAIN disk[S]
      /\ runs > 0 /\ Ours # Torn
  BY <1>2, ThisStep DEF DiskInv, Ready, S, GenerateOps
<1>4. contents[Aggpubkey] = [run |-> runs] /\ contents[Aggpubkey] # Torn
  BY <1>3 DEF Ours
<1> HIDE DEF contents
<1>5. Effect(own, contents)
  <2> DOMAIN disk = Sets
    BY DEF DiskInv, Scripted
  <2> DEFINE files == <<Aggpubkey>>
  <2>1. Len(files) \in Nat /\ DOMAIN files = 1..Len(files)
        /\ {files[i] : i \in DOMAIN files} = own
    OBVIOUS
  <2> HIDE DEF files, own
  <2>2. Effect({files[i] : i \in DOMAIN files}, contents)
    BY <1>1, <1>3, <2>1, StepEffect DEF files
  <2> QED
    BY <2>1, <2>2
<1>6. /\ Pubkeys \notin own
      /\ \A i \in Signers : Key(i) \notin own /\ PublicKey(i) \notin own
                            /\ NodeVss(i) \notin own /\ Share(i) \notin own
  BY DEF Aggpubkey, Key, PublicKey, Pubkeys, NodeVss, Share
<1> HIDE DEF own
<1>7. ASSUME NEW t \in Sets PROVE Coherent(t)'
  <2>1. CASE t = S
    <3>1. HasPubkeys(t)' /\ disk'[t][Pubkeys] = disk[t][Pubkeys]
      BY <1>3, <1>5, <1>6, <2>1, KeepsPubkeys DEF HasShares, HasNodeVss
    <3>2. \A i \in Signers :
            /\ NodeVss(i) \in DOMAIN disk'[t] /\ disk'[t][NodeVss(i)] = disk[t][NodeVss(i)]
            /\ Share(i) \in DOMAIN disk'[t] /\ disk'[t][Share(i)] = disk[t][Share(i)]
      BY <1>3, <1>5, <1>6, <2>1 DEF Effect, HasShares, HasNodeVss, Readable
    <3>3. HasNodeVss(t, runs)'
      BY <1>1, <1>3, <2>1, <3>1, <3>2 DEF HasShares, HasNodeVss, Readable
    <3>4. HasShares(t, runs)'
      BY <1>1, <1>3, <2>1, <3>2, <3>3 DEF HasShares, Readable
    <3>5. Exists(t, {Aggpubkey})' => disk'[t][Aggpubkey] \in {[run |-> runs], Torn}
      BY <1>3, <1>4, <1>5, <2>1 DEF Effect, Exists, own
    <3>6. runs \in Nat \ {0}
      BY <1>3 DEF DiskInv, Scripted
    <3>7. Exists(t, {Aggpubkey})' =>
            HasShares(t, runs)' /\ disk'[t][Aggpubkey] \in {[run |-> runs], Torn}
      BY <3>4, <3>5
    <3>8. \A r : r = runs => (HasShares(t, r)' <=> HasShares(t, runs)')
      BY <1>1 DEF HasShares, HasNodeVss
    <3> QED
      BY <3>6, <3>7, <3>8, <1>1 DEF Coherent
  <2>2. CASE t # S
    <3> disk'[t] = disk[t]
      BY <1>5, <2>2 DEF Effect
    <3> QED
      BY SameSetFiles DEF DiskInv, SetsCoherent
  <2> QED
    BY <2>1, <2>2
<1>8. ASSUME NEW y \in Instructions, y.op \notin Starters, Precedes(Instruction, y)
      PROVE  Ready(y)'
  BY <1>3, <1>8, Followers
<1>9. program' = Tail(program) /\ program' # <<>> => KeepsKeyOfB
  <2> SUFFICES ASSUME program' = Tail(program), program' # <<>>, HasKeyOfB \/ S = "b"
               PROVE  HasKeyOfB'
    BY DEF KeepsKeyOfB
  <2>1. CASE S = "b"
    BY <1>4, <1>5, <2>1 DEF Effect, HasKeyOfB, Readable, Torn, own
  <2>2. CASE S # "b"
    BY <1>5, <2>2 DEF Effect, HasKeyOfB, Readable, Torn, Sets
  <2> QED
    BY <2>1, <2>2
<1> QED
  BY <1>1, <1>3, <1>5, <1>7, <1>8, <1>9, ScriptGoesOn DEF DiskInv, Effect, SetsCoherent

\* Signing writes nothing of what a ceremony makes.
LEMMA SigningKeepsSets ==
  ASSUME DiskInv, S \in Sets, NEW own, NEW contents, Effect(own, contents),
         own \cap SetFiles = {}
  PROVE  SetsCoherent'
<1> SUFFICES ASSUME NEW t \in Sets PROVE Coherent(t)'
  BY DEF SetsCoherent
<1>1. /\ \A f \in SetFiles : f \in DOMAIN disk'[t] <=> f \in DOMAIN disk[t]
      /\ \A f \in SetFiles : f \in DOMAIN disk[t] => disk'[t][f] = disk[t][f]
  <2>1. CASE t = S
    BY <2>1 DEF Effect
  <2>2. CASE t # S
    BY <2>2 DEF Effect
  <2> QED
    BY <2>1, <2>2
<1> QED
  BY <1>1, SameSetFiles DEF DiskInv, SetsCoherent

LEMMA CreateBlockVssStep == DiskInv /\ CreateBlockVss => DiskInv'
<1> SUFFICES ASSUME DiskInv, CreateBlockVss PROVE DiskInv'
  OBVIOUS
<1> DEFINE own == {BlockVss(R, i) : i \in Signers}
           files == [i \in Signers |-> BlockVss(R, i)]
<1>1. Step("createblockvss", files, FreshBlockVss) /\ runs' = runs
  BY DEF CreateBlockVss
<1>2. At("createblockvss")
  BY <1>1 DEF Step
<1>3. /\ program # <<>> /\ Instruction \in Instructions /\ Instruction.op = "createblockvss"
      /\ S \in Sets
  BY <1>2, ThisStep DEF DiskInv
<1>4. \A i \in Signers : FreshBlockVss[BlockVss(R, i)].run = runs
  BY DEF FreshBlockVss, BlockVssFiles
<1>5. Effect(own, FreshBlockVss)
  <2> DOMAIN disk = Sets
    BY DEF DiskInv, Scripted
  <2>1. {files[i] : i \in DOMAIN files} = own
    OBVIOUS
  <2>2. Len(files) \in Nat /\ DOMAIN files = 1..Len(files)
    BY SignerFiles
  <2> HIDE DEF files, own
  <2>3. Effect({files[i] : i \in DOMAIN files}, FreshBlockVss)
    BY <1>1, <1>3, <2>2, StepEffect
  <2> QED
    BY <2>1, <2>3
<1>6. SetsCoherent'
  <2>1. own \cap SetFiles = {}
    BY DEF SetFiles, BlockVss, Pubkeys, Aggpubkey, Key, PublicKey, NodeVss, Share
  <2> HIDE DEF own
  <2> QED
    BY <1>3, <1>5, <2>1, SigningKeepsSets
<1>7. ASSUME program' = Tail(program), program' # <<>>,
             NEW y \in Instructions, y.op \notin Starters, Precedes(Instruction, y)
      PROVE  Ready(y)'
  <2>1. y.set = S /\ y.round = R /\ y.op = "sign"
    BY <1>3, <1>7, Followers DEF S, R
  <2>2. \A f \in own : f \in DOMAIN disk'[S] /\ disk'[S][f] = FreshBlockVss[f]
    BY <1>5, <1>7 DEF Effect
  <2>3. HasBlockVss(y.set, y.round)'
    BY <1>1, <1>4, <2>1, <2>2 DEF HasBlockVss
  <2> QED
    BY <2>1, <2>3 DEF Ready, GenerateOps
<1>8. KeepsKeyOfB
  <2>1. Aggpubkey \notin own
    BY DEF Aggpubkey, BlockVss
  <2> HIDE DEF own
  <2> QED
    BY <1>3, <1>5, <2>1, OthersKeepTheKey
<1> QED
  BY <1>1, <1>3, <1>5, <1>6, <1>7, <1>8, ScriptGoesOn DEF DiskInv, Effect

LEMMA SignStep == DiskInv /\ Sign => DiskInv'
<1> SUFFICES ASSUME DiskInv, Sign PROVE DiskInv'
  OBVIOUS
<1> DEFINE own == {LocalSig(R, i) : i \in Signers}
           contents == [f \in {LocalSig(R, j) : j \in Signers} |-> LocalSignature(f[2])]
<1>1. /\ Step("sign", LocalSigs, contents) /\ runs' = runs /\ payload' = payload
      /\ \A i \in Signers : Share(i) \in DOMAIN disk[S]
  BY DEF Sign, SignReads, Readable
<1>2. At("sign")
  BY <1>1 DEF Step
<1>3. /\ program # <<>> /\ Instruction \in Instructions /\ Instruction.op = "sign"
      /\ S \in Sets /\ HasBlockVss(S, R)
  BY <1>2, ThisStep DEF DiskInv, Ready, S, R
<1>4. \A j \in Signers : contents[LocalSig(R, j)] = LocalSignature(j)
  <2>1. \A j \in Signers : LocalSig(R, j)[2] = j
    BY DEF LocalSig
  <2> QED
    BY <2>1
<1> HIDE DEF contents
<1>5. Effect(own, contents)
  <2> DOMAIN disk = Sets
    BY DEF DiskInv, Scripted
  <2>1. {LocalSigs[i] : i \in DOMAIN LocalSigs} = own
    BY DEF LocalSigs
  <2>2. Len(LocalSigs) \in Nat /\ DOMAIN LocalSigs = 1..Len(LocalSigs)
    BY SignerFiles DEF LocalSigs
  <2> HIDE DEF own
  <2>3. Effect({LocalSigs[i] : i \in DOMAIN LocalSigs}, contents)
    BY <1>1, <1>3, <2>2, StepEffect
  <2> QED
    BY <2>1, <2>3
<1>6. SetsCoherent'
  <2>1. own \cap SetFiles = {}
    BY DEF SetFiles, LocalSig, Pubkeys, Aggpubkey, Key, PublicKey, NodeVss, Share
  <2> HIDE DEF own
  <2> QED
    BY <1>3, <1>5, <2>1, SigningKeepsSets
<1>7. ASSUME program' = Tail(program), program' # <<>>,
             NEW y \in Instructions, y.op \notin Starters, Precedes(Instruction, y)
      PROVE  Ready(y)'
  <2>1. y.set = S /\ y.round = R /\ y.op = "computesig"
    BY <1>3, <1>7, Followers DEF S, R
  <2>2. \A f \in own : f \in DOMAIN disk'[S] /\ disk'[S][f] = contents[f]
    BY <1>5, <1>7 DEF Effect
  <2>3. \A i \in Signers : Share(i) \notin own /\ BlockVss(R, i) \notin own
                           /\ LocalSig(R, i) \in own
    BY DEF Share, BlockVss, LocalSig
  <2> HIDE DEF own
  <2>4. \A i \in Signers : BlockVss(R, i) \in DOMAIN disk'[S]
          /\ disk'[S][BlockVss(R, i)] = disk[S][BlockVss(R, i)]
          /\ disk'[S][Share(i)] = disk[S][Share(i)]
    BY <1>1, <1>3, <1>5, <2>3 DEF Effect, HasBlockVss
  <2>5. HasBlockVss(y.set, y.round)'
    BY <1>1, <1>3, <2>1, <2>4 DEF HasBlockVss
  <2>6. HasLocalSigs(y.set, y.round)'
    <3> SUFFICES ASSUME NEW j \in Signers
                 PROVE  LET l == disk'[S][LocalSig(R, j)] IN
                        /\ LocalSig(R, j) \in DOMAIN disk'[S]
                        /\ l.signs = payload' /\ l.set = S /\ l.signer = j
                        /\ l.share = disk'[S][Share(j)].run
                        /\ l.nonces = [i \in Signers |-> disk'[S][BlockVss(R, i)].run]
      BY <2>1 DEF HasLocalSigs
    <3>1. LocalSig(R, j) \in DOMAIN disk'[S]
          /\ disk'[S][LocalSig(R, j)] = LocalSignature(j)
      BY <1>4, <2>2, <2>3
    <3>2. /\ LocalSignature(j).signs = payload /\ LocalSignature(j).set = S
          /\ LocalSignature(j).signer = j
          /\ LocalSignature(j).share = disk[S][Share(j)].run
          /\ LocalSignature(j).nonces = [i \in Signers |-> disk[S][BlockVss(R, i)].run]
      BY DEF LocalSignature
    <3>3. [i \in Signers |-> disk[S][BlockVss(R, i)].run] =
            [i \in Signers |-> disk'[S][BlockVss(R, i)].run]
      BY <2>4
    <3> QED
      BY <1>1, <2>4, <3>1, <3>2, <3>3
  <2> QED
    BY <2>1, <2>5, <2>6 DEF Ready, GenerateOps
<1>8. KeepsKeyOfB
  <2>1. Aggpubkey \notin own
    BY DEF Aggpubkey, LocalSig
  <2>2. Readable(S, {Aggpubkey})
    BY DEF Sign, SignReads, PublicFiles, Readable
  <2> HIDE DEF own
  <2> QED
    BY <1>3, <1>5, <2>1, <2>2, OthersKeepTheKey
<1> QED
  BY <1>1, <1>3, <1>5, <1>6, <1>7, <1>8, ScriptGoesOn DEF DiskInv, Effect

\* Steps that leave the disk as it is leave the sets as they are.
LEMMA SameDisk == disk' = disk /\ SetsCoherent => SetsCoherent'
BY DEF SetsCoherent, Coherent, Exists, HasShares, HasNodeVss, HasPubkeys, HasKeys, Readable

LEMMA ReadingStep == DiskInv /\ (ComputeSig \/ Assemble \/ Raises) => DiskInv'
<1> SUFFICES ASSUME DiskInv, ComputeSig \/ Assemble \/ Raises PROVE DiskInv'
  OBVIOUS
<1>1. /\ disk' = disk /\ runs' = runs /\ program # <<>>
      /\ (program' = Tail(program) /\ At("computesig")) \/ program' = <<>>
  BY DEF ComputeSig, Assemble, Raises, At, Continue
<1>2. ASSUME At("computesig"), NEW y \in Instructions,
             y.op \notin Starters, Precedes(Instruction, y)
      PROVE  Ready(y)'
  <2> Instruction \in Instructions /\ Instruction.op = "computesig"
    BY <1>2, ThisStep DEF DiskInv
  <2> QED
    BY <1>2, Followers
<1>3. Scripted'
  <2> DOMAIN disk' = Sets
    BY <1>1 DEF DiskInv, Scripted
  <2> At("computesig") => KeepsKeyOfB
    BY <1>1 DEF KeepsKeyOfB, HasKeyOfB, Readable, At
  <2> QED
    BY <1>1, <1>2, ScriptGoesOn DEF DiskInv
<1> QED
  BY <1>1, <1>3, SameDisk DEF DiskInv

LEMMA RemovesSetStep ==
  ASSUME DiskInv, NEW s \in Sets, RemovesSet(s)
  PROVE  DiskInv'
<1>1. /\ program' = <<>> /\ runs' = runs /\ DOMAIN disk' = Sets
      /\ disk'[s] = <<>> /\ \A t \in Sets \ {s} : disk'[t] = disk[t]
  BY DEF RemovesSet, DiskInv, Scripted
<1>2. Scripted'
  <2> Linked(<<>>)
    BY DEF Linked
  <2> QED
    BY <1>1 DEF Scripted, DiskInv, KeyInHand, EndsInB
<1>3. ASSUME NEW t \in Sets PROVE Coherent(t)'
  <2>1. CASE t = s
    <3> Aggpubkey \notin DOMAIN disk'[t]
      BY <1>1, <2>1
    <3> QED
      BY DEF Coherent, Exists
  <2>2. CASE t # s
    BY <1>1, <2>2, SameSetFiles DEF DiskInv, SetsCoherent
  <2> QED
    BY <2>1, <2>2
<1> QED
  BY <1>2, <1>3 DEF DiskInv, SetsCoherent

\* A script begins with a step that relies on no other.
LEMMA ScriptBegins ==
  ASSUME DiskInv, NEW script, NEW signs, Starts(script, signs),
         Linked(script), script # <<>>, NEW x, x = script[1],
         x.op \in Starters,
         x.op = "createkey" =>
           /\ Aggpubkey \notin DOMAIN disk[x.set]
           /\ x.set = "b" => Exists("a", {Aggpubkey}),
         EndsInB(script) => KeyAhead(x)
  PROVE  DiskInv'
<1>1. disk' = disk /\ runs' = runs + 1 /\ program' = script
  BY DEF Starts
<1>2. Instruction' = x
  BY <1>1 DEF Instruction, Linked
<1>3. Ready(x)'
  BY <1>1 DEF Ready, Starters, GenerateOps, Exists
<1>4. Scripted'
  BY <1>1, <1>2, <1>3 DEF Scripted, DiskInv, KeyInHand
<1> QED
  BY <1>1, <1>4, SameDisk DEF DiskInv

Start ==
  \/ GenerateDevSecrets \/ SignGenesis \/ AssembleSignerConfigs
  \/ SimulateFederationChange \/ SimulateMaxBlockSizeChange

LEMMA StartStep == DiskInv /\ Start => DiskInv'
<1> SUFFICES ASSUME DiskInv, Start PROVE DiskInv'
  OBVIOUS
<1> USE DEF Sets, Rounds
<1>1. \A s \in Sets : Pubkeys \notin DOMAIN disk[s] => Aggpubkey \notin DOMAIN disk[s]
  BY DEF DiskInv, SetsCoherent, Coherent, Exists, HasShares, HasNodeVss, HasPubkeys, Readable
<1>2. CASE GenerateDevSecrets
  <2>1. Op("createkey", "a").op = "createkey" /\ Op("createkey", "a").set = "a"
    BY DEF Op
  <2>2. ~EndsInB(Generate("a"))
    BY GenerateLinked DEF EndsInB, Op
  <2> QED
    BY <1>1, <1>2, <2>1, <2>2, GenerateLinked, ScriptBegins DEF GenerateDevSecrets, Starters
<1>3. CASE SignGenesis
  <2>1. PICK v \in Values : Starts(SignOff("a", "raw"), <<"block", v>>)
    BY <1>3 DEF SignGenesis
  <2> DEFINE x == [op |-> "createblockvss", set |-> "a", round |-> "raw"]
  <2>2. x.op = "createblockvss" /\ x = SignOff("a", "raw")[1]
    BY SignOffLinked
  <2>3. ~EndsInB(SignOff("a", "raw"))
    BY SignOffLinked DEF EndsInB
  <2> HIDE DEF x
  <2> QED
    BY <2>1, <2>2, <2>3, SignOffLinked, ScriptBegins DEF Starters
<1>4. CASE AssembleSignerConfigs
  <2>1. Op("assemble", "a").op = "assemble" /\ ~EndsInB(<<Op("assemble", "a")>>)
    BY DEF Op, EndsInB
  <2> QED
    BY <1>4, <2>1, AssembleLinked, ScriptBegins DEF AssembleSignerConfigs, Starters
<1>5. CASE SimulateFederationChange
  <2> DEFINE g == Generate("b")
             o == SignOff("a", "xfield-signoff")
             c == <<Op("assemble", "b")>>
             x == Op("createkey", "b")
  <2>1. Linked(g \o o) /\ (g \o o) # <<>> /\ (g \o o)[1] = x
        /\ (g \o o)[Len(g \o o)] = o[Len(o)]
    <3>1. Precedes(g[Len(g)], o[1])
      BY GenerateLinked, SignOffLinked DEF Precedes, Starters, Op
    <3> HIDE DEF g, o
    <3> QED
      BY <3>1, GenerateLinked, SignOffLinked, LinkedConcat DEF g, o, x
  <2>2. Linked((g \o o) \o c) /\ ((g \o o) \o c) # <<>> /\ ((g \o o) \o c)[1] = x
    <3>1. o[Len(o)].op = "computesig" /\ c[1].op = "assemble"
      BY SignOffLinked, AssembleLinked DEF Op, Rounds
    <3> HIDE DEF g, o, c
    <3>2. Precedes((g \o o)[Len(g \o o)], c[1])
      BY <2>1, <3>1 DEF Precedes, Starters
    <3> QED
      BY <2>1, <3>2, AssembleLinked, LinkedConcat DEF c
  <2>3. Starts((g \o o) \o c, <<"aggpubkey", runs + 1>>)
    BY <1>5 DEF SimulateFederationChange
  <2>4. x.op = "createkey" /\ x.set = "b" /\ Aggpubkey \notin DOMAIN disk["b"]
        /\ Exists("a", {Aggpubkey}) /\ KeyAhead(x)
    BY <1>1, <1>5 DEF SimulateFederationChange, Op, KeyAhead, GenerateOps
  <2> HIDE DEF g, o, c, x
  <2> QED
    BY <2>2, <2>3, <2>4, ScriptBegins DEF Starters
<1>6. CASE SimulateMaxBlockSizeChange
  <2> DEFINE o == SignOff("b", "xfield-signoff")
             c == <<Op("assemble", "b")>>
             x == [op |-> "createblockvss", set |-> "b", round |-> "xfield-signoff"]
  <2>1. PICK v \in Values : Starts(o \o c, <<"size", v>>)
    BY <1>6 DEF SimulateMaxBlockSizeChange
  <2>2. Linked(o \o c) /\ (o \o c) # <<>> /\ (o \o c)[1] = x
    <3>1. o[Len(o)].op = "computesig" /\ c[1].op = "assemble"
      BY SignOffLinked, AssembleLinked DEF Op, Rounds
    <3> HIDE DEF o, c
    <3>2. Precedes(o[Len(o)], c[1])
      BY <3>1 DEF Precedes, Starters
    <3> QED
      BY <3>2, SignOffLinked, AssembleLinked, LinkedConcat DEF o, c, x
  <2>3. x.op = "createblockvss" /\ KeyAhead(x)
    BY DEF KeyAhead
  <2> HIDE DEF o, c, x
  <2> QED
    BY <2>1, <2>2, <2>3, ScriptBegins DEF Starters
<1> QED
  BY <1>2, <1>3, <1>4, <1>5, <1>6 DEF Start

\* The disk and the script, whatever a run does.
LEMMA DiskStep == DiskInv /\ [Next]_vars => DiskInv'
<1> SUFFICES ASSUME DiskInv, [Next]_vars PROVE DiskInv'
  OBVIOUS
<1>1. CASE Start
  BY <1>1, StartStep
<1>2. CASE \E s \in Sets : RemovesSet(s)
  BY <1>2, RemovesSetStep
<1>3. CASE CreateKeys
  BY <1>3, CreateKeysStep
<1>4. CASE WritePubkeysFile
  BY <1>4, WritePubkeysFileStep
<1>5. CASE CreateNodeVss
  BY <1>5, CreateNodeVssStep
<1>6. CASE Aggregate
  BY <1>6, AggregateStep
<1>7. CASE WriteAggpubkeyFile
  BY <1>7, WriteAggpubkeyFileStep
<1>8. CASE CreateBlockVss
  BY <1>8, CreateBlockVssStep
<1>9. CASE Sign
  BY <1>9, SignStep
<1>10. CASE ComputeSig \/ Assemble \/ Raises
  BY <1>10, ReadingStep
<1>11. CASE UNCHANGED vars
  <2> disk' = disk /\ runs' = runs /\ program' = program /\ payload' = payload
    BY <1>11 DEF vars
  <2>1. SetsCoherent'
    BY SameDisk DEF DiskInv
  <2>2. Ready(Instruction) => Ready(Instruction)'
    BY ZenonT(30) DEF Ready, Instruction, HasKeys, HasPubkeys, HasNodeVss, HasShares,
       HasBlockVss, HasLocalSigs, Readable, Exists
  <2>3. KeyInHand'
    BY DEF DiskInv, Scripted, KeyInHand, HasKeyOfB, Instruction, Readable
  <2> QED
    BY <2>1, <2>2, <2>3 DEF DiskInv, Scripted
<1> QED
  BY <1>1, <1>2, <1>3, <1>4, <1>5, <1>6, <1>7, <1>8, <1>9, <1>10, <1>11 DEF Next, Start

-----------------------------------------------------------------------------
(* What is made of the files.                                              *)

\* In a set with a key one run made the shares and, unless it is empty, the key.
LEMMA SetsEntry ==
  ASSUME DiskInv, NEW s \in Sets, Exists(s, {Aggpubkey})
  PROVE  \E r \in Nat \ {0} :
           /\ {disk[s][NodeVss(i)].run : i \in Signers} = {r}
           /\ \A i \in Signers : disk[s][Share(i)].run = r
           /\ disk[s][Aggpubkey].run \in {r, Torn.run}
           /\ Readable(s, {Aggpubkey}) => disk[s][Aggpubkey].run = r
<1>1. 1 \in Signers
  BY CeremonyAssumption DEF Signers
<1>2. PICK r \in Nat \ {0} : HasShares(s, r) /\ disk[s][Aggpubkey] \in {[run |-> r], Torn}
  BY DEF DiskInv, SetsCoherent, Coherent
<1>3. /\ disk[s][Aggpubkey].run \in {r, Torn.run}
      /\ Readable(s, {Aggpubkey}) => disk[s][Aggpubkey].run = r
  BY <1>2 DEF Readable
<1> QED
  BY <1>1, <1>2, <1>3 DEF HasShares, HasNodeVss

\* The assembly of set-b is the end of a script that has had the key in hand.
LEMMA AssemblesWithItsKey ==
  ASSUME DiskInv, At("assemble"), S = "b"
  PROVE  HasKeyOfB
<1>1. Linked(program) /\ program # <<>> /\ Instruction.op = "assemble"
  BY DEF DiskInv, Scripted, At
<1>2. program \in Seq(Instructions) /\ Instruction = program[1]
  BY <1>1 DEF Linked, Instruction
<1>3. ASSUME Len(program) # 1 PROVE FALSE
  <2>1. 1 \in 1..Len(program) - 1 /\ program[2] \in Instructions
    <3>1. Len(program) \in Nat /\ Len(program) # 0 /\ Len(program) # 1
      BY <1>1, <1>2, <1>3
    <3>2. 1 \in 1..Len(program) - 1 /\ 2 \in 1..Len(program)
      BY <3>1
    <3> QED
      BY <1>2, <3>2
  <2>2. Precedes(program[1], program[2])
    BY <1>1, <2>1 DEF Linked
  <2> QED
    BY <1>1, <1>2, <2>1, <2>2 DEF Precedes, Prior, Starters, Instructions, GenerateOps, SignOps
<1>4. EndsInB(program)
  BY <1>1, <1>2, <1>3 DEF EndsInB, S
<1> QED
  BY <1>1, <1>4 DEF DiskInv, Scripted, KeyInHand, KeyAhead, GenerateOps

LEMMA ConfigsStep == DiskInv /\ ConfigsCoherent /\ [Next]_vars => ConfigsCoherent'
<1> SUFFICES ASSUME DiskInv, ConfigsCoherent, [Next]_vars PROVE ConfigsCoherent'
  OBVIOUS
<1>1. CASE Assemble
  <2>1. PICK k \in Signers :
          configs' = Overlay([x \in {<<S, i>> : i \in 1..k} |-> Entry(S)], configs)
    BY <1>1 DEF Assemble
  <2>2. S \in Sets /\ Exists(S, {Aggpubkey}) /\ At("assemble")
    BY <1>1, ThisStep DEF Assemble, DiskInv
  <2>3. PICK r \in Nat \ {0} :
          /\ Entry(S).nodevss = {r}
          /\ Entry(S).key \in (IF S = "a" THEN {r, Torn.run} ELSE {r})
    <3>1. S # "a" => Readable(S, {Aggpubkey})
      BY <2>2, AssemblesWithItsKey DEF Sets, HasKeyOfB
    <3> QED
      BY <2>2, <3>1, SetsEntry DEF Entry
  <2> DEFINE new == [x \in {<<S, i>> : i \in 1..k} |-> Entry(S)]
  <2>4. \A x \in DOMAIN new : new[x] = Entry(S) /\ x[1] = S
    OBVIOUS
  <2>5. configs' = Overlay(new, configs)
    BY <2>1
  <2> HIDE DEF new
  <2>6. ASSUME NEW x \in DOMAIN configs'
        PROVE  \E q \in Nat \ {0} :
                 /\ configs'[x].nodevss = {q}
                 /\ configs'[x].key \in (IF x[1] = "a" THEN {q, Torn.run} ELSE {q})
    <3>1. CASE x \in DOMAIN new
      <4> configs'[x] = Entry(S) /\ x[1] = S
        BY <2>4, <2>5, <3>1 DEF Overlay
      <4> QED
        BY <2>3
    <3>2. CASE x \notin DOMAIN new
      <4> x \in DOMAIN configs /\ configs'[x] = configs[x]
        BY <2>5, <2>6, <3>2 DEF Overlay
      <4> QED
        BY DEF ConfigsCoherent
    <3> QED
      BY <3>1, <3>2
  <2> QED
    BY <2>6 DEF ConfigsCoherent
<1>2. CASE UNCHANGED configs
  BY <1>2 DEF ConfigsCoherent
<1>3. [Next]_vars => Assemble \/ UNCHANGED configs
  BY DEF Next, vars, GenerateDevSecrets, SignGenesis, AssembleSignerConfigs,
     SimulateFederationChange, SimulateMaxBlockSizeChange, Starts, RemovesSet, CreateKeys,
     WritePubkeysFile, CreateNodeVss, Aggregate, WriteAggpubkeyFile, CreateBlockVss, Sign,
     ComputeSig, Raises
<1> QED
  BY <1>1, <1>2, <1>3

LEMMA NoncesStep == DiskInv /\ OwnNonces /\ [Next]_vars => OwnNonces'
<1> SUFFICES ASSUME DiskInv, OwnNonces, [Next]_vars PROVE OwnNonces'
  OBVIOUS
<1> runs \in Nat
  BY DEF DiskInv, Scripted
<1>1. CASE Sign
  <2>1. runs' = runs /\ payload' = payload /\ At("sign")
        /\ sigs' = sigs \cup {LocalSignature(j) : j \in Signers}
    BY <1>1 DEF Sign, SignReads
  <2>2. HasBlockVss(S, R)
    BY <2>1, ThisStep DEF DiskInv, Ready, S, R
  <2>3. ASSUME NEW j \in Signers
        PROVE  /\ LocalSignature(j).run = runs /\ LocalSignature(j).signs = payload
               /\ \A i \in Signers : LocalSignature(j).nonces[i] = runs
    BY <2>2 DEF LocalSignature, HasBlockVss
  <2>4. ASSUME NEW x \in sigs'
        PROVE  /\ x.run \in Nat /\ x.run <= runs
               /\ x.run = runs => x.signs = payload
               /\ \A i \in Signers : x.nonces[i] = x.run
    <3>1. CASE x \in sigs
      BY <3>1 DEF OwnNonces
    <3>2. CASE x \in {LocalSignature(j) : j \in Signers}
      <4> PICK j \in Signers : x = LocalSignature(j)
        BY <3>2
      <4> QED
        BY <2>3
    <3> QED
      BY <2>1, <3>1, <3>2
  <2>5. ASSUME NEW x \in sigs', NEW y \in sigs', x.run = y.run PROVE x.signs = y.signs
    <3>1. CASE x \in sigs /\ y \in sigs
      BY <2>5, <3>1 DEF OwnNonces
    <3>2. CASE x \notin sigs \/ y \notin sigs
      <4> x.run = runs
        BY <2>1, <2>3, <2>5, <3>2
      <4> QED
        BY <2>4, <2>5
    <3> QED
      BY <3>1, <3>2
  <2> QED
    BY <2>1, <2>4, <2>5 DEF OwnNonces
<1>2. CASE Start
  <2>1. sigs' = sigs /\ runs' = runs + 1
    BY <1>2 DEF Start, GenerateDevSecrets, SignGenesis, AssembleSignerConfigs,
       SimulateFederationChange, SimulateMaxBlockSizeChange, Starts
  <2>2. \A x \in sigs : x.run # runs + 1 /\ x.run <= runs + 1
    BY DEF OwnNonces
  <2> QED
    BY <2>1, <2>2 DEF OwnNonces
<1>3. CASE UNCHANGED <<sigs, runs, payload>>
  BY <1>3 DEF OwnNonces
<1>4. [Next]_vars => Sign \/ Start \/ UNCHANGED <<sigs, runs, payload>>
  BY DEF Next, vars, Start, RemovesSet, CreateKeys, WritePubkeysFile, CreateNodeVss,
     Aggregate, WriteAggpubkeyFile, CreateBlockVss, ComputeSig, Assemble, Raises
<1> QED
  BY <1>1, <1>2, <1>3, <1>4

LEMMA CombinesStep == DiskInv /\ CombinesOneRound /\ [Next]_vars => CombinesOneRound'
<1> SUFFICES ASSUME DiskInv, CombinesOneRound, [Next]_vars PROVE CombinesOneRound'
  OBVIOUS
<1>1. CASE ComputeSig
  <2> DEFINE c == [set |-> S, signs |-> payload, key |-> disk[S][Aggpubkey].run,
                   locals |-> {disk[S][LocalSig(R, i)] : i \in Signers},
                   nonces |-> [i \in Signers |-> disk[S][BlockVss(R, i)].run],
                   nodevss |-> {disk[S][NodeVss(i)].run : i \in Signers}]
  <2>1. /\ combined' = combined \cup {c} /\ At("computesig")
        /\ Readable(S, {Aggpubkey}) /\ Exists(S, {Aggpubkey})
    BY <1>1 DEF ComputeSig, PublicFiles, Readable, Exists
  <2>2. S \in Sets /\ HasLocalSigs(S, R)
    BY <2>1, ThisStep DEF DiskInv, Ready, S, R
  <2>3. c.nodevss = {c.key} /\ \A i \in Signers : disk[S][Share(i)].run = c.key
    BY <2>1, <2>2, SetsEntry
  <2>4. \A j \in Signers :
          LET l == disk[S][LocalSig(R, j)] IN
          /\ l.signs = c.signs /\ l.set = c.set /\ l.signer = j
          /\ l.share = c.key /\ l.nonces = c.nonces
    BY <2>2, <2>3 DEF HasLocalSigs
  <2>5. c.locals = {disk[S][LocalSig(R, i)] : i \in Signers}
    OBVIOUS
  <2> HIDE DEF c
  <2>6. {l.signer : l \in c.locals} = Signers
    BY <2>4, <2>5
  <2>7. \A l \in c.locals : /\ l.signs = c.signs /\ l.set = c.set
                            /\ l.nonces = c.nonces /\ l.share = c.key
    BY <2>4, <2>5
  <2> QED
    BY <2>1, <2>3, <2>6, <2>7 DEF CombinesOneRound
<1>2. CASE UNCHANGED combined
  BY <1>2 DEF CombinesOneRound
<1>3. [Next]_vars => ComputeSig \/ UNCHANGED combined
  BY DEF Next, vars, GenerateDevSecrets, SignGenesis, AssembleSignerConfigs,
     SimulateFederationChange, SimulateMaxBlockSizeChange, Starts, RemovesSet, CreateKeys,
     WritePubkeysFile, CreateNodeVss, Aggregate, WriteAggpubkeyFile, CreateBlockVss, Sign,
     Assemble, Raises
<1> QED
  BY <1>1, <1>2, <1>3

\* The invariant holds in every state, however many runs die.
LEMMA Invariance == Spec => []IInv
<1>1. Init => IInv
  <2>1. Init => Scripted /\ ConfigsCoherent /\ OwnNonces /\ CombinesOneRound
    BY DEF Init, Scripted, KeyInHand, EndsInB, Linked, ConfigsCoherent, OwnNonces, CombinesOneRound
  <2>2. Init => SetsCoherent
    BY DEF Init, SetsCoherent, Coherent, Exists
  <2> QED
    BY <2>1, <2>2 DEF IInv
<1>2. IInv /\ [Next]_vars => IInv'
  BY DiskStep, ConfigsStep, NoncesStep, CombinesStep DEF IInv, DiskInv
<1> QED
  BY <1>1, <1>2, PTL DEF Spec

\* Where there is an aggregated key, the keys, node-vss and shares beside it are of the
\* run that wrote it, if with nothing in it, however often the ceremonies of
\* generate_dev_secrets.py and simulate_federation_change.py died before, and wherever;
\* each signer's configuration has the node-vss of one run and that run's key, or, from
\* assemble_signer_configs.py only, the empty one.
THEOREM FilesOfASetBelongTogether == Spec => []SetIsCoherent
<1>1. IInv => SetIsCoherent
  <2> SUFFICES ASSUME IInv PROVE SetIsCoherent
    OBVIOUS
  <2>1. ASSUME NEW s \in Sets, Exists(s, {Aggpubkey}),
               NEW r, r = disk[s][NodeVss(1)].run
        PROVE  /\ disk[s][Aggpubkey] \in {[run |-> r], Torn}
               /\ Readable(s, {Pubkeys})
               /\ \A i \in Signers :
                    /\ Readable(s, {Key(i), PublicKey(i), NodeVss(i), Share(i)})
                    /\ disk[s][Share(i)].run = r
                    /\ disk[s][NodeVss(i)].run = r
                    /\ disk[s][Pubkeys].of[i] = disk[s][Key(i)]
                    /\ disk[s][Key(i)] = disk[s][PublicKey(i)]
                    /\ disk[s][NodeVss(i)].to = disk[s][Pubkeys].of
    <3>1. PICK q \in Nat \ {0} :
            HasShares(s, q) /\ disk[s][Aggpubkey] \in {[run |-> q], Torn}
      BY <2>1 DEF IInv, SetsCoherent, Coherent
    <3>2. HasNodeVss(s, q) /\ HasPubkeys(s) /\ HasKeys(s)
      BY <3>1 DEF HasShares, HasNodeVss, HasPubkeys
    <3>3. q = r
      <4> 1 \in Signers
        BY CeremonyAssumption DEF Signers
      <4> QED
        BY <2>1, <3>2 DEF HasNodeVss
    <3> QED
      BY <3>1, <3>2, <3>3 DEF HasShares, HasNodeVss, HasPubkeys, HasKeys, Readable
  <2>2. ASSUME NEW x \in DOMAIN configs
        PROVE  \E r \in configs[x].nodevss \ {Torn.run} :
                 /\ configs[x].nodevss = {r}
                 /\ configs[x].key \in (IF x[1] = "a" THEN {r, Torn.run} ELSE {r})
    BY DEF IInv, ConfigsCoherent, Torn
  <2> QED
    BY <2>1, <2>2 DEF SetIsCoherent
<1> QED
  BY <1>1, Invariance, PTL

\* No block-vss of sign_genesis.py or of an xfield sign-off goes into the signatures of
\* two payloads: one run signs one payload, and begins by making new ones.
THEOREM OnePayloadPerNonce == Spec => []NoncesUsedOnce
<1>1. IInv => NoncesUsedOnce
  BY DEF IInv, OwnNonces, NoncesUsedOnce
<1> QED
  BY <1>1, Invariance, PTL

\* Every signature that computesig returns combines all signers' signatures of its own
\* payload and round, with the shares of the key it is checked against.
THEOREM SignaturesAreOfOneRound == Spec => []CombinesOneRound
<1>1. IInv => CombinesOneRound
  BY DEF IInv
<1> QED
  BY <1>1, Invariance, PTL
=============================================================================
