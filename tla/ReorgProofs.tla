---------------------------- MODULE ReorgProofs -----------------------------
(***************************************************************************)
(* Proofs about the reorg recipe, for any two groups of nodes, any links,  *)
(* hosts and length of the forks.                                          *)
(***************************************************************************)
EXTENDS Reorg, TLAPS

(***************************************************************************)
(* The inductive invariant.                                                *)
(*                                                                         *)
(* What the script has set up follows from the place it is at (Staged).    *)
(***************************************************************************)
Staged ==
  /\ pc \in 0..30
  /\ pc \in 0..4 \cup 27..30 => ~pauseFile
  /\ pc \in 5..26 => pauseFile
  /\ pc \in 1..5 \cup 19..30 => up = Nodes
  /\ pc \in 6..11 => up = GroupB
  /\ pc = 12 => up = {}
  /\ pc \in 13..18 => up = GroupA
  /\ pc \in 1..6 \cup 14..20 \cup 28..30 => hosts = DefaultHosts
  /\ pc \in 7..13 \cup 21..27 => hosts = GroupBHosts
  /\ pc \in 1..6 => era = 0
  /\ pc \in 7..13 => era = 1
  /\ pc \in 14..20 => era = 2
  /\ pc \in 21..27 => era = 3
  /\ pc \in 28..30 => era = 4
  /\ pc \in 3..7 \cup 11..14 \cup 18..21 \cup 25..28 => live = {}

Typed ==
  /\ era \in 0..4
  /\ tip \in [Nodes -> Seq(0..era)]
  /\ rivals \in [Nodes -> SUBSET Seq(0..era)]
  /\ base \in Nat
  /\ tipA \in Seq(0..4) /\ tipB \in Seq(0..4)
  /\ hosts \in {DefaultHosts, GroupBHosts}
  /\ up \subseteq Nodes /\ live \subseteq Signers /\ pauseFile \in BOOLEAN

\* What a gather has read is a node's tip, or was until a longer one came.
ReadOnce ==
  /\ DOMAIN seen \subseteq Nodes
  /\ pc \notin {3, 19, 25} => DOMAIN seen = {}
  /\ pc \in {3, 25} => \A n \in DOMAIN seen :
       \/ seen[n] = tip[n]
       \/ seen[n] \in Seq(0..4) /\ Len(seen[n]) < Len(tip[n])

\* No block of group B's build is within reach of one that is made for A's.
Apart ==
  /\ \A n \in Nodes : ~({1, 2} \subseteq Blocks(tip[n]))
  /\ era = 2 /\ live # {} =>
       up \subseteq GroupA /\ \A n \in GroupA : 1 \notin Blocks(tip[n])
  /\ pc \in 1..18 =>
       /\ \A n \in GroupA : 1 \notin Blocks(tip[n])
       /\ \A n \in GroupB : /\ 2 \notin Blocks(tip[n])
                            /\ \A c \in rivals[n] : 2 \notin Blocks(c)

IInv == Staged /\ Typed /\ ReadOnce /\ Apart

-----------------------------------------------------------------------------
(* The program.                                                            *)

Instructions ==
  { Op("stopSigners"), Op("startSigners"), Op("match"), Op("pause"),
    Op("tie"), Op("confirm"), Op("resume"), Op("awaitSigners"),
    WaitHeight(Nodes, 0), WaitHeight(GroupB, ForkLength),
    WaitHeight(GroupA, ForkLength), WaitHeight(Nodes, ForkLength + 2),
    StopNodes(GroupA), StopNodes(GroupB), StartNodes(GroupA), StartNodes(GroupB),
    Repoint(GroupBHosts), Repoint(DefaultHosts),
    ReadTip("A"), ReadTip("B") }

LEMMA Joined ==
  ASSUME NEW S, NEW s \in Seq(S), NEW t \in Seq(S)
  PROVE  /\ s \o t \in Seq(S) /\ Len(s \o t) = Len(s) + Len(t)
         /\ \A i \in 1..Len(s) : (s \o t)[i] = s[i]
         /\ \A i \in 1..Len(t) : (s \o t)[Len(s) + i] = t[i]
OBVIOUS

LEMMA TupleOf1 ==
  ASSUME NEW S, NEW a \in S
  PROVE  /\ << a >> \in Seq(S) /\ Len(<< a >>) = 1
         /\ << a >>[1] = a
OBVIOUS

LEMMA TupleOf2 ==
  ASSUME NEW S, NEW a \in S, NEW b \in S
  PROVE  /\ << a, b >> \in Seq(S) /\ Len(<< a, b >>) = 2
         /\ << a, b >>[1] = a /\ << a, b >>[2] = b
OBVIOUS

LEMMA TupleOf3 ==
  ASSUME NEW S, NEW a \in S, NEW b \in S, NEW c \in S
  PROVE  /\ << a, b, c >> \in Seq(S) /\ Len(<< a, b, c >>) = 3
         /\ << a, b, c >>[1] = a /\ << a, b, c >>[2] = b /\ << a, b, c >>[3] = c
OBVIOUS

LEMMA TupleOf5 ==
  ASSUME NEW S, NEW a \in S, NEW b \in S, NEW c \in S, NEW d \in S, NEW e \in S
  PROVE  /\ << a, b, c, d, e >> \in Seq(S) /\ Len(<< a, b, c, d, e >>) = 5
         /\ << a, b, c, d, e >>[1] = a /\ << a, b, c, d, e >>[2] = b /\ << a, b, c, d, e >>[3] = c /\ << a, b, c, d, e >>[4] = d /\ << a, b, c, d, e >>[5] = e
OBVIOUS

LEMMA TupleOf6 ==
  ASSUME NEW S, NEW a \in S, NEW b \in S, NEW c \in S, NEW d \in S, NEW e \in S, NEW f \in S
  PROVE  /\ << a, b, c, d, e, f >> \in Seq(S) /\ Len(<< a, b, c, d, e, f >>) = 6
         /\ << a, b, c, d, e, f >>[1] = a /\ << a, b, c, d, e, f >>[2] = b /\ << a, b, c, d, e, f >>[3] = c /\ << a, b, c, d, e, f >>[4] = d /\ << a, b, c, d, e, f >>[5] = e /\ << a, b, c, d, e, f >>[6] = f
OBVIOUS

\* The recipe up to each of its parts.
R1 == BuildBaseline \o << Op("pause") >>
R2 == R1 \o BuildGroupBFork
R3 == R2 \o RestoreGroupA
R4 == R3 \o BuildGroupAFork
R5 == R4 \o ReconnectGroupB
R6 == R5 \o ExtendGroupB
R7 == R6 \o << Op("confirm"), Op("resume") >>

LEMMA RecipeIs ==
  /\ DOMAIN Recipe = 1..29 /\ Len(Recipe) = 29
  /\ Recipe[1] = WaitHeight(Nodes, 0)
  /\ Recipe[2] = Op("stopSigners")
  /\ Recipe[3] = Op("match")
  /\ Recipe[4] = Op("pause")
  /\ Recipe[5] = StopNodes(GroupA)
  /\ Recipe[6] = Repoint(GroupBHosts)
  /\ Recipe[7] = Op("startSigners")
  /\ Recipe[8] = WaitHeight(GroupB, ForkLength)
  /\ Recipe[9] = ReadTip("B")
  /\ Recipe[10] = Op("stopSigners")
  /\ Recipe[11] = StopNodes(GroupB)
  /\ Recipe[12] = StartNodes(GroupA)
  /\ Recipe[13] = Repoint(DefaultHosts)
  /\ Recipe[14] = Op("startSigners")
  /\ Recipe[15] = WaitHeight(GroupA, ForkLength)
  /\ Recipe[16] = ReadTip("A")
  /\ Recipe[17] = Op("stopSigners")
  /\ Recipe[18] = StartNodes(GroupB)
  /\ Recipe[19] = Op("tie")
  /\ Recipe[20] = Repoint(GroupBHosts)
  /\ Recipe[21] = Op("startSigners")
  /\ Recipe[22] = WaitHeight(Nodes, ForkLength + 2)
  /\ Recipe[23] = ReadTip("B")
  /\ Recipe[24] = Op("stopSigners")
  /\ Recipe[25] = Op("confirm")
  /\ Recipe[26] = Op("resume")
  /\ Recipe[27] = Repoint(DefaultHosts)
  /\ Recipe[28] = Op("startSigners")
  /\ Recipe[29] = Op("awaitSigners")
<1>1. /\ Op("stopSigners") \in Instructions /\ Op("startSigners") \in Instructions
      /\ Op("match") \in Instructions /\ Op("pause") \in Instructions
      /\ Op("tie") \in Instructions /\ Op("confirm") \in Instructions
      /\ Op("resume") \in Instructions /\ Op("awaitSigners") \in Instructions
      /\ WaitHeight(Nodes, 0) \in Instructions /\ WaitHeight(GroupB, ForkLength) \in Instructions
      /\ WaitHeight(GroupA, ForkLength) \in Instructions /\ WaitHeight(Nodes, ForkLength + 2) \in Instructions
      /\ StopNodes(GroupA) \in Instructions /\ StopNodes(GroupB) \in Instructions
      /\ StartNodes(GroupA) \in Instructions /\ StartNodes(GroupB) \in Instructions
      /\ Repoint(GroupBHosts) \in Instructions /\ Repoint(DefaultHosts) \in Instructions
      /\ ReadTip("A") \in Instructions /\ ReadTip("B") \in Instructions
  BY DEF Instructions
<1> HIDE DEF Instructions
<1>3. /\ BuildBaseline \in Seq(Instructions) /\ Len(BuildBaseline) = 3
      /\ BuildBaseline[1] = WaitHeight(Nodes, 0)
      /\ BuildBaseline[2] = Op("stopSigners")
      /\ BuildBaseline[3] = Op("match")
  BY <1>1, TupleOf3 DEF BuildBaseline
<1>4. /\ << Op("pause") >> \in Seq(Instructions) /\ Len(<< Op("pause") >>) = 1
      /\ << Op("pause") >>[1] = Op("pause")
  BY <1>1, TupleOf1
<1>5. /\ BuildGroupBFork \in Seq(Instructions) /\ Len(BuildGroupBFork) = 6
      /\ BuildGroupBFork[1] = StopNodes(GroupA)
      /\ BuildGroupBFork[2] = Repoint(GroupBHosts)
      /\ BuildGroupBFork[3] = Op("startSigners")
      /\ BuildGroupBFork[4] = WaitHeight(GroupB, ForkLength)
      /\ BuildGroupBFork[5] = ReadTip("B")
      /\ BuildGroupBFork[6] = Op("stopSigners")
  BY <1>1, TupleOf6 DEF BuildGroupBFork
<1>6. /\ RestoreGroupA \in Seq(Instructions) /\ Len(RestoreGroupA) = 2
      /\ RestoreGroupA[1] = StopNodes(GroupB)
      /\ RestoreGroupA[2] = StartNodes(GroupA)
  BY <1>1, TupleOf2 DEF RestoreGroupA
<1>7. /\ BuildGroupAFork \in Seq(Instructions) /\ Len(BuildGroupAFork) = 5
      /\ BuildGroupAFork[1] = Repoint(DefaultHosts)
      /\ BuildGroupAFork[2] = Op("startSigners")
      /\ BuildGroupAFork[3] = WaitHeight(GroupA, ForkLength)
      /\ BuildGroupAFork[4] = ReadTip("A")
      /\ BuildGroupAFork[5] = Op("stopSigners")
  BY <1>1, TupleOf5 DEF BuildGroupAFork
<1>8. /\ ReconnectGroupB \in Seq(Instructions) /\ Len(ReconnectGroupB) = 2
      /\ ReconnectGroupB[1] = StartNodes(GroupB)
      /\ ReconnectGroupB[2] = Op("tie")
  BY <1>1, TupleOf2 DEF ReconnectGroupB
<1>9. /\ ExtendGroupB \in Seq(Instructions) /\ Len(ExtendGroupB) = 5
      /\ ExtendGroupB[1] = Repoint(GroupBHosts)
      /\ ExtendGroupB[2] = Op("startSigners")
      /\ ExtendGroupB[3] = WaitHeight(Nodes, ForkLength + 2)
      /\ ExtendGroupB[4] = ReadTip("B")
      /\ ExtendGroupB[5] = Op("stopSigners")
  BY <1>1, TupleOf5 DEF ExtendGroupB
<1>10. /\ << Op("confirm"), Op("resume") >> \in Seq(Instructions) /\ Len(<< Op("confirm"), Op("resume") >>) = 2
       /\ << Op("confirm"), Op("resume") >>[1] = Op("confirm")
       /\ << Op("confirm"), Op("resume") >>[2] = Op("resume")
  BY <1>1, TupleOf2
<1>11. /\ RestoreDefaultSigners \in Seq(Instructions) /\ Len(RestoreDefaultSigners) = 3
       /\ RestoreDefaultSigners[1] = Repoint(DefaultHosts)
       /\ RestoreDefaultSigners[2] = Op("startSigners")
       /\ RestoreDefaultSigners[3] = Op("awaitSigners")
  BY <1>1, TupleOf3 DEF RestoreDefaultSigners
<1>12. /\ R1 \in Seq(Instructions) /\ Len(R1) = 4
       /\ \A i \in 1..3 : R1[i] = BuildBaseline[i]
       /\ \A i \in 1..1 : R1[3 + i] = << Op("pause") >>[i]
  <2>1. R1 = BuildBaseline \o << Op("pause") >>
    BY DEF R1
  <2>2. BuildBaseline \in Seq(Instructions) /\ << Op("pause") >> \in Seq(Instructions)
    BY <1>3, <1>4
  <2>3. /\ R1 \in Seq(Instructions) /\ Len(R1) = Len(BuildBaseline) + Len(<< Op("pause") >>)
        /\ \A i \in 1..Len(BuildBaseline) : R1[i] = BuildBaseline[i]
        /\ \A i \in 1..Len(<< Op("pause") >>) : R1[Len(BuildBaseline) + i] = << Op("pause") >>[i]
    BY <2>1, <2>2, Joined
  <2> QED
    BY <1>3, <1>4, <2>3
<1>13. /\ R2 \in Seq(Instructions) /\ Len(R2) = 10
       /\ \A i \in 1..4 : R2[i] = R1[i]
       /\ \A i \in 1..6 : R2[4 + i] = BuildGroupBFork[i]
  <2>1. R2 = R1 \o BuildGroupBFork
    BY DEF R2
  <2>2. R1 \in Seq(Instructions) /\ BuildGroupBFork \in Seq(Instructions)
    BY <1>12, <1>5
  <2>3. /\ R2 \in Seq(Instructions) /\ Len(R2) = Len(R1) + Len(BuildGroupBFork)
        /\ \A i \in 1..Len(R1) : R2[i] = R1[i]
        /\ \A i \in 1..Len(BuildGroupBFork) : R2[Len(R1) + i] = BuildGroupBFork[i]
    BY <2>1, <2>2, Joined
  <2> QED
    BY <1>12, <1>5, <2>3
<1>14. /\ R3 \in Seq(Instructions) /\ Len(R3) = 12
       /\ \A i \in 1..10 : R3[i] = R2[i]
       /\ \A i \in 1..2 : R3[10 + i] = RestoreGroupA[i]
  <2>1. R3 = R2 \o RestoreGroupA
    BY DEF R3
  <2>2. R2 \in Seq(Instructions) /\ RestoreGroupA \in Seq(Instructions)
    BY <1>13, <1>6
  <2>3. /\ R3 \in Seq(Instructions) /\ Len(R3) = Len(R2) + Len(RestoreGroupA)
        /\ \A i \in 1..Len(R2) : R3[i] = R2[i]
        /\ \A i \in 1..Len(RestoreGroupA) : R3[Len(R2) + i] = RestoreGroupA[i]
    BY <2>1, <2>2, Joined
  <2> QED
    BY <1>13, <1>6, <2>3
<1>15. /\ R4 \in Seq(Instructions) /\ Len(R4) = 17
       /\ \A i \in 1..12 : R4[i] = R3[i]
       /\ \A i \in 1..5 : R4[12 + i] = BuildGroupAFork[i]
  <2>1. R4 = R3 \o BuildGroupAFork
    BY DEF R4
  <2>2. R3 \in Seq(Instructions) /\ BuildGroupAFork \in Seq(Instructions)
    BY <1>14, <1>7
  <2>3. /\ R4 \in Seq(Instructions) /\ Len(R4) = Len(R3) + Len(BuildGroupAFork)
        /\ \A i \in 1..Len(R3) : R4[i] = R3[i]
        /\ \A i \in 1..Len(BuildGroupAFork) : R4[Len(R3) + i] = BuildGroupAFork[i]
    BY <2>1, <2>2, Joined
  <2> QED
    BY <1>14, <1>7, <2>3
<1>16. /\ R5 \in Seq(Instructions) /\ Len(R5) = 19
       /\ \A i \in 1..17 : R5[i] = R4[i]
       /\ \A i \in 1..2 : R5[17 + i] = ReconnectGroupB[i]
  <2>1. R5 = R4 \o ReconnectGroupB
    BY DEF R5
  <2>2. R4 \in Seq(Instructions) /\ ReconnectGroupB \in Seq(Instructions)
    BY <1>15, <1>8
  <2>3. /\ R5 \in Seq(Instructions) /\ Len(R5) = Len(R4) + Len(ReconnectGroupB)
        /\ \A i \in 1..Len(R4) : R5[i] = R4[i]
        /\ \A i \in 1..Len(ReconnectGroupB) : R5[Len(R4) + i] = ReconnectGroupB[i]
    BY <2>1, <2>2, Joined
  <2> QED
    BY <1>15, <1>8, <2>3
<1>17. /\ R6 \in Seq(Instructions) /\ Len(R6) = 24
       /\ \A i \in 1..19 : R6[i] = R5[i]
       /\ \A i \in 1..5 : R6[19 + i] = ExtendGroupB[i]
  <2>1. R6 = R5 \o ExtendGroupB
    BY DEF R6
  <2>2. R5 \in Seq(Instructions) /\ ExtendGroupB \in Seq(Instructions)
    BY <1>16, <1>9
  <2>3. /\ R6 \in Seq(Instructions) /\ Len(R6) = Len(R5) + Len(ExtendGroupB)
        /\ \A i \in 1..Len(R5) : R6[i] = R5[i]
        /\ \A i \in 1..Len(ExtendGroupB) : R6[Len(R5) + i] = ExtendGroupB[i]
    BY <2>1, <2>2, Joined
  <2> QED
    BY <1>16, <1>9, <2>3
<1>18. /\ R7 \in Seq(Instructions) /\ Len(R7) = 26
       /\ \A i \in 1..24 : R7[i] = R6[i]
       /\ \A i \in 1..2 : R7[24 + i] = << Op("confirm"), Op("resume") >>[i]
  <2>1. R7 = R6 \o << Op("confirm"), Op("resume") >>
    BY DEF R7
  <2>2. R6 \in Seq(Instructions) /\ << Op("confirm"), Op("resume") >> \in Seq(Instructions)
    BY <1>17, <1>10
  <2>3. /\ R7 \in Seq(Instructions) /\ Len(R7) = Len(R6) + Len(<< Op("confirm"), Op("resume") >>)
        /\ \A i \in 1..Len(R6) : R7[i] = R6[i]
        /\ \A i \in 1..Len(<< Op("confirm"), Op("resume") >>) : R7[Len(R6) + i] = << Op("confirm"), Op("resume") >>[i]
    BY <2>1, <2>2, Joined
  <2> QED
    BY <1>17, <1>10, <2>3
<1>19. /\ Recipe \in Seq(Instructions) /\ Len(Recipe) = 29
       /\ \A i \in 1..26 : Recipe[i] = R7[i]
       /\ \A i \in 1..3 : Recipe[26 + i] = RestoreDefaultSigners[i]
  <2>1. Recipe = R7 \o RestoreDefaultSigners
    BY DEF Recipe, R1, R2, R3, R4, R5, R6, R7
  <2>2. R7 \in Seq(Instructions) /\ RestoreDefaultSigners \in Seq(Instructions)
    BY <1>18, <1>11
  <2>3. /\ Recipe \in Seq(Instructions) /\ Len(Recipe) = Len(R7) + Len(RestoreDefaultSigners)
        /\ \A i \in 1..Len(R7) : Recipe[i] = R7[i]
        /\ \A i \in 1..Len(RestoreDefaultSigners) : Recipe[Len(R7) + i] = RestoreDefaultSigners[i]
    BY <2>1, <2>2, Joined
  <2> QED
    BY <1>18, <1>11, <2>3
<1> QED
  BY <1>3, <1>4, <1>5, <1>6, <1>7, <1>8, <1>9, <1>10, <1>11,
     <1>12, <1>13, <1>14, <1>15, <1>16, <1>17, <1>18, <1>19

LEMMA ThisPlace ==
  ASSUME pc \in 0..30
  PROVE  /\ At("stop") =>
              \/ pc = 5 /\ Instruction.group = GroupA
              \/ pc = 11 /\ Instruction.group = GroupB
         /\ At("start") =>
              \/ pc = 12 /\ Instruction.group = GroupA
              \/ pc = 18 /\ Instruction.group = GroupB
         /\ At("repoint") =>
              \/ pc = 6 /\ Instruction.to = GroupBHosts
              \/ pc = 13 /\ Instruction.to = DefaultHosts
              \/ pc = 20 /\ Instruction.to = GroupBHosts
              \/ pc = 27 /\ Instruction.to = DefaultHosts
         /\ At("read") =>
              \/ pc = 9 /\ Instruction.of = "B"
              \/ pc = 16 /\ Instruction.of = "A"
              \/ pc = 23 /\ Instruction.of = "B"
         /\ At("wait") =>
              \/ pc = 1 /\ Instruction.group = Nodes /\ Instruction.above = 0
              \/ pc = 8 /\ Instruction.group = GroupB /\ Instruction.above = ForkLength
              \/ pc = 15 /\ Instruction.group = GroupA /\ Instruction.above = ForkLength
              \/ pc = 22 /\ Instruction.group = Nodes /\ Instruction.above = ForkLength + 2
         /\ At("startSigners") => pc \in {7, 14, 21, 28}
         /\ At("stopSigners") => pc \in {2, 10, 17, 24}
         /\ At("match") => pc = 3
         /\ At("pause") => pc = 4
         /\ At("tie") => pc = 19
         /\ At("confirm") => pc = 25
         /\ At("resume") => pc = 26
         /\ At("awaitSigners") => pc = 29
<1>1. /\ Recipe[1].op = "wait" /\ Recipe[2].op = "stopSigners" /\ Recipe[3].op = "match"
      /\ Recipe[4].op = "pause" /\ Recipe[5].op = "stop" /\ Recipe[6].op = "repoint"
      /\ Recipe[7].op = "startSigners" /\ Recipe[8].op = "wait" /\ Recipe[9].op = "read"
      /\ Recipe[10].op = "stopSigners" /\ Recipe[11].op = "stop" /\ Recipe[12].op = "start"
      /\ Recipe[13].op = "repoint" /\ Recipe[14].op = "startSigners" /\ Recipe[15].op = "wait"
      /\ Recipe[16].op = "read" /\ Recipe[17].op = "stopSigners" /\ Recipe[18].op = "start"
      /\ Recipe[19].op = "tie" /\ Recipe[20].op = "repoint" /\ Recipe[21].op = "startSigners"
      /\ Recipe[22].op = "wait" /\ Recipe[23].op = "read" /\ Recipe[24].op = "stopSigners"
      /\ Recipe[25].op = "confirm" /\ Recipe[26].op = "resume" /\ Recipe[27].op = "repoint"
      /\ Recipe[28].op = "startSigners" /\ Recipe[29].op = "awaitSigners"
  BY RecipeIs DEF Op, StopNodes, StartNodes, Repoint, WaitHeight, ReadTip
<1>2. /\ Recipe[5].group = GroupA
      /\ Recipe[6].to = GroupBHosts
      /\ Recipe[9].of = "B"
      /\ Recipe[11].group = GroupB
      /\ Recipe[12].group = GroupA
      /\ Recipe[13].to = DefaultHosts
      /\ Recipe[16].of = "A"
      /\ Recipe[18].group = GroupB
      /\ Recipe[20].to = GroupBHosts
      /\ Recipe[23].of = "B"
      /\ Recipe[27].to = DefaultHosts
      /\ Recipe[1].group = Nodes /\ Recipe[1].above = 0
      /\ Recipe[8].group = GroupB /\ Recipe[8].above = ForkLength
      /\ Recipe[15].group = GroupA /\ Recipe[15].above = ForkLength
      /\ Recipe[22].group = Nodes /\ Recipe[22].above = ForkLength + 2
  BY RecipeIs DEF StopNodes, StartNodes, Repoint, WaitHeight, ReadTip
<1>3. ASSUME NEW name, At(name)
      PROVE  pc \in 1..29 /\ Recipe[pc].op = name
  BY <1>3, RecipeIs DEF At, Running
<1> QED
  BY <1>1, <1>2, <1>3 DEF Instruction

LEMMA Groups ==
  /\ Nodes \ GroupA = GroupB /\ GroupB \ GroupB = {} /\ {} \cup GroupA = GroupA
  /\ GroupA \cup GroupB = Nodes
  /\ GroupA \subseteq Nodes /\ GroupB \subseteq Nodes /\ GroupA \cap GroupB = {}
  /\ GroupAHost \in GroupA /\ GroupBHost \in GroupB
  /\ GroupAHost \in Nodes /\ GroupBHost \in Nodes
BY ReorgAssumption DEF Nodes

LEMMA Ends ==
  ASSUME pc \in 0..30
  PROVE  /\ Failed <=> pc = 0
         /\ Done <=> pc = 30
         /\ Running <=> pc \in 1..29
         /\ Before("tie") <=> pc \in 1..19
         /\ After("confirm") <=> pc \in 26..30
<1>1. \A i \in 1..29 : /\ Recipe[i].op = "tie" <=> i = 19
                       /\ Recipe[i].op = "confirm" <=> i = 25
  BY RecipeIs DEF Op, StopNodes, StartNodes, Repoint, WaitHeight, ReadTip
<1>2. Place("tie") = 19 /\ Place("confirm") = 25
  BY <1>1, RecipeIs DEF Place
<1> QED
  BY <1>2, RecipeIs DEF Failed, Done, Running, Before, After

-----------------------------------------------------------------------------
(* Where the script is, and what it has set up.                            *)

LEMMA ScriptStaged == Staged /\ Script => Staged'
<1> SUFFICES ASSUME Staged, Script PROVE Staged'
  OBVIOUS
<1> USE DEF Staged
<1>0. pc \in 0..30
  OBVIOUS
<1>1. CASE StopsGroup
  BY <1>1, <1>0, ThisPlace, Groups DEF StopsGroup, Continue
<1>2. CASE StartsGroup
  BY <1>2, <1>0, ThisPlace, Groups DEF StartsGroup, Continue
<1>3. CASE Repoints
  BY <1>3, <1>0, ThisPlace DEF Repoints, Continue
<1>4. CASE StartsSigners
  BY <1>4, <1>0, ThisPlace DEF StartsSigners, Continue
<1>5. CASE StopsSigners
  BY <1>5, <1>0, ThisPlace DEF StopsSigners, Continue
<1>6. CASE SeesSignersRunning \/ HeightReached \/ ReadsTip
  <2>1. pc' = pc + 1 /\ UNCHANGED <<up, hosts, era, live, pauseFile>>
    BY <1>6 DEF SeesSignersRunning, HeightReached, ReadsTip, Continue, network
  <2>2. pc \in {1, 8, 9, 15, 16, 22, 23, 29}
    BY <1>6, <1>0, ThisPlace DEF SeesSignersRunning, HeightReached, ReadsTip
  <2> QED
    BY <2>1, <2>2
<1>7. CASE \E n \in Nodes : ReadsForMatch(n) \/ NodeHoldsTie(n) \/ NodeConverged(n)
  BY <1>7 DEF ReadsForMatch, NodeHoldsTie, NodeConverged, network
<1>8. CASE TipsMatch \/ TipsDiffer \/ TieHolds \/ Converged
  <2>1. pc \in {3, 19, 25} /\ pc' \in {pc, pc + 1}
    BY <1>8, <1>0, ThisPlace DEF TipsMatch, TipsDiffer, TieHolds, Converged, Continue
  <2>2. UNCHANGED <<up, hosts, era, live, pauseFile>>
    BY <1>8 DEF TipsMatch, TipsDiffer, TieHolds, Converged, network
  <2> QED
    BY <2>1, <2>2
<1>9. CASE TogglesPause
  <2>1. \/ pc = 4 /\ At("pause")
        \/ pc = 26 /\ ~At("pause")
    BY <1>9, <1>0, ThisPlace DEF TogglesPause
  <2>2. /\ pauseFile' = At("pause") /\ pc' = pc + 1
        /\ UNCHANGED <<up, hosts, era, live>>
    BY <1>9 DEF TogglesPause, Continue, network
  <2>3. CASE pc = 4 /\ At("pause")
    <3>1. pauseFile'
      BY <2>2, <2>3
    <3> QED
      BY <2>2, <2>3, <3>1
  <2>4. CASE pc = 26 /\ ~At("pause")
    <3>1. ~pauseFile'
      BY <2>2, <2>4
    <3> QED
      BY <2>2, <2>4, <3>1
  <2> QED
    BY <2>1, <2>3, <2>4
<1>10. CASE Raises
  BY <1>10 DEF Raises
<1> QED
  BY <1>1, <1>2, <1>3, <1>4, <1>5, <1>6, <1>7, <1>8, <1>9, <1>10 DEF Script

LEMMA NetworkStaged == Staged /\ (Network \/ UNCHANGED vars) => Staged'
<1> SUFFICES ASSUME Staged, Network \/ UNCHANGED vars PROVE Staged'
  OBVIOUS
<1> USE DEF Staged
<1>1. CASE \E s \in Signers : Produce(s)
  BY <1>1 DEF Produce, script
<1>2. CASE \E s \in Signers : SignerDies(s)
  BY <1>2 DEF SignerDies, script
<1>3. CASE \E m, n \in Nodes : Adopt(m, n) \/ HearOf(m, n)
  <2> UNCHANGED <<pc, up, hosts, era, live, pauseFile>>
    BY <1>3 DEF Adopt, HearOf, script
  <2> QED
    OBVIOUS
<1>4. CASE UNCHANGED vars
  BY <1>4 DEF vars, network, script
<1> QED
  BY <1>1, <1>2, <1>3, <1>4 DEF Network

LEMMA StepStaged == Staged /\ [Next]_vars => Staged'
BY ScriptStaged, NetworkStaged DEF Next

LEMMA InitStaged == Init => Staged
BY DEF Init, Staged

-----------------------------------------------------------------------------
(* Types, and what a gather reads.                                         *)

LEMMA Wider ==
  ASSUME NEW a \in Nat, NEW b \in Nat, a <= b
  PROVE  Seq(0..a) \subseteq Seq(0..b)
OBVIOUS

LEMMA ScriptLeavesChains == Script => UNCHANGED <<tip, rivals>>
BY DEF Script, StopsGroup, StartsGroup, Repoints, StartsSigners, StopsSigners,
       SeesSignersRunning, HeightReached, ReadsTip, ReadsForMatch, NodeHoldsTie,
       NodeConverged, TipsMatch, TipsDiffer, TieHolds, Converged, TogglesPause, Raises,
       network

\* What a step of the network does to chains: a node extends its own or takes
\* over what another has.
Extends(n) ==
  /\ n \in up /\ n \in Nodes /\ live # {} /\ n \in {hosts[s] : s \in live}
  /\ tip' = [tip EXCEPT ![n] = Append(@, era)]
  /\ UNCHANGED rivals

LEMMA NetworkMoves ==
  ASSUME Typed, Network
  PROVE  /\ UNCHANGED <<up, hosts, era, script>>
         /\ live' \subseteq live
         /\ \/ \E n \in Nodes : Extends(n)
            \/ \E m, n \in Nodes : Adopt(m, n) \/ HearOf(m, n)
            \/ UNCHANGED <<tip, rivals>>
<1>1. CASE \E s \in Signers : Produce(s)
  <2>1. PICK s \in Signers : Produce(s)
    BY <1>1
  <2>2. s \in live /\ hosts[s] \in up /\ hosts[s] \in Nodes
    BY <2>1 DEF Produce, Reachable, Typed
  <2>3. Extends(hosts[s])
    BY <2>1, <2>2 DEF Produce, Extends
  <2> QED
    BY <2>1, <2>2, <2>3 DEF Produce
<1>2. CASE \E s \in Signers : SignerDies(s)
  BY <1>2 DEF SignerDies
<1>3. CASE \E m, n \in Nodes : Adopt(m, n) \/ HearOf(m, n)
  <2> UNCHANGED <<up, hosts, era, live, script>>
    BY <1>3 DEF Adopt, HearOf
  <2> QED
    BY <1>3
<1> QED
  BY <1>1, <1>2, <1>3 DEF Network

LEMMA PrefixIs ==
  ASSUME NEW S, NEW s \in Seq(S), NEW t \in Seq(S)
  PROVE  IsPrefix(s, t) <=> Len(s) <= Len(t) /\ \A i \in 1..Len(s) : s[i] = t[i]
<1>1. ASSUME Len(s) <= Len(t)
      PROVE  /\ SubSeq(t, 1, Len(s)) \in Seq(S) /\ Len(SubSeq(t, 1, Len(s))) = Len(s)
             /\ \A i \in 1..Len(s) : SubSeq(t, 1, Len(s))[i] = t[i]
  BY <1>1
<1>2. SubSeq(s, 1, Len(s)) = s
  OBVIOUS
<1>3. ASSUME NEW a \in Seq(S), NEW b \in Seq(S), Len(a) = Len(b),
             \A i \in 1..Len(a) : a[i] = b[i]
      PROVE  a = b
  BY <1>3, SMTT(30)
<1>4. ASSUME Len(s) <= Len(t), \A i \in 1..Len(s) : s[i] = t[i]
      PROVE  s = SubSeq(t, 1, Len(s))
  BY <1>1, <1>3, <1>4
<1> QED
  BY <1>1, <1>2, <1>4 DEF IsPrefix

\* Of two nodes that meet one keeps the longer of their tips as its own, and the
\* rest of what it knows as its rivals.
Meets(m, n) ==
  /\ \A k \in Nodes \ {n} : tip'[k] = tip[k] /\ rivals'[k] = rivals[k]
  /\ tip'[n] \in {tip[m], tip[n]}
  /\ tip'[n] = tip[n] \/ Len(tip'[n]) > Len(tip[n])
  /\ Len(tip'[n]) >= Len(tip[m])
  /\ rivals'[n] = TipsBeside(rivals[n] \cup {tip[m], tip[n]}, tip'[n])

LEMMA ActiveIsNoRival ==
  ASSUME NEW S, NEW active \in Seq(S), NEW chains \in SUBSET Seq(S)
  PROVE  TipsBeside(chains, active) = TipsBeside(chains \cup {active}, active)
<1>1. IsPrefix(active, active)
  BY PrefixIs
<1> QED
  BY <1>1 DEF TipsBeside

LEMMA Relayed ==
  ASSUME Typed, NEW m \in Nodes, NEW n \in Nodes, Adopt(m, n) \/ HearOf(m, n)
  PROVE  Meets(m, n) /\ {m, n} \subseteq up
<1>1. /\ tip[m] \in Seq(0..era) /\ tip[n] \in Seq(0..era)
      /\ rivals[n] \in SUBSET Seq(0..era)
      /\ DOMAIN tip = Nodes /\ DOMAIN rivals = Nodes
      /\ Len(tip[m]) \in Nat /\ Len(tip[n]) \in Nat
  BY DEF Typed
<1>2. CASE Adopt(m, n)
  <2>1. tip' = [tip EXCEPT ![n] = tip[m]] /\ Len(tip[m]) > Len(tip[n])
    BY <1>2 DEF Adopt
  <2>2. rivals' = [rivals EXCEPT ![n] = TipsBeside(rivals[n] \cup {tip[n]}, tip[m])]
    BY <1>2 DEF Adopt
  <2>3. /\ \A k \in Nodes \ {n} : tip'[k] = tip[k] /\ rivals'[k] = rivals[k]
        /\ tip'[n] = tip[m]
        /\ rivals'[n] = TipsBeside(rivals[n] \cup {tip[n]}, tip[m])
    BY <1>1, <2>1, <2>2
  <2>4. TipsBeside(rivals[n] \cup {tip[n]}, tip[m])
          = TipsBeside((rivals[n] \cup {tip[n]}) \cup {tip[m]}, tip[m])
    BY <1>1, ActiveIsNoRival
  <2>5. (rivals[n] \cup {tip[n]}) \cup {tip[m]} = rivals[n] \cup {tip[m], tip[n]}
    OBVIOUS
  <2> QED
    <3>1. {m, n} \subseteq up
      BY <1>2 DEF Adopt
    <3>2. rivals'[n] = TipsBeside(rivals[n] \cup {tip[m], tip[n]}, tip'[n])
      BY <2>3, <2>4, <2>5
    <3>3. Len(tip'[n]) > Len(tip[n]) /\ Len(tip'[n]) >= Len(tip[m])
      BY <1>1, <2>1, <2>3
    <3> QED
      BY <2>3, <3>1, <3>2, <3>3 DEF Meets
<1>3. CASE HearOf(m, n)
  <2>1. UNCHANGED tip /\ Len(tip[m]) <= Len(tip[n])
    BY <1>3 DEF HearOf
  <2>2. rivals' = [rivals EXCEPT ![n] = TipsBeside(rivals[n] \cup {tip[m]}, tip[n])]
    BY <1>3 DEF HearOf
  <2>3. /\ \A k \in Nodes \ {n} : tip'[k] = tip[k] /\ rivals'[k] = rivals[k]
        /\ tip'[n] = tip[n]
        /\ rivals'[n] = TipsBeside(rivals[n] \cup {tip[m]}, tip[n])
    BY <1>1, <2>1, <2>2
  <2>4. TipsBeside(rivals[n] \cup {tip[m]}, tip[n])
          = TipsBeside((rivals[n] \cup {tip[m]}) \cup {tip[n]}, tip[n])
    BY <1>1, ActiveIsNoRival
  <2>5. (rivals[n] \cup {tip[m]}) \cup {tip[n]} = rivals[n] \cup {tip[m], tip[n]}
    OBVIOUS
  <2> QED
    BY <1>1, <1>3, <2>1, <2>2, <2>3, <2>4, <2>5 DEF Meets, HearOf
<1> QED
  BY <1>2, <1>3

LEMMA StepTyped == Staged /\ Typed /\ ReadOnce /\ [Next]_vars => Typed'
<1> SUFFICES ASSUME Staged, Typed, ReadOnce, [Next]_vars PROVE Typed'
  OBVIOUS
<1>1. pc \in 0..30 /\ era \in Nat
  BY DEF Staged, Typed
<1>2. CASE Script
  <2>1. /\ tip' \in [Nodes -> Seq(0..era)]
        /\ rivals' \in [Nodes -> SUBSET Seq(0..era)]
    BY <1>2, ScriptLeavesChains DEF Typed
  <2>2. /\ era' \in 0..4 /\ era <= era' /\ era' \in Nat
        /\ hosts' \in {DefaultHosts, GroupBHosts}
    <3>1. CASE Repoints
      <4>1. pc \in {6, 13, 20, 27} /\ Instruction.to \in {DefaultHosts, GroupBHosts}
        BY <3>1, <1>1, ThisPlace DEF Repoints
      <4>2. era' = era + 1 /\ hosts' = Instruction.to
        BY <3>1 DEF Repoints
      <4> QED
        BY <4>1, <4>2 DEF Staged
    <3>2. CASE ~Repoints
      <4> UNCHANGED <<era, hosts>>
        BY <1>2, <3>2
        DEF Script, StopsGroup, StartsGroup, StartsSigners, StopsSigners,
            SeesSignersRunning, HeightReached, ReadsTip, ReadsForMatch, NodeHoldsTie,
            NodeConverged, TipsMatch, TipsDiffer, TieHolds, Converged, TogglesPause,
            Raises, network
      <4> QED
        BY <1>1 DEF Typed
    <3> QED
      BY <3>1, <3>2
  <2>3. /\ tip' \in [Nodes -> Seq(0..era')] /\ rivals' \in [Nodes -> SUBSET Seq(0..era')]
    <3>1. Seq(0..era) \subseteq Seq(0..era')
      BY <1>1, <2>2, Wider
    <3> QED
      BY <2>1, <3>1
  <2>4. base' \in Nat
    <3>1. CASE TipsMatch
      <4>1. pc = 3 /\ GroupAHost \in DOMAIN seen /\ base' = Len(seen[GroupAHost])
        BY <3>1, <1>1, ThisPlace, Groups DEF TipsMatch, AllSeen
      <4>2. tip[GroupAHost] \in Seq(0..era)
        BY Groups DEF Typed
      <4>3. seen[GroupAHost] \in Seq(0..era) \/ seen[GroupAHost] \in Seq(0..4)
        BY <4>1, <4>2 DEF ReadOnce
      <4> QED
        BY <4>1, <4>3
    <3>2. CASE ~TipsMatch
      <4> UNCHANGED base
        BY <1>2, <3>2
        DEF Script, StopsGroup, StartsGroup, Repoints, StartsSigners, StopsSigners,
            SeesSignersRunning, HeightReached, ReadsTip, ReadsForMatch, NodeHoldsTie,
            NodeConverged, TipsDiffer, TieHolds, Converged, TogglesPause, Raises
      <4> QED
        BY DEF Typed
    <3> QED
      BY <3>1, <3>2
  <2>5. tipA' \in Seq(0..4) /\ tipB' \in Seq(0..4)
    <3>1. CASE ReadsTip
      <4>1. Seq(0..era) \subseteq Seq(0..4)
        BY Wider DEF Typed
      <4>2. tip[GroupAHost] \in Seq(0..4) /\ tip[GroupBHost] \in Seq(0..4)
        BY <4>1, Groups DEF Typed
      <4> QED
        BY <3>1, <4>2 DEF ReadsTip, Typed
    <3>2. CASE ~ReadsTip
      <4> UNCHANGED <<tipA, tipB>>
        BY <1>2, <3>2
        DEF Script, StopsGroup, StartsGroup, Repoints, StartsSigners, StopsSigners,
            SeesSignersRunning, HeightReached, ReadsForMatch, NodeHoldsTie,
            NodeConverged, TipsMatch, TipsDiffer, TieHolds, Converged, TogglesPause,
            Raises
      <4> QED
        BY DEF Typed
    <3> QED
      BY <3>1, <3>2
  <2>6. up' \subseteq Nodes /\ live' \subseteq Signers /\ pauseFile' \in BOOLEAN
    <3>1. CASE StopsGroup \/ StartsGroup
      <4> At("stop") \/ At("start")
        BY <3>1 DEF StopsGroup, StartsGroup
      <4> Instruction.group \subseteq Nodes
        BY <1>1, ThisPlace, Groups
      <4> QED
        BY <3>1 DEF StopsGroup, StartsGroup, Typed
    <3>2. CASE StartsSigners \/ StopsSigners
      BY <3>2 DEF StartsSigners, StopsSigners, Typed
    <3>3. CASE TogglesPause
      <4>1. UNCHANGED <<up, live>> /\ pauseFile' = At("pause")
        BY <3>3 DEF TogglesPause, network
      <4>2. At("pause") \in BOOLEAN
        BY DEF At
      <4> QED
        BY <4>1, <4>2 DEF Typed
    <3>4. CASE Raises
      <4>1. At("start") => Instruction.group \subseteq Nodes
        BY <1>1, ThisPlace, Groups
      <4>2. pauseFile' = FALSE
        BY <3>4 DEF Raises
      <4>3. up' \subseteq Nodes
        BY <3>4, <4>1 DEF Raises, Typed
      <4>4. live' \subseteq Signers
        BY <3>4 DEF Raises, Typed
      <4> QED
        BY <4>2, <4>3, <4>4
    <3>5. CASE \/ Repoints \/ SeesSignersRunning \/ HeightReached \/ ReadsTip
               \/ \E n \in Nodes : ReadsForMatch(n) \/ NodeHoldsTie(n) \/ NodeConverged(n)
               \/ TipsMatch \/ TipsDiffer \/ TieHolds \/ Converged
      <4> UNCHANGED <<up, live, pauseFile>>
        BY <3>5
        DEF Repoints, SeesSignersRunning, HeightReached, ReadsTip, ReadsForMatch,
            NodeHoldsTie, NodeConverged, TipsMatch, TipsDiffer, TieHolds, Converged,
            network
      <4> QED
        BY DEF Typed
    <3> QED
      BY <1>2, <3>1, <3>2, <3>3, <3>4, <3>5 DEF Script
  <2> QED
    BY <2>2, <2>3, <2>4, <2>5, <2>6 DEF Typed
<1>3. CASE Network
  <2>1. UNCHANGED <<up, hosts, era, script>> /\ live' \subseteq live
    BY <1>3, NetworkMoves
  <2>2. tip' \in [Nodes -> Seq(0..era)] /\ rivals' \in [Nodes -> SUBSET Seq(0..era)]
    <3>1. CASE \E n \in Nodes : Extends(n)
      <4>1. PICK n \in Nodes : Extends(n)
        BY <3>1
      <4>2. tip[n] \in Seq(0..era) /\ era \in 0..era
        BY <1>1 DEF Typed
      <4>3. Append(tip[n], era) \in Seq(0..era)
        BY <4>2
      <4> QED
        BY <4>1, <4>3 DEF Extends, Typed
    <3>2. CASE \E m, n \in Nodes : Adopt(m, n) \/ HearOf(m, n)
      <4>1. PICK m \in Nodes, n \in Nodes : Adopt(m, n) \/ HearOf(m, n)
        BY <3>2
      <4>2. DOMAIN tip' = Nodes /\ DOMAIN rivals' = Nodes
        BY <4>1 DEF Adopt, HearOf, Typed
      <4>3. Meets(m, n)
        BY <4>1, Relayed
      <4>4. \A k \in Nodes : tip[k] \in Seq(0..era) /\ rivals[k] \subseteq Seq(0..era)
        BY DEF Typed
      <4>5. \A k \in Nodes : tip'[k] \in Seq(0..era)
        BY <4>3, <4>4 DEF Meets
      <4>6. \A k \in Nodes : rivals'[k] \subseteq Seq(0..era)
        BY <4>3, <4>4 DEF Meets, TipsBeside
      <4>7. tip' = [k \in Nodes |-> tip'[k]] /\ rivals' = [k \in Nodes |-> rivals'[k]]
        BY <4>1 DEF Adopt, HearOf, Typed
      <4> QED
        BY <4>5, <4>6, <4>7
    <3>3. CASE UNCHANGED <<tip, rivals>>
      BY <3>3 DEF Typed
    <3> QED
      BY <1>3, <3>1, <3>2, <3>3, NetworkMoves
  <2> QED
    BY <2>1, <2>2 DEF Typed, script
<1>4. CASE UNCHANGED vars
  BY <1>4 DEF vars, network, script, Typed
<1> QED
  BY <1>2, <1>3, <1>4 DEF Next

\* What a step of the script that does not raise does to what it remembers, and
\* what it requires.
Remembers ==
  /\ base' = IF pc = 3 /\ pc' = 4 THEN Len(seen[GroupAHost]) ELSE base
  /\ tipA' = IF pc = 16 THEN tip[GroupAHost] ELSE tipA
  /\ tipB' = IF pc \in {9, 23} THEN tip[GroupBHost] ELSE tipB

Requires ==
  /\ pc = 8 => Len(tip[GroupBHost]) >= base + ForkLength
  /\ pc = 15 => Len(tip[GroupAHost]) >= base + ForkLength
  /\ pc = 22 => Len(tip[GroupBHost]) >= base + (ForkLength + 2)
  /\ pc = 3 /\ pc' = 4 => AllSeen /\ \A m, n \in Nodes : seen[m] = seen[n]
  /\ pc = 19 /\ pc' = 20 => DOMAIN seen = GroupA
  /\ pc = 25 /\ pc' = 26 => AllSeen

Gathers ==
  /\ pc' = pc => pc \in {3, 19, 25}
  /\ pc \notin {3, 19, 25} => seen' = seen
  /\ pc' = pc + 1 /\ pc \in {3, 19, 25} => seen' = <<>>
  /\ pc' = pc =>
       \/ seen' = <<>> /\ pc = 3
       \/ \E n \in Nodes \ DOMAIN seen :
            /\ seen' = SeenWith(n)
            /\ pc = 19 => n \in GroupA /\ tip[n] = tipA
            /\ pc = 25 => ExpectedTips(n)

LEMMA ScriptSteps ==
  ASSUME pc \in 0..30, Script
  PROVE  /\ pc \in 1..29 /\ pc' \in {0, pc, pc + 1}
         /\ pc' = 0 => seen' = <<>>
         /\ pc' # 0 => Remembers /\ Requires /\ Gathers
<1> USE DEF Remembers, Requires, Gathers
<1>0. \A name : At(name) => pc \in 1..29
  BY RecipeIs DEF At, Running
<1>1. CASE StopsGroup \/ StartsGroup \/ Repoints \/ StartsSigners \/ StopsSigners
  <2>1. pc' = pc + 1 /\ UNCHANGED <<base, tipA, tipB, seen>>
    BY <1>1
    DEF StopsGroup, StartsGroup, Repoints, StartsSigners, StopsSigners, Continue
  <2>2. pc \in {2, 5, 6, 7, 10, 11, 12, 13, 14, 17, 18, 20, 21, 24, 27, 28}
    BY <1>1, ThisPlace
    DEF StopsGroup, StartsGroup, Repoints, StartsSigners, StopsSigners
  <2> QED
    BY <2>1, <2>2
<1>2. CASE SeesSignersRunning
  <2>1. pc' = pc + 1 /\ UNCHANGED <<base, tipA, tipB, seen>> /\ pc = 29
    BY <1>2, ThisPlace DEF SeesSignersRunning, Continue
  <2> QED
    BY <2>1
<1>3. CASE HeightReached
  <2>1. pc' = pc + 1 /\ UNCHANGED <<base, tipA, tipB, seen>> /\ pc \in {1, 8, 15, 22}
    BY <1>3, ThisPlace DEF HeightReached, Continue
  <2>2. \A n \in Instruction.group : Len(tip[n]) >= base + Instruction.above
    BY <1>3 DEF HeightReached
  <2>3. /\ pc = 8 => Instruction.group = GroupB /\ Instruction.above = ForkLength
        /\ pc = 15 => Instruction.group = GroupA /\ Instruction.above = ForkLength
        /\ pc = 22 => Instruction.group = Nodes /\ Instruction.above = ForkLength + 2
    BY <1>3, ThisPlace DEF HeightReached
  <2>4. Requires
    BY <2>1, <2>2, <2>3, Groups
  <2> QED
    BY <2>1, <2>4
<1>4. CASE ReadsTip
  <2>1. /\ pc' = pc + 1 /\ UNCHANGED <<base, seen>>
        /\ IF Instruction.of = "A"
             THEN tipA' = tip[GroupAHost] /\ UNCHANGED tipB
             ELSE tipB' = tip[GroupBHost] /\ UNCHANGED tipA
    BY <1>4 DEF ReadsTip, Continue
  <2>2. \/ pc = 9 /\ Instruction.of = "B"
        \/ pc = 16 /\ Instruction.of = "A"
        \/ pc = 23 /\ Instruction.of = "B"
    BY <1>4, ThisPlace DEF ReadsTip
  <2> QED
    BY <2>1, <2>2
<1>5. CASE \E n \in Nodes : ReadsForMatch(n) \/ NodeHoldsTie(n) \/ NodeConverged(n)
  <2>1. PICK n \in Nodes : ReadsForMatch(n) \/ NodeHoldsTie(n) \/ NodeConverged(n)
    BY <1>5
  <2>2. UNCHANGED <<pc, base, tipA, tipB>> /\ seen' = SeenWith(n) /\ n \notin DOMAIN seen
    BY <2>1 DEF ReadsForMatch, NodeHoldsTie, NodeConverged
  <2>3. CASE ReadsForMatch(n)
    <3> pc = 3
      BY <2>3, ThisPlace DEF ReadsForMatch
    <3> QED
      BY <2>2
  <2>4. CASE NodeHoldsTie(n)
    <3> pc = 19 /\ n \in GroupA /\ tip[n] = tipA
      BY <2>4, ThisPlace DEF NodeHoldsTie
    <3> QED
      BY <2>2
  <2>5. CASE NodeConverged(n)
    <3> pc = 25 /\ ExpectedTips(n)
      BY <2>5, ThisPlace DEF NodeConverged
    <3> QED
      BY <2>2
  <2> QED
    BY <2>1, <2>3, <2>4, <2>5
<1>6. CASE TipsMatch
  <2>1. /\ pc = 3 /\ pc' = pc + 1 /\ UNCHANGED <<tipA, tipB>> /\ seen' = <<>>
        /\ base' = Len(seen[GroupAHost])
        /\ AllSeen /\ \A m, n \in Nodes : seen[m] = seen[n]
    BY <1>6, ThisPlace DEF TipsMatch, Continue
  <2> QED
    BY <2>1
<1>7. CASE TipsDiffer
  <2>1. pc = 3 /\ UNCHANGED <<pc, base, tipA, tipB>> /\ seen' = <<>>
    BY <1>7, ThisPlace DEF TipsDiffer
  <2> QED
    BY <2>1
<1>8. CASE TieHolds
  <2>1. /\ pc = 19 /\ pc' = pc + 1 /\ UNCHANGED <<base, tipA, tipB>> /\ seen' = <<>>
        /\ DOMAIN seen = GroupA
    BY <1>8, ThisPlace DEF TieHolds, Continue
  <2> QED
    BY <2>1
<1>9. CASE Converged
  <2>1. /\ pc = 25 /\ pc' = pc + 1 /\ UNCHANGED <<base, tipA, tipB>> /\ seen' = <<>>
        /\ AllSeen
    BY <1>9, ThisPlace DEF Converged, Continue
  <2> QED
    BY <2>1
<1>10. CASE TogglesPause
  <2>1. pc \in {4, 26} /\ pc' = pc + 1 /\ UNCHANGED <<base, tipA, tipB, seen>>
    BY <1>10, ThisPlace DEF TogglesPause, Continue
  <2> QED
    BY <2>1
<1>11. CASE Raises
  <2> pc' = 0 /\ seen' = <<>> /\ pc \in 1..29
    BY <1>11, RecipeIs DEF Raises, Running
  <2> QED
    OBVIOUS
<1> QED
  BY <1>1, <1>2, <1>3, <1>4, <1>5, <1>6, <1>7, <1>8, <1>9, <1>10, <1>11 DEF Script

\* A node's chain never gets shorter, and changes only by getting longer.
LEMMA Grows ==
  ASSUME Typed, Network
  PROVE  \A n \in Nodes : tip'[n] = tip[n] \/ Len(tip'[n]) > Len(tip[n])
<1>1. \A n \in Nodes : tip[n] \in Seq(0..era) /\ Len(tip[n]) \in Nat
  BY DEF Typed
<1>2. CASE \E n \in Nodes : Extends(n)
  <2>1. PICK n \in Nodes : Extends(n)
    BY <1>2
  <2>2. tip'[n] = Append(tip[n], era) /\ \A m \in Nodes \ {n} : tip'[m] = tip[m]
    BY <2>1 DEF Extends, Typed
  <2>3. Len(Append(tip[n], era)) = Len(tip[n]) + 1
    BY <1>1
  <2> QED
    BY <1>1, <2>2, <2>3
<1>3. CASE \E m, n \in Nodes : Adopt(m, n) \/ HearOf(m, n)
  BY <1>3, Relayed DEF Meets
<1> QED
  BY <1>2, <1>3, NetworkMoves

LEMMA StepReadOnce == Staged /\ Typed /\ ReadOnce /\ [Next]_vars => ReadOnce'
<1> SUFFICES ASSUME Staged, Typed, ReadOnce, [Next]_vars PROVE ReadOnce'
  OBVIOUS
<1>1. pc \in 0..30
  BY DEF Staged
<1>2. DOMAIN <<>> = {}
  OBVIOUS
<1>3. CASE Script
  <2>1. pc \in 1..29 /\ pc' \in {0, pc, pc + 1} /\ UNCHANGED tip
    BY <1>1, <1>3, ScriptSteps, ScriptLeavesChains
  <2>2. CASE DOMAIN seen' = {}
    BY <2>2 DEF ReadOnce
  <2>3. CASE seen' = seen /\ pc \notin {3, 19, 25}
    BY <2>2, <2>3 DEF ReadOnce
  <2>4. CASE pc' = pc /\ \E n \in Nodes \ DOMAIN seen : seen' = SeenWith(n)
    <3>1. PICK n \in Nodes \ DOMAIN seen : seen' = SeenWith(n)
      BY <2>4
    <3>2. /\ DOMAIN seen' = DOMAIN seen \cup {n} /\ seen'[n] = tip[n]
          /\ \A x \in DOMAIN seen : seen'[x] = seen[x]
      BY <3>1 DEF SeenWith
    <3>3. pc \in {3, 19, 25}
      BY <1>1, <1>3, <2>1, <2>4, ScriptSteps DEF Gathers
    <3> QED
      BY <2>1, <2>4, <3>2, <3>3 DEF ReadOnce
  <2>5. CASE pc' = 0
    BY <1>1, <1>2, <1>3, <2>2, <2>5, ScriptSteps
  <2>6. CASE pc' # 0
    <3> Gathers
      BY <1>1, <1>3, <2>6, ScriptSteps
    <3> QED
      BY <1>2, <2>1, <2>2, <2>3, <2>4, <2>6 DEF Gathers
  <2> QED
    BY <2>5, <2>6
<1>4. CASE Network
  <2>1. UNCHANGED <<pc, seen>>
    BY <1>4, NetworkMoves DEF script
  <2>2. \A n \in Nodes : tip'[n] = tip[n] \/ Len(tip'[n]) > Len(tip[n])
    BY <1>4, Grows
  <2>3. Seq(0..era) \subseteq Seq(0..4)
    BY Wider DEF Typed
  <2>4. \A n \in Nodes : tip[n] \in Seq(0..4) /\ Len(tip[n]) \in Nat
    BY <2>3 DEF Typed
  <2>5. \A n \in Nodes : Len(tip'[n]) \in Nat
    <3> Typed'
      BY <1>4, StepTyped DEF Next
    <3> QED
      BY DEF Typed
  <2> QED
    BY <2>1, <2>2, <2>4, <2>5 DEF ReadOnce
<1>5. CASE UNCHANGED vars
  BY <1>5 DEF vars, network, script, ReadOnce
<1> QED
  BY <1>3, <1>4, <1>5 DEF Next

-----------------------------------------------------------------------------
(* The forks.                                                              *)

LEMMA BlocksOfExtended ==
  ASSUME NEW S, NEW c \in Seq(S), NEW b \in S
  PROVE  Blocks(Append(c, b)) = Blocks(c) \cup {b}
<1>1. /\ DOMAIN Append(c, b) = 1..Len(c) + 1 /\ DOMAIN c = 1..Len(c) /\ Len(c) \in Nat
      /\ Append(c, b)[Len(c) + 1] = b
      /\ \A i \in 1..Len(c) : Append(c, b)[i] = c[i]
  OBVIOUS
<1>2. 1..Len(c) + 1 = 1..Len(c) \cup {Len(c) + 1}
  BY <1>1
<1> QED
  BY <1>1, <1>2 DEF Blocks

LEMMA BlocksUpTo ==
  ASSUME NEW k \in Nat, NEW c \in Seq(0..k)
  PROVE  Blocks(c) \subseteq 0..k
BY DEF Blocks

LEMMA NetworkApart == Staged /\ Typed /\ Apart /\ Network => Apart'
<1> SUFFICES ASSUME Staged, Typed, Apart, Network PROVE Apart'
  OBVIOUS
<1>1. UNCHANGED <<pc, up, hosts, era>> /\ live' \subseteq live
  BY NetworkMoves DEF script
<1>2. /\ \A n \in Nodes : Blocks(tip[n]) \subseteq 0..era
      /\ \A n \in Nodes : \A c \in rivals[n] : Blocks(c) \subseteq 0..era
  BY BlocksUpTo DEF Typed
<1>3. CASE \E n \in Nodes : Extends(n)
  <2>1. PICK n \in Nodes : Extends(n)
    BY <1>3
  <2>2. /\ tip'[n] = Append(tip[n], era) /\ \A m \in Nodes \ {n} : tip'[m] = tip[m]
        /\ rivals' = rivals /\ n \in up /\ live # {}
    BY <2>1 DEF Extends, Typed
  <2>3. Blocks(tip'[n]) = Blocks(tip[n]) \cup {era}
    <3> tip[n] \in Seq(0..era) /\ era \in 0..era
      BY DEF Typed
    <3> QED
      BY <2>2, BlocksOfExtended
  <2>4. era = 2 => n \in GroupA /\ \A m \in GroupA : 1 \notin Blocks(tip[m])
    BY <2>2 DEF Apart
  <2>5. pc \in 1..18 => \/ era = 0
                        \/ n \in GroupB /\ era = 1
                        \/ n \in GroupA /\ era = 2
    <3>1. pc \in 1..18 => pc \in 1..6 \/ pc \in 8..10 \/ pc \in 15..17
      BY <2>2 DEF Staged
    <3> QED
      BY <2>2, <3>1 DEF Staged
  <2>6. \A m \in Nodes : ~({1, 2} \subseteq Blocks(tip'[m]))
    <3> ~({1, 2} \subseteq Blocks(tip[n]) \cup {era})
      <4>1. CASE era = 1
        BY <1>2, <4>1
      <4>2. CASE era = 2
        BY <2>4, <4>2
      <4>3. CASE era \notin {1, 2}
        BY <4>3 DEF Apart
      <4> QED
        BY <4>1, <4>2, <4>3
    <3> QED
      BY <2>2, <2>3 DEF Apart
  <2>7. era = 2 => up \subseteq GroupA /\ \A m \in GroupA : 1 \notin Blocks(tip'[m])
    <3> SUFFICES ASSUME era = 2
                 PROVE  up \subseteq GroupA /\ \A m \in GroupA : 1 \notin Blocks(tip'[m])
      OBVIOUS
    <3>1. 1 \notin Blocks(tip'[n])
      BY <2>3, <2>4
    <3>2. \A m \in GroupA \ {n} : 1 \notin Blocks(tip'[m])
      BY <2>2, <2>4, Groups
    <3>3. up \subseteq GroupA
      BY <2>2 DEF Apart
    <3> QED
      BY <3>1, <3>2, <3>3
  <2>8. pc \in 1..18 =>
          /\ \A m \in GroupA : 1 \notin Blocks(tip'[m])
          /\ \A m \in GroupB : 2 \notin Blocks(tip'[m])
    <3> SUFFICES ASSUME pc \in 1..18
                 PROVE  /\ \A m \in GroupA : 1 \notin Blocks(tip'[m])
                        /\ \A m \in GroupB : 2 \notin Blocks(tip'[m])
      OBVIOUS
    <3>1. /\ \A m \in GroupA \ {n} : 1 \notin Blocks(tip'[m])
          /\ \A m \in GroupB \ {n} : 2 \notin Blocks(tip'[m])
      BY <2>2, Groups DEF Apart
    <3>2. /\ n \in GroupA => 1 \notin Blocks(tip[n])
          /\ n \in GroupB => 2 \notin Blocks(tip[n])
      BY DEF Apart
    <3>3. /\ n \in GroupA => 1 \notin Blocks(tip'[n])
          /\ n \in GroupB => 2 \notin Blocks(tip'[n])
      BY <2>3, <2>5, <3>2, Groups
    <3> QED
      BY <3>1, <3>3
  <2> QED
    BY <1>1, <2>2, <2>6, <2>7, <2>8 DEF Apart
<1>4. CASE \E m, n \in Nodes : Adopt(m, n) \/ HearOf(m, n)
  <2>1. PICK m \in Nodes, n \in Nodes : Adopt(m, n) \/ HearOf(m, n)
    BY <1>4
  <2>2. Meets(m, n) /\ m \in up /\ n \in up
    BY <2>1, Relayed
  <2>3. /\ tip'[n] \in {tip[m], tip[n]}
        /\ rivals'[n] \subseteq rivals[n] \cup {tip[m], tip[n]}
        /\ \A k \in Nodes \ {n} : tip'[k] = tip[k] /\ rivals'[k] = rivals[k]
    BY <2>2 DEF Meets, TipsBeside
  <2>4. pc \in 1..18 => \/ era = 0
                        \/ m \in GroupA /\ n \in GroupA
                        \/ m \in GroupB /\ n \in GroupB
    <3> pc \in 1..18 => pc \in 1..6 \/ pc \in 7..11 \/ pc = 12 \/ pc \in 13..18
      BY DEF Staged
    <3> QED
      BY <2>2 DEF Staged
  <2>5. \A k \in Nodes : ~({1, 2} \subseteq Blocks(tip'[k]))
    BY <2>3 DEF Apart
  <2>6. era = 2 /\ live # {} => \A k \in GroupA : 1 \notin Blocks(tip'[k])
    BY <2>2, <2>3, Groups DEF Apart
  <2>7. pc \in 1..18 => \A k \in GroupA : 1 \notin Blocks(tip'[k])
    BY <1>2, <2>3, <2>4, Groups DEF Apart
  <2>8. pc \in 1..18 => \A k \in GroupB : /\ 2 \notin Blocks(tip'[k])
                                          /\ \A c \in rivals'[k] : 2 \notin Blocks(c)
    BY <1>2, <2>3, <2>4, Groups DEF Apart
  <2> QED
    BY <1>1, <2>5, <2>6, <2>7, <2>8 DEF Apart
<1>5. CASE UNCHANGED <<tip, rivals>>
  BY <1>1, <1>5 DEF Apart
<1> QED
  BY <1>3, <1>4, <1>5, NetworkMoves

LEMMA ScriptApart == Staged /\ Apart /\ Script => Apart'
<1> SUFFICES ASSUME Staged, Apart, Script PROVE Apart'
  OBVIOUS
<1>1. UNCHANGED <<tip, rivals>>
  BY ScriptLeavesChains
<1>2. pc \in 1..29 /\ pc' \in {0, pc, pc + 1} /\ Staged'
  BY ScriptSteps, ScriptStaged DEF Staged
<1>3. /\ \A n \in Nodes : ~({1, 2} \subseteq Blocks(tip'[n]))
      /\ pc \in 1..18 => \A n \in GroupA : 1 \notin Blocks(tip'[n])
  BY <1>1 DEF Apart
<1>4. pc' \in 1..18 =>
        /\ \A n \in GroupA : 1 \notin Blocks(tip'[n])
        /\ \A n \in GroupB : /\ 2 \notin Blocks(tip'[n])
                             /\ \A c \in rivals'[n] : 2 \notin Blocks(c)
  <2> pc' \in 1..18 => pc \in 1..18
    BY <1>2
  <2> QED
    BY <1>1 DEF Apart
<1>5. ASSUME era' = 2, live' # {}
      PROVE  up' \subseteq GroupA /\ \A n \in GroupA : 1 \notin Blocks(tip'[n])
  <2>1. CASE pc' # 0
    <3>1. pc' \in 14..20
      BY <1>2, <1>5, <2>1 DEF Staged
    <3>2. pc' \in 15..17
      BY <1>2, <1>5, <3>1 DEF Staged
    <3> QED
      BY <1>2, <1>4, <3>2 DEF Staged
  <2>2. CASE pc' = 0
    <3>1. Raises
      <4>1. ~(pc' = pc + 1) /\ ~(pc' = pc)
        BY <1>2, <2>2
      <4> QED
        BY <4>1
        DEF Script, StopsGroup, StartsGroup, Repoints, StartsSigners, StopsSigners,
            SeesSignersRunning, HeightReached, ReadsTip, ReadsForMatch, NodeHoldsTie,
            NodeConverged, TipsMatch, TipsDiffer, TieHolds, Converged, TogglesPause,
            Continue
    <3>2. era = 2 /\ pc \in 14..20
      BY <1>2, <1>5, <3>1 DEF Raises, Staged
    <3>3. At("start") \/ At("stop") => live' = live
      BY <3>1, ThisPlace DEF Raises, Staged
    <3>4. /\ At("start") => pc = 18
          /\ ~At("stop")
          /\ At("startSigners") \/ At("stopSigners") => pc \in 14..17
      BY <3>2, ThisPlace DEF Staged
    <3>5. pc \in 14..17
      <4>1. pc \in 18..20 => live = {}
        BY DEF Staged
      <4>2. pc \in 18..20 => live' = live
        BY <3>1, <3>4 DEF Raises
      <4> QED
        BY <1>5, <3>2, <4>1, <4>2
    <3>6. up' = up
      BY <3>1, <3>4, <3>5 DEF Raises
    <3> QED
      BY <1>3, <3>5, <3>6 DEF Staged
  <2> QED
    BY <2>1, <2>2
<1> QED
  BY <1>3, <1>4, <1>5 DEF Apart

LEMMA StepIInv == IInv /\ [Next]_vars => IInv'
<1> SUFFICES ASSUME IInv, [Next]_vars PROVE IInv'
  OBVIOUS
<1>1. Staged' /\ Typed' /\ ReadOnce'
  BY StepStaged, StepTyped, StepReadOnce DEF IInv
<1>2. Apart'
  <2>1. CASE Script
    BY <2>1, ScriptApart DEF IInv
  <2>2. CASE Network
    BY <2>2, NetworkApart DEF IInv
  <2>3. CASE UNCHANGED vars
    BY <2>3 DEF IInv, Apart, vars, network, script
  <2> QED
    BY <2>1, <2>2, <2>3 DEF Next
<1> QED
  BY <1>1, <1>2 DEF IInv

LEMMA InitIInv == Init => IInv
<1> SUFFICES ASSUME Init PROVE IInv
  OBVIOUS
<1>1. Blocks(<<>>) = {} /\ DOMAIN <<>> = {}
  BY DEF Blocks
<1>2. Staged
  BY InitStaged
<1>3. Typed
  <2> <<>> \in Seq(0..0) /\ <<>> \in Seq(0..4) /\ {} \in SUBSET Seq(0..0)
    OBVIOUS
  <2>1. tip \in [Nodes -> Seq(0..era)] /\ rivals \in [Nodes -> SUBSET Seq(0..era)]
    BY DEF Init
  <2>2. base \in Nat /\ tipA \in Seq(0..4) /\ tipB \in Seq(0..4)
    BY ReorgAssumption DEF Init
  <2>3. era \in 0..4
    BY DEF Init
  <2>5. pauseFile \in BOOLEAN
    BY DEF Init
  <2>4. up \subseteq Nodes /\ live \subseteq Signers /\ hosts \in {DefaultHosts, GroupBHosts}
    BY DEF Init
  <2> QED
    BY <2>1, <2>2, <2>3, <2>4, <2>5 DEF Typed
<1>4. ReadOnce
  BY <1>1 DEF Init, ReadOnce
<1>5. \A n \in Nodes : tip[n] = <<>> /\ rivals[n] = {}
  BY DEF Init
<1>6. Apart
  BY <1>1, <1>5, Groups DEF Init, Apart
<1> QED
  BY <1>2, <1>3, <1>4, <1>6 DEF IInv

LEMMA InvarianceOfIInv == Spec => []IInv
BY InitIInv, StepIInv, PTL DEF Spec

(***************************************************************************)
(* Every state of the recipe is of the expected types: it is at one of its *)
(* 29 instructions, the signers have one of the two deployments, and a     *)
(* chain has blocks of the deployments up to now only.                     *)
(***************************************************************************)
THEOREM TypesOfRecipe == Spec => []TypeOK
<1>1. IInv => TypeOK
  <2> SUFFICES ASSUME IInv PROVE TypeOK
    OBVIOUS
  <2>1. Seq(0..era) \subseteq Seq(0..4)
    BY Wider, SMTT(30) DEF IInv, Typed
  <2>2. \A n \in Nodes : tip[n] \in Seq(0..4) /\ \A c \in rivals[n] : c \in Seq(0..4)
    BY <2>1 DEF IInv, Typed
  <2>3. pc \in 0..Len(Recipe) + 1
    BY RecipeIs DEF IInv, Staged
  <2> QED
    BY <2>2, <2>3 DEF IInv, Typed, ReadOnce, TypeOK
<1> QED
  BY <1>1, InvarianceOfIInv, PTL

(***************************************************************************)
(* While any node is stopped the chaos loops are paused, and however the   *)
(* script ends, by the `finally` of run() or by its last step, they are    *)
(* not.                                                                    *)
(***************************************************************************)
THEOREM SplitIsPaused == Spec => []PausedWhileSplit
<1>1. IInv => PausedWhileSplit
  <2> SUFFICES ASSUME IInv PROVE PausedWhileSplit
    OBVIOUS
  <2>1. Staged /\ pc \in 0..30
    BY DEF IInv, Staged
  <2>2. pc \in 1..29 /\ up # Nodes => pauseFile
    BY <2>1 DEF Staged
  <2>3. pc = 0 \/ pc = 30 => ~pauseFile
    BY <2>1 DEF Staged
  <2> QED
    BY <2>1, <2>2, <2>3, Ends DEF PausedWhileSplit
<1> QED
  BY <1>1, InvarianceOfIInv, PTL

(***************************************************************************)
(* A recipe that ends without an error leaves all nodes running and every  *)
(* signer pointed at its default host.                                     *)
(***************************************************************************)
THEOREM SuccessRestores == Spec => []LeftAsFound
<1>1. IInv => LeftAsFound
  BY Ends DEF IInv, Staged, LeftAsFound
<1> QED
  BY <1>1, InvarianceOfIInv, PTL

(***************************************************************************)
(* Blocks of the two isolated builds never meet in one chain, and neither  *)
(* group holds one of the other's before the groups are connected again,   *)
(* wherever the recipe raises and whichever signers die.                   *)
(***************************************************************************)
THEOREM GroupsForkApart == Spec => []ForksApart
<1>1. IInv => ForksApart
  <2> SUFFICES ASSUME IInv PROVE ForksApart
    OBVIOUS
  <2>1. Staged /\ Apart /\ pc \in 0..30
    BY DEF IInv, Staged
  <2>2. Before("tie") /\ up # Nodes => pc \in 1..18
    BY <2>1, Ends DEF Staged
  <2> QED
    BY <2>1, <2>2 DEF Apart, ForksApart
<1> QED
  BY <1>1, InvarianceOfIInv, PTL
=============================================================================
