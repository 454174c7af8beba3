------------------------- MODULE ReorgVerdictProofs -------------------------
(***************************************************************************)
(* Proofs that the forks of the reorg recipe part at its baseline and that *)
(* its verdict holds of the network, for any groups, links, hosts and      *)
(* length of the forks.                                                    *)
(***************************************************************************)
EXTENDS ReorgProofs

(***************************************************************************)
(* The chains a node knows, and the blocks above the baseline.             *)
(***************************************************************************)
Knows(n, c) == c = tip[n] \/ c \in rivals[n]
Known(c) == \E n \in Nodes : Knows(n, c)

\* What getchaintips reports beside the active tip are tips.
TipsOnly ==
  \A n \in Nodes : \A c \in rivals[n] :
    /\ Len(c) <= Len(tip[n]) /\ ~IsPrefix(c, tip[n])
    /\ \A d \in rivals[n] : d # c => ~IsPrefix(c, d)

\* A longest chain stays one while no block is made, so it was read as it is.
Longest ==
  \E w \in Nodes :
    /\ \A m \in Nodes : Len(tip[m]) <= Len(tip[w])
    /\ pc \in {3, 25} /\ w \in DOMAIN seen => seen[w] = tip[w]

OnBaseline(c) == Len(c) >= base /\ \A i \in 1..Len(c) : c[i] = 0 <=> i <= base
Forked(c, by) == Len(c) > base /\ c[base + 1] = by

Baseline ==
  /\ era = 0 => \A n \in Nodes : rivals[n] = {}
  /\ pc >= 4 => \A c : Known(c) => OnBaseline(c)

Recorded ==
  /\ pc >= 9 => Len(tip[GroupBHost]) >= base + ForkLength
  /\ pc = 16 => Len(tip[GroupAHost]) >= base + ForkLength
  /\ pc = 23 => Len(tip[GroupBHost]) >= base + ForkLength + 2
  /\ pc \in 10..23 =>
       OnBaseline(tipB) /\ Forked(tipB, 1) /\ Len(tipB) >= base + ForkLength
  /\ pc >= 17 =>
       OnBaseline(tipA) /\ Forked(tipA, 2) /\ Len(tipA) >= base + ForkLength
  /\ pc >= 24 => OnBaseline(tipB) /\ Len(tipB) >= base + ForkLength + 2

\* GroupBHost has the longest chain of group B's fork.  If it leaves it, that
\* chain stays among its tips, which the confirmation refuses.
HostKeepsFork ==
  /\ pc \in 7..25 => \A c : Known(c) /\ Forked(c, 1) => Len(c) <= Len(tip[GroupBHost])
  /\ pc \in 9..25 =>
       Forked(tip[GroupBHost], 1) \/ \E c \in rivals[GroupBHost] : Forked(c, 1)

\* Once the tie is confirmed tipA is the longest of its fork, unless GroupBHost
\* has joined that one.
TieIsLongest ==
  /\ pc \in 18..19 /\ (\E c : Known(c) /\ Forked(c, 2) /\ Len(c) > Len(tipA)) =>
       \E n \in GroupA \ DOMAIN seen : Len(tip[n]) > Len(tipA)
  /\ pc \in 20..25 /\ Forked(tip[GroupBHost], 1) =>
       \A c : Known(c) /\ Forked(c, 2) => Len(c) <= Len(tipA)

Confirmed ==
  /\ pc = 25 => \A n \in DOMAIN seen :
       /\ seen[n] = tipB
       /\ n = GroupBHost => Forked(tipB, 1)
       /\ n \in GroupA =>
            /\ BranchLen(tipA, tipB) = ForkLength
            /\ tip[n] = tipB /\ Forked(tip[GroupBHost], 1) => tipA \in rivals[n]
  /\ pc >= 26 =>
       /\ Forked(tipB, 1) /\ Len(tipA) = base + ForkLength
       /\ \A n \in Nodes : IsPrefix(tipB, tip[n])
       /\ \A n \in GroupA : tipA \in rivals[n]

VInv ==
  /\ TipsOnly /\ Longest /\ Baseline /\ Recorded
  /\ HostKeepsFork /\ TieIsLongest /\ Confirmed

-----------------------------------------------------------------------------
(* Chains.                                                                 *)

LEMMA PrefixCarriesFork ==
  ASSUME base \in Nat, NEW S, NEW c \in Seq(S), NEW d \in Seq(S), NEW by,
         IsPrefix(c, d), Forked(c, by)
  PROVE  Forked(d, by)
<1>1. Len(c) <= Len(d) /\ \A i \in 1..Len(c) : c[i] = d[i]
  BY PrefixIs
<1>2. Len(c) \in Nat /\ Len(d) \in Nat
  OBVIOUS
<1>3. base + 1 \in 1..Len(c)
  BY <1>2 DEF Forked
<1> QED
  BY <1>1, <1>2, <1>3 DEF Forked

LEMMA PrefixOfPrefix ==
  ASSUME NEW S, NEW c \in Seq(S), NEW d \in Seq(S), NEW e \in Seq(S),
         IsPrefix(c, d), IsPrefix(d, e)
  PROVE  IsPrefix(c, e)
<1>1. Len(c) \in Nat /\ Len(d) \in Nat /\ Len(e) \in Nat
  OBVIOUS
<1>2. /\ Len(c) <= Len(d) /\ \A i \in 1..Len(c) : c[i] = d[i]
      /\ Len(d) <= Len(e) /\ \A i \in 1..Len(d) : d[i] = e[i]
  BY PrefixIs
<1>3. Len(c) <= Len(e) /\ \A i \in 1..Len(c) : c[i] = e[i]
  BY <1>1, <1>2
<1> QED
  BY <1>3, PrefixIs

LEMMA SameLength ==
  ASSUME NEW S, NEW c \in Seq(S), NEW d \in Seq(S), IsPrefix(c, d), Len(d) <= Len(c)
  PROVE  c = d
<1>1. Len(c) \in Nat /\ Len(d) \in Nat
  OBVIOUS
<1>2. Len(c) = Len(d) /\ \A i \in 1..Len(c) : c[i] = d[i]
  BY <1>1, PrefixIs
<1> QED
  BY <1>2

LEMMA PrefixOfExtended ==
  ASSUME NEW S, NEW c \in Seq(S), NEW d \in Seq(S), NEW b \in S
  PROVE  /\ IsPrefix(d, Append(d, b))
         /\ IsPrefix(c, Append(d, b)) /\ Len(c) <= Len(d) => IsPrefix(c, d)
<1>1. /\ Append(d, b) \in Seq(S) /\ Len(Append(d, b)) = Len(d) + 1
      /\ \A i \in 1..Len(d) : Append(d, b)[i] = d[i]
      /\ Len(c) \in Nat /\ Len(d) \in Nat
  OBVIOUS
<1>2. ASSUME NEW e \in Seq(S), Len(e) = Len(d) + 1, \A i \in 1..Len(d) : e[i] = d[i]
      PROVE  IsPrefix(d, e) /\ (IsPrefix(c, e) /\ Len(c) <= Len(d) => IsPrefix(c, d))
  <2>1. Len(c) \in Nat /\ Len(d) \in Nat /\ Len(e) \in Nat
    OBVIOUS
  <2>2. IsPrefix(d, e)
    BY <1>2, <2>1, PrefixIs
  <2>3. ASSUME IsPrefix(c, e), Len(c) <= Len(d)
        PROVE  IsPrefix(c, d)
    <3>1. \A i \in 1..Len(c) : c[i] = e[i]
      BY <2>3, PrefixIs
    <3>2. \A i \in 1..Len(c) : c[i] = d[i]
      BY <1>2, <2>1, <2>3, <3>1
    <3> QED
      BY <2>3, <3>2, PrefixIs
  <2> QED
    BY <2>2, <2>3
<1> QED
  BY <1>1, <1>2

\* Two chains of different forks agree up to the baseline and no further.
LEMMA ForksAtBase ==
  ASSUME base \in Nat, NEW c \in Seq(0..4), NEW d \in Seq(0..4),
         OnBaseline(c), OnBaseline(d), Forked(c, 2), Forked(d, 1)
  PROVE  ForkHeight(c, d) = base
<1> DEFINE common == {h \in 0..Len(c) : h <= Len(d) /\ SubSeq(c, 1, h) = SubSeq(d, 1, h)}
<1>1. Len(c) \in Nat /\ Len(d) \in Nat /\ base < Len(c) /\ base < Len(d)
  BY DEF Forked
<1>2. base \in common
  <2>1. \A i \in 1..base : c[i] = 0 /\ d[i] = 0
    BY <1>1 DEF OnBaseline
  <2>2. /\ SubSeq(c, 1, base) \in Seq(0..4) /\ Len(SubSeq(c, 1, base)) = base
        /\ \A i \in 1..base : SubSeq(c, 1, base)[i] = c[i]
        /\ SubSeq(d, 1, base) \in Seq(0..4) /\ Len(SubSeq(d, 1, base)) = base
        /\ \A i \in 1..base : SubSeq(d, 1, base)[i] = d[i]
    BY <1>1
  <2>3. SubSeq(c, 1, base) = SubSeq(d, 1, base)
    BY <2>1, <2>2
  <2> QED
    BY <1>1, <2>3
<1>3. ASSUME NEW h \in common PROVE h <= base
  <2>1. SUFFICES ASSUME h > base PROVE FALSE
    BY <1>1
  <2>2. base + 1 \in 1..h
    BY <1>1, <2>1
  <2>3. SubSeq(c, 1, h)[base + 1] = c[base + 1] /\ SubSeq(d, 1, h)[base + 1] = d[base + 1]
    BY <1>1, <2>2
  <2>4. SubSeq(c, 1, h)[base + 1] = SubSeq(d, 1, h)[base + 1]
    <3> SubSeq(c, 1, h) = SubSeq(d, 1, h)
      BY <1>3
    <3> QED
      OBVIOUS
  <2>5. c[base + 1] = 2 /\ d[base + 1] = 1
    BY DEF Forked
  <2>6. c[base + 1] = d[base + 1]
    BY <2>3, <2>4, Zenon
  <2> QED
    BY <2>5, <2>6
<1>4. ForkHeight(c, d) = CHOOSE h \in common : \A g \in common : g <= h
  BY DEF ForkHeight
<1>5. ASSUME NEW h \in common, \A g \in common : g <= h
      PROVE  h = base
  BY <1>1, <1>2, <1>3, <1>5
<1> HIDE DEF common
<1> QED
  BY <1>2, <1>3, <1>4, <1>5

-----------------------------------------------------------------------------
(* What nodes know after a step of the network.                            *)

LEMMA ChainTypes ==
  ASSUME Typed
  PROVE  /\ era \in Nat /\ base \in Nat /\ Seq(0..era) \subseteq Seq(0..4)
         /\ \A n \in Nodes : \A c :
              Knows(n, c) => c \in Seq(0..era) /\ c \in Seq(0..4) /\ Len(c) \in Nat
         /\ \A c : Known(c) => c \in Seq(0..era) /\ c \in Seq(0..4) /\ Len(c) \in Nat
<1>1. era \in Nat /\ base \in Nat /\ Seq(0..era) \subseteq Seq(0..4)
  <2> era \in Nat /\ era <= 4 /\ base \in Nat
    BY DEF Typed
  <2> QED
    BY Wider
<1>2. ASSUME NEW n \in Nodes, NEW c, Knows(n, c)
      PROVE  c \in Seq(0..era)
  BY <1>2 DEF Knows, Typed
<1> QED
  BY <1>1, <1>2 DEF Known

LEMMA KnownWhenMet ==
  ASSUME NEW m \in Nodes, NEW n \in Nodes, Meets(m, n)
  PROVE  /\ \A k \in Nodes : \A c : Knows(k, c)' => Knows(k, c) \/ (k = n /\ c = tip[m])
         /\ \A c : Known(c)' => Known(c)
<1>1. \A k \in Nodes : \A c : Knows(k, c)' => Knows(k, c) \/ (k = n /\ c = tip[m])
  BY DEF Meets, TipsBeside, Knows
<1>2. \A c : Known(c)' => Known(c)
  BY <1>1 DEF Known, Knows
<1> QED
  BY <1>1, <1>2

LEMMA KnownWhenExtended ==
  ASSUME Typed, NEW n \in Nodes, Extends(n)
  PROVE  /\ tip'[n] = Append(tip[n], era)
         /\ Len(tip'[n]) = Len(tip[n]) + 1
         /\ \A k \in Nodes \ {n} : tip'[k] = tip[k]
         /\ \A c : Known(c)' => Known(c) \/ c = Append(tip[n], era)
<1>1. tip'[n] = Append(tip[n], era) /\ \A k \in Nodes \ {n} : tip'[k] = tip[k]
  BY DEF Extends, Typed
<1>2. Len(Append(tip[n], era)) = Len(tip[n]) + 1
  <2> tip[n] \in Seq(0..era)
    BY DEF Typed
  <2> QED
    OBVIOUS
<1>3. \A c : Known(c)' => Known(c) \/ c = Append(tip[n], era)
  BY <1>1 DEF Extends, Known, Knows
<1> QED
  BY <1>1, <1>2, <1>3

\* Signers run in three stages between the baseline and the confirmation, and
\* what they are pointed at tells who makes the blocks.
LEMMA WhoExtends ==
  ASSUME Staged, Typed, NEW n \in Nodes, Extends(n)
  PROVE  /\ pc \notin 3..7 \cup 11..14 \cup 18..21 \cup 25..28
         /\ pc \in 7..13 \cup 21..27 => n = GroupBHost
         /\ pc \in 14..20 => n \in GroupA
<1>1. n \in up /\ live # {} /\ \E s \in live : n = hosts[s]
  BY DEF Extends
<1>2. pc \notin 3..7 \cup 11..14 \cup 18..21 \cup 25..28
  BY <1>1 DEF Staged
<1>3. hosts = GroupBHosts => n = GroupBHost
  BY <1>1 DEF GroupBHosts, Typed
<1> QED
  BY <1>1, <1>2, <1>3 DEF Staged

-----------------------------------------------------------------------------
(* What nodes know.                                                        *)

LEMMA NetworkTipsOnly == Typed /\ TipsOnly /\ Network => TipsOnly'
<1> SUFFICES ASSUME Typed, TipsOnly, Network PROVE TipsOnly'
  OBVIOUS
<1>1. CASE \E n \in Nodes : Extends(n)
  <2>1. PICK n \in Nodes : Extends(n)
    BY <1>1
  <2>2. /\ rivals' = rivals /\ tip'[n] = Append(tip[n], era)
        /\ Len(tip'[n]) = Len(tip[n]) + 1
        /\ \A k \in Nodes \ {n} : tip'[k] = tip[k]
    BY <2>1, KnownWhenExtended DEF Extends
  <2>3. ASSUME NEW c \in rivals[n]
        PROVE  Len(c) <= Len(tip'[n]) /\ ~IsPrefix(c, tip'[n])
    <3>1. /\ c \in Seq(0..era) /\ tip[n] \in Seq(0..era) /\ era \in 0..era
          /\ Len(c) \in Nat /\ Len(tip[n]) \in Nat
      BY ChainTypes DEF Knows, Typed
    <3>2. Len(c) <= Len(tip[n]) /\ ~IsPrefix(c, tip[n])
      BY DEF TipsOnly
    <3>3. ~IsPrefix(c, Append(tip[n], era))
      BY <3>1, <3>2, PrefixOfExtended
    <3> QED
      BY <2>2, <3>1, <3>2, <3>3
  <2> QED
    BY <2>2, <2>3 DEF TipsOnly
<1>2. CASE \E m, n \in Nodes : Adopt(m, n) \/ HearOf(m, n)
  <2>1. PICK m \in Nodes, n \in Nodes : Meets(m, n)
    BY <1>2, Relayed
  <2>2. /\ \A k \in Nodes \ {n} : tip'[k] = tip[k] /\ rivals'[k] = rivals[k]
        /\ rivals'[n] = TipsBeside(rivals[n] \cup {tip[m], tip[n]}, tip'[n])
        /\ Len(tip'[n]) >= Len(tip[m])
        /\ tip'[n] = tip[n] \/ Len(tip'[n]) > Len(tip[n])
        /\ tip'[n] \in {tip[m], tip[n]}
    BY <2>1 DEF Meets
  <2>3. Len(tip[m]) \in Nat /\ Len(tip[n]) \in Nat /\ \A c \in rivals[n] : Len(c) \in Nat
    BY ChainTypes DEF Knows
  <2>4. ASSUME NEW c \in rivals'[n]
        PROVE  Len(c) <= Len(tip'[n])
    <3>1. c \in rivals[n] \/ c = tip[m] \/ c = tip[n]
      BY <2>2 DEF TipsBeside
    <3>2. c \in rivals[n] => Len(c) <= Len(tip[n])
      BY DEF TipsOnly
    <3> QED
      BY <2>2, <2>3, <3>1, <3>2
  <2>5. \A c \in rivals'[n] : /\ ~IsPrefix(c, tip'[n])
                              /\ \A d \in rivals'[n] : d # c => ~IsPrefix(c, d)
    BY <2>2 DEF TipsBeside
  <2> QED
    BY <2>2, <2>4, <2>5 DEF TipsOnly
<1>3. CASE UNCHANGED <<tip, rivals>>
  BY <1>3 DEF TipsOnly
<1> QED
  BY <1>1, <1>2, <1>3, NetworkMoves

LEMMA NetworkLongest == Staged /\ Typed /\ Longest /\ Network => Longest'
<1> SUFFICES ASSUME Staged, Typed, Longest, Network PROVE Longest'
  OBVIOUS
<1>1. PICK w \in Nodes : /\ \A k \in Nodes : Len(tip[k]) <= Len(tip[w])
                         /\ pc \in {3, 25} /\ w \in DOMAIN seen => seen[w] = tip[w]
  BY DEF Longest
<1>2. UNCHANGED <<pc, seen>>
  BY NetworkMoves DEF script
<1>3. \A k \in Nodes : Len(tip[k]) \in Nat
  BY ChainTypes DEF Knows
<1>4. CASE \E n \in Nodes : Extends(n)
  <2>1. PICK n \in Nodes : Extends(n)
    BY <1>4
  <2>2. /\ Len(tip'[n]) = Len(tip[n]) + 1 /\ \A k \in Nodes \ {n} : tip'[k] = tip[k]
        /\ pc \notin {3, 25}
    BY <2>1, KnownWhenExtended, WhoExtends
  <2>3. CASE Len(tip[n]) + 1 <= Len(tip[w])
    <3>1. tip'[w] = tip[w] /\ \A k \in Nodes : Len(tip'[k]) <= Len(tip[w])
      BY <1>1, <1>3, <2>2, <2>3
    <3> QED
      BY <1>2, <2>2, <3>1 DEF Longest
  <2>4. CASE Len(tip[n]) + 1 > Len(tip[w])
    <3>1. \A k \in Nodes : Len(tip'[k]) <= Len(tip'[n])
      BY <1>1, <1>3, <2>2, <2>4
    <3> QED
      BY <1>2, <2>2, <3>1 DEF Longest
  <2> QED
    BY <1>3, <2>3, <2>4
<1>5. CASE \E m, n \in Nodes : Adopt(m, n) \/ HearOf(m, n)
  <2>1. PICK m \in Nodes, n \in Nodes : Meets(m, n)
    BY <1>5, Relayed
  <2>2. /\ \A k \in Nodes \ {n} : tip'[k] = tip[k]
        /\ tip'[n] = tip[n] \/ Len(tip'[n]) > Len(tip[n])
        /\ tip'[n] \in {tip[m], tip[n]}
    BY <2>1 DEF Meets
  <2>3. tip'[w] = tip[w] /\ \A k \in Nodes : Len(tip'[k]) <= Len(tip'[w])
    BY <1>1, <1>3, <2>2
  <2> QED
    BY <1>1, <1>2, <2>3 DEF Longest
<1>6. CASE UNCHANGED <<tip, rivals>>
  BY <1>2, <1>6 DEF Longest
<1> QED
  BY <1>4, <1>5, <1>6, NetworkMoves

-----------------------------------------------------------------------------
(* The baseline.                                                           *)

LEMMA OnePossibleChain ==
  ASSUME NEW c \in Seq(0..0), NEW d \in Seq(0..0), Len(c) <= Len(d)
  PROVE  IsPrefix(c, d)
<1>1. Len(c) \in Nat /\ Len(d) \in Nat
  OBVIOUS
<1>2. /\ \A i \in 1..Len(c) : c[i] = 0
      /\ \A i \in 1..Len(d) : d[i] = 0
  OBVIOUS
<1>3. \A i \in 1..Len(c) : c[i] = d[i]
  BY <1>1, <1>2
<1> QED
  BY <1>3, PrefixIs

LEMMA ExtendedOnBaseline ==
  ASSUME base \in Nat, NEW c \in Seq(0..4), NEW b \in 1..4, OnBaseline(c)
  PROVE  OnBaseline(Append(c, b))
<1>1. /\ Len(c) \in Nat /\ Len(Append(c, b)) = Len(c) + 1
      /\ \A i \in 1..Len(c) : Append(c, b)[i] = c[i]
      /\ Append(c, b)[Len(c) + 1] = b
  OBVIOUS
<1>2. ASSUME NEW i \in 1..Len(c) + 1
      PROVE  Append(c, b)[i] = 0 <=> i <= base
  <2>1. CASE i \in 1..Len(c)
    BY <1>1, <2>1 DEF OnBaseline
  <2>2. CASE i = Len(c) + 1
    BY <1>1, <2>2 DEF OnBaseline
  <2> QED
    BY <1>1, <2>1, <2>2
<1> QED
  BY <1>1, <1>2 DEF OnBaseline

LEMMA NetworkBaseline == Staged /\ Typed /\ Baseline /\ Network => Baseline'
<1> SUFFICES ASSUME Staged, Typed, Baseline, Network PROVE Baseline'
  OBVIOUS
<1>1. UNCHANGED <<pc, era, base>> /\ base \in Nat /\ pc \in 0..30
  BY NetworkMoves DEF script, Typed, Staged
<1>2. \A c : OnBaseline(c)' <=> OnBaseline(c)
  BY <1>1 DEF OnBaseline
<1>3. CASE \E n \in Nodes : Extends(n)
  <2>1. PICK n \in Nodes : Extends(n)
    BY <1>3
  <2>2. rivals' = rivals /\ \A c : Known(c)' => Known(c) \/ c = Append(tip[n], era)
    BY <2>1, KnownWhenExtended DEF Extends
  <2>3. ASSUME pc >= 4 PROVE OnBaseline(Append(tip[n], era))
    <3>1. pc \notin 3..7
      BY <2>1, WhoExtends
    <3>2. pc \in 8..30
      BY <1>1, <2>3, <3>1
    <3>3. era \in 1..4
      BY <3>2 DEF Staged
    <3>4. tip[n] \in Seq(0..4)
      BY ChainTypes DEF Knows
    <3>5. OnBaseline(tip[n])
      BY <2>3 DEF Baseline, Known, Knows
    <3> QED
      BY <1>1, <3>3, <3>4, <3>5, ExtendedOnBaseline
  <2> QED
    BY <1>1, <1>2, <2>2, <2>3 DEF Baseline
<1>4. CASE \E m, n \in Nodes : Adopt(m, n) \/ HearOf(m, n)
  <2>1. PICK m \in Nodes, n \in Nodes : Meets(m, n)
    BY <1>4, Relayed
  <2>2. \A c : Known(c)' => Known(c)
    BY <2>1, KnownWhenMet
  <2>3. ASSUME era = 0 PROVE rivals'[n] = {}
    <3>1. /\ tip[m] \in Seq(0..0) /\ tip[n] \in Seq(0..0) /\ rivals[n] = {}
          /\ Len(tip[m]) \in Nat /\ Len(tip[n]) \in Nat
      BY <2>3, ChainTypes DEF Typed, Baseline, Knows
    <3>2. /\ tip'[n] \in {tip[m], tip[n]} /\ Len(tip'[n]) >= Len(tip[m])
          /\ tip'[n] = tip[n] \/ Len(tip'[n]) > Len(tip[n])
          /\ rivals'[n] = TipsBeside({tip[m], tip[n]}, tip'[n])
      BY <2>1, <3>1 DEF Meets
    <3>3. /\ tip'[n] \in Seq(0..0) /\ Len(tip[m]) <= Len(tip'[n])
          /\ Len(tip[n]) <= Len(tip'[n])
      BY <3>1, <3>2
    <3>4. \A c \in {tip[m], tip[n]} : IsPrefix(c, tip'[n])
      BY <3>1, <3>3, OnePossibleChain
    <3> QED
      BY <3>2, <3>4 DEF TipsBeside
  <2>4. era = 0 => \A k \in Nodes : rivals'[k] = {}
    BY <2>1, <2>3 DEF Meets, Baseline
  <2> QED
    BY <1>1, <1>2, <2>2, <2>4 DEF Baseline
<1>5. CASE UNCHANGED <<tip, rivals>>
  BY <1>1, <1>2, <1>5 DEF Baseline, Known, Knows
<1> QED
  BY <1>3, <1>4, <1>5, NetworkMoves

\* When the gather has found equal tips no block is missing anywhere.
LEMMA BaselineTaken ==
  ASSUME Typed, ReadOnce, Longest, pc = 3, AllSeen,
         \A m, n \in Nodes : seen[m] = seen[n]
  PROVE  \A n \in Nodes : Len(tip[n]) = Len(seen[GroupAHost])
<1>1. PICK w \in Nodes : /\ \A k \in Nodes : Len(tip[k]) <= Len(tip[w])
                         /\ seen[w] = tip[w]
  BY DEF Longest, AllSeen
<1>2. \A n \in Nodes : seen[n] = tip[w]
  BY <1>1
<1>3. \A n \in Nodes : Len(tip[n]) \in Nat
  BY ChainTypes DEF Knows
<1>4. \A n \in Nodes : seen[n] = tip[n] \/ Len(seen[n]) < Len(tip[n])
  BY DEF ReadOnce, AllSeen
<1>5. ASSUME NEW n \in Nodes PROVE Len(tip[n]) = Len(tip[w])
  <2>1. Len(tip[n]) <= Len(tip[w]) /\ (tip[n] = tip[w] \/ Len(tip[w]) < Len(tip[n]))
    BY <1>1, <1>2, <1>4
  <2> QED
    BY <1>3, <2>1
<1> QED
  BY <1>2, <1>5, Groups

LEMMA ScriptBaseline ==
  Staged /\ Typed /\ ReadOnce /\ Longest /\ Baseline /\ Script => Baseline'
<1> SUFFICES ASSUME Staged, Typed, ReadOnce, Longest, Baseline, Script
             PROVE  Baseline'
  OBVIOUS
<1>1. UNCHANGED <<tip, rivals>> /\ \A c : Known(c)' <=> Known(c)
  BY ScriptLeavesChains DEF Known, Knows
<1>2. /\ pc \in 1..29 /\ pc' \in {0, pc, pc + 1}
      /\ pc' # 0 => Remembers /\ Requires /\ Gathers
  BY ScriptSteps DEF Staged
<1>3. era' = 0 => era = 0
  BY DEF Script, StopsGroup, StartsGroup, Repoints, StartsSigners, StopsSigners,
         SeesSignersRunning, HeightReached, ReadsTip, ReadsForMatch, NodeHoldsTie,
         NodeConverged, TipsMatch, TipsDiffer, TieHolds, Converged, TogglesPause, Raises,
         network, Typed
<1>4. CASE pc >= 4 \/ pc' < 4
  <2>1. pc' >= 4 => base' = base
    BY <1>2, <1>4 DEF Remembers
  <2> QED
    BY <1>1, <1>2, <1>3, <1>4, <2>1 DEF Baseline, OnBaseline
<1>5. CASE pc = 3 /\ pc' = 4
  <2>1. base' = Len(seen[GroupAHost]) /\ era = 0
    BY <1>2, <1>5 DEF Remembers, Staged
  <2>2. \A n \in Nodes : Len(tip[n]) = base' /\ tip[n] \in Seq(0..0) /\ rivals[n] = {}
    BY <1>2, <1>5, <2>1, BaselineTaken DEF Requires, Typed, Baseline
  <2>3. \A c : Known(c) => c \in Seq(0..0) /\ Len(c) = base'
    BY <2>2 DEF Known, Knows
  <2>4. ASSUME NEW c \in Seq(0..0), Len(c) = base' PROVE OnBaseline(c)'
    <3>1. \A i \in 1..Len(c) : c[i] = 0 /\ i <= Len(c)
      OBVIOUS
    <3>2. Len(c) \in Nat
      OBVIOUS
    <3> QED
      BY <2>4, <3>1, <3>2 DEF OnBaseline
  <2>5. \A c : Known(c)' => OnBaseline(c)'
    BY <1>1, <2>3, <2>4
  <2> QED
    BY <1>1, <1>3, <2>5 DEF Baseline
<1> QED
  BY <1>2, <1>4, <1>5

LEMMA ScriptLongest == Staged /\ ReadOnce /\ Longest /\ Script => Longest'
<1> SUFFICES ASSUME Staged, ReadOnce, Longest, Script PROVE Longest'
  OBVIOUS
<1>1. UNCHANGED tip
  BY ScriptLeavesChains
<1>2. /\ pc \in 1..29 /\ pc' \in {0, pc, pc + 1}
      /\ pc' # 0 => Gathers
  BY ScriptSteps DEF Staged
<1>3. PICK w \in Nodes : /\ \A k \in Nodes : Len(tip[k]) <= Len(tip[w])
                         /\ pc \in {3, 25} /\ w \in DOMAIN seen => seen[w] = tip[w]
  BY DEF Longest
<1>4. ASSUME pc' \in {3, 25}, w \in DOMAIN seen'
      PROVE  seen'[w] = tip[w]
  <2>1. DOMAIN <<>> = {} /\ Gathers
    BY <1>2, <1>4
  <2>2. CASE pc' = pc + 1
    <3> seen' = seen /\ DOMAIN seen = {}
      BY <1>2, <1>4, <2>1, <2>2 DEF Gathers, ReadOnce
    <3> QED
      BY <1>4
  <2>3. CASE pc' = pc
    <3>1. PICK n \in Nodes \ DOMAIN seen : seen' = SeenWith(n)
      BY <1>4, <2>1, <2>3 DEF Gathers
    <3> QED
      BY <1>3, <1>4, <2>3, <3>1 DEF SeenWith
  <2> QED
    BY <1>2, <1>4, <2>2, <2>3
<1> QED
  BY <1>1, <1>3, <1>4 DEF Longest

-----------------------------------------------------------------------------
(* What the script has recorded.                                           *)

LEMMA FirstBlockAbove ==
  ASSUME base \in Nat, NEW c \in Seq(0..4), OnBaseline(c), Len(c) > base
  PROVE  \E by \in Blocks(c) : by # 0 /\ Forked(c, by)
<1>1. base + 1 \in 1..Len(c) /\ ~(base + 1 <= base)
  OBVIOUS
<1>2. c[base + 1] # 0
  BY <1>1 DEF OnBaseline
<1>3. DOMAIN c = 1..Len(c)
  OBVIOUS
<1> QED
  BY <1>1, <1>2, <1>3 DEF Blocks, Forked

LEMMA LengthsGrow ==
  ASSUME IInv, Network
  PROVE  \A n \in Nodes : /\ Len(tip[n]) \in Nat /\ Len(tip'[n]) \in Nat
                         /\ Len(tip'[n]) >= Len(tip[n])
<1>1. Typed /\ Typed'
  BY StepTyped DEF IInv, Next
<1>2. \A n \in Nodes : Len(tip[n]) \in Nat /\ Len(tip'[n]) \in Nat
  BY <1>1 DEF Typed
<1> QED
  BY <1>1, <1>2, Grows

LEMMA NetworkRecorded == IInv /\ Recorded /\ Network => Recorded'
<1> SUFFICES ASSUME IInv, Recorded, Network PROVE Recorded'
  OBVIOUS
<1>1. UNCHANGED <<pc, base, tipA, tipB>>
  BY NetworkMoves DEF script, IInv
<1>2. \A n \in Nodes : /\ Len(tip[n]) \in Nat /\ Len(tip'[n]) \in Nat
                     /\ Len(tip'[n]) >= Len(tip[n])
  BY LengthsGrow
<1>3. base + ForkLength \in Nat /\ base + ForkLength + 2 \in Nat
  BY ReorgAssumption DEF IInv, Typed
<1>4. /\ pc >= 9 => Len(tip'[GroupBHost]) >= base + ForkLength
      /\ pc = 16 => Len(tip'[GroupAHost]) >= base + ForkLength
      /\ pc = 23 => Len(tip'[GroupBHost]) >= base + ForkLength + 2
  <2>1. /\ Len(tip'[GroupBHost]) >= Len(tip[GroupBHost])
        /\ Len(tip'[GroupAHost]) >= Len(tip[GroupAHost])
        /\ Len(tip[GroupBHost]) \in Nat /\ Len(tip[GroupAHost]) \in Nat
        /\ Len(tip'[GroupBHost]) \in Nat /\ Len(tip'[GroupAHost]) \in Nat
    BY <1>2, Groups
  <2>2. /\ pc >= 9 => Len(tip[GroupBHost]) >= base + ForkLength
        /\ pc = 16 => Len(tip[GroupAHost]) >= base + ForkLength
        /\ pc = 23 => Len(tip[GroupBHost]) >= base + ForkLength + 2
    BY DEF Recorded
  <2> QED
    BY <1>3, <2>1, <2>2
<1> QED
  BY <1>1, <1>4 DEF Recorded, OnBaseline, Forked

LEMMA ScriptRecorded ==
  IInv /\ Baseline /\ Recorded /\ Script => Recorded'
<1> SUFFICES ASSUME IInv, Baseline, Recorded, Script PROVE Recorded'
  OBVIOUS
<1>1. UNCHANGED <<tip, rivals>> /\ Staged /\ Typed /\ Apart /\ ForkLength \in Nat \ {0}
  BY ScriptLeavesChains, ReorgAssumption DEF IInv
<1>2. /\ pc \in 1..29 /\ pc' \in {0, pc, pc + 1}
      /\ pc' # 0 => Remembers /\ Requires /\ Gathers
  BY <1>1, ScriptSteps DEF Staged
<1>3. /\ base \in Nat /\ Len(tip[GroupBHost]) \in Nat /\ Len(tip[GroupAHost]) \in Nat
      /\ tip[GroupBHost] \in Seq(0..4) /\ tip[GroupAHost] \in Seq(0..4)
  BY <1>1, ChainTypes, Groups DEF Knows
<1>4. pc' # 0 /\ pc' # 4 => base' = base
  BY <1>2 DEF Remembers
<1>5. /\ pc' >= 9 => Len(tip[GroupBHost]) >= base + ForkLength
      /\ pc' = 16 => Len(tip[GroupAHost]) >= base + ForkLength
      /\ pc' = 23 => Len(tip[GroupBHost]) >= base + ForkLength + 2
  BY <1>1, <1>2, <1>3 DEF Requires, Gathers, Recorded
<1>6. pc >= 4 => OnBaseline(tip[GroupAHost]) /\ OnBaseline(tip[GroupBHost])
  BY Groups DEF Baseline, Known, Knows
<1>7. pc' \in 10..23 =>
        OnBaseline(tipB') /\ Forked(tipB', 1) /\ Len(tipB') >= base + ForkLength
  <2>1. CASE pc \in 10..22 \/ (pc = 23 /\ pc' = 23)
    <3> pc' # 0 => tipB' = tipB
      BY <1>2, <2>1 DEF Remembers, Gathers
    <3> QED
      BY <1>2, <2>1 DEF Recorded
  <2>2. CASE pc = 9 /\ pc' = 10
    <3>1. tipB' = tip[GroupBHost] /\ Len(tip[GroupBHost]) >= base + ForkLength
      BY <1>2, <2>2 DEF Remembers, Recorded
    <3>2. Blocks(tip[GroupBHost]) \subseteq 0..1
      <4> tip[GroupBHost] \in Seq(0..1)
        BY <1>1, <2>2, Groups DEF Typed, Staged
      <4> QED
        BY BlocksUpTo
    <3>3. Forked(tip[GroupBHost], 1)
      <4>1. Len(tip[GroupBHost]) > base /\ OnBaseline(tip[GroupBHost])
        BY <1>1, <1>3, <1>6, <2>2, <3>1
      <4>2. PICK by \in Blocks(tip[GroupBHost]) : by # 0 /\ Forked(tip[GroupBHost], by)
        BY <1>3, <4>1, FirstBlockAbove
      <4> QED
        BY <3>2, <4>2
    <3> QED
      BY <1>6, <2>2, <3>1, <3>3
  <2> QED
    BY <1>2, <2>1, <2>2 DEF Gathers
<1>8. pc' >= 17 =>
        OnBaseline(tipA') /\ Forked(tipA', 2) /\ Len(tipA') >= base + ForkLength
  <2>1. CASE pc >= 17
    <3> pc' # 0 => tipA' = tipA
      BY <1>2, <2>1 DEF Remembers
    <3> QED
      BY <1>2, <2>1 DEF Recorded
  <2>2. CASE pc = 16 /\ pc' = 17
    <3>1. tipA' = tip[GroupAHost] /\ Len(tip[GroupAHost]) >= base + ForkLength
      BY <1>2, <2>2 DEF Remembers, Recorded
    <3>2. Blocks(tip[GroupAHost]) \subseteq 0..2 /\ 1 \notin Blocks(tip[GroupAHost])
      <4>1. tip[GroupAHost] \in Seq(0..2)
        BY <1>1, <2>2, Groups DEF Typed, Staged
      <4>2. 1 \notin Blocks(tip[GroupAHost])
        BY <1>1, <2>2, Groups DEF Apart
      <4> QED
        BY <4>1, <4>2, BlocksUpTo
    <3>3. Forked(tip[GroupAHost], 2)
      <4>1. Len(tip[GroupAHost]) > base /\ OnBaseline(tip[GroupAHost])
        BY <1>1, <1>3, <1>6, <2>2, <3>1
      <4>2. PICK by \in Blocks(tip[GroupAHost]) : by # 0 /\ Forked(tip[GroupAHost], by)
        BY <1>3, <4>1, FirstBlockAbove
      <4> QED
        BY <3>2, <4>2
    <3> QED
      BY <1>6, <2>2, <3>1, <3>3
  <2> QED
    BY <1>2, <2>1, <2>2
<1>9. pc' >= 24 => OnBaseline(tipB') /\ Len(tipB') >= base + ForkLength + 2
  <2>1. CASE pc >= 24
    <3> pc' # 0 => tipB' = tipB
      BY <1>2, <2>1 DEF Remembers
    <3> QED
      BY <1>2, <2>1 DEF Recorded
  <2>2. CASE pc = 23 /\ pc' = 24
    <3>1. tipB' = tip[GroupBHost] /\ Len(tip[GroupBHost]) >= base + ForkLength + 2
      BY <1>2, <2>2 DEF Remembers, Recorded
    <3> QED
      BY <1>6, <2>2, <3>1
  <2> QED
    BY <1>2, <2>1, <2>2
<1> QED
  BY <1>1, <1>2, <1>4, <1>5, <1>7, <1>8, <1>9 DEF Recorded, OnBaseline, Forked

-----------------------------------------------------------------------------
(* Group B's host and its fork.                                            *)

LEMMA ForkedBlock ==
  ASSUME base \in Nat, NEW c \in Seq(0..4), NEW by, Forked(c, by)
  PROVE  by \in Blocks(c)
<1>1. DOMAIN c = 1..Len(c) /\ Len(c) \in Nat
  OBVIOUS
<1>2. base + 1 \in 1..Len(c) /\ c[base + 1] = by
  BY <1>1 DEF Forked
<1> QED
  BY <1>1, <1>2 DEF Blocks

LEMMA NetworkHostIsLongest ==
  ASSUME IInv, HostKeepsFork, Network, pc \in 7..25
  PROVE  \A c : Known(c)' /\ Forked(c, 1) => Len(c) <= Len(tip'[GroupBHost])
<1>1. /\ \A c : Known(c) => c \in Seq(0..4) /\ Len(c) \in Nat
      /\ \A n \in Nodes : tip[n] \in Seq(0..4)
      /\ base \in Nat /\ era \in Nat /\ era <= 4
      /\ Len(tip[GroupBHost]) \in Nat /\ Len(tip'[GroupBHost]) \in Nat
      /\ Len(tip'[GroupBHost]) >= Len(tip[GroupBHost])
  BY ChainTypes, LengthsGrow, Groups, SMTT(30) DEF IInv, Knows, Typed
<1>2. \A c : Known(c) /\ Forked(c, 1) => Len(c) <= Len(tip'[GroupBHost])
  <2> \A c : Known(c) /\ Forked(c, 1) => Len(c) <= Len(tip[GroupBHost])
    BY DEF HostKeepsFork
  <2> QED
    BY <1>1
<1>3. CASE \E n \in Nodes : Extends(n)
  <2>1. PICK n \in Nodes : Extends(n)
    BY <1>3
  <2>2. /\ tip'[n] = Append(tip[n], era)
        /\ \A c : Known(c)' => Known(c) \/ c = tip'[n]
    BY <2>1, KnownWhenExtended DEF IInv
  <2>3. CASE n = GroupBHost
    BY <1>1, <1>2, <2>2, <2>3
  <2>4. CASE n # GroupBHost
    <3>1. pc \in 15..17 /\ n \in GroupA
      BY <2>1, <2>4, WhoExtends DEF IInv
    <3>2. 1 \notin Blocks(tip'[n])
      BY <3>1, NetworkApart, NetworkMoves DEF IInv, Apart, script
    <3>3. tip'[n] \in Seq(0..4)
      <4> Append(tip[n], era) \in Seq(0..4)
        BY <1>1
      <4> QED
        BY <2>2
    <3>4. ~Forked(tip'[n], 1)
      BY <1>1, <3>2, <3>3, ForkedBlock
    <3> QED
      BY <1>2, <2>2, <3>4
  <2> QED
    BY <2>3, <2>4
<1>4. CASE \E m, n \in Nodes : Adopt(m, n) \/ HearOf(m, n)
  BY <1>2, <1>4, Relayed, KnownWhenMet DEF IInv
<1>5. CASE UNCHANGED <<tip, rivals>>
  BY <1>2, <1>5 DEF Known, Knows
<1> QED
  BY <1>3, <1>4, <1>5, NetworkMoves DEF IInv

\* Of the chains of a fork that a node knows one that no other extends stays
\* when the node takes over a chain of another fork.
LEMMA ForkSurvives ==
  ASSUME Typed, NEW m \in Nodes, NEW n \in Nodes, Meets(m, n), NEW by,
         ~Forked(tip'[n], by), NEW c, Knows(n, c) \/ c = tip[m], Forked(c, by),
         \A d : (Knows(n, d) \/ d = tip[m]) /\ d # c => ~IsPrefix(c, d)
  PROVE  c \in rivals'[n]
<1>1. /\ base \in Nat /\ tip'[n] \in {tip[m], tip[n]}
      /\ rivals'[n] = TipsBeside(rivals[n] \cup {tip[m], tip[n]}, tip'[n])
  BY DEF Typed, Meets
<1>2. c \in Seq(0..4) /\ tip'[n] \in Seq(0..4)
  BY <1>1, ChainTypes DEF Knows
<1>3. ~IsPrefix(c, tip'[n])
  BY <1>1, <1>2, PrefixCarriesFork
<1> QED
  BY <1>1, <1>3 DEF TipsBeside, Knows

LEMMA NetworkHostRemembers ==
  ASSUME IInv, TipsOnly, HostKeepsFork, Network, pc \in 9..25
  PROVE  Forked(tip'[GroupBHost], 1) \/ \E c \in rivals'[GroupBHost] : Forked(c, 1)
<1> DEFINE h == GroupBHost
<1>1. Forked(tip[h], 1) \/ \E c \in rivals[h] : Forked(c, 1)
  BY DEF HostKeepsFork
<1>2. h \in Nodes /\ Typed /\ base \in Nat /\ tip[h] \in Seq(0..4) /\ era \in 0..4
  BY Groups, ChainTypes DEF IInv, Typed, Knows
<1>3. CASE \E n \in Nodes : Extends(n)
  <2>1. PICK n \in Nodes : Extends(n)
    BY <1>3
  <2>2. /\ tip'[n] = Append(tip[n], era) /\ rivals' = rivals
        /\ \A k \in Nodes \ {n} : tip'[k] = tip[k]
    BY <1>2, <2>1, KnownWhenExtended DEF Extends
  <2>3. Forked(tip[h], 1) => Forked(Append(tip[h], era), 1)
    <3>1. IsPrefix(tip[h], Append(tip[h], era)) /\ Append(tip[h], era) \in Seq(0..4)
      BY <1>2, PrefixOfExtended
    <3> QED
      BY <1>2, <3>1, PrefixCarriesFork
  <2> QED
    BY <1>1, <1>2, <2>2, <2>3
<1>4. CASE \E m, n \in Nodes : Adopt(m, n) \/ HearOf(m, n)
  <2>1. PICK m \in Nodes, n \in Nodes : Meets(m, n)
    BY <1>2, <1>4, Relayed
  <2>2. CASE n # h
    BY <1>1, <1>2, <2>1, <2>2 DEF Meets
  <2>3. ASSUME n = h, ~Forked(tip'[h], 1)
        PROVE  \E c \in rivals'[h] : Forked(c, 1)
    <3>1. \A d : Knows(h, d) \/ d = tip[m] => d \in Seq(0..4) /\ Len(d) \in Nat
      BY <1>2, ChainTypes DEF Knows
    <3>2. \A d : (Knows(h, d) \/ d = tip[m]) /\ Forked(d, 1) => Len(d) <= Len(tip[h])
      BY <1>2 DEF HostKeepsFork, Known, Knows
    <3>3. CASE Forked(tip[h], 1)
      <4>1. \A d : (Knows(h, d) \/ d = tip[m]) /\ d # tip[h] => ~IsPrefix(tip[h], d)
        BY <1>2, <3>1, <3>2, <3>3, SameLength, PrefixCarriesFork
      <4> QED
        BY <1>2, <2>1, <2>3, <3>3, <4>1, ForkSurvives DEF Knows
    <3>4. CASE ~Forked(tip[h], 1)
      <4>1. PICK c \in rivals[h] : Forked(c, 1)
        BY <1>1, <3>4
      <4>2. \A d \in rivals[h] : d # c => ~IsPrefix(c, d)
        BY <1>2 DEF TipsOnly
      <4>3. \A e : Knows(h, e) /\ Forked(e, 1) => e \in rivals[h]
        BY <3>4 DEF Knows
      <4>4. CASE ~IsPrefix(c, tip[m]) \/ tip[m] = c
        <5>1. \A d : (Knows(h, d) \/ d = tip[m]) /\ d # c => ~IsPrefix(c, d)
          BY <1>2, <3>1, <4>1, <4>2, <4>3, <4>4, PrefixCarriesFork DEF Knows
        <5> QED
          BY <1>2, <2>1, <2>3, <4>1, <5>1, ForkSurvives DEF Knows
      <4>5. CASE IsPrefix(c, tip[m]) /\ tip[m] # c
        <5>1. Forked(tip[m], 1)
          BY <1>2, <3>1, <4>1, <4>5, PrefixCarriesFork DEF Knows
        <5>2. ASSUME NEW e, Knows(h, e) \/ e = tip[m], e # tip[m], IsPrefix(tip[m], e)
              PROVE  FALSE
          <6>1. e \in Seq(0..4) /\ tip[m] \in Seq(0..4) /\ c \in Seq(0..4)
            BY <3>1, <4>1, <5>2 DEF Knows
          <6>2. e \in rivals[h]
            BY <1>2, <4>3, <5>1, <5>2, <6>1, PrefixCarriesFork
          <6>3. IsPrefix(c, e)
            BY <4>5, <5>2, <6>1, PrefixOfPrefix
          <6>4. e = c
            BY <4>2, <6>2, <6>3
          <6>5. Len(tip[m]) <= Len(c) 
            BY <5>2, <6>1, <6>4, PrefixIs
          <6> QED
            BY <4>5, <6>1, <6>5, SameLength
        <5> QED
          BY <1>2, <2>1, <2>3, <5>1, <5>2, ForkSurvives
      <4> QED
        BY <4>4, <4>5
    <3> QED
      BY <3>3, <3>4
  <2> QED
    BY <2>2, <2>3
<1>5. CASE UNCHANGED <<tip, rivals>>
  BY <1>1, <1>5
<1> QED
  BY <1>2, <1>3, <1>4, <1>5, NetworkMoves

LEMMA NetworkHostKeepsFork ==
  IInv /\ TipsOnly /\ HostKeepsFork /\ Network => HostKeepsFork'
<1> SUFFICES ASSUME IInv, TipsOnly, HostKeepsFork, Network PROVE HostKeepsFork'
  OBVIOUS
<1>1. UNCHANGED <<pc, base>> /\ \A c, by : Forked(c, by)' <=> Forked(c, by)
  BY NetworkMoves DEF script, Forked, IInv
<1>2. pc \in 7..25 =>
        \A c : Known(c)' /\ Forked(c, 1) => Len(c) <= Len(tip'[GroupBHost])
  BY NetworkHostIsLongest
<1>3. pc \in 9..25 =>
        Forked(tip'[GroupBHost], 1) \/ \E c \in rivals'[GroupBHost] : Forked(c, 1)
  BY NetworkHostRemembers
<1> QED
  BY <1>1, <1>2, <1>3 DEF HostKeepsFork, Forked

LEMMA ScriptHostKeepsFork ==
  IInv /\ Baseline /\ HostKeepsFork /\ Script => HostKeepsFork'
<1> SUFFICES ASSUME IInv, Baseline, HostKeepsFork, Script PROVE HostKeepsFork'
  OBVIOUS
<1>1. /\ UNCHANGED <<tip, rivals>> /\ \A c : Known(c)' <=> Known(c)
      /\ Staged /\ Typed /\ ForkLength \in Nat \ {0}
  BY ScriptLeavesChains, ReorgAssumption DEF IInv, Known, Knows
<1>2. /\ pc \in 1..29 /\ pc' \in {0, pc, pc + 1}
      /\ pc' # 0 => Remembers /\ Requires /\ Gathers
  BY <1>1, ScriptSteps DEF Staged
<1>3. pc' \in 7..25 => base' = base
  BY <1>2 DEF Remembers
<1>4. base \in Nat /\ tip[GroupBHost] \in Seq(0..4) /\ Len(tip[GroupBHost]) \in Nat
  BY <1>1, ChainTypes, Groups DEF Knows
<1>5. pc' \in 7..25 => \A c : Known(c) /\ Forked(c, 1) => Len(c) <= Len(tip[GroupBHost])
  <2>1. CASE pc \in 7..25
    BY <2>1 DEF HostKeepsFork
  <2>2. CASE pc = 6
    <3>1. \A c : Known(c) => c \in Seq(0..0) /\ c \in Seq(0..4)
      BY <1>1, <2>2, ChainTypes DEF Staged
    <3>2. \A c : Known(c) => 1 \notin Blocks(c)
      BY <3>1, BlocksUpTo
    <3> QED
      BY <1>4, <3>1, <3>2, ForkedBlock
  <2> QED
    BY <1>2, <2>1, <2>2
<1>6. pc' \in 9..25 =>
        Forked(tip[GroupBHost], 1) \/ \E c \in rivals[GroupBHost] : Forked(c, 1)
  <2>1. CASE pc \in 9..25
    BY <2>1 DEF HostKeepsFork
  <2>2. CASE pc = 8 /\ pc' = 9
    <3>1. Len(tip[GroupBHost]) > base /\ OnBaseline(tip[GroupBHost])
      BY <1>1, <1>2, <1>4, <2>2, Groups DEF Requires, Baseline, Known, Knows
    <3>2. Blocks(tip[GroupBHost]) \subseteq 0..1
      <4> tip[GroupBHost] \in Seq(0..1)
        BY <1>1, <2>2, Groups DEF Typed, Staged
      <4> QED
        BY BlocksUpTo
    <3>3. PICK by \in Blocks(tip[GroupBHost]) : by # 0 /\ Forked(tip[GroupBHost], by)
      BY <1>4, <3>1, FirstBlockAbove
    <3> QED
      BY <3>2, <3>3
  <2> QED
    BY <1>2, <2>1, <2>2 DEF Gathers
<1>7. pc' \in 7..25 => \A c, by : Forked(c, by)' <=> Forked(c, by)
  BY <1>3 DEF Forked
<1>8. pc' \in 7..25 =>
        \A c : Known(c)' /\ Forked(c, 1)' => Len(c) <= Len(tip'[GroupBHost])
  BY <1>1, <1>5, <1>7
<1>9. pc' \in 9..25 =>
        Forked(tip[GroupBHost], 1)' \/ \E c \in rivals[GroupBHost]' : Forked(c, 1)'
  <2> SUFFICES ASSUME pc' \in 9..25
               PROVE  Forked(tip[GroupBHost], 1)' \/ \E c \in rivals[GroupBHost]' : Forked(c, 1)'
    OBVIOUS
  <2> QED
    BY <1>1, <1>6, <1>7
<1> QED
  BY <1>8, <1>9 DEF HostKeepsFork

-----------------------------------------------------------------------------
(* Group A's fork.                                                         *)

LEMMA HostStaysOrJoins ==
  ASSUME IInv, Recorded, HostKeepsFork, Network, pc \in 18..25,
         Forked(tip'[GroupBHost], 1)
  PROVE  Forked(tip[GroupBHost], 1)
<1> DEFINE h == GroupBHost
<1>1. /\ h \in Nodes /\ Typed /\ base \in Nat /\ era \in 0..4
      /\ tip[h] \in Seq(0..4) /\ Len(tip[h]) \in Nat /\ Len(tip[h]) > base
  <2>1. Len(tip[h]) >= base + ForkLength /\ ForkLength \in Nat \ {0}
    BY ReorgAssumption DEF Recorded
  <2>2. /\ h \in Nodes /\ Typed /\ base \in Nat /\ era \in 0..4
        /\ tip[h] \in Seq(0..4) /\ Len(tip[h]) \in Nat
    BY Groups, ChainTypes DEF IInv, Typed, Knows
  <2> QED
    BY <2>1, <2>2
<1>2. CASE \E n \in Nodes : Extends(n)
  <2>1. PICK n \in Nodes : Extends(n)
    BY <1>2
  <2>2. /\ tip'[n] = Append(tip[n], era) /\ \A k \in Nodes \ {n} : tip'[k] = tip[k]
    BY <1>1, <2>1, KnownWhenExtended
  <2>3. Append(tip[h], era)[base + 1] = tip[h][base + 1]
    BY <1>1
  <2> QED
    BY <1>1, <2>2, <2>3 DEF Forked
<1>3. CASE \E m, n \in Nodes : Adopt(m, n) \/ HearOf(m, n)
  <2>1. PICK m \in Nodes, n \in Nodes : Meets(m, n)
    BY <1>1, <1>3, Relayed
  <2>2. SUFFICES ASSUME tip'[h] # tip[h] PROVE FALSE
    OBVIOUS
  <2>3. tip'[h] = tip[m] /\ Len(tip[m]) > Len(tip[h])
    BY <1>1, <2>1, <2>2 DEF Meets
  <2>4. Len(tip[m]) <= Len(tip[h]) /\ Len(tip[m]) \in Nat
    BY <1>1, <2>3, ChainTypes DEF HostKeepsFork, Known, Knows
  <2> QED
    BY <1>1, <2>3, <2>4
<1>4. CASE UNCHANGED <<tip, rivals>>
  BY <1>4
<1> QED
  BY <1>1, <1>2, <1>3, <1>4, NetworkMoves

LEMMA NetworkTieIsLongest ==
  IInv /\ Recorded /\ HostKeepsFork /\ TieIsLongest /\ Network => TieIsLongest'
<1> SUFFICES ASSUME IInv, Recorded, HostKeepsFork, TieIsLongest, Network
             PROVE  TieIsLongest'
  OBVIOUS
<1>1. /\ UNCHANGED <<pc, base, tipA, seen>>
      /\ \A c, by : Forked(c, by)' <=> Forked(c, by)
  BY NetworkMoves DEF script, Forked, IInv
<1>2. \A n \in Nodes : pc \in 18..21 => ~Extends(n)
  BY WhoExtends DEF IInv
<1>3. ASSUME pc \in 18..19, NEW c, Known(c)', Forked(c, 2), Len(c) > Len(tipA)
      PROVE  \E n \in GroupA \ DOMAIN seen : Len(tip'[n]) > Len(tipA)
  <2>1. Known(c)
    BY <1>2, <1>3, NetworkMoves, Relayed, KnownWhenMet DEF IInv, Known, Knows
  <2>2. PICK n \in GroupA \ DOMAIN seen : Len(tip[n]) > Len(tipA)
    BY <1>3, <2>1 DEF TieIsLongest
  <2>3. /\ Len(tip[n]) \in Nat /\ Len(tip'[n]) \in Nat /\ Len(tipA) \in Nat
        /\ Len(tip'[n]) >= Len(tip[n])
    BY LengthsGrow, Groups DEF IInv, Typed
  <2> QED
    BY <2>2, <2>3
<1>4. ASSUME pc \in 20..25, Forked(tip'[GroupBHost], 1), NEW c, Known(c)', Forked(c, 2)
      PROVE  Len(c) <= Len(tipA)
  <2>1. Forked(tip[GroupBHost], 1)
    BY <1>4, HostStaysOrJoins
  <2>2. Known(c)
    <3>1. CASE \E n \in Nodes : Extends(n)
      <4>1. PICK n \in Nodes : Extends(n)
        BY <3>1
      <4>2. n = GroupBHost
        BY <1>4, <4>1, WhoExtends DEF IInv
      <4>3. Known(c) \/ c = tip'[GroupBHost]
        BY <1>4, <4>1, <4>2, KnownWhenExtended DEF IInv
      <4> QED
        BY <1>4, <4>3 DEF Forked
    <3>2. CASE \E m, n \in Nodes : Adopt(m, n) \/ HearOf(m, n)
      BY <1>4, <3>2, Relayed, KnownWhenMet DEF IInv
    <3>3. CASE UNCHANGED <<tip, rivals>>
      BY <1>4, <3>3 DEF Known, Knows
    <3> QED
      BY <3>1, <3>2, <3>3, NetworkMoves DEF IInv
  <2> QED
    BY <1>4, <2>1, <2>2 DEF TieIsLongest
<1> QED
  BY <1>1, <1>3, <1>4 DEF TieIsLongest, Forked

LEMMA ScriptTieIsLongest ==
  IInv /\ TipsOnly /\ TieIsLongest /\ Script => TieIsLongest'
<1> SUFFICES ASSUME IInv, TipsOnly, TieIsLongest, Script PROVE TieIsLongest'
  OBVIOUS
<1>1. /\ UNCHANGED <<tip, rivals>> /\ \A c : Known(c)' <=> Known(c)
      /\ Staged /\ Typed /\ Apart /\ ReadOnce
  BY ScriptLeavesChains DEF IInv, Known, Knows
<1>2. /\ pc \in 1..29 /\ pc' \in {0, pc, pc + 1}
      /\ pc' # 0 => Remembers /\ Requires /\ Gathers
  BY <1>1, ScriptSteps DEF Staged
<1>3. pc' \in 18..25 => base' = base /\ tipA' = tipA
  BY <1>2 DEF Remembers
<1>4. base \in Nat /\ Len(tipA) \in Nat /\ \A n \in Nodes : Len(tip[n]) \in Nat
  BY <1>1, ChainTypes DEF Knows, Typed
<1>5. ASSUME pc' \in 18..19, NEW c, Known(c), Forked(c, 2), Len(c) > Len(tipA)
      PROVE  \E n \in GroupA \ DOMAIN seen' : Len(tip[n]) > Len(tipA)
  <2>1. CASE pc = 17
    <3>1. DOMAIN seen' = {}
      BY <1>1, <1>2, <1>5, <2>1 DEF Gathers, ReadOnce
    <3>2. PICK k \in Nodes : Knows(k, c)
      BY <1>5 DEF Known
    <3>3. c \in Seq(0..4) /\ Len(c) \in Nat
      BY <1>1, <3>2, ChainTypes
    <3>4. 2 \in Blocks(c)
      BY <1>4, <1>5, <3>3, ForkedBlock
    <3>5. k \in GroupA
      BY <1>1, <2>1, <3>2, <3>4, Groups DEF Apart, Knows
    <3>6. Len(c) <= Len(tip[k])
      BY <1>4, <3>2 DEF Knows, TipsOnly
    <3> QED
      BY <1>4, <1>5, <3>1, <3>2, <3>3, <3>5, <3>6
  <2>2. CASE pc \in 18..19
    <3>1. PICK k \in GroupA \ DOMAIN seen : Len(tip[k]) > Len(tipA)
      BY <1>5, <2>2 DEF TieIsLongest
    <3>2. CASE pc' = pc
      <4>1. PICK n \in Nodes \ DOMAIN seen : seen' = SeenWith(n) /\ tip[n] = tipA
        BY <1>2, <1>5, <2>2, <3>2 DEF Gathers
      <4>2. DOMAIN seen' = DOMAIN seen \cup {n}
        BY <4>1 DEF SeenWith
      <4>3. k # n
        BY <1>4, <3>1, <4>1
      <4> QED
        BY <3>1, <4>2, <4>3
    <3>3. CASE pc = 18 /\ pc' = 19
      BY <1>2, <3>1, <3>3 DEF Gathers
    <3> QED
      BY <1>2, <1>5, <2>2, <3>2, <3>3
  <2> QED
    BY <1>2, <1>5, <2>1, <2>2
<1>6. ASSUME pc' \in 20..25, Forked(tip[GroupBHost], 1), NEW c, Known(c), Forked(c, 2)
      PROVE  Len(c) <= Len(tipA)
  <2>1. CASE pc \in 20..25
    BY <1>6, <2>1 DEF TieIsLongest
  <2>2. CASE pc = 19 /\ pc' = 20
    <3>1. GroupA \ DOMAIN seen = {}
      BY <1>2, <2>2 DEF Requires
    <3>2. ~(Len(c) > Len(tipA))
      BY <1>6, <2>2, <3>1 DEF TieIsLongest
    <3>3. Len(c) \in Nat
      BY <1>1, <1>6, ChainTypes
    <3> QED
      BY <1>4, <3>2, <3>3
  <2> QED
    BY <1>2, <1>6, <2>1, <2>2
<1> QED
  BY <1>1, <1>3, <1>5, <1>6 DEF TieIsLongest, Forked

-----------------------------------------------------------------------------
(* The verdict.                                                            *)

LEMMA RivalSurvives ==
  ASSUME TipsOnly, NEW m \in Nodes, NEW n \in Nodes, Meets(m, n), tipA \in rivals[n],
         ~IsPrefix(tipA, tip'[n]), tip[m] # tipA => ~IsPrefix(tipA, tip[m])
  PROVE  tipA \in rivals'[n]
<1>1. rivals'[n] = TipsBeside(rivals[n] \cup {tip[m], tip[n]}, tip'[n])
  BY DEF Meets
<1>2. /\ ~IsPrefix(tipA, tip[n])
      /\ \A d \in rivals[n] : d # tipA => ~IsPrefix(tipA, d)
  BY DEF TipsOnly
<1> QED
  BY <1>1, <1>2 DEF TipsBeside

LEMMA NetworkConfirming ==
  ASSUME IInv, TipsOnly, Recorded, HostKeepsFork, TieIsLongest, Confirmed, Network,
         pc = 25, NEW k \in GroupA, k \in DOMAIN seen, tip'[k] = tipB,
         Forked(tip'[GroupBHost], 1)
  PROVE  tipA \in rivals'[k]
<1>1. k \in Nodes /\ seen[k] = tipB /\ Typed /\ Staged /\ ReadOnce
  BY Groups DEF Confirmed, IInv
<1>2. Forked(tip[GroupBHost], 1)
  BY HostStaysOrJoins
<1>3. tip[k] = tipB
  <2>1. seen[k] = tip[k] \/ Len(seen[k]) < Len(tip[k])
    BY <1>1 DEF ReadOnce
  <2>2. /\ Len(tip[k]) \in Nat /\ Len(tip'[k]) \in Nat
        /\ Len(tip'[k]) >= Len(tip[k])
    BY <1>1, LengthsGrow
  <2> QED
    BY <1>1, <2>1, <2>2
<1>4. tipA \in rivals[k]
  BY <1>2, <1>3 DEF Confirmed
<1>5. CASE \E n \in Nodes : Extends(n)
  BY <1>1, <1>5, WhoExtends
<1>6. CASE \E m, n \in Nodes : Adopt(m, n) \/ HearOf(m, n)
  <2>1. PICK m \in Nodes, n \in Nodes : Meets(m, n)
    BY <1>1, <1>6, Relayed
  <2>2. CASE k # n
    BY <1>1, <1>4, <2>1, <2>2 DEF Meets
  <2>3. CASE k = n
    <3>1. ~IsPrefix(tipA, tip'[n])
      BY <1>1, <1>3, <1>4, <2>3 DEF TipsOnly
    <3>2. ASSUME IsPrefix(tipA, tip[m]) PROVE tip[m] = tipA
      <4>1. /\ tipA \in Seq(0..4) /\ tip[m] \in Seq(0..4) /\ base \in Nat
            /\ Forked(tipA, 2)
        BY <1>1, ChainTypes DEF Knows, Typed, Recorded
      <4>2. Forked(tip[m], 2)
        BY <3>2, <4>1, PrefixCarriesFork
      <4>3. Len(tip[m]) <= Len(tipA)
        BY <1>2, <4>2 DEF TieIsLongest, Known, Knows
      <4> QED
        BY <3>2, <4>1, <4>3, SameLength
    <3> QED
      BY <1>1, <1>4, <2>1, <2>3, <3>1, <3>2, RivalSurvives
  <2> QED
    BY <2>2, <2>3
<1>7. CASE UNCHANGED <<tip, rivals>>
  BY <1>4, <1>7
<1> QED
  BY <1>1, <1>5, <1>6, <1>7, NetworkMoves

LEMMA NetworkConfirmed ==
  ASSUME IInv, TipsOnly, Recorded, Confirmed, Network, pc >= 26
  PROVE  /\ \A n \in Nodes : IsPrefix(tipB, tip'[n])
         /\ \A n \in GroupA : tipA \in rivals'[n]
<1>1. /\ Typed /\ base \in Nat /\ era \in 0..4
      /\ tipA \in Seq(0..4) /\ tipB \in Seq(0..4)
      /\ \A n \in Nodes : tip[n] \in Seq(0..4)
      /\ Forked(tipA, 2) /\ Forked(tipB, 1)
  <2>1. /\ Typed /\ base \in Nat /\ era \in 0..4
        /\ tipA \in Seq(0..4) /\ tipB \in Seq(0..4) /\ pc \in 0..30
    BY DEF IInv, Typed, Staged
  <2>2. Forked(tipA, 2) /\ Forked(tipB, 1)
    <3>1. pc >= 17
      BY <2>1
    <3>2. Forked(tipA, 2)
      BY <3>1, Zenon DEF Recorded
    <3>3. Forked(tipB, 1)
      BY Zenon DEF Confirmed
    <3> QED
      BY <3>2, <3>3
  <2>3. \A n \in Nodes : tip[n] \in Seq(0..4)
    BY <2>1, ChainTypes DEF Knows
  <2> QED
    BY <2>1, <2>2, <2>3
<1>2. /\ \A n \in Nodes : IsPrefix(tipB, tip[n])
      /\ \A n \in GroupA : tipA \in rivals[n]
  BY DEF Confirmed
<1>3. CASE \E n \in Nodes : Extends(n)
  <2>1. PICK n \in Nodes : Extends(n)
    BY <1>3
  <2>2. /\ tip'[n] = Append(tip[n], era) /\ rivals' = rivals
        /\ \A j \in Nodes \ {n} : tip'[j] = tip[j]
    BY <1>1, <2>1, KnownWhenExtended DEF Extends
  <2>3. IsPrefix(tipB, tip'[n])
    <3>1. IsPrefix(tip[n], Append(tip[n], era)) /\ Append(tip[n], era) \in Seq(0..4)
      BY <1>1, PrefixOfExtended
    <3> QED
      BY <1>1, <1>2, <2>2, <3>1, PrefixOfPrefix
  <2> QED
    BY <1>2, <2>2, <2>3
<1>4. CASE \E m, n \in Nodes : Adopt(m, n) \/ HearOf(m, n)
  <2>1. PICK m \in Nodes, n \in Nodes : Meets(m, n)
    BY <1>1, <1>4, Relayed
  <2>2. /\ tip'[n] \in {tip[m], tip[n]}
        /\ \A j \in Nodes \ {n} : tip'[j] = tip[j] /\ rivals'[j] = rivals[j]
    BY <2>1 DEF Meets
  <2>3. \A j \in Nodes : ~IsPrefix(tipA, tip[j])
    <3>1. \A j \in Nodes : Forked(tip[j], 1)
      BY <1>1, <1>2, PrefixCarriesFork
    <3>2. \A j \in Nodes : ~Forked(tip[j], 2)
      BY <3>1 DEF Forked
    <3> QED
      BY <1>1, <3>2, PrefixCarriesFork
  <2>4. n \in GroupA => tipA \in rivals'[n]
    BY <1>2, <2>1, <2>2, <2>3, RivalSurvives
  <2> QED
    BY <1>2, <2>2, <2>4, Groups
<1>5. CASE UNCHANGED <<tip, rivals>>
  BY <1>2, <1>5
<1> QED
  BY <1>1, <1>3, <1>4, <1>5, NetworkMoves

LEMMA ScriptConfirming ==
  ASSUME IInv, HostKeepsFork, Confirmed, Script, pc' = 25, NEW k \in DOMAIN seen'
  PROVE  /\ seen'[k] = tipB /\ (k = GroupBHost => Forked(tipB, 1))
         /\ k \in GroupA =>
              /\ BranchLen(tipA, tipB) = ForkLength
              /\ tip[k] = tipB /\ Forked(tip[GroupBHost], 1) => tipA \in rivals[k]
<1>1. pc \in {24, 25} /\ Gathers /\ ReadOnce
  BY ScriptSteps DEF IInv, Staged
<1>2. pc = 25
  <2> pc = 24 => DOMAIN seen' = {}
    BY <1>1 DEF Gathers, ReadOnce
  <2> QED
    BY <1>1
<1>3. PICK n \in Nodes \ DOMAIN seen : seen' = SeenWith(n) /\ ExpectedTips(n)
  BY <1>1, <1>2 DEF Gathers
<1>4. CASE k \in DOMAIN seen
  <2> seen'[k] = seen[k]
    BY <1>3, <1>4 DEF SeenWith
  <2> QED
    BY <1>2, <1>4 DEF Confirmed
<1>5. CASE k \notin DOMAIN seen
  <2>1. k = n /\ seen'[k] = tip[k]
    BY <1>3, <1>5 DEF SeenWith
  <2>2. /\ tip[k] = tipB
        /\ k \in GroupA => rivals[k] = {tipA} /\ BranchLen(tipA, tip[k]) = ForkLength
        /\ k = GroupBHost => rivals[k] = {}
    BY <1>3, <2>1 DEF ExpectedTips
  <2>3. k = GroupBHost => Forked(tipB, 1)
    BY <1>2, <2>2 DEF HostKeepsFork
  <2> QED
    BY <2>1, <2>2, <2>3
<1> QED
  BY <1>4, <1>5

\* A node that was read early may have moved on, but then it would be longer
\* than the longest.
LEMMA AllConfirmed ==
  ASSUME IInv, Longest, Recorded, Confirmed, pc = 25, AllSeen
  PROVE  /\ Forked(tipB, 1) /\ Len(tipA) = base + ForkLength
         /\ \A n \in Nodes : tip[n] = tipB
         /\ \A n \in GroupA : tipA \in rivals[n]
<1>1. /\ Typed /\ ReadOnce /\ base \in Nat /\ ForkLength \in Nat
      /\ tipA \in Seq(0..4) /\ tipB \in Seq(0..4)
      /\ \A n \in Nodes : Len(tip[n]) \in Nat
  BY ChainTypes, ReorgAssumption DEF IInv, Typed, Knows
<1>2. Forked(tipB, 1) /\ \A n \in Nodes : seen[n] = tipB
  BY Groups DEF Confirmed, AllSeen
<1>3. \A n \in Nodes : tip[n] = tipB
  <2>1. PICK w \in Nodes : (\A j \in Nodes : Len(tip[j]) <= Len(tip[w])) /\ seen[w] = tip[w]
    BY DEF Longest, AllSeen
  <2>2. \A n \in Nodes : seen[n] = tip[n] \/ Len(seen[n]) < Len(tip[n])
    BY <1>1 DEF ReadOnce, AllSeen
  <2>3. ASSUME NEW n \in Nodes, tip[n] # tipB PROVE FALSE
    <3>1. tip[w] = tipB /\ Len(tipB) < Len(tip[n]) /\ Len(tip[n]) <= Len(tip[w])
      BY <1>2, <2>1, <2>2, <2>3
    <3> QED
      BY <1>1, <3>1
  <2> QED
    BY <2>3
<1>4. Len(tipA) = base + ForkLength
  <2>1. OnBaseline(tipA) /\ OnBaseline(tipB) /\ Forked(tipA, 2)
    BY DEF Recorded
  <2>2. ForkHeight(tipA, tipB) = base
    BY <1>1, <1>2, <2>1, ForksAtBase
  <2>3. BranchLen(tipA, tipB) = ForkLength
    BY Groups DEF Confirmed, AllSeen
  <2>4. Len(tipA) - base = ForkLength /\ Len(tipA) \in Nat
    BY <1>1, <2>2, <2>3 DEF BranchLen
  <2> QED
    BY <1>1, <2>4
<1>5. \A n \in GroupA : tipA \in rivals[n]
  BY <1>2, <1>3, Groups DEF Confirmed, AllSeen
<1> QED
  BY <1>2, <1>3, <1>4, <1>5

LEMMA StepConfirmed == IInv /\ VInv /\ [Next]_vars => Confirmed'
<1> SUFFICES ASSUME IInv, VInv, [Next]_vars PROVE Confirmed'
  OBVIOUS
<1> USE DEF VInv
<1>1. CASE Network
  <2>1. UNCHANGED <<pc, base, tipA, tipB, seen>>
    BY <1>1, NetworkMoves DEF script, IInv
  <2>2. ASSUME pc = 25, NEW n \in GroupA, n \in DOMAIN seen, tip'[n] = tipB,
               Forked(tip'[GroupBHost], 1)
        PROVE  tipA \in rivals'[n]
    BY <1>1, <2>2, NetworkConfirming
  <2>3. pc >= 26 => /\ \A n \in Nodes : IsPrefix(tipB, tip'[n])
                    /\ \A n \in GroupA : tipA \in rivals'[n]
    BY <1>1, NetworkConfirmed
  <2>4. Confirmed
    OBVIOUS
  <2>5. /\ BranchLen(tipA, tipB)' = BranchLen(tipA, tipB)
        /\ Forked(tipB, 1)' = Forked(tipB, 1)
        /\ Forked(tip[GroupBHost], 1)' = Forked(tip'[GroupBHost], 1)
    BY <2>1 DEF BranchLen, ForkHeight, Forked
  <2> QED
    BY <2>1, <2>2, <2>3, <2>4, <2>5 DEF Confirmed
<1>2. CASE Script
  <2>1. UNCHANGED <<tip, rivals>>
    BY <1>2, ScriptLeavesChains
  <2>2. /\ pc \in 1..29 /\ pc' \in {0, pc, pc + 1}
        /\ pc' # 0 => Remembers /\ Requires /\ Gathers
    BY <1>2, ScriptSteps DEF IInv, Staged
  <2>3. pc' >= 25 => base' = base /\ tipA' = tipA /\ tipB' = tipB
    BY <2>2 DEF Remembers
  <2>4. pc' = 25 => \A n \in DOMAIN seen' :
          /\ seen'[n] = tipB /\ (n = GroupBHost => Forked(tipB, 1))
          /\ n \in GroupA =>
               /\ BranchLen(tipA, tipB) = ForkLength
               /\ tip[n] = tipB /\ Forked(tip[GroupBHost], 1) => tipA \in rivals[n]
    BY <1>2, ScriptConfirming
  <2>5. pc' >= 26 =>
          /\ Forked(tipB, 1) /\ Len(tipA) = base + ForkLength
          /\ \A n \in Nodes : IsPrefix(tipB, tip[n])
          /\ \A n \in GroupA : tipA \in rivals[n]
    <3>1. CASE pc >= 26
      BY <3>1 DEF Confirmed
    <3>2. CASE pc = 25 /\ pc' = 26
      <4>1. /\ Forked(tipB, 1) /\ Len(tipA) = base + ForkLength
            /\ \A n \in Nodes : tip[n] = tipB
            /\ \A n \in GroupA : tipA \in rivals[n]
        BY <2>2, <3>2, AllConfirmed DEF Requires
      <4>2. tipB \in Seq(0..4)
        BY DEF IInv, Typed
      <4>3. IsPrefix(tipB, tipB)
        BY <4>2, PrefixIs
      <4> QED
        BY <4>1, <4>3
    <3>3. pc' >= 26 => pc >= 26 \/ (pc = 25 /\ pc' = 26)
      BY <2>2
    <3> QED
      BY <3>1, <3>2, <3>3, Zenon
  <2>6. pc' >= 25 =>
          /\ BranchLen(tipA, tipB)' = BranchLen(tipA, tipB)
          /\ Forked(tipB, 1)' = Forked(tipB, 1)
          /\ Forked(tip[GroupBHost], 1)' = Forked(tip[GroupBHost], 1)
    BY <2>1, <2>3 DEF BranchLen, ForkHeight, Forked
  <2>7. /\ pc' = 25 => pc' >= 25
        /\ pc' >= 26 => pc' >= 25
    BY <2>2
  <2> QED
    BY <2>1, <2>3, <2>4, <2>5, <2>6, <2>7 DEF Confirmed
<1>3. CASE UNCHANGED vars
  BY <1>3 DEF vars, network, script, Confirmed, BranchLen, ForkHeight, Forked
<1> QED
  BY <1>1, <1>2, <1>3 DEF Next

LEMMA StepVInv == IInv /\ VInv /\ [Next]_vars => VInv'
<1> SUFFICES ASSUME IInv, VInv, [Next]_vars PROVE VInv'
  OBVIOUS
<1>1. Confirmed'
  BY StepConfirmed
<1>2. CASE Network
  <2>1. TipsOnly' /\ Longest' /\ Baseline'
    BY <1>2, NetworkTipsOnly, NetworkLongest, NetworkBaseline DEF IInv, VInv
  <2>2. Recorded' /\ HostKeepsFork' /\ TieIsLongest'
    BY <1>2, NetworkRecorded, NetworkHostKeepsFork, NetworkTieIsLongest DEF VInv
  <2> QED
    BY <1>1, <2>1, <2>2 DEF VInv
<1>3. CASE Script
  <2>1. TipsOnly'
    BY <1>3, ScriptLeavesChains DEF VInv, TipsOnly
  <2>2. Longest' /\ Baseline' /\ Recorded'
    BY <1>3, ScriptLongest, ScriptBaseline, ScriptRecorded DEF IInv, VInv
  <2>3. HostKeepsFork' /\ TieIsLongest'
    BY <1>3, ScriptHostKeepsFork, ScriptTieIsLongest DEF VInv
  <2> QED
    BY <1>1, <2>1, <2>2, <2>3 DEF VInv
<1>4. CASE UNCHANGED vars
  <2>1. UNCHANGED <<pc, era, tip, rivals, base, tipA, tipB, seen>>
    BY <1>4 DEF vars, network, script
  <2>2. TipsOnly' /\ Longest' /\ Baseline'
    BY <2>1 DEF VInv, TipsOnly, Longest, Baseline, OnBaseline, Known, Knows
  <2>3. Recorded' /\ HostKeepsFork' /\ TieIsLongest'
    BY <2>1
    DEF VInv, Recorded, HostKeepsFork, TieIsLongest, OnBaseline, Forked, Known, Knows
  <2> QED
    BY <1>1, <2>2, <2>3 DEF VInv
<1> QED
  BY <1>2, <1>3, <1>4 DEF Next

LEMMA InitVInv == Init => VInv
<1> SUFFICES ASSUME Init PROVE VInv
  OBVIOUS
<1>1. /\ pc = 1 /\ DOMAIN <<>> = {} /\ seen = <<>> /\ GroupAHost \in Nodes
      /\ \A n \in Nodes : tip[n] = <<>> /\ rivals[n] = {}
  BY Groups DEF Init
<1>2. TipsOnly /\ Longest /\ Baseline
  BY <1>1 DEF TipsOnly, Longest, Baseline
<1>3. Recorded /\ HostKeepsFork /\ TieIsLongest /\ Confirmed
  BY <1>1 DEF Recorded, HostKeepsFork, TieIsLongest, Confirmed
<1> QED
  BY <1>2, <1>3 DEF VInv

LEMMA InvarianceOfVInv == Spec => [](IInv /\ VInv)
<1>1. Init => IInv /\ VInv
  BY InitIInv, InitVInv
<1>2. (IInv /\ VInv) /\ [Next]_vars => (IInv /\ VInv)'
  BY StepIInv, StepVInv
<1> QED
  BY <1>1, <1>2, PTL DEF Spec

(***************************************************************************)
(* When the groups are connected again the fork tips that the script has   *)
(* recorded part exactly at the baseline it has recorded, and each has at  *)
(* least ForkLength blocks above it.                                       *)
(***************************************************************************)
THEOREM ForksPartWhereRecorded == Spec => []ForksPartAtBaseline
<1>1. IInv /\ VInv => ForksPartAtBaseline
  <2> SUFFICES ASSUME IInv, VInv, At("tie") PROVE ForksPartAtBaseline
    BY DEF ForksPartAtBaseline
  <2>1. pc = 19
    BY ThisPlace DEF IInv, Staged
  <2>2. /\ base \in Nat /\ tipA \in Seq(0..4) /\ tipB \in Seq(0..4)
        /\ OnBaseline(tipA) /\ Forked(tipA, 2) /\ Len(tipA) >= base + ForkLength
        /\ OnBaseline(tipB) /\ Forked(tipB, 1) /\ Len(tipB) >= base + ForkLength
    BY <2>1 DEF IInv, Typed, VInv, Recorded
  <2> QED
    BY <2>2, ForksAtBase DEF ForksPartAtBaseline
<1> QED
  BY <1>1, InvarianceOfVInv, PTL

(***************************************************************************)
(* A reorg that the recipe has confirmed took place and lasts: every node  *)
(* is on a chain that extends group B's, which is two blocks longer than   *)
(* the fork of exactly ForkLength blocks that group A's nodes still list.  *)
(* It holds although the confirmation reads the nodes one after another,   *)
(* and although a block of the last round may reach a node after it was    *)
(* read.                                                                   *)
(***************************************************************************)
THEOREM ConfirmedReorgIsReal == Spec => []VerdictSound
<1>1. IInv /\ VInv => VerdictSound
  <2> SUFFICES ASSUME IInv, VInv, After("confirm") PROVE VerdictSound
    BY DEF VerdictSound
  <2>1. pc \in 26..30
    BY Ends DEF IInv, Staged
  <2>2. /\ Len(tipA) = base + ForkLength /\ Len(tipB) >= base + ForkLength + 2
        /\ \A n \in Nodes : IsPrefix(tipB, tip[n])
        /\ \A n \in GroupA : tipA \in rivals[n]
    BY <2>1 DEF VInv, Recorded, Confirmed
  <2> QED
    BY <2>2 DEF VerdictSound
<1> QED
  BY <1>1, InvarianceOfVInv, PTL
=============================================================================
