------------------------- MODULE TrafficLedgerProofs -------------------------
(***************************************************************************)
(* Proofs about the ledger of the traffic generator.                       *)
(*                                                                         *)
(* The invariant IInv relates three sides: the chain and the wallets       *)
(* (NetInv), the books (what is credited, what is still tracked and what   *)
(* is given up: CoinbasesBooked, ChangesBooked, ChangesProper, Accounted,  *)
(* SuccessesAreReal) and the answers that the script has in hand at each   *)
(* of its awaits (SeedReads, PassReads).  Answers go stale while blocks    *)
(* come in; what stays true of them is that they are those of some height  *)
(* between the one asked for and the node's tip.  There is a lemma for     *)
(* each step of the script, and the theorems are at the end.               *)
(***************************************************************************)
EXTENDS TrafficLedger, FiniteSetTheorems, WellFoundedInduction, TLAPS

LEMMA NatHasMin ==
  ASSUME NEW S \in SUBSET Nat, S # {}
  PROVE  \E x \in S : \A y \in S : x <= y
<1>1. PICK x \in S : \A y \in S : <<y, x>> \notin OpToRel(<, Nat)
  BY NatLessThanWellFounded, WFMin
<1>2. \A y \in S : ~(y < x)
  BY <1>1 DEF OpToRel
<1> QED
  BY <1>2

LEMMA MinIs ==
  ASSUME NEW S \in SUBSET Nat, S # {}
  PROVE  Min(S) \in S /\ \A y \in S : Min(S) <= y
BY NatHasMin DEF Min

LEMMA MaxIs ==
  ASSUME NEW S \in SUBSET Nat, S # {}, NEW b \in Nat, \A x \in S : x <= b
  PROVE  Max(S) \in S /\ \A y \in S : y <= Max(S)
<1> DEFINE bounds == {c \in Nat : \A x \in S : x <= c}
<1>1. bounds \in SUBSET Nat /\ bounds # {}
  OBVIOUS
<1>2. PICK c \in bounds : \A d \in bounds : c <= d
  BY <1>1, NatHasMin
<1>3. c \in S
  <2>1. SUFFICES ASSUME c \notin S PROVE FALSE
    OBVIOUS
  <2>2. \A x \in S : x < c
    BY <2>1
  <2>3. c - 1 \in bounds
    <3>1. PICK x \in S : x < c
      BY <2>2
    <3>2. c - 1 \in Nat
      BY <3>1
    <3> QED
      BY <2>2, <3>2
  <2> QED
    BY <1>2, <2>3
<1> QED
  BY <1>2, <1>3 DEF Max

-----------------------------------------------------------------------------
(* The network.                                                            *)

NetInv ==
  /\ NetTypeOK
  /\ \A e \in Earners : chaos[e] = "idle"
  /\ \A h \in 1..Top : tip[earner[h]] >= h
  /\ \A i \in DOMAIN txs : txs[i].from \in Earners => txs[i].own

\* What no step takes back: blocks, the heights of the earners, transactions
\* and the block of one that has been confirmed.
SameBut(new, old) ==
  /\ new.from = old.from /\ new.to = old.to /\ new.stage = old.stage
  /\ new.height = old.height \/ old.height = 0
  /\ new.from \in Earners => new.own = old.own

Evolves ==
  /\ Top <= Top' /\ \A h \in 1..Top : earner'[h] = earner[h]
  /\ \A e \in Earners : tip'[e] >= tip[e]
  /\ \A i \in DOMAIN txs : i \in DOMAIN txs' /\ SameBut(txs'[i], txs[i])

LEMMA IsSequence ==
  ASSUME NEW S, NEW n \in Nat, NEW f \in [1..n -> S]
  PROVE  f \in Seq(S) /\ Len(f) = n /\ DOMAIN f = 1..n
OBVIOUS

LEMMA NetTypes ==
  ASSUME NetInv
  PROVE  /\ Top \in Nat /\ MaxHeight \in Nat /\ MaxTx \in Nat /\ Top <= MaxHeight
         /\ DOMAIN earner = 1..Top /\ \A h \in 1..Top : earner[h] \in Earners
         /\ DOMAIN txs = 1..Len(txs) /\ Len(txs) \in Nat /\ Len(txs) <= MaxTx
         /\ \A i \in DOMAIN txs : txs[i] \in Transaction /\ txs[i].height <= Top
         /\ \A i \in DOMAIN txs : txs[i].height \in 0..MaxHeight
         /\ tip \in [Nodes -> 0..Top] /\ Earners \subseteq Nodes
         /\ \A n \in Nodes : tip[n] \in Nat /\ tip[n] <= Top
<1>1. Top \in Nat /\ DOMAIN earner = 1..Top /\ \A h \in 1..Top : earner[h] \in Earners
  BY DEF NetInv, NetTypeOK, Top
<1>2. DOMAIN txs = 1..Len(txs) /\ Len(txs) \in Nat /\ \A i \in DOMAIN txs : txs[i] \in Transaction
  BY DEF NetInv, NetTypeOK
<1>3. \A i \in DOMAIN txs : txs[i].height \in 0..MaxHeight
  BY <1>2 DEF Transaction
<1>4. MaxHeight \in Nat /\ MaxTx \in Nat /\ Earners \subseteq Nodes
  BY ConstantsAreSets DEF Nodes
<1> QED
  BY <1>1, <1>2, <1>3, <1>4 DEF NetInv, NetTypeOK

\* Transactions that are rewritten one by one remain what they are.
Rewrites(top) ==
  /\ txs' \in [DOMAIN txs -> Transaction]
  /\ \A i \in DOMAIN txs : txs'[i].height <= top /\ SameBut(txs'[i], txs[i])

LEMMA Rewritten ==
  ASSUME NetInv, NEW top \in Nat, Rewrites(top)
  PROVE  /\ txs' \in Seq(Transaction) /\ Len(txs') = Len(txs)
         /\ DOMAIN txs' = DOMAIN txs /\ Len(txs') <= MaxTx
         /\ \A i \in DOMAIN txs' : txs'[i].height <= top
         /\ \A i \in DOMAIN txs' : txs'[i].from \in Earners => txs'[i].own
<1>1. DOMAIN txs = 1..Len(txs) /\ Len(txs) \in Nat /\ Len(txs) <= MaxTx
  BY NetTypes
<1>2. txs' \in [1..Len(txs) -> Transaction]
  BY <1>1 DEF Rewrites
<1>3. txs' \in Seq(Transaction) /\ Len(txs') = Len(txs) /\ DOMAIN txs' = DOMAIN txs
  BY <1>1, <1>2, IsSequence
<1>4. ASSUME NEW i \in DOMAIN txs, txs'[i].from \in Earners
      PROVE  txs'[i].own
  <2>1. txs'[i].from = txs[i].from /\ txs'[i].own = txs[i].own
    BY <1>4 DEF Rewrites, SameBut
  <2>2. txs[i].own
    BY <1>4, <2>1 DEF NetInv
  <2> QED
    BY <2>1, <2>2
<1> QED
  BY <1>1, <1>3, <1>4 DEF Rewrites

LEMMA MineEvolves ==
  ASSUME NetInv, NEW e \in Earners, Mine(e)
  PROVE  /\ NetInv' /\ Evolves /\ UNCHANGED chaos /\ DOMAIN txs' = DOMAIN txs
         /\ Top' = Top + 1
         /\ \A i \in DOMAIN txs : txs'[i].height \in {txs[i].height, Top + 1}
<1> USE NetTypes
<1>1. /\ earner' = Append(earner, e) /\ earner' \in Seq(Earners) /\ Top' = Top + 1
      /\ Top + 1 \in Nat /\ Top + 1 <= MaxHeight
      /\ earner'[Top + 1] = e /\ \A h \in 1..Top : earner'[h] = earner[h]
  BY DEF Mine, Top, NetInv, NetTypeOK
<1>2. /\ tip' = [tip EXCEPT ![e] = Top + 1] /\ tip'[e] = Top + 1
      /\ \A n \in Nodes \ {e} : tip'[n] = tip[n]
  BY DEF Mine
<1>3. tip' \in [Nodes -> 0..Top + 1] /\ \A n \in Nodes : tip'[n] >= tip[n]
  BY <1>2
<1>4. /\ txs' = [i \in DOMAIN txs |-> txs'[i]]
      /\ \A i \in DOMAIN txs : txs'[i] = IF txs[i].height = 0 /\ txs[i].relayed
                                        THEN [txs[i] EXCEPT !.height = Top + 1] ELSE txs[i]
  BY DEF Mine
<1>5. ASSUME NEW i \in DOMAIN txs
      PROVE  /\ txs'[i] \in Transaction /\ txs'[i].height <= Top + 1
             /\ SameBut(txs'[i], txs[i])
             /\ txs'[i].height \in {txs[i].height, Top + 1}
  <2>1. txs[i] \in Transaction /\ txs[i].height <= Top /\ txs[i].height \in Nat
    OBVIOUS
  <2>2. CASE txs[i].height = 0 /\ txs[i].relayed
    <3>1. txs'[i] = [txs[i] EXCEPT !.height = Top + 1]
      BY <1>4, <2>2
    <3> QED
      BY <1>1, <2>1, <2>2, <3>1, SMTT(30) DEF Transaction, SameBut
  <2>3. CASE ~(txs[i].height = 0 /\ txs[i].relayed)
    <3>1. txs'[i] = txs[i]
      BY <1>4, <2>3
    <3> QED
      BY <1>1, <2>1, <3>1 DEF SameBut
  <2> QED
    BY <2>2, <2>3
<1>6. /\ txs' \in Seq(Transaction) /\ DOMAIN txs' = DOMAIN txs /\ Len(txs') <= MaxTx
      /\ \A i \in DOMAIN txs' : txs'[i].height <= Top + 1
      /\ \A i \in DOMAIN txs' : txs'[i].from \in Earners => txs'[i].own
  <2>1. txs' \in [DOMAIN txs -> Transaction]
    BY <1>4, <1>5
  <2>2. Rewrites(Top + 1)
    BY <1>5, <2>1 DEF Rewrites
  <2> QED
    BY <1>1, <2>2, Rewritten
<1>7. UNCHANGED chaos
  BY DEF Mine
<1>8. \A h \in 1..Top + 1 : tip'[earner'[h]] >= h
  <2>1. \A h \in 1..Top : tip'[earner'[h]] >= h
    BY <1>1, <1>3, SMTT(30) DEF NetInv
  <2>2. tip'[earner'[Top + 1]] >= Top + 1
    BY <1>1, <1>2
  <2>3. \A h \in 1..Top + 1 : h \in 1..Top \/ h = Top + 1
    BY <1>1
  <2> QED
    BY <2>1, <2>2, <2>3
<1>9. NetTypeOK'
  BY <1>1, <1>3, <1>6, <1>7 DEF NetInv, NetTypeOK
<1>10. NetInv'
  BY <1>1, <1>6, <1>7, <1>8, <1>9 DEF NetInv
<1> QED
  BY <1>1, <1>3, <1>5, <1>6, <1>7, <1>10 DEF Evolves

\* The other steps of the network make no block.
NoBlock ==
  /\ UNCHANGED earner /\ DOMAIN txs' = DOMAIN txs
  /\ \A i \in DOMAIN txs : txs'[i].height = txs[i].height

LEMMA TipsEvolve ==
  ASSUME NetInv, NEW n \in Nodes, NEW t \in 0..Top, t >= tip[n] \/ n \notin Earners,
         tip' = [tip EXCEPT ![n] = t], UNCHANGED <<earner, txs>>,
         chaos' \in [Nodes -> {"idle", "armed", "rewound", "down"}],
         \A e \in Earners : chaos'[e] = "idle"
  PROVE  NetInv' /\ Evolves /\ NoBlock
<1> USE NetTypes
<1>1. Top' = Top
  BY DEF Top
<1>2. tip' \in [Nodes -> 0..Top] /\ \A e \in Earners : tip'[e] >= tip[e]
  OBVIOUS
<1>3. \A h \in 1..Top : tip'[earner[h]] >= h
  BY <1>2 DEF NetInv
<1>4. NetTypeOK'
  BY <1>1, <1>2 DEF NetInv, NetTypeOK
<1>5. NetInv'
  BY <1>1, <1>3, <1>4 DEF NetInv
<1>6. \A i \in DOMAIN txs : SameBut(txs'[i], txs[i])
  BY DEF SameBut
<1> QED
  BY <1>1, <1>2, <1>5, <1>6 DEF Evolves, NoBlock

LEMMA FlagsEvolve ==
  ASSUME NetInv, UNCHANGED earner,
         tip' \in [Nodes -> 0..Top], \A e \in Earners : tip'[e] >= tip[e],
         chaos' \in [Nodes -> {"idle", "armed", "rewound", "down"}],
         \A e \in Earners : chaos'[e] = "idle",
         txs' = [i \in DOMAIN txs |-> txs'[i]],
         \A i \in DOMAIN txs :
           \E own, relayed \in BOOLEAN :
             /\ txs'[i] = [txs[i] EXCEPT !.own = own, !.relayed = relayed]
             /\ txs[i].from \in Earners => own
  PROVE  NetInv' /\ Evolves /\ NoBlock
<1> USE NetTypes
<1>1. Top' = Top
  BY DEF Top
<1>2. ASSUME NEW i \in DOMAIN txs
      PROVE  /\ txs'[i] \in Transaction /\ txs'[i].height = txs[i].height
             /\ SameBut(txs'[i], txs[i])
  <2>1. PICK own \in BOOLEAN, relayed \in BOOLEAN :
          /\ txs'[i] = [txs[i] EXCEPT !.own = own, !.relayed = relayed]
          /\ txs[i].from \in Earners => own
    OBVIOUS
  <2>2. txs[i] \in Transaction
    OBVIOUS
  <2>3. txs[i].from \in Earners => txs[i].own
    BY DEF NetInv
  <2>4. /\ txs'[i] \in Transaction /\ txs'[i].height = txs[i].height
        /\ txs'[i].from = txs[i].from /\ txs'[i].to = txs[i].to
        /\ txs'[i].stage = txs[i].stage /\ txs'[i].own = own
    BY <2>1, <2>2 DEF Transaction
  <2>5. txs[i].own \in BOOLEAN
    BY <2>2 DEF Transaction
  <2>6. txs'[i].from \in Earners => txs'[i].own = txs[i].own
    BY <2>1, <2>3, <2>4, <2>5
  <2> QED
    BY <2>4, <2>6 DEF SameBut
<1>3. /\ txs' \in Seq(Transaction) /\ DOMAIN txs' = DOMAIN txs /\ Len(txs') <= MaxTx
      /\ \A i \in DOMAIN txs' : txs'[i].height <= Top
      /\ \A i \in DOMAIN txs' : txs'[i].from \in Earners => txs'[i].own
  <2>1. txs' \in [DOMAIN txs -> Transaction]
    BY <1>2
  <2>2. Rewrites(Top)
    BY <1>2, <2>1 DEF Rewrites
  <2>3. Top \in Nat
    OBVIOUS
  <2> QED
    BY <2>2, <2>3, Rewritten
<1>4. NetTypeOK'
  BY <1>1, <1>3 DEF NetInv, NetTypeOK
<1>5. NetInv'
  <2>1. ASSUME NEW h \in 1..Top
        PROVE  tip'[earner[h]] >= h
    <3>1. /\ earner[h] \in Earners /\ earner[h] \in Nodes /\ tip[earner[h]] >= h
          /\ tip'[earner[h]] >= tip[earner[h]]
      BY DEF NetInv
    <3>2. tip'[earner[h]] \in Nat /\ tip[earner[h]] \in Nat /\ h \in Nat
      <4>1. tip'[earner[h]] \in 0..Top /\ tip[earner[h]] \in 0..Top
        BY <3>1
      <4>2. Top \in Nat
        OBVIOUS
      <4> QED
        BY ONLY <2>1, <4>1, <4>2
    <3> QED
      BY ONLY <3>1, <3>2
  <2>2. \A h \in 1..Top' : tip'[earner'[h]] >= h
    BY <1>1, <2>1
  <2> QED
    BY <1>3, <1>4, <2>2 DEF NetInv
<1>7. Top <= Top' /\ \A h \in 1..Top : earner'[h] = earner[h]
  <2>1. Top \in Nat /\ Top' = Top /\ earner' = earner
    BY <1>1
  <2> QED
    BY ONLY <2>1
<1>8. Evolves
  BY <1>2, <1>3, <1>7 DEF Evolves
<1> QED
  BY <1>2, <1>3, <1>5, <1>8 DEF NoBlock

\* A transaction with flags of its own.
LEMMA FlagsOf ==
  ASSUME NetInv, NEW i \in DOMAIN txs
  PROVE  /\ txs[i].own \in BOOLEAN /\ txs[i].relayed \in BOOLEAN
         /\ txs[i].from \in Earners => txs[i].own
         /\ txs[i] = [txs[i] EXCEPT !.own = txs[i].own, !.relayed = txs[i].relayed]
         /\ [txs[i] EXCEPT !.relayed = TRUE]
              = [txs[i] EXCEPT !.own = txs[i].own, !.relayed = TRUE]
         /\ [txs[i] EXCEPT !.own = FALSE]
              = [txs[i] EXCEPT !.own = FALSE, !.relayed = txs[i].relayed]
<1>1. txs[i] \in Transaction
  BY NetTypes
<1> QED
  BY <1>1 DEF Transaction, NetInv

\* A step of the network: blocks and confirmations may come, nothing goes.
Advances ==
  /\ NetInv' /\ Evolves /\ DOMAIN txs' = DOMAIN txs
  /\ \A i \in DOMAIN txs : txs'[i].height = txs[i].height \/ txs'[i].height > Top

LEMMA NoBlockAdvances ==
  ASSUME NetInv, NetInv', Evolves, NoBlock
  PROVE  Advances
BY DEF Advances, NoBlock

LEMMA NetworkAdvances ==
  ASSUME NetInv, NEW paused, Network(paused)
  PROVE  Advances
<1>1. Earners \subseteq Nodes /\ ChaosNodes \subseteq Nodes /\ Earners \cap ChaosNodes = {}
  BY ConstantsAreSets DEF Nodes
<1>2. chaos \in [Nodes -> {"idle", "armed", "rewound", "down"}]
  BY DEF NetInv, NetTypeOK
<1>3. \A e \in Earners : chaos[e] = "idle"
  BY DEF NetInv
<1>4. Top \in Nat /\ \A n \in Nodes : tip[n] \in Nat /\ tip[n] <= Top
  BY NetTypes
<1>5. ASSUME NEW n \in ChaosNodes, NEW kind \in {"idle", "armed", "rewound", "down"},
             chaos' = [chaos EXCEPT ![n] = kind]
      PROVE  /\ chaos' \in [Nodes -> {"idle", "armed", "rewound", "down"}]
             /\ \A e \in Earners : chaos'[e] = "idle"
  BY <1>1, <1>2, <1>3, <1>5
<1>6. CASE \E e \in Earners : Mine(e)
  <2>1. PICK e \in Earners : Mine(e)
    BY <1>6
  <2>2. \A i \in DOMAIN txs : txs'[i].height = txs[i].height \/ txs'[i].height > Top
    BY <1>4, <2>1, MineEvolves
  <2> QED
    BY <2>1, <2>2, MineEvolves DEF Advances
<1>7. CASE \E n \in Nodes : Catch(n)
  <2>1. PICK n \in Nodes : Catch(n)
    BY <1>7
  <2>2. /\ tip[n] + 1 \in 0..Top /\ tip[n] + 1 >= tip[n]
        /\ tip' = [tip EXCEPT ![n] = tip[n] + 1]
        /\ UNCHANGED <<earner, txs>> /\ chaos' = chaos
    BY <1>4, <2>1 DEF Catch
  <2>3. NetInv' /\ Evolves /\ NoBlock
    BY <1>2, <1>3, <2>2, TipsEvolve
  <2> QED
    BY <2>3, NoBlockAdvances
<1>8. CASE \E i \in DOMAIN txs : Relay(i)
  <2>1. PICK i \in DOMAIN txs : Relay(i)
    BY <1>8
  <2>2. /\ txs' = [txs EXCEPT ![i].relayed = TRUE]
        /\ UNCHANGED <<earner, tip>> /\ chaos' = chaos
    BY <2>1 DEF Relay
  <2>3. /\ DOMAIN txs' = DOMAIN txs /\ txs' = [j \in DOMAIN txs |-> txs'[j]]
        /\ txs'[i] = [txs[i] EXCEPT !.relayed = TRUE]
        /\ \A j \in DOMAIN txs : j # i => txs'[j] = txs[j]
    BY <2>2
  <2>4. ASSUME NEW j \in DOMAIN txs
        PROVE  \E own, relayed \in BOOLEAN :
                 /\ txs'[j] = [txs[j] EXCEPT !.own = own, !.relayed = relayed]
                 /\ txs[j].from \in Earners => own
    <3>1. CASE j = i
      BY <2>3, <3>1, FlagsOf
    <3>2. CASE j # i
      BY <2>3, <3>2, FlagsOf
    <3> QED
      BY <3>1, <3>2
  <2>5. tip' \in [Nodes -> 0..Top] /\ \A e \in Earners : tip'[e] >= tip[e]
    BY <1>1, <1>4, <2>2, NetTypes
  <2>6. NetInv' /\ Evolves /\ NoBlock
    BY <1>2, <1>3, <2>2, <2>3, <2>4, <2>5, FlagsEvolve
  <2> QED
    BY <2>6, NoBlockAdvances
<1>9. ASSUME NEW n \in ChaosNodes, Arm(n, paused) \/ Recover(n)
      PROVE  Advances
  <2>1. /\ \E kind \in {"idle", "armed"} : chaos' = [chaos EXCEPT ![n] = kind]
        /\ UNCHANGED <<earner, txs>> /\ tip' = tip
    BY <1>9 DEF Arm, Recover
  <2>2. /\ chaos' \in [Nodes -> {"idle", "armed", "rewound", "down"}]
        /\ \A e \in Earners : chaos'[e] = "idle"
    BY <1>5, <2>1
  <2>3. tip \in [Nodes -> 0..Top] /\ n \in Nodes
    BY <1>1, NetTypes
  <2>4. /\ tip[n] \in 0..Top /\ tip[n] >= tip[n]
        /\ tip' = [tip EXCEPT ![n] = tip[n]]
    BY <2>1, <2>3
  <2>5. NetInv' /\ Evolves /\ NoBlock
    BY <2>1, <2>2, <2>3, <2>4, TipsEvolve
  <2> QED
    BY <2>5, NoBlockAdvances

<1>10. ASSUME NEW n \in ChaosNodes, NEW kind \in {"rewound", "down"}, Act(n, kind)
       PROVE  Advances
  <2>1. /\ chaos' \in [Nodes -> {"idle", "armed", "rewound", "down"}]
        /\ \A e \in Earners : chaos'[e] = "idle"
    <3>1. chaos' = [chaos EXCEPT ![n] = kind]
      BY <1>10 DEF Act
    <3> QED
      BY <1>5, <3>1
  <2>2. tip' \in [Nodes -> 0..Top] /\ \A e \in Earners : tip'[e] >= tip[e]
    <3>1. tip \in [Nodes -> 0..Top] /\ \A e \in Earners : tip[e] \in Nat /\ e # n
      BY <1>1, <1>4, NetTypes
    <3>2. CASE tip' = tip
      BY <3>1, <3>2
    <3>3. CASE tip[n] > 0 /\ tip' = [tip EXCEPT ![n] = tip[n] - 1]
      <4>1. tip[n] - 1 \in 0..Top
        BY <1>1, <1>4, <3>3
      <4> QED
        BY <1>1, <3>1, <3>3, <4>1
    <3> QED
      BY <1>10, <3>2, <3>3 DEF Act
  <2>3. UNCHANGED earner
    BY <1>10 DEF Act
  <2>4. ASSUME NEW j \in DOMAIN txs, txs[j].from = n
        PROVE  txs[j].from \notin Earners
    BY <1>1, <2>4
  <2>5. CASE UNCHANGED txs
    <3>1. txs' = [j \in DOMAIN txs |-> txs'[j]]
      BY <2>5 DEF NetInv, NetTypeOK
    <3>2. \A j \in DOMAIN txs :
            \E own, relayed \in BOOLEAN :
              /\ txs'[j] = [txs[j] EXCEPT !.own = own, !.relayed = relayed]
              /\ txs[j].from \in Earners => own
      BY <2>5, FlagsOf
    <3>3. NetInv' /\ Evolves /\ NoBlock
      BY <2>1, <2>2, <2>3, <3>1, <3>2, FlagsEvolve
    <3> QED
      BY <3>3, NoBlockAdvances
  <2>6. CASE txs' = [i \in DOMAIN txs |->
                      IF txs[i].from = n /\ ~ConfirmedAt(n, i)
                      THEN [txs[i] EXCEPT !.own = FALSE] ELSE txs[i]]
    <3>1. txs' = [j \in DOMAIN txs |-> txs'[j]]
      BY <2>6
    <3>2. ASSUME NEW j \in DOMAIN txs
          PROVE  \E own, relayed \in BOOLEAN :
                   /\ txs'[j] = [txs[j] EXCEPT !.own = own, !.relayed = relayed]
                   /\ txs[j].from \in Earners => own
      <4>1. CASE txs[j].from = n /\ ~ConfirmedAt(n, j)
        <5>1. txs'[j] = [txs[j] EXCEPT !.own = FALSE]
          BY <2>6, <4>1
        <5> QED
          BY <2>4, <4>1, <5>1, FlagsOf
      <4>2. CASE ~(txs[j].from = n /\ ~ConfirmedAt(n, j))
        <5>1. txs'[j] = txs[j]
          BY <2>6, <4>2
        <5> QED
          BY <5>1, FlagsOf
      <4> QED
        BY <4>1, <4>2
    <3>3. NetInv' /\ Evolves /\ NoBlock
      BY <2>1, <2>2, <2>3, <3>1, <3>2, FlagsEvolve
    <3> QED
      BY <3>3, NoBlockAdvances
  <2> QED
    BY <1>10, <2>5, <2>6 DEF Act
<1> QED
  BY <1>6, <1>7, <1>8, <1>9, <1>10 DEF Network

-----------------------------------------------------------------------------
(* The inductive invariant.                                                *)

Before == {"mempool", "seed", "seedBefore", "seedBalance", "seedAfter"}

Reading == {"seedBefore", "seedBalance", "seedAfter", "converge", "resync",
            "verifyBalance", "verifyAfter"}

Passes == {"resync", "resend", "resolve", "verify", "verifyBalance", "verifyAfter"}

\* Nothing is booked before the seeding, and every transaction of the chain is
\* a payment to a chaos node that an earlier script made.
Fresh ==
  pc \in Before =>
    /\ last = 0 /\ successes = 0 /\ pending = <<>> /\ alarm = {} /\ abandoned = {}
    /\ \A n \in Nodes : \A e \in Entries : ledger[n][e] = 0
    /\ \A i \in DOMAIN txs :
         txs[i].from \in Earners /\ txs[i].to \in ChaosNodes /\ txs[i].height > 0

\* What the await that the script is at says of its variables.
Shape ==
  /\ pc \notin Ended => (stage = "before" <=> pc \in Before)
  /\ pc \notin Ended \cup {"resolve"} => still = <<>>
  /\ pc \notin Ended \cup Reading => DOMAIN reads = {}
  /\ pc \notin Ended \cup Crediting => at = 0
  /\ pc \in Crediting => last < at /\ (at <= last + 1 \/ at <= height + 1)
  /\ pc = "creditPass" => last <= height
  /\ pc \in Passes => last = height
  /\ pc \in Crediting \cup Passes => \A e \in Earners : height <= tip[e]

\* A height that the credits have reached.
Reached(h) == h <= last \/ h < at

\* A coinbase is booked once, at its earner, and up to the credited height.
CoinbasesBooked ==
  /\ \A n \in Nodes : \A h \in 1..MaxHeight :
       LET count == ledger[n][<<"coinbase", h>>]
       IN count \in {0, 1} /\ (count = 1 => h <= Top /\ earner[h] = n /\ Reached(h))
  /\ last \in 0..Top
  /\ stage # "before" =>
       \A h \in 1..Top : Reached(h) => ledger[earner[h]][<<"coinbase", h>>] = 1

\* A change that is pending stands for i.
InSome(changes, i) == \E k \in DOMAIN changes : i \in changes[k]

Tracked(i) == InSome(pending, i) \/ InSome(still, i)

\* A transaction is booked once, at its parties, confirmed and not tracked.
ChangesBooked ==
  \A n \in Nodes : \A i \in Ids :
    LET count == ledger[n][<<"tx", i>>]
    IN /\ count \in {0, 1}
       /\ count = 1 => /\ i \in DOMAIN txs /\ n \in {txs[i].from, txs[i].to}
                       /\ txs[i].height > 0 /\ ~Tracked(i)

\* A change stands for transactions of this stage.
Proper(change) ==
  /\ change # {} /\ change \subseteq DOMAIN txs
  /\ \A i \in change : txs[i].stage = stage

Apart(changes) ==
  \A j, k \in DOMAIN changes : j # k => changes[j] \cap changes[k] = {}

ChangesProper ==
  /\ \A k \in DOMAIN pending : Proper(pending[k])
  /\ \A k \in DOMAIN still : Proper(still[k])
  /\ Apart(pending) /\ Apart(still)
  /\ \A j \in DOMAIN pending : \A k \in DOMAIN still : pending[j] \cap still[k] = {}

\* Every transaction is tracked, given up or booked at the earners.
Booked(i) ==
  /\ txs[i].height > 0
  /\ \A n \in Earners : n \in {txs[i].from, txs[i].to} => ledger[n][<<"tx", i>>] = 1

Accounted ==
  stage # "before" =>
    \A i \in DOMAIN txs : i \in abandoned \/ Tracked(i) \/ Booked(i)

\* The balance of an earner at the tip t.
HasAt(n, t, e) ==
  IF e[1] = "coinbase" THEN e[2] <= t /\ earner[e[2]] = n
  ELSE /\ e[2] \in DOMAIN txs
       /\ txs[e[2]].from = n \/ (txs[e[2]].to = n /\ txs[e[2]].height \in 1..t)

BalanceAt(b, n, t) == \A e \in Entries : e \in b <=> HasAt(n, t, e)

\* What any balance is made of.
OwnEntries(b, n) ==
  \A e \in Entries : e \in b =>
    IF e[1] = "coinbase" THEN e[2] <= Top /\ earner[e[2]] = n
    ELSE e[2] \in DOMAIN txs /\ n \in {txs[e[2]].from, txs[e[2]].to}

\* An answer of earner e: a height not above its tip, and not below the blocks
\* of S that e earned.
Answer(e, t, S) ==
  e \in DOMAIN reads =>
    \E x \in t..tip[e] : reads[e] = {x} /\ \A h \in S : earner[h] = e => h <= x

HeightsKnown == UNION {UNION {1..y : y \in heights[n]} : n \in Nodes}

HeightsOfBooked ==
  {txs[i].height : i \in {j \in DOMAIN txs : j \notin abandoned /\ ~Tracked(j)}}

SeedReads ==
  /\ pc = "seedBefore" =>
       /\ \A e \in Earners : Answer(e, 0, {})
       /\ \A n \in DOMAIN reads : reads[n] \subseteq 0..Top
  /\ pc \in {"seedBalance", "seedAfter"} =>
       /\ DOMAIN heights = Nodes
       /\ \A n \in Nodes : heights[n] \subseteq 0..Top
  /\ pc = "seedBalance" =>
       /\ \A e \in Earners : \E t \in 0..tip[e] :
            /\ heights[e] = {t}
            /\ e \in DOMAIN reads => \E u \in t..tip[e] : BalanceAt(reads[e], e, u)
       /\ \A n \in DOMAIN reads : OwnEntries(reads[n], n)
  /\ pc = "seedAfter" =>
       /\ \A e \in Earners : \E t \in 0..tip[e] : \E u \in t..tip[e] :
            /\ heights[e] = {t} /\ BalanceAt(balances[e], e, u)
            /\ Answer(e, u, HeightsKnown)
       /\ \A n \in Nodes : OwnEntries(balances[n], n)

PassReads ==
  /\ pc = "converge" => \A e \in Earners : Answer(e, 0, 1..last)
  /\ pc = "verifyBalance" =>
       \A e \in Earners : e \in DOMAIN reads =>
         \E u \in height..tip[e] : BalanceAt(reads[e], e, u)
  /\ pc = "verifyAfter" =>
       \A e \in Earners : \E u \in height..tip[e] :
         BalanceAt(balances[e], e, u) /\ Answer(e, u, HeightsOfBooked)

\* The round actions that were counted are on the chain.
Counted ==
  {i \in DOMAIN txs : txs[i].stage = "round" /\ txs[i].height > 0 /\ ~Tracked(i)}

SuccessesAreReal == successes <= Cardinality(Counted)

IInv ==
  /\ NetInv /\ TypeOK /\ Fresh /\ Shape
  /\ CoinbasesBooked /\ ChangesBooked /\ ChangesProper /\ Accounted
  /\ SeedReads /\ PassReads /\ SuccessesAreReal /\ EarnersAlarmIsOfAbandoned

LEMMA NetInitially ==
  ASSUME NetInit
  PROVE  /\ NetInv
         /\ \A i \in DOMAIN txs :
              txs[i].from \in Earners /\ txs[i].to \in ChaosNodes /\ txs[i].height > 0
<1>1. /\ Earners \subseteq Nodes /\ ChaosNodes \subseteq Nodes
      /\ Earners \cap ChaosNodes = {} /\ MaxHeight \in Nat /\ MaxTx \in Nat
  BY ConstantsAreSets DEF Nodes
<1>2. chaos = [n \in Nodes |-> "idle"]
  BY DEF NetInit
<1>3. /\ chaos \in [Nodes -> {"idle", "armed", "rewound", "down"}]
      /\ \A e \in Earners : chaos[e] = "idle"
  BY <1>1, <1>2
<1>4. CASE ~CarriedOver
  <2>1. earner = <<>> /\ txs = <<>> /\ tip = [n \in Nodes |-> 0]
    BY <1>4 DEF NetInit, FreshChain
  <2>2. earner \in Seq(Earners) /\ Top = 0 /\ 1..Top = {}
    BY <2>1 DEF Top
  <2>3. txs \in Seq(Transaction) /\ Len(txs) = 0 /\ DOMAIN txs = {}
    BY <2>1
  <2>4. tip \in [Nodes -> 0..Top]
    BY <2>1, <2>2
  <2> QED
    BY <1>1, <1>3, <2>2, <2>3, <2>4 DEF NetInv, NetTypeOK
<1>5. CASE CarriedOver
  <2>1. PICK e \in Earners, order \in [1..Cardinality(ChaosNodes) -> ChaosNodes] :
          /\ earner = <<e>>
          /\ txs = [i \in 1..Cardinality(ChaosNodes) |-> Paid(e, order[i])]
          /\ tip \in [Nodes -> {0, 1}]
          /\ \A n \in Nodes : tip[n] = 0 => n \in ChaosNodes
    BY <1>5 DEF NetInit, CarriedOverChain
  <2>2. earner \in Seq(Earners) /\ Top = 1 /\ earner[1] = e
    BY <2>1 DEF Top
  <2>3. Cardinality(ChaosNodes) \in Nat /\ Cardinality(ChaosNodes) <= MaxTx /\ MaxHeight > 0
    BY <1>5, ConstantsAreSets, RoomForCarriedOver, FS_CardinalityType
  <2>4. ASSUME NEW i \in 1..Cardinality(ChaosNodes)
        PROVE  /\ txs[i] \in Transaction /\ txs[i].from = e /\ txs[i].to \in ChaosNodes
               /\ txs[i].height = 1 /\ txs[i].own
    <3>1. txs[i] = Paid(e, order[i]) /\ order[i] \in ChaosNodes
      BY <2>1
    <3>2. 1 \in 0..MaxHeight
      BY <1>1, <2>3
    <3> QED
      BY <1>1, <3>1, <3>2 DEF Paid, Transaction
  <2>5. txs \in [1..Cardinality(ChaosNodes) -> Transaction]
    BY <2>1, <2>4
  <2>6. /\ txs \in Seq(Transaction) /\ Len(txs) = Cardinality(ChaosNodes)
        /\ DOMAIN txs = 1..Cardinality(ChaosNodes)
    BY <2>3, <2>5, IsSequence
  <2>7. tip \in [Nodes -> 0..Top]
    BY <2>1, <2>2
  <2>8. tip[e] = 1
    BY <1>1, <2>1
  <2>9. \A h \in 1..Top : tip[earner[h]] >= h
    BY <2>2, <2>8
  <2>10. NetTypeOK
    BY <1>1, <1>3, <2>2, <2>3, <2>4, <2>6, <2>7 DEF NetTypeOK
  <2> QED
    BY <1>3, <2>4, <2>6, <2>9, <2>10 DEF NetInv
<1> QED
  BY <1>4, <1>5

LEMMA EntriesAre ==
  /\ \A h \in 1..MaxHeight : <<"coinbase", h>> \in Entries
  /\ \A i \in Ids : <<"tx", i>> \in Entries
  /\ \A e \in Entries :
       \/ \E h \in 1..MaxHeight : e = <<"coinbase", h>>
       \/ \E i \in Ids : e = <<"tx", i>>
BY DEF Entries, Ids

LEMMA Initially ==
  ASSUME Init
  PROVE  IInv
<1>1. /\ NetInv
      /\ \A i \in DOMAIN txs :
           txs[i].from \in Earners /\ txs[i].to \in ChaosNodes /\ txs[i].height > 0
  BY NetInitially DEF Init
<1>2. /\ pc = "mempool" /\ stage = "before" /\ left = 0 /\ todo = {}
      /\ pending = <<>> /\ still = <<>> /\ reads = <<>> /\ heights = <<>> /\ balances = <<>>
      /\ height = 0 /\ at = 0 /\ last = 0 /\ successes = 0 /\ alarm = {} /\ abandoned = {}
      /\ color = [n \in Nodes |-> FALSE] /\ final = FALSE
  BY DEF Init
<1>3. ledger = [n \in Nodes |-> [e \in Entries |-> 0]]
  BY DEF Init
<1>4. \A n \in Nodes : \A e \in Entries : ledger[n][e] = 0
  BY <1>3
<1>5. /\ \A n \in Nodes : \A h \in 1..MaxHeight : ledger[n][<<"coinbase", h>>] = 0
      /\ \A n \in Nodes : \A i \in Ids : ledger[n][<<"tx", i>>] = 0
  BY <1>4, EntriesAre
<1>6. DOMAIN pending = {} /\ DOMAIN still = {} /\ DOMAIN reads = {}
      /\ DOMAIN heights = {} /\ DOMAIN balances = {}
  BY <1>2
<1>7. TypeOK
  <2>1. MaxHeight \in Nat
    BY ConstantsAreSets
  <2>2. 0 \in 0..MaxHeight /\ 0 \in 0..MaxHeight + 1
    BY <2>1
  <2>3. ledger \in [Nodes -> [Entries -> 0..2]]
    BY <1>3
  <2>4. pending \in Seq(SUBSET Ids) /\ still \in Seq(SUBSET Ids)
    BY <1>2
  <2>5. pc \in PausedAt
    BY <1>2 DEF PausedAt
  <2>6. NetTypeOK
    BY <1>1 DEF NetInv
  <2> QED
    BY <1>2, <1>6, <2>2, <2>3, <2>4, <2>5, <2>6 DEF TypeOK
<1>8. Fresh
  BY <1>1, <1>2, <1>4 DEF Fresh
<1>9. Shape
  BY <1>2, <1>6 DEF Shape, Ended, Before, Reading, Crediting, Passes
<1>10. CoinbasesBooked
  <2>1. last <= Top
    BY <1>1, <1>2, NetTypes
  <2> QED
    BY <1>2, <1>5, <2>1 DEF CoinbasesBooked
<1>11. ChangesBooked /\ Accounted
  BY <1>2, <1>5 DEF ChangesBooked, Accounted
<1>12. ChangesProper
  BY <1>6 DEF ChangesProper, Apart
<1>13. SeedReads /\ PassReads
  BY <1>2 DEF SeedReads, PassReads
<1>14. SuccessesAreReal
  <2>1. DOMAIN txs = 1..Len(txs) /\ Len(txs) \in Nat
    BY <1>1, NetTypes
  <2>2. IsFiniteSet(Counted)
    <3>1. IsFiniteSet(1..Len(txs))
      BY <2>1, FS_Interval
    <3> QED
      BY <2>1, <3>1, FS_Subset DEF Counted
  <2>3. Cardinality(Counted) \in Nat
    BY <2>2, FS_CardinalityType
  <2> QED
    BY <1>2, <2>3 DEF SuccessesAreReal
<1>15. EarnersAlarmIsOfAbandoned
  BY <1>2 DEF EarnersAlarmIsOfAbandoned
<1> QED
  BY <1>1, <1>7, <1>8, <1>9, <1>10, <1>11, <1>12, <1>13, <1>14, <1>15 DEF IInv

-----------------------------------------------------------------------------
(* What each part of the invariant needs to go through a step.             *)

LEMMA StandsStill ==
  ASSUME NetInv, UNCHANGED netVars
  PROVE  Advances
<1>1. UNCHANGED earner /\ UNCHANGED tip /\ UNCHANGED chaos /\ UNCHANGED txs /\ Top' = Top
  BY DEF netVars, Top
<1>2. NetInv'
  BY <1>1 DEF NetInv, NetTypeOK
<1>3. Evolves
  <2>1. Top \in Nat /\ \A e \in Earners : tip[e] \in Nat
    BY NetTypes
  <2>2. Top <= Top' /\ \A e \in Earners : tip'[e] >= tip[e]
    BY <1>1, <2>1
  <2> QED
    BY <1>1, <2>2 DEF Evolves, SameBut
<1> QED
  BY <1>1, <1>2, <1>3 DEF Advances

SameCoinbases ==
  \A n \in Nodes : \A h \in 1..MaxHeight :
    ledger'[n][<<"coinbase", h>>] = ledger[n][<<"coinbase", h>>]

SameChanges ==
  \A n \in Nodes : \A i \in Ids : ledger'[n][<<"tx", i>>] = ledger[n][<<"tx", i>>]

SameReach ==
  /\ last' \in 0..Top
  /\ \A h \in 1..Top : Reached(h)' <=> Reached(h)
  /\ \A h \in 1..Top' : h > Top => ~Reached(h)'

LEMMA CoinbasesKept ==
  ASSUME NetInv, NetInv', Evolves, CoinbasesBooked, SameCoinbases, SameReach,
         stage' = stage \/ stage # "before"
  PROVE  CoinbasesBooked'
<1>1. /\ Top \in Nat /\ Top' \in Nat /\ Top <= Top' /\ MaxHeight \in Nat
      /\ Top <= MaxHeight /\ Top' <= MaxHeight /\ Earners \subseteq Nodes
      /\ \A h \in 1..Top : earner[h] \in Earners /\ earner'[h] = earner[h]
  <2>1. Top' \in Nat /\ Top' <= MaxHeight
    BY DEF NetInv, NetTypeOK, Top
  <2> QED
    BY <2>1, NetTypes DEF Evolves
<1>2. ASSUME NEW n \in Nodes, NEW h \in 1..MaxHeight
      PROVE  LET count == ledger'[n][<<"coinbase", h>>]
             IN  /\ count \in {0, 1}
                 /\ count = 1 => h <= Top' /\ earner'[h] = n /\ Reached(h)'
  <2>1. ledger'[n][<<"coinbase", h>>] = ledger[n][<<"coinbase", h>>]
    BY DEF SameCoinbases
  <2>2. ledger[n][<<"coinbase", h>>] \in {0, 1}
    BY DEF CoinbasesBooked
  <2>3. ASSUME ledger[n][<<"coinbase", h>>] = 1
        PROVE  h <= Top' /\ earner'[h] = n /\ Reached(h)'
    <3>1. h <= Top /\ earner[h] = n /\ Reached(h)
      BY <2>3 DEF CoinbasesBooked
    <3>2. h \in 1..Top
      BY <1>1, <3>1
    <3>3. Reached(h)' /\ earner'[h] = n
      BY <1>1, <3>1, <3>2 DEF SameReach
    <3> QED
      BY <1>1, <3>1, <3>3
  <2> QED
    BY <2>1, <2>2, <2>3
<1>3. last' \in 0..Top'
  BY <1>1 DEF SameReach
<1>4. ASSUME stage' # "before", NEW h \in 1..Top', Reached(h)'
      PROVE  ledger'[earner'[h]][<<"coinbase", h>>] = 1
  <2>1. h \in 1..Top
    BY <1>1, <1>4 DEF SameReach
  <2>2. Reached(h) /\ earner'[h] = earner[h] /\ earner[h] \in Nodes /\ h \in 1..MaxHeight
    BY <1>1, <1>4, <2>1 DEF SameReach
  <2>3. ledger[earner[h]][<<"coinbase", h>>] = 1
    BY <1>4, <2>1, <2>2 DEF CoinbasesBooked
  <2> QED
    BY <2>2, <2>3 DEF SameCoinbases
<1> QED
  BY <1>2, <1>3, <1>4 DEF CoinbasesBooked

LEMMA ChangesBookedKept ==
  ASSUME Evolves, ChangesBooked, SameChanges, NetInv,
         \A i \in DOMAIN txs : Tracked(i)' => Tracked(i)
  PROVE  ChangesBooked'
<1>1. ASSUME NEW n \in Nodes, NEW i \in Ids
      PROVE  LET count == ledger'[n][<<"tx", i>>]
             IN  /\ count \in {0, 1}
                 /\ count = 1 => /\ i \in DOMAIN txs' /\ n \in {txs'[i].from, txs'[i].to}
                                 /\ txs'[i].height > 0 /\ ~Tracked(i)'
  <2>1. ledger'[n][<<"tx", i>>] = ledger[n][<<"tx", i>>]
    BY DEF SameChanges
  <2>2. ledger[n][<<"tx", i>>] \in {0, 1}
    BY DEF ChangesBooked
  <2>3. ASSUME ledger[n][<<"tx", i>>] = 1
        PROVE  /\ i \in DOMAIN txs' /\ n \in {txs'[i].from, txs'[i].to}
               /\ txs'[i].height > 0 /\ ~Tracked(i)'
    <3>1. /\ i \in DOMAIN txs /\ n \in {txs[i].from, txs[i].to}
          /\ txs[i].height > 0 /\ ~Tracked(i)
      BY <2>3 DEF ChangesBooked
    <3>2. i \in DOMAIN txs' /\ SameBut(txs'[i], txs[i])
      BY <3>1 DEF Evolves
    <3>3. txs[i].height # 0
      BY <3>1, NetTypes
    <3>4. txs'[i].height = txs[i].height /\ txs'[i].from = txs[i].from /\ txs'[i].to = txs[i].to
      BY <3>2, <3>3 DEF SameBut
    <3> QED
      BY <3>1, <3>2, <3>4
  <2> QED
    BY <2>1, <2>2, <2>3
<1> QED
  BY <1>1 DEF ChangesBooked

LEMMA ChangesProperKept ==
  ASSUME Evolves, ChangesProper, UNCHANGED <<pending, still>>,
         stage' = stage \/ (pending = <<>> /\ still = <<>>)
  PROVE  ChangesProper'
<1>1. ASSUME NEW c, Proper(c), stage' = stage
      PROVE  c # {} /\ c \subseteq DOMAIN txs' /\ \A i \in c : txs'[i].stage = stage'
  BY <1>1 DEF Proper, Evolves, SameBut
<1>2. CASE stage' = stage
  <2>1. \A k \in DOMAIN pending : Proper(pending[k])'
    BY <1>1, <1>2 DEF ChangesProper, Proper
  <2>2. \A k \in DOMAIN still : Proper(still[k])'
    BY <1>1, <1>2 DEF ChangesProper, Proper
  <2> QED
    BY <2>1, <2>2 DEF ChangesProper, Apart
<1>3. CASE pending = <<>> /\ still = <<>>
  <2>1. DOMAIN pending' = {} /\ DOMAIN still' = {}
    BY <1>3
  <2> QED
    BY <2>1 DEF ChangesProper, Apart
<1> QED
  BY <1>2, <1>3

LEMMA AccountedKept ==
  ASSUME NetInv, Evolves, Accounted, SameChanges,
         \A i \in DOMAIN txs' : i \in DOMAIN txs \/ i \in abandoned' \/ Tracked(i)',
         \A i \in DOMAIN txs : i \in abandoned \/ Tracked(i) => i \in abandoned' \/ Tracked(i)',
         stage' = stage \/ stage # "before"
  PROVE  Accounted'
<1>1. Earners \subseteq Nodes /\ DOMAIN txs \subseteq Ids
  BY NetTypes DEF Ids
<1>2. ASSUME NEW i \in DOMAIN txs, Booked(i)
      PROVE  Booked(i)'
  <2>1. SameBut(txs'[i], txs[i]) /\ txs[i].height > 0
    BY <1>2 DEF Evolves, Booked
  <2>2. txs[i].height # 0
    BY <2>1, NetTypes
  <2>3. txs'[i].height = txs[i].height /\ txs'[i].from = txs[i].from /\ txs'[i].to = txs[i].to
    BY <2>1, <2>2 DEF SameBut
  <2>4. ASSUME NEW n \in Earners, n \in {txs'[i].from, txs'[i].to}
        PROVE  ledger'[n][<<"tx", i>>] = 1
    <3>1. ledger[n][<<"tx", i>>] = 1
      BY <1>2, <2>3, <2>4 DEF Booked
    <3> QED
      BY <1>1, <3>1 DEF SameChanges
  <2> QED
    BY <2>1, <2>3, <2>4 DEF Booked
<1> QED
  BY <1>2 DEF Accounted

LEMMA CountedIsFinite ==
  ASSUME NetInv
  PROVE  IsFiniteSet(Counted) /\ Cardinality(Counted) \in Nat
<1>1. DOMAIN txs = 1..Len(txs) /\ Len(txs) \in Nat
  BY NetTypes
<1>2. IsFiniteSet(1..Len(txs))
  BY <1>1, FS_Interval
<1>3. IsFiniteSet(Counted)
  BY <1>1, <1>2, FS_Subset DEF Counted
<1> QED
  BY <1>3, FS_CardinalityType

LEMMA CountedGrows ==
  ASSUME NetInv, Evolves, \A i \in DOMAIN txs : Tracked(i)' => Tracked(i)
  PROVE  Counted \subseteq Counted'
<1>1. ASSUME NEW i \in Counted
      PROVE  i \in Counted'
  <2>1. i \in DOMAIN txs /\ txs[i].stage = "round" /\ txs[i].height > 0 /\ ~Tracked(i)
    BY DEF Counted
  <2>2. i \in DOMAIN txs' /\ SameBut(txs'[i], txs[i]) /\ ~Tracked(i)'
    BY <2>1 DEF Evolves
  <2>3. txs[i].height # 0
    BY <2>1, NetTypes
  <2>4. txs'[i].height = txs[i].height /\ txs'[i].stage = txs[i].stage
    BY <2>2, <2>3 DEF SameBut
  <2> QED
    BY <2>1, <2>2, <2>4 DEF Counted
<1> QED
  BY <1>1

LEMMA SuccessesKept ==
  ASSUME NetInv, NetInv', Evolves, \A i \in DOMAIN txs : Tracked(i)' => Tracked(i),
         SuccessesAreReal, successes \in Nat, successes' = successes
  PROVE  SuccessesAreReal'
<1>1. Counted \subseteq Counted'
  BY CountedGrows
<1>2. IsFiniteSet(Counted) /\ Cardinality(Counted) \in Nat
  BY CountedIsFinite
<1>3. IsFiniteSet(Counted)' /\ (Cardinality(Counted) \in Nat)'
  BY CountedIsFinite, PTL
<1>4. Cardinality(Counted) <= Cardinality(Counted')
  BY <1>1, <1>2, <1>3, FS_Subset
<1> QED
  BY <1>2, <1>3, <1>4 DEF SuccessesAreReal

Books ==
  /\ CoinbasesBooked /\ ChangesBooked /\ ChangesProper /\ Accounted
  /\ SuccessesAreReal /\ EarnersAlarmIsOfAbandoned

Reads == SeedReads /\ PassReads

\* A step that books nothing, and one that leaves the stage as well.
Calm ==
  /\ Advances /\ SameReach
  /\ UNCHANGED <<pending, still, ledger, successes, alarm, abandoned>>
  /\ stage' = stage \/ (stage # "before" /\ pending = <<>> /\ still = <<>>)

Quiet ==
  /\ Advances /\ SameReach
  /\ UNCHANGED <<stage, pending, still, ledger, last, successes, alarm, abandoned>>

LEMMA CalmKeepsBooks ==
  ASSUME IInv, Calm
  PROVE  Books'
<1>1. NetInv /\ NetInv' /\ Evolves /\ DOMAIN txs' = DOMAIN txs /\ SameReach
  BY DEF IInv, Calm, Advances
<1>2. /\ CoinbasesBooked /\ ChangesBooked /\ ChangesProper /\ Accounted
      /\ SuccessesAreReal /\ EarnersAlarmIsOfAbandoned /\ successes \in Nat
  BY DEF IInv, TypeOK
<1>3. /\ pending' = pending /\ still' = still /\ ledger' = ledger
      /\ successes' = successes /\ alarm' = alarm /\ abandoned' = abandoned
      /\ stage' = stage \/ stage # "before"
      /\ stage' = stage \/ (pending = <<>> /\ still = <<>>)
  BY DEF Calm
<1>4. SameCoinbases /\ SameChanges
  BY <1>3 DEF SameCoinbases, SameChanges
<1>5. \A i \in DOMAIN txs : Tracked(i)' <=> Tracked(i)
  BY <1>3 DEF Tracked, InSome
<1>6. CoinbasesBooked'
  BY <1>1, <1>2, <1>3, <1>4, CoinbasesKept
<1>7. ChangesBooked'
  BY <1>1, <1>2, <1>4, <1>5, ChangesBookedKept
<1>8. ChangesProper'
  BY <1>1, <1>2, <1>3, ChangesProperKept
<1>9. Accounted'
  BY <1>1, <1>2, <1>3, <1>4, <1>5, AccountedKept
<1>10. SuccessesAreReal'
  BY <1>1, <1>2, <1>3, <1>5, SuccessesKept
<1>11. EarnersAlarmIsOfAbandoned'
  BY <1>2, <1>3 DEF EarnersAlarmIsOfAbandoned
<1> QED
  BY <1>6, <1>7, <1>8, <1>9, <1>10, <1>11 DEF Books

LEMMA QuietKeepsBooks ==
  ASSUME IInv, Quiet
  PROVE  Books'
<1>1. Calm
  BY DEF Quiet, Calm
<1> QED
  BY <1>1, CalmKeepsBooks

LEMMA QuietKeepsFresh ==
  ASSUME IInv, Quiet, pc' \in Before => pc \in Before
  PROVE  Fresh'
<1>1. SUFFICES ASSUME pc' \in Before PROVE Fresh'
  BY DEF Fresh
<1>2. /\ last = 0 /\ successes = 0 /\ pending = <<>> /\ alarm = {} /\ abandoned = {}
      /\ \A n \in Nodes : \A e \in Entries : ledger[n][e] = 0
      /\ \A i \in DOMAIN txs :
           txs[i].from \in Earners /\ txs[i].to \in ChaosNodes /\ txs[i].height > 0
  BY <1>1 DEF IInv, Fresh
<1>3. /\ pending' = pending /\ ledger' = ledger
      /\ last' = last /\ successes' = successes /\ alarm' = alarm /\ abandoned' = abandoned
  BY DEF Quiet
<1>4. ASSUME NEW i \in DOMAIN txs'
      PROVE  txs'[i].from \in Earners /\ txs'[i].to \in ChaosNodes /\ txs'[i].height > 0
  <2>1. i \in DOMAIN txs /\ SameBut(txs'[i], txs[i])
    BY DEF Quiet, Advances, Evolves
  <2>2. txs[i].height # 0 /\ NetInv
    BY <1>2, <2>1, NetTypes DEF IInv
  <2>3. /\ txs'[i].height = txs[i].height
        /\ txs'[i].from = txs[i].from /\ txs'[i].to = txs[i].to
    BY <2>1, <2>2 DEF SameBut
  <2> QED
    BY <1>2, <2>1, <2>3
<1> QED
  BY <1>2, <1>3, <1>4 DEF Fresh

-----------------------------------------------------------------------------
(* Answers and balances.                                                   *)

LEMMA HasAtKept ==
  ASSUME NetInv, Advances, NEW n \in Earners, NEW t \in 0..Top, NEW e \in Entries
  PROVE  HasAt(n, t, e)' <=> HasAt(n, t, e)
<1>1. /\ Top \in Nat /\ DOMAIN txs' = DOMAIN txs
      /\ \A h \in 1..Top : earner'[h] = earner[h]
  BY NetTypes DEF Advances, Evolves
<1>2. CASE \E h \in 1..MaxHeight : e = <<"coinbase", h>>
  <2>1. PICK h \in 1..MaxHeight : e = <<"coinbase", h>>
    BY <1>2
  <2>2. e[1] = "coinbase" /\ e[2] = h
    BY <2>1
  <2>3. CASE h <= t
    <3>1. h \in 1..Top
      BY <1>1, <2>3
    <3> QED
      BY <1>1, <2>2, <3>1 DEF HasAt
  <2>4. CASE ~(h <= t)
    BY <2>2, <2>4 DEF HasAt
  <2> QED
    BY <2>3, <2>4
<1>3. CASE \E i \in Ids : e = <<"tx", i>>
  <2>1. PICK i \in Ids : e = <<"tx", i>>
    BY <1>3
  <2>2. e[1] # "coinbase" /\ e[2] = i
    BY <2>1
  <2>3. ASSUME i \in DOMAIN txs
        PROVE  /\ txs'[i].from = txs[i].from /\ txs'[i].to = txs[i].to
               /\ txs'[i].height \in 1..t <=> txs[i].height \in 1..t
    <3>1. SameBut(txs'[i], txs[i])
      BY <2>3 DEF Advances, Evolves
    <3>2. txs'[i].height = txs[i].height \/ (txs[i].height = 0 /\ txs'[i].height > Top)
      BY <2>3, <3>1 DEF Advances, SameBut
    <3>3. txs'[i].height \in Nat
      <4>1. DOMAIN txs' = 1..Len(txs') /\ txs' \in Seq(Transaction)
        BY DEF Advances, NetInv, NetTypeOK
      <4>2. txs'[i] \in Transaction
        BY <1>1, <2>3, <4>1
      <4> QED
        BY <4>2, ConstantsAreSets DEF Transaction
    <3>4. txs'[i].height \in 1..t <=> txs[i].height \in 1..t
      BY <1>1, <3>2, <3>3
    <3> QED
      BY <3>1, <3>4 DEF SameBut
  <2> QED
    BY <1>1, <2>2, <2>3 DEF HasAt
<1> QED
  BY <1>2, <1>3, EntriesAre

LEMMA BalanceIsAtTip ==
  ASSUME NetInv, NEW n \in Earners
  PROVE  BalanceAt(Balance(n), n, tip[n])
<1>1. tip[n] \in Nat /\ tip[n] <= Top /\ Top \in Nat /\ n \in Nodes /\ MaxHeight \in Nat
      /\ DOMAIN txs = 1..Len(txs) /\ Len(txs) \in Nat /\ Top <= MaxHeight
  BY NetTypes
<1>2. ASSUME NEW h \in 1..MaxHeight
      PROVE  <<"coinbase", h>> \in Balance(n) <=> HasAt(n, tip[n], <<"coinbase", h>>)
  <2>1. <<"coinbase", h>> \in Balance(n) <=> h \in 1..tip[n] /\ earner[h] = n
    BY DEF Balance
  <2>2. h \in 1..tip[n] <=> h <= tip[n]
    BY <1>1
  <2> QED
    BY <2>1, <2>2 DEF HasAt
<1>3. ASSUME NEW i \in Ids
      PROVE  <<"tx", i>> \in Balance(n) <=> HasAt(n, tip[n], <<"tx", i>>)
  <2>1. <<"tx", i>> \in Balance(n) <=> i \in DOMAIN txs /\ Counts(n, i)
    BY DEF Balance
  <2>2. i \in DOMAIN txs /\ txs[i].from = n => txs[i].own
    BY DEF NetInv
  <2>3. i \in DOMAIN txs /\ Counts(n, i)
         <=> /\ i \in DOMAIN txs
             /\ txs[i].from = n \/ (txs[i].to = n /\ txs[i].height \in 1..tip[n])
    BY <2>2 DEF Counts, ConfirmedAt
  <2> QED
    BY <2>1, <2>3 DEF HasAt
<1> QED
  BY <1>2, <1>3, EntriesAre DEF BalanceAt

LEMMA BalanceIsOwn ==
  ASSUME NetInv, NEW n \in Nodes
  PROVE  OwnEntries(Balance(n), n)
<1>1. tip[n] \in Nat /\ tip[n] <= Top /\ Top \in Nat
  BY NetTypes
<1>2. ASSUME NEW h \in 1..MaxHeight, <<"coinbase", h>> \in Balance(n)
      PROVE  h <= Top /\ earner[h] = n
  <2>1. h \in 1..tip[n] /\ earner[h] = n
    BY <1>2 DEF Balance
  <2> QED
    BY <1>1, <2>1
<1>3. ASSUME NEW i \in Ids, <<"tx", i>> \in Balance(n)
      PROVE  i \in DOMAIN txs /\ n \in {txs[i].from, txs[i].to}
  BY <1>3 DEF Balance, Counts
<1>4. ASSUME NEW e \in Entries, e \in Balance(n)
      PROVE  IF e[1] = "coinbase" THEN e[2] <= Top /\ earner[e[2]] = n
             ELSE e[2] \in DOMAIN txs /\ n \in {txs[e[2]].from, txs[e[2]].to}
  <2>1. CASE \E h \in 1..MaxHeight : e = <<"coinbase", h>>
    BY <1>2, <1>4, <2>1
  <2>2. CASE \E i \in Ids : e = <<"tx", i>>
    BY <1>3, <1>4, <2>2
  <2> QED
    BY <2>1, <2>2, EntriesAre
<1> QED
  BY <1>4 DEF OwnEntries

LEMMA OwnEntriesKept ==
  ASSUME NetInv, Advances, NEW n \in Nodes, NEW e \in Entries,
         IF e[1] = "coinbase" THEN e[2] <= Top /\ earner[e[2]] = n
         ELSE e[2] \in DOMAIN txs /\ n \in {txs[e[2]].from, txs[e[2]].to}
  PROVE  IF e[1] = "coinbase" THEN e[2] <= Top' /\ earner'[e[2]] = n
         ELSE e[2] \in DOMAIN txs' /\ n \in {txs'[e[2]].from, txs'[e[2]].to}
<1>1. /\ Top \in Nat /\ Top' \in Nat /\ Top <= Top' /\ DOMAIN txs' = DOMAIN txs
      /\ \A h \in 1..Top : earner'[h] = earner[h]
  <2>1. Top' \in Nat
    BY DEF Advances, NetInv, NetTypeOK, Top
  <2> QED
    BY <2>1, NetTypes DEF Advances, Evolves
<1>2. CASE \E h \in 1..MaxHeight : e = <<"coinbase", h>>
  <2>1. PICK h \in 1..MaxHeight : e = <<"coinbase", h>>
    BY <1>2
  <2>2. h \in 1..Top /\ earner[h] = n
    BY <1>1, <2>1
  <2>3. h <= Top' /\ earner'[h] = n
    BY <1>1, <2>2
  <2> QED
    BY <2>1, <2>3
<1>3. CASE \E i \in Ids : e = <<"tx", i>>
  <2>1. PICK i \in Ids : e = <<"tx", i>>
    BY <1>3
  <2>2. i \in DOMAIN txs /\ n \in {txs[i].from, txs[i].to}
    BY <2>1
  <2>3. txs'[i].from = txs[i].from /\ txs'[i].to = txs[i].to
    BY <2>2 DEF Advances, Evolves, SameBut
  <2> QED
    BY <1>1, <2>1, <2>2, <2>3
<1> QED
  BY <1>2, <1>3, EntriesAre

LEMMA AnswerKept ==
  ASSUME NetInv, Advances, reads' = reads, NEW e \in Earners, NEW t \in Nat,
         NEW S \in SUBSET (1..Top), Answer(e, t, S), e \in DOMAIN reads'
  PROVE  \E x \in t..tip'[e] : reads'[e] = {x} /\ \A h \in S : earner'[h] = e => h <= x
<1>1. PICK x \in t..tip[e] : reads[e] = {x} /\ \A h \in S : earner[h] = e => h <= x
  BY DEF Answer
<1>2. \A h \in S : earner'[h] = earner[h]
  BY DEF Advances, Evolves
<1>3. x \in t..tip'[e]
  <2>1. tip'[e] \in Nat /\ tip[e] \in Nat /\ tip'[e] >= tip[e]
    <3>1. tip' \in [Nodes -> 0..Top'] /\ Top' \in Nat /\ e \in Nodes
      BY ConstantsAreSets DEF Advances, NetInv, NetTypeOK, Top, Nodes
    <3>2. tip'[e] >= tip[e]
      BY DEF Advances, Evolves
    <3>3. tip[e] \in Nat
      BY <3>1, NetTypes
    <3> QED
      BY <3>1, <3>2, <3>3
  <2> QED
    BY <2>1
<1> QED
  BY <1>1, <1>2, <1>3

\* The answer of an earner is its tip.
LEMMA AnswerAdded ==
  ASSUME NetInv, UNCHANGED netVars, NEW n \in Nodes, n \notin DOMAIN reads,
         reads' = Put(reads, n, HeightSeen(n)), NEW e \in Earners, NEW t \in 0..tip[e],
         NEW S \in SUBSET (1..Top), Answer(e, t, S), e \in DOMAIN reads'
  PROVE  \E x \in t..tip'[e] : reads'[e] = {x} /\ \A h \in S : earner'[h] = e => h <= x
<1>1. UNCHANGED earner /\ UNCHANGED tip
  BY DEF netVars
<1>0. /\ DOMAIN reads' = DOMAIN reads \cup {n} /\ reads'[n] = HeightSeen(n)
      /\ \A m \in DOMAIN reads : m # n => reads'[m] = reads[m]
  BY DEF Put
<1>2. CASE e = n
  <2>1. reads'[e] = {tip[e]}
    <3>1. chaos[e] = "idle"
      BY DEF NetInv
    <3> QED
      BY <1>0, <1>2, <3>1 DEF HeightSeen, Up
  <2>2. \A h \in S : earner[h] = e => h <= tip[e]
    <3>1. \A h \in S : tip[earner[h]] >= h
      BY DEF NetInv
    <3>2. \A h \in S : h \in Nat
      BY NetTypes
    <3>3. tip[e] \in Nat
      BY NetTypes
    <3> QED
      BY <3>1, <3>2, <3>3
  <2>3. tip[e] \in t..tip[e]
    <3>1. tip[e] \in Nat
      BY NetTypes
    <3> QED
      BY <3>1
  <2> QED
    BY <1>1, <2>1, <2>2, <2>3
<1>3. CASE e # n
  <2>1. e \in DOMAIN reads /\ reads'[e] = reads[e]
    BY <1>0, <1>3
  <2> QED
    BY <1>1, <2>1 DEF Answer
<1> QED
  BY <1>2, <1>3

LEMMA HeightsOfBookedAre ==
  ASSUME NetInv, Accounted, stage # "before", Advances,
         UNCHANGED <<abandoned, pending, still>>
  PROVE  HeightsOfBooked' = HeightsOfBooked /\ HeightsOfBooked \in SUBSET (1..Top)
<1>1. DOMAIN txs' = DOMAIN txs /\ \A i \in DOMAIN txs : SameBut(txs'[i], txs[i])
  BY DEF Advances, Evolves
<1>2. \A i : Tracked(i)' <=> Tracked(i)
  BY DEF Tracked, InSome
<1>3. ASSUME NEW i \in DOMAIN txs, i \notin abandoned, ~Tracked(i)
      PROVE  txs[i].height \in 1..Top /\ txs'[i].height = txs[i].height
  <2>1. txs[i].height > 0
    BY <1>3 DEF Accounted, Booked
  <2>2. txs[i].height \in 0..MaxHeight /\ txs[i].height <= Top /\ Top \in Nat /\ MaxHeight \in Nat
    BY NetTypes
  <2>3. txs[i].height \in 1..Top
    BY <2>1, <2>2
  <2>4. txs[i].height # 0
    BY <2>3
  <2> QED
    BY <1>1, <2>3, <2>4 DEF SameBut
<1> QED
  BY <1>1, <1>2, <1>3 DEF HeightsOfBooked

LEMMA HeightsKnownAre ==
  ASSUME NetInv, \A n \in Nodes : heights[n] \subseteq 0..Top
  PROVE  HeightsKnown \in SUBSET (1..Top)
<1>1. Top \in Nat
  BY NetTypes
<1>2. ASSUME NEW n \in Nodes, NEW y \in heights[n]
      PROVE  1..y \subseteq 1..Top
  <2>1. y \in 0..Top
    BY <1>2
  <2> QED
    BY <1>1, <2>1
<1> QED
  BY <1>2 DEF HeightsKnown

\* While the script waits, the answers it has remain what they are.
LEMMA WaitingKeepsReads ==
  ASSUME IInv, Advances, pc' = pc, pc \notin Ended,
         UNCHANGED <<stage, pending, still, abandoned, reads, heights, balances, height, last>>
  PROVE  Reads'
<1>1. NetInv /\ NetInv' /\ SeedReads /\ PassReads /\ Shape /\ Accounted /\ TypeOK
  BY DEF IInv, Advances
<1>2. /\ Top \in Nat /\ Top' \in Nat /\ Top <= Top' /\ Earners \subseteq Nodes
      /\ \A e \in Earners : tip[e] \in Nat /\ tip'[e] \in Nat /\ tip[e] <= tip'[e] /\ tip[e] <= Top
  <2>1. tip' \in [Nodes -> 0..Top'] /\ Top' \in Nat /\ Earners \subseteq Nodes
    BY <1>1, ConstantsAreSets DEF NetInv, NetTypeOK, Top, Nodes
  <2>2. \A e \in Earners : tip'[e] >= tip[e]
    BY DEF Advances, Evolves
  <2>3. \A e \in Earners : tip[e] \in Nat /\ tip[e] <= Top
    BY <1>1, NetTypes
  <2>4. Top \in Nat /\ Top <= Top'
    BY <1>1, NetTypes DEF Advances, Evolves
  <2>5. \A e \in Earners : tip'[e] \in Nat
    BY <2>1
  <2> QED
    BY <2>1, <2>2, <2>3, <2>4, <2>5
<1>3. /\ stage' = stage /\ pending' = pending /\ still' = still /\ abandoned' = abandoned
      /\ reads' = reads /\ heights' = heights /\ balances' = balances /\ height' = height
      /\ last' = last
  OBVIOUS
<1>4. ASSUME NEW e \in Earners, NEW u \in Nat, u <= tip[e], NEW x \in Entries
      PROVE  HasAt(e, u, x)' <=> HasAt(e, u, x)
  <2>1. u \in 0..Top
    BY <1>2, <1>4
  <2> QED
    BY <1>1, <2>1, HasAtKept
<1>5. ASSUME NEW n \in Nodes, heights[n] \subseteq 0..Top
      PROVE  heights'[n] \subseteq 0..Top'
  BY <1>2, <1>3, <1>5
<1>6. ASSUME NEW e \in Earners, NEW t \in 0..tip[e]
      PROVE  t \in 0..tip'[e] /\ t \in Nat /\ \A u \in t..tip[e] : u \in t..tip'[e] /\ u \in Nat /\ u <= tip[e]
  BY <1>2
<1>7. ASSUME pc = "seedBefore"
      PROVE  /\ \A e \in Earners : Answer(e, 0, {})'
             /\ \A n \in DOMAIN reads' : reads'[n] \subseteq 0..Top'
  <2>1. ASSUME NEW e \in Earners PROVE Answer(e, 0, {})'
    <3>1. Answer(e, 0, {})
      BY <1>1, <1>7 DEF SeedReads
    <3>2. {} \in SUBSET (1..Top) /\ 0 \in Nat
      OBVIOUS
    <3> QED
      BY <1>1, <1>3, <3>1, <3>2, AnswerKept DEF Answer
  <2>2. \A n \in DOMAIN reads : reads[n] \subseteq 0..Top
    BY <1>1, <1>7 DEF SeedReads
  <2>3. \A n \in DOMAIN reads' : reads'[n] \subseteq 0..Top'
    BY <1>2, <1>3, <2>2
  <2> QED
    BY <2>1, <2>3
<1>8. ASSUME pc \in {"seedBalance", "seedAfter"}
      PROVE  DOMAIN heights' = Nodes /\ \A n \in Nodes : heights'[n] \subseteq 0..Top'
  BY <1>1, <1>3, <1>5, <1>8 DEF SeedReads
<1>9. ASSUME pc = "seedBalance"
      PROVE  /\ \A e \in Earners : \E t \in 0..tip'[e] :
                  /\ heights'[e] = {t}
                  /\ e \in DOMAIN reads' => \E u \in t..tip'[e] : BalanceAt(reads[e], e, u)'
             /\ \A n \in DOMAIN reads' : OwnEntries(reads[n], n)'
  <2>1. ASSUME NEW e \in Earners
        PROVE  \E t \in 0..tip'[e] :
                  /\ heights'[e] = {t}
                  /\ e \in DOMAIN reads' => \E u \in t..tip'[e] : BalanceAt(reads[e], e, u)'
    <3>1. PICK t \in 0..tip[e] :
            /\ heights[e] = {t}
            /\ e \in DOMAIN reads => \E u \in t..tip[e] : BalanceAt(reads[e], e, u)
      BY <1>1, <1>9 DEF SeedReads
    <3>2. ASSUME e \in DOMAIN reads
          PROVE  \E u \in t..tip'[e] : BalanceAt(reads[e], e, u)'
      <4>1. PICK u \in t..tip[e] : BalanceAt(reads[e], e, u)
        BY <3>1, <3>2
      <4>2. u \in t..tip'[e] /\ u \in Nat /\ u <= tip[e]
        BY <1>6
      <4>3. BalanceAt(reads[e], e, u)'
        BY <1>3, <1>4, <4>1, <4>2 DEF BalanceAt
      <4> QED
        BY <4>2, <4>3
    <3> QED
      BY <1>3, <1>6, <3>1, <3>2
  <2>2. ASSUME NEW n \in DOMAIN reads'
        PROVE  OwnEntries(reads[n], n)'
    <3>1. n \in Nodes /\ OwnEntries(reads[n], n)
      BY <1>1, <1>3, <1>9 DEF SeedReads, TypeOK
    <3> QED
      BY <1>1, <1>3, <3>1, OwnEntriesKept DEF OwnEntries
  <2> QED
    BY <2>1, <2>2
<1>10. ASSUME pc = "seedAfter"
       PROVE  /\ \A e \in Earners : \E t \in 0..tip'[e] : \E u \in t..tip'[e] :
                   /\ heights'[e] = {t} /\ BalanceAt(balances[e], e, u)'
                   /\ Answer(e, u, HeightsKnown)'
              /\ \A n \in Nodes : OwnEntries(balances[n], n)'
  <2>1. HeightsKnown' = HeightsKnown /\ HeightsKnown \in SUBSET (1..Top)
    <3>1. \A n \in Nodes : heights[n] \subseteq 0..Top
      BY <1>1, <1>10 DEF SeedReads
    <3> QED
      BY <1>1, <1>3, <3>1, HeightsKnownAre DEF HeightsKnown
  <2>2. ASSUME NEW e \in Earners
        PROVE  \E t \in 0..tip'[e] : \E u \in t..tip'[e] :
                 /\ heights'[e] = {t} /\ BalanceAt(balances[e], e, u)'
                 /\ Answer(e, u, HeightsKnown)'
    <3>0. PICK t \in 0..tip[e] : \E u \in t..tip[e] :
            /\ heights[e] = {t} /\ BalanceAt(balances[e], e, u)
            /\ Answer(e, u, HeightsKnown)
      BY <1>1, <1>10 DEF SeedReads
    <3>1. PICK u \in t..tip[e] :
            /\ heights[e] = {t} /\ BalanceAt(balances[e], e, u)
            /\ Answer(e, u, HeightsKnown)
      BY <3>0
    <3>2. t \in 0..tip'[e] /\ u \in t..tip'[e] /\ u \in Nat /\ u <= tip[e]
      BY <1>6
    <3>3. BalanceAt(balances[e], e, u)'
      BY <1>3, <1>4, <3>1, <3>2 DEF BalanceAt
    <3>4. Answer(e, u, HeightsKnown)'
      BY <1>1, <1>3, <2>1, <3>1, <3>2, AnswerKept DEF Answer
    <3> QED
      BY <1>3, <3>1, <3>2, <3>3, <3>4
  <2>3. ASSUME NEW n \in Nodes
        PROVE  OwnEntries(balances[n], n)'
    <3>1. OwnEntries(balances[n], n)
      BY <1>1, <1>10 DEF SeedReads
    <3> QED
      BY <1>1, <1>3, <3>1, OwnEntriesKept DEF OwnEntries
  <2> QED
    BY <2>2, <2>3
<1>11. SeedReads'
  <2>1. pc' = "seedBefore" =>
          /\ \A e \in Earners : Answer(e, 0, {})'
          /\ \A n \in DOMAIN reads' : reads'[n] \subseteq 0..Top'
    BY <1>7
  <2>2. pc' \in {"seedBalance", "seedAfter"} =>
          DOMAIN heights' = Nodes /\ \A n \in Nodes : heights'[n] \subseteq 0..Top'
    BY <1>8
  <2>3. pc' = "seedBalance" =>
          /\ \A e \in Earners : \E t \in 0..tip'[e] :
               /\ heights'[e] = {t}
               /\ e \in DOMAIN reads' => \E u \in t..tip'[e] : BalanceAt(reads[e], e, u)'
          /\ \A n \in DOMAIN reads' : OwnEntries(reads[n], n)'
    BY <1>9
  <2>4. pc' = "seedAfter" =>
          /\ \A e \in Earners : \E t \in 0..tip'[e] : \E u \in t..tip'[e] :
               /\ heights'[e] = {t} /\ BalanceAt(balances[e], e, u)'
               /\ Answer(e, u, HeightsKnown)'
          /\ \A n \in Nodes : OwnEntries(balances[n], n)'
    BY <1>10
  <2> QED
    BY <2>1, <2>2, <2>3, <2>4 DEF SeedReads
<1>12. ASSUME pc = "converge", NEW e \in Earners
       PROVE  Answer(e, 0, 1..last)'
  <2>1. Answer(e, 0, 1..last)
    BY <1>1, <1>12 DEF PassReads
  <2>2. 1..last \in SUBSET (1..Top) /\ 0 \in Nat
    BY <1>2 DEF IInv, CoinbasesBooked
  <2> QED
    BY <1>1, <1>3, <2>1, <2>2, AnswerKept DEF Answer
<1>13. ASSUME NEW e \in Earners, NEW u \in height..tip[e]
       PROVE  u \in height'..tip'[e] /\ u \in Nat /\ u <= tip[e]
  <2>1. height \in Nat
    BY <1>1, ConstantsAreSets DEF TypeOK
  <2> QED
    BY <1>2, <1>3, <2>1
<1>14. ASSUME pc = "verifyBalance", NEW e \in Earners, e \in DOMAIN reads'
       PROVE  \E u \in height'..tip'[e] : BalanceAt(reads[e], e, u)'
  <2>1. PICK u \in height..tip[e] : BalanceAt(reads[e], e, u)
    BY <1>1, <1>3, <1>14 DEF PassReads
  <2>2. u \in height'..tip'[e] /\ u \in Nat /\ u <= tip[e]
    BY <1>13
  <2>3. BalanceAt(reads[e], e, u)'
    BY <1>3, <1>4, <2>1, <2>2 DEF BalanceAt
  <2> QED
    BY <2>2, <2>3
<1>15. ASSUME pc = "verifyAfter", NEW e \in Earners
       PROVE  \E u \in height'..tip'[e] :
                BalanceAt(balances[e], e, u)' /\ Answer(e, u, HeightsOfBooked)'
  <2>1. PICK u \in height..tip[e] : BalanceAt(balances[e], e, u) /\ Answer(e, u, HeightsOfBooked)
    BY <1>1, <1>15 DEF PassReads
  <2>2. u \in height'..tip'[e] /\ u \in Nat /\ u <= tip[e]
    BY <1>13
  <2>3. BalanceAt(balances[e], e, u)'
    BY <1>3, <1>4, <2>1, <2>2 DEF BalanceAt
  <2>4. stage # "before"
    BY <1>1, <1>15 DEF Shape, Before, Ended
  <2>5. HeightsOfBooked' = HeightsOfBooked /\ HeightsOfBooked \in SUBSET (1..Top)
    BY <1>1, <1>3, <2>4, HeightsOfBookedAre
  <2>6. Answer(e, u, HeightsOfBooked)'
    BY <1>1, <1>3, <2>1, <2>2, <2>5, AnswerKept DEF Answer
  <2> QED
    BY <2>2, <2>3, <2>6
<1>16. PassReads'
  BY <1>12, <1>14, <1>15 DEF PassReads
<1> QED
  BY <1>11, <1>16 DEF Reads

-----------------------------------------------------------------------------
(* The steps of the network.                                               *)

\* The parts of the invariant that every step is shown to keep.
LEMMA Assembled ==
  ASSUME NetInv', TypeOK', Fresh', Shape', Books', Reads'
  PROVE  IInv'
BY DEF IInv, Books, Reads

LEMMA ScriptTypes ==
  ASSUME IInv
  PROVE  /\ MaxHeight \in Nat /\ MaxTx \in Nat /\ Earners \subseteq Nodes /\ Probe \in Earners
         /\ Top \in Nat /\ Top <= MaxHeight
         /\ last \in Nat /\ last <= Top /\ height \in Nat /\ at \in Nat
         /\ \A e \in Earners : tip[e] \in Nat /\ tip[e] <= Top
         /\ pc \notin Ended => at <= Top + 1
<1>1. NetInv /\ TypeOK /\ Shape /\ last \in 0..Top
  BY DEF IInv, CoinbasesBooked
<1>2. /\ MaxHeight \in Nat /\ MaxTx \in Nat /\ Earners \subseteq Nodes /\ Top \in Nat
      /\ Top <= MaxHeight /\ \A e \in Earners : tip[e] \in Nat /\ tip[e] <= Top
  BY <1>1, NetTypes
<1>3. height \in Nat /\ at \in Nat
  BY <1>1, <1>2 DEF TypeOK
<1>4. Probe \in Earners
  BY ProbeIsSteady
<1>5. ASSUME pc \notin Ended
      PROVE  at <= Top + 1
  <2>1. CASE pc \in Crediting
    <3>1. height <= tip[Probe] /\ (at <= last + 1 \/ at <= height + 1)
      BY <1>1, <1>4, <2>1 DEF Shape
    <3>2. tip[Probe] \in Nat /\ tip[Probe] <= Top /\ last \in Nat /\ last <= Top
      BY <1>1, <1>2, <1>4
    <3> QED
      BY <1>2, <1>3, <3>1, <3>2
  <2>2. CASE pc \notin Crediting
    <3>1. at = 0
      BY <1>1, <1>5, <2>2 DEF Shape
    <3> QED
      BY <1>2, <3>1
  <2> QED
    BY <2>1, <2>2
<1> QED
  BY <1>1, <1>2, <1>3, <1>4, <1>5

LEMMA QuietKeepsTypes ==
  ASSUME IInv, Quiet, UNCHANGED <<left, todo, color>>, final' \in BOOLEAN,
         pc' \in PausedAt \cup Unpaused \cup Ended,
         DOMAIN reads' \subseteq Nodes,
         DOMAIN heights' \in {{}, Nodes}, DOMAIN balances' \in {{}, Nodes},
         height' \in 0..MaxHeight + 1, at' \in 0..MaxHeight + 1
  PROVE  TypeOK'
<1>1. NetTypeOK'
  BY DEF Quiet, Advances, NetInv
<1>2. TypeOK
  BY DEF IInv
<1>3. /\ stage' = stage /\ pending' = pending /\ still' = still /\ ledger' = ledger
      /\ last' = last /\ successes' = successes /\ alarm' = alarm /\ abandoned' = abandoned
      /\ left' = left /\ todo' = todo /\ color' = color
  BY DEF Quiet
<1> QED
  BY <1>1, <1>2, <1>3 DEF TypeOK

LEMMA EnvironmentKeeps ==
  ASSUME IInv, Environment
  PROVE  IInv'
<1>1. PICK paused : Network(paused)
  BY DEF Environment
<1>2. Advances
  BY <1>1, NetworkAdvances DEF IInv
<1>3. /\ pc' = pc /\ stage' = stage /\ left' = left /\ todo' = todo /\ color' = color
      /\ pending' = pending /\ still' = still /\ final' = final /\ reads' = reads
      /\ heights' = heights /\ balances' = balances /\ height' = height /\ at' = at
      /\ ledger' = ledger /\ last' = last /\ successes' = successes
      /\ alarm' = alarm /\ abandoned' = abandoned /\ pc \notin Ended
  BY DEF Environment, scriptVars, ctlVars, sendVars, changeVars, readVars, bookVars, verdictVars
<1>4. SameReach
  <2>1. last \in 0..Top /\ last \in Nat /\ last <= Top /\ at \in Nat /\ at <= Top + 1 /\ Top \in Nat
    BY <1>3, ScriptTypes
  <2>2. Top' \in Nat
    BY <1>2 DEF Advances, NetInv, NetTypeOK, Top
  <2>3. \A h \in 1..Top' : h > Top => ~(h <= last) /\ ~(h < at)
    BY <2>1, <2>2
  <2> QED
    BY <1>3, <2>1, <2>3 DEF SameReach, Reached
<1>5. Quiet
  BY <1>2, <1>3, <1>4 DEF Quiet
<1>6. TypeOK'
  <2>1. /\ final \in BOOLEAN /\ pc \in PausedAt \cup Unpaused \cup Ended
        /\ DOMAIN reads \subseteq Nodes
        /\ DOMAIN heights \in {{}, Nodes} /\ DOMAIN balances \in {{}, Nodes}
        /\ height \in 0..MaxHeight + 1 /\ at \in 0..MaxHeight + 1
    BY DEF IInv, TypeOK
  <2> QED
    BY <1>3, <1>5, <2>1, QuietKeepsTypes
<1>7. Fresh'
  BY <1>3, <1>5, QuietKeepsFresh
<1>8. Shape'
  <2>1. Shape
    BY DEF IInv
  <2>2. ASSUME NEW e \in Earners, height <= tip[e]
        PROVE  height' <= tip'[e]
    <3>1. tip'[e] >= tip[e] /\ tip[e] \in Nat /\ height \in Nat
      BY <1>2, ScriptTypes DEF Advances, Evolves
    <3>2. tip'[e] \in Nat
      <4>1. tip' \in [Nodes -> 0..Top'] /\ Top' \in Nat /\ e \in Nodes
        BY <1>2, ScriptTypes DEF Advances, NetInv, NetTypeOK, Top
      <4> QED
        BY <4>1
    <3> QED
      BY <1>3, <2>2, <3>1, <3>2
  <2> QED
    BY <1>3, <2>1, <2>2 DEF Shape
<1>9. Books'
  BY <1>5, QuietKeepsBooks
<1>10. Reads'
  BY <1>2, <1>3, WaitingKeepsReads
<1>11. NetInv'
  BY <1>2 DEF Advances
<1> QED
  BY <1>6, <1>7, <1>8, <1>9, <1>10, <1>11, Assembled

-----------------------------------------------------------------------------
(* The steps of the script that book nothing.                              *)

BooksNothing ==
  UNCHANGED <<netVars, stage, pending, still, ledger, last, successes, alarm, abandoned>>

LEMMA ReachIs ==
  ASSUME IInv, last' = last, Top' = Top, at' = at \/ (at = 0 /\ at' = last + 1)
  PROVE  SameReach
<1>1. last \in Nat /\ last <= Top /\ at \in Nat /\ Top \in Nat
  BY ScriptTypes
<1>2. last' \in 0..Top
  BY <1>1
<1>3. \A h \in 1..Top : (h <= last' \/ h < at') <=> (h <= last \/ h < at)
  BY <1>1
<1>4. \A h \in 1..Top' : ~(h > Top)
  BY <1>1
<1> QED
  BY <1>2, <1>3, <1>4 DEF SameReach, Reached

LEMMA BooksNothingIsQuiet ==
  ASSUME IInv, BooksNothing, at' = at \/ (at = 0 /\ at' = last + 1)
  PROVE  /\ Quiet /\ NetInv' /\ Top' = Top /\ tip' = tip /\ earner' = earner /\ txs' = txs
<1>1. Advances
  BY StandsStill DEF IInv, BooksNothing
<1>2. earner' = earner /\ tip' = tip /\ txs' = txs /\ Top' = Top
  BY DEF BooksNothing, netVars, Top
<1>3. last' = last
  BY DEF BooksNothing
<1>4. SameReach
  BY <1>2, <1>3, ReachIs
<1>5. Quiet
  BY <1>1, <1>4 DEF Quiet, BooksNothing
<1> QED
  BY <1>1, <1>2, <1>5 DEF Advances

\* No answer yet, or none that the invariant is about.
LEMMA NoAnswers ==
  ASSUME pc' \notin {"seedBalance", "seedAfter", "verifyAfter"},
         pc' \in {"seedBefore", "converge", "verifyBalance"} => DOMAIN reads' = {}
  PROVE  Reads'
<1>1. SeedReads'
  BY DEF SeedReads, Answer
<1>2. PassReads'
  BY DEF PassReads, Answer
<1> QED
  BY <1>1, <1>2 DEF Reads

\* From one await to another, both outside of the crediting and the pass.
LEMMA ShapeKept ==
  ASSUME IInv, BooksNothing, at' = at,
         pc \notin Ended \cup Crediting \cup {"resolve"},
         pc' \notin Ended \cup Crediting \cup Passes, pc' \in Before <=> pc \in Before,
         pc' \notin Reading => DOMAIN reads' = {}
  PROVE  Shape'
<1>1. /\ stage = "before" <=> pc \in Before
      /\ still = <<>> /\ at = 0
  BY DEF IInv, Shape
<1>2. stage' = stage /\ still' = still
  BY DEF BooksNothing
<1>3. pc' # "creditPass"
  BY DEF Crediting
<1> QED
  BY <1>1, <1>2, <1>3 DEF Shape

\* A step that all of this is true of.
LEMMA HopKeeps ==
  ASSUME IInv, BooksNothing, at' = at,
         pc \notin Ended \cup Crediting \cup {"resolve"},
         pc' \notin Ended \cup Crediting \cup Passes, pc' \in Before <=> pc \in Before,
         pc' \in PausedAt \cup Unpaused, pc' \notin Reading => DOMAIN reads' = {},
         DOMAIN reads' \subseteq Nodes,
         DOMAIN heights' \in {{}, Nodes}, DOMAIN balances' \in {{}, Nodes},
         height' \in 0..MaxHeight + 1, final' \in BOOLEAN,
         UNCHANGED <<left, todo, color>>, Reads'
  PROVE  IInv'
<1>1. Quiet /\ NetInv'
  BY BooksNothingIsQuiet
<1>2. at \in 0..MaxHeight + 1
  BY DEF IInv, TypeOK
<1>3. TypeOK'
  BY <1>1, <1>2, QuietKeepsTypes
<1>4. Fresh'
  BY <1>1, QuietKeepsFresh
<1>5. Books'
  BY <1>1, QuietKeepsBooks
<1>6. Shape'
  BY ShapeKept
<1> QED
  BY <1>1, <1>3, <1>4, <1>5, <1>6, Assembled

\* Within a pass or its comparison.
LEMMA PassHopKeeps ==
  ASSUME IInv, Quiet, NetInv', at' = at, height' = height,
         pc \in Passes \ {"resolve"}, pc' \in Passes,
         pc' \notin Reading => DOMAIN reads' = {},
         DOMAIN reads' \subseteq Nodes, DOMAIN balances' \in {{}, Nodes},
         UNCHANGED <<left, todo, color, final, heights>>, Reads'
  PROVE  IInv'
<1>1. /\ pc \in PausedAt \cup Unpaused /\ pc' \in PausedAt \cup Unpaused
      /\ pc \notin Before /\ pc \notin Crediting /\ pc \notin Ended /\ pc' \notin Before
      /\ pc' \notin Crediting /\ pc' \notin Ended /\ pc' # "creditPass"
  BY DEF Passes, PausedAt, Unpaused, Before, Crediting, Ended
<1>2. /\ at \in 0..MaxHeight + 1 /\ height \in 0..MaxHeight + 1 /\ final \in BOOLEAN
      /\ DOMAIN heights \in {{}, Nodes}
  BY DEF IInv, TypeOK
<1>3. TypeOK'
  BY <1>1, <1>2, QuietKeepsTypes
<1>4. Fresh'
  BY <1>1, QuietKeepsFresh
<1>5. Books'
  BY QuietKeepsBooks
<1>6. /\ stage # "before" /\ still = <<>> /\ at = 0 /\ last = height
      /\ \A e \in Earners : height <= tip[e]
  BY <1>1 DEF IInv, Shape
<1>7. ASSUME NEW e \in Earners
      PROVE  height' <= tip'[e]
  <2>1. tip'[e] >= tip[e] /\ tip[e] \in Nat /\ height \in Nat /\ height <= tip[e]
    BY <1>6, ScriptTypes DEF Quiet, Advances, Evolves
  <2>2. tip'[e] \in Nat
    <3>1. tip' \in [Nodes -> 0..Top'] /\ Top' \in Nat /\ e \in Nodes
      BY ScriptTypes DEF NetInv, NetTypeOK, Top
    <3> QED
      BY <3>1
  <2> QED
    BY <2>1, <2>2
<1>8. stage' = stage /\ still' = still /\ last' = last
  BY DEF Quiet
<1>9. Shape'
  BY <1>1, <1>6, <1>7, <1>8 DEF Shape
<1> QED
  BY <1>3, <1>4, <1>5, <1>9, Assembled

LEMMA ReadsTypes ==
  ASSUME IInv
  PROVE  /\ DOMAIN reads \subseteq Nodes
         /\ DOMAIN heights \in {{}, Nodes} /\ DOMAIN balances \in {{}, Nodes}
         /\ height \in 0..MaxHeight + 1 /\ at \in 0..MaxHeight + 1 /\ final \in BOOLEAN
         /\ pc \notin Ended \cup Reading => DOMAIN reads = {}
         /\ DOMAIN <<>> = {}
BY DEF IInv, TypeOK, Shape

\* The reachable nodes include the earners.
LEMMA SlowestIs ==
  ASSUME IInv
  PROVE  /\ Min(ReachableHeights) \in Nat /\ Min(ReachableHeights) <= MaxHeight
         /\ \A e \in Earners : Min(ReachableHeights) <= tip[e]
<1>1. \A e \in Earners : e \in Nodes /\ HeightSeen(e) = {tip[e]}
  BY ScriptTypes DEF IInv, NetInv, HeightSeen, Up
<1>2. ReachableHeights \in SUBSET Nat
  <2>1. \A n \in Nodes : tip[n] \in Nat
    BY NetTypes DEF IInv
  <2> QED
    BY <2>1 DEF ReachableHeights, HeightSeen
<1>3. \A e \in Earners : tip[e] \in ReachableHeights
  BY <1>1 DEF ReachableHeights
<1>4. Probe \in Earners /\ tip[Probe] \in Nat /\ tip[Probe] <= MaxHeight /\ MaxHeight \in Nat
  <2>1. Probe \in Earners /\ tip[Probe] \in Nat /\ tip[Probe] <= Top /\ Top \in Nat
        /\ Top <= MaxHeight /\ MaxHeight \in Nat
    BY ScriptTypes
  <2> QED
    BY <2>1
<1>5. /\ Min(ReachableHeights) \in ReachableHeights
      /\ \A y \in ReachableHeights : Min(ReachableHeights) <= y
  BY <1>2, <1>3, <1>4, MinIs
<1>6. Min(ReachableHeights) \in Nat /\ Min(ReachableHeights) <= tip[Probe]
  BY <1>2, <1>3, <1>4, <1>5
<1> QED
  BY <1>3, <1>4, <1>5, <1>6

LEMMA HopsKeep ==
  ASSUME IInv,
         \/ WaitForEmptyMempool \/ SeedPauses \/ SeedAgain
         \/ WaitForNextBlock("next", "nextPoll") \/ WaitForNextBlock("wait", "waitPoll")
         \/ NextBlockSeen("nextPoll", "current") \/ NextBlockSeen("waitPoll", "converge")
         \/ ConvergePoll \/ Moved \/ WaitsForPending
  PROVE  IInv'
<1>1. /\ DOMAIN reads \subseteq Nodes /\ DOMAIN heights \in {{}, Nodes}
      /\ DOMAIN balances \in {{}, Nodes} /\ DOMAIN <<>> = {} /\ final \in BOOLEAN
      /\ height \in 0..MaxHeight + 1 /\ 0 \in 0..MaxHeight + 1
      /\ pc \notin Ended \cup Reading => DOMAIN reads = {}
  <2>1. 0 \in 0..MaxHeight + 1
    BY ConstantsAreSets
  <2> QED
    BY <2>1, ReadsTypes
<1>2. CASE WaitForEmptyMempool
  <2>1. BooksNothing /\ at' = at /\ pc = "mempool" /\ pc' = "seed"
        /\ UNCHANGED <<reads, heights, balances, height, final, left, todo, color>>
    BY <1>2 DEF WaitForEmptyMempool, Goto, BooksNothing, sendVars, changeVars, readVars, bookVars, verdictVars
  <2>2. DOMAIN reads' = {}
    BY <1>1, <2>1 DEF Ended, Reading
  <2>3. Reads'
    BY <2>1, <2>2, NoAnswers
  <2> QED
    BY <1>1, <2>1, <2>2, <2>3, HopKeeps DEF Ended, Crediting, Passes, Before, PausedAt, Unpaused
<1>3. CASE SeedPauses
  <2>1. BooksNothing /\ at' = at /\ pc = "seed" /\ pc' = "seedBefore"
        /\ UNCHANGED <<reads, heights, balances, height, final, left, todo, color>>
    BY <1>3 DEF SeedPauses, Goto, BooksNothing, sendVars, changeVars, readVars, bookVars, verdictVars
  <2>2. DOMAIN reads' = {}
    BY <1>1, <2>1 DEF Ended, Reading
  <2>3. Reads'
    BY <2>1, <2>2, NoAnswers
  <2> QED
    BY <1>1, <2>1, <2>2, <2>3, HopKeeps DEF Ended, Crediting, Passes, Before, PausedAt, Unpaused
<1>4. CASE SeedAgain
  <2>1. BooksNothing /\ at' = at /\ pc = "seedAfter" /\ pc' = "seedBefore"
        /\ reads' = <<>> /\ heights' = <<>> /\ balances' = <<>>
        /\ UNCHANGED <<height, final, left, todo, color>>
    BY <1>4 DEF SeedAgain, Goto, BooksNothing, sendVars, changeVars, readVars, bookVars, verdictVars
  <2>2. DOMAIN reads' = {} /\ DOMAIN heights' = {} /\ DOMAIN balances' = {}
    BY <1>1, <2>1
  <2>3. Reads'
    BY <2>1, <2>2, NoAnswers
  <2> QED
    BY <1>1, <2>1, <2>2, <2>3, HopKeeps DEF Ended, Crediting, Passes, Before, PausedAt, Unpaused
<1>5. ASSUME NEW from, NEW to, WaitForNextBlock(from, to),
             \/ from = "next" /\ to = "nextPoll"
             \/ from = "wait" /\ to = "waitPoll"
      PROVE  IInv'
  <2>1. BooksNothing /\ at' = at /\ pc = from /\ pc' = to /\ height' = Min(ReachableHeights) + 1
        /\ UNCHANGED <<reads, heights, balances, final, left, todo, color>>
    BY <1>5 DEF WaitForNextBlock, Goto, BooksNothing, sendVars, changeVars, readVars, bookVars, verdictVars
  <2>2. DOMAIN reads' = {}
    BY <1>1, <1>5, <2>1 DEF Ended, Reading
  <2>3. Reads'
    BY <1>5, <2>1, <2>2, NoAnswers
  <2>4. height' \in 0..MaxHeight + 1
    <3>1. MaxHeight \in Nat
      BY ConstantsAreSets
    <3> QED
      BY <2>1, <3>1, SlowestIs
  <2> QED
    BY <1>1, <1>5, <2>1, <2>2, <2>3, <2>4, HopKeeps DEF Ended, Crediting, Passes, Before, PausedAt, Unpaused
<1>6. ASSUME NEW from, NEW to, NextBlockSeen(from, to),
             \/ from = "nextPoll" /\ to = "current"
             \/ from = "waitPoll" /\ to = "converge"
      PROVE  IInv'
  <2>1. BooksNothing /\ at' = at /\ pc = from /\ pc' = to /\ height' = 0
        /\ UNCHANGED <<reads, heights, balances, final, left, todo, color>>
    BY <1>6 DEF NextBlockSeen, Goto, BooksNothing, sendVars, changeVars, readVars, bookVars, verdictVars
  <2>2. DOMAIN reads' = {}
    BY <1>1, <1>6, <2>1 DEF Ended, Reading
  <2>3. Reads'
    BY <1>6, <2>1, <2>2, NoAnswers
  <2> QED
    BY <1>1, <1>6, <2>1, <2>2, <2>3, HopKeeps DEF Ended, Crediting, Passes, Before, PausedAt, Unpaused
<1>7. CASE ConvergePoll
  <2>1. BooksNothing /\ at' = at /\ pc = "converge" /\ pc' = "converge" /\ reads' = <<>>
        /\ UNCHANGED <<height, heights, balances, final, left, todo, color>>
    BY <1>7 DEF ConvergePoll, Goto, BooksNothing, sendVars, changeVars, readVars, bookVars, verdictVars
  <2>2. DOMAIN reads' = {}
    BY <1>1, <2>1
  <2>3. Reads'
    BY <2>1, <2>2, NoAnswers
  <2> QED
    BY <1>1, <2>1, <2>2, <2>3, HopKeeps DEF Ended, Crediting, Passes, Before, PausedAt, Unpaused
<1>8. ASSUME Moved \/ WaitsForPending
      PROVE  IInv'
  <2>1. BooksNothing /\ at' = at /\ pc = "verifyAfter" /\ pc' \in {"converge", "wait"}
        /\ reads' = <<>> /\ balances' = <<>> /\ height' = 0
        /\ UNCHANGED <<heights, final, left, todo, color>>
    BY <1>8 DEF Moved, WaitsForPending, Compared, BooksNothing, bookVars, verdictVars
  <2>2. DOMAIN reads' = {} /\ DOMAIN balances' = {}
    BY <1>1, <2>1
  <2>3. Reads'
    BY <2>1, <2>2, NoAnswers
  <2> QED
    BY <1>1, <2>1, <2>2, <2>3, HopKeeps DEF Ended, Crediting, Passes, Before, PausedAt, Unpaused
<1>9. CASE WaitForNextBlock("next", "nextPoll") \/ WaitForNextBlock("wait", "waitPoll")
  BY <1>5, <1>9
<1>10. CASE NextBlockSeen("nextPoll", "current") \/ NextBlockSeen("waitPoll", "converge")
  BY <1>6, <1>10
<1> QED
  BY <1>2, <1>3, <1>4, <1>7, <1>8, <1>9, <1>10

LEMMA ReadHeightReads ==
  ASSUME IInv, NEW n \in Nodes, ReadHeight(n)
  PROVE  Reads'
<1>1. NetInv /\ SeedReads /\ PassReads /\ Shape /\ Accounted /\ Top \in Nat
      /\ \A m \in Nodes : tip[m] \in 0..Top
  <2>1. tip \in [Nodes -> 0..Top]
    BY NetTypes DEF IInv
  <2> QED
    BY <2>1, ScriptTypes DEF IInv
<1>2. /\ UNCHANGED netVars /\ pc' = pc /\ n \notin DOMAIN reads
      /\ pc \in {"seedBefore", "seedAfter", "converge", "verifyAfter"}
      /\ reads' = Put(reads, n, HeightSeen(n))
      /\ heights' = heights /\ balances' = balances /\ height' = height /\ last' = last
      /\ pending' = pending /\ still' = still /\ abandoned' = abandoned
  BY DEF ReadHeight, ctlVars, changeVars, bookVars, verdictVars
<1>3. /\ earner' = earner /\ tip' = tip /\ txs' = txs /\ Top' = Top
      /\ \A e \in Earners : tip[e] \in Nat
  BY <1>2, ScriptTypes DEF netVars, Top
<1>4. ASSUME NEW e \in Earners, NEW t \in 0..tip[e], NEW S \in SUBSET (1..Top), Answer(e, t, S)
      PROVE  e \in DOMAIN reads' =>
               \E x \in t..tip'[e] : reads'[e] = {x} /\ \A h \in S : earner'[h] = e => h <= x
  BY <1>1, <1>2, <1>4, AnswerAdded
<1>5. ASSUME pc = "seedBefore"
      PROVE  Reads'
  <2>1. ASSUME NEW e \in Earners PROVE Answer(e, 0, {})'
    <3>1. Answer(e, 0, {}) /\ {} \in SUBSET (1..Top) /\ 0 \in 0..tip[e]
      BY <1>1, <1>3, <1>5 DEF SeedReads
    <3> QED
      BY <1>4, <3>1 DEF Answer
  <2>2. ASSUME NEW m \in DOMAIN reads'
        PROVE  reads'[m] \subseteq 0..Top'
    <3>1. DOMAIN reads' = DOMAIN reads \cup {n} /\ reads'[n] = HeightSeen(n)
          /\ \A k \in DOMAIN reads : k # n => reads'[k] = reads[k]
      BY <1>2 DEF Put
    <3>2. HeightSeen(n) \subseteq 0..Top
      BY <1>1 DEF HeightSeen
    <3>3. \A k \in DOMAIN reads : reads[k] \subseteq 0..Top
      BY <1>1, <1>5 DEF SeedReads
    <3> QED
      BY <1>3, <3>1, <3>2, <3>3
  <2>3. SeedReads'
    BY <1>2, <1>5, <2>1, <2>2 DEF SeedReads
  <2>4. PassReads'
    BY <1>2, <1>5 DEF PassReads
  <2> QED
    BY <2>3, <2>4 DEF Reads
<1>6. ASSUME pc = "seedAfter"
      PROVE  Reads'
  <2>1. DOMAIN heights' = Nodes /\ \A m \in Nodes : heights'[m] \subseteq 0..Top'
    BY <1>1, <1>2, <1>3, <1>6 DEF SeedReads
  <2>2. HeightsKnown' = HeightsKnown /\ HeightsKnown \in SUBSET (1..Top)
    BY <1>1, <1>2, <1>3, <2>1, HeightsKnownAre DEF HeightsKnown
  <2>3. ASSUME NEW e \in Earners
        PROVE  \E t \in 0..tip'[e] : \E u \in t..tip'[e] :
                 /\ heights'[e] = {t} /\ BalanceAt(balances[e], e, u)'
                 /\ Answer(e, u, HeightsKnown)'
    <3>1. PICK t \in 0..tip[e] : \E u \in t..tip[e] :
            /\ heights[e] = {t} /\ BalanceAt(balances[e], e, u)
            /\ Answer(e, u, HeightsKnown)
      BY <1>1, <1>6 DEF SeedReads
    <3>2. PICK u \in t..tip[e] :
            /\ heights[e] = {t} /\ BalanceAt(balances[e], e, u)
            /\ Answer(e, u, HeightsKnown)
      BY <3>1
    <3>3. u \in 0..tip[e]
      BY <1>3
    <3>4. Answer(e, u, HeightsKnown)'
      BY <1>4, <2>2, <3>2, <3>3 DEF Answer
    <3>5. BalanceAt(balances[e], e, u)'
      BY <1>2, <1>3, <3>2 DEF BalanceAt, HasAt
    <3> QED
      BY <1>2, <1>3, <3>2, <3>4, <3>5
  <2>4. \A m \in Nodes : OwnEntries(balances[m], m)'
    BY <1>1, <1>2, <1>3, <1>6 DEF SeedReads, OwnEntries
  <2>5. SeedReads'
    BY <1>2, <1>6, <2>1, <2>3, <2>4 DEF SeedReads
  <2>6. PassReads'
    BY <1>2, <1>6 DEF PassReads
  <2> QED
    BY <2>5, <2>6 DEF Reads
<1>7. ASSUME pc = "converge"
      PROVE  Reads'
  <2>1. ASSUME NEW e \in Earners PROVE Answer(e, 0, 1..last)'
    <3>1. Answer(e, 0, 1..last) /\ 0 \in 0..tip[e]
      BY <1>1, <1>3, <1>7 DEF PassReads
    <3>2. 1..last \in SUBSET (1..Top)
      BY <1>1 DEF IInv, CoinbasesBooked
    <3> QED
      BY <1>2, <1>4, <3>1, <3>2 DEF Answer
  <2>2. SeedReads'
    BY <1>2, <1>7 DEF SeedReads
  <2>3. PassReads'
    BY <1>2, <1>7, <2>1 DEF PassReads
  <2> QED
    BY <2>2, <2>3 DEF Reads
<1>8. ASSUME pc = "verifyAfter"
      PROVE  Reads'
  <2>1. stage # "before"
    BY <1>1, <1>8 DEF Shape, Before, Ended
  <2>2. HeightsOfBooked' = HeightsOfBooked /\ HeightsOfBooked \in SUBSET (1..Top)
    BY <1>1, <1>2, <2>1, StandsStill, HeightsOfBookedAre
  <2>3. ASSUME NEW e \in Earners
        PROVE  \E u \in height'..tip'[e] :
                 BalanceAt(balances[e], e, u)' /\ Answer(e, u, HeightsOfBooked)'
    <3>1. PICK u \in height..tip[e] : BalanceAt(balances[e], e, u) /\ Answer(e, u, HeightsOfBooked)
      BY <1>1, <1>8 DEF PassReads
    <3>2. u \in 0..tip[e] /\ u \in height'..tip'[e]
      <4>1. height \in Nat
        BY ScriptTypes
      <4> QED
        BY <1>2, <1>3, <4>1
    <3>3. Answer(e, u, HeightsOfBooked)'
      BY <1>4, <2>2, <3>1, <3>2 DEF Answer
    <3>4. BalanceAt(balances[e], e, u)'
      BY <1>2, <1>3, <3>1 DEF BalanceAt, HasAt
    <3> QED
      BY <3>2, <3>3, <3>4
  <2>4. SeedReads'
    BY <1>2, <1>8 DEF SeedReads
  <2>5. PassReads'
    BY <1>2, <1>8, <2>3 DEF PassReads
  <2> QED
    BY <2>4, <2>5 DEF Reads
<1> QED
  BY <1>2, <1>5, <1>6, <1>7, <1>8

LEMMA ReadBalanceReads ==
  ASSUME IInv, NEW n \in Nodes, ReadBalance(n)
  PROVE  Reads'
<1>1. NetInv /\ SeedReads /\ PassReads /\ Shape /\ Top \in Nat
  BY ScriptTypes DEF IInv
<1>2. /\ UNCHANGED netVars /\ pc' = pc /\ n \notin DOMAIN reads
      /\ pc \in {"seedBalance", "verifyBalance"}
      /\ reads' = Put(reads, n, Balance(n))
      /\ heights' = heights /\ height' = height
  BY DEF ReadBalance, ctlVars
<1>3. /\ earner' = earner /\ tip' = tip /\ txs' = txs /\ Top' = Top
      /\ \A e \in Earners : tip[e] \in Nat
  BY <1>2, ScriptTypes DEF netVars, Top
<1>4. DOMAIN reads' = DOMAIN reads \cup {n} /\ reads'[n] = Balance(n)
      /\ \A k \in DOMAIN reads : k # n => reads'[k] = reads[k]
  BY <1>2 DEF Put
<1>5. ASSUME NEW e \in Earners, NEW t \in 0..tip[e], e \in DOMAIN reads',
             e \in DOMAIN reads => \E u \in t..tip[e] : BalanceAt(reads[e], e, u)
      PROVE  \E u \in t..tip'[e] : BalanceAt(reads[e], e, u)'
  <2>1. CASE e = n
    <3>1. PICK u \in t..tip'[e] : u = tip[e]
      BY <1>3
    <3>2. BalanceAt(Balance(e), e, tip[e])
      BY <1>1, BalanceIsAtTip
    <3>3. BalanceAt(Balance(e), e, u)
      BY <3>1, <3>2
    <3>4. BalanceAt(reads[e], e, u)'
      BY <1>3, <1>4, <2>1, <3>3 DEF BalanceAt, HasAt
    <3> QED
      BY <3>4
  <2>2. CASE e # n
    <3>1. PICK u \in t..tip[e] : BalanceAt(reads[e], e, u)
      BY <1>4, <1>5, <2>2
    <3>2. BalanceAt(reads[e], e, u)'
      BY <1>3, <1>4, <1>5, <2>2, <3>1 DEF BalanceAt, HasAt
    <3> QED
      BY <1>3, <3>2
  <2> QED
    BY <2>1, <2>2
<1>6. ASSUME pc = "seedBalance"
      PROVE  Reads'
  <2>1. DOMAIN heights' = Nodes /\ \A m \in Nodes : heights'[m] \subseteq 0..Top'
    BY <1>1, <1>2, <1>3, <1>6 DEF SeedReads
  <2>2. ASSUME NEW e \in Earners
        PROVE  \E t \in 0..tip'[e] :
                  /\ heights'[e] = {t}
                  /\ e \in DOMAIN reads' => \E u \in t..tip'[e] : BalanceAt(reads[e], e, u)'
    <3>1. PICK t \in 0..tip[e] :
            /\ heights[e] = {t}
            /\ e \in DOMAIN reads => \E u \in t..tip[e] : BalanceAt(reads[e], e, u)
      BY <1>1, <1>6 DEF SeedReads
    <3>2. e \in DOMAIN reads' => \E u \in t..tip'[e] : BalanceAt(reads[e], e, u)'
      BY <1>5, <3>1
    <3> QED
      BY <1>2, <1>3, <3>1, <3>2
  <2>3. ASSUME NEW m \in DOMAIN reads'
        PROVE  OwnEntries(reads[m], m)'
    <3>1. CASE m = n
      <4>1. OwnEntries(Balance(n), n)
        BY <1>1, BalanceIsOwn
      <4> QED
        BY <1>3, <1>4, <3>1, <4>1 DEF OwnEntries
    <3>2. CASE m # n
      <4>1. OwnEntries(reads[m], m)
        BY <1>1, <1>4, <1>6, <3>2 DEF SeedReads
      <4> QED
        BY <1>3, <1>4, <3>2, <4>1 DEF OwnEntries
    <3> QED
      BY <3>1, <3>2
  <2>4. SeedReads'
    BY <1>2, <1>6, <2>1, <2>2, <2>3 DEF SeedReads
  <2>5. PassReads'
    BY <1>2, <1>6 DEF PassReads
  <2> QED
    BY <2>4, <2>5 DEF Reads
<1>7. ASSUME pc = "verifyBalance"
      PROVE  Reads'
  <2>1. ASSUME NEW e \in Earners, e \in DOMAIN reads'
        PROVE  \E u \in height'..tip'[e] : BalanceAt(reads[e], e, u)'
    <3>1. e \in DOMAIN reads => \E u \in height..tip[e] : BalanceAt(reads[e], e, u)
      BY <1>1, <1>7 DEF PassReads
    <3>2. height \in 0..tip[e]
      <4>1. height <= tip[e] /\ height \in Nat
        BY <1>1, <1>7, ScriptTypes DEF Shape, Passes
      <4> QED
        BY <1>3, <4>1
    <3> QED
      BY <1>2, <1>5, <2>1, <3>1, <3>2
  <2>2. SeedReads'
    BY <1>2, <1>7 DEF SeedReads
  <2>3. PassReads'
    BY <1>2, <1>7, <2>1 DEF PassReads
  <2> QED
    BY <2>2, <2>3 DEF Reads
<1> QED
  BY <1>2, <1>6, <1>7

LEMMA KeptAnswersReads ==
  ASSUME IInv, HeightsBefore \/ SeedBalances \/ VerifyBalances
  PROVE  Reads'
<1>1. NetInv /\ SeedReads /\ PassReads /\ Shape /\ Earners \subseteq Nodes
      /\ \A e \in Earners : tip[e] \in Nat
  BY ScriptTypes DEF IInv
<1>2. /\ UNCHANGED netVars /\ AllRead /\ reads' = <<>> /\ DOMAIN <<>> = {}
      /\ height' = height
  BY DEF HeightsBefore, SeedBalances, VerifyBalances
<1>3. /\ earner' = earner /\ tip' = tip /\ txs' = txs /\ Top' = Top
      /\ DOMAIN reads' = {} /\ DOMAIN reads = Nodes
  BY <1>2 DEF netVars, Top, AllRead
<1>4. CASE HeightsBefore
  <2>1. pc = "seedBefore" /\ pc' = "seedBalance" /\ heights' = reads
    BY <1>4 DEF HeightsBefore, Goto
  <2>2. /\ \A e \in Earners : Answer(e, 0, {})
        /\ \A n \in Nodes : reads[n] \subseteq 0..Top
    BY <1>1, <1>3, <2>1 DEF SeedReads
  <2>3. ASSUME NEW e \in Earners
        PROVE  \E t \in 0..tip'[e] : heights'[e] = {t}
    <3>1. PICK t \in 0..tip[e] : reads[e] = {t}
      BY <1>1, <1>3, <2>2 DEF Answer
    <3> QED
      BY <1>3, <2>1, <3>1
  <2>4. DOMAIN heights' = Nodes /\ \A n \in Nodes : heights'[n] \subseteq 0..Top'
    BY <1>3, <2>1, <2>2
  <2>5. SeedReads'
    BY <1>3, <2>1, <2>3, <2>4 DEF SeedReads
  <2>6. PassReads'
    BY <2>1 DEF PassReads
  <2> QED
    BY <2>5, <2>6 DEF Reads
<1>5. CASE SeedBalances
  <2>1. pc = "seedBalance" /\ pc' = "seedAfter" /\ heights' = heights /\ balances' = reads
    BY <1>5 DEF SeedBalances, Goto
  <2>2. ASSUME NEW e \in Earners
        PROVE  \E t \in 0..tip'[e] : \E u \in t..tip'[e] :
                 /\ heights'[e] = {t} /\ BalanceAt(balances[e], e, u)'
                 /\ Answer(e, u, HeightsKnown)'
    <3>1. PICK t \in 0..tip[e] :
            /\ heights[e] = {t}
            /\ e \in DOMAIN reads => \E u \in t..tip[e] : BalanceAt(reads[e], e, u)
      BY <1>1, <2>1 DEF SeedReads
    <3>2. PICK u \in t..tip[e] : BalanceAt(reads[e], e, u)
      BY <1>1, <1>3, <3>1
    <3>3. BalanceAt(balances[e], e, u)'
      BY <1>3, <2>1, <3>2 DEF BalanceAt, HasAt
    <3>4. Answer(e, u, HeightsKnown)'
      BY <1>3 DEF Answer
    <3> QED
      BY <1>3, <2>1, <3>1, <3>2, <3>3, <3>4
  <2>3. ASSUME NEW n \in Nodes
        PROVE  OwnEntries(balances[n], n)'
    <3>1. OwnEntries(reads[n], n)
      BY <1>1, <1>3, <2>1 DEF SeedReads
    <3> QED
      BY <1>3, <2>1, <3>1 DEF OwnEntries
  <2>4. DOMAIN heights' = Nodes /\ \A n \in Nodes : heights'[n] \subseteq 0..Top'
    BY <1>1, <1>3, <2>1 DEF SeedReads
  <2>5. SeedReads'
    BY <2>1, <2>2, <2>3, <2>4 DEF SeedReads
  <2>6. PassReads'
    BY <2>1 DEF PassReads
  <2> QED
    BY <2>5, <2>6 DEF Reads
<1>6. CASE VerifyBalances
  <2>1. pc = "verifyBalance" /\ pc' = "verifyAfter" /\ balances' = reads
    BY <1>6 DEF VerifyBalances, Goto
  <2>2. ASSUME NEW e \in Earners
        PROVE  \E u \in height'..tip'[e] :
                 BalanceAt(balances[e], e, u)' /\ Answer(e, u, HeightsOfBooked)'
    <3>1. PICK u \in height..tip[e] : BalanceAt(reads[e], e, u)
      BY <1>1, <1>3, <2>1 DEF PassReads
    <3>2. BalanceAt(balances[e], e, u)'
      BY <1>3, <2>1, <3>1 DEF BalanceAt, HasAt
    <3>3. Answer(e, u, HeightsOfBooked)'
      BY <1>3 DEF Answer
    <3> QED
      BY <1>2, <1>3, <3>1, <3>2, <3>3
  <2>3. SeedReads'
    BY <2>1 DEF SeedReads
  <2>4. PassReads'
    BY <2>1, <2>2 DEF PassReads
  <2> QED
    BY <2>3, <2>4 DEF Reads
<1> QED
  BY <1>4, <1>5, <1>6

LEMMA ReadingKeeps ==
  ASSUME IInv, NEW n \in Nodes, ReadHeight(n) \/ ReadBalance(n)
  PROVE  IInv'
<1>1. /\ DOMAIN reads \subseteq Nodes /\ DOMAIN heights \in {{}, Nodes}
      /\ DOMAIN balances \in {{}, Nodes} /\ final \in BOOLEAN
      /\ height \in 0..MaxHeight + 1
  BY ReadsTypes
<1>2. /\ BooksNothing /\ at' = at /\ pc' = pc
      /\ pc \in {"seedBefore", "seedBalance", "seedAfter", "converge",
                 "verifyBalance", "verifyAfter"}
      /\ UNCHANGED <<heights, balances, height, final, left, todo, color>>
  BY DEF ReadHeight, ReadBalance, BooksNothing, ctlVars, sendVars, changeVars, bookVars, verdictVars
<1>3. DOMAIN reads' \subseteq Nodes
  <2>1. reads' = Put(reads, n, HeightSeen(n)) \/ reads' = Put(reads, n, Balance(n))
    BY DEF ReadHeight, ReadBalance
  <2>2. DOMAIN reads' = DOMAIN reads \cup {n}
    BY <2>1 DEF Put
  <2> QED
    BY <1>1, <2>2
<1>4. Reads'
  BY ReadHeightReads, ReadBalanceReads
<1>5. CASE pc \in {"seedBefore", "seedBalance", "seedAfter", "converge"}
  <2>1. /\ pc \notin Ended \cup Crediting \cup {"resolve"} /\ pc' \notin Ended \cup Crediting \cup Passes
        /\ pc' \in PausedAt \cup Unpaused /\ pc' \in Reading
    BY <1>2, <1>5 DEF Ended, Crediting, Passes, PausedAt, Unpaused, Reading
  <2> QED
    BY <1>1, <1>2, <1>3, <1>4, <2>1, HopKeeps
<1>6. CASE pc \in {"verifyBalance", "verifyAfter"}
  <2>1. pc \in Passes \ {"resolve"} /\ pc' \in Passes /\ pc' \in Reading
    BY <1>2, <1>6 DEF Passes, Reading
  <2>2. Quiet /\ NetInv'
    BY <1>2, BooksNothingIsQuiet
  <2>3. /\ height' = height /\ DOMAIN balances' \in {{}, Nodes}
        /\ UNCHANGED <<left, todo, color, final, heights>>
    BY <1>1, <1>2
  <2> QED
    BY <1>2, <1>3, <1>4, <2>1, <2>2, <2>3, PassHopKeeps
<1> QED
  BY <1>2, <1>5, <1>6

LEMMA KeptAnswersKeep ==
  ASSUME IInv, HeightsBefore \/ SeedBalances
  PROVE  IInv'
<1>1. /\ DOMAIN reads \subseteq Nodes /\ DOMAIN heights \in {{}, Nodes}
      /\ DOMAIN balances \in {{}, Nodes} /\ final \in BOOLEAN /\ DOMAIN <<>> = {}
      /\ height \in 0..MaxHeight + 1
  BY ReadsTypes
<1>2. /\ BooksNothing /\ at' = at /\ reads' = <<>> /\ DOMAIN reads = Nodes
      /\ pc \in {"seedBefore", "seedBalance"} /\ pc' \in {"seedBalance", "seedAfter"}
      /\ heights' \in {heights, reads} /\ balances' \in {balances, reads}
      /\ UNCHANGED <<height, final, left, todo, color>>
  BY DEF HeightsBefore, SeedBalances, Goto, AllRead, BooksNothing, ctlVars, sendVars, changeVars, bookVars, verdictVars
<1>3. Reads'
  BY KeptAnswersReads
<1>4. /\ pc \notin Ended \cup Crediting \cup {"resolve"} /\ pc' \notin Ended \cup Crediting \cup Passes
      /\ pc' \in PausedAt \cup Unpaused /\ pc' \in Reading /\ pc \in Before /\ pc' \in Before
  BY <1>2 DEF Ended, Crediting, Passes, PausedAt, Unpaused, Reading, Before
<1>5. DOMAIN reads' \subseteq Nodes /\ DOMAIN heights' \in {{}, Nodes} /\ DOMAIN balances' \in {{}, Nodes}
  BY <1>1, <1>2
<1> QED
  BY <1>1, <1>2, <1>3, <1>4, <1>5, HopKeeps

LEMMA PassHopsKeep ==
  ASSUME IInv, \/ VerifyPauses \/ VerifyBalances \/ SendersSynced
               \/ \E n \in Nodes : SenderSynced(n)
  PROVE  IInv'
<1>1. /\ DOMAIN reads \subseteq Nodes /\ DOMAIN balances \in {{}, Nodes} /\ DOMAIN <<>> = {}
      /\ pc \notin Ended \cup Reading => DOMAIN reads = {}
  BY ReadsTypes
<1>2. CASE VerifyPauses
  <2>1. /\ BooksNothing /\ at' = at /\ pc = "verify" /\ pc' = "verifyBalance"
        /\ height' = height /\ reads' = reads /\ balances' = balances
        /\ UNCHANGED <<left, todo, color, final, heights>>
    BY <1>2 DEF VerifyPauses, Goto, BooksNothing, sendVars, changeVars, readVars, bookVars, verdictVars
  <2>2. Quiet /\ NetInv'
    BY <2>1, BooksNothingIsQuiet
  <2>3. DOMAIN reads' = {}
    BY <1>1, <2>1 DEF Ended, Reading
  <2>4. Reads'
    BY <2>1, <2>3, NoAnswers
  <2> QED
    BY <1>1, <2>1, <2>2, <2>3, <2>4, PassHopKeeps DEF Passes
<1>3. CASE VerifyBalances
  <2>1. /\ BooksNothing /\ at' = at /\ pc = "verifyBalance" /\ pc' = "verifyAfter"
        /\ height' = height /\ reads' = <<>> /\ balances' = reads /\ DOMAIN reads = Nodes
        /\ UNCHANGED <<left, todo, color, final, heights>>
    BY <1>3 DEF VerifyBalances, Goto, AllRead, BooksNothing, sendVars, changeVars, readVars, bookVars, verdictVars
  <2>2. Quiet /\ NetInv'
    BY <2>1, BooksNothingIsQuiet
  <2>3. DOMAIN reads' = {} /\ DOMAIN balances' = Nodes
    BY <1>1, <2>1
  <2>4. Reads'
    BY <1>3, KeptAnswersReads
  <2> QED
    BY <2>1, <2>2, <2>3, <2>4, PassHopKeeps DEF Passes
<1>4. CASE SendersSynced
  <2>1. /\ BooksNothing /\ at' = at /\ pc = "resync" /\ pc' = "resend"
        /\ height' = height /\ reads' = <<>> /\ balances' = balances
        /\ UNCHANGED <<left, todo, color, final, heights>>
    BY <1>4 DEF SendersSynced, Goto, BooksNothing, sendVars, changeVars, readVars, bookVars, verdictVars
  <2>2. Quiet /\ NetInv'
    BY <2>1, BooksNothingIsQuiet
  <2>3. DOMAIN reads' = {}
    BY <1>1, <2>1
  <2>4. Reads'
    BY <2>1, <2>3, NoAnswers
  <2> QED
    BY <1>1, <2>1, <2>2, <2>3, <2>4, PassHopKeeps DEF Passes
<1>5. ASSUME NEW n \in Nodes, SenderSynced(n)
      PROVE  IInv'
  <2>1. /\ BooksNothing /\ at' = at /\ pc = "resync" /\ pc' = "resync"
        /\ height' = height /\ reads' = Put(reads, n, HeightSeen(n)) /\ balances' = balances
        /\ UNCHANGED <<left, todo, color, final, heights>>
    BY <1>5 DEF SenderSynced, Goto, BooksNothing, ctlVars, sendVars, changeVars, bookVars, verdictVars
  <2>2. Quiet /\ NetInv'
    BY <2>1, BooksNothingIsQuiet
  <2>3. DOMAIN reads' \subseteq Nodes
    BY <1>1, <2>1 DEF Put
  <2>4. Reads'
    BY <2>1, NoAnswers
  <2>5. pc' \in Reading
    BY <2>1 DEF Reading
  <2> QED
    BY <1>1, <2>1, <2>2, <2>3, <2>4, <2>5, PassHopKeeps DEF Passes
<1> QED
  BY <1>2, <1>3, <1>4, <1>5

LEMMA ResendKeeps ==
  ASSUME IInv, ResendWalletTransactions
  PROVE  IInv'
<1>1. /\ pc = "resend" /\ pc' = "resolve" /\ earner' = earner /\ tip' = tip /\ chaos' = chaos
      /\ stage' = stage /\ left' = left /\ todo' = todo /\ color' = color
      /\ pending' = pending /\ still' = still /\ final' = final /\ reads' = reads
      /\ heights' = heights /\ balances' = balances /\ height' = height /\ at' = at
      /\ ledger' = ledger /\ last' = last /\ successes' = successes
      /\ alarm' = alarm /\ abandoned' = abandoned
  BY DEF ResendWalletTransactions, Goto, sendVars, changeVars, readVars, bookVars, verdictVars
<1>2. PICK resent \in SUBSET ChaosSenders :
        txs' = [i \in DOMAIN txs |->
               IF txs[i].from \in resent /\ ~ConfirmedAt(txs[i].from, i)
               THEN [txs[i] EXCEPT !.own = TRUE, !.relayed = TRUE] ELSE txs[i]]
  BY DEF ResendWalletTransactions
<1>3. txs' = [i \in DOMAIN txs |-> txs'[i]]
  BY <1>2
<1>4. ASSUME NEW i \in DOMAIN txs
      PROVE  \E own, relayed \in BOOLEAN :
               /\ txs'[i] = [txs[i] EXCEPT !.own = own, !.relayed = relayed]
               /\ txs[i].from \in Earners => own
  <2>1. CASE txs[i].from \in resent /\ ~ConfirmedAt(txs[i].from, i)
    <3>1. txs'[i] = [txs[i] EXCEPT !.own = TRUE, !.relayed = TRUE]
      BY <1>2, <2>1
    <3> QED
      BY <3>1
  <2>2. CASE ~(txs[i].from \in resent /\ ~ConfirmedAt(txs[i].from, i))
    <3>1. txs'[i] = txs[i]
      BY <1>2, <2>2
    <3> QED
      BY <3>1, FlagsOf DEF IInv
  <2> QED
    BY <2>1, <2>2
<1>5. /\ NetInv /\ chaos' \in [Nodes -> {"idle", "armed", "rewound", "down"}]
      /\ \A e \in Earners : chaos'[e] = "idle"
      /\ tip' \in [Nodes -> 0..Top] /\ \A e \in Earners : tip'[e] >= tip[e]
  <2>1. NetInv /\ \A e \in Earners : tip[e] \in Nat
    BY ScriptTypes DEF IInv
  <2>2. \A e \in Earners : tip'[e] >= tip[e]
    BY <1>1, <2>1
  <2> QED
    BY <1>1, <2>1, <2>2 DEF NetInv, NetTypeOK
<1>6. NetInv' /\ Evolves /\ NoBlock
  BY <1>1, <1>3, <1>4, <1>5, FlagsEvolve
<1>7. Advances
  BY <1>5, <1>6, NoBlockAdvances
<1>8. SameReach
  BY <1>1, ReachIs DEF Top
<1>9. Quiet
  BY <1>1, <1>7, <1>8 DEF Quiet
<1>10. DOMAIN reads' = {} /\ DOMAIN balances' \in {{}, Nodes}
  BY <1>1, ReadsTypes DEF Ended, Reading
<1>11. Reads'
  BY <1>1, NoAnswers
<1> QED
  BY <1>1, <1>6, <1>9, <1>10, <1>11, PassHopKeeps DEF Passes

\* To the crediting: at' is above what is credited, height' below the tips.
LEMMA CreditingStarts ==
  ASSUME IInv, BooksNothing, pc \in {"current", "converge"},
         pc' \in Crediting, pc' = "creditPass" => last <= height',
         at' = last + 1, height' \in Nat, \A e \in Earners : height' <= tip[e],
         DOMAIN reads' = {}, final' \in BOOLEAN,
         UNCHANGED <<left, todo, color, heights, balances>>
  PROVE  IInv'
<1>1. /\ pc \notin Ended \cup Before \cup Crediting /\ pc # "resolve"
      /\ pc' \notin Ended \cup Before \cup Passes /\ pc' \in PausedAt \cup Unpaused
      /\ pc' \notin {"seedBefore", "seedBalance", "seedAfter", "converge", "verifyBalance", "verifyAfter"}
      /\ pc' # "resolve"
  BY DEF Ended, Before, Crediting, Passes, PausedAt, Unpaused
<1>2. at = 0 /\ still = <<>> /\ stage # "before"
  BY <1>1 DEF IInv, Shape
<1>3. Quiet /\ NetInv' /\ tip' = tip
  BY <1>2, BooksNothingIsQuiet
<1>4. last \in Nat /\ MaxHeight \in Nat /\ last <= MaxHeight /\ height' <= MaxHeight
  <2>1. /\ last \in Nat /\ MaxHeight \in Nat /\ last <= Top /\ Top <= MaxHeight /\ Top \in Nat
        /\ Probe \in Earners /\ tip[Probe] \in Nat /\ tip[Probe] <= Top
    BY ScriptTypes
  <2>2. height' <= tip[Probe]
    BY <2>1
  <2> QED
    BY <2>1, <2>2
<1>5. height' \in 0..MaxHeight + 1 /\ at' \in 0..MaxHeight + 1
  BY <1>4
<1>6. DOMAIN heights' \in {{}, Nodes} /\ DOMAIN balances' \in {{}, Nodes} /\ DOMAIN reads' \subseteq Nodes
  BY ReadsTypes
<1>7. TypeOK'
  BY <1>1, <1>3, <1>5, <1>6, QuietKeepsTypes
<1>8. Fresh'
  BY <1>1, <1>3, QuietKeepsFresh
<1>9. Books'
  BY <1>3, QuietKeepsBooks
<1>10. Reads'
  BY <1>1, NoAnswers
<1>11. Shape'
  <2>1. stage' = stage /\ still' = still /\ last' = last
    BY DEF BooksNothing
  <2>2. last' < at' /\ at' <= last' + 1
    BY <1>4, <2>1
  <2> QED
    BY <1>1, <1>2, <1>3, <2>1, <2>2 DEF Shape
<1> QED
  BY <1>3, <1>7, <1>8, <1>9, <1>10, <1>11, Assembled

LEMMA CurrentHeightKeeps ==
  ASSUME IInv, CurrentHeight
  PROVE  IInv'
<1>1. /\ BooksNothing /\ pc = "current" /\ pc' = "creditNext" /\ at' = last + 1
      /\ height' = Min(ReachableHeights) /\ reads' = reads
      /\ UNCHANGED <<left, todo, color, final, heights, balances>>
  BY DEF CurrentHeight, LowestHeight, Goto, BooksNothing, sendVars, changeVars, bookVars, verdictVars
<1>2. DOMAIN reads' = {} /\ final' \in BOOLEAN
  BY <1>1, ReadsTypes DEF Ended, Reading
<1>3. height' \in Nat /\ \A e \in Earners : height' <= tip[e]
  BY <1>1, SlowestIs
<1> QED
  BY <1>1, <1>2, <1>3, CreditingStarts DEF Crediting

LEMMA ConvergedKeeps ==
  ASSUME IInv, Converged
  PROVE  IInv'
<1>1. /\ BooksNothing /\ pc = "converge" /\ pc' = "creditPass" /\ at' = last + 1
      /\ reads' = <<>> /\ final' \in {final, final \/ stage # "round"}
      /\ UNCHANGED <<left, todo, color, heights, balances>>
  BY DEF Converged, Goto, BooksNothing, sendVars, bookVars, verdictVars
<1>2. DOMAIN reads' = {} /\ final' \in BOOLEAN
  <2>1. final \in BOOLEAN /\ DOMAIN <<>> = {}
    BY ReadsTypes
  <2> QED
    BY <1>1, <2>1
<1>3. /\ DOMAIN reads = Nodes
      /\ \E h \in 0..MaxHeight : Range(reads) = {{h}}
      /\ height' = CHOOSE h \in 0..MaxHeight : Range(reads) = {{h}}
  BY DEF Converged, Agreed, AllRead
<1>4. height' \in 0..MaxHeight /\ Range(reads) = {{height'}}
  BY <1>3
<1>5. ASSUME NEW e \in Earners
      PROVE  /\ reads[e] = {height'} /\ height' <= tip[e] /\ height' \in Nat
             /\ \A h \in 1..last : earner[h] = e => h <= height'
  <2>1. e \in Nodes /\ tip[e] \in Nat
    BY ScriptTypes
  <2>2. Answer(e, 0, 1..last)
    BY <1>1 DEF IInv, PassReads
  <2>3. PICK x \in 0..tip[e] : reads[e] = {x} /\ \A h \in 1..last : earner[h] = e => h <= x
    BY <1>3, <2>1, <2>2 DEF Answer
  <2>4. reads[e] \in Range(reads)
    BY <1>3, <2>1 DEF Range
  <2>5. reads[e] = {height'}
    BY <1>4, <2>4
  <2>6. x = height'
    BY <2>3, <2>5
  <2> QED
    BY <2>1, <2>3, <2>5, <2>6
<1>6. last <= height' /\ height' \in Nat /\ \A e \in Earners : height' <= tip[e]
  <2>1. last \in Nat /\ last <= Top /\ Top \in Nat /\ Probe \in Earners
    BY ScriptTypes
  <2>2. height' \in Nat /\ \A e \in Earners : height' <= tip[e]
    BY <1>5, <2>1
  <2>3. CASE last = 0
    BY <2>2, <2>3
  <2>4. CASE last # 0
    <3>1. last \in 1..last /\ last \in 1..Top
      BY <2>1, <2>4
    <3>2. earner[last] \in Earners
      BY <3>1, NetTypes DEF IInv
    <3> QED
      BY <1>5, <2>2, <3>1, <3>2
  <2> QED
    BY <2>2, <2>3, <2>4
<1> QED
  BY <1>1, <1>2, <1>6, CreditingStarts DEF Crediting

LEMMA EndingKeeps ==
  ASSUME IInv, Finish \/ Raises
  PROVE  IInv'
<1>1. /\ BooksNothing /\ at' = at /\ pc \notin Ended /\ pc' \in Ended
      /\ UNCHANGED <<left, todo, color, final, reads, heights, balances, height>>
  BY DEF Finish, Raises, Ended, Crediting, BooksNothing, sendVars, changeVars, readVars, bookVars, verdictVars
<1>2. Quiet /\ NetInv'
  BY <1>1, BooksNothingIsQuiet
<1>3. /\ pc' \notin Before \cup Crediting \cup Passes \cup {"converge", "resolve"}
      /\ pc' \in PausedAt \cup Unpaused \cup Ended
      /\ pc' # "creditPass" /\ pc' \notin {"seedBalance", "seedAfter", "verifyAfter"}
      /\ pc' \notin {"seedBefore", "converge", "verifyBalance"}
  BY <1>1 DEF Ended, Before, Crediting, Passes
<1>4. TypeOK'
  <2>1. /\ DOMAIN reads \subseteq Nodes
        /\ DOMAIN heights \in {{}, Nodes} /\ DOMAIN balances \in {{}, Nodes}
        /\ height \in 0..MaxHeight + 1 /\ at \in 0..MaxHeight + 1 /\ final \in BOOLEAN
    BY ReadsTypes
  <2> QED
    BY <1>1, <1>2, <1>3, <2>1, QuietKeepsTypes
<1>5. Fresh'
  BY <1>2, <1>3, QuietKeepsFresh
<1>6. Books'
  BY <1>2, QuietKeepsBooks
<1>7. Reads'
  BY <1>3, NoAnswers
<1>8. Shape'
  BY <1>1, <1>3 DEF Shape
<1> QED
  BY <1>2, <1>4, <1>5, <1>6, <1>7, <1>8, Assembled

-----------------------------------------------------------------------------
(* The credited height and the end of the sends.                           *)

LEMMA CalmKeepsTypes ==
  ASSUME IInv, Calm, left' \in Nat, todo' \subseteq Calls, color' \in [Nodes -> BOOLEAN],
         stage' \in {"before", "fund", "issue", "round"}, final' \in BOOLEAN,
         pc' \in PausedAt \cup Unpaused \cup Ended, DOMAIN reads' \subseteq Nodes,
         UNCHANGED <<heights, balances>>,
         height' \in 0..MaxHeight + 1, at' \in 0..MaxHeight + 1
  PROVE  TypeOK'
<1>1. NetTypeOK'
  BY DEF Calm, Advances, NetInv
<1>2. TypeOK
  BY DEF IInv
<1>3. /\ pending' = pending /\ still' = still /\ ledger' = ledger
      /\ successes' = successes /\ alarm' = alarm /\ abandoned' = abandoned
  BY DEF Calm
<1>4. last' \in 0..MaxHeight
  <2>1. last' \in 0..Top /\ Top \in Nat /\ Top <= MaxHeight /\ MaxHeight \in Nat
    BY ScriptTypes DEF Calm, SameReach
  <2> QED
    BY <2>1
<1> QED
  BY <1>1, <1>2, <1>3, <1>4 DEF TypeOK

LEMMA GatherIs ==
  ASSUME NEW s \in {"fund", "issue", "round"}, NEW calls \in Gather(s)
  PROVE  calls \subseteq Calls
<1>1. CASE s = "fund"
  <2>1. calls = {[by |-> p[1], what |-> "fund", to |-> p[2]] : p \in FundingPairs}
    BY <1>1 DEF Gather
  <2>2. \A p \in FundingPairs : p[1] \in Nodes /\ p[2] \in Nodes
    BY PairsOfNodes
  <2> QED
    BY <2>1, <2>2 DEF Calls
<1>2. CASE s = "issue"
  <2>1. calls = {[by |-> n, what |-> "issue", to |-> n] : n \in Nodes}
    BY <1>2 DEF Gather
  <2> QED
    BY <2>1 DEF Calls
<1>3. CASE s = "round"
  <2>1. PICK f \in [Nodes -> Nodes] :
          calls = {[by |-> n, what |-> w, to |-> f[n]] : n \in Nodes, w \in {"tpc", "color"}}
    BY <1>3 DEF Gather
  <2> QED
    BY <2>1 DEF Calls
<1> QED
  BY <1>1, <1>2, <1>3

\* The credits end above the height: what they reached is the new last one.
LEMMA AdvancedIs ==
  ASSUME IInv, pc \in Crediting, at > height, last' = Advanced, at' = 0, UNCHANGED netVars
  PROVE  /\ SameReach /\ last' \in Nat /\ last <= last' /\ height <= last'
         /\ last' \in {last, height}
<1>1. /\ last \in Nat /\ last <= Top /\ Top \in Nat /\ height \in Nat /\ at \in Nat
      /\ Probe \in Earners /\ tip[Probe] \in Nat /\ tip[Probe] <= Top
  BY ScriptTypes
<1>2. last < at /\ (at <= last + 1 \/ at <= height + 1) /\ height <= tip[Probe]
  BY <1>1 DEF IInv, Shape
<1>3. {last, height} \in SUBSET Nat /\ {last, height} # {}
      /\ \A x \in {last, height} : x <= Top
  BY <1>1, <1>2
<1>4. Max({last, height}) \in {last, height} /\ \A y \in {last, height} : y <= Max({last, height})
  BY <1>1, <1>3, MaxIs
<1>5. last' \in {last, height} /\ last <= last' /\ height <= last'
  BY <1>4 DEF Advanced
<1>6. last' \in 0..Top
  BY <1>1, <1>3, <1>5
<1>7. \A h \in 1..Top : (h <= last' \/ h < at') <=> (h <= last \/ h < at)
  BY <1>1, <1>2, <1>5
<1>8. \A h \in 1..Top' : ~(h > Top)
  BY <1>1 DEF netVars, Top
<1> QED
  BY <1>1, <1>5, <1>6, <1>7, <1>8 DEF SameReach, Reached

LEMMA BlockCreditedKeeps ==
  ASSUME IInv, BlockCredited
  PROVE  IInv'
<1>1. /\ pc = "creditNext" /\ at > height /\ last' = Advanced /\ height' = 0 /\ at' = 0
      /\ UNCHANGED netVars /\ stage' = stage /\ color' = color /\ pending' = pending
      /\ still' = still /\ final' = final /\ reads' = reads /\ heights' = heights
      /\ balances' = balances /\ ledger' = ledger /\ successes' = successes
      /\ alarm' = alarm /\ abandoned' = abandoned
  BY DEF BlockCredited, changeVars, verdictVars
<1>2. pc \in Crediting /\ pc \notin Before /\ pc \notin Ended \cup Reading /\ pc # "resolve"
  BY <1>1 DEF Crediting, Before, Ended, Reading
<1>3. stage # "before" /\ still = <<>> /\ DOMAIN reads = {}
  BY <1>2 DEF IInv, Shape
<1>4. SameReach
  BY <1>1, <1>2, AdvancedIs
<1>5. Advances
  BY <1>1, StandsStill DEF IInv
<1>6. Calm
  BY <1>1, <1>4, <1>5 DEF Calm
<1>7. /\ pc' \in {"next", "send"} /\ left' \in Nat /\ todo' \subseteq Calls
  <2>1. left \in Nat /\ todo \subseteq Calls /\ stage \in {"fund", "issue", "round"}
    BY <1>3 DEF IInv, TypeOK
  <2>2. CASE stage = "fund" /\ left > 1
    BY <2>1, <2>2 DEF BlockCredited
  <2>3. CASE ~(stage = "fund" /\ left > 1)
    <3>1. pc' = "send" /\ todo' \in Gather(stage) /\ left' = left
      BY <2>3 DEF BlockCredited
    <3> QED
      BY <2>1, <3>1, GatherIs
  <2> QED
    BY <2>2, <2>3
<1>8. /\ pc' \in PausedAt \cup Unpaused
      /\ pc' \notin Ended \cup Before \cup Crediting \cup Passes \cup {"resolve"}
      /\ pc' # "creditPass" /\ pc' \notin {"seedBalance", "seedAfter", "verifyAfter"}
      /\ pc' \notin {"seedBefore", "converge", "verifyBalance"}
  BY <1>7 DEF PausedAt, Unpaused, Ended, Before, Crediting, Passes
<1>9. TypeOK'
  <2>1. 0 \in 0..MaxHeight + 1
    BY ConstantsAreSets
  <2>2. /\ stage \in {"before", "fund", "issue", "round"} /\ color \in [Nodes -> BOOLEAN]
        /\ final \in BOOLEAN /\ DOMAIN reads \subseteq Nodes
    BY DEF IInv, TypeOK
  <2> QED
    BY <1>1, <1>6, <1>7, <1>8, <2>1, <2>2, CalmKeepsTypes
<1>10. Fresh'
  BY <1>8 DEF Fresh
<1>11. Shape'
  BY <1>1, <1>3, <1>8 DEF Shape
<1>12. Books' /\ NetInv'
  BY <1>5, <1>6, CalmKeepsBooks DEF Advances
<1>13. Reads'
  BY <1>8, NoAnswers
<1> QED
  BY <1>9, <1>10, <1>11, <1>12, <1>13, Assembled

LEMMA PassCreditedKeeps ==
  ASSUME IInv, PassCredited
  PROVE  IInv'
<1>1. /\ pc = "creditPass" /\ at > height /\ last' = Advanced /\ height' = height /\ at' = 0
      /\ pc' = AfterCredit
      /\ UNCHANGED netVars /\ stage' = stage /\ left' = left /\ todo' = todo /\ color' = color
      /\ pending' = pending /\ still' = still /\ final' = final /\ reads' = reads
      /\ heights' = heights /\ balances' = balances /\ ledger' = ledger
      /\ successes' = successes /\ alarm' = alarm /\ abandoned' = abandoned
  BY DEF PassCredited, sendVars, changeVars, verdictVars
<1>2. pc \in Crediting /\ pc \notin Before /\ pc \notin Ended \cup Reading /\ pc # "resolve"
  BY <1>1 DEF Crediting, Before, Ended, Reading
<1>3. /\ stage # "before" /\ still = <<>> /\ DOMAIN reads = {} /\ last <= height
      /\ \A e \in Earners : height <= tip[e]
  BY <1>1, <1>2 DEF IInv, Shape
<1>4. SameReach /\ last' \in Nat /\ last <= last' /\ height <= last' /\ last' \in {last, height}
  BY <1>1, <1>2, AdvancedIs
<1>5. Advances
  BY <1>1, StandsStill DEF IInv
<1>6. Calm
  BY <1>1, <1>4, <1>5 DEF Calm
<1>7. last' = height' /\ \A e \in Earners : height' <= tip'[e]
  <2>1. last' = height
    <3>1. last \in Nat /\ height \in Nat
      BY ScriptTypes
    <3> QED
      BY <1>3, <1>4, <3>1
  <2>2. tip' = tip
    BY <1>1 DEF netVars
  <2> QED
    BY <1>1, <1>3, <2>1, <2>2
<1>8. pc' \in {"resync", "resolve", "verify"}
  BY <1>1 DEF AfterCredit
<1>9. /\ pc' \in PausedAt \cup Unpaused /\ pc' \in Passes
      /\ pc' \notin Ended \cup Before \cup Crediting
      /\ pc' # "creditPass" /\ pc' \notin {"seedBalance", "seedAfter", "verifyAfter"}
      /\ pc' \notin {"seedBefore", "converge", "verifyBalance"}
  BY <1>8 DEF PausedAt, Unpaused, Ended, Before, Crediting, Passes
<1>10. TypeOK'
  <2>1. 0 \in 0..MaxHeight + 1
    BY ConstantsAreSets
  <2>2. /\ stage \in {"before", "fund", "issue", "round"} /\ color \in [Nodes -> BOOLEAN]
        /\ final \in BOOLEAN /\ DOMAIN reads \subseteq Nodes /\ left \in Nat
        /\ todo \subseteq Calls /\ height \in 0..MaxHeight + 1
    BY DEF IInv, TypeOK
  <2> QED
    BY <1>1, <1>6, <1>9, <2>1, <2>2, CalmKeepsTypes
<1>11. Fresh'
  BY <1>9 DEF Fresh
<1>12. Shape'
  BY <1>1, <1>3, <1>7, <1>9 DEF Shape
<1>13. Books' /\ NetInv'
  BY <1>5, <1>6, CalmKeepsBooks DEF Advances
<1>14. Reads'
  BY <1>9, NoAnswers
<1> QED
  BY <1>10, <1>11, <1>12, <1>13, <1>14, Assembled

\* Where no height is kept and no answer is waited for.
LEMMA OpenAwait ==
  ASSUME pc' \in {"next", "send", "finish", "wait", "converge"}, DOMAIN reads' = {},
         still' = <<>>, at' = 0, stage' # "before"
  PROVE  Fresh' /\ Shape' /\ Reads' /\ pc' \in PausedAt \cup Unpaused \cup Ended
<1>1. /\ pc' \in PausedAt \cup Unpaused
      /\ pc' \notin Ended \cup Before \cup Crediting \cup Passes
      /\ pc' # "creditPass" /\ pc' \notin {"seedBalance", "seedAfter", "verifyAfter"}
  BY DEF PausedAt, Unpaused, Ended, Before, Crediting, Passes
<1>2. Fresh'
  BY <1>1 DEF Fresh
<1>3. Shape'
  BY <1>1 DEF Shape
<1>4. Reads'
  BY <1>1, NoAnswers
<1> QED
  BY <1>1, <1>2, <1>3, <1>4

LEMMA SettledIs ==
  ASSUME TypeOK, Settled, stage # "before"
  PROVE  /\ pc' \in {"next", "send", "finish"} /\ final' = FALSE
         /\ stage' \in {"fund", "issue", "round"} /\ left' \in Nat /\ todo' \subseteq Calls
<1>1. stage \in {"fund", "issue", "round"} /\ left \in Nat /\ Rounds \in Nat
  BY SomeWork DEF TypeOK
<1>2. CASE stage = "fund"
  <2>1. /\ final' = FALSE /\ pc' = "send" /\ stage' = "issue" /\ left' = 0
        /\ todo' \in Gather("issue")
    BY <1>2 DEF Settled
  <2> QED
    BY <2>1, GatherIs
<1>3. CASE stage = "issue"
  BY <1>1, <1>3 DEF Settled
<1>4. CASE stage = "round" /\ left > 1
  BY <1>1, <1>4 DEF Settled
<1>5. CASE stage = "round" /\ ~(left > 1)
  BY <1>1, <1>5 DEF Settled
<1> QED
  BY <1>1, <1>2, <1>3, <1>4, <1>5

LEMMA SendsMadeKeeps ==
  ASSUME IInv, SendsMade
  PROVE  IInv'
<1>1. /\ pc = "send" /\ UNCHANGED netVars /\ color' = color /\ pending' = pending
      /\ still' = still /\ reads' = reads /\ heights' = heights /\ balances' = balances
      /\ height' = height /\ at' = at /\ ledger' = ledger /\ last' = last
      /\ successes' = successes /\ alarm' = alarm /\ abandoned' = abandoned
  BY DEF SendsMade, readVars, bookVars, verdictVars
<1>2. stage # "before" /\ still = <<>> /\ DOMAIN reads = {} /\ at = 0
  BY <1>1 DEF IInv, Shape, Ended, Before, Reading, Crediting
<1>3. /\ pc' \in {"next", "send", "finish", "converge"} /\ final' \in BOOLEAN
      /\ stage' \in {"fund", "issue", "round"} /\ left' \in Nat /\ todo' \subseteq Calls
      /\ stage' = stage \/ pending = <<>>
  <2>1. TypeOK /\ stage \in {"fund", "issue", "round"} /\ left \in Nat /\ final \in BOOLEAN
    BY <1>2 DEF IInv, TypeOK
  <2>2. CASE stage # "round" /\ pending = <<>>
    <3>1. Settled
      BY <2>2 DEF SendsMade
    <3> QED
      BY <1>2, <2>1, <2>2, <3>1, SettledIs
  <2>3. CASE ~(stage # "round" /\ pending = <<>>)
    <3>1. pc' = "converge" /\ todo' = {} /\ stage' = stage /\ left' = left /\ final' = final
      BY <2>3 DEF SendsMade
    <3> QED
      BY <2>1, <3>1
  <2> QED
    BY <2>2, <2>3
<1>4. Advances
  BY <1>1, StandsStill DEF IInv
<1>5. SameReach
  BY <1>1, ReachIs DEF netVars, Top
<1>6. Calm
  BY <1>1, <1>2, <1>3, <1>4, <1>5 DEF Calm
<1>7. stage' # "before" /\ still' = <<>> /\ DOMAIN reads' = {} /\ at' = 0
  BY <1>1, <1>2, <1>3
<1>8. Fresh' /\ Shape' /\ Reads' /\ pc' \in PausedAt \cup Unpaused \cup Ended
  BY <1>3, <1>7, OpenAwait
<1>9. TypeOK'
  <2>1. color \in [Nodes -> BOOLEAN] /\ height \in 0..MaxHeight + 1 /\ at \in 0..MaxHeight + 1
    BY DEF IInv, TypeOK
  <2> QED
    BY <1>1, <1>3, <1>6, <1>7, <1>8, <2>1, CalmKeepsTypes
<1>10. Books' /\ NetInv'
  BY <1>4, <1>6, CalmKeepsBooks DEF Advances
<1> QED
  BY <1>8, <1>9, <1>10, Assembled

-----------------------------------------------------------------------------
(* The steps that book.                                                    *)

\* What the stable snapshot of an earner says.
LEMMA SnapshotIs ==
  ASSUME IInv, SeedLedger
  PROVE  /\ last' \in 0..Top
         /\ \A e \in Earners : \E u \in 0..last' :
              /\ BalanceAt(balances[e], e, u)
              /\ \A h \in 1..last' : earner[h] = e => h <= u
         /\ \A n \in Nodes : OwnEntries(balances[n], n)
<1>1. /\ pc = "seedAfter" /\ DOMAIN reads = Nodes /\ reads = heights
      /\ last' = Max(UNION Range(reads))
  BY DEF SeedLedger, Goto, Stable, AllRead, SeededHeight
<1>2. /\ \A n \in Nodes : heights[n] \subseteq 0..Top
      /\ \A e \in Earners : \E t \in 0..tip[e] : \E u \in t..tip[e] :
           /\ heights[e] = {t} /\ BalanceAt(balances[e], e, u)
           /\ Answer(e, u, HeightsKnown)
      /\ \A n \in Nodes : OwnEntries(balances[n], n)
  BY <1>1 DEF IInv, SeedReads
<1>3. Top \in Nat /\ Earners \subseteq Nodes /\ Probe \in Earners
      /\ \A e \in Earners : tip[e] \in Nat /\ tip[e] <= Top
  BY ScriptTypes
<1>4. ASSUME NEW e \in Earners
      PROVE  \E u \in 0..Top : /\ heights[e] = {u} /\ BalanceAt(balances[e], e, u)
                               /\ \A h \in HeightsKnown : earner[h] = e => h <= u
  <2>1. PICK t \in 0..tip[e] : \E u \in t..tip[e] :
          /\ heights[e] = {t} /\ BalanceAt(balances[e], e, u)
          /\ Answer(e, u, HeightsKnown)
    BY <1>2
  <2>2. PICK u \in t..tip[e] :
          /\ heights[e] = {t} /\ BalanceAt(balances[e], e, u)
          /\ Answer(e, u, HeightsKnown)
    BY <2>1
  <2>3. PICK x \in u..tip[e] : reads[e] = {x} /\ \A h \in HeightsKnown : earner[h] = e => h <= x
    BY <1>1, <1>3, <2>2 DEF Answer
  <2>4. x = t
    BY <1>1, <2>2, <2>3
  <2>5. u = t /\ x = u /\ u \in 0..Top
    BY <1>3, <2>4
  <2> QED
    BY <2>2, <2>3, <2>5
<1>5. /\ \A m \in UNION Range(reads) : m \in Nat /\ m <= Top /\ \E n \in Nodes : m \in heights[n]
      /\ UNION Range(reads) # {}
      /\ \A e \in Earners : \A u : heights[e] = {u} => u \in UNION Range(reads)
  <2>1. \A n \in Nodes : reads[n] \in Range(reads) /\ reads[n] = heights[n]
    BY <1>1 DEF Range
  <2>2. \A r \in Range(reads) : \E n \in Nodes : r = heights[n]
    BY <1>1 DEF Range
  <2>3. \A e \in Earners : \A u : heights[e] = {u} => u \in UNION Range(reads)
    BY <1>3, <2>1
  <2>4. UNION Range(reads) # {}
    BY <1>3, <1>4, <2>3
  <2>5. ASSUME NEW m \in UNION Range(reads)
        PROVE  m \in Nat /\ m <= Top /\ \E n \in Nodes : m \in heights[n]
    <3>1. PICK n \in Nodes : m \in heights[n]
      BY <2>2
    <3>2. m \in 0..Top
      BY <1>2, <3>1
    <3> QED
      BY <1>3, <3>1, <3>2
  <2> QED
    BY <2>3, <2>4, <2>5
<1>6. last' \in UNION Range(reads) /\ \A y \in UNION Range(reads) : y <= last'
  <2>1. UNION Range(reads) \in SUBSET Nat
    BY <1>5
  <2> QED
    BY <1>1, <1>3, <1>5, <2>1, MaxIs
<1>7. last' \in 0..Top /\ \E n \in Nodes : last' \in heights[n]
  BY <1>3, <1>5, <1>6
<1>8. 1..last' \subseteq HeightsKnown
  BY <1>7 DEF HeightsKnown
<1>9. ASSUME NEW e \in Earners
      PROVE  \E u \in 0..last' : /\ BalanceAt(balances[e], e, u)
                                 /\ \A h \in 1..last' : earner[h] = e => h <= u
  <2>1. PICK u \in 0..Top : /\ heights[e] = {u} /\ BalanceAt(balances[e], e, u)
                            /\ \A h \in HeightsKnown : earner[h] = e => h <= u
    BY <1>4
  <2>2. u <= last'
    BY <1>5, <1>6, <2>1
  <2>3. u \in 0..last'
    BY <1>3, <1>7, <2>2
  <2> QED
    BY <1>8, <2>1, <2>3
<1> QED
  BY <1>2, <1>7, <1>9

LEMMA SeedLedgerKeeps ==
  ASSUME IInv, SeedLedger
  PROVE  IInv'
<1>1. /\ pc = "seedAfter" /\ pc' = "next" /\ UNCHANGED netVars
      /\ stage' = "fund" /\ left' = CoinbaseBlocks
      /\ reads' = <<>> /\ heights' = <<>> /\ balances' = <<>> /\ DOMAIN <<>> = {}
      /\ todo' = todo /\ color' = color /\ pending' = pending /\ still' = still
      /\ final' = final /\ height' = height /\ at' = at
      /\ successes' = successes /\ alarm' = alarm /\ abandoned' = abandoned
  BY DEF SeedLedger, Goto, sendVars, changeVars, verdictVars
<1>2. ledger' = [n \in Nodes |->
                  [e \in Entries |-> IF e \in balances[n] THEN 1 ELSE 0]]
  BY DEF SeedLedger
<1>3. /\ last' \in 0..Top
      /\ \A e \in Earners : \E u \in 0..last' :
           /\ BalanceAt(balances[e], e, u)
           /\ \A h \in 1..last' : earner[h] = e => h <= u
      /\ \A n \in Nodes : OwnEntries(balances[n], n)
  BY SnapshotIs
<1>4. /\ pending = <<>> /\ still = <<>> /\ at = 0 /\ NetInv /\ TypeOK
      /\ \A i \in DOMAIN txs :
           txs[i].from \in Earners /\ txs[i].to \in ChaosNodes /\ txs[i].height > 0
  BY <1>1 DEF IInv, Fresh, Shape, Before, Ended, Crediting
<1>5. /\ earner' = earner /\ txs' = txs /\ Top' = Top /\ Advances /\ NetInv' /\ Evolves
      /\ DOMAIN txs' = DOMAIN txs
  BY <1>1, <1>4, StandsStill DEF Advances, netVars, Top
<1>6. /\ Top \in Nat /\ Top <= MaxHeight /\ MaxHeight \in Nat /\ Earners \subseteq Nodes
      /\ DOMAIN txs \subseteq Ids /\ \A h \in 1..Top : earner[h] \in Earners
      /\ Earners \cap ChaosNodes = {}
  BY <1>4, NetTypes, ConstantsAreSets DEF Ids
<1>7. \A n \in Nodes : \A e \in Entries : ledger'[n][e] = IF e \in balances[n] THEN 1 ELSE 0
  BY <1>2
<1>8. DOMAIN pending' = {} /\ DOMAIN still' = {} /\ \A i : ~Tracked(i)' /\ (Tracked(i)' => Tracked(i))
  BY <1>1, <1>4 DEF Tracked, InSome
<1>9. CoinbasesBooked'
  <2>1. ASSUME NEW n \in Nodes, NEW h \in 1..MaxHeight
        PROVE  LET count == ledger'[n][<<"coinbase", h>>]
               IN  /\ count \in {0, 1}
                   /\ count = 1 => h <= Top' /\ earner'[h] = n /\ Reached(h)'
    <3>1. ledger'[n][<<"coinbase", h>>] = IF <<"coinbase", h>> \in balances[n] THEN 1 ELSE 0
      BY <1>7, EntriesAre
    <3>2. ASSUME <<"coinbase", h>> \in balances[n]
          PROVE  h <= Top /\ earner[h] = n /\ h <= last'
      <4>1. h <= Top /\ earner[h] = n
        BY <1>3, <3>2, EntriesAre DEF OwnEntries
      <4>2. n \in Earners
        BY <1>6, <4>1
      <4>3. PICK u \in 0..last' : BalanceAt(balances[n], n, u)
        BY <1>3, <4>2
      <4>4. HasAt(n, u, <<"coinbase", h>>)
        BY <3>2, <4>3, EntriesAre DEF BalanceAt
      <4>5. h <= u
        BY <4>4 DEF HasAt
      <4> QED
        BY <1>3, <1>6, <4>1, <4>5
    <3> QED
      BY <1>5, <3>1, <3>2 DEF Reached
  <2>2. ASSUME NEW h \in 1..Top', Reached(h)'
        PROVE  ledger'[earner'[h]][<<"coinbase", h>>] = 1
    <3>1. h <= last' /\ h \in 1..Top /\ h \in 1..MaxHeight /\ h \in 1..last'
      BY <1>1, <1>3, <1>4, <1>5, <1>6, <2>2 DEF Reached
    <3>2. earner[h] \in Earners /\ earner[h] \in Nodes
      BY <1>6, <3>1
    <3>3. PICK u \in 0..last' : /\ BalanceAt(balances[earner[h]], earner[h], u)
                                /\ \A x \in 1..last' : earner[x] = earner[h] => x <= u
      BY <1>3, <3>2
    <3>4. HasAt(earner[h], u, <<"coinbase", h>>)
      BY <3>1, <3>3 DEF HasAt
    <3>5. <<"coinbase", h>> \in balances[earner[h]]
      BY <3>1, <3>3, <3>4, EntriesAre DEF BalanceAt
    <3> QED
      BY <1>5, <1>7, <3>1, <3>2, <3>5, EntriesAre
  <2> QED
    BY <1>3, <1>5, <2>1, <2>2 DEF CoinbasesBooked
<1>10. ChangesBooked'
  <2>1. ASSUME NEW n \in Nodes, NEW i \in Ids
        PROVE  LET count == ledger'[n][<<"tx", i>>]
               IN  /\ count \in {0, 1}
                   /\ count = 1 => /\ i \in DOMAIN txs' /\ n \in {txs'[i].from, txs'[i].to}
                                   /\ txs'[i].height > 0 /\ ~Tracked(i)'
    <3>1. ledger'[n][<<"tx", i>>] = IF <<"tx", i>> \in balances[n] THEN 1 ELSE 0
      BY <1>7, EntriesAre
    <3>2. ASSUME <<"tx", i>> \in balances[n]
          PROVE  i \in DOMAIN txs /\ n \in {txs[i].from, txs[i].to}
      BY <1>3, <3>2, EntriesAre DEF OwnEntries
    <3> QED
      BY <1>4, <1>5, <1>8, <3>1, <3>2
  <2> QED
    BY <2>1 DEF ChangesBooked
<1>11. ChangesProper'
  BY <1>8 DEF ChangesProper, Apart
<1>12. Accounted'
  <2>1. ASSUME NEW i \in DOMAIN txs
        PROVE  Booked(i)'
    <3>1. txs[i].from \in Earners /\ txs[i].to \in ChaosNodes /\ txs[i].height > 0 /\ i \in Ids
      BY <1>4, <1>6
    <3>2. ASSUME NEW n \in Earners, n \in {txs[i].from, txs[i].to}
          PROVE  ledger'[n][<<"tx", i>>] = 1
      <4>1. txs[i].from = n
        BY <1>6, <3>1, <3>2
      <4>2. PICK u \in 0..last' : BalanceAt(balances[n], n, u)
        BY <1>3
      <4>3. HasAt(n, u, <<"tx", i>>)
        BY <4>1 DEF HasAt
      <4>4. <<"tx", i>> \in balances[n]
        BY <3>1, <4>2, <4>3, EntriesAre DEF BalanceAt
      <4> QED
        BY <1>6, <1>7, <3>1, <4>4, EntriesAre
    <3> QED
      BY <1>5, <3>1, <3>2 DEF Booked
  <2> QED
    BY <1>5, <2>1 DEF Accounted
<1>13. SuccessesAreReal'
  <2>1. SuccessesAreReal /\ successes \in Nat
    BY DEF IInv, TypeOK
  <2> QED
    BY <1>1, <1>4, <1>5, <1>8, <2>1, SuccessesKept
<1>14. EarnersAlarmIsOfAbandoned'
  BY <1>1 DEF IInv, EarnersAlarmIsOfAbandoned
<1>15. Books'
  BY <1>9, <1>10, <1>11, <1>12, <1>13, <1>14 DEF Books
<1>16. TypeOK'
  <2>1. NetTypeOK'
    BY <1>5 DEF NetInv
  <2>2. ledger' \in [Nodes -> [Entries -> 0..2]]
    BY <1>2
  <2>3. last' \in 0..MaxHeight /\ left' \in Nat
    BY <1>1, <1>3, <1>6, SomeWork
  <2>4. pc' \in Unpaused
    BY <1>1 DEF Unpaused
  <2> QED
    BY <1>1, <1>4, <2>1, <2>2, <2>3, <2>4 DEF TypeOK
<1>17. Fresh' /\ Shape' /\ Reads'
  BY <1>1, <1>4, OpenAwait
<1> QED
  BY <1>5, <1>15, <1>16, <1>17, Assembled

LEMMA CreditCoinbaseKeeps ==
  ASSUME IInv, CreditCoinbase
  PROVE  IInv'
<1>1. /\ pc \in Crediting /\ at <= height /\ at' = at + 1 /\ UNCHANGED netVars
      /\ pc' = pc /\ stage' = stage /\ left' = left /\ todo' = todo /\ color' = color
      /\ pending' = pending /\ still' = still /\ final' = final /\ reads' = reads
      /\ heights' = heights /\ balances' = balances /\ height' = height /\ last' = last
      /\ successes' = successes /\ alarm' = alarm /\ abandoned' = abandoned
  BY DEF CreditCoinbase, ctlVars, sendVars, changeVars, verdictVars
<1>2. ledger' = [ledger EXCEPT ![earner[at]][<<"coinbase", at>>] = Once(@)]
  BY DEF CreditCoinbase
<1>3. /\ NetInv /\ TypeOK /\ Shape /\ CoinbasesBooked /\ ledger \in [Nodes -> [Entries -> 0..2]]
      /\ Fresh /\ SuccessesAreReal /\ successes \in Nat
  BY DEF IInv, TypeOK
<1>4. /\ last \in Nat /\ last <= Top /\ Top \in Nat /\ height \in Nat /\ at \in Nat
      /\ Probe \in Earners /\ tip[Probe] \in Nat /\ tip[Probe] <= Top
      /\ Top <= MaxHeight /\ MaxHeight \in Nat /\ Earners \subseteq Nodes
  BY ScriptTypes
<1>5. last < at /\ height <= tip[Probe] /\ \A e \in Earners : height <= tip[e]
  BY <1>1, <1>3, <1>4 DEF Shape
<1>6. at \in 1..Top /\ at \in 1..MaxHeight /\ earner[at] \in Earners /\ earner[at] \in Nodes
  <2>1. at \in 1..Top /\ at \in 1..MaxHeight
    BY <1>1, <1>4, <1>5
  <2> QED
    BY <1>3, <1>4, <2>1, NetTypes
<1>7. ledger[earner[at]][<<"coinbase", at>>] = 0
  <2>1. /\ ledger[earner[at]][<<"coinbase", at>>] \in {0, 1}
        /\ ledger[earner[at]][<<"coinbase", at>>] = 1 => Reached(at)
    BY <1>3, <1>6 DEF CoinbasesBooked
  <2>2. ~Reached(at)
    BY <1>4, <1>5 DEF Reached
  <2> QED
    BY <2>1, <2>2
<1>8. /\ ledger' \in [Nodes -> [Entries -> 0..2]]
      /\ ledger'[earner[at]][<<"coinbase", at>>] = 1
      /\ \A n \in Nodes : \A x \in Entries :
           n # earner[at] \/ x # <<"coinbase", at>> => ledger'[n][x] = ledger[n][x]
  <2>1. <<"coinbase", at>> \in Entries
    BY <1>6, EntriesAre
  <2>2. ledger' = [ledger EXCEPT ![earner[at]][<<"coinbase", at>>] = 1]
    BY <1>2, <1>3, <1>6, <1>7, <2>1 DEF Once
  <2> QED
    BY <1>3, <1>6, <2>1, <2>2
<1>9. Advances /\ NetInv' /\ Evolves /\ earner' = earner /\ txs' = txs /\ tip' = tip /\ Top' = Top
  BY <1>1, <1>3, StandsStill DEF Advances, netVars, Top
<1>10. SameChanges
  <2>1. \A i \in Ids : <<"tx", i>> \in Entries /\ <<"tx", i>> # <<"coinbase", at>>
    BY EntriesAre
  <2> QED
    BY <1>8, <2>1 DEF SameChanges
<1>11. CoinbasesBooked'
  <2>1. ASSUME NEW n \in Nodes, NEW h \in 1..MaxHeight
        PROVE  LET count == ledger'[n][<<"coinbase", h>>]
               IN  /\ count \in {0, 1}
                   /\ count = 1 => h <= Top' /\ earner'[h] = n /\ Reached(h)'
    <3>1. CASE n = earner[at] /\ h = at
      <4>1. Reached(h)'
        BY <1>1, <1>4, <3>1 DEF Reached
      <4> QED
        BY <1>6, <1>8, <1>9, <3>1, <4>1
    <3>2. CASE ~(n = earner[at] /\ h = at)
      <4>1. <<"coinbase", h>> \in Entries /\ (h # at => <<"coinbase", h>> # <<"coinbase", at>>)
        BY EntriesAre
      <4>2. ledger'[n][<<"coinbase", h>>] = ledger[n][<<"coinbase", h>>]
        BY <1>8, <3>2, <4>1
      <4>3. /\ ledger[n][<<"coinbase", h>>] \in {0, 1}
            /\ ledger[n][<<"coinbase", h>>] = 1 => h <= Top /\ earner[h] = n /\ Reached(h)
        BY <1>3 DEF CoinbasesBooked
      <4>4. Reached(h) => Reached(h)'
        BY <1>1, <1>4 DEF Reached
      <4> QED
        BY <1>9, <4>2, <4>3, <4>4
    <3> QED
      BY <3>1, <3>2
  <2>2. ASSUME NEW h \in 1..Top', Reached(h)', stage' # "before"
        PROVE  ledger'[earner'[h]][<<"coinbase", h>>] = 1
    <3>1. h \in 1..Top /\ h \in 1..MaxHeight /\ earner[h] \in Nodes
      BY <1>3, <1>4, <1>9, NetTypes
    <3>2. CASE h = at
      BY <1>8, <1>9, <3>2
    <3>3. CASE h # at
      <4>1. Reached(h)
        BY <1>1, <1>4, <2>2, <3>1, <3>3 DEF Reached
      <4>2. ledger[earner[h]][<<"coinbase", h>>] = 1
        BY <1>1, <1>3, <2>2, <3>1, <4>1 DEF CoinbasesBooked
      <4>3. <<"coinbase", h>> \in Entries /\ <<"coinbase", h>> # <<"coinbase", at>>
        BY <3>1, <3>3, EntriesAre
      <4> QED
        BY <1>8, <1>9, <3>1, <4>2, <4>3
    <3> QED
      BY <3>2, <3>3
  <2>3. last' \in 0..Top'
    BY <1>1, <1>4, <1>9
  <2> QED
    BY <2>1, <2>2, <2>3 DEF CoinbasesBooked
<1>12. \A i : Tracked(i)' <=> Tracked(i)
  BY <1>1 DEF Tracked, InSome
<1>13. ChangesBooked'
  BY <1>3, <1>9, <1>10, <1>12, ChangesBookedKept DEF IInv
<1>14. ChangesProper'
  BY <1>1, <1>9, ChangesProperKept DEF IInv
<1>15. Accounted'
  BY <1>1, <1>3, <1>9, <1>10, <1>12, AccountedKept DEF IInv
<1>16. SuccessesAreReal'
  BY <1>1, <1>3, <1>9, <1>12, SuccessesKept
<1>17. EarnersAlarmIsOfAbandoned'
  BY <1>1 DEF IInv, EarnersAlarmIsOfAbandoned
<1>18. Books'
  BY <1>11, <1>13, <1>14, <1>15, <1>16, <1>17 DEF Books
<1>19. TypeOK'
  <2>1. NetTypeOK' /\ at' \in 0..MaxHeight + 1
    BY <1>1, <1>4, <1>6, <1>9 DEF NetInv
  <2> QED
    BY <1>1, <1>3, <1>8, <2>1 DEF TypeOK
<1>20. /\ pc \notin Ended \cup Before \cup Passes \cup {"resolve"}
       /\ pc \notin {"seedBalance", "seedAfter", "verifyAfter", "seedBefore", "converge", "verifyBalance"}
  BY <1>1 DEF Crediting, Ended, Before, Passes
<1>21. Fresh' /\ Reads'
  BY <1>1, <1>20, NoAnswers DEF Fresh
<1>22. Shape'
  <2>1. last' < at' /\ (at' <= last' + 1 \/ at' <= height' + 1)
    BY <1>1, <1>4, <1>5
  <2> QED
    BY <1>1, <1>3, <1>5, <1>9, <1>20, <2>1 DEF Shape
<1> QED
  BY <1>9, <1>18, <1>19, <1>21, <1>22, Assembled

-----------------------------------------------------------------------------
(* The sends.                                                              *)

LEMMA BroadcastEvolves ==
  ASSUME IInv, NEW call \in Calls, NEW k \in {1, 2}, NEW to \in Nodes, Broadcast(call, k, to)
  PROVE  /\ NetInv' /\ Evolves /\ UNCHANGED <<earner, tip, chaos>> /\ Top' = Top
         /\ Len(txs) + k <= MaxTx /\ Len(txs) \in Nat /\ DOMAIN txs = 1..Len(txs)
         /\ DOMAIN txs' = DOMAIN txs \cup NewIds(k)
         /\ \A i \in DOMAIN txs : txs'[i] = txs[i]
         /\ \A i \in NewIds(k) : i \notin DOMAIN txs /\ txs'[i].stage = stage
<1> DEFINE new == [i \in 1..k |->
                    [from |-> call.by, to |-> to, stage |-> stage,
                     own |-> TRUE, relayed |-> FALSE, height |-> 0]]
<1>1. /\ txs' = txs \o new /\ Len(txs) + k <= MaxTx
      /\ earner' = earner /\ tip' = tip /\ chaos' = chaos /\ Top' = Top
  BY DEF Broadcast, Top
<1>2. /\ NetInv /\ stage \in {"before", "fund", "issue", "round"}
      /\ txs \in Seq(Transaction) /\ MaxHeight \in Nat /\ MaxTx \in Nat /\ k \in Nat
      /\ Len(txs) \in Nat /\ DOMAIN txs = 1..Len(txs) /\ Top \in Nat
      /\ \A e \in Earners : tip[e] \in Nat
  BY ScriptTypes, NetTypes, SMTT(30) DEF IInv, TypeOK, NetTypeOK
<1>3. \A i \in 1..k : /\ new[i] \in Transaction /\ new[i].stage = stage
                      /\ new[i].own = TRUE /\ new[i].height = 0
  <2>1. call.by \in Nodes /\ 0 \in 0..MaxHeight
    BY <1>2 DEF Calls
  <2> QED
    BY <1>2, <2>1 DEF Transaction
<1>4. new \in Seq(Transaction) /\ Len(new) = k
  <2>1. new \in [1..k -> Transaction]
    BY <1>3
  <2> QED
    BY <1>2, <2>1, IsSequence
<1>5. /\ txs' \in Seq(Transaction) /\ Len(txs') = Len(txs) + k
      /\ DOMAIN txs' = 1..(Len(txs) + k)
      /\ \A i \in 1..Len(txs) : txs'[i] = txs[i]
      /\ \A i \in Len(txs) + 1..Len(txs) + k : txs'[i] = new[i - Len(txs)]
  <2> HIDE DEF new
  <2> QED
    BY <1>1, <1>2, <1>4
<1>6. \A i \in Len(txs) + 1..Len(txs) + k : /\ txs'[i].stage = stage /\ txs'[i].own = TRUE
                                            /\ txs'[i].height = 0 /\ i \notin 1..Len(txs)
  <2>1. ASSUME NEW i \in Len(txs) + 1..Len(txs) + k
        PROVE  i - Len(txs) \in 1..k /\ i \notin 1..Len(txs) /\ txs'[i] = new[i - Len(txs)]
    <3>1. k \in Nat /\ Len(txs) \in Nat
      BY <1>2
    <3>2. i - Len(txs) \in 1..k /\ i \notin 1..Len(txs)
      BY ONLY <2>1, <3>1
    <3> QED
      BY <1>5, <3>2
  <2> HIDE DEF new
  <2> QED
    BY <1>3, <2>1
<1>7. NewIds(k) = Len(txs) + 1..Len(txs) + k
  BY DEF NewIds
<1>8. DOMAIN txs' = DOMAIN txs \cup NewIds(k)
  BY <1>2, <1>5, <1>7
<1>9. NetTypeOK'
  <2>1. \A i \in DOMAIN txs : txs[i].height <= Top
    BY <1>2 DEF NetInv, NetTypeOK
  <2>2. \A i \in DOMAIN txs' : txs'[i].height <= Top'
    BY <1>1, <1>2, <1>5, <1>6, <1>7, <1>8, <2>1
  <2> QED
    BY <1>1, <1>2, <1>5, <2>2 DEF NetInv, NetTypeOK
<1>10. NetInv'
  <2>1. \A i \in DOMAIN txs' : txs'[i].from \in Earners => txs'[i].own
    BY <1>2, <1>5, <1>6, <1>7, <1>8 DEF NetInv
  <2> QED
    BY <1>1, <1>2, <1>9, <2>1 DEF NetInv
<1>11. Evolves
  <2>1. Top <= Top' /\ \A e \in Earners : tip'[e] >= tip[e]
    BY <1>1, <1>2
  <2> QED
    BY <1>1, <1>2, <1>5, <1>8, <2>1 DEF Evolves, SameBut
<1> QED
  BY <1>1, <1>2, <1>5, <1>6, <1>7, <1>8, <1>10, <1>11

\* A call was made: a change stands for its transactions, or none does.
LEMMA SentKeeps ==
  ASSUME IInv, pc = "send", pc' = pc, NEW call \in Calls, NEW k \in {1, 2}, NEW to \in Nodes,
         Broadcast(call, k, to), todo' \subseteq Calls, color' \in [Nodes -> BOOLEAN],
         Track(k) \/ LoseTrack(k),
         UNCHANGED <<stage, left, still, final, reads, heights, balances, height, at,
                     ledger, last, successes>>
  PROVE  IInv'
<1>1. /\ NetInv' /\ Evolves /\ UNCHANGED <<earner, tip, chaos>> /\ Top' = Top
      /\ Len(txs) + k <= MaxTx /\ Len(txs) \in Nat /\ DOMAIN txs = 1..Len(txs)
      /\ DOMAIN txs' = DOMAIN txs \cup NewIds(k)
      /\ \A i \in DOMAIN txs : txs'[i] = txs[i]
      /\ \A i \in NewIds(k) : i \notin DOMAIN txs /\ txs'[i].stage = stage
  BY BroadcastEvolves
<1>2. /\ stage' = stage /\ left' = left /\ still' = still /\ final' = final /\ reads' = reads
      /\ heights' = heights /\ balances' = balances /\ height' = height /\ at' = at
      /\ ledger' = ledger /\ last' = last /\ successes' = successes /\ alarm' = alarm
  BY DEF Track, LoseTrack, verdictVars
<1>3. /\ NetInv /\ TypeOK /\ Shape /\ CoinbasesBooked /\ ChangesBooked /\ ChangesProper
      /\ Accounted /\ SuccessesAreReal /\ EarnersAlarmIsOfAbandoned /\ successes \in Nat
  BY DEF IInv, TypeOK
<1>4. stage # "before" /\ still = <<>> /\ DOMAIN reads = {} /\ at = 0
  BY <1>3 DEF Shape, Ended, Before, Reading, Crediting
<1>5. NewIds(k) \subseteq Ids /\ NewIds(k) # {}
  <2>1. MaxTx \in Nat /\ k \in Nat
    BY ConstantsAreSets
  <2>2. Len(txs) + 1 \in NewIds(k)
    BY <1>1, <2>1 DEF NewIds
  <2> QED
    BY <1>1, <2>1, <2>2 DEF NewIds, Ids
<1>6. pending \in Seq(SUBSET Ids) /\ Len(pending) \in Nat /\ DOMAIN pending = 1..Len(pending)
  BY <1>3 DEF TypeOK
<1>7. ASSUME NEW c, Proper(c)
      PROVE  c # {} /\ c \subseteq DOMAIN txs' /\ \A i \in c : txs'[i].stage = stage'
  BY <1>1, <1>2, <1>7 DEF Proper
<1>8. ASSUME Track(k)
      PROVE  /\ \A i \in DOMAIN txs : Tracked(i)' <=> Tracked(i)
             /\ \A i \in NewIds(k) : i \in abandoned' \/ Tracked(i)'
             /\ ChangesProper'
  <2>1. /\ pending' = Append(pending, NewIds(k)) /\ abandoned' = abandoned
    BY <1>8 DEF Track, verdictVars
  <2>2. /\ pending' \in Seq(SUBSET Ids) /\ DOMAIN pending' = 1..(Len(pending) + 1)
        /\ pending'[Len(pending) + 1] = NewIds(k)
        /\ \A j \in DOMAIN pending : pending'[j] = pending[j]
    BY <1>5, <1>6, <2>1
  <2>3. /\ Len(pending) + 1 \in DOMAIN pending'
        /\ \A j \in DOMAIN pending : j \in DOMAIN pending'
        /\ \A j \in DOMAIN pending' : j \in DOMAIN pending \/ j = Len(pending) + 1
    BY <1>6, <2>2
  <2>4. \A i \in DOMAIN txs : Tracked(i)' <=> Tracked(i)
    <3>1. \A i \in DOMAIN txs : i \notin pending'[Len(pending) + 1]
      BY <1>1, <2>2
    <3> QED
      BY <1>2, <2>2, <2>3, <3>1 DEF Tracked, InSome
  <2>5. \A i \in NewIds(k) : Tracked(i)'
    BY <2>2, <2>3 DEF Tracked, InSome
  <2>6. ChangesProper'
    <3>1. \A j \in DOMAIN pending : Proper(pending[j]) /\ pending[j] \subseteq DOMAIN txs
      BY <1>3 DEF ChangesProper, Proper
    <3>2. ASSUME NEW j \in DOMAIN pending'
          PROVE  Proper(pending[j])'
      <4>1. CASE j \in DOMAIN pending
        BY <1>7, <2>2, <3>1, <4>1 DEF Proper
      <4>2. CASE j = Len(pending) + 1
        BY <1>1, <1>2, <1>5, <2>2, <4>2 DEF Proper
      <4> QED
        BY <2>3, <4>1, <4>2
    <3>3. DOMAIN still' = {}
      BY <1>2, <1>4
    <3>4. Apart(pending)'
      <4>1. \A i, j \in DOMAIN pending : i # j => pending[i] \cap pending[j] = {}
        BY <1>3 DEF ChangesProper, Apart
      <4>2. \A j \in DOMAIN pending : pending[j] \cap NewIds(k) = {}
        BY <1>1, <3>1
      <4> QED
        BY <2>2, <2>3, <4>1, <4>2 DEF Apart
    <3> QED
      BY <3>2, <3>3, <3>4 DEF ChangesProper, Apart
  <2> QED
    BY <2>4, <2>5, <2>6
<1>9. ASSUME LoseTrack(k)
      PROVE  /\ \A i \in DOMAIN txs : Tracked(i)' <=> Tracked(i)
             /\ \A i \in NewIds(k) : i \in abandoned' \/ Tracked(i)'
             /\ ChangesProper'
  <2>1. abandoned' = abandoned \cup NewIds(k) /\ pending' = pending
    BY <1>9 DEF LoseTrack
  <2>2. \A i : Tracked(i)' <=> Tracked(i)
    BY <1>2, <2>1 DEF Tracked, InSome
  <2>3. ChangesProper'
    BY <1>1, <1>2, <1>3, <2>1, ChangesProperKept
  <2> QED
    BY <2>1, <2>2, <2>3
<1>10. /\ pending' \in Seq(SUBSET Ids) /\ abandoned' \subseteq Ids /\ abandoned \subseteq abandoned'
       /\ \A i \in DOMAIN txs : Tracked(i)' <=> Tracked(i)
       /\ \A i \in NewIds(k) : i \in abandoned' \/ Tracked(i)'
       /\ ChangesProper'
  <2>1. abandoned \subseteq Ids
    BY <1>3 DEF TypeOK
  <2>2. CASE Track(k)
    <3>1. pending' = Append(pending, NewIds(k)) /\ abandoned' = abandoned
      BY <2>2 DEF Track, verdictVars
    <3>2. pending' \in Seq(SUBSET Ids)
      BY <1>5, <1>6, <3>1
    <3> QED
      BY <1>8, <2>1, <2>2, <3>1, <3>2
  <2>3. CASE LoseTrack(k)
    <3>1. abandoned' = abandoned \cup NewIds(k) /\ pending' = pending
      BY <2>3 DEF LoseTrack
    <3> QED
      BY <1>5, <1>6, <1>9, <2>1, <2>3, <3>1
  <2> QED
    BY <2>2, <2>3
<1>11. SameCoinbases /\ SameChanges
  BY <1>2 DEF SameCoinbases, SameChanges
<1>12. CoinbasesBooked'
  <2>1. SameReach
    BY <1>1, <1>2, ReachIs
  <2> QED
    BY <1>1, <1>2, <1>3, <1>11, <2>1, CoinbasesKept
<1>13. ChangesBooked'
  BY <1>1, <1>3, <1>10, <1>11, ChangesBookedKept
<1>14. Accounted'
  BY <1>1, <1>2, <1>3, <1>10, <1>11, AccountedKept
<1>15. SuccessesAreReal'
  BY <1>1, <1>2, <1>3, <1>10, SuccessesKept
<1>16. EarnersAlarmIsOfAbandoned'
  BY <1>2, <1>3, <1>10 DEF EarnersAlarmIsOfAbandoned
<1>17. Books'
  BY <1>10, <1>12, <1>13, <1>14, <1>15, <1>16 DEF Books
<1>18. Fresh' /\ Shape' /\ Reads' /\ pc' \in PausedAt \cup Unpaused \cup Ended
  BY <1>2, <1>4, OpenAwait
<1>19. TypeOK'
  <2>1. NetTypeOK'
    BY <1>1 DEF NetInv
  <2> QED
    BY <1>2, <1>3, <1>10, <1>18, <2>1 DEF TypeOK
<1> QED
  BY <1>1, <1>17, <1>18, <1>19, Assembled

LEMMA SendsKeep ==
  ASSUME IInv, pc = "send", NEW call \in todo,
         Send(call) \/ Issue(call) \/ IssueFailsAfterSeed(call)
  PROVE  IInv'
<1>1. todo \subseteq Calls /\ color \in [Nodes -> BOOLEAN]
  BY DEF IInv, TypeOK
<1>2. call \in Calls /\ call.by \in Nodes /\ call.to \in Nodes
  BY <1>1 DEF Calls
<1>3. Rest(call) \subseteq Calls
  BY <1>1 DEF Rest
<1>4. CASE Send(call)
  <2>1. /\ Broadcast(call, 1, call.to) /\ todo' = Rest(call) /\ (Track(1) \/ LoseTrack(1))
        /\ color' = color /\ pc' = pc
        /\ UNCHANGED <<stage, left, still, final, reads, heights, balances, height, at,
                       ledger, last, successes>>
    BY <1>4 DEF Send, sendFrame, ctlVars, readVars, bookVars
  <2> QED
    BY <1>1, <1>2, <1>3, <2>1, SentKeeps
<1>5. CASE Issue(call)
  <2>1. PICK k \in {1, 2} :
          /\ Broadcast(call, k, call.by) /\ todo' = Rest(call) /\ (Track(k) \/ LoseTrack(k))
          /\ color' = [color EXCEPT ![call.by] = TRUE] \/ color' = color
          /\ pc' = pc
          /\ UNCHANGED <<stage, left, still, final, reads, heights, balances, height, at,
                         ledger, last, successes>>
    BY <1>5 DEF Issue, sendFrame, ctlVars, readVars, bookVars
  <2>2. color' \in [Nodes -> BOOLEAN]
    BY <1>1, <1>2, <2>1
  <2> QED
    BY <1>2, <1>3, <2>1, <2>2, SentKeeps
<1>6. CASE IssueFailsAfterSeed(call)
  <2>1. /\ Broadcast(call, 1, call.by) /\ todo' = Rest(call) /\ LoseTrack(1)
        /\ color' = color /\ pc' = pc
        /\ UNCHANGED <<stage, left, still, final, reads, heights, balances, height, at,
                       ledger, last, successes>>
    BY <1>6 DEF IssueFailsAfterSeed, sendFrame, ctlVars, readVars, bookVars
  <2> QED
    BY <1>1, <1>2, <1>3, <2>1, SentKeeps
<1> QED
  BY <1>4, <1>5, <1>6

-----------------------------------------------------------------------------
(* A pass over what is pending.                                            *)

\* The first change is taken off the list.
LEMMA HeadIs ==
  ASSUME IInv, pending # <<>>, pending' = Tail(pending)
  PROVE  /\ Head(pending) \subseteq Ids /\ Head(pending) \subseteq DOMAIN txs
         /\ Head(pending) # {} /\ \A i \in Head(pending) : txs[i].stage = stage /\ Tracked(i)
         /\ pending' \in Seq(SUBSET Ids)
         /\ \A i : InSome(pending, i) <=> i \in Head(pending) \/ InSome(pending', i)
         /\ \A i \in Head(pending) : ~InSome(pending', i) /\ ~InSome(still, i)
         /\ \A j \in DOMAIN pending' : Proper(pending'[j])
         /\ \A j \in DOMAIN pending' : pending'[j] \cap Head(pending) = {}
         /\ \A j \in DOMAIN still : still[j] \cap Head(pending) = {}
         /\ \A j \in DOMAIN pending' : \A m \in DOMAIN still : pending'[j] \cap still[m] = {}
         /\ \A j, m \in DOMAIN pending' : j # m => pending'[j] \cap pending'[m] = {}
<1>1. /\ pending \in Seq(SUBSET Ids) /\ Len(pending) \in Nat /\ DOMAIN pending = 1..Len(pending)
      /\ ChangesProper
  BY DEF IInv, TypeOK
<1>2. /\ Len(pending) > 0 /\ 1 \in DOMAIN pending /\ Head(pending) = pending[1]
      /\ pending' \in Seq(SUBSET Ids) /\ Len(pending') = Len(pending) - 1
      /\ DOMAIN pending' = 1..(Len(pending) - 1)
      /\ \A j \in 1..(Len(pending) - 1) : pending'[j] = pending[j + 1]
  BY <1>1
<1>3. \A j \in DOMAIN pending' : j + 1 \in DOMAIN pending /\ j + 1 # 1 /\ pending'[j] = pending[j + 1]
  BY <1>1, <1>2
<1>4. ASSUME NEW j \in DOMAIN pending, j # 1
      PROVE  \E m \in DOMAIN pending' : pending'[m] = pending[j]
  <2>1. j - 1 \in DOMAIN pending' /\ pending'[j - 1] = pending[(j - 1) + 1] /\ (j - 1) + 1 = j
    BY <1>1, <1>2, <1>4
  <2> QED
    BY <2>1
<1>5. /\ \A j \in DOMAIN pending : Proper(pending[j])
      /\ \A j, m \in DOMAIN pending : j # m => pending[j] \cap pending[m] = {}
      /\ \A j \in DOMAIN pending : \A m \in DOMAIN still : pending[j] \cap still[m] = {}
  BY <1>1 DEF ChangesProper, Apart
<1>6. Proper(Head(pending)) /\ Head(pending) \subseteq Ids
  BY <1>1, <1>2, <1>5
<1>7. \A i : InSome(pending, i) <=> i \in Head(pending) \/ InSome(pending', i)
  BY <1>2, <1>3, <1>4 DEF InSome
<1>8. \A j \in DOMAIN pending' : pending'[j] \cap Head(pending) = {}
  BY <1>2, <1>3, <1>5
<1>9. \A j \in DOMAIN still : still[j] \cap Head(pending) = {}
  BY <1>2, <1>5
<1>10. \A i \in Head(pending) : ~InSome(pending', i) /\ ~InSome(still, i)
  BY <1>8, <1>9 DEF InSome
<1>11. \A j \in DOMAIN pending' : Proper(pending'[j])
  BY <1>3, <1>5
<1>12. \A j \in DOMAIN pending' : \A m \in DOMAIN still : pending'[j] \cap still[m] = {}
  BY <1>3, <1>5
<1>13. ASSUME NEW j \in DOMAIN pending', NEW m \in DOMAIN pending', j # m
       PROVE  pending'[j] \cap pending'[m] = {}
  <2>1. j + 1 # m + 1
    BY <1>1, <1>2, <1>13
  <2> QED
    BY <1>3, <1>5, <2>1
<1>14. \A i \in Head(pending) : Tracked(i) /\ txs[i].stage = stage
  BY <1>6, <1>7 DEF Tracked, Proper
<1> QED
  BY <1>2, <1>6, <1>7, <1>8, <1>9, <1>10, <1>11, <1>12, <1>13, <1>14 DEF Proper

\* Of the pass that the invariant speaks of while changes are resolved.
LEMMA ResolvingIs ==
  ASSUME IInv, pc = "resolve"
  PROVE  /\ stage # "before" /\ DOMAIN reads = {} /\ at = 0 /\ last = height
         /\ \A e \in Earners : height <= tip[e]
BY DEF IInv, Shape, Ended, Before, Reading, Crediting, Passes

LEMMA StillResolving ==
  ASSUME IInv, pc = "resolve", pc' = pc, UNCHANGED <<tip, stage, reads, height, at, last>>
  PROVE  Fresh' /\ Shape' /\ Reads'
<1>1. /\ stage' # "before" /\ DOMAIN reads' = {} /\ at' = 0 /\ last' = height'
      /\ \A e \in Earners : height' <= tip'[e]
  BY ResolvingIs
<1>2. /\ pc' = "resolve" /\ pc' \notin Ended /\ pc' \notin Before /\ pc' \notin Reading
      /\ pc' \notin Crediting /\ pc' # "creditPass" /\ pc' \in Passes
      /\ pc' \notin {"seedBalance", "seedAfter", "verifyAfter", "seedBefore", "converge", "verifyBalance"}
  BY DEF Ended, Before, Reading, Crediting, Passes
<1>3. Fresh'
  BY <1>2 DEF Fresh
<1>4. Shape'
  BY <1>1, <1>2 DEF Shape
<1>5. Reads'
  BY <1>2, NoAnswers
<1> QED
  BY <1>3, <1>4, <1>5

LEMMA ApplyKeeps ==
  ASSUME IInv, Apply
  PROVE  IInv'
<1>1. /\ pc = "resolve" /\ pending # <<>> /\ pending' = Tail(pending) /\ UNCHANGED netVars
      /\ ledger' = Credited(Head(pending))
      /\ successes' = IF stage = "round" THEN successes + 1 ELSE successes
      /\ pc' = pc /\ stage' = stage /\ left' = left /\ todo' = todo /\ color' = color
      /\ still' = still /\ final' = final /\ reads' = reads
      /\ heights' = heights /\ balances' = balances /\ height' = height /\ at' = at /\ last' = last
      /\ alarm' = alarm /\ abandoned' = abandoned /\ Confirmed(Head(pending))
  BY DEF Apply, resolveFrame, ctlVars, sendVars, readVars
<1>2. /\ Head(pending) \subseteq Ids /\ Head(pending) \subseteq DOMAIN txs
      /\ Head(pending) # {} /\ \A i \in Head(pending) : txs[i].stage = stage /\ Tracked(i)
      /\ pending' \in Seq(SUBSET Ids)
      /\ \A i : InSome(pending, i) <=> i \in Head(pending) \/ InSome(pending', i)
      /\ \A i \in Head(pending) : ~InSome(pending', i) /\ ~InSome(still, i)
      /\ \A j \in DOMAIN pending' : Proper(pending'[j])
      /\ \A j \in DOMAIN pending' : \A m \in DOMAIN still : pending'[j] \cap still[m] = {}
      /\ \A j, m \in DOMAIN pending' : j # m => pending'[j] \cap pending'[m] = {}
  BY <1>1, HeadIs
<1>3. /\ NetInv /\ TypeOK /\ ledger \in [Nodes -> [Entries -> 0..2]] /\ CoinbasesBooked
      /\ ChangesBooked /\ ChangesProper /\ Accounted /\ SuccessesAreReal /\ successes \in Nat
      /\ EarnersAlarmIsOfAbandoned /\ Earners \subseteq Nodes
  BY ScriptTypes DEF IInv, TypeOK
<1>4. Advances /\ NetInv' /\ Evolves /\ tip' = tip /\ txs' = txs /\ Top' = Top
  BY <1>1, <1>3, StandsStill DEF Advances, netVars, Top
<1>5. \A i \in Head(pending) : txs[i].height > 0
  <2>1. \A i \in Head(pending) : txs[i].height \in Nat
    BY <1>2, <1>3, NetTypes
  <2>2. \A i \in Head(pending) : txs[i].height \in 1..tip[ChangeSender(Head(pending))]
    BY <1>1 DEF Confirmed, ConfirmedAt
  <2> QED
    BY <2>1, <2>2
<1>6. /\ \A i : Tracked(i)' <=> Tracked(i) /\ i \notin Head(pending)
      /\ \A i \in Head(pending) : ~Tracked(i)'
  BY <1>1, <1>2 DEF Tracked
<1>7. \A n \in Nodes : \A e \in Entries :
        ledger'[n][e] = IF e[1] = "tx" /\ e[2] \in Head(pending) /\ n \in {txs[e[2]].from, txs[e[2]].to}
                        THEN Once(ledger[n][e]) ELSE ledger[n][e]
  BY <1>1 DEF Credited
<1>8. ledger' \in [Nodes -> [Entries -> 0..2]]
  <2>1. \A n \in Nodes : \A e \in Entries : ledger[n][e] \in 0..2 /\ Once(ledger[n][e]) \in 0..2
    BY <1>3 DEF Once
  <2>2. \A n \in Nodes : \A e \in Entries : ledger'[n][e] \in 0..2
    BY <1>7, <2>1
  <2> QED
    BY <1>1, <2>2 DEF Credited
<1>9. SameCoinbases
  <2>1. \A h \in 1..MaxHeight : <<"coinbase", h>> \in Entries /\ <<"coinbase", h>>[1] # "tx"
    BY EntriesAre
  <2> QED
    BY <1>7, <2>1 DEF SameCoinbases
<1>10. \A n \in Nodes : \A i \in Ids :
         ledger'[n][<<"tx", i>>] = IF i \in Head(pending) /\ n \in {txs[i].from, txs[i].to}
                                   THEN Once(ledger[n][<<"tx", i>>]) ELSE ledger[n][<<"tx", i>>]
  <2>1. ASSUME NEW n \in Nodes, NEW i \in Ids
        PROVE  ledger'[n][<<"tx", i>>] = IF i \in Head(pending) /\ n \in {txs[i].from, txs[i].to}
                                         THEN Once(ledger[n][<<"tx", i>>]) ELSE ledger[n][<<"tx", i>>]
    <3>1. PICK e \in Entries : e = <<"tx", i>>
      BY EntriesAre
    <3>2. e[1] = "tx" /\ e[2] = i
      BY <3>1
    <3>3. ledger'[n][e] = IF i \in Head(pending) /\ n \in {txs[i].from, txs[i].to}
                          THEN Once(ledger[n][e]) ELSE ledger[n][e]
      BY <1>7, <3>2
    <3> QED
      BY <3>1, <3>3
  <2> QED
    BY <2>1
<1>11. ASSUME NEW n \in Nodes, NEW i \in Head(pending), n \in {txs[i].from, txs[i].to}
       PROVE  ledger'[n][<<"tx", i>>] = 1
  <2>1. i \in Ids /\ Tracked(i)
    BY <1>2
  <2>2. ledger[n][<<"tx", i>>] = 0
    BY <1>3, <2>1 DEF ChangesBooked
  <2> QED
    BY <1>10, <1>11, <2>1, <2>2 DEF Once
<1>12. CoinbasesBooked'
  <2>1. SameReach
    BY <1>1, <1>4, ReachIs
  <2> QED
    BY <1>1, <1>3, <1>4, <1>9, <2>1, CoinbasesKept
<1>13. ChangesBooked'
  <2>1. ASSUME NEW n \in Nodes, NEW i \in Ids
        PROVE  LET count == ledger'[n][<<"tx", i>>]
               IN  /\ count \in {0, 1}
                   /\ count = 1 => /\ i \in DOMAIN txs' /\ n \in {txs'[i].from, txs'[i].to}
                                   /\ txs'[i].height > 0 /\ ~Tracked(i)'
    <3>1. CASE i \in Head(pending) /\ n \in {txs[i].from, txs[i].to}
      BY <1>2, <1>4, <1>5, <1>6, <1>11, <3>1
    <3>2. CASE ~(i \in Head(pending) /\ n \in {txs[i].from, txs[i].to})
      <4>1. ledger'[n][<<"tx", i>>] = ledger[n][<<"tx", i>>]
        BY <1>10, <3>2
      <4> QED
        BY <1>3, <1>4, <1>6, <4>1 DEF ChangesBooked
    <3> QED
      BY <3>1, <3>2
  <2> QED
    BY <2>1 DEF ChangesBooked
<1>14. ChangesProper'
  <2>1. \A j \in DOMAIN pending' : Proper(pending[j])'
    BY <1>1, <1>2, <1>4 DEF Proper
  <2>2. \A j \in DOMAIN still' : Proper(still[j])'
    BY <1>1, <1>3, <1>4 DEF ChangesProper, Proper
  <2>3. Apart(pending)' /\ Apart(still)'
    BY <1>1, <1>2, <1>3 DEF ChangesProper, Apart
  <2> QED
    BY <1>1, <1>2, <2>1, <2>2, <2>3 DEF ChangesProper
<1>15. Accounted'
  <2>1. ASSUME NEW i \in DOMAIN txs
        PROVE  i \in abandoned' \/ Tracked(i)' \/ Booked(i)'
    <3>1. CASE i \in Head(pending)
      <4>1. \A n \in Earners : n \in {txs'[i].from, txs'[i].to} => ledger'[n][<<"tx", i>>] = 1
        BY <1>3, <1>4, <1>11, <3>1
      <4>2. Booked(i)'
        BY <1>4, <1>5, <3>1, <4>1 DEF Booked
      <4> QED
        BY <4>2
    <3>2. CASE i \notin Head(pending)
      <4>1. i \in abandoned \/ Tracked(i) \/ Booked(i)
        BY <1>1, <1>3, ResolvingIs DEF Accounted
      <4>2. ASSUME Booked(i) PROVE Booked(i)'
        <5>1. i \in Ids
          BY <1>3, NetTypes DEF Ids
        <5> QED
          BY <1>3, <1>4, <1>10, <3>2, <4>2, <5>1 DEF Booked
      <4> QED
        BY <1>1, <1>6, <3>2, <4>1, <4>2
    <3> QED
      BY <3>1, <3>2
  <2> QED
    BY <1>4, <2>1 DEF Accounted
<1>16. SuccessesAreReal'
  <2>1. CASE stage # "round"
    BY <1>1, <1>3, <1>4, <1>6, <2>1, SuccessesKept
  <2>2. CASE stage = "round"
    <3>1. PICK i \in Head(pending) : TRUE
      BY <1>2
    <3>2. Counted \subseteq Counted'
      BY <1>3, <1>4, <1>6, CountedGrows
    <3>3. i \notin Counted /\ i \in Counted'
      BY <1>2, <1>4, <1>5, <1>6, <2>2, <3>1 DEF Counted
    <3>4. IsFiniteSet(Counted) /\ Cardinality(Counted) \in Nat
      BY <1>3, CountedIsFinite
    <3>5. IsFiniteSet(Counted)' /\ (Cardinality(Counted) \in Nat)'
      BY <1>4, CountedIsFinite, PTL
    <3>6. Cardinality(Counted \cup {i}) = Cardinality(Counted) + 1
      BY <3>3, <3>4, FS_AddElement
    <3>7. Cardinality(Counted \cup {i}) <= Cardinality(Counted')
      BY <3>2, <3>3, <3>5, FS_Subset
    <3>8. successes' = successes + 1 /\ successes <= Cardinality(Counted)
      BY <1>1, <1>3, <2>2 DEF SuccessesAreReal
    <3>9. successes' <= Cardinality(Counted')
      BY <1>3, <3>4, <3>5, <3>6, <3>7, <3>8
    <3> QED
      BY <3>9 DEF SuccessesAreReal
  <2> QED
    BY <2>1, <2>2
<1>17. EarnersAlarmIsOfAbandoned'
  BY <1>1, <1>3 DEF EarnersAlarmIsOfAbandoned
<1>18. Books'
  BY <1>12, <1>13, <1>14, <1>15, <1>16, <1>17 DEF Books
<1>19. Fresh' /\ Shape' /\ Reads'
  BY <1>1, <1>4, StillResolving
<1>20. TypeOK'
  <2>1. NetTypeOK' /\ successes' \in Nat
    BY <1>1, <1>3, <1>4 DEF NetInv
  <2> QED
    BY <1>1, <1>2, <1>3, <1>8, <2>1 DEF TypeOK
<1> QED
  BY <1>4, <1>18, <1>19, <1>20, Assembled

LEMMA KeepOrDropKeeps ==
  ASSUME IInv, KeepOrDrop
  PROVE  IInv'
<1>1. /\ pc = "resolve" /\ pending # <<>> /\ pending' = Tail(pending) /\ UNCHANGED netVars
      /\ pc' = pc /\ stage' = stage /\ left' = left /\ todo' = todo /\ color' = color
      /\ final' = final /\ reads' = reads /\ ledger' = ledger /\ successes' = successes
      /\ heights' = heights /\ balances' = balances /\ height' = height /\ at' = at /\ last' = last
      /\ alarm' = alarm
      /\ \/ abandoned' = abandoned \cup Head(pending) /\ still' = still
         \/ still' = Append(still, Head(pending)) /\ abandoned' = abandoned
  BY DEF KeepOrDrop, resolveFrame, ctlVars, sendVars, readVars
<1>2. /\ Head(pending) \subseteq Ids /\ Head(pending) \subseteq DOMAIN txs
      /\ Head(pending) # {} /\ \A i \in Head(pending) : txs[i].stage = stage
      /\ pending' \in Seq(SUBSET Ids)
      /\ \A i : InSome(pending, i) <=> i \in Head(pending) \/ InSome(pending', i)
      /\ \A j \in DOMAIN pending' : Proper(pending'[j])
      /\ \A j \in DOMAIN pending' : pending'[j] \cap Head(pending) = {}
      /\ \A j \in DOMAIN still : still[j] \cap Head(pending) = {}
      /\ \A j \in DOMAIN pending' : \A m \in DOMAIN still : pending'[j] \cap still[m] = {}
      /\ \A j, m \in DOMAIN pending' : j # m => pending'[j] \cap pending'[m] = {}
  BY <1>1, HeadIs
<1>3. /\ NetInv /\ TypeOK /\ CoinbasesBooked
      /\ ChangesBooked /\ ChangesProper /\ Accounted /\ SuccessesAreReal /\ successes \in Nat
      /\ EarnersAlarmIsOfAbandoned /\ stage # "before"
      /\ still \in Seq(SUBSET Ids) /\ Len(still) \in Nat /\ DOMAIN still = 1..Len(still)
      /\ abandoned \subseteq Ids
  BY <1>1, ResolvingIs DEF IInv, TypeOK
<1>4. Advances /\ NetInv' /\ Evolves /\ tip' = tip /\ txs' = txs /\ Top' = Top
  BY <1>1, <1>3, StandsStill DEF Advances, netVars, Top
<1>5. \A c : Proper(c) => Proper(c)'
  BY <1>1, <1>4 DEF Proper
<1>6. SameCoinbases /\ SameChanges
  BY <1>1 DEF SameCoinbases, SameChanges
<1>7. /\ \A i : Tracked(i)' => Tracked(i)
      /\ \A i : i \in abandoned \/ Tracked(i) => i \in abandoned' \/ Tracked(i)'
      /\ ChangesProper' /\ still' \in Seq(SUBSET Ids) /\ abandoned' \subseteq Ids
      /\ abandoned \subseteq abandoned'
  <2>1. CASE abandoned' = abandoned \cup Head(pending) /\ still' = still
    <3>1. /\ \A i : Tracked(i)' => Tracked(i)
          /\ \A i : i \in abandoned \/ Tracked(i) => i \in abandoned' \/ Tracked(i)'
      BY <1>2, <2>1 DEF Tracked
    <3>2. \A j \in DOMAIN pending' : Proper(pending[j])'
      BY <1>1, <1>2, <1>4 DEF Proper
    <3>3. \A j \in DOMAIN still' : Proper(still[j])'
      BY <1>1, <1>3, <1>4, <2>1 DEF ChangesProper, Proper
    <3>4. Apart(pending)' /\ Apart(still)'
      BY <1>2, <1>3, <2>1 DEF ChangesProper, Apart
    <3>5. \A j \in DOMAIN pending' : \A m \in DOMAIN still' : pending'[j] \cap still'[m] = {}
      BY <1>2, <2>1
    <3>6. ChangesProper'
      BY <3>2, <3>3, <3>4, <3>5 DEF ChangesProper
    <3> QED
      BY <1>2, <1>3, <2>1, <3>1, <3>6
  <2>2. CASE still' = Append(still, Head(pending)) /\ abandoned' = abandoned
    <3>1. /\ still' \in Seq(SUBSET Ids) /\ DOMAIN still' = 1..(Len(still) + 1)
          /\ still'[Len(still) + 1] = Head(pending)
          /\ \A j \in DOMAIN still : still'[j] = still[j]
      <4>1. Head(pending) \in SUBSET Ids
        BY <1>2
      <4> HIDE DEF Ids
      <4> QED
        BY <1>3, <2>2, <4>1
    <3>2. /\ Len(still) + 1 \in DOMAIN still'
          /\ \A j \in DOMAIN still : j \in DOMAIN still'
          /\ \A j \in DOMAIN still' : j \in DOMAIN still \/ j = Len(still) + 1
      BY <1>3, <3>1
    <3>3. \A i : InSome(still', i) <=> InSome(still, i) \/ i \in Head(pending)
      BY <3>1, <3>2 DEF InSome
    <3>4. \A i : Tracked(i)' <=> Tracked(i)
      BY <1>2, <3>3 DEF Tracked
    <3>5. \A j \in DOMAIN pending' : Proper(pending[j])'
      BY <1>1, <1>2, <1>4 DEF Proper
    <3>6. ASSUME NEW j \in DOMAIN still'
          PROVE  Proper(still[j])'
      <4>1. CASE j \in DOMAIN still
        BY <1>1, <1>3, <1>4, <3>1, <4>1 DEF ChangesProper, Proper
      <4>2. CASE j = Len(still) + 1
        BY <1>1, <1>2, <1>4, <3>1, <4>2 DEF Proper
      <4> QED
        BY <3>2, <4>1, <4>2
    <3>7. Apart(pending)'
      BY <1>2 DEF Apart
    <3>8. Apart(still)'
      <4>1. \A j, m \in DOMAIN still : j # m => still[j] \cap still[m] = {}
        BY <1>3 DEF ChangesProper, Apart
      <4> QED
        BY <1>2, <3>1, <3>2, <4>1 DEF Apart
    <3>9. \A j \in DOMAIN pending' : \A m \in DOMAIN still' : pending'[j] \cap still'[m] = {}
      BY <1>2, <3>1, <3>2
    <3>10. ChangesProper'
      BY <3>5, <3>6, <3>7, <3>8, <3>9 DEF ChangesProper
    <3> QED
      BY <1>3, <2>2, <3>1, <3>4, <3>10
  <2> QED
    BY <1>1, <2>1, <2>2
<1>8. CoinbasesBooked'
  <2>1. SameReach
    BY <1>1, <1>4, ReachIs
  <2> QED
    BY <1>1, <1>3, <1>4, <1>6, <2>1, CoinbasesKept
<1>9. ChangesBooked'
  BY <1>3, <1>4, <1>6, <1>7, ChangesBookedKept
<1>10. Accounted'
  BY <1>1, <1>3, <1>4, <1>6, <1>7, AccountedKept
<1>11. SuccessesAreReal'
  BY <1>1, <1>3, <1>4, <1>7, SuccessesKept
<1>12. EarnersAlarmIsOfAbandoned'
  BY <1>1, <1>3, <1>7 DEF EarnersAlarmIsOfAbandoned
<1>13. Books'
  BY <1>7, <1>8, <1>9, <1>10, <1>11, <1>12 DEF Books
<1>14. Fresh' /\ Shape' /\ Reads'
  BY <1>1, <1>4, StillResolving
<1>15. TypeOK'
  <2>1. NetTypeOK'
    BY <1>4 DEF NetInv
  <2> QED
    BY <1>1, <1>2, <1>3, <1>7, <2>1 DEF TypeOK
<1> QED
  BY <1>4, <1>13, <1>14, <1>15, Assembled

-----------------------------------------------------------------------------
(* The ends of a pass and of a comparison.                                 *)

\* A step that leaves the ledger alone and forgets no transaction.
LEMMA LedgerUntouched ==
  ASSUME IInv, UNCHANGED <<netVars, ledger, last, at, successes>>,
         \A i : Tracked(i)' => Tracked(i),
         \A i : i \in abandoned \/ Tracked(i) => i \in abandoned' \/ Tracked(i)',
         stage # "before", ChangesProper', EarnersAlarmIsOfAbandoned'
  PROVE  /\ Books' /\ NetInv' /\ NetTypeOK' /\ tip' = tip
         /\ UNCHANGED <<ledger, last, at, successes>>
<1>1. /\ NetInv /\ CoinbasesBooked /\ ChangesBooked /\ Accounted /\ SuccessesAreReal
      /\ successes \in Nat
  BY DEF IInv, TypeOK
<1>2. UNCHANGED netVars /\ ledger' = ledger /\ last' = last /\ at' = at /\ successes' = successes
  OBVIOUS
<1>3. /\ Advances /\ NetInv' /\ NetTypeOK' /\ Evolves
      /\ tip' = tip /\ txs' = txs /\ Top' = Top
  BY <1>1, <1>2, StandsStill DEF Advances, NetInv, netVars, Top
<1>4. SameCoinbases /\ SameChanges
  BY <1>2 DEF SameCoinbases, SameChanges
<1>5. SameReach
  BY <1>2, <1>3, ReachIs
<1>6. CoinbasesBooked'
  BY <1>1, <1>3, <1>4, <1>5, CoinbasesKept
<1>7. ChangesBooked'
  BY <1>1, <1>3, <1>4, ChangesBookedKept
<1>8. Accounted'
  BY <1>1, <1>3, <1>4, AccountedKept
<1>9. SuccessesAreReal'
  BY <1>1, <1>2, <1>3, SuccessesKept
<1> QED
  BY <1>2, <1>3, <1>6, <1>7, <1>8, <1>9 DEF Books

LEMMA ResolvedKeeps ==
  ASSUME IInv, Resolved
  PROVE  IInv'
<1>1. /\ pc = "resolve" /\ pending = <<>> /\ pending' = still /\ still' = <<>>
      /\ UNCHANGED netVars /\ color' = color /\ reads' = reads /\ heights' = heights
      /\ balances' = balances /\ at' = at /\ ledger' = ledger /\ last' = last
      /\ successes' = successes /\ alarm' = alarm /\ abandoned' = abandoned
  BY DEF Resolved, bookVars, verdictVars
<1>2. /\ TypeOK /\ ChangesProper /\ EarnersAlarmIsOfAbandoned
      /\ stage # "before" /\ DOMAIN reads = {} /\ at = 0 /\ last = height
      /\ \A e \in Earners : height <= tip[e]
  BY <1>1, ResolvingIs DEF IInv
<1>3. /\ pc' \in {"next", "send", "finish", "wait", "verify"}
      /\ pc' = "verify" => height' = height /\ stage' = stage
      /\ pc' # "verify" => height' = 0
      /\ final' \in BOOLEAN /\ stage' \in {"fund", "issue", "round"}
      /\ left' \in Nat /\ todo' \subseteq Calls
      /\ stage' = stage \/ still = <<>>
  <2>1. /\ stage \in {"fund", "issue", "round"} /\ left \in Nat /\ final \in BOOLEAN
        /\ todo \subseteq Calls
    BY <1>2 DEF TypeOK
  <2>2. CASE stage = "round" /\ ~final
    <3>1. /\ pc' = "verify" /\ stage' = stage /\ left' = left /\ todo' = todo
          /\ final' = final /\ height' = height
      BY <2>2 DEF Resolved
    <3> QED
      BY <2>1, <3>1
  <2>3. CASE ~(stage = "round" /\ ~final) /\ still = <<>>
    <3>1. height' = 0 /\ Settled
      BY <2>3 DEF Resolved
    <3>2. /\ pc' \in {"next", "send", "finish"} /\ final' = FALSE
          /\ stage' \in {"fund", "issue", "round"} /\ left' \in Nat /\ todo' \subseteq Calls
      BY <1>2, <3>1, SettledIs
    <3> QED
      BY <2>3, <3>1, <3>2
  <2>4. CASE ~(stage = "round" /\ ~final) /\ still # <<>>
    <3>1. /\ height' = 0 /\ pc' = "wait" /\ stage' = stage /\ left' = left /\ todo' = todo
          /\ final' = final
      BY <2>4 DEF Resolved
    <3> QED
      BY <2>1, <3>1
  <2> QED
    BY <2>2, <2>3, <2>4
<1>4. \A i : Tracked(i)' <=> Tracked(i)
  BY <1>1 DEF Tracked, InSome
<1>5. ChangesProper'
  <2>1. txs' = txs /\ DOMAIN still' = {}
    BY <1>1 DEF netVars
  <2>2. CASE stage' = stage
    <3>1. \A k \in DOMAIN still : Proper(still[k])
      BY <1>2 DEF ChangesProper
    <3>2. \A k \in DOMAIN pending' : Proper(pending[k])'
      BY <1>1, <2>1, <2>2, <3>1 DEF Proper
    <3> QED
      BY <1>1, <1>2, <2>1, <3>2 DEF ChangesProper, Apart
  <2>3. CASE still = <<>>
    <3>1. DOMAIN pending' = {}
      BY <1>1, <2>3
    <3> QED
      BY <2>1, <3>1 DEF ChangesProper, Apart
  <2> QED
    BY <1>3, <2>2, <2>3
<1>6. EarnersAlarmIsOfAbandoned'
  BY <1>1, <1>2 DEF EarnersAlarmIsOfAbandoned
<1>7. /\ Books' /\ NetInv' /\ NetTypeOK' /\ tip' = tip
  BY <1>1, <1>2, <1>4, <1>5, <1>6, LedgerUntouched
<1>8. Fresh' /\ Shape' /\ Reads' /\ pc' \in PausedAt \cup Unpaused \cup Ended
  <2>1. CASE pc' = "verify"
    <3>1. /\ pc' \in Unpaused /\ pc' \in Passes /\ pc' # "creditPass" /\ pc' # "resolve"
          /\ pc' \notin Ended \cup Before \cup Crediting \cup Reading
          /\ pc' \notin {"seedBalance", "seedAfter", "verifyAfter", "seedBefore", "converge",
                         "verifyBalance"}
      BY <2>1 DEF Unpaused, Passes, Ended, Before, Crediting, Reading
    <3>2. /\ stage' # "before" /\ still' = <<>> /\ DOMAIN reads' = {} /\ at' = 0
          /\ last' = height' /\ \A e \in Earners : height' <= tip'[e]
      BY <1>1, <1>2, <1>3, <1>7, <2>1
    <3>3. Fresh'
      BY <3>1 DEF Fresh
    <3>4. Shape'
      BY <3>1, <3>2 DEF Shape
    <3>5. Reads'
      BY <3>1, NoAnswers
    <3> QED
      BY <3>1, <3>3, <3>4, <3>5
  <2>2. CASE pc' # "verify"
    <3>1. /\ pc' \in {"next", "send", "finish", "wait", "converge"} /\ DOMAIN reads' = {}
          /\ still' = <<>> /\ at' = 0 /\ stage' # "before"
      BY <1>1, <1>2, <1>3, <2>2
    <3> QED
      BY <3>1, OpenAwait
  <2> QED
    BY <2>1, <2>2
<1>9. TypeOK'
  <2>1. height' \in 0..MaxHeight + 1
    <3>1. height \in 0..MaxHeight + 1 /\ 0 \in 0..MaxHeight + 1
      BY <1>2, ConstantsAreSets DEF TypeOK
    <3> QED
      BY <1>3, <3>1
  <2>2. still' \in Seq(SUBSET Ids)
    BY <1>1
  <2> QED
    BY <1>1, <1>2, <1>3, <1>7, <1>8, <2>1, <2>2 DEF TypeOK
<1> QED
  BY <1>7, <1>8, <1>9, Assembled

\* Nothing is open any more but what is pending, and the pass had its credits.
LEMMA ComparedIs ==
  ASSUME IInv, Compared
  PROVE  /\ pc = "verifyAfter" /\ AllRead /\ UNCHANGED netVars
         /\ reads' = <<>> /\ balances' = <<>> /\ height' = 0 /\ color' = color
         /\ still' = still /\ heights' = heights /\ at' = at
         /\ ledger' = ledger /\ last' = last /\ successes' = successes
         /\ TypeOK /\ stage # "before" /\ still = <<>> /\ at = 0 /\ last = height
         /\ stage \in {"fund", "issue", "round"}
BY DEF Compared, bookVars, IInv, Shape, TypeOK, Ended, Before, Crediting, Passes

LEMMA ComparedTypes ==
  ASSUME IInv, Compared, NetTypeOK', pc' \in PausedAt \cup Unpaused \cup Ended,
         final' \in BOOLEAN, stage' \in {"before", "fund", "issue", "round"},
         left' \in Nat, todo' \subseteq Calls, pending' \in Seq(SUBSET Ids),
         alarm' \subseteq Nodes \X Entries, abandoned' \subseteq Ids
  PROVE  TypeOK'
<1>1. /\ TypeOK /\ reads' = <<>> /\ balances' = <<>> /\ height' = 0 /\ color' = color
      /\ still' = still /\ heights' = heights /\ at' = at
      /\ ledger' = ledger /\ last' = last /\ successes' = successes
  BY ComparedIs
<1>2. DOMAIN reads' = {} /\ DOMAIN balances' = {} /\ height' \in 0..MaxHeight + 1
  BY <1>1, ConstantsAreSets
<1> QED
  BY <1>1, <1>2 DEF TypeOK

LEMMA PendingAre ==
  ASSUME TypeOK
  PROVE  /\ \A i : i \in UNION Range(pending) <=> InSome(pending, i)
         /\ UNION Range(pending) \subseteq Ids
<1>1. Range(pending) = {pending[k] : k \in DOMAIN pending}
  BY DEF Range
<1>2. pending \in Seq(SUBSET Ids)
  BY DEF TypeOK
<1>3. \A k \in DOMAIN pending : pending[k] \in SUBSET Ids
  <2> HIDE DEF Ids
  <2> QED
    BY <1>2
<1> QED
  BY <1>1, <1>3 DEF InSome

LEMMA MatchesKeeps ==
  ASSUME IInv, Matches
  PROVE  IInv'
<1>1. /\ Compared /\ abandoned' = abandoned \cup UNION Range(pending)
      /\ pending' = <<>> /\ Settled /\ alarm' = alarm
  BY DEF Matches
<1>2. /\ UNCHANGED netVars /\ reads' = <<>> /\ still' = still /\ at' = at
      /\ ledger' = ledger /\ last' = last /\ successes' = successes
      /\ TypeOK /\ stage # "before" /\ still = <<>> /\ at = 0
  BY <1>1, ComparedIs
<1>3. /\ pc' \in {"next", "send", "finish"} /\ final' = FALSE
      /\ stage' \in {"fund", "issue", "round"} /\ left' \in Nat /\ todo' \subseteq Calls
  BY <1>1, <1>2, SettledIs
<1>4. /\ \A i : i \in UNION Range(pending) <=> InSome(pending, i)
      /\ UNION Range(pending) \subseteq Ids
  BY <1>2, PendingAre
<1>5. /\ \A i : ~Tracked(i)' /\ ~InSome(still, i)
      /\ DOMAIN pending' = {} /\ DOMAIN still' = {}
  BY <1>1, <1>2 DEF Tracked, InSome
<1>6. \A i : i \in abandoned \/ Tracked(i) => i \in abandoned' \/ Tracked(i)'
  BY <1>1, <1>4, <1>5 DEF Tracked
<1>7. ChangesProper'
  BY <1>5 DEF ChangesProper, Apart
<1>8. EarnersAlarmIsOfAbandoned'
  BY <1>1 DEF IInv, EarnersAlarmIsOfAbandoned
<1>9. Books' /\ NetInv' /\ NetTypeOK'
  BY <1>2, <1>5, <1>6, <1>7, <1>8, LedgerUntouched
<1>10. Fresh' /\ Shape' /\ Reads' /\ pc' \in PausedAt \cup Unpaused \cup Ended
  <2>1. DOMAIN reads' = {} /\ still' = <<>> /\ at' = 0 /\ stage' # "before"
    BY <1>2, <1>3
  <2> QED
    BY <1>3, <2>1, OpenAwait
<1>11. TypeOK'
  <2>1. /\ pending' \in Seq(SUBSET Ids) /\ alarm' \subseteq Nodes \X Entries
        /\ abandoned' \subseteq Ids
    BY <1>1, <1>2, <1>4 DEF TypeOK
  <2> QED
    BY <1>1, <1>3, <1>9, <1>10, <2>1, ComparedTypes
<1> QED
  BY <1>9, <1>10, <1>11, Assembled

\* At an unmoved height the wallet of an earner differs from the ledger only
\* by transactions that no booking stands for.
LEMMA EarnersDifference ==
  ASSUME IInv, pc = "verifyAfter", Unmoved, NEW d \in Differences, d[1] \in Earners
  PROVE  d[2][1] = "tx" /\ d[2][2] \in abandoned \cup UNION Range(pending)
<1>1. /\ NetInv /\ TypeOK /\ CoinbasesBooked /\ ChangesBooked /\ Accounted
      /\ stage # "before" /\ still = <<>> /\ at = 0 /\ last = height
  BY DEF IInv, Shape, Ended, Before, Crediting, Passes
<1>2. PICK n \in Earners : n = d[1]
  OBVIOUS
<1>3. PICK e \in Entries : e = d[2]
  BY DEF Differences
<1>4. ledger[n][e] # (IF e \in balances[n] THEN 1 ELSE 0) /\ n \in Nodes
  BY <1>2, <1>3 DEF Differences
<1>5. PICK u \in height..tip[n] : BalanceAt(balances[n], n, u) /\ Answer(n, u, HeightsOfBooked)
  BY DEF IInv, PassReads
<1>6. /\ height \in Nat /\ tip[n] \in Nat /\ tip[n] <= Top /\ Top \in Nat /\ MaxHeight \in Nat
      /\ Top <= MaxHeight /\ MaxTx \in Nat
  BY ScriptTypes
<1>7. reads[n] = {height} /\ n \in DOMAIN reads
  BY <1>4 DEF Unmoved, AllRead
<1>8. PICK x \in u..tip[n] :
        reads[n] = {x} /\ \A h \in HeightsOfBooked : earner[h] = n => h <= x
  BY <1>5, <1>7 DEF Answer
<1>9. x = height /\ u = height
  <2>1. x = height
    BY <1>7, <1>8
  <2> QED
    BY <1>5, <1>6, <1>8, <2>1
<1>10. e \in balances[n] <=> HasAt(n, height, e)
  BY <1>5, <1>9 DEF BalanceAt
<1>11. CASE \E h \in 1..MaxHeight : e = <<"coinbase", h>>
  <2>1. PICK h \in 1..MaxHeight : e = <<"coinbase", h>>
    BY <1>11
  <2>2. HasAt(n, height, e) <=> h <= height /\ earner[h] = n
    BY <2>1 DEF HasAt
  <2>3. Reached(h) <=> h <= height
    BY <1>1 DEF Reached
  <2>4. ledger[n][e] \in {0, 1} /\ (ledger[n][e] = 1 => earner[h] = n /\ Reached(h))
    BY <1>1, <1>4, <2>1 DEF CoinbasesBooked
  <2>5. ASSUME h <= height, earner[h] = n
        PROVE  ledger[n][e] = 1
    <3>1. h \in 1..Top
      BY <1>5, <1>6, <2>5
    <3> QED
      BY <1>1, <2>1, <2>3, <2>5, <3>1 DEF CoinbasesBooked
  <2> QED
    BY <1>4, <1>10, <2>2, <2>3, <2>4, <2>5
<1>12. CASE \E i \in Ids : e = <<"tx", i>>
  <2>1. PICK i \in Ids : e = <<"tx", i>>
    BY <1>12
  <2>2. /\ HasAt(n, height, e) <=>
              /\ i \in DOMAIN txs
              /\ txs[i].from = n \/ (txs[i].to = n /\ txs[i].height \in 1..height)
        /\ e[1] = "tx" /\ e[2] = i
    BY <2>1 DEF HasAt
  <2>3. ledger[n][e] \in {0, 1} /\ (ledger[n][e] = 1 => i \in DOMAIN txs /\ n \in {txs[i].from, txs[i].to})
    BY <1>1, <1>4, <2>1 DEF ChangesBooked
  <2>4. SUFFICES ASSUME i \notin abandoned, ~InSome(pending, i)
                 PROVE  FALSE
    BY <1>1, <1>3, <2>2, PendingAre
  <2>5. ~Tracked(i)
    BY <1>1, <2>4 DEF Tracked, InSome
  <2>6. CASE i \notin DOMAIN txs
    BY <1>4, <1>10, <2>2, <2>3, <2>6
  <2>7. CASE i \in DOMAIN txs
    <3>1. Booked(i)
      BY <1>1, <2>4, <2>5, <2>7 DEF Accounted
    <3>2. txs[i].height > 0 /\ (n \in {txs[i].from, txs[i].to} => ledger[n][e] = 1)
      BY <2>1, <3>1 DEF Booked
    <3>3. txs[i].height \in HeightsOfBooked
      BY <2>4, <2>5, <2>7 DEF HeightsOfBooked
    <3>4. txs[i].height \in Nat /\ txs[i].height <= Top
      BY <1>1, <2>7, NetTypes
    <3>5. ledger[n][e] = 1 <=> n \in {txs[i].from, txs[i].to}
      BY <2>3, <3>2
    <3>6. SUFFICES ASSUME txs[i].to = n, txs[i].from # n
                   PROVE  txs[i].height \in 1..height
      BY <1>4, <1>10, <2>2, <2>3, <2>7, <3>5
    <3>7. PICK h \in 1..Top : h = txs[i].height
      BY <1>6, <3>2, <3>4
    <3>8. PICK m \in Earners : m = earner[h]
      BY <1>1, NetTypes
    <3>9. /\ \E t \in height..tip[m] : Answer(m, t, HeightsOfBooked)
          /\ m \in Nodes
      BY <1>5, <3>8, ScriptTypes DEF IInv, PassReads
    <3>10. PICK t \in height..tip[m] : Answer(m, t, HeightsOfBooked)
      BY <3>9
    <3>11. reads[m] = {height} /\ m \in DOMAIN reads
      BY <3>9 DEF Unmoved, AllRead
    <3>12. PICK y \in t..tip[m] :
             reads[m] = {y} /\ \A k \in HeightsOfBooked : earner[k] = m => k <= y
      BY <3>10, <3>11 DEF Answer
    <3>13. y = height /\ h <= y
      BY <3>3, <3>7, <3>8, <3>11, <3>12
    <3> QED
      BY <1>6, <3>7, <3>13
  <2> QED
    BY <2>6, <2>7
<1> QED
  BY <1>11, <1>12, EntriesAre

LEMMA MismatchesKeeps ==
  ASSUME IInv, Mismatches
  PROVE  IInv'
<1>1. /\ Compared /\ Unmoved /\ abandoned' = abandoned \cup UNION Range(pending)
      /\ pending' = pending /\ alarm' = alarm \cup Differences
      /\ IF pending = <<>> THEN Settled
         ELSE pc' = "converge" /\ final' = TRUE /\ UNCHANGED <<stage, left, todo>>
  BY DEF Mismatches
<1>2. /\ UNCHANGED netVars /\ reads' = <<>> /\ still' = still /\ at' = at
      /\ ledger' = ledger /\ last' = last /\ successes' = successes
      /\ TypeOK /\ stage # "before" /\ still = <<>> /\ at = 0 /\ pc = "verifyAfter"
      /\ stage \in {"fund", "issue", "round"}
  BY <1>1, ComparedIs
<1>3. /\ pc' \in {"next", "send", "finish", "converge"} /\ final' \in BOOLEAN
      /\ stage' \in {"fund", "issue", "round"} /\ left' \in Nat /\ todo' \subseteq Calls
      /\ stage' = stage \/ pending = <<>>
  <2>1. CASE pending = <<>>
    BY <1>1, <1>2, <2>1, SettledIs
  <2>2. CASE pending # <<>>
    BY <1>1, <1>2, <2>2 DEF TypeOK
  <2> QED
    BY <2>1, <2>2
<1>4. /\ \A i : i \in UNION Range(pending) <=> InSome(pending, i)
      /\ UNION Range(pending) \subseteq Ids
  BY <1>2, PendingAre
<1>5. \A i : Tracked(i)' <=> Tracked(i)
  BY <1>1, <1>2 DEF Tracked, InSome
<1>6. \A i : i \in abandoned \/ Tracked(i) => i \in abandoned' \/ Tracked(i)'
  BY <1>1, <1>5
<1>7. ChangesProper'
  <2>1. Evolves
    BY <1>2, StandsStill DEF IInv, Advances
  <2>2. stage' = stage \/ (pending = <<>> /\ still = <<>>)
    BY <1>2, <1>3
  <2> QED
    BY <1>1, <1>2, <2>1, <2>2, ChangesProperKept DEF IInv
<1>8. EarnersAlarmIsOfAbandoned'
  <2>1. ASSUME NEW d \in alarm', d[1] \in Earners
        PROVE  d[2][1] = "tx" /\ d[2][2] \in abandoned'
    <3>1. CASE d \in alarm
      BY <1>1, <2>1, <3>1 DEF IInv, EarnersAlarmIsOfAbandoned
    <3>2. CASE d \in Differences
      BY <1>1, <1>2, <2>1, <3>2, EarnersDifference
    <3> QED
      BY <1>1, <3>1, <3>2
  <2> QED
    BY <2>1 DEF EarnersAlarmIsOfAbandoned
<1>9. Books' /\ NetInv' /\ NetTypeOK'
  BY <1>2, <1>5, <1>6, <1>7, <1>8, LedgerUntouched
<1>10. Fresh' /\ Shape' /\ Reads' /\ pc' \in PausedAt \cup Unpaused \cup Ended
  <2>1. DOMAIN reads' = {} /\ still' = <<>> /\ at' = 0 /\ stage' # "before"
    BY <1>2, <1>3
  <2> QED
    BY <1>3, <2>1, OpenAwait
<1>11. TypeOK'
  <2>1. /\ pending' \in Seq(SUBSET Ids) /\ alarm' \subseteq Nodes \X Entries
        /\ abandoned' \subseteq Ids
    BY <1>1, <1>2, <1>4 DEF TypeOK, Differences
  <2>2. stage' \in {"before", "fund", "issue", "round"}
    BY <1>3
  <2> QED
    BY <1>1, <1>3, <1>9, <1>10, <2>1, <2>2, ComparedTypes
<1> QED
  BY <1>9, <1>10, <1>11, Assembled

LEMMA StutterKeeps ==
  ASSUME IInv, UNCHANGED vars
  PROVE  IInv'
<1>1. /\ earner' = earner /\ tip' = tip /\ chaos' = chaos /\ txs' = txs
      /\ pc' = pc /\ stage' = stage /\ left' = left /\ todo' = todo /\ color' = color
      /\ pending' = pending /\ still' = still /\ final' = final /\ reads' = reads
      /\ heights' = heights /\ balances' = balances /\ height' = height /\ at' = at
      /\ ledger' = ledger /\ last' = last /\ successes' = successes
      /\ alarm' = alarm /\ abandoned' = abandoned
  BY DEF vars, netVars, scriptVars, ctlVars, sendVars, changeVars, readVars, bookVars, verdictVars
<1>2. NetInv'
  BY <1>1 DEF IInv, NetInv, NetTypeOK, Top
<1>3. Quiet
  <2>1. Advances
    BY <1>1, StandsStill DEF IInv, netVars
  <2>2. SameReach
    BY <1>1, ReachIs DEF Top
  <2> QED
    BY <1>1, <2>1, <2>2 DEF Quiet
<1>4. TypeOK'
  <2>1. /\ pc \in PausedAt \cup Unpaused \cup Ended /\ DOMAIN reads \subseteq Nodes
        /\ DOMAIN heights \in {{}, Nodes} /\ DOMAIN balances \in {{}, Nodes}
        /\ height \in 0..MaxHeight + 1 /\ at \in 0..MaxHeight + 1 /\ final \in BOOLEAN
    BY DEF IInv, TypeOK
  <2> QED
    BY <1>1, <1>3, <2>1, QuietKeepsTypes
<1>5. Fresh'
  BY <1>1, <1>3, QuietKeepsFresh
<1>6. Books'
  BY <1>3, QuietKeepsBooks
<1>7. Shape'
  BY <1>1 DEF IInv, Shape
<1>8. \A i : Tracked(i)' <=> Tracked(i)
  BY <1>1 DEF Tracked, InSome
<1>9. HeightsOfBooked' = HeightsOfBooked /\ HeightsKnown' = HeightsKnown
  BY <1>1, <1>8 DEF HeightsOfBooked, HeightsKnown
<1>10. \A e, t, S : Answer(e, t, S)' <=> Answer(e, t, S)
  BY <1>1 DEF Answer
<1>11. /\ \A b, e, t : BalanceAt(b, e, t)' <=> BalanceAt(b, e, t)
       /\ \A b, e : OwnEntries(b, e)' <=> OwnEntries(b, e)
  BY <1>1 DEF BalanceAt, HasAt, OwnEntries, Top
<1>12. SeedReads'
  BY <1>1, <1>9, <1>10, <1>11 DEF IInv, SeedReads, Top, Answer, BalanceAt, OwnEntries, HasAt
<1>13. PassReads'
  BY <1>1, <1>9, <1>10, <1>11 DEF IInv, PassReads, Answer, BalanceAt, HasAt
<1> QED
  BY <1>2, <1>4, <1>5, <1>6, <1>7, <1>12, <1>13, Assembled DEF Reads

LEMMA StepKeeps ==
  ASSUME IInv, [Next]_vars
  PROVE  IInv'
<1>1. CASE Setup
  BY <1>1, HopsKeep, KeptAnswersKeep, SeedLedgerKeeps DEF Setup
<1>2. CASE Blocks
  BY <1>2, HopsKeep, CurrentHeightKeeps, CreditCoinbaseKeeps, BlockCreditedKeeps DEF Blocks
<1>3. CASE Sends
  <2>1. ASSUME NEW call \in todo, pc = "send",
               Send(call) \/ Issue(call) \/ IssueFailsAfterSeed(call)
        PROVE  IInv'
    BY <2>1, SendsKeep
  <2> QED
    BY <1>3, <2>1, SendsMadeKeeps DEF Sends
<1>4. CASE Pass
  BY <1>4, HopsKeep, ConvergedKeeps, PassCreditedKeeps, PassHopsKeep, ResendKeeps, ApplyKeeps,
     KeepOrDropKeeps, ResolvedKeeps DEF Pass
<1>5. CASE Verify
  BY <1>5, HopsKeep, PassHopsKeep, MatchesKeeps, MismatchesKeeps, EndingKeeps DEF Verify
<1>6. CASE Raises
  BY <1>6, EndingKeeps
<1>7. ASSUME NEW n \in Nodes, ReadHeight(n) \/ ReadBalance(n) \/ SenderSynced(n)
      PROVE  IInv'
  BY <1>7, ReadingKeeps, PassHopsKeep
<1>8. CASE Environment
  BY <1>8, EnvironmentKeeps
<1>9. CASE UNCHANGED vars
  BY <1>9, StutterKeeps
<1> QED
  BY <1>1, <1>2, <1>3, <1>4, <1>5, <1>6, <1>7, <1>8, <1>9 DEF Next, Script

-----------------------------------------------------------------------------
(* What the invariant gives.                                               *)

LEMMA InvariantIsInductive == Spec => []IInv
<1>1. Init => IInv
  BY Initially
<1>2. IInv /\ [Next]_vars => IInv'
  BY StepKeeps
<1> QED
  BY <1>1, <1>2, PTL DEF Spec

LEMMA InvariantImplies ==
  ASSUME IInv
  PROVE  /\ OnlyConfirmed /\ CreditedOnce /\ CreditedToHeight /\ CoinbasesAreKnown
<1>1. /\ CoinbasesBooked /\ ChangesBooked /\ Shape /\ NetInv
  BY DEF IInv
<1>2. ASSUME NEW n \in Nodes, NEW e \in Entries
      PROVE  /\ ledger[n][e] <= 1
             /\ ledger[n][e] > 0 =>
                  IF e[1] = "coinbase" THEN e[2] <= Top ELSE txs[e[2]].height > 0
  <2>1. CASE \E h \in 1..MaxHeight : e = <<"coinbase", h>>
    <3>1. PICK h \in 1..MaxHeight : e = <<"coinbase", h>>
      BY <2>1
    <3>2. ledger[n][e] \in {0, 1} /\ (ledger[n][e] = 1 => h <= Top)
      BY <1>1, <3>1 DEF CoinbasesBooked
    <3> QED
      BY <3>1, <3>2
  <2>2. CASE \E i \in Ids : e = <<"tx", i>>
    <3>1. PICK i \in Ids : e = <<"tx", i>>
      BY <2>2
    <3>2. ledger[n][e] \in {0, 1} /\ (ledger[n][e] = 1 => txs[i].height > 0)
      BY <1>1, <3>1 DEF ChangesBooked
    <3> QED
      BY <3>1, <3>2
  <2> QED
    BY <2>1, <2>2, EntriesAre
<1>3. /\ Top \in Nat /\ last \in Nat /\ height \in Nat /\ at \in Nat /\ Probe \in Earners
      /\ \A e \in Earners : tip[e] \in Nat /\ tip[e] <= Top
      /\ \A h \in 1..Top : earner[h] \in Earners
  BY <1>1, ScriptTypes, NetTypes
<1>4. CreditedToHeight
  <2>1. ASSUME pc \in Passes
        PROVE  /\ last = height
               /\ \A h \in 1..height : ledger[earner[h]][<<"coinbase", h>>] = 1
    <3>1. /\ stage # "before" /\ last = height /\ height <= tip[Probe]
      BY <1>1, <1>3, <2>1 DEF Shape, Passes, Ended, Before
    <3>2. ASSUME NEW h \in 1..height
          PROVE  h \in 1..Top /\ Reached(h)
      BY <1>3, <3>1 DEF Reached
    <3> QED
      BY <1>1, <3>1, <3>2 DEF CoinbasesBooked
  <2> QED
    BY <2>1 DEF CreditedToHeight, Passes
<1>5. CoinbasesAreKnown
  <2>1. ASSUME pc \in Crediting, NEW h \in at..height
        PROVE  CoinbaseKnown(h)
    <3>1. last < at /\ \A e \in Earners : height <= tip[e]
      BY <1>1, <2>1 DEF Shape
    <3>2. h \in 1..Top /\ h <= tip[Probe]
      BY <1>3, <3>1
    <3>3. h <= tip[earner[h]]
      BY <1>3, <3>1, <3>2
    <3> QED
      BY <1>3, <3>2, <3>3 DEF CoinbaseKnown
  <2> QED
    BY <2>1 DEF CoinbasesAreKnown
<1> QED
  BY <1>2, <1>4, <1>5 DEF OnlyConfirmed, CreditedOnce

\* Type correctness of the script's variables, its lists of changes, the
\* answers it keeps, the chain and the wallets.
THEOREM TypesOfLedger == Spec => []TypeOK
<1>1. IInv => TypeOK
  BY DEF IInv
<1> QED
  BY <1>1, InvariantIsInductive, PTL

\* self._ledger takes a broadcast into account only when a block holds it, and
\* a coinbase only when its block exists: _resolve_pending_changes and
\* _credit_coinbase_up_to never run ahead of the chain.
THEOREM LedgerIsConfirmed == Spec => []OnlyConfirmed
<1>1. IInv => OnlyConfirmed
  BY InvariantImplies
<1> QED
  BY <1>1, InvariantIsInductive, PTL

\* No coinbase that the seeded snapshot holds is credited again, none for a
\* second time after a rewind, and no change in two passes: the seeded height
\* is above whatever a balance of the snapshot has seen, and the change leaves
\* the list when it is booked.
THEOREM LedgerCountsOnce == Spec => []CreditedOnce
<1>1. IInv => CreditedOnce
  BY InvariantImplies
<1> QED
  BY <1>1, InvariantIsInductive, PTL

\* From the credits of a pass to the end of its comparison every coinbase up
\* to the compared height is booked at its earner, and none above it.
THEOREM LedgerIsAtHeight == Spec => []CreditedToHeight
<1>1. IInv => CreditedToHeight
  BY InvariantImplies
<1> QED
  BY <1>1, InvariantIsInductive, PTL

\* A height is credited only when core-1a has all of its blocks and every
\* earner its own: getblockhash and gettransaction of the credits do not fail.
THEOREM CreditsAreAnswered == Spec => []CoinbasesAreKnown
<1>1. IInv => CoinbasesAreKnown
  BY InvariantImplies
<1> QED
  BY <1>1, InvariantIsInductive, PTL

\* A mismatch that is recorded at a node without chaos comes from a transaction
\* that no change stood for: blocks between the reads, lagging and rewound
\* nodes, lost mempools and late confirmations never make one there.
THEOREM EarnersMismatchIsExplained == Spec => []EarnersAlarmIsOfAbandoned
<1>1. IInv => EarnersAlarmIsOfAbandoned
  BY DEF IInv
<1> QED
  BY <1>1, InvariantIsInductive, PTL

\* The verdict of main().
Verdict == pc = "passed" => ~(successes < MinRequired)

LEMMA VerdictKeeps ==
  ASSUME Verdict, [Next]_vars
  PROVE  Verdict'
<1>1. SUFFICES ASSUME pc' = "passed"
               PROVE  ~(successes' < MinRequired)
  BY DEF Verdict, MinRequired
<1>2. CASE UNCHANGED vars
  BY <1>1, <1>2 DEF Verdict, vars, scriptVars, ctlVars, bookVars
<1>3. CASE Environment
  BY <1>1, <1>3 DEF Environment, scriptVars, ctlVars, Ended
<1>4. CASE Setup
  BY <1>1, <1>4 DEF Setup, WaitForEmptyMempool, SeedPauses, HeightsBefore, SeedBalances,
     SeedAgain, SeedLedger, Goto
<1>5. CASE Blocks
  <2>1. CASE CreditCoinbase
    BY <1>1, <2>1 DEF CreditCoinbase, ctlVars, Crediting
  <2>2. CASE BlockCredited
    BY <1>1, <2>2 DEF BlockCredited
  <2> QED
    BY <1>1, <1>5, <2>1, <2>2 DEF Blocks, WaitForNextBlock, NextBlockSeen, CurrentHeight, Goto
<1>6. ASSUME Settled
      PROVE  FALSE
  BY <1>1, <1>6 DEF Settled
<1>7. CASE Sends
  <2>1. ASSUME NEW call \in todo, pc = "send",
               Send(call) \/ Issue(call) \/ IssueFailsAfterSeed(call)
        PROVE  FALSE
    <3>1. pc' = pc
      BY <2>1 DEF Send, Issue, IssueFailsAfterSeed, sendFrame, ctlVars
    <3> QED
      BY <1>1, <2>1, <3>1
  <2>2. CASE SendsMade
    BY <1>1, <1>6, <2>2 DEF SendsMade
  <2> QED
    BY <1>7, <2>1, <2>2 DEF Sends
<1>8. CASE Pass
  <2>1. CASE Converged \/ ConvergePoll \/ SendersSynced \/ ResendWalletTransactions
    BY <1>1, <2>1 DEF Converged, ConvergePoll, SendersSynced, ResendWalletTransactions, Goto
  <2>2. CASE PassCredited
    BY <1>1, <2>2 DEF PassCredited, AfterCredit
  <2>3. CASE Apply \/ KeepOrDrop
    BY <1>1, <2>3 DEF Apply, KeepOrDrop, resolveFrame, ctlVars
  <2>4. CASE Resolved
    BY <1>1, <1>6, <2>4 DEF Resolved
  <2> QED
    BY <1>8, <2>1, <2>2, <2>3, <2>4 DEF Pass
<1>9. CASE Verify
  <2>1. CASE VerifyPauses \/ VerifyBalances
    BY <1>1, <2>1 DEF VerifyPauses, VerifyBalances, Goto
  <2>2. CASE Moved \/ WaitsForPending
    BY <1>1, <2>2 DEF Moved, WaitsForPending
  <2>3. CASE Matches \/ Mismatches
    BY <1>1, <1>6, <2>3 DEF Matches, Mismatches
  <2>4. CASE Finish
    BY <1>1, <2>4 DEF Finish, bookVars
  <2> QED
    BY <1>9, <2>1, <2>2, <2>3, <2>4 DEF Verify
<1>10. CASE Raises
  BY <1>1, <1>10 DEF Raises
<1>11. ASSUME NEW n \in Nodes, ReadHeight(n) \/ ReadBalance(n) \/ SenderSynced(n)
       PROVE  FALSE
  BY <1>1, <1>11 DEF ReadHeight, ReadBalance, SenderSynced, ctlVars
<1> QED
  BY <1>2, <1>3, <1>4, <1>5, <1>7, <1>8, <1>9, <1>10, <1>11 DEF Next, Script

\* "passed" stands for transactions on the chain: each round action counted in
\* self._successful_round_actions has one of its own there, and there are at
\* least MinRequired of them.
THEOREM PassedIsTraffic == Spec => []PassedMeansTraffic
<1>1. Init => Verdict
  BY DEF Init, Verdict
<1>2. Verdict /\ [Next]_vars => Verdict'
  BY VerdictKeeps
<1>3. IInv /\ Verdict => PassedMeansTraffic
  <2> SUFFICES ASSUME IInv, Verdict, pc = "passed"
               PROVE  Cardinality({i \in DOMAIN txs : txs[i].stage = "round" /\ txs[i].height > 0})
                        >= MinRequired
    BY DEF PassedMeansTraffic
  <2> DEFINE done == {i \in DOMAIN txs : txs[i].stage = "round" /\ txs[i].height > 0}
  <2>1. NetInv /\ successes \in Nat /\ successes <= Cardinality(Counted) /\ ~(successes < MinRequired)
    BY DEF IInv, TypeOK, SuccessesAreReal, Verdict
  <2>2. DOMAIN txs = 1..Len(txs) /\ Len(txs) \in Nat
    BY <2>1, NetTypes
  <2>3. IsFiniteSet(done) /\ Counted \subseteq done
    <3>1. IsFiniteSet(1..Len(txs)) /\ done \subseteq 1..Len(txs)
      BY <2>2, FS_Interval
    <3>2. IsFiniteSet(done)
      BY <3>1, FS_Subset
    <3> QED
      BY <3>2 DEF Counted
  <2>4. /\ Cardinality(Counted) <= Cardinality(done)
        /\ Cardinality(Counted) \in Nat /\ Cardinality(done) \in Nat
    BY <2>1, <2>3, FS_Subset, FS_CardinalityType, CountedIsFinite
  <2>5. MinRequired \in Nat
    <3>1. IsFiniteSet(Nodes) /\ Cardinality(Nodes) \in Nat
      BY ConstantsAreSets, FS_Union, FS_CardinalityType DEF Nodes
    <3>2. Rounds \in Nat /\ Rounds * Cardinality(Nodes) * 2 \in Nat
      <4>1. Rounds * Cardinality(Nodes) \in Nat
        BY <3>1, SomeWork
      <4> QED
        BY <4>1, SomeWork
    <3>3. (Rounds * Cardinality(Nodes) * 2) \div 2 \in Nat
      BY <3>2
    <3>4. PICK b \in Nat : b = (Rounds * Cardinality(Nodes) * 2) \div 2
      BY <3>3
    <3>5. {1, b} \in SUBSET Nat /\ {1, b} # {} /\ 1 + b \in Nat /\ \A x \in {1, b} : x <= 1 + b
      OBVIOUS
    <3>6. Max({1, b}) \in {1, b}
      BY <3>5, MaxIs
    <3> QED
      BY <3>4, <3>6 DEF MinRequired
  <2>6. Cardinality(done) >= MinRequired
    BY <2>1, <2>4, <2>5
  <2> QED
    BY <2>6
<1> QED
  BY <1>1, <1>2, <1>3, InvariantIsInductive, PTL DEF Spec
=============================================================================
