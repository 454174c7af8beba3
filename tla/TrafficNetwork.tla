--------------------------- MODULE TrafficNetwork ---------------------------
(***************************************************************************)
(* What scripts/generate_traffic.py talks to: the chain, the tapyrusd of   *)
(* every node with its wallet and mempool, and the chaos loops.  All of it *)
(* is outside of the script; it is modelled from how the script uses it.   *)
(*                                                                         *)
(* One chain is enough: the federation signs one block per height.  A      *)
(* block is its earner plus the transactions whose height it is.  Amounts  *)
(* are left out: a balance is the set of coinbases and transactions that a *)
(* wallet takes into account, so that two balances are equal when they     *)
(* account for the same ones.                                              *)
(***************************************************************************)
EXTENDS Naturals, Sequences, FiniteSetsExt, Functions

CONSTANTS
  Earners,     \* COINBASE_EARNING_NODES: never restarted nor rewound
  ChaosNodes,  \* CHAOS_SENDER_GRACE_NODES
  Faults,      \* what may go wrong: a subset of FaultKinds
  CarriedOver, \* whether an earlier script left a block and balances behind
  MaxHeight,   \* bound on the blocks of a behaviour
  MaxTx        \* bound on its transactions: a call beyond it is refused

\* "lag": a chaos node is behind when the script starts; "chaos": the chaos
\* loops act; "reply": a call takes effect and its answer is lost; "issue": an
\* issuance fails after its seed was sent.
FaultKinds == {"lag", "chaos", "reply", "issue"}

ASSUME ConstantsAreSets ==
  /\ Earners # {} /\ IsFiniteSet(Earners) /\ IsFiniteSet(ChaosNodes)
  /\ Earners \cap ChaosNodes = {}
  /\ Faults \subseteq FaultKinds
  /\ CarriedOver \in BOOLEAN
  /\ MaxHeight \in Nat /\ MaxTx \in Nat

\* The bounds leave room for what an earlier script left behind.
ASSUME RoomForCarriedOver ==
  CarriedOver => MaxHeight > 0 /\ Cardinality(ChaosNodes) <= MaxTx

Nodes == Earners \cup ChaosNodes

VARIABLES
  earner,  \* earner[h]: who earned the coinbase of the block at height h
  tip,     \* tip[n]: the height node n is at
  chaos,   \* chaos[n]: the action of node n's chaos loop
  txs      \* every transaction that a wallet ever made

netVars == <<earner, tip, chaos, txs>>

Top == Len(earner)

\* own: in the mempool of the sender; relayed: in those of all others; height:
\* that of its block, 0 if there is none yet.
Transaction ==
  [from : Nodes, to : Nodes, stage : {"before", "fund", "issue", "round"},
   own : BOOLEAN, relayed : BOOLEAN, height : 0..MaxHeight]

NetTypeOK ==
  /\ earner \in Seq(Earners) /\ Top <= MaxHeight
  /\ tip \in [Nodes -> 0..Top]
  /\ chaos \in [Nodes -> {"idle", "armed", "rewound", "down"}]
  /\ txs \in Seq(Transaction) /\ Len(txs) <= MaxTx
  /\ \A i \in DOMAIN txs : txs[i].height <= Top

\* An earlier script paid every chaos node in the block at height 1.
Paid(e, c) ==
  [from |-> e, to |-> c, stage |-> "before",
   own |-> TRUE, relayed |-> TRUE, height |-> 1]

FreshChain ==
  /\ earner = <<>> /\ txs = <<>>
  /\ tip = [n \in Nodes |-> 0]

CarriedOverChain ==
  \E e \in Earners : \E order \in [1..Cardinality(ChaosNodes) -> ChaosNodes] :
    /\ IsInjective(order)
    /\ earner = <<e>>
    /\ txs = [i \in 1..Cardinality(ChaosNodes) |-> Paid(e, order[i])]
    /\ tip \in [Nodes -> {0, 1}]
    /\ \A n \in Nodes : tip[n] = 0 => n \in ChaosNodes /\ "lag" \in Faults

NetInit ==
  /\ IF CarriedOver THEN CarriedOverChain ELSE FreshChain
  /\ chaos = [n \in Nodes |-> "idle"]

-----------------------------------------------------------------------------
Up(n) == chaos[n] # "down"

\* getblockcount: no element if the node is not reachable.
HeightSeen(n) == IF Up(n) THEN {tip[n]} ELSE {}

ConfirmedAt(n, i) == txs[i].height \in 1..tip[n]

\* getbalance and getrawmempool.  The sender counts what is in its mempool; a
\* recipient waits for the block.
Counts(n, i) ==
  \/ ConfirmedAt(n, i) /\ n \in {txs[i].from, txs[i].to}
  \/ txs[i].own /\ n = txs[i].from

Balance(n) ==
  {<<"coinbase", h>> : h \in {x \in 1..tip[n] : earner[x] = n}}
    \cup {<<"tx", i>> : i \in {x \in DOMAIN txs : Counts(n, x)}}

\* A node that rewound its tip has the transactions of that block back.
MempoolEmpty(n) ==
  \A i \in DOMAIN txs :
    /\ txs[i].height = 0 => ~txs[i].relayed /\ ~(txs[i].own /\ txs[i].from = n)
    /\ chaos[n] = "rewound" => txs[i].height # tip[n] + 1

-----------------------------------------------------------------------------
\* A signer submits a new block to its own node first.
Mine(e) ==
  /\ Top < MaxHeight
  /\ tip[e] = Top
  /\ earner' = Append(earner, e)
  /\ tip' = [tip EXCEPT ![e] = Top + 1]
  /\ txs' = [i \in DOMAIN txs |->
              IF txs[i].height = 0 /\ txs[i].relayed
              THEN [txs[i] EXCEPT !.height = Top + 1] ELSE txs[i]]
  /\ UNCHANGED chaos

\* Another node takes over the next block.
Catch(n) ==
  /\ tip[n] < Top
  /\ chaos[n] \notin {"rewound", "down"}
  /\ tip' = [tip EXCEPT ![n] = @ + 1]
  /\ UNCHANGED <<earner, chaos, txs>>

Relay(i) ==
  /\ txs[i].own /\ ~txs[i].relayed
  /\ Up(txs[i].from)
  /\ txs' = [txs EXCEPT ![i].relayed = TRUE]
  /\ UNCHANGED <<earner, tip, chaos>>

\* The chaos loop of a node passes its gate: no script holds a pause.
Arm(n, paused) ==
  /\ "chaos" \in Faults
  /\ ~paused
  /\ chaos[n] = "idle"
  /\ chaos' = [chaos EXCEPT ![n] = "armed"]
  /\ UNCHANGED <<earner, tip, txs>>

\* Its action takes effect, maybe under a pause by now.  The node's mempool
\* may lose what the node has not seen in a block.
Act(n, kind) ==
  /\ chaos[n] = "armed"
  /\ chaos' = [chaos EXCEPT ![n] = kind]
  /\ \/ kind = "rewound" /\ tip[n] > 0 /\ tip' = [tip EXCEPT ![n] = @ - 1]
     \/ kind = "down" /\ UNCHANGED tip
  /\ \/ UNCHANGED txs
     \/ txs' = [i \in DOMAIN txs |->
                 IF txs[i].from = n /\ ~ConfirmedAt(n, i)
                 THEN [txs[i] EXCEPT !.own = FALSE] ELSE txs[i]]
  /\ UNCHANGED earner

\* The block is reconsidered, or the node is up again.
Recover(n) ==
  /\ chaos[n] \in {"rewound", "down"}
  /\ chaos' = [chaos EXCEPT ![n] = "idle"]
  /\ UNCHANGED <<earner, tip, txs>>

Network(paused) ==
  \/ \E e \in Earners : Mine(e)
  \/ \E n \in Nodes : Catch(n)
  \/ \E i \in DOMAIN txs : Relay(i)
  \/ \E n \in ChaosNodes :
       \/ Arm(n, paused)
       \/ \E kind \in {"rewound", "down"} : Act(n, kind)
       \/ Recover(n)
=============================================================================
