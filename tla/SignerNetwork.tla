---------------------------- MODULE SignerNetwork ----------------------------
(***************************************************************************)
(* What the scripts that change the federation talk to: the chain, the     *)
(* core nodes, and the signers with the federations.toml each of them      *)
(* reads.  All of it is outside of the scripts.                            *)
(*                                                                         *)
(* A block is the key that signed it and the change it carries, which is   *)
(* in force from the next height on: the history of getblockchaininfo      *)
(* lists a change at the first height it is in force at.                   *)
(***************************************************************************)
EXTENDS Naturals, Sequences, FiniteSets

CONSTANTS
  SignersA,    \* the signers of signer-set-a, in the order of their nodes
  SignersB,    \* those of signer-set-b
  Nodes,       \* ALL_NODE_NAMES
  Probe,       \* "core-1a", the node of the first signer
  ChaosNodes,  \* the nodes whose chaos loop acts
  Mortal,      \* the signers that may exit
  Threshold,   \* SIGNER_THRESHOLD
  MaxHeight    \* bound on the blocks of a behaviour

SetA == {SignersA[i] : i \in DOMAIN SignersA}
SetB == {SignersB[i] : i \in DOMAIN SignersB}
Signers == SetA \cup SetB
Changes == {"b", "size"}

ASSUME SignerNetworkAssumption ==
  /\ SignersA \in Seq(SetA) /\ SignersB \in Seq(SetB)
  /\ IsFiniteSet(Nodes) /\ Probe \in Nodes \ ChaosNodes /\ ChaosNodes \subseteq Nodes
  /\ Mortal \subseteq Signers
  /\ Threshold \in Nat \ {0} /\ MaxHeight \in Nat

VARIABLES
  chain,   \* chain[h]: the key and the change of the block at height h
  tip,     \* tip[n]: the height node n is at
  chaos,   \* chaos[n]: the action of node n's chaos loop
  alive,   \* the signers that run
  file,    \* file[s]: the entries of signer s's federations.toml
  loaded   \* loaded[s]: those it works with

netVars == <<chain, tip, chaos, alive, file, loaded>>

Top == Len(chain)

\* An entry: from which height on, what it brings, and whether it has the
\* threshold and node-vss that make this signer a member.
Entry == [from : 0..MaxHeight, change : {"a"} \cup Changes, member : BOOLEAN]

NetTypeOK ==
  /\ chain \in Seq([key : {"a", "b"}, change : {"none"} \cup Changes])
  /\ tip \in [Nodes -> 0..Top]
  /\ chaos \in [Nodes -> {"idle", "armed", "rewound", "down"}]
  /\ alive \subseteq Signers
  /\ \A s \in Signers : loaded[s] \subseteq Entry /\ file[s] \subseteq Entry

NetInit ==
  /\ chain = <<>>
  /\ tip = [n \in Nodes |-> 0]
  /\ chaos = [n \in Nodes |-> "idle"]
  /\ alive = SetA
  /\ file = [s \in Signers |->
              IF s \in SetA THEN {[from |-> 0, change |-> "a", member |-> TRUE]} ELSE {}]
  /\ loaded = file

-----------------------------------------------------------------------------
(* Blocks.                                                                 *)

\* The chain has the change in force from height h on.
InForceFrom(h, change) == h - 1 \in DOMAIN chain /\ chain[h - 1].change = change

\* The key that consensus wants at height h.
KeyAt(h) == IF \E g \in 1..h : InForceFrom(g, "b") THEN "b" ELSE "a"

\* The federation signer s has for height h.
KeyFor(s, h) == IF \E e \in loaded[s] : e.change = "b" /\ e.from <= h THEN "b" ELSE "a"
MemberFor(s, h) ==
  \E e \in loaded[s] : e.change = KeyFor(s, h) /\ e.from <= h /\ e.member

\* A signer takes part in a block that carries what its own file has for the
\* height after it, signed with the key it has for this height.
Signs(s, block, h) ==
  /\ s \in alive
  /\ MemberFor(s, h)
  /\ block.key = KeyFor(s, h)
  /\ {block.change} \ {"none"} = {e.change : e \in {x \in loaded[s] : x.from = h + 1}}

\* A round; the signers submit the block to their own nodes, Probe among them.
Produce(change) ==
  LET block == [key |-> KeyAt(Top + 1), change |-> change] IN
  /\ Top < MaxHeight
  /\ Cardinality({s \in Signers : Signs(s, block, Top + 1)}) >= Threshold
  /\ chain' = Append(chain, block)
  /\ tip' = [tip EXCEPT ![Probe] = Top + 1]
  /\ UNCHANGED <<chaos, alive, file, loaded>>

Catch(n) ==
  /\ tip[n] < Top
  /\ chaos[n] \notin {"rewound", "down"}
  /\ tip' = [tip EXCEPT ![n] = @ + 1]
  /\ UNCHANGED <<chain, chaos, alive, file, loaded>>

\* getblockchaininfo's height: no element if the node is not reachable.
HeightSeen(n) == IF chaos[n] = "down" THEN {} ELSE {tip[n]}

-----------------------------------------------------------------------------
(* Signers and chaos loops.                                                *)

\* federation_watcher: a complete new file is taken over between two rounds.
Reload(s) ==
  /\ s \in alive
  /\ loaded[s] # file[s]
  /\ loaded' = [loaded EXCEPT ![s] = file[s]]
  /\ UNCHANGED <<chain, tip, chaos, alive, file>>

\* A signer container exits; nothing restarts it.
SignerDies(s) ==
  /\ s \in alive \cap Mortal
  /\ alive' = alive \ {s}
  /\ UNCHANGED <<chain, tip, chaos, file, loaded>>

\* A chaos loop passes its gate, its action takes effect, its action ends.
Arm(n, paused) ==
  /\ ~paused
  /\ chaos[n] = "idle"
  /\ chaos' = [chaos EXCEPT ![n] = "armed"]
  /\ UNCHANGED <<chain, tip, alive, file, loaded>>

Act(n) ==
  /\ chaos[n] = "armed"
  /\ \/ chaos' = [chaos EXCEPT ![n] = "down"] /\ UNCHANGED tip
     \/ /\ tip[n] > 0
        /\ chaos' = [chaos EXCEPT ![n] = "rewound"]
        /\ tip' = [tip EXCEPT ![n] = @ - 1]
  /\ UNCHANGED <<chain, alive, file, loaded>>

Recover(n) ==
  /\ chaos[n] \in {"rewound", "down"}
  /\ chaos' = [chaos EXCEPT ![n] = "idle"]
  /\ UNCHANGED <<chain, tip, alive, file, loaded>>

Produces == \E change \in {"none"} \cup Changes : Produce(change)

Network(paused) ==
  \/ Produces
  \/ \E n \in Nodes : Catch(n)
  \/ \E s \in Signers : Reload(s) \/ SignerDies(s)
  \/ \E n \in ChaosNodes : Arm(n, paused) \/ Act(n) \/ Recover(n)

\* Rounds recur while a threshold agrees, blocks are relayed, a changed file is
\* noticed, and a chaos action ends.
NetFairness ==
  /\ WF_netVars(Produces)
  /\ WF_netVars(\E n \in Nodes : Catch(n) \/ Recover(n))
  /\ WF_netVars(\E s \in Signers : Reload(s))
=============================================================================
