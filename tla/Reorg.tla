-------------------------------- MODULE Reorg --------------------------------
(***************************************************************************)
(* scripts/simulate_reorg.py: the recipe by which two groups of core nodes *)
(* build competing forks one after the other, are reconnected and settle   *)
(* on the longer one.                                                      *)
(*                                                                         *)
(* The script is a program of instructions, one per await that reads or    *)
(* changes the network; blocks are produced and relayed between any two.   *)
(* A chain is the sequence of its blocks above genesis, a block is named   *)
(* by the signer deployment that made it, so equal sequences are equal     *)
(* chains.  The wallet's canary transaction and redis are left out: what   *)
(* becomes of them is up to tapyrus-core and tapyrus-signerd.              *)
(***************************************************************************)
EXTENDS Naturals, FiniteSets, SequencesExt

CONSTANTS
  GroupA, GroupB,  \* GROUP_A, GROUP_B
  Links,           \* the static P2P edges of docker-compose.yml
  DefaultHosts,    \* GROUP_A_RPC_HOSTS, a node for each signer
  GroupAHost,      \* "core-1a", asked for group A's fork tip
  GroupBHost,      \* "core-3a", asked for group B's and in GROUP_B_RPC_HOSTS
  Floor,           \* REORG_BASELINE_HEIGHT
  ForkLength,      \* REORG_LENGTH_BLOCKS
  MaxHeight        \* bound on the heights explored

Nodes == GroupA \cup GroupB
Signers == DOMAIN DefaultHosts
SignerThreshold == 2

ASSUME ReorgAssumption ==
  /\ IsFiniteSet(Nodes) /\ GroupA \cap GroupB = {}
  /\ GroupAHost \in GroupA /\ GroupBHost \in GroupB
  /\ \A l \in Links : l \subseteq Nodes
  /\ \A s \in Signers : DefaultHosts[s] \in Nodes
  /\ Floor \in Nat /\ ForkLength \in Nat \ {0} /\ MaxHeight \in Nat

VARIABLES
  pc,        \* the instruction the script is at; 0 once it raised
  up,        \* the nodes whose container runs
  hosts,     \* the RPC host in each signer's tapyrus-signer.toml
  era,       \* how often the signers were repointed
  live,      \* the signers that run
  tip,       \* tip[n]: the active chain of node n
  rivals,    \* rivals[n]: the other tips n's getchaintips reports
  base,      \* _baseline_height
  tipA,      \* _group_a_tip
  tipB,      \* _group_b_tip
  seen,      \* what the current gather has read so far, node by node
  pauseFile  \* the chaos loops are paused

network == <<up, hosts, era, live, tip, rivals>>
script  == <<pc, base, tipA, tipB, seen, pauseFile>>
vars == <<network, script>>

-----------------------------------------------------------------------------
(* The program: run() and the steps it awaits.                             *)

Op(name) == [op |-> name]
StopNodes(group) == [op |-> "stop", group |-> group]
StartNodes(group) == [op |-> "start", group |-> group]
Repoint(to) == [op |-> "repoint", to |-> to]
\* _wait_for_height: `above` is counted from the baseline once that is known.
WaitHeight(group, above) == [op |-> "wait", group |-> group, above |-> above]
ReadTip(of) == [op |-> "read", of |-> of]

GroupBHosts == [s \in Signers |-> GroupBHost]

\* Mutant: the baseline is captured before the signers are stopped.
BuildBaseline_CaptureFirst ==
  << WaitHeight(Nodes, 0), Op("match"), Op("stopSigners") >>

BuildBaseline ==
  << WaitHeight(Nodes, 0), Op("stopSigners"), Op("match") >>

BuildGroupBFork ==
  << StopNodes(GroupA), Repoint(GroupBHosts), Op("startSigners"),
     WaitHeight(GroupB, ForkLength), ReadTip("B"), Op("stopSigners") >>

\* Mutant: group A is started before group B is stopped.
RestoreGroupA_StartFirst == << StartNodes(GroupA), StopNodes(GroupB) >>

RestoreGroupA == << StopNodes(GroupB), StartNodes(GroupA) >>

BuildGroupAFork ==
  << Repoint(DefaultHosts), Op("startSigners"),
     WaitHeight(GroupA, ForkLength), ReadTip("A"), Op("stopSigners") >>

ReconnectGroupB == << StartNodes(GroupB), Op("tie") >>

ExtendGroupB ==
  << Repoint(GroupBHosts), Op("startSigners"),
     WaitHeight(Nodes, ForkLength + 2), ReadTip("B"), Op("stopSigners") >>

\* Mutant: the signers are started with the hosts they had last.
RestoreDefaultSigners_OldHosts == << Op("startSigners"), Op("awaitSigners") >>

RestoreDefaultSigners ==
  << Repoint(DefaultHosts), Op("startSigners"), Op("awaitSigners") >>

Recipe ==
  BuildBaseline
    \o << Op("pause") >>
    \o BuildGroupBFork \o RestoreGroupA \o BuildGroupAFork
    \o ReconnectGroupB \o ExtendGroupB
    \o << Op("confirm"), Op("resume") >>
    \o RestoreDefaultSigners

\* The script raised, or its last instruction was executed.
Failed == pc = 0
Done == pc = Len(Recipe) + 1
Running == pc \in DOMAIN Recipe

\* The place of an operation that occurs once.
Place(name) == CHOOSE i \in DOMAIN Recipe : Recipe[i].op = name
Before(name) == Running /\ pc <= Place(name)
After(name) == ~Failed /\ pc > Place(name)

-----------------------------------------------------------------------------
(* Chains.                                                                 *)

\* The height up to which two chains agree: a getchaintips branchlen is what a
\* rival tip has above that.
ForkHeight(c, d) ==
  LET common == {h \in 0..Len(c) : h <= Len(d) /\ SubSeq(c, 1, h) = SubSeq(d, 1, h)}
  IN CHOOSE h \in common : \A g \in common : g <= h

BranchLen(rival, active) == Len(rival) - ForkHeight(rival, active)

\* The non-active tips of getchaintips among the chains a node knows.
TipsBeside(chains, active) ==
  {c \in chains : /\ ~IsPrefix(c, active)
                  /\ \A d \in chains : d # c => ~IsPrefix(c, d)}

TypeOK ==
  /\ pc \in 0..Len(Recipe) + 1
  /\ up \subseteq Nodes
  /\ hosts \in {DefaultHosts, GroupBHosts}
  /\ era \in 0..4
  /\ live \subseteq Signers
  /\ \A n \in Nodes : tip[n] \in Seq(0..4) /\ \A c \in rivals[n] : c \in Seq(0..4)
  /\ base \in Nat
  /\ DOMAIN seen \subseteq Nodes
  /\ pauseFile \in BOOLEAN

Init ==
  /\ pc = 1
  /\ up = Nodes
  /\ hosts = DefaultHosts
  /\ era = 0
  /\ live = Signers
  /\ tip = [n \in Nodes |-> <<>>]
  /\ rivals = [n \in Nodes |-> {}]
  /\ base = Floor
  /\ tipA = <<>>
  /\ tipB = <<>>
  /\ seen = <<>>
  /\ pauseFile = FALSE

-----------------------------------------------------------------------------
(* The network (tapyrus-core and tapyrus-signerd).                         *)

Reachable == {s \in live : hosts[s] \in up}

\* A round: a threshold of signers whose nodes answer and agree on the tip make
\* one block, which the master s submits to its own node.  Rounds are a
\* ROUND_DURATION apart, by when the last block has reached all these nodes.
Produce(s) ==
  LET node == hosts[s] IN
  /\ s \in Reachable
  /\ Cardinality(Reachable) >= SignerThreshold
  /\ \A t \in Reachable : tip[hosts[t]] = tip[node]
  /\ Len(tip[node]) < MaxHeight
  /\ tip' = [tip EXCEPT ![node] = Append(@, era)]
  /\ UNCHANGED <<up, hosts, era, live, rivals, script>>

\* Peers, and the nodes that running signers submit the same block to.
Linked(m, n) ==
  \/ {m, n} \in Links
  \/ {m, n} \subseteq {hosts[s] : s \in Reachable}

\* A node adopts a longer chain; its own becomes a rival unless it is extended.
Adopt(m, n) ==
  /\ {m, n} \subseteq up /\ Linked(m, n)
  /\ Len(tip[m]) > Len(tip[n])
  /\ tip' = [tip EXCEPT ![n] = tip[m]]
  /\ rivals' = [rivals EXCEPT ![n] = TipsBeside(@ \cup {tip[n]}, tip[m])]
  /\ UNCHANGED <<up, hosts, era, live, script>>

\* It may also hear of a competing chain that is no longer than its own.
HearOf(m, n) ==
  /\ {m, n} \subseteq up /\ Linked(m, n)
  /\ Len(tip[m]) <= Len(tip[n])
  /\ ~IsPrefix(tip[m], tip[n])
  /\ tip[m] \notin rivals[n]
  /\ rivals' = [rivals EXCEPT ![n] = TipsBeside(@ \cup {tip[m]}, tip[n])]
  /\ UNCHANGED <<up, hosts, era, live, tip, script>>

\* A signer container exits; nothing restarts it.
SignerDies(s) ==
  /\ s \in live
  /\ live' = live \ {s}
  /\ UNCHANGED <<up, hosts, era, tip, rivals, script>>

Network ==
  \/ \E s \in Signers : Produce(s) \/ SignerDies(s)
  \/ \E m, n \in Nodes : Adopt(m, n) \/ HearOf(m, n)

-----------------------------------------------------------------------------
(* The script's instructions.                                              *)

At(op) == Running /\ Recipe[pc].op = op
Instruction == Recipe[pc]
Continue == pc' = pc + 1

\* start_nodes(), stop_nodes() on core nodes
StopsGroup ==
  /\ At("stop")
  /\ up' = up \ Instruction.group
  /\ Continue
  /\ UNCHANGED <<hosts, era, live, tip, rivals, base, tipA, tipB, seen, pauseFile>>

StartsGroup ==
  /\ At("start")
  /\ up' = up \cup Instruction.group
  /\ Continue
  /\ UNCHANGED <<hosts, era, live, tip, rivals, base, tipA, tipB, seen, pauseFile>>

\* Mutant: every signer gets the first host of the list.
Repoints_FirstHost ==
  /\ At("repoint")
  /\ hosts' = [s \in Signers |-> Instruction.to[1]]
  /\ era' = era + 1
  /\ Continue
  /\ UNCHANGED <<up, live, tip, rivals, base, tipA, tipB, seen, pauseFile>>

\* _repoint_signers(), and the same two on the signers, which read their file
\* when they start.
Repoints ==
  /\ At("repoint")
  /\ hosts' = Instruction.to
  /\ era' = era + 1
  /\ Continue
  /\ UNCHANGED <<up, live, tip, rivals, base, tipA, tipB, seen, pauseFile>>

StartsSigners ==
  /\ At("startSigners")
  /\ live' = Signers
  /\ Continue
  /\ UNCHANGED <<up, hosts, era, tip, rivals, base, tipA, tipB, seen, pauseFile>>

StopsSigners ==
  /\ At("stopSigners")
  /\ live' = {}
  /\ Continue
  /\ UNCHANGED <<up, hosts, era, tip, rivals, base, tipA, tipB, seen, pauseFile>>

\* wait_for_running()
SeesSignersRunning ==
  /\ At("awaitSigners")
  /\ live = Signers
  /\ Continue
  /\ UNCHANGED <<network, base, tipA, tipB, seen, pauseFile>>

\* _wait_for_height() returns.  A node's height never falls, so the polls of
\* one gather can be taken at the moment of the last.
HeightReached ==
  /\ At("wait")
  /\ \A n \in Instruction.group :
       n \in up /\ Len(tip[n]) >= base + Instruction.above
  /\ Continue
  /\ UNCHANGED <<network, base, tipA, tipB, seen, pauseFile>>

\* getbestblockhash of the node that stands for its group.
ReadsTip ==
  /\ At("read")
  /\ IF Instruction.of = "A"
       THEN tipA' = tip[GroupAHost] /\ UNCHANGED tipB
       ELSE tipB' = tip[GroupBHost] /\ UNCHANGED tipA
  /\ Continue
  /\ UNCHANGED <<network, base, seen, pauseFile>>

\* A gather has one more answer.
SeenWith(n) == [x \in DOMAIN seen \cup {n} |-> IF x = n THEN tip[n] ELSE seen[x]]

\* One node's answer of the gather in _wait_for_matching_tips().
ReadsForMatch(n) ==
  /\ At("match")
  /\ n \in up \ DOMAIN seen
  /\ seen' = SeenWith(n)
  /\ UNCHANGED <<network, pc, base, tipA, tipB, pauseFile>>

AllSeen == DOMAIN seen = Nodes

TipsMatch ==
  /\ At("match") /\ AllSeen
  /\ \A m, n \in Nodes : seen[m] = seen[n]
  /\ base' = Len(seen[GroupAHost])
  /\ seen' = <<>>
  /\ Continue
  /\ UNCHANGED <<network, tipA, tipB, pauseFile>>

TipsDiffer ==
  /\ At("match") /\ AllSeen
  /\ \E m, n \in Nodes : seen[m] # seen[n]
  /\ seen' = <<>>
  /\ UNCHANGED <<network, pc, base, tipA, tipB, pauseFile>>

\* One node of _confirm_tie_holds() is still on its own tip.
NodeHoldsTie(n) ==
  /\ At("tie")
  /\ n \in GroupA \ DOMAIN seen
  /\ tip[n] = tipA
  /\ seen' = SeenWith(n)
  /\ UNCHANGED <<network, pc, base, tipA, tipB, pauseFile>>

TieHolds ==
  /\ At("tie") /\ DOMAIN seen = GroupA
  /\ seen' = <<>>
  /\ Continue
  /\ UNCHANGED <<network, base, tipA, tipB, pauseFile>>

\* Mutant: the length of the lost branch is not looked at.
ExpectedTips_AnyBranchLen(n) ==
  /\ tip[n] = tipB
  /\ n \in GroupA => rivals[n] = {tipA}
  /\ n = GroupBHost => rivals[n] = {}
  /\ rivals[n] \subseteq {tipA}

\* What _confirm_convergence() wants of one node's getchaintips.
ExpectedTips(n) ==
  /\ tip[n] = tipB
  /\ n \in GroupA => rivals[n] = {tipA} /\ BranchLen(tipA, tip[n]) = ForkLength
  /\ n = GroupBHost => rivals[n] = {}
  /\ rivals[n] \subseteq {tipA}

\* It asks group A's nodes first.
NodeConverged(n) ==
  /\ At("confirm")
  /\ n \in Nodes \ DOMAIN seen
  /\ n \in GroupA \/ GroupA \subseteq DOMAIN seen
  /\ ExpectedTips(n)
  /\ seen' = SeenWith(n)
  /\ UNCHANGED <<network, pc, base, tipA, tipB, pauseFile>>

Converged ==
  /\ At("confirm") /\ AllSeen
  /\ seen' = <<>>
  /\ Continue
  /\ UNCHANGED <<network, base, tipA, tipB, pauseFile>>

\* pause_node_orchestrators(), resume_node_orchestrators()
TogglesPause ==
  /\ At("pause") \/ At("resume")
  /\ pauseFile' = At("pause")
  /\ Continue
  /\ UNCHANGED <<network, base, tipA, tipB, seen>>

\* Mutant: resume_node_orchestrators() is called at the natural end only.
Raises_NoFinally ==
  /\ Running
  /\ ~At("pause") /\ ~At("resume") /\ ~At("repoint")
  /\ pc' = 0
  /\ seen' = <<>>
  /\ UNCHANGED <<up, live, pauseFile, hosts, era, tip, rivals, base, tipA, tipB>>

\* An instruction raises: a time-out, a check that fails, an RPC error, or a
\* docker compose that did part of its work.  The `finally` resumes.
Raises ==
  /\ Running
  /\ ~At("pause") /\ ~At("resume") /\ ~At("repoint")
  /\ \/ At("stop") /\ \E part \in SUBSET Instruction.group :
                         up' = up \ part /\ UNCHANGED live
     \/ At("start") /\ \E part \in SUBSET Instruction.group :
                          up' = up \cup part /\ UNCHANGED live
     \/ At("stopSigners") /\ \E part \in SUBSET Signers :
                                live' = live \ part /\ UNCHANGED up
     \/ At("startSigners") /\ \E part \in SUBSET Signers :
                                 live' = live \cup part /\ UNCHANGED up
     \/ UNCHANGED <<up, live>>
  /\ pc' = 0
  /\ pauseFile' = FALSE
  /\ seen' = <<>>
  /\ UNCHANGED <<hosts, era, tip, rivals, base, tipA, tipB>>

Script ==
  \/ StopsGroup \/ StartsGroup \/ Repoints \/ StartsSigners \/ StopsSigners
  \/ SeesSignersRunning \/ HeightReached \/ ReadsTip
  \/ \E n \in Nodes : ReadsForMatch(n) \/ NodeHoldsTie(n) \/ NodeConverged(n)
  \/ TipsMatch \/ TipsDiffer \/ TieHolds \/ Converged
  \/ TogglesPause \/ Raises

Next == Script \/ Network

Spec == Init /\ [][Next]_vars

-----------------------------------------------------------------------------
(* Safety.                                                                 *)

Blocks(c) == {c[i] : i \in DOMAIN c}

\* "neither side can influence or observe the other's blocks while forking": no
\* chain ever has blocks of both groups' isolated builds, and no node of the
\* other group holds one before the reconnection.
ForksApart ==
  /\ \A n \in Nodes : ~({1, 2} \subseteq Blocks(tip[n]))
  /\ Before("tie") /\ up # Nodes =>
       /\ \A n \in GroupA : 1 \notin Blocks(tip[n])
       /\ \A n \in GroupB : 2 \notin Blocks(tip[n])

\* When the groups meet, the recorded baseline is where the recorded forks part,
\* and each has all its blocks above it: neither is "a silent no-op reorg".
ForksPartAtBaseline ==
  At("tie") =>
    /\ ForkHeight(tipA, tipB) = base
    /\ Len(tipA) >= base + ForkLength /\ Len(tipB) >= base + ForkLength

\* When the recipe has confirmed the reorg there was one, and it lasts: every
\* node is on group B's chain, two blocks longer than the fork group A lost.
VerdictSound ==
  After("confirm") =>
    /\ \A n \in Nodes : IsPrefix(tipB, tip[n])
    /\ Len(tipA) = base + ForkLength
    /\ Len(tipB) >= Len(tipA) + 2
    /\ \A n \in GroupA : tipA \in rivals[n]

\* While the network is split the chaos loops are paused, and however the
\* script ends they are not.
PausedWhileSplit ==
  /\ Running /\ up # Nodes => pauseFile
  /\ Failed \/ Done => ~pauseFile

\* After a success all nodes run, and every signer has its default host again.
LeftAsFound == Done => up = Nodes /\ hosts = DefaultHosts
=============================================================================
