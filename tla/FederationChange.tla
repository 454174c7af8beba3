-------------------------- MODULE FederationChange ---------------------------
(***************************************************************************)
(* scripts/simulate_federation_change.py and then                          *)
(* scripts/simulate_maxblocksize_change.py, as the workflow runs them: a   *)
(* change is scheduled, written into the federations.toml of the signers   *)
(* while they run, waited for and confirmed on every node.                 *)
(*                                                                         *)
(* Both scripts are programs of instructions, one per await and per file   *)
(* written; rounds, reloads and relaying go on between any two.  The two   *)
(* ceremonies that come first are in module Ceremony.                      *)
(***************************************************************************)
EXTENDS SignerNetwork

CONSTANTS
  Offset,     \* FEDERATION_CHANGE_OFFSET_BLOCKS, MAX_BLOCK_SIZE_OFFSET_BLOCKS
  StallPolls  \* the polls without a change that make up a stall time-out

\* A height that is announced lies ahead.
ASSUME FederationChangeAssumption == Offset \in Nat \ {0} /\ StallPolls \in Nat

VARIABLES
  pc,         \* the instruction the job is at; 0 once a script raised
  outcome,    \* why it raised
  scheduled,  \* scheduled[c]: _scheduled_height of change c, once computed
  pauseFile,  \* the chaos loops are paused
  seen,       \* what the confirmation has read so far, node by node
  last,       \* last_state of _wait_for_height
  still       \* the polls since last_progress_at

script == <<pc, outcome, scheduled, pauseFile, seen, last, still>>
vars == <<netVars, script>>

-----------------------------------------------------------------------------
(* The programs: run() of both simulators.                                 *)

Reused == SignersA[1]  \* REUSE_NODE_INDEX

Op(name, change) == [op |-> name, change |-> change]

\* One file: what is already in it, and whether the new entry has a threshold
\* and node-vss.
Write(change, s, member) ==
  [op |-> "write", change |-> change, signer |-> s, member |-> member]

\* Mutant: the reused identity gets the same stub as its former co-members.
WriteFilesOfSetA_StubOnly ==
  [i \in DOMAIN SignersA |-> Write("b", SignersA[i], FALSE)]

WriteFilesOfSetA ==
  [i \in DOMAIN SignersA |-> Write("b", SignersA[i], SignersA[i] = Reused)]

WriteFilesOfNewSigners ==
  [i \in 1..Len(SignersB) - 1 |-> Write("b", SignersB[i + 1], TRUE)]

WriteFilesOfActiveSigners ==
  [i \in DOMAIN SignersB |-> Write("size", SignersB[i], TRUE)]

\* Mutant: the script is content with the height.
RotationScript_Unconfirmed ==
  << Op("schedule", "b"), Op("pause", "b") >>
    \o WriteFilesOfSetA \o WriteFilesOfNewSigners
    \o << Op("bringUp", "b"), Op("wait", "b"), Op("resume", "b") >>

RotationScript ==
  << Op("schedule", "b"), Op("pause", "b") >>
    \o WriteFilesOfSetA \o WriteFilesOfNewSigners
    \o << Op("bringUp", "b"), Op("wait", "b"), Op("confirm", "b"), Op("resume", "b") >>

BlockSizeScript ==
  << Op("schedule", "size"), Op("pause", "size") >>
    \o WriteFilesOfActiveSigners
    \o << Op("wait", "size"), Op("confirm", "size"), Op("resume", "size") >>

\* A step of the workflow that fails is the last one of the job.
Job == RotationScript \o BlockSizeScript

Running == pc \in DOMAIN Job
Done == pc = Len(Job) + 1
Passed(change) ==
  pc > CHOOSE i \in DOMAIN Job : Job[i].op = "resume" /\ Job[i].change = change

Instruction == Job[pc]
At(op) == Running /\ Instruction.op = op
Continue == pc' = pc + 1 /\ UNCHANGED outcome

\* An exception: the `finally` resumes.
Fail(why) ==
  /\ pc' = 0
  /\ outcome' = why
  /\ pauseFile' = FALSE
  /\ seen' = <<>> /\ last' = <<>> /\ still' = 0

TypeOK ==
  /\ NetTypeOK
  /\ pc \in 0..Len(Job) + 1
  /\ outcome \in {"none", "raised", "stalled", "unconfirmed"}
  /\ DOMAIN scheduled \subseteq Changes
  /\ \A c \in DOMAIN scheduled : scheduled[c] \in 0..MaxHeight
  /\ pauseFile \in BOOLEAN
  /\ DOMAIN seen \subseteq Nodes /\ DOMAIN last \in {{}, Nodes}
  /\ still \in 0..StallPolls

Init ==
  /\ NetInit
  /\ pc = 1
  /\ outcome = "none"
  /\ scheduled = <<>>
  /\ pauseFile = FALSE
  /\ seen = <<>> /\ last = <<>> /\ still = 0

-----------------------------------------------------------------------------
(* Scheduling, writing, starting.                                          *)

\* _compute_scheduled_height(), before the pause.
SchedulesHeight ==
  /\ At("schedule")
  /\ tip[Probe] + Offset <= MaxHeight
  /\ scheduled' = [c \in DOMAIN scheduled \cup {Instruction.change} |->
                    IF c \in DOMAIN scheduled THEN scheduled[c] ELSE tip[Probe] + Offset]
  /\ Continue
  /\ UNCHANGED <<netVars, pauseFile, seen, last, still>>

TogglesPause ==
  /\ At("pause") \/ At("resume")
  /\ pauseFile' = At("pause")
  /\ Continue
  /\ UNCHANGED <<netVars, scheduled, seen, last, still>>

\* _federation_entry_toml()
NewEntry(from) ==
  [from |-> from, change |-> Instruction.change, member |-> Instruction.member]

\* What a file is when its entry is appended: that of a new signer is begun with
\* signer-set-a's entry, without the means to sign under it.
FileSoFar(s) ==
  IF s \in SetA \/ Instruction.change = "size" THEN file[s]
  ELSE {[from |-> 0, change |-> "a", member |-> FALSE]}

\* Mutant: the height is computed anew for each file.
WritesFile_OwnHeight ==
  /\ At("write")
  /\ LET s == Instruction.signer IN
       file' = [file EXCEPT ![s] = FileSoFar(s) \cup {NewEntry(tip[Probe] + Offset)}]
  /\ Continue
  /\ UNCHANGED <<chain, tip, chaos, alive, loaded, scheduled, pauseFile, seen, last, still>>

\* _write_atomic() of one signer's file: it appears as a whole.
WritesFile ==
  /\ At("write")
  /\ LET s == Instruction.signer IN
       file' = [file EXCEPT
                 ![s] = FileSoFar(s) \cup {NewEntry(scheduled[Instruction.change])}]
  /\ Continue
  /\ UNCHANGED <<chain, tip, chaos, alive, loaded, scheduled, pauseFile, seen, last, still>>

\* A container that starts reads its file.
Start(group) ==
  /\ alive' = alive \cup group
  /\ loaded' = [s \in Signers |-> IF s \in group THEN file[s] ELSE loaded[s]]
  /\ UNCHANGED <<chain, tip, chaos, file>>

\* _bring_up_signer_set_b(): `up -d` says nothing about a later exit.
BringsUpNewSigners ==
  /\ At("bringUp")
  /\ Start(SetB \ SetA)
  /\ Continue
  /\ UNCHANGED <<scheduled, pauseFile, seen, last, still>>

-----------------------------------------------------------------------------
(* _wait_for_height()                                                      *)

Target == scheduled[Instruction.change]

\* The answers of one gather.  Each is only compared with the target and with
\* the same node's answer before, so they are taken at one moment.
Heights == [n \in Nodes |-> HeightSeen(n)]
Reached == \A n \in Nodes : \E h \in HeightSeen(n) : h >= Target

HeightReached ==
  /\ At("wait")
  /\ Reached
  /\ last' = <<>> /\ still' = 0
  /\ Continue
  /\ UNCHANGED <<netVars, scheduled, pauseFile, seen>>

\* The chain goes on beyond the bound: there, equal heights may be new blocks.
BeyondBound == \E n \in Nodes : HeightSeen(n) = {MaxHeight}

SeesProgress ==
  /\ At("wait")
  /\ ~Reached
  /\ Heights # last \/ BeyondBound
  /\ last' = Heights /\ still' = 0
  /\ UNCHANGED <<netVars, pc, outcome, scheduled, pauseFile, seen>>

\* Mutant: the time of the last progress is taken at every poll.
SeesNoProgress_Restarted ==
  /\ At("wait")
  /\ ~Reached
  /\ Heights = last
  /\ still' = 0
  /\ UNCHANGED <<netVars, pc, outcome, scheduled, pauseFile, seen, last>>

\* Mutant: no limit.
SeesNoProgress_Unlimited ==
  /\ At("wait")
  /\ ~Reached
  /\ Heights = last
  /\ still' = still + 1
  /\ UNCHANGED <<netVars, pc, outcome, scheduled, pauseFile, seen, last>>

SeesNoProgress ==
  /\ At("wait")
  /\ ~Reached
  /\ Heights = last /\ still < StallPolls
  /\ still' = still + 1
  /\ UNCHANGED <<netVars, pc, outcome, scheduled, pauseFile, seen, last>>

Stalls ==
  /\ At("wait")
  /\ ~Reached
  /\ Heights = last /\ still = StallPolls
  /\ Fail("stalled")
  /\ UNCHANGED <<netVars, scheduled>>

-----------------------------------------------------------------------------
(* Confirmation, and failures.                                             *)

AllSeen == DOMAIN seen = Nodes

\* _check_node_rotation(): asked once, and an unreachable node raises.
ConfirmsNode(n) ==
  /\ At("confirm")
  /\ n \in Nodes \ DOMAIN seen
  /\ chaos[n] # "down"
  /\ seen' = [x \in DOMAIN seen \cup {n} |->
                IF x # n THEN seen[x]
                ELSE tip[n] >= Target - 1 /\ InForceFrom(Target, Instruction.change)]
  /\ UNCHANGED <<netVars, pc, outcome, scheduled, pauseFile, last, still>>

Confirmed ==
  /\ At("confirm") /\ AllSeen
  /\ \A n \in Nodes : seen[n]
  /\ seen' = <<>>
  /\ Continue
  /\ UNCHANGED <<netVars, scheduled, pauseFile, last, still>>

NotConfirmed ==
  /\ At("confirm") /\ AllSeen
  /\ \E n \in Nodes : ~seen[n]
  /\ Fail("unconfirmed")
  /\ UNCHANGED <<netVars, scheduled>>

\* Compose raises, having started some of the services.
BringUpRaises ==
  /\ At("bringUp")
  /\ \E part \in SUBSET (SetB \ SetA) : Start(part)
  /\ Fail("raised")
  /\ UNCHANGED scheduled

\* A call raises: the first one of a script, or one to a node that is down, which
\* the wait takes as no answer unless tapyrusd answers with an error already.
CallRaises ==
  /\ \/ At("schedule")
     \/ (At("wait") \/ At("confirm")) /\ \E n \in Nodes \ DOMAIN seen : chaos[n] = "down"
  /\ Fail("raised")
  /\ UNCHANGED <<netVars, scheduled>>

Scripts ==
  \/ SchedulesHeight \/ TogglesPause \/ WritesFile \/ BringsUpNewSigners
  \/ \E n \in Nodes : ConfirmsNode(n)
  \/ HeightReached \/ SeesProgress \/ SeesNoProgress \/ Stalls
  \/ Confirmed \/ NotConfirmed \/ BringUpRaises \/ CallRaises

\* Blocks before the first height is read would only shift all heights, and once
\* the job has ended no chaos loop is looked at any more.
Environment ==
  /\ scheduled # <<>>
  /\ Network(pauseFile \/ ~Running)
  /\ UNCHANGED script

Next == Scripts \/ Environment

\* asyncio goes on with the script.
Spec == Init /\ [][Next]_vars
Fairness == WF_vars(Scripts) /\ NetFairness
FairSpec == Spec /\ Fairness

-----------------------------------------------------------------------------
(* Properties.                                                             *)

\* A script that passed has seen the change made: in force from the scheduled
\* height on, which signer-set-b's key has signed.  A script that says the
\* change is not there is right, whatever the chaos loops did meanwhile.
VerdictSound ==
  /\ \A c \in Changes : Passed(c) =>
       /\ InForceFrom(scheduled[c], c)
       /\ Top >= scheduled[c] /\ chain[scheduled[c]].key = "b"
  /\ \A c \in DOMAIN scheduled :
       outcome = "unconfirmed" /\ (c = "size" \/ "size" \notin DOMAIN scheduled)
         => ~InForceFrom(scheduled[c], c)

\* "signer-set-b took over at height ...": the key changes at the announced
\* height or not at all, whichever files the signers of a round have read.
Announced ==
  INSTANCE Handover WITH
    announced <- IF "b" \in DOMAIN scheduled THEN scheduled["b"] ELSE 0,
    signedBy <- [h \in DOMAIN chain |-> chain[h].key]
TakesOverAsAnnounced == Announced!Spec

\* The wait ends, by success, stall or error: also when the rotation halts the
\* chain for good, and when a chaos action was under way as it began.
ScriptsEnd == <>(~Running)

\* "no gap": once the rotation is in the chain any two members of signer-set-b
\* that keep running carry on, the one that is in both sets included.
QuorumOfB == Cardinality(alive \cap SetB) >= Threshold
NoGap ==
  (\E h \in DOMAIN chain : chain[h].change = "b") /\ QuorumOfB
    ~> ~QuorumOfB \/ \E h \in DOMAIN chain : chain[h].key = "b"
=============================================================================
