---------------------------- MODULE TrafficLedger ----------------------------
(***************************************************************************)
(* TrafficGenerator of scripts/generate_traffic.py: its ledger of what     *)
(* every wallet should hold, the sends it makes and its comparison of the  *)
(* ledger with the wallets, against a chain that goes on meanwhile.        *)
(*                                                                         *)
(* Each RPC of a gather that reads heights or balances is a step of its    *)
(* own.  pc says at which await the script is; PausedAt those that are     *)
(* inside of a pause block.                                                *)
(***************************************************************************)
EXTENDS TrafficNetwork

CONSTANTS
  Probe,           \* self._nodes[0], core-1a
  FundingPairs,    \* FUNDING_PAIRS: <<funder, recipient>>
  Reissuable,      \* the nodes whose NODE_TOKEN_TYPES is REISSUABLE
  CoinbaseBlocks,  \* blocks awaited before the funding (3 in the script)
  Rounds           \* self._round_count

ASSUME ProbeIsSteady == Probe \in Earners
ASSUME PairsOfNodes == FundingPairs \subseteq Nodes \X Nodes
ASSUME SomeWork == CoinbaseBlocks \in Nat \ {0} /\ Rounds \in Nat \ {0}

VARIABLES
  pc, stage, left,        \* where run() is; blocks or rounds still to do
  todo, color,            \* calls of the gather not made yet; who has a color_id
  pending, still, final,  \* PendingChanges before and after this pass; its final
  reads,                  \* answers of the gather under way
  heights, balances,      \* earlier answers kept by the script
  height, at,             \* a height read from the nodes; the next to credit
  ledger, last,           \* self._ledger, self._last_credited_height
  successes,              \* self._successful_round_actions
  alarm,                  \* self._mismatches: what the two sides differed in
  abandoned               \* history: transactions that a comparison was made without

ctlVars == <<pc, stage, left>>
sendVars == <<todo, color>>
changeVars == <<pending, still, final>>
readVars == <<reads, heights, balances, height, at>>
bookVars == <<ledger, last, successes>>
verdictVars == <<alarm, abandoned>>
scriptVars == <<ctlVars, sendVars, changeVars, readVars, bookVars, verdictVars>>
vars == <<netVars, scriptVars>>

Ended == {"passed", "failed", "raised"}

PausedAt == {"mempool", "seedBefore", "seedBalance", "seedAfter", "nextPoll",
             "waitPoll", "resync", "resolve", "verifyBalance", "verifyAfter"}

Unpaused == {"seed", "next", "wait", "current", "creditNext", "creditPass",
             "send", "converge", "resend", "verify", "finish"}

\* What a balance is made of.
Entries == ({"coinbase"} \X (1..MaxHeight)) \cup ({"tx"} \X (1..MaxTx))

Ids == 1..MaxTx
Calls == [by : Nodes, what : {"fund", "issue", "tpc", "color"}, to : Nodes]

TypeOK ==
  /\ NetTypeOK
  /\ pc \in PausedAt \cup Unpaused \cup Ended
  /\ stage \in {"before", "fund", "issue", "round"}
  /\ left \in Nat /\ successes \in Nat
  /\ todo \subseteq Calls
  /\ color \in [Nodes -> BOOLEAN]
  /\ pending \in Seq(SUBSET Ids) /\ still \in Seq(SUBSET Ids)
  /\ final \in BOOLEAN
  /\ DOMAIN reads \subseteq Nodes
  /\ DOMAIN heights \in {{}, Nodes} /\ DOMAIN balances \in {{}, Nodes}
  /\ height \in 0..MaxHeight + 1 /\ last \in 0..MaxHeight
  /\ at \in 0..MaxHeight + 1
  /\ ledger \in [Nodes -> [Entries -> 0..2]]
  /\ alarm \subseteq Nodes \X Entries
  /\ abandoned \subseteq Ids

Init ==
  /\ NetInit
  /\ pc = "mempool" /\ stage = "before" /\ left = 0
  /\ todo = {} /\ color = [n \in Nodes |-> FALSE]
  /\ pending = <<>> /\ still = <<>> /\ final = FALSE
  /\ reads = <<>> /\ heights = <<>> /\ balances = <<>>
  /\ height = 0 /\ at = 0
  /\ ledger = [n \in Nodes |-> [e \in Entries |-> 0]]
  /\ last = 0 /\ successes = 0
  /\ alarm = {} /\ abandoned = {}

-----------------------------------------------------------------------------
Goto(from, to) == pc = from /\ pc' = to

\* One more answer of a gather: f with v at n.
Put(f, n, v) == [m \in DOMAIN f \cup {n} |-> IF m = n THEN v ELSE f[m]]

AllRead == DOMAIN reads = Nodes

\* One more of an entry; two stands for more than one.
Once(count) == IF count < 2 THEN count + 1 ELSE count

ReachableHeights == UNION {HeightSeen(n) : n \in Nodes}

\* getblockcount of one node; it may be unreachable.
ReadHeight(n) ==
  /\ pc \in {"seedBefore", "seedAfter", "converge", "verifyAfter"}
  /\ n \notin DOMAIN reads
  /\ reads' = Put(reads, n, HeightSeen(n))
  /\ UNCHANGED <<netVars, ctlVars, sendVars, changeVars, heights, balances,
                 height, at, bookVars, verdictVars>>

\* getbalance of one node, retried until it is reachable.
ReadBalance(n) ==
  /\ pc \in {"seedBalance", "verifyBalance"}
  /\ n \notin DOMAIN reads
  /\ Up(n)
  /\ reads' = Put(reads, n, Balance(n))
  /\ UNCHANGED <<netVars, ctlVars, sendVars, changeVars, heights, balances,
                 height, at, bookVars, verdictVars>>

-----------------------------------------------------------------------------
\* Seeding.

WaitForEmptyMempool ==
  /\ Goto("mempool", "seed")
  /\ \A n \in Nodes : Up(n) /\ MempoolEmpty(n)
  /\ UNCHANGED <<netVars, stage, left, sendVars, changeVars, readVars,
                 bookVars, verdictVars>>

SeedPauses ==
  /\ Goto("seed", "seedBefore")
  /\ UNCHANGED <<netVars, stage, left, sendVars, changeVars, readVars,
                 bookVars, verdictVars>>

HeightsBefore ==
  /\ Goto("seedBefore", "seedBalance")
  /\ AllRead
  /\ heights' = reads /\ reads' = <<>>
  /\ UNCHANGED <<netVars, stage, left, sendVars, changeVars, balances, height,
                 at, bookVars, verdictVars>>

SeedBalances ==
  /\ Goto("seedBalance", "seedAfter")
  /\ AllRead
  /\ balances' = reads /\ reads' = <<>>
  /\ UNCHANGED <<netVars, stage, left, sendVars, changeVars, heights, height,
                 at, bookVars, verdictVars>>

SeedAgain ==
  /\ Goto("seedAfter", "seedBefore")
  /\ AllRead /\ reads # heights
  /\ reads' = <<>> /\ heights' = <<>> /\ balances' = <<>>
  /\ UNCHANGED <<netVars, stage, left, sendVars, changeVars, height, at,
                 bookVars, verdictVars>>

\* Mutant: the snapshot's height is that of the slowest node.
SeededHeight_Min == Min(UNION Range(reads))

SeededHeight == Max(UNION Range(reads))

\* No node's height changed while the balances were read.
Stable == AllRead /\ reads = heights

SeedLedger ==
  /\ Goto("seedAfter", "next")
  /\ Stable
  /\ ledger' = [n \in Nodes |->
                 [e \in Entries |-> IF e \in balances[n] THEN 1 ELSE 0]]
  /\ last' = SeededHeight
  /\ stage' = "fund" /\ left' = CoinbaseBlocks
  /\ reads' = <<>> /\ heights' = <<>> /\ balances' = <<>>
  /\ UNCHANGED <<netVars, sendVars, changeVars, height, at, successes,
                 verdictVars>>

-----------------------------------------------------------------------------
\* Blocks and their coinbases.

\* _wait_for_next_block begins: one above the slowest reachable node.
WaitForNextBlock(from, to) ==
  /\ Goto(from, to)
  /\ height' = Min(ReachableHeights) + 1
  /\ UNCHANGED <<netVars, stage, left, sendVars, changeVars, reads, heights,
                 balances, at, bookVars, verdictVars>>

NextBlockSeen(from, to) ==
  /\ Goto(from, to)
  /\ \A n \in Nodes : Up(n) /\ tip[n] >= height
  /\ height' = 0
  /\ UNCHANGED <<netVars, stage, left, sendVars, changeVars, reads, heights,
                 balances, at, bookVars, verdictVars>>

\* Mutant: the height of the fastest node is credited up to.
LowestHeight_Max == Max(ReachableHeights)

LowestHeight == Min(ReachableHeights)

\* Mutant: only the height just reached is credited.
CurrentHeight_LatestOnly ==
  /\ Goto("current", "creditNext")
  /\ height' = LowestHeight
  /\ at' = Max({last + 1, LowestHeight})
  /\ UNCHANGED <<netVars, stage, left, sendVars, changeVars, reads, heights,
                 balances, bookVars, verdictVars>>

\* _current_height, after chaos was resumed.
CurrentHeight ==
  /\ Goto("current", "creditNext")
  /\ height' = LowestHeight
  /\ at' = last + 1
  /\ UNCHANGED <<netVars, stage, left, sendVars, changeVars, reads, heights,
                 balances, bookVars, verdictVars>>

\* core-1a knows the block and the wallet of its earner the coinbase.
CoinbaseKnown(h) == tip[Probe] >= h /\ h <= Top /\ tip[earner[h]] >= h

Crediting == {"creditNext", "creditPass"}

CreditCoinbase ==
  /\ pc \in Crediting
  /\ at <= height
  /\ CoinbaseKnown(at)
  /\ ledger' = [ledger EXCEPT ![earner[at]][<<"coinbase", at>>] = Once(@)]
  /\ at' = at + 1
  /\ UNCHANGED <<netVars, ctlVars, sendVars, changeVars, reads, heights,
                 balances, height, last, successes, verdictVars>>

\* A chaos node's rewind does not take it back.
Advanced == Max({last, height})

ChangeSender(change) == txs[CHOOSE i \in change : TRUE].from

ChaosSenders ==
  {n \in ChaosNodes : \E k \in DOMAIN pending : ChangeSender(pending[k]) = n}

\* Where a pass goes on: _resolve_pending_changes returns early if there is
\* nothing to resolve.
AfterCredit ==
  CASE ChaosSenders # {} -> "resync"
    [] ChaosSenders = {} /\ pending # <<>> -> "resolve"
    [] OTHER -> "verify"

\* The calls of a gather.  The targets of a round are a rotation of the nodes.
Gather(s) ==
  CASE s = "fund" -> {{[by |-> p[1], what |-> "fund", to |-> p[2]] : p \in FundingPairs}}
    [] s = "issue" -> {{[by |-> n, what |-> "issue", to |-> n] : n \in Nodes}}
    [] s = "round" ->
         {{[by |-> n, what |-> w, to |-> f[n]] : n \in Nodes, w \in {"tpc", "color"}} :
            f \in {g \in [Nodes -> Nodes] :
                     IsInjective(g) /\ \A n \in Nodes : g[n] # n}}

\* The block of run() is credited: another one before the funding, or sends.
BlockCredited ==
  /\ pc = "creditNext" /\ at > height
  /\ last' = Advanced
  /\ height' = 0 /\ at' = 0
  /\ IF stage = "fund" /\ left > 1
     THEN pc' = "next" /\ left' = left - 1 /\ UNCHANGED todo
     ELSE pc' = "send" /\ todo' \in Gather(stage) /\ UNCHANGED left
  /\ UNCHANGED <<netVars, stage, color, changeVars, reads, heights, balances,
                 ledger, successes, verdictVars>>

PassCredited ==
  /\ pc = "creditPass" /\ at > height
  /\ last' = Advanced
  /\ at' = 0
  /\ pc' = AfterCredit
  /\ UNCHANGED <<netVars, stage, left, sendVars, changeVars, reads, heights,
                 balances, height, ledger, successes, verdictVars>>

-----------------------------------------------------------------------------
\* Sends.

\* The calls left after this one.  A node's coloured action follows its send:
\* if that was not made by then, it was refused.
Rest(call) ==
  {other \in todo \ {call} : call.what = "color" => other.by # call.by}

\* Mutant: one too many.
NewIds_OffByOne(k) == Len(txs)..Len(txs) + k

NewIds(k) == Len(txs) + 1..Len(txs) + k

\* k transactions of a call enter the sender's mempool.
Broadcast(call, k, to) ==
  /\ Up(call.by)
  /\ Len(txs) + k <= MaxTx
  /\ txs' = txs \o [i \in 1..k |->
              [from |-> call.by, to |-> to, stage |-> stage,
               own |-> TRUE, relayed |-> FALSE, height |-> 0]]
  /\ UNCHANGED <<earner, tip, chaos>>

\* Mutant: the change stands for the last transaction of the call alone.
Track_LastOnly(k) ==
  /\ pending' = Append(pending, {Len(txs) + k})
  /\ UNCHANGED verdictVars

\* A PendingChange for all of the call's transactions.
Track(k) ==
  /\ pending' = Append(pending, NewIds(k))
  /\ UNCHANGED verdictVars

LoseTrack(k) ==
  /\ abandoned' = abandoned \cup NewIds(k)
  /\ UNCHANGED <<pending, alarm>>

sendFrame == <<ctlVars, still, final, readVars, bookVars>>

\* sendtoaddress, or transfertoken by a node that has a color.
Send(call) ==
  /\ call.what \in {"fund", "tpc"} \/ (call.what = "color" /\ color[call.by])
  /\ Broadcast(call, 1, call.to)
  /\ todo' = Rest(call)
  /\ Track(1) \/ ("reply" \in Faults /\ LoseTrack(1))
  /\ UNCHANGED <<color, sendFrame>>

\* issuetoken, with a seed of its own unless the type is reissuable; or
\* reissuetoken, one transaction too.  The color is known once it answers.
Issue(call) ==
  LET k == IF call.by \in Reissuable THEN 1 ELSE 2
  IN /\ call.what \in {"issue", "color"}
     /\ Broadcast(call, k, call.by)
     /\ todo' = Rest(call)
     /\ \/ Track(k) /\ color' = [color EXCEPT ![call.by] = TRUE]
        \/ "reply" \in Faults /\ LoseTrack(k) /\ UNCHANGED color
     /\ UNCHANGED sendFrame

\* The seed was sent, then issuetoken fails.
IssueFailsAfterSeed(call) ==
  /\ "issue" \in Faults
  /\ call.what \in {"issue", "color"} /\ call.by \notin Reissuable
  /\ Broadcast(call, 1, call.by)
  /\ todo' = Rest(call)
  /\ LoseTrack(1)
  /\ UNCHANGED <<color, sendFrame>>

\* run() after a settled list of changes.
Settled ==
  /\ final' = FALSE
  /\ CASE stage = "fund" ->
            pc' = "send" /\ stage' = "issue" /\ left' = 0 /\ todo' \in Gather("issue")
       [] stage = "issue" ->
            pc' = "next" /\ stage' = "round" /\ left' = Rounds /\ todo' = {}
       [] stage = "round" /\ left > 1 ->
            pc' = "next" /\ left' = left - 1 /\ todo' = {} /\ UNCHANGED stage
       [] OTHER -> pc' = "finish" /\ left' = 0 /\ todo' = {} /\ UNCHANGED stage

\* The gather is over: the calls not made were refused, as each of them may
\* be.  _settle_pending has nothing to do for an empty list.
SendsMade ==
  /\ pc = "send"
  /\ IF stage # "round" /\ pending = <<>>
     THEN Settled
     ELSE pc' = "converge" /\ todo' = {} /\ UNCHANGED <<stage, left, final>>
  /\ UNCHANGED <<netVars, color, pending, still, readVars, bookVars, verdictVars>>

-----------------------------------------------------------------------------
\* One pass: _advance_ledger_and_resolve.

Agreed == AllRead /\ \E h \in 0..MaxHeight : Range(reads) = {{h}}

\* _settle_pending asks its clock before the pass, _settle_and_verify after.
Converged ==
  /\ Goto("converge", "creditPass")
  /\ Agreed
  /\ height' = CHOOSE h \in 0..MaxHeight : Range(reads) = {{h}}
  /\ at' = last + 1
  /\ reads' = <<>>
  /\ final' \in {final, final \/ stage # "round"}
  /\ UNCHANGED <<netVars, stage, left, sendVars, pending, still, heights,
                 balances, bookVars, verdictVars>>

ConvergePoll ==
  /\ Goto("converge", "converge")
  /\ AllRead /\ ~Agreed
  /\ reads' = <<>>
  /\ UNCHANGED <<netVars, stage, left, sendVars, changeVars, heights, balances,
                 height, at, bookVars, verdictVars>>

\* A chaos sender is at core-1a's tip or above.
SenderSynced(n) ==
  /\ pc = "resync"
  /\ n \in ChaosSenders \ DOMAIN reads
  /\ Up(n) /\ tip[n] >= tip[Probe]
  /\ reads' = Put(reads, n, HeightSeen(n))
  /\ UNCHANGED <<netVars, ctlVars, sendVars, changeVars, heights, balances,
                 height, at, bookVars, verdictVars>>

SendersSynced ==
  /\ Goto("resync", "resend")
  /\ ChaosSenders \subseteq DOMAIN reads
  /\ reads' = <<>>
  /\ UNCHANGED <<netVars, stage, left, sendVars, changeVars, heights, balances,
                 height, at, bookVars, verdictVars>>

\* resendwallettransactions: the wallets still know what their mempools lost.  A
\* node that refuses the call is passed over.
ResendWalletTransactions ==
  /\ Goto("resend", "resolve")
  /\ \A n \in ChaosSenders : Up(n)
  /\ \E resent \in SUBSET ChaosSenders :
       txs' = [i \in DOMAIN txs |->
                IF txs[i].from \in resent /\ ~ConfirmedAt(txs[i].from, i)
                THEN [txs[i] EXCEPT !.own = TRUE, !.relayed = TRUE] ELSE txs[i]]
  /\ UNCHANGED <<earner, tip, chaos, stage, left, sendVars, changeVars,
                 readVars, bookVars, verdictVars>>

\* Mutant: some transaction of the change is enough.
Confirmed_Any(change) ==
  \E i \in change : ConfirmedAt(ChangeSender(change), i)

\* gettransaction of the sender has a confirmation for each of them.
Confirmed(change) ==
  \A i \in change : ConfirmedAt(ChangeSender(change), i)

\* The fee and the deltas of a change.
Credited(change) ==
  [n \in Nodes |-> [e \in Entries |->
    IF e[1] = "tx" /\ e[2] \in change /\ n \in {txs[e[2]].from, txs[e[2]].to}
    THEN Once(ledger[n][e]) ELSE ledger[n][e]]]

resolveFrame ==
  <<netVars, ctlVars, sendVars, final, readVars, last, alarm>>

\* Mutant: setup changes count as round actions.
Apply_CountsSetup ==
  /\ pc = "resolve" /\ pending # <<>>
  /\ Up(ChangeSender(Head(pending)))
  /\ Confirmed(Head(pending))
  /\ ledger' = Credited(Head(pending))
  /\ successes' = successes + 1
  /\ pending' = Tail(pending)
  /\ UNCHANGED <<still, abandoned, resolveFrame>>

Apply ==
  /\ pc = "resolve" /\ pending # <<>>
  /\ Up(ChangeSender(Head(pending)))
  /\ Confirmed(Head(pending))
  /\ ledger' = Credited(Head(pending))
  /\ successes' = IF stage = "round" THEN successes + 1 ELSE successes
  /\ pending' = Tail(pending)
  /\ UNCHANGED <<still, abandoned, resolveFrame>>

\* Kept for a later pass, or dropped in the final one.
KeepOrDrop ==
  /\ pc = "resolve" /\ pending # <<>>
  /\ Up(ChangeSender(Head(pending)))
  /\ ~Confirmed(Head(pending))
  /\ IF final
     THEN abandoned' = abandoned \cup Head(pending) /\ UNCHANGED still
     ELSE still' = Append(still, Head(pending)) /\ UNCHANGED abandoned
  /\ pending' = Tail(pending)
  /\ UNCHANGED <<ledger, successes, resolveFrame>>

\* Setup goes on when nothing is left; a round compares, unless the mismatch
\* of its final pass is recorded already.
Resolved ==
  /\ pc = "resolve" /\ pending = <<>>
  /\ pending' = still /\ still' = <<>>
  /\ IF stage = "round" /\ ~final
     THEN pc' = "verify" /\ UNCHANGED <<stage, left, todo, final, height>>
     ELSE /\ height' = 0
          /\ IF still = <<>> THEN Settled
             ELSE pc' = "wait" /\ UNCHANGED <<stage, left, todo, final>>
  /\ UNCHANGED <<netVars, color, reads, heights, balances, at, bookVars,
                 verdictVars>>

-----------------------------------------------------------------------------
\* The comparison of _settle_and_verify.

VerifyPauses ==
  /\ Goto("verify", "verifyBalance")
  /\ UNCHANGED <<netVars, stage, left, sendVars, changeVars, readVars,
                 bookVars, verdictVars>>

VerifyBalances ==
  /\ Goto("verifyBalance", "verifyAfter")
  /\ AllRead
  /\ balances' = reads /\ reads' = <<>>
  /\ UNCHANGED <<netVars, stage, left, sendVars, changeVars, heights, height,
                 at, bookVars, verdictVars>>

Unmoved == AllRead /\ \A n \in Nodes : reads[n] = {height}

\* _diff_balances
Differences ==
  {d \in Nodes \X Entries :
     ledger[d[1]][d[2]] # (IF d[2] \in balances[d[1]] THEN 1 ELSE 0)}

\* All comparisons leave these behind.
Compared ==
  /\ pc = "verifyAfter" /\ AllRead
  /\ reads' = <<>> /\ balances' = <<>> /\ height' = 0
  /\ UNCHANGED <<netVars, color, still, heights, at, bookVars>>

\* The chain moved: the read is discarded.
Moved ==
  /\ Compared /\ ~Unmoved
  /\ pc' = "converge"
  /\ UNCHANGED <<stage, left, todo, pending, final, verdictVars>>

\* No difference: what is still pending is not tracked any further.
Matches ==
  /\ Compared /\ Unmoved
  /\ Differences = {}
  /\ abandoned' = abandoned \cup UNION Range(pending)
  /\ pending' = <<>>
  /\ Settled
  /\ UNCHANGED alarm

\* A change that is pending may explain it.
WaitsForPending ==
  /\ Compared /\ Unmoved
  /\ Differences # {} /\ pending # <<>>
  /\ pc' = "wait"
  /\ UNCHANGED <<stage, left, todo, pending, final, verdictVars>>

\* Recorded, with nothing pending or at the deadline; a final pass resolves
\* what is pending then, after the comparison.
Mismatches ==
  /\ Compared /\ Unmoved
  /\ Differences # {}
  /\ alarm' = alarm \cup Differences
  /\ abandoned' = abandoned \cup UNION Range(pending)
  /\ UNCHANGED pending
  /\ IF pending = <<>> THEN Settled
     ELSE pc' = "converge" /\ final' = TRUE /\ UNCHANGED <<stage, left, todo>>

MinRequired == Max({1, (Rounds * Cardinality(Nodes) * 2) \div 2})

Finish ==
  /\ pc = "finish"
  /\ pc' = IF successes < MinRequired \/ alarm # {} THEN "failed" ELSE "passed"
  /\ UNCHANGED <<netVars, stage, left, sendVars, changeVars, readVars,
                 bookVars, verdictVars>>

-----------------------------------------------------------------------------
\* A deadline passes while its condition does not hold, or a coinbase is not
\* where it is looked for.
Raises ==
  /\ \/ pc = "mempool" /\ \E n \in Nodes : ~Up(n) \/ ~MempoolEmpty(n)
     \/ pc = "seedAfter" /\ AllRead /\ ~Stable
     \/ pc \in {"nextPoll", "waitPoll"}
          /\ \E n \in Nodes : ~Up(n) \/ tip[n] < height
     \/ pc = "converge" /\ AllRead /\ ~Agreed
     \/ pc = "resync" /\ \E n \in ChaosSenders : ~Up(n) \/ tip[n] < tip[Probe]
     \/ pc = "resend" /\ \E n \in ChaosSenders : ~Up(n)
     \/ pc = "resolve" /\ pending # <<>> /\ ~Up(ChangeSender(Head(pending)))
     \/ pc \in {"seedBalance", "verifyBalance"}
          /\ \E n \in Nodes \ DOMAIN reads : ~Up(n)
     \/ pc \in Crediting /\ at <= height /\ ~CoinbaseKnown(at)
  /\ pc' = "raised"
  /\ UNCHANGED <<netVars, stage, left, sendVars, changeVars, readVars,
                 bookVars, verdictVars>>

Setup ==
  \/ WaitForEmptyMempool \/ SeedPauses \/ HeightsBefore \/ SeedBalances
  \/ SeedAgain \/ SeedLedger

Blocks ==
  \/ WaitForNextBlock("next", "nextPoll") \/ NextBlockSeen("nextPoll", "current")
  \/ WaitForNextBlock("wait", "waitPoll") \/ NextBlockSeen("waitPoll", "converge")
  \/ CurrentHeight \/ CreditCoinbase \/ BlockCredited

Sends ==
  \/ \E call \in todo :
       /\ pc = "send"
       /\ Send(call) \/ Issue(call) \/ IssueFailsAfterSeed(call)
  \/ SendsMade

Pass ==
  \/ Converged \/ ConvergePoll \/ PassCredited \/ SendersSynced
  \/ ResendWalletTransactions \/ Apply \/ KeepOrDrop \/ Resolved

Verify ==
  \/ VerifyPauses \/ VerifyBalances \/ Moved \/ Matches \/ WaitsForPending
  \/ Mismatches \/ Finish

Script ==
  \/ Setup \/ Blocks \/ Sends \/ Pass \/ Verify \/ Raises
  \/ \E n \in Nodes : ReadHeight(n) \/ ReadBalance(n) \/ SenderSynced(n)

\* The network is looked at until the script has ended.
Environment ==
  /\ pc \notin Ended
  /\ Network(pc \in PausedAt)
  /\ UNCHANGED scriptVars

Next == Script \/ Environment

Spec == Init /\ [][Next]_vars

-----------------------------------------------------------------------------
\* Nothing is credited twice: no coinbase that the seeded balances hold
\* already, none again after a chaos node's height went back, no change once
\* more in a later pass.
CreditedOnce == \A n \in Nodes : \A e \in Entries : ledger[n][e] <= 1

\* The ledger holds only what the chain holds: whatever becomes of a
\* broadcast, its deltas wait for the block.
OnlyConfirmed ==
  \A n \in Nodes : \A e \in Entries : ledger[n][e] > 0 =>
    IF e[1] = "coinbase" THEN e[2] <= Top ELSE txs[e[2]].height > 0

\* The height read without a pause is one that core-1a and the earners of all
\* blocks up to it have: no credit ends the run.
CoinbasesAreKnown ==
  pc \in Crediting => \A h \in at..height : CoinbaseKnown(h)

\* What is compared at a height has every coinbase up to it, and none above.
CreditedToHeight ==
  pc \in {"resync", "resend", "resolve", "verify", "verifyBalance", "verifyAfter"}
    => /\ last = height
       /\ \A h \in 1..height : ledger[earner[h]][<<"coinbase", h>>] = 1

\* The verdict on a node that chaos leaves alone is never the script's own
\* doing, except for a transaction that no change stood for: blocks that land
\* between any two reads, lagging and rewound nodes, lost mempools do not
\* show up as a mismatch there.
EarnersAlarmIsOfAbandoned ==
  \A d \in alarm : d[1] \in Earners =>
    d[2][1] = "tx" /\ d[2][2] \in abandoned

\* A run that passes did confirm half of its round actions on the chain.
PassedMeansTraffic ==
  pc = "passed" =>
    Cardinality({i \in DOMAIN txs : txs[i].stage = "round" /\ txs[i].height > 0})
      >= MinRequired

\* What the docstring of _settle_and_verify says of a recorded mismatch: it is
\* real.  The wallets of this model are always right.
MismatchIsReal == alarm = {}
=============================================================================
