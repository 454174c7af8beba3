# Verification of tapyrus-integration-tests

The repository drives a seven-node Tapyrus network in Docker through a weekly
integration test: it brings the network up, generates traffic, forces a reorg,
rotates the federation key and changes the maximum block size, while an
orchestrator inside each node's container restarts it and invalidates its tip.
What is checked here is the control of those scripts: who may stop, start or
replace what, in which order, what a script may rely on while it holds the
pause, and whether a recipe that reports success has seen what it claims.
tapyrus-core, tapyrus-signerd and Docker are the environment and are modelled
from what the scripts see of them.

## 1. Inventory

| Component (under `src/`) | State | Operations | Talks to |
|---|---|---|---|
| `scripts/container/node_orchestrator.py` | `_process`, `_lock`, the position in the shuffled cycle | `run`, `_restart`, `_invalidate_and_reconsider`, `_supervise_crashes`, `_shutdown` | its tapyrusd (RPC, signals), peers' RPC, the pause file, docker's SIGTERM |
| `scripts/lib/orchestrator_control.py` | pause file, `_depth` | `pause_node_orchestrators`, `resume_node_orchestrators` | every orchestrator through the file |
| `scripts/simulate_reorg.py` | baseline height, both fork tips, canary txid | one recipe | Docker, all nodes' RPC, signer configs |
| `scripts/lib/compose.py` | none | start, stop, recreate, wait for running | Docker |
| `scripts/generate_traffic.py` | expected balances, pending changes, credited heights, colors | seed, send round, settle, verify | all nodes' RPC, pause file |
| `scripts/simulate_federation_change.py` | scheduled height, the signers' `federations.toml` | two ceremonies, schedule, write, bring up, wait, confirm | tapyrus-setup, Docker, files, RPC |
| `scripts/simulate_maxblocksize_change.py` | scheduled height, `federations.toml` | sign off, schedule, write, wait, confirm | tapyrus-setup, files, RPC |
| `scripts/verify_seeder.py` | `os.environ`, node addresses, nodes that found a peer | two phases of bring-up and polling, a new node, tear-down | Docker, DNS seeder, RPC, `$GITHUB_ENV` |
| `scripts/start_node_orchestrator.py`, `wait_for_topology.py` | `os.environ`; the mismatches of an attempt | recreate the nodes, persist; poll | Docker, RPC, `$GITHUB_ENV` |
| `scripts/lib/ceremony.py`, `generate_dev_secrets.py`, `sign_genesis.py`, `assemble_signer_configs.py` | files under `secrets/`, `runtime/` | createkey to aggregate; createblockvss to computesig; write configs | tapyrus-setup |
| `scripts/render_tapyrus_conf.py`, `collect_coinbase_addresses.py` | one file | one pass | RPC |
| `scripts/lib/rpc.py`, `log.py`, `checkout_repos.py`, workflow, images | none | | |

How they interact. The scripts run one after the other on the host. Each
container runs its orchestrator as PID 1 (`entrypoint_wrapper.sh` execs it), and
nothing restarts a container. The only channel from a script to the
orchestrators is the pause file; the only effects of an orchestrator a script
sees are its node's RPC answers. Signers produce blocks all the time, between
any two steps of any script.

What is hard, and what makes each part correct:

- *Node orchestrator*: three asyncio tasks replace, watch and stop one process.
  It must never run two tapyrusd on one data directory, never bring back a node
  that is to stay down, never restart what a shutdown stops, and never lose the
  lock when a call raises. Every exit must be handled in the end.
- *Pause*: a file, looked at now and then, has to work as a gate for all nodes,
  with blocks that nest and overlap and scripts that die.
- *Reorg*: the two forks must stay apart and part at the recorded baseline
  although blocks land at any moment, and the verdict must hold of the network.
- *Traffic*: the ledger must follow the wallets across blocks, reorgs,
  lost answers and restarts without false alarms, and without absorbing a real
  loss.
- *Federation and block size change*: a height is announced, then five files are
  written one by one while rounds go on and each signer reads its own file when
  it notices. The key must change at that height or not at all, the members that
  keep running must carry on, and no wait may last for ever.
- *Start-up*: compose replaces a container whenever the environment of the
  present process resolves differently; lookups are made once; the seeder
  remembers addresses of containers that are gone.
- *Ceremonies*: a dozen files per set, written one by one by a script that may
  die, and read by others, in runs that may be repeated.

## 2. Modules

| Module | Models |
|---|---|
| `PauseGate` | abstract: what one chaos loop promises about the pause file |
| `NodeOrchestrator` | one container in full: action loop, restart, invalidation, supervisor, shutdown, tapyrusd, docker stop |
| `OrchestratorControl` | the pause file and depth counter under scripts and their blocks |
| `ChaosWindow` | `OrchestratorControl` composed with the loops of all chaos nodes |
| `Reorg` | the reorg recipe over a network that produces and relays blocks |
| `TrafficNetwork` | the chain, the wallets and the mempools that `generate_traffic.py` talks to |
| `TrafficLedger` | `generate_traffic.py`: seeding, sends, settling, verdict |
| `Handover` | abstract: what a rotation of the federation key promises |
| `SignerNetwork` | chain, core nodes and signers that the two change scripts talk to |
| `FederationChange` | `simulate_federation_change.py`, then `simulate_maxblocksize_change.py` |
| `Deployment` | `verify_seeder.py`, `start_node_orchestrator.py`, `wait_for_topology.py`, a later script's restart |
| `Ceremony` | the ceremonies and the files under `secrets/`, and what is assembled from them |
| `NodeOrchestratorProofs`, `ChaosWindowProofs`, `ReorgProofs`, `ReorgVerdictProofs`, `TrafficLedgerProofs`, `FederationChangeProofs`, `DeploymentProofs`, `CeremonyProofs` | the proofs about the modules they are named for |
| `MC*` | the instances for TLC |

### NodeOrchestrator

Every `await` of the code is the end of an action, so the three tasks, tapyrusd
and the host interleave exactly where asyncio lets them. `main`, `supervisor`
and `shutdown` say at which await each task is; the actions are named for what
ends that await (`RestartStopAnswered`, `RestartKillRaises`, `ShutdownExited`).
`proc` is the life of the process `self._process` refers to; `returncode is not
None` is `proc \in Exited`. `_launch()` replaces it (`Replace`): a process that
was still alive then becomes one of the `strays`. The supervisor's local
`process` is only ever compared with `self._process`, so `snapshot` keeps
whether they are still the same. `lock` is `self._lock`.

Abstractions: time is left out, so a sleep, a poll or a time-out may end at any
later moment; restart flavours differ in a command-line flag only; the block
counting of `_wait_out_downtime` is one wait that ends. The supervisor's
snapshot of a replaced process is taken to have exited, which `OneTapyrusd`
shows it has.

### PauseGate and ChaosWindow

`PauseGate` has four phases: between actions, queued at the gate, waiting out
the jitter, acting. `NodeOrchestrator` implements it with `gatePhase`.
`ChaosWindow` has one phase per node and the same five moves, so that several
nodes can be checked at once against the blocks of the scripts.
`started[n]` counts the actions node n began since the file was last created; it
stops at 2, which already breaks the property about it.

A block of `OrchestratorControl` is one `pause; try: ... finally: resume`. Blocks
open and close in any order because `generate_traffic.py` gathers coroutines. A
killed script runs no `finally`: `leftover` remembers that the file is its.

### Reorg

The recipe is a program: a sequence of instructions, one for each await of
`simulate_reorg.py` that reads or changes the network, built up from one
operator per method of `ReorgSimulator`. `pc` is the instruction the script is
at, 0 once it raised. Between any two instructions the network may produce a
block (`Produce`, with 2 of 3 signers whose node answers), relay one (`Adopt`),
let a node hear of a competing tip (`HearOf`) or lose a signer. A chain is the
sequence of its blocks; a block is named by the signer deployment (`era`) that
made it, which tells the blocks of the isolated builds apart. The gathers of
`_wait_for_matching_tips`, `_confirm_tie_holds` and `_confirm_convergence` read
one node at a time, with the network moving in between.

Left out: the canary transaction (its fate is tapyrus-core's mempool), redis,
time-outs as durations (any instruction that awaits may raise at any time), a
repoint that fails with only some of the signers' files written, and the chaos
loops, which `_build_baseline` runs under without a pause.

### TrafficNetwork and TrafficLedger

`TrafficNetwork` is the environment: one chain, whose blocks an earner's own
node has first, nodes that catch up one block at a time, and transactions that
are in the sender's mempool, relayed to the others, or in a block. A balance is
the set of coinbases and transactions that a wallet accounts for, so amounts,
fees and colors need no numbers: two balances are equal when they account for
the same things. Chaos loops reach the network through their effects: a node
rewound by one block or down, with a mempool that may forget. A loop that is
past its gate (`armed`) still acts after a pause began, as section 5 explains.
`Faults` names what may go wrong in an instance.

`TrafficLedger` is the script. `pc` is the await it is at, and each node's
answer to a gather of heights or balances is a step of its own (`reads`), so
blocks, restarts and rewinds fall between any two of them. `PausedAt` is the set
of awaits inside a pause block; during these no loop passes its gate. `ledger`
counts how often each entry was credited, which makes a double credit visible; a
`PendingChange` is the set of transactions it stands for. `stage` tells funding,
issuance and rounds apart, which settle differently. `abandoned` is a history
variable: the transactions that a comparison was made without, because the call
that made them failed for the script or because their change was dropped.

Abstractions: a deadline may pass whenever its condition does not hold; the
polls of a wait for the next block are one condition over all nodes; a call that
is not made before its gather ends was refused; addresses are known from the
start; each round compares all entries where the code compares the colors it
knows; the gather of `_current_height` is answered at one moment, unlike those
whose answers are kept; a reissuable issuance, which may take two transactions
besides its seed, is one (calls of two occur in the rounds). A node may refuse
`resendwallettransactions`, which the script passes over, and each wait of a pass,
the resend and the resolving included, may raise at its time-out. The environment
is looked at until the script has ended.

### SignerNetwork, FederationChange and Handover

`Job` is both scripts as one program: an instruction for each await and for each
file that `_write_atomic` replaces. A failed script ends the job, as the workflow
does. A block is the key that signed it and the change it carries; a change in
block H-1 is in force from H on and that is the height its history lists
(`InForceFrom`). A signer takes part in a block if its own file, as it last read
it, makes it a member at that height, names the block's key, and has the block's
change for the height after; a block needs `Threshold` of them (`Signs`,
`Produce`). So a round in which some signers have read the new file and others
have not either finds a threshold of one mind or makes no block. `Reload` and
`WritesFile` come in any order; a new signer may exit (`Mortal`), bring-up may
start one of two. Chaos loops are those of `TrafficNetwork`.

Each gather of `_wait_for_height` is read at one moment: every answer is only
compared with the target and with the same node's answer before. The gather of
the confirmation is read node by node. Equal heights stand for equal best block
hashes, except at `MaxHeight`, where the chain really goes on (`BeyondBound`).
Blocks before the first height is read would only shift all heights. A height
that would lie beyond `MaxHeight` counts as a failed call. `core-1a` has every
block at once: it is the node of a signer that is in both sets, and no chaos loop
acts on it, so the announced height is never computed from a node that is behind. A
write of a file does not raise.

`Handover` is the promise: the height is announced ahead, the new key signs from
exactly then on or never. `FederationChange` implements it with `announced` for
the scheduled height and `signedBy` for the keys of the chain.

### Deployment

`Job` is the three scripts and a later one that stops two nodes and starts them
again. `env` is `os.environ` of the running process, `persisted` what
`$GITHUB_ENV` adds to the next ones. `Resolved` is what `docker-compose.yml` makes
of it for a service, and `ComposeUp` replaces a container whose `config` differs;
a replaced container has a new address (`created`). The seeder answers with the
addresses it found good; `-addseeder` asks once per process (`known`); a node
dials one peer by itself, or its `-connect` peers. The waits have no time-outs:
`ComesUp` says that none is needed, and that the new node never has only peers that
its verification would raise at. RPC polls after a start, cookies and the `dig`
check are left out, and so are failures of a call within a poll, which end the job
as a failure of compose does. `stop` and the `rm -f` after it are one step: a job
that fails between them leaves containers stopped rather than running.

### Ceremony

`disk[s]` has the files of a set by name, a content being the run that wrote it
and what it was made from; `Torn` is a file that was opened and not written. Each
method of a ceremony is an action that writes its files, or dies after any of
them (`Step`). A script starts when its own guards allow it, at any time and
again and again, and a set may be removed between two runs. A script that only
reads a file takes what there is, be it nothing (`Exists`); where the value goes on
to `tapyrus-setup`, or is searched for a line, an empty one ends the script there
(`Readable`). `assemble_signer_configs.py` does neither with the aggregated key,
and copies an empty one. `extract_vss_for` is
`Addressed`. The `public-key.txt` and `signer.key` of the signer that both sets
share are copied. Left out: thresholds that differ between two scripts, and two
scripts on one set at once.

## 3. Runs

| Run | Instance | Shows |
|---|---|---|
| `node_orchestrator` | a chaos node, all interleavings, fair | the safety properties, the refinement of `PauseGate`; exits are handled, the lock is released, a pause quiets the node, each action recurs |
| `chaos_window` | 3 nodes, 3 blocks, fair | the file agrees with the open blocks; one straggler per pause; a held block quiets all nodes |
| `reorg` | 4 nodes, 3 signers, forks of 1 block | the forks stay apart, part at the baseline, and the verdict holds |
| `traffic` | 1 earner, 1 chaos node under chaos, fresh chain | nothing is credited early or too late; an earner's mismatch is never the script's own doing; a pass means traffic |
| `traffic_carried_over` | 2 earners, 1 chaos node that lags, lost answers, half-failed issuances; a chain with an earlier script's balances | over a seed that is not empty no coinbase is credited twice, nor looked for too early |
| `federation_change` | 3+3 signers of which one is in both sets, 2 nodes, one of them under chaos, one mortal signer, fair | the hand-over is as announced; verdicts hold; every wait ends; no gap for the members that run |
| `deployment` | 2 listening nodes and `core-7`, 2 chaos restarts, fair | the counts that converge are those of the graph; no core node is recreated; every wait ends |
| `ceremony` | 2 signers a set, 4 runs of a script | the files beside an aggregated key are of its run, a configuration mixes no runs; a block-vss signs one payload; a signature combines one round |
| `crash_recovery`, `shutdown_ends`, `traffic_seed`, `drift_outside_actions` | | expected violations, section 5 |

Bounds. `NodeOrchestrator` has none: its state is finite, one crash or docker
stop at any moment, any number of times. Three blocks are enough for one to be
opened and closed inside and across two others; the proofs cover any number. In
`reorg`, `core-1a` and `core-2a` stand for their pairs: like these they have no
link but through `core-7`. Forks of one block and `MaxHeight` 5 leave room for
one late block in every phase (baseline 1, fork 1, extension 2, late 1).
In the traffic runs one node of each kind is enough, as nodes differ only in
whether they earn and whether chaos acts on them, and a second earner is there
for coinbases that not the probe earned. `MaxHeight` 3 is a block before or
during the seeding, the funding's wait and one block that lands while a pass is
under way; `MaxTx` 2 is a call of two transactions, or two changes pending at
once of which one is confirmed first. A call beyond `MaxTx` is refused, which
the script takes as a failed send; a chain at `MaxHeight` produces no block,
which ends its waits at their deadlines. One round, one awaited coinbase block.
In `federation_change`, `MaxHeight` 4 and an offset of 2 put the rotation at 2 and
the block size anywhere up to 4, with blocks before, between and after; one
stalled poll stands for the stall time-out, as each poll may fall between any
two steps. `core-1a` is asked for the height and is the first signer's node,
`core-7` stands for all nodes that chaos acts on; the signer that dies is one of
the two new ones, of which two or one is then left to sign with the shared one.
In `deployment` two listening nodes, one with a `-connect` and one without, and
`core-7`, which has one and does not listen, are the three kinds of node. In
`ceremony` four runs are a set, a rotation that dies, one that succeeds and a
block-size sign-off; or a set, two signings, and a regeneration. Two signers
make files of different runs meet.
Deadlock is not checked where the system may stop: an exited container, a
finished recipe.

Fairness. asyncio runs every task that can go on, and every sleep and time-out
of the code ends: weak fairness of each task. `asyncio.Lock` wakes its waiters
in order: strong fairness of the steps that take it. A process that was sent
SIGKILL exits. In `SignerNetwork` rounds recur while a threshold agrees, blocks
are relayed, changed files are noticed and chaos actions end; a node that never
came back while others advance would keep `_wait_for_height` waiting, for its
stall time-out begins anew at each new tip. In `Deployment` processes make their
lookup, dial, and the seeder gets round to each node. Nothing is assumed of crashes, of the host, of RPC answers or of
tapyrusd becoming ready, so `ExitIsHandled` names the ways out.

## 4. Proofs

Every invariant and every safety property of an action that a run checks is
proved for all values of the constants, and so are both refinements. Each proof
goes by an inductive invariant with one lemma per action, or per group of actions
that leave the same variables alone.

`NodeOrchestratorProofs` proves all five safety properties of the run
`node_orchestrator` and the refinement of `PauseGate`. `OneTapyrusd` is not
inductive: that a relaunch only ever replaces an exited process depends on the
lock, on the program counters and on the snapshot. The invariant is `IInv ==
TypeOK /\ Tasks /\ Slot`: `Tasks` says which task holds the lock at which
program counter, and that a task that has not been started is not there; `Slot`
ties the life of `proc` to them (exited throughout a downtime, and whenever a
task is about to replace it). The only assumption is that `ChaosNode` is a
Boolean.

`ChaosWindowProofs` proves, for any finite set of blocks and any set of nodes,
that the counter equals the number of open blocks (`DepthIsExact`), hence that
the file exists while one is open and is otherwise a leftover, and that a node
begins at most one action per pause (`AtMostOneStraggler`). The straggler bound
needs `SpentJitter`: a node that used its one start is not in its jitter while
the file is there.

`FederationChangeProofs` proves, for any signers, nodes, threshold and offset of at
least one block, that the rotation implements `Handover` (`HandsOverAsAnnounced`).
The invariant `IInv` says that `core-1a` has every block, that an entry for the
new key, read or written, is for the one scheduled height, that a block carries
that change only just below it, and that a block is signed with the new key
exactly if one below it carries the change. Threshold counts enter only through
there being at least one signer to a block. Assumed of the constants is what
`SignerNetworkAssumption` and `FederationChangeAssumption` say: the signers of a
set come in an order, no chaos loop acts on the probed node, the threshold and
the offset are positive. With an offset of 0 the announced height could be one
that is already there.

The same module proves the verdicts of both scripts (`VerdictIsSound`), with a
second invariant `VInv`. The pause is on from the second instruction of a change
to the last but one, so a node that had the target height when the wait passed
has lost at most its tip since, by the one action that had passed its gate
(`StillThere`); `Reaches` says what height and which change the chain has behind
each wait, and `ReadRight` that what the confirmation reads of a node is what is
in force there and stays so.

`ReorgProofs` proves the type invariant, that the nodes are split only under a
pause (`SplitIsPaused`), that a finished recipe leaves signers, nodes and
configuration as it found them (`SuccessRestores`), and that no chain has blocks of
both isolated builds (`GroupsForkApart`), for any two groups, any links between
them, any hosts and any length of the forks. Its invariant says what the place of
the recipe makes of the network (`Staged`), and why no block of group B's build
comes within reach of one made for group A's (`Apart`: until the groups are
joined no block of one is at the other, and group A's build is stopped by then).
`ReorgVerdictProofs` builds on it: the forks part where the recipe recorded its
baseline, and a confirmed reorg is one. What a gather has read may be out of date
when it ends, and a block may land between the reading of `tipA` and the stop of
the signers. The invariant therefore follows the longest chains: a node with a
longest chain never leaves it while no block is made, so it was read as it is
(`Longest`); group B's host keeps its chain or remembers it as a tip, which the
confirmation refuses (`HostKeepsFork`); if group A's chain outgrew `tipA`, a node
that is still to be read has it (`TieIsLongest`).

`TrafficLedgerProofs` proves the seven invariants of the traffic runs, for any
nodes, faults and bounds. Its invariant relates three sides. Of the chain: an
earner has the blocks it earned and is never rewound (`NetInv`). Of the books:
each coinbase is booked once, at its earner, and at every credited height
(`CoinbasesBooked`); each transaction is booked at its parties at most once, and
never while a pending change stands for it (`ChangesBooked`, `ChangesProper`);
every transaction is booked, pending or abandoned (`Accounted`). Of the answers
in hand: a balance that an earner gave during a seed or a pass is its balance at
some height between the one the ledger stands for and the earner's tip, and the
heights read before and after it bracket that one (`SeedReads`, `PassReads`).
That is why an unchanged height makes a balance comparable, and why the
mismatch of an earner can only be at an abandoned transaction. A pass means
traffic as each counted success is a round action on the chain
(`SuccessesAreReal`). Beyond sets and bounds being what they are called, it is
assumed that the instance has room for what an earlier script left behind
(`RoomForCarriedOver`): one block, and one transaction for each chaos node.

`DeploymentProofs` proves that the converged topology is the `-connect` graph
(`TopologyIsTheGraph`), for any nodes and graph. At the poll every connection is
one of the graph's edges (`Connected`): all nodes were removed first, which ended
what the seeder and the lookups had made, and are brought up in connect mode with
seeder and test node gone; so each node's peers are among its neighbours, and as
many as there are neighbours is all of them. That no core node is replaced
(`CoresAreKept`) and that every node was given its genesis block
(`TypesOfDeployment`) are proved under the hypothesis `GithubActions`: without a
`$GITHUB_ENV` both fail, as run `drift_outside_actions` shows for the first. The
invariant says what each place of the job makes of the environment (`Settings`), of
what the containers were created with (`Containers`) and how often
(`Generations`); the environment that is persisted by the end of the start-up
resolves every core node to the configuration it has.

`CeremonyProofs` proves for any number of signers, payloads, runs and deaths that
where an aggregated key's file exists all files beside it are of the run that wrote
it, and that no configuration mixes two runs (`FilesOfASetBelongTogether`), that a
block-vss serves one payload (`OnePayloadPerNonce`) and that a signature combines
one round (`SignaturesAreOfOneRound`). The invariant says what a step finds on disk
from the one before it in its script (`Ready`), what stays true of the files of a
set whatever run died over them (`SetsCoherent`; the file of the aggregated key
comes last, after `pubkeys.txt`, so the guard on the latter is enough), and that a
signing run uses the nonces it made itself (`OwnNonces`). That file may be there and
empty, of a run that died in writing it. Set a's configurations may then have the
empty key. Set b's never do: `simulate_federation_change.py` assembles in the run
that wrote the key, and `simulate_maxblocksize_change.py` after a sign-off that has
used it (`KeyInHand`).

What stays with TLC is liveness, which the prover cannot reach under fairness:
`ExitIsHandled`, `LockIsReleased`, `PauseQuiets`, `CycleCoversAll`,
`HeldBlockQuietsAll`, `ScriptsEnd`, `NoGap` and `ComesUp`. That
`generate_traffic.py` ends is not stated: `_settle_and_verify` starts over
without asking its clock when the chain moved during a comparison (788-789), so
it ends only if blocks pause often enough.

## 5. What the code does not do

Each is a run TLC finds violated; `PROJECT.json` quotes the sentence.

- A relaunch that fails ends the supervisor (`crash_recovery`).
- A shutdown can raise at `terminate()` and leave the container running
  (`shutdown_ends`).
- The ledger may be seeded with a stale balance (`traffic_seed`): a chaos node
  whose tip was invalidated just before the pause stays a block behind for both
  readings of its height, and is short of that block's payments ever after.
  `EarnersAlarmIsOfAbandoned` is what does hold of the earners.
- Outside of GitHub Actions nothing persists the environment, and a later
  script's `up` replaces a core node (`drift_outside_actions`).

Known and without a run of their own:

- An action may begin under a pause: the jitter is not followed by another look
  at the file. `AtMostOneStraggler` is what does hold.
- An invalidated tip may stay so, after a failed `reconsiderblock` or a lost
  answer of `invalidateblock`.
- The tie of the reorg recipe need not be one, if a block lands between the
  height check and the stop of the signers; `VerdictSound` shows that the recipe
  then fails rather than reports a wrong success.
- `assemble_signer_configs.py` reads `aggregated-public-key.txt` without a look at
  what is in it (189). A ceremony that died as it wrote that file leaves it empty,
  and the signers get a `federations.toml` with an empty key beside that run's
  node-vss; `SetIsCoherent` allows exactly this. It supposes that `tapyrus-setup`
  refuses an empty key, which ends the two sign-offs before anything is assembled.
- A send whose answer is lost, like a seed whose issuance fails, leaves a mismatch
  that no later pass removes: `EarnersAlarmIsOfAbandoned` excuses it.
- A node that a chaos action which passed its gate before the pause takes down fails
  the confirmation of a change that is in force: each node is asked once.
- A rotation that fails after some files were written halts the chain at the
  scheduled height if fewer than a threshold agree there (`NoGap` is about the
  rotations that got into the chain), and a ceremony that died after
  `pubkeys.txt` is refused until its set is removed.

## 6. Plan

1. Done: `PauseGate`, `NodeOrchestrator`, `OrchestratorControl`, `ChaosWindow`,
   `Reorg`, and their proofs.
2. Done: the traffic ledger (`TrafficNetwork`, `TrafficLedger`).
3. Done: the two changes and their hand-over (`SignerNetwork`,
   `FederationChange`, `Handover`), with the stall detector; the refinement is
   proved.
4. Done: start-up, seeder and topology (`Deployment`).
5. Done: ceremonies and configuration assembly (`Ceremony`).
6. Done: every safety property that a run checks is proved (section 4).
7. `Reorg` composed with `ChaosWindow`: stragglers inside the recipe.
8. Proofs of more than the runs state: what `NoGap` needs of safety, that two
   members who read one file agree on every block's key.

Not modelled, and not planned: the RPC client, whose three outcomes are the
alternatives of the actions that call it; logging and repository checkout, which
keep no state; `render_tapyrus_conf.py` and `collect_coinbase_addresses.py`, which
write one file from their arguments or from one answer per node; the workflow
and the images, whose facts (one script after the other, the orchestrator as PID
1, no restart policy) are built into the models; tapyrus-core, tapyrus-signerd,
tapyrus-setup and the seeder, which are the environment.
