----------------------------- MODULE Deployment ------------------------------
(***************************************************************************)
(* How the core nodes come up: scripts/verify_seeder.py, then              *)
(* scripts/start_node_orchestrator.py, scripts/wait_for_topology.py, and a *)
(* later script that stops nodes and starts them again.                    *)
(*                                                                         *)
(* Each script is a process with an environment of its own, from which     *)
(* docker compose resolves the configuration of every service it brings    *)
(* up: a container whose configuration differs is replaced.  The job is a  *)
(* program of instructions, one per await; containers, the seeder's crawl  *)
(* and the connections between nodes move between any two.                 *)
(***************************************************************************)
EXTENDS Naturals, FiniteSetsExt, SequencesExt

CONSTANTS
  Cores,          \* CORE_NODES
  ConnectTo,      \* CONNECT_MODE_ARGS: the nodes each one has a -connect to
  NotListening,   \* those of them with a -connect and no -listen
  LaterGroup,     \* the nodes that a later script restarts
  GithubActions,  \* $GITHUB_ENV is there to persist the environment in
  MaxRestarts     \* bound on the restarts by chaos loops

Seeder == "seeder"
TestNode == "seeder-test-node"
Services == Cores \cup {Seeder, TestNode}
ListeningNodes == Cores \ NotListening

ASSUME DeploymentAssumption ==
  /\ IsFiniteSet(Cores) /\ Cores \cap {Seeder, TestNode} = {}
  /\ ConnectTo \in [Cores -> SUBSET Cores] /\ NotListening \subseteq Cores
  /\ LaterGroup \subseteq Cores
  /\ GithubActions \in BOOLEAN /\ MaxRestarts \in Nat

VARIABLES
  pc,        \* the instruction the job is at; 0 once a script raised
  env,       \* os.environ of the running script
  persisted, \* what $GITHUB_ENV adds to that of every later one
  ips,       \* node_ips of verify_seeder.py
  seen,      \* what a poll has read so far, node by node
  status,    \* status[s]: the container of service s
  config,    \* config[s]: what it was created with
  created,   \* created[s]: how often one was created, which tells its address
  good,      \* the addresses the seeder answers with
  known,     \* known[s]: what its one -addseeder lookup gave, as a set of answers
  links,     \* who opened a connection to whom
  restarts   \* the restarts by chaos loops so far

script  == <<pc, env, persisted, ips, seen>>
network == <<status, config, created, good, known, links, restarts>>
vars == <<script, network>>

Environment ==
  [genesis : BOOLEAN, seederIp : Nat,
   args : {"none", "addseeder", "connect"}, orchestrator : BOOLEAN]
Empty == [genesis |-> FALSE, seederIp |-> 0, args |-> "none", orchestrator |-> FALSE]

Address(s) == <<s, created[s]>>

-----------------------------------------------------------------------------
(* The program.                                                            *)

Op(name) == [op |-> name]
Compose(command, group) == [op |-> command, group |-> group]
NewProcess == Op("newProcess")
SetArgs(mode) == [op |-> "setArgs", mode |-> mode]
Await(name, group) == [op |-> name, group |-> group]

\* _bring_up_seeder()
BringUpSeeder == << Compose("up", {Seeder}), Op("seederIp") >>

AddseederPhase ==
  << SetArgs("addseeder"), Compose("up", Cores), Op("resolve"),
     Await("dns", Cores), Compose("restart", Cores), Await("peers", Cores) >>

\* Mutant: the seeder of the first phase is kept.
ConnectPhase_SeederKept ==
  << Compose("remove", Cores), SetArgs("connect"),
     Compose("up", Cores), Op("persistSeeder") >>

ConnectPhase ==
  << Compose("remove", Cores \cup {Seeder}), SetArgs("connect") >>
    \o BringUpSeeder
    \o << Compose("up", Cores), Op("persistSeeder") >>

VerifyNewNode ==
  << Op("seederIp"), Compose("up", {TestNode}), Await("bootstrap", {TestNode}) >>

\* Mutant: what the verification started is left running.
VerifySeeder_LeftRunning ==
  << NewProcess, Op("setGenesis") >> \o BringUpSeeder \o AddseederPhase \o ConnectPhase
    \o << Op("resolve"), Await("dns", ListeningNodes) >> \o VerifyNewNode

\* Mutant: the genesis of the previous job is relied on.
VerifySeeder_NoGenesis ==
  << NewProcess >> \o BringUpSeeder \o AddseederPhase \o ConnectPhase
    \o << Op("resolve"), Await("dns", ListeningNodes) >> \o VerifyNewNode
    \o << Compose("remove", {TestNode, Seeder}) >>

\* SeederVerifier.run()
VerifySeeder ==
  << NewProcess, Op("setGenesis") >> \o BringUpSeeder \o AddseederPhase \o ConnectPhase
    \o << Op("resolve"), Await("dns", ListeningNodes) >> \o VerifyNewNode
    \o << Compose("remove", {TestNode, Seeder}) >>

StartNodeOrchestrator ==
  << NewProcess, Compose("remove", Cores), Op("setGenesis"), Op("setOrchestrator"),
     SetArgs("connect"), Compose("up", Cores), Op("persistOrchestrator") >>

WaitForTopology == << NewProcess, Op("topology") >>

\* stop_nodes() and start_nodes() of a later script
LaterScript == << NewProcess, Compose("stop", LaterGroup), Compose("up", LaterGroup) >>

Job == VerifySeeder \o StartNodeOrchestrator \o WaitForTopology \o LaterScript

Running == pc \in DOMAIN Job
Failed == pc = 0
At(op) == Running /\ Job[pc].op = op
Instruction == Job[pc]
Continue == pc' = pc + 1
Past(op) == pc > CHOOSE i \in DOMAIN Job : Job[i].op = op

\* Among the rest: a tapyrusd that runs was given a genesis block to load.
TypeOK ==
  /\ pc \in 0..Len(Job) + 1
  /\ env \in Environment /\ persisted \in Environment
  /\ status \in [Services -> {"absent", "stopped", "running"}]
  /\ \A s \in Services : config[s] \in Environment /\ created[s] \in Nat
  /\ \A s \in Services \ {Seeder} : status[s] = "running" => config[s].genesis
  /\ good \subseteq {<<s, i>> : s \in Cores, i \in 1..3}
  /\ \A s \in Services : Cardinality(known[s]) <= 1
  /\ \A l \in links : status[l[1]] = "running" /\ status[l[2]] = "running"
  /\ restarts \in 0..MaxRestarts

Init ==
  /\ pc = 1
  /\ env = Empty /\ persisted = Empty
  /\ ips = {} /\ seen = <<>>
  /\ status = [s \in Services |-> "absent"]
  /\ config = [s \in Services |-> Empty]
  /\ created = [s \in Services |-> 0]
  /\ good = {} /\ links = {} /\ restarts = 0
  /\ known = [s \in Services |-> {}]

-----------------------------------------------------------------------------
(* docker compose.                                                         *)

\* What docker-compose.yml makes of the environment for one service; a node
\* without a -connect of its own has the same empty arguments in connect mode
\* as with nothing set.
Resolved(s) ==
  CASE s = Seeder -> Empty
    [] s = TestNode -> [env EXCEPT !.args = "addseeder", !.orchestrator = FALSE]
    [] OTHER -> IF env.args = "connect" /\ ConnectTo[s] = {}
                THEN [env EXCEPT !.args = "none"] ELSE env

Fresh(s) == status[s] = "absent" \/ config[s] # Resolved(s)

LinksWithout(group) == {l \in links : l[1] \notin group /\ l[2] \notin group}

\* The processes of these services start anew, or are gone.
Unlinked(group) ==
  /\ links' = LinksWithout(group)
  /\ known' = [s \in Services |-> IF s \in group THEN {} ELSE known[s]]

\* `up -d --no-deps`: create, replace what was resolved differently, start.
ComposeUp(group) ==
  LET replaced == {s \in group : Fresh(s)}
      started == replaced \cup {s \in group : status[s] # "running"}
  IN
  /\ status' = [s \in Services |-> IF s \in group THEN "running" ELSE status[s]]
  /\ config' = [s \in Services |-> IF s \in replaced THEN Resolved(s) ELSE config[s]]
  /\ created' = [s \in Services |-> IF s \in replaced THEN created[s] + 1 ELSE created[s]]
  /\ good' = IF Seeder \in replaced THEN {} ELSE good
  /\ Unlinked(started)

\* `stop`, `stop` and `rm -f`, `restart`
ComposeDown(group, becomes) ==
  /\ status' = [s \in Services |-> IF s \in group THEN becomes ELSE status[s]]
  /\ Unlinked(group)
  /\ UNCHANGED <<config, created, good>>

ComposeRuns ==
  /\ \/ At("up") /\ ComposeUp(Instruction.group)
     \/ At("stop") /\ ComposeDown(Instruction.group, "stopped")
     \/ At("remove") /\ ComposeDown(Instruction.group, "absent")
     \/ At("restart") /\ ComposeDown(Instruction.group, "running")
  /\ Continue
  /\ UNCHANGED <<env, persisted, ips, seen, restarts>>

\* The job ends.  A verification that fails still tears down what it started.
JobFails ==
  /\ IF pc \in DOMAIN VerifySeeder THEN ComposeDown({TestNode, Seeder}, "absent")
     ELSE UNCHANGED <<status, config, created, good, known, links>>
  /\ pc' = 0
  /\ UNCHANGED <<env, persisted, ips, seen, restarts>>

ComposeFails ==
  /\ \E op \in {"up", "stop", "remove", "restart"} : At(op)
  /\ JobFails

-----------------------------------------------------------------------------
(* The environment of the scripts.                                         *)

\* os.environ: a step of the workflow starts from what was persisted.
SetsEnvironment ==
  /\ \E op \in {"newProcess", "setGenesis", "setOrchestrator", "setArgs", "seederIp"} : At(op)
  /\ env' = CASE At("newProcess") -> persisted
              [] At("setGenesis") -> [env EXCEPT !.genesis = TRUE]
              [] At("setOrchestrator") -> [env EXCEPT !.orchestrator = TRUE]
              [] At("setArgs") -> [env EXCEPT !.args = Instruction.mode]
              [] At("seederIp") -> [env EXCEPT !.seederIp = created[Seeder]]
  /\ Continue
  /\ UNCHANGED <<persisted, ips, seen, network>>

\* Mutant: the arguments of the nodes are not among what is persisted.
PersistsSeederEnv_NoArgs ==
  /\ At("persistSeeder")
  /\ persisted' = IF GithubActions THEN [env EXCEPT !.args = "none"] ELSE persisted
  /\ Continue
  /\ UNCHANGED <<env, ips, seen, network>>

\* _persist_env_for_rest_of_job() of verify_seeder.py
PersistsSeederEnv ==
  /\ At("persistSeeder")
  /\ persisted' = IF GithubActions THEN env ELSE persisted
  /\ Continue
  /\ UNCHANGED <<env, ips, seen, network>>

\* ... and of start_node_orchestrator.py
PersistsOrchestrator ==
  /\ At("persistOrchestrator")
  /\ persisted' = [persisted EXCEPT !.orchestrator = GithubActions]
  /\ Continue
  /\ UNCHANGED <<env, ips, seen, network>>

-----------------------------------------------------------------------------
(* The waits.  A wait whose condition does not come true goes on for ever  *)
(* here; that none does is ComesUp.                                        *)

\* _resolve_node_ips()
ResolvesIps ==
  /\ At("resolve")
  /\ ips' = {Address(n) : n \in Cores}
  /\ Continue
  /\ UNCHANGED <<env, persisted, seen, network>>

\* _wait_for_seeder_convergence_*(): exactly the expected addresses
SeederConverged ==
  /\ At("dns")
  /\ status[Seeder] = "running"
  /\ good = {ip \in ips : ip[1] \in Instruction.group}
  /\ Continue
  /\ UNCHANGED <<env, persisted, ips, seen, network>>

Peers(s) == {l[1] : l \in {x \in links : x[2] = s}} \cup {l[2] : l \in {x \in links : x[1] = s}}

\* A poll has read one more node.
SeenWith(n) == [m \in DOMAIN seen \cup {n} |-> IF m = n THEN Peers(n) ELSE seen[m]]

\* _verify_peer_discovery(): a node that once had a peer other than the seeder
\* is not asked again.
DiscoversPeer(n) ==
  /\ At("peers")
  /\ n \notin DOMAIN seen
  /\ Peers(n) \ {Seeder} # {}
  /\ seen' = SeenWith(n)
  /\ UNCHANGED <<pc, env, persisted, ips, network>>

AllDiscovered ==
  /\ At("peers") /\ DOMAIN seen = Cores
  /\ seen' = <<>>
  /\ Continue
  /\ UNCHANGED <<env, persisted, ips, network>>

\* _verify_new_node_bootstraps_via_seeder(): the first peers must be among the
\* nodes that listen.
Bootstrapped ==
  /\ At("bootstrap")
  /\ Peers(TestNode) # {}
  /\ IF Peers(TestNode) \cap ListeningNodes # {}
     THEN Continue /\ UNCHANGED <<env, persisted, ips, seen, network>>
     ELSE JobFails

\* NODES: the -connect graph seen from both of its ends
Neighbours(n) == ConnectTo[n] \cup {m \in Cores : n \in ConnectTo[m]}

\* getconnectioncount of one node, in an attempt of wait_for_topology.py.  One
\* that is not reachable has no connections either.
CountsConnections(n) ==
  /\ At("topology")
  /\ n \notin DOMAIN seen
  /\ seen' = SeenWith(n)
  /\ UNCHANGED <<pc, env, persisted, ips, network>>

Mismatches == {n \in Cores : Cardinality(seen[n]) # Cardinality(Neighbours(n))}

TopologyConverged ==
  /\ At("topology") /\ DOMAIN seen = Cores
  /\ Mismatches = {}
  /\ Continue
  /\ UNCHANGED <<env, persisted, ips, seen, network>>

TopologyRetried ==
  /\ At("topology") /\ DOMAIN seen = Cores
  /\ Mismatches # {}
  /\ seen' = <<>>
  /\ UNCHANGED <<pc, env, persisted, ips, network>>

Scripts ==
  \/ ComposeRuns \/ ComposeFails
  \/ SetsEnvironment \/ PersistsSeederEnv \/ PersistsOrchestrator
  \/ ResolvesIps \/ SeederConverged
  \/ \E n \in Cores : DiscoversPeer(n) \/ CountsConnections(n)
  \/ AllDiscovered \/ Bootstrapped \/ TopologyConverged \/ TopologyRetried

-----------------------------------------------------------------------------
(* Nodes and seeder.                                                       *)

Listening(m) ==
  /\ m \in Cores /\ status[m] = "running"
  /\ m \in NotListening => config[m].args # "connect"

\* -addseeder asks once, as the process starts.
LooksUp(s) ==
  /\ status[s] = "running" /\ config[s].args = "addseeder"
  /\ known[s] = {}
  /\ known' = [known EXCEPT ![s] =
       {IF status[Seeder] = "running" /\ config[s].seederIp = created[Seeder]
        THEN good ELSE {}}]
  /\ UNCHANGED <<script, status, config, created, good, links, restarts>>

\* All nodes are in one network group: each opens one connection by itself.
MayDial(s, m) ==
  CASE config[s].args = "connect" -> m \in ConnectTo[s]
    [] config[s].args = "addseeder" ->
         /\ \E answer \in known[s] : Address(m) \in answer
         /\ \A l \in links : l[1] # s
    [] OTHER -> FALSE

Dials(s, m) ==
  /\ s # m /\ status[s] = "running" /\ Listening(m)
  /\ m \notin Peers(s)
  /\ MayDial(s, m)
  /\ links' = links \cup {<<s, m>>}
  /\ UNCHANGED <<script, status, config, created, good, known, restarts>>

\* The seeder tests a node, with a connection of its own that it may keep.
Crawls(m) ==
  /\ status[Seeder] = "running" /\ Listening(m)
  /\ Address(m) \notin good
  /\ good' = good \cup {Address(m)}
  /\ \/ links' = links \cup {<<Seeder, m>>}
     \/ UNCHANGED links
  /\ UNCHANGED <<script, status, config, created, known, restarts>>

HangsUp(m) ==
  /\ <<Seeder, m>> \in links
  /\ links' = links \ {<<Seeder, m>>}
  /\ UNCHANGED <<script, status, config, created, good, known, restarts>>

\* A node under the orchestrator restarts: all its connections are gone.
ChaosRestart(n) ==
  /\ status[n] = "running" /\ config[n].orchestrator
  /\ restarts < MaxRestarts
  /\ restarts' = restarts + 1
  /\ Unlinked({n})
  /\ UNCHANGED <<script, status, config, created, good>>

Nodes ==
  \/ \E s \in Services : LooksUp(s)
  \/ \E s \in Services, m \in Cores : Dials(s, m)
  \/ \E m \in Cores : Crawls(m) \/ HangsUp(m) \/ ChaosRestart(m)

Next == Scripts \/ Nodes

\* A script goes on; processes make their lookup, dial their peers, and the
\* seeder visits every listening node in the end.
Fairness ==
  /\ WF_vars(Scripts)
  /\ WF_vars(\E s \in Services : LooksUp(s))
  /\ WF_vars(\E s \in Services, m \in Cores : Dials(s, m))
  /\ WF_vars(\E m \in Cores : Crawls(m))

Spec == Init /\ [][Next]_vars
FairSpec == Spec /\ Fairness

-----------------------------------------------------------------------------
(* Properties.                                                             *)

\* Once the orchestrators run no script replaces a core node's container: what
\* a fresh process resolves for it is what it was created with.
NoCoreRecreated ==
  [][Past("persistOrchestrator") => \A n \in Cores : created'[n] = created[n]]_vars

\* wait_for_topology.py compares numbers of connections only; when it passes
\* each node was seen with exactly its neighbours of the -connect graph, although
\* nodes restart during the poll and were used for the seeder's test before.
ConvergedMeansConnected ==
  Past("topology") => \A n \in Cores : seen[n] = Neighbours(n)

\* Unless compose fails every wait ends: the seeder comes to answer with exactly
\* the expected addresses in both phases, every node and the new one find a
\* peer, and the topology is seen.  The new node's peers are never such that its
\* verification raises.
ComesUp ==
  /\ <>(Failed \/ Past("topology"))
  /\ [](At("bootstrap") => Peers(TestNode) \subseteq ListeningNodes)
=============================================================================
