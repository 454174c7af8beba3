-------------------------- MODULE DeploymentProofs --------------------------
(***************************************************************************)
(* Proofs about the job that brings the core nodes up, for any nodes and   *)
(* any -connect graph.                                                     *)
(***************************************************************************)
EXTENDS Deployment, FiniteSetTheorems, TLAPS

(***************************************************************************)
(* The inductive invariant: what the place of the job says of its          *)
(* environment (Settings), of the containers (Containers, Generations) and *)
(* of what connects them (Linked, Connected).                              *)
(***************************************************************************)
Typed ==
  /\ pc \in 0..35
  /\ env \in Environment /\ persisted \in Environment
  /\ status \in [Services -> {"absent", "stopped", "running"}]
  /\ config \in [Services -> Environment]
  /\ created \in [Services -> Nat]
  /\ DOMAIN known = Services /\ \A s \in Services : known[s] = {} \/ \E a : known[s] = {a}
  /\ restarts \in 0..MaxRestarts

\* A process of the job that was given the persisted environment resolves what
\* the orchestrators were brought up with.
Settings ==
  /\ pc \in 3..22 \cup 26..29 => env.genesis
  /\ pc \in 13..22 \cup 28..29 => env.args = "connect"
  /\ pc \in 27..29 => env.orchestrator
  /\ GithubActions =>
       /\ pc \in 17..35 => persisted.genesis /\ persisted.args = "connect"
       /\ pc \in 24..29 => env.seederIp = persisted.seederIp
       /\ pc \in 30..35 => env = persisted

Containers ==
  /\ pc \in 25..28 => \A n \in Cores : status[n] = "absent"
  /\ pc \in 7..11 \cup 29..35 => \A n \in Cores : status[n] # "absent"
  /\ pc \in 23..35 => status[Seeder] = "absent" /\ status[TestNode] = "absent"
  /\ pc \in 29..31 => \A n \in Cores : config[n].args \in {"connect", "none"}
  /\ GithubActions =>
       /\ \A s \in Services \ {Seeder} : status[s] # "absent" => config[s].genesis
       /\ pc \in 29..35 => \A n \in Cores : config[n] = Resolved(n)

\* A core node is created by each of three `up`.
Generations ==
  /\ pc \in 1..6 => \A n \in Cores : created[n] = 0
  /\ pc \in 7..15 => \A n \in Cores : created[n] <= 1
  /\ pc \in 16..28 => \A n \in Cores : created[n] <= 2
  /\ pc \in 0..34 => \A n \in Cores : created[n] <= 3
  /\ GithubActions => \A n \in Cores : created[n] <= 3
  /\ \A n \in Cores : status[n] # "absent" => created[n] >= 1
  /\ \A a \in good : \E n \in Cores : \E i \in 1..created[n] : a = <<n, i>>

Linked ==
  \A l \in links : /\ l[1] \in Services /\ l[2] \in Cores
                   /\ status[l[1]] = "running" /\ status[l[2]] = "running"

Connected ==
  /\ pc \in 29..31 => \A l \in links : l[1] \in Cores /\ l[2] \in ConnectTo[l[1]]
  /\ pc \in 1..9 \cup 11..30 => DOMAIN seen = {}
  /\ pc = 31 => DOMAIN seen \subseteq Cores /\ \A n \in DOMAIN seen : seen[n] \subseteq Neighbours(n)
  /\ pc \in 32..35 => \A n \in Cores : seen[n] = Neighbours(n)

IInv == Typed /\ Settings /\ Containers /\ Generations /\ Linked /\ Connected

-----------------------------------------------------------------------------
(* The job.                                                                *)

Instructions ==
  {
    NewProcess, Op("setGenesis"), Compose("up", {Seeder}), Op("seederIp"),
    SetArgs("addseeder"), Compose("up", Cores), Op("resolve"),
    Await("dns", Cores), Compose("restart", Cores), Await("peers", Cores),
    Compose("remove", Cores \cup {Seeder}), SetArgs("connect"),
    Op("persistSeeder"), Await("dns", ListeningNodes),
    Compose("up", {TestNode}), Await("bootstrap", {TestNode}),
    Compose("remove", {TestNode, Seeder}), Compose("remove", Cores),
    Op("setOrchestrator"), Op("persistOrchestrator"), Op("topology"),
    Compose("stop", LaterGroup), Compose("up", LaterGroup) }

LEMMA Joined ==
  ASSUME NEW S, NEW s \in Seq(S), NEW t \in Seq(S)
  PROVE  /\ s \o t \in Seq(S) /\ Len(s \o t) = Len(s) + Len(t)
         /\ \A i \in 1..Len(s) : (s \o t)[i] = s[i]
         /\ \A i \in 1..Len(t) : (s \o t)[Len(s) + i] = t[i]
OBVIOUS

LEMMA TupleOf1 ==
  ASSUME NEW S, NEW a \in S
  PROVE  /\ << a >> \in Seq(S) /\ Len(<< a >>) = 1
         /\ << a >>[1] = a
OBVIOUS

LEMMA TupleOf2 ==
  ASSUME NEW S, NEW a \in S, NEW b \in S
  PROVE  /\ << a, b >> \in Seq(S) /\ Len(<< a, b >>) = 2
         /\ << a, b >>[1] = a
         /\ << a, b >>[2] = b
OBVIOUS

LEMMA TupleOf3 ==
  ASSUME NEW S, NEW a \in S, NEW b \in S, NEW c \in S
  PROVE  /\ << a, b, c >> \in Seq(S) /\ Len(<< a, b, c >>) = 3
         /\ << a, b, c >>[1] = a
         /\ << a, b, c >>[2] = b
         /\ << a, b, c >>[3] = c
OBVIOUS

LEMMA TupleOf6 ==
  ASSUME NEW S, NEW a \in S, NEW b \in S, NEW c \in S, NEW d \in S, NEW e \in S, NEW f \in S
  PROVE  /\ << a, b, c, d, e, f >> \in Seq(S) /\ Len(<< a, b, c, d, e, f >>) = 6
         /\ << a, b, c, d, e, f >>[1] = a
         /\ << a, b, c, d, e, f >>[2] = b
         /\ << a, b, c, d, e, f >>[3] = c
         /\ << a, b, c, d, e, f >>[4] = d
         /\ << a, b, c, d, e, f >>[5] = e
         /\ << a, b, c, d, e, f >>[6] = f
OBVIOUS

LEMMA TupleOf7 ==
  ASSUME NEW S, NEW a \in S, NEW b \in S, NEW c \in S, NEW d \in S, NEW e \in S, NEW f \in S, NEW g \in S
  PROVE  /\ << a, b, c, d, e, f, g >> \in Seq(S) /\ Len(<< a, b, c, d, e, f, g >>) = 7
         /\ << a, b, c, d, e, f, g >>[1] = a
         /\ << a, b, c, d, e, f, g >>[2] = b
         /\ << a, b, c, d, e, f, g >>[3] = c
         /\ << a, b, c, d, e, f, g >>[4] = d
         /\ << a, b, c, d, e, f, g >>[5] = e
         /\ << a, b, c, d, e, f, g >>[6] = f
         /\ << a, b, c, d, e, f, g >>[7] = g
OBVIOUS

\* Parts of the job that have no name, and the job up to each of its parts.
Opening == << NewProcess, Op("setGenesis") >>
AnewForConnect == << Compose("remove", Cores \cup {Seeder}), SetArgs("connect") >>
CoresConnect == << Compose("up", Cores), Op("persistSeeder") >>
SecondCrawl == << Op("resolve"), Await("dns", ListeningNodes) >>
TearDown == << Compose("remove", {TestNode, Seeder}) >>
C1 == AnewForConnect \o BringUpSeeder
J1 == Opening \o BringUpSeeder
J2 == J1 \o AddseederPhase
J3 == J2 \o ConnectPhase
J4 == J3 \o SecondCrawl
J5 == J4 \o VerifyNewNode
J6 == VerifySeeder \o StartNodeOrchestrator
J7 == J6 \o WaitForTopology

LEMMA JobIs ==
  /\ DOMAIN Job = 1..34 /\ Len(Job) = 34
  /\ DOMAIN VerifySeeder = 1..22
  /\ Job[1] = NewProcess
  /\ Job[2] = Op("setGenesis")
  /\ Job[3] = Compose("up", {Seeder})
  /\ Job[4] = Op("seederIp")
  /\ Job[5] = SetArgs("addseeder")
  /\ Job[6] = Compose("up", Cores)
  /\ Job[7] = Op("resolve")
  /\ Job[8] = Await("dns", Cores)
  /\ Job[9] = Compose("restart", Cores)
  /\ Job[10] = Await("peers", Cores)
  /\ Job[11] = Compose("remove", Cores \cup {Seeder})
  /\ Job[12] = SetArgs("connect")
  /\ Job[13] = Compose("up", {Seeder})
  /\ Job[14] = Op("seederIp")
  /\ Job[15] = Compose("up", Cores)
  /\ Job[16] = Op("persistSeeder")
  /\ Job[17] = Op("resolve")
  /\ Job[18] = Await("dns", ListeningNodes)
  /\ Job[19] = Op("seederIp")
  /\ Job[20] = Compose("up", {TestNode})
  /\ Job[21] = Await("bootstrap", {TestNode})
  /\ Job[22] = Compose("remove", {TestNode, Seeder})
  /\ Job[23] = NewProcess
  /\ Job[24] = Compose("remove", Cores)
  /\ Job[25] = Op("setGenesis")
  /\ Job[26] = Op("setOrchestrator")
  /\ Job[27] = SetArgs("connect")
  /\ Job[28] = Compose("up", Cores)
  /\ Job[29] = Op("persistOrchestrator")
  /\ Job[30] = NewProcess
  /\ Job[31] = Op("topology")
  /\ Job[32] = NewProcess
  /\ Job[33] = Compose("stop", LaterGroup)
  /\ Job[34] = Compose("up", LaterGroup)
<1>1. /\ NewProcess \in Instructions
      /\ Op("setGenesis") \in Instructions
      /\ Compose("up", {Seeder}) \in Instructions
      /\ Op("seederIp") \in Instructions
      /\ SetArgs("addseeder") \in Instructions
      /\ Compose("up", Cores) \in Instructions
      /\ Op("resolve") \in Instructions
      /\ Await("dns", Cores) \in Instructions
      /\ Compose("restart", Cores) \in Instructions
      /\ Await("peers", Cores) \in Instructions
      /\ Compose("remove", Cores \cup {Seeder}) \in Instructions
      /\ SetArgs("connect") \in Instructions
      /\ Op("persistSeeder") \in Instructions
      /\ Await("dns", ListeningNodes) \in Instructions
      /\ Compose("up", {TestNode}) \in Instructions
      /\ Await("bootstrap", {TestNode}) \in Instructions
      /\ Compose("remove", {TestNode, Seeder}) \in Instructions
      /\ Compose("remove", Cores) \in Instructions
      /\ Op("setOrchestrator") \in Instructions
      /\ Op("persistOrchestrator") \in Instructions
      /\ Op("topology") \in Instructions
      /\ Compose("stop", LaterGroup) \in Instructions
      /\ Compose("up", LaterGroup) \in Instructions
  BY DEF Instructions
<1> HIDE DEF Instructions
<1>2. /\ Opening \in Seq(Instructions) /\ Len(Opening) = 2
      /\ Opening[1] = NewProcess
      /\ Opening[2] = Op("setGenesis")
  BY <1>1, TupleOf2 DEF Opening
<1>3. /\ BringUpSeeder \in Seq(Instructions) /\ Len(BringUpSeeder) = 2
      /\ BringUpSeeder[1] = Compose("up", {Seeder})
      /\ BringUpSeeder[2] = Op("seederIp")
  BY <1>1, TupleOf2 DEF BringUpSeeder
<1>4. /\ AddseederPhase \in Seq(Instructions) /\ Len(AddseederPhase) = 6
      /\ AddseederPhase[1] = SetArgs("addseeder")
      /\ AddseederPhase[2] = Compose("up", Cores)
      /\ AddseederPhase[3] = Op("resolve")
      /\ AddseederPhase[4] = Await("dns", Cores)
      /\ AddseederPhase[5] = Compose("restart", Cores)
      /\ AddseederPhase[6] = Await("peers", Cores)
  BY <1>1, TupleOf6 DEF AddseederPhase
<1>5. /\ AnewForConnect \in Seq(Instructions) /\ Len(AnewForConnect) = 2
      /\ AnewForConnect[1] = Compose("remove", Cores \cup {Seeder})
      /\ AnewForConnect[2] = SetArgs("connect")
  BY <1>1, TupleOf2 DEF AnewForConnect
<1>6. /\ CoresConnect \in Seq(Instructions) /\ Len(CoresConnect) = 2
      /\ CoresConnect[1] = Compose("up", Cores)
      /\ CoresConnect[2] = Op("persistSeeder")
  BY <1>1, TupleOf2 DEF CoresConnect
<1>7. /\ SecondCrawl \in Seq(Instructions) /\ Len(SecondCrawl) = 2
      /\ SecondCrawl[1] = Op("resolve")
      /\ SecondCrawl[2] = Await("dns", ListeningNodes)
  BY <1>1, TupleOf2 DEF SecondCrawl
<1>8. /\ VerifyNewNode \in Seq(Instructions) /\ Len(VerifyNewNode) = 3
      /\ VerifyNewNode[1] = Op("seederIp")
      /\ VerifyNewNode[2] = Compose("up", {TestNode})
      /\ VerifyNewNode[3] = Await("bootstrap", {TestNode})
  BY <1>1, TupleOf3 DEF VerifyNewNode
<1>9. /\ TearDown \in Seq(Instructions) /\ Len(TearDown) = 1
      /\ TearDown[1] = Compose("remove", {TestNode, Seeder})
  BY <1>1, TupleOf1 DEF TearDown
<1>10. /\ StartNodeOrchestrator \in Seq(Instructions) /\ Len(StartNodeOrchestrator) = 7
       /\ StartNodeOrchestrator[1] = NewProcess
       /\ StartNodeOrchestrator[2] = Compose("remove", Cores)
       /\ StartNodeOrchestrator[3] = Op("setGenesis")
       /\ StartNodeOrchestrator[4] = Op("setOrchestrator")
       /\ StartNodeOrchestrator[5] = SetArgs("connect")
       /\ StartNodeOrchestrator[6] = Compose("up", Cores)
       /\ StartNodeOrchestrator[7] = Op("persistOrchestrator")
  BY <1>1, TupleOf7 DEF StartNodeOrchestrator
<1>11. /\ WaitForTopology \in Seq(Instructions) /\ Len(WaitForTopology) = 2
       /\ WaitForTopology[1] = NewProcess
       /\ WaitForTopology[2] = Op("topology")
  BY <1>1, TupleOf2 DEF WaitForTopology
<1>12. /\ LaterScript \in Seq(Instructions) /\ Len(LaterScript) = 3
       /\ LaterScript[1] = NewProcess
       /\ LaterScript[2] = Compose("stop", LaterGroup)
       /\ LaterScript[3] = Compose("up", LaterGroup)
  BY <1>1, TupleOf3 DEF LaterScript
<1>13. /\ C1 \in Seq(Instructions) /\ Len(C1) = 4
       /\ \A i \in 1..2 : C1[i] = AnewForConnect[i]
       /\ \A i \in 1..2 : C1[2 + i] = BringUpSeeder[i]
  <2>1. C1 = AnewForConnect \o BringUpSeeder
    BY DEF C1
  <2>2. AnewForConnect \in Seq(Instructions) /\ BringUpSeeder \in Seq(Instructions)
    BY <1>5, <1>3
  <2>3. /\ C1 \in Seq(Instructions) /\ Len(C1) = Len(AnewForConnect) + Len(BringUpSeeder)
        /\ \A i \in 1..Len(AnewForConnect) : C1[i] = AnewForConnect[i]
        /\ \A i \in 1..Len(BringUpSeeder) : C1[Len(AnewForConnect) + i] = BringUpSeeder[i]
    BY <2>1, <2>2, Joined
  <2> QED
    BY <1>5, <1>3, <2>3
<1>14. /\ ConnectPhase \in Seq(Instructions) /\ Len(ConnectPhase) = 6
       /\ \A i \in 1..4 : ConnectPhase[i] = C1[i]
       /\ \A i \in 1..2 : ConnectPhase[4 + i] = CoresConnect[i]
  <2>1. ConnectPhase = C1 \o CoresConnect
    BY DEF ConnectPhase, C1, AnewForConnect, CoresConnect
  <2>2. C1 \in Seq(Instructions) /\ CoresConnect \in Seq(Instructions)
    BY <1>13, <1>6
  <2>3. /\ ConnectPhase \in Seq(Instructions) /\ Len(ConnectPhase) = Len(C1) + Len(CoresConnect)
        /\ \A i \in 1..Len(C1) : ConnectPhase[i] = C1[i]
        /\ \A i \in 1..Len(CoresConnect) : ConnectPhase[Len(C1) + i] = CoresConnect[i]
    BY <2>1, <2>2, Joined
  <2> QED
    BY <1>13, <1>6, <2>3
<1>15. /\ J1 \in Seq(Instructions) /\ Len(J1) = 4
       /\ \A i \in 1..2 : J1[i] = Opening[i]
       /\ \A i \in 1..2 : J1[2 + i] = BringUpSeeder[i]
  <2>1. J1 = Opening \o BringUpSeeder
    BY DEF J1
  <2>2. Opening \in Seq(Instructions) /\ BringUpSeeder \in Seq(Instructions)
    BY <1>2, <1>3
  <2>3. /\ J1 \in Seq(Instructions) /\ Len(J1) = Len(Opening) + Len(BringUpSeeder)
        /\ \A i \in 1..Len(Opening) : J1[i] = Opening[i]
        /\ \A i \in 1..Len(BringUpSeeder) : J1[Len(Opening) + i] = BringUpSeeder[i]
    BY <2>1, <2>2, Joined
  <2> QED
    BY <1>2, <1>3, <2>3
<1>16. /\ J2 \in Seq(Instructions) /\ Len(J2) = 10
       /\ \A i \in 1..4 : J2[i] = J1[i]
       /\ \A i \in 1..6 : J2[4 + i] = AddseederPhase[i]
  <2>1. J2 = J1 \o AddseederPhase
    BY DEF J2
  <2>2. J1 \in Seq(Instructions) /\ AddseederPhase \in Seq(Instructions)
    BY <1>15, <1>4
  <2>3. /\ J2 \in Seq(Instructions) /\ Len(J2) = Len(J1) + Len(AddseederPhase)
        /\ \A i \in 1..Len(J1) : J2[i] = J1[i]
        /\ \A i \in 1..Len(AddseederPhase) : J2[Len(J1) + i] = AddseederPhase[i]
    BY <2>1, <2>2, Joined
  <2> QED
    BY <1>15, <1>4, <2>3
<1>17. /\ J3 \in Seq(Instructions) /\ Len(J3) = 16
       /\ \A i \in 1..10 : J3[i] = J2[i]
       /\ \A i \in 1..6 : J3[10 + i] = ConnectPhase[i]
  <2>1. J3 = J2 \o ConnectPhase
    BY DEF J3
  <2>2. J2 \in Seq(Instructions) /\ ConnectPhase \in Seq(Instructions)
    BY <1>16, <1>14
  <2>3. /\ J3 \in Seq(Instructions) /\ Len(J3) = Len(J2) + Len(ConnectPhase)
        /\ \A i \in 1..Len(J2) : J3[i] = J2[i]
        /\ \A i \in 1..Len(ConnectPhase) : J3[Len(J2) + i] = ConnectPhase[i]
    BY <2>1, <2>2, Joined
  <2> QED
    BY <1>16, <1>14, <2>3
<1>18. /\ J4 \in Seq(Instructions) /\ Len(J4) = 18
       /\ \A i \in 1..16 : J4[i] = J3[i]
       /\ \A i \in 1..2 : J4[16 + i] = SecondCrawl[i]
  <2>1. J4 = J3 \o SecondCrawl
    BY DEF J4
  <2>2. J3 \in Seq(Instructions) /\ SecondCrawl \in Seq(Instructions)
    BY <1>17, <1>7
  <2>3. /\ J4 \in Seq(Instructions) /\ Len(J4) = Len(J3) + Len(SecondCrawl)
        /\ \A i \in 1..Len(J3) : J4[i] = J3[i]
        /\ \A i \in 1..Len(SecondCrawl) : J4[Len(J3) + i] = SecondCrawl[i]
    BY <2>1, <2>2, Joined
  <2> QED
    BY <1>17, <1>7, <2>3
<1>19. /\ J5 \in Seq(Instructions) /\ Len(J5) = 21
       /\ \A i \in 1..18 : J5[i] = J4[i]
       /\ \A i \in 1..3 : J5[18 + i] = VerifyNewNode[i]
  <2>1. J5 = J4 \o VerifyNewNode
    BY DEF J5
  <2>2. J4 \in Seq(Instructions) /\ VerifyNewNode \in Seq(Instructions)
    BY <1>18, <1>8
  <2>3. /\ J5 \in Seq(Instructions) /\ Len(J5) = Len(J4) + Len(VerifyNewNode)
        /\ \A i \in 1..Len(J4) : J5[i] = J4[i]
        /\ \A i \in 1..Len(VerifyNewNode) : J5[Len(J4) + i] = VerifyNewNode[i]
    BY <2>1, <2>2, Joined
  <2> QED
    BY <1>18, <1>8, <2>3
<1>20. /\ VerifySeeder \in Seq(Instructions) /\ Len(VerifySeeder) = 22
       /\ \A i \in 1..21 : VerifySeeder[i] = J5[i]
       /\ \A i \in 1..1 : VerifySeeder[21 + i] = TearDown[i]
  <2>1. VerifySeeder = J5 \o TearDown
    BY DEF VerifySeeder, J1, J2, J3, J4, J5, Opening, SecondCrawl, TearDown
  <2>2. J5 \in Seq(Instructions) /\ TearDown \in Seq(Instructions)
    BY <1>19, <1>9
  <2>3. /\ VerifySeeder \in Seq(Instructions) /\ Len(VerifySeeder) = Len(J5) + Len(TearDown)
        /\ \A i \in 1..Len(J5) : VerifySeeder[i] = J5[i]
        /\ \A i \in 1..Len(TearDown) : VerifySeeder[Len(J5) + i] = TearDown[i]
    BY <2>1, <2>2, Joined
  <2> QED
    BY <1>19, <1>9, <2>3
<1>21. /\ J6 \in Seq(Instructions) /\ Len(J6) = 29
       /\ \A i \in 1..22 : J6[i] = VerifySeeder[i]
       /\ \A i \in 1..7 : J6[22 + i] = StartNodeOrchestrator[i]
  <2>1. J6 = VerifySeeder \o StartNodeOrchestrator
    BY DEF J6
  <2>2. VerifySeeder \in Seq(Instructions) /\ StartNodeOrchestrator \in Seq(Instructions)
    BY <1>20, <1>10
  <2>3. /\ J6 \in Seq(Instructions) /\ Len(J6) = Len(VerifySeeder) + Len(StartNodeOrchestrator)
        /\ \A i \in 1..Len(VerifySeeder) : J6[i] = VerifySeeder[i]
        /\ \A i \in 1..Len(StartNodeOrchestrator) : J6[Len(VerifySeeder) + i] = StartNodeOrchestrator[i]
    BY <2>1, <2>2, Joined
  <2> QED
    BY <1>20, <1>10, <2>3
<1>22. /\ J7 \in Seq(Instructions) /\ Len(J7) = 31
       /\ \A i \in 1..29 : J7[i] = J6[i]
       /\ \A i \in 1..2 : J7[29 + i] = WaitForTopology[i]
  <2>1. J7 = J6 \o WaitForTopology
    BY DEF J7
  <2>2. J6 \in Seq(Instructions) /\ WaitForTopology \in Seq(Instructions)
    BY <1>21, <1>11
  <2>3. /\ J7 \in Seq(Instructions) /\ Len(J7) = Len(J6) + Len(WaitForTopology)
        /\ \A i \in 1..Len(J6) : J7[i] = J6[i]
        /\ \A i \in 1..Len(WaitForTopology) : J7[Len(J6) + i] = WaitForTopology[i]
    BY <2>1, <2>2, Joined
  <2> QED
    BY <1>21, <1>11, <2>3
<1>23. /\ Job \in Seq(Instructions) /\ Len(Job) = 34
       /\ \A i \in 1..31 : Job[i] = J7[i]
       /\ \A i \in 1..3 : Job[31 + i] = LaterScript[i]
  <2>1. Job = J7 \o LaterScript
    BY DEF Job, J6, J7
  <2>2. J7 \in Seq(Instructions) /\ LaterScript \in Seq(Instructions)
    BY <1>22, <1>12
  <2>3. /\ Job \in Seq(Instructions) /\ Len(Job) = Len(J7) + Len(LaterScript)
        /\ \A i \in 1..Len(J7) : Job[i] = J7[i]
        /\ \A i \in 1..Len(LaterScript) : Job[Len(J7) + i] = LaterScript[i]
    BY <2>1, <2>2, Joined
  <2> QED
    BY <1>22, <1>12, <2>3
<1> QED
  BY <1>2, <1>3, <1>4, <1>5, <1>6, <1>7, <1>8, <1>9, <1>10, <1>11, <1>12,
     <1>13, <1>14, <1>15, <1>16, <1>17, <1>18, <1>19, <1>20, <1>21, <1>22, <1>23

LEMMA ThisPlace ==
  ASSUME pc \in 0..35
  PROVE  /\ At("newProcess") => pc \in {1, 23, 30, 32}
         /\ At("setGenesis") => pc \in {2, 25}
         /\ At("up") =>
              \/ pc = 3 /\ Instruction.group = {Seeder}
              \/ pc = 6 /\ Instruction.group = Cores
              \/ pc = 13 /\ Instruction.group = {Seeder}
              \/ pc = 15 /\ Instruction.group = Cores
              \/ pc = 20 /\ Instruction.group = {TestNode}
              \/ pc = 28 /\ Instruction.group = Cores
              \/ pc = 34 /\ Instruction.group = LaterGroup
         /\ At("seederIp") => pc \in {4, 14, 19}
         /\ At("setArgs") =>
              \/ pc = 5 /\ Instruction.mode = "addseeder"
              \/ pc = 12 /\ Instruction.mode = "connect"
              \/ pc = 27 /\ Instruction.mode = "connect"
         /\ At("resolve") => pc \in {7, 17}
         /\ At("dns") =>
              \/ pc = 8 /\ Instruction.group = Cores
              \/ pc = 18 /\ Instruction.group = ListeningNodes
         /\ At("restart") =>
              \/ pc = 9 /\ Instruction.group = Cores
         /\ At("peers") =>
              \/ pc = 10 /\ Instruction.group = Cores
         /\ At("remove") =>
              \/ pc = 11 /\ Instruction.group = Cores \cup {Seeder}
              \/ pc = 22 /\ Instruction.group = {TestNode, Seeder}
              \/ pc = 24 /\ Instruction.group = Cores
         /\ At("persistSeeder") => pc = 16
         /\ At("bootstrap") =>
              \/ pc = 21 /\ Instruction.group = {TestNode}
         /\ At("setOrchestrator") => pc = 26
         /\ At("persistOrchestrator") => pc = 29
         /\ At("topology") => pc = 31
         /\ At("stop") =>
              \/ pc = 33 /\ Instruction.group = LaterGroup
         /\ pc \in DOMAIN VerifySeeder <=> pc \in 1..22
         /\ Past("topology") <=> pc > 31
         /\ Past("persistOrchestrator") <=> pc > 29
         /\ Len(Job) + 1 = 35
<1>1. /\ Job[1].op = "newProcess"
      /\ Job[2].op = "setGenesis"
      /\ Job[3].op = "up"
      /\ Job[4].op = "seederIp"
      /\ Job[5].op = "setArgs"
      /\ Job[6].op = "up"
      /\ Job[7].op = "resolve"
      /\ Job[8].op = "dns"
      /\ Job[9].op = "restart"
      /\ Job[10].op = "peers"
      /\ Job[11].op = "remove"
      /\ Job[12].op = "setArgs"
      /\ Job[13].op = "up"
      /\ Job[14].op = "seederIp"
      /\ Job[15].op = "up"
      /\ Job[16].op = "persistSeeder"
      /\ Job[17].op = "resolve"
      /\ Job[18].op = "dns"
      /\ Job[19].op = "seederIp"
      /\ Job[20].op = "up"
      /\ Job[21].op = "bootstrap"
      /\ Job[22].op = "remove"
      /\ Job[23].op = "newProcess"
      /\ Job[24].op = "remove"
      /\ Job[25].op = "setGenesis"
      /\ Job[26].op = "setOrchestrator"
      /\ Job[27].op = "setArgs"
      /\ Job[28].op = "up"
      /\ Job[29].op = "persistOrchestrator"
      /\ Job[30].op = "newProcess"
      /\ Job[31].op = "topology"
      /\ Job[32].op = "newProcess"
      /\ Job[33].op = "stop"
      /\ Job[34].op = "up"
  BY JobIs DEF Op, Compose, NewProcess, SetArgs, Await
<1>2. /\ Job[3].group = {Seeder}
      /\ Job[6].group = Cores
      /\ Job[8].group = Cores
      /\ Job[9].group = Cores
      /\ Job[10].group = Cores
      /\ Job[11].group = Cores \cup {Seeder}
      /\ Job[13].group = {Seeder}
      /\ Job[15].group = Cores
      /\ Job[18].group = ListeningNodes
      /\ Job[20].group = {TestNode}
      /\ Job[21].group = {TestNode}
      /\ Job[22].group = {TestNode, Seeder}
      /\ Job[24].group = Cores
      /\ Job[28].group = Cores
      /\ Job[33].group = LaterGroup
      /\ Job[34].group = LaterGroup
      /\ Job[5].mode = "addseeder"
      /\ Job[12].mode = "connect"
      /\ Job[27].mode = "connect"
  BY JobIs DEF Compose, SetArgs, Await
<1>3. ASSUME NEW name, At(name)
      PROVE  pc \in 1..34 /\ Job[pc].op = name
  BY <1>3, JobIs DEF At, Running
<1>4. \A i \in 1..34 : /\ Job[i].op = "topology" <=> i = 31
                       /\ Job[i].op = "persistOrchestrator" <=> i = 29
  BY <1>1
<1>5. /\ (CHOOSE i \in DOMAIN Job : Job[i].op = "topology") = 31
      /\ (CHOOSE i \in DOMAIN Job : Job[i].op = "persistOrchestrator") = 29
  BY <1>4, JobIs
<1>6. (Past("topology") <=> pc > 31) /\ (Past("persistOrchestrator") <=> pc > 29)
  BY <1>5 DEF Past
<1>7. (pc \in DOMAIN VerifySeeder <=> pc \in 1..22) /\ Len(Job) + 1 = 35
  BY JobIs
<1>8. At("newProcess") => pc \in {1, 23, 30, 32}
  BY <1>1, <1>3
<1>9. At("setGenesis") => pc \in {2, 25}
  BY <1>1, <1>3
<1>10. At("up") => pc \in {3, 6, 13, 15, 20, 28, 34}
  BY <1>1, <1>3
<1>11. At("up") =>
         \/ pc = 3 /\ Instruction.group = {Seeder}
         \/ pc = 6 /\ Instruction.group = Cores
         \/ pc = 13 /\ Instruction.group = {Seeder}
         \/ pc = 15 /\ Instruction.group = Cores
         \/ pc = 20 /\ Instruction.group = {TestNode}
         \/ pc = 28 /\ Instruction.group = Cores
         \/ pc = 34 /\ Instruction.group = LaterGroup
  BY <1>2, <1>10 DEF Instruction
<1>12. At("seederIp") => pc \in {4, 14, 19}
  BY <1>1, <1>3
<1>13. At("setArgs") => pc \in {5, 12, 27}
  BY <1>1, <1>3
<1>14. At("setArgs") =>
         \/ pc = 5 /\ Instruction.mode = "addseeder"
         \/ pc = 12 /\ Instruction.mode = "connect"
         \/ pc = 27 /\ Instruction.mode = "connect"
  BY <1>2, <1>13 DEF Instruction
<1>15. At("resolve") => pc \in {7, 17}
  BY <1>1, <1>3
<1>16. At("dns") => pc \in {8, 18}
  BY <1>1, <1>3
<1>17. At("dns") =>
         \/ pc = 8 /\ Instruction.group = Cores
         \/ pc = 18 /\ Instruction.group = ListeningNodes
  BY <1>2, <1>16 DEF Instruction
<1>18. At("restart") => pc \in {9}
  BY <1>1, <1>3
<1>19. At("restart") =>
         \/ pc = 9 /\ Instruction.group = Cores
  BY <1>2, <1>18 DEF Instruction
<1>20. At("peers") => pc \in {10}
  BY <1>1, <1>3
<1>21. At("peers") =>
         \/ pc = 10 /\ Instruction.group = Cores
  BY <1>2, <1>20 DEF Instruction
<1>22. At("remove") => pc \in {11, 22, 24}
  BY <1>1, <1>3
<1>23. At("remove") =>
         \/ pc = 11 /\ Instruction.group = Cores \cup {Seeder}
         \/ pc = 22 /\ Instruction.group = {TestNode, Seeder}
         \/ pc = 24 /\ Instruction.group = Cores
  BY <1>2, <1>22 DEF Instruction
<1>24. At("persistSeeder") => pc \in {16}
  BY <1>1, <1>3
<1>25. At("bootstrap") => pc \in {21}
  BY <1>1, <1>3
<1>26. At("bootstrap") =>
         \/ pc = 21 /\ Instruction.group = {TestNode}
  BY <1>2, <1>25 DEF Instruction
<1>27. At("setOrchestrator") => pc \in {26}
  BY <1>1, <1>3
<1>28. At("persistOrchestrator") => pc \in {29}
  BY <1>1, <1>3
<1>29. At("topology") => pc \in {31}
  BY <1>1, <1>3
<1>30. At("stop") => pc \in {33}
  BY <1>1, <1>3
<1>31. At("stop") =>
         \/ pc = 33 /\ Instruction.group = LaterGroup
  BY <1>2, <1>30 DEF Instruction
<1> QED
  BY <1>6, <1>7,
     <1>8, <1>9, <1>11, <1>12, <1>14, <1>15, <1>17, <1>19, <1>21, <1>23, <1>24,
     <1>26, <1>27, <1>28, <1>29, <1>31
-----------------------------------------------------------------------------
(* What docker compose does.                                               *)

LEMMA ServicesAre ==
  /\ Cores \subseteq Services /\ Seeder \in Services /\ TestNode \in Services
  /\ Seeder \notin Cores /\ TestNode \notin Cores /\ Seeder # TestNode
  /\ \A s \in Services : s \in Cores \/ s = Seeder \/ s = TestNode
  /\ \A s \in Services \ {Seeder} : s \in Cores \/ s = TestNode
  /\ LaterGroup \subseteq Cores /\ IsFiniteSet(Cores)
  /\ ConnectTo \in [Cores -> SUBSET Cores]
<1>1. Seeder # TestNode
  BY DEF Seeder, TestNode
<1> QED
  BY <1>1, DeploymentAssumption DEF Services

LEMMA EnvironmentIs ==
  ASSUME NEW e \in Environment
  PROVE  /\ e.genesis \in BOOLEAN /\ e.seederIp \in Nat
         /\ e.args \in {"none", "addseeder", "connect"} /\ e.orchestrator \in BOOLEAN
         /\ [e EXCEPT !.genesis = TRUE] \in Environment
         /\ \A b \in BOOLEAN : [e EXCEPT !.orchestrator = b] \in Environment
         /\ \A k \in Nat : [e EXCEPT !.seederIp = k] \in Environment
         /\ \A a \in {"none", "addseeder", "connect"} : [e EXCEPT !.args = a] \in Environment
         /\ [e EXCEPT !.args = "addseeder", !.orchestrator = FALSE] \in Environment
BY DEF Environment

LEMMA ResolvedIs ==
  ASSUME env \in Environment, NEW s \in Services
  PROVE  /\ Resolved(s) \in Environment
         /\ s # Seeder => Resolved(s).genesis = env.genesis
         /\ s \in Cores /\ env.args = "connect" => Resolved(s).args \in {"connect", "none"}
<1>1. CASE s = Seeder
  <2>1. Resolved(Seeder) = Empty
    BY ServicesAre DEF Resolved
  <2>2. Empty \in Environment
    BY DEF Empty, Environment
  <2> QED
    BY <1>1, <2>1, <2>2, ServicesAre, Zenon
<1>2. CASE s = TestNode
  <2>1. Resolved(s) = [env EXCEPT !.args = "addseeder", !.orchestrator = FALSE]
    BY <1>2, ServicesAre DEF Resolved
  <2> QED
    BY <1>2, <2>1, ServicesAre DEF Environment
<1>3. CASE s \in Cores
  <2>1. Resolved(s) \in {[env EXCEPT !.args = "none"], env}
    BY <1>3, ServicesAre DEF Resolved
  <2> QED
    BY <2>1 DEF Environment
<1> QED
  BY <1>1, <1>2, <1>3, ServicesAre

LEMMA UpIs ==
  ASSUME Typed, NEW group \in SUBSET Services, ComposeUp(group)
  PROVE  /\ status' \in [Services -> {"absent", "stopped", "running"}]
         /\ \A s \in group : status'[s] = "running"
         /\ \A s \in Services \ group : status'[s] = status[s]
         /\ config' \in [Services -> Environment]
         /\ \A s \in group : config'[s] = Resolved(s)
         /\ \A s \in Services \ group : config'[s] = config[s]
         /\ created' \in [Services -> Nat]
         /\ \A s \in Services : created'[s] \in {created[s], created[s] + 1}
         /\ \A s \in Services : s \notin group \/ ~Fresh(s) => created'[s] = created[s]
         /\ \A s \in group : status[s] = "absent" => created'[s] = created[s] + 1
         /\ good' \subseteq good /\ links' \subseteq links
         /\ DOMAIN known' = Services /\ \A s \in Services : known'[s] \in {{}, known[s]}
<1>1. /\ status \in [Services -> {"absent", "stopped", "running"}]
      /\ config \in [Services -> Environment] /\ created \in [Services -> Nat]
      /\ \A s \in Services : Resolved(s) \in Environment
  BY ResolvedIs DEF Typed
<1> DEFINE replaced == {s \in group : Fresh(s)}
<1>2. /\ status' = [s \in Services |-> IF s \in group THEN "running" ELSE status[s]]
      /\ config' = [s \in Services |-> IF s \in replaced THEN Resolved(s) ELSE config[s]]
      /\ created' = [s \in Services |-> IF s \in replaced THEN created[s] + 1 ELSE created[s]]
      /\ good' \subseteq good /\ links' \subseteq links
      /\ DOMAIN known' = Services /\ \A s \in Services : known'[s] \in {{}, known[s]}
  BY DEF ComposeUp, Unlinked, LinksWithout
<1>3. \A s \in group \ replaced : status[s] # "absent" /\ config[s] = Resolved(s)
  BY DEF Fresh
<1>4. /\ status' \in [Services -> {"absent", "stopped", "running"}]
      /\ \A s \in group : status'[s] = "running"
      /\ \A s \in Services \ group : status'[s] = status[s]
  BY <1>1, <1>2
<1>5. /\ config' \in [Services -> Environment]
      /\ \A s \in group : config'[s] = Resolved(s)
      /\ \A s \in Services \ group : config'[s] = config[s]
  BY <1>1, <1>2, <1>3
<1>6. /\ created' \in [Services -> Nat]
      /\ \A s \in Services : created'[s] \in {created[s], created[s] + 1}
      /\ \A s \in Services : s \notin group \/ ~Fresh(s) => created'[s] = created[s]
      /\ \A s \in group : status[s] = "absent" => created'[s] = created[s] + 1
  BY <1>1, <1>2 DEF Fresh
<1> QED
  BY <1>2, <1>4, <1>5, <1>6

LEMMA DownIs ==
  ASSUME Typed, NEW group \in SUBSET Services,
         NEW becomes \in {"absent", "stopped", "running"}, ComposeDown(group, becomes)
  PROVE  /\ status' \in [Services -> {"absent", "stopped", "running"}]
         /\ \A s \in group : status'[s] = becomes
         /\ \A s \in Services \ group : status'[s] = status[s]
         /\ config' = config /\ created' = created /\ good' = good
         /\ links' \subseteq links /\ \A l \in links' : l[1] \notin group /\ l[2] \notin group
         /\ DOMAIN known' = Services /\ \A s \in Services : known'[s] \in {{}, known[s]}
BY DEF ComposeDown, Unlinked, LinksWithout, Typed

LEMMA KnownKept ==
  ASSUME Typed, DOMAIN known' = Services, \A s \in Services : known'[s] \in {{}, known[s]}
  PROVE  \A s \in Services : known'[s] = {} \/ \E a : known'[s] = {a}
BY DEF Typed

\* Which instruction is run by compose.
LEMMA ComposeIs ==
  ASSUME Typed, ComposeRuns
  PROVE  /\ pc' = pc + 1 /\ UNCHANGED <<env, persisted, seen, restarts>>
         /\ \/ /\ pc \in {3, 13} /\ ComposeUp({Seeder})
            \/ /\ pc \in {6, 15, 28} /\ ComposeUp(Cores)
            \/ /\ pc = 20 /\ ComposeUp({TestNode})
            \/ /\ pc = 34 /\ ComposeUp(LaterGroup)
            \/ /\ pc = 11 /\ ComposeDown(Cores \cup {Seeder}, "absent")
            \/ /\ pc = 22 /\ ComposeDown({TestNode, Seeder}, "absent")
            \/ /\ pc = 24 /\ ComposeDown(Cores, "absent")
            \/ /\ pc = 9 /\ ComposeDown(Cores, "running")
            \/ /\ pc = 33 /\ ComposeDown(LaterGroup, "stopped")
<1>1. pc \in 0..35
  BY DEF Typed
<1>2. CASE At("up") /\ ComposeUp(Instruction.group)
  BY <1>1, <1>2, ThisPlace DEF ComposeRuns, Continue
<1>3. CASE At("stop") /\ ComposeDown(Instruction.group, "stopped")
  BY <1>1, <1>3, ThisPlace DEF ComposeRuns, Continue
<1>4. CASE At("remove") /\ ComposeDown(Instruction.group, "absent")
  BY <1>1, <1>4, ThisPlace DEF ComposeRuns, Continue
<1>5. CASE At("restart") /\ ComposeDown(Instruction.group, "running")
  BY <1>1, <1>5, ThisPlace DEF ComposeRuns, Continue
<1> QED
  BY <1>2, <1>3, <1>4, <1>5 DEF ComposeRuns

\* What a process does to its environment.
LEMMA SettingIs ==
  ASSUME Typed, SetsEnvironment
  PROVE  /\ pc' = pc + 1 /\ UNCHANGED <<persisted, seen, network>>
         /\ \/ pc \in {1, 23, 30, 32} /\ env' = persisted
            \/ pc \in {2, 25} /\ env' = [env EXCEPT !.genesis = TRUE]
            \/ pc = 26 /\ env' = [env EXCEPT !.orchestrator = TRUE]
            \/ pc = 5 /\ env' = [env EXCEPT !.args = "addseeder"]
            \/ pc \in {12, 27} /\ env' = [env EXCEPT !.args = "connect"]
            \/ pc \in {4, 14, 19} /\ env' = [env EXCEPT !.seederIp = created[Seeder]]
<1>1. pc \in 0..35
  BY DEF Typed
<1>2. pc' = pc + 1 /\ UNCHANGED <<persisted, seen, network>>
  BY DEF SetsEnvironment, Continue
<1>3. \A name : At(name) <=> Running /\ Job[pc].op = name
  BY DEF At
<1>4. CASE At("newProcess")
  <2>1. env' = persisted
    BY <1>3, <1>4 DEF SetsEnvironment
  <2> QED
    BY <1>1, <1>2, <1>4, <2>1, ThisPlace
<1>5. CASE At("setGenesis")
  <2>1. env' = [env EXCEPT !.genesis = TRUE]
    BY <1>3, <1>5 DEF SetsEnvironment
  <2> QED
    BY <1>1, <1>2, <1>5, <2>1, ThisPlace
<1>6. CASE At("setOrchestrator")
  <2>1. env' = [env EXCEPT !.orchestrator = TRUE]
    BY <1>3, <1>6 DEF SetsEnvironment
  <2> QED
    BY <1>1, <1>2, <1>6, <2>1, ThisPlace
<1>7. CASE At("setArgs")
  <2>1. env' = [env EXCEPT !.args = Instruction.mode]
    BY <1>3, <1>7 DEF SetsEnvironment
  <2> QED
    BY <1>1, <1>2, <1>7, <2>1, ThisPlace
<1>8. CASE At("seederIp")
  <2>1. env' = [env EXCEPT !.seederIp = created[Seeder]]
    BY <1>3, <1>8 DEF SetsEnvironment
  <2> QED
    BY <1>1, <1>2, <1>8, <2>1, ThisPlace
<1> QED
  BY <1>4, <1>5, <1>6, <1>7, <1>8 DEF SetsEnvironment

-----------------------------------------------------------------------------
(* The steps.                                                              *)

LEMMA Initially ==
  ASSUME Init
  PROVE  IInv
<1>1. Empty \in Environment
  BY DEF Empty, Environment
<1>2. /\ pc = 1 /\ env = Empty /\ persisted = Empty /\ seen = <<>>
      /\ status = [s \in Services |-> "absent"] /\ config = [s \in Services |-> Empty]
      /\ created = [s \in Services |-> 0] /\ good = {} /\ links = {} /\ restarts = 0
      /\ known = [s \in Services |-> {}]
  BY DEF Init
<1>3. Typed
  BY <1>1, <1>2, DeploymentAssumption DEF Typed
<1>4. Settings /\ Linked
  BY <1>2 DEF Settings, Linked
<1>5. Containers /\ Generations
  BY <1>2, ServicesAre DEF Containers, Generations
<1>6. Connected
  <2>1. DOMAIN seen = {}
    BY <1>2
  <2> QED
    BY <1>2, <2>1 DEF Connected
<1> QED
  BY <1>3, <1>4, <1>5, <1>6 DEF IInv

LEMMA ComposeRunsKeeps ==
  ASSUME IInv, ComposeRuns
  PROVE  IInv'
<1>1. Typed /\ Settings /\ Containers /\ Generations /\ Linked /\ Connected
  BY DEF IInv
<1>2. /\ pc' = pc + 1 /\ env' = env /\ persisted' = persisted /\ seen' = seen
      /\ restarts' = restarts
      /\ \/ /\ pc \in {3, 13} /\ ComposeUp({Seeder})
         \/ /\ pc \in {6, 15, 28} /\ ComposeUp(Cores)
         \/ /\ pc = 20 /\ ComposeUp({TestNode})
         \/ /\ pc = 34 /\ ComposeUp(LaterGroup)
         \/ /\ pc = 11 /\ ComposeDown(Cores \cup {Seeder}, "absent")
         \/ /\ pc = 22 /\ ComposeDown({TestNode, Seeder}, "absent")
         \/ /\ pc = 24 /\ ComposeDown(Cores, "absent")
         \/ /\ pc = 9 /\ ComposeDown(Cores, "running")
         \/ /\ pc = 33 /\ ComposeDown(LaterGroup, "stopped")
  BY <1>1, ComposeIs
<1>3. pc \in {3, 6, 9, 11, 13, 15, 20, 22, 24, 28, 33, 34}
  BY <1>2
<1>4. /\ {Seeder} \in SUBSET Services /\ Cores \in SUBSET Services
      /\ {TestNode} \in SUBSET Services /\ LaterGroup \in SUBSET Services
      /\ Cores \cup {Seeder} \in SUBSET Services /\ {TestNode, Seeder} \in SUBSET Services
  BY ServicesAre
<1>5. /\ status \in [Services -> {"absent", "stopped", "running"}]
      /\ config \in [Services -> Environment] /\ created \in [Services -> Nat]
      /\ env \in Environment /\ persisted \in Environment /\ restarts \in 0..MaxRestarts
  BY <1>1 DEF Typed
<1>6. \A s \in Services : Resolved(s)' = Resolved(s)
  BY <1>2 DEF Resolved
<1>7. ASSUME NEW group \in SUBSET Services, ComposeUp(group)
      PROVE  Typed' /\ Linked'
  <2>1. /\ status' \in [Services -> {"absent", "stopped", "running"}]
        /\ \A s \in group : status'[s] = "running"
        /\ \A s \in Services \ group : status'[s] = status[s]
        /\ config' \in [Services -> Environment] /\ created' \in [Services -> Nat]
        /\ links' \subseteq links
        /\ DOMAIN known' = Services /\ \A s \in Services : known'[s] \in {{}, known[s]}
    BY <1>1, <1>7, UpIs
  <2>2. Typed'
    <3>1. \A s \in Services : known'[s] = {} \/ \E a : known'[s] = {a}
      BY <1>1, <2>1, KnownKept
    <3>2. pc' \in 0..35
      BY <1>2, <1>3
    <3> QED
      BY <1>2, <1>5, <2>1, <3>1, <3>2 DEF Typed
  <2>3. Linked'
    BY <1>1, <2>1, ServicesAre DEF Linked
  <2> QED
    BY <2>2, <2>3
<1>8. ASSUME NEW group \in SUBSET Services, NEW becomes \in {"absent", "stopped", "running"},
             ComposeDown(group, becomes)
      PROVE  Typed' /\ Linked'
  <2>1. /\ status' \in [Services -> {"absent", "stopped", "running"}]
        /\ \A s \in Services \ group : status'[s] = status[s]
        /\ config' = config /\ created' = created
        /\ links' \subseteq links /\ \A l \in links' : l[1] \notin group /\ l[2] \notin group
        /\ DOMAIN known' = Services /\ \A s \in Services : known'[s] \in {{}, known[s]}
    BY <1>1, <1>8, DownIs
  <2>2. Typed'
    <3>1. \A s \in Services : known'[s] = {} \/ \E a : known'[s] = {a}
      BY <1>1, <2>1, KnownKept
    <3>2. pc' \in 0..35
      BY <1>2, <1>3
    <3> QED
      BY <1>2, <1>5, <2>1, <3>1, <3>2 DEF Typed
  <2>3. Linked'
    BY <1>1, <2>1, ServicesAre DEF Linked
  <2> QED
    BY <2>2, <2>3
<1>9. Typed' /\ Linked'
  BY <1>2, <1>4, <1>7, <1>8
<1>10. Settings'
  BY <1>1, <1>2, <1>3 DEF Settings
<1>11. Containers' /\ Generations'
  <2>1. CASE pc \in {3, 13} /\ ComposeUp({Seeder})
    <3>1. \A s \in Services \ {Seeder} : /\ status'[s] = status[s] /\ config'[s] = config[s]
                                        /\ created'[s] = created[s]
      BY <1>1, <1>4, <2>1, UpIs
    <3>2. good' \subseteq good
      BY <1>1, <1>4, <2>1, UpIs
    <3>3. Containers'
      BY <1>1, <1>2, <2>1, <3>1, ServicesAre DEF Containers
    <3>4. Generations'
      BY <1>1, <1>2, <2>1, <3>1, <3>2, ServicesAre DEF Generations
    <3> QED
      BY <3>3, <3>4
  <2>2. CASE pc \in {6, 15, 28} /\ ComposeUp(Cores)
    <3>1. /\ \A s \in Cores : /\ status'[s] = "running" /\ config'[s] = Resolved(s)
                              /\ created'[s] \in {created[s], created[s] + 1}
                              /\ status[s] = "absent" => created'[s] = created[s] + 1
          /\ \A s \in Services \ Cores : /\ status'[s] = status[s] /\ config'[s] = config[s]
          /\ good' \subseteq good
      BY <1>1, <1>4, <2>2, UpIs, ServicesAre
    <3>2. /\ env.genesis /\ pc = 28 => env.args = "connect"
          /\ \A s \in Cores : /\ Resolved(s).genesis
                              /\ pc = 28 => Resolved(s).args \in {"connect", "none"}
      BY <1>1, <1>5, <2>2, ResolvedIs, ServicesAre DEF Settings
    <3>3. Containers'
      BY <1>1, <1>2, <1>6, <2>2, <3>1, <3>2, ServicesAre DEF Containers
    <3>4. \A s \in Cores : created[s] \in Nat
      BY <1>5, ServicesAre
    <3>5. Generations'
      <4>1. /\ pc' \in {7, 16, 29}
            /\ pc' = 7 => \A n \in Cores : created'[n] <= 1
            /\ pc' = 16 => \A n \in Cores : created'[n] <= 2
            /\ pc' = 29 => \A n \in Cores : created'[n] <= 3
        BY <1>1, <1>2, <2>2, <3>1, <3>4 DEF Generations
      <4>2. \A n \in Cores : created'[n] >= 1 /\ created'[n] <= 3 /\ created[n] <= created'[n]
                             /\ created'[n] \in Nat
        BY <1>1, <2>2, <3>1, <3>4, <4>1 DEF Generations
      <4>3. \A a \in good' : \E n \in Cores : \E i \in 1..created'[n] : a = <<n, i>>
        <5>1. ASSUME NEW n \in Cores, NEW i \in 1..created[n]
              PROVE  i \in 1..created'[n]
          BY <3>4, <4>2
        <5> QED
          BY <1>1, <3>1, <5>1 DEF Generations
      <4> QED
        BY <4>1, <4>2, <4>3 DEF Generations
    <3> QED
      BY <3>3, <3>5
  <2>3. CASE pc = 20 /\ ComposeUp({TestNode})
    <3>1. /\ \A s \in Services \ {TestNode} : /\ status'[s] = status[s] /\ config'[s] = config[s]
                                             /\ created'[s] = created[s]
          /\ config'[TestNode] = Resolved(TestNode) /\ good' \subseteq good
      BY <1>1, <1>4, <2>3, UpIs
    <3>2. Resolved(TestNode).genesis
      BY <1>1, <1>5, <2>3, ResolvedIs, ServicesAre DEF Settings
    <3>3. Containers'
      BY <1>1, <1>2, <2>3, <3>1, <3>2, ServicesAre DEF Containers
    <3>4. Generations'
      BY <1>1, <1>2, <2>3, <3>1, ServicesAre DEF Generations
    <3> QED
      BY <3>3, <3>4
  <2>4. CASE pc = 34 /\ ComposeUp(LaterGroup)
    <3>1. /\ \A s \in LaterGroup : /\ status'[s] = "running" /\ config'[s] = Resolved(s)
                                   /\ created'[s] \in {created[s], created[s] + 1}
          /\ \A s \in Services \ LaterGroup : /\ status'[s] = status[s] /\ config'[s] = config[s]
          /\ \A s \in Services : /\ created'[s] \in {created[s], created[s] + 1}
                                 /\ s \notin LaterGroup \/ ~Fresh(s) => created'[s] = created[s]
          /\ good' \subseteq good
      BY <1>1, <1>4, <2>4, UpIs, ServicesAre
    <3>2. GithubActions => \A s \in Cores : Resolved(s).genesis
      BY <1>1, <1>5, <2>4, ResolvedIs, ServicesAre DEF Settings
    <3>3. GithubActions => \A s \in Cores : config[s] = Resolved(s)
      BY <1>1, <2>4 DEF Containers
    <3>4. \A s \in Cores : status[s] # "absent"
      BY <1>1, <2>4 DEF Containers
    <3>5. Containers'
      BY <1>1, <1>2, <1>6, <2>4, <3>1, <3>2, <3>3, ServicesAre DEF Containers
    <3>6. \A s \in Cores : created[s] \in Nat /\ created[s] >= 1
      BY <1>1, <1>5, <3>4, ServicesAre DEF Generations
    <3>7. \A n \in Cores : /\ created'[n] >= 1 /\ created[n] <= created'[n] /\ created'[n] \in Nat
                           /\ GithubActions => created'[n] = created[n]
      BY <3>1, <3>3, <3>4, <3>6, ServicesAre DEF Fresh
    <3>8. \A a \in good' : \E n \in Cores : \E i \in 1..created'[n] : a = <<n, i>>
      <4>1. ASSUME NEW n \in Cores, NEW i \in 1..created[n]
            PROVE  i \in 1..created'[n]
        BY <3>6, <3>7
      <4> QED
        BY <1>1, <3>1, <4>1 DEF Generations
    <3>9. Generations'
      BY <1>1, <1>2, <2>4, <3>7, <3>8 DEF Generations
    <3> QED
      BY <3>5, <3>9
  <2>5. ASSUME NEW group \in SUBSET Services, NEW becomes \in {"absent", "stopped", "running"},
               ComposeDown(group, becomes), pc \in {9, 11, 22, 24, 33},
               pc = 22 => group = {TestNode, Seeder} /\ becomes = "absent",
               pc = 24 => group = Cores /\ becomes = "absent",
               pc \in {9, 33} => group \subseteq Cores /\ becomes # "absent",
               pc = 11 => becomes = "absent"
        PROVE  Containers' /\ Generations'
    <3>1. /\ \A s \in group : status'[s] = becomes
          /\ \A s \in Services \ group : status'[s] = status[s]
          /\ config' = config /\ created' = created /\ good' = good
      BY <1>1, <2>5, DownIs
    <3>2. pc \in {9, 33} => \A s \in Cores : status[s] # "absent"
      BY <1>1 DEF Containers
    <3>3. \A s \in Services : status'[s] # "absent" => status[s] # "absent"
      BY <2>5, <3>1, <3>2
    <3>4. Containers'
      BY <1>1, <1>2, <1>6, <2>5, <3>1, <3>2, <3>3, ServicesAre DEF Containers
    <3>5. Generations'
      BY <1>1, <1>2, <2>5, <3>1, <3>3, ServicesAre DEF Generations
    <3> QED
      BY <3>4, <3>5
  <2>6. LaterGroup \subseteq Cores
    BY ServicesAre
  <2> QED
    BY <1>2, <1>4, <2>1, <2>2, <2>3, <2>4, <2>5, <2>6
<1>12. Connected'
  <2>1. ASSUME pc = 28 PROVE links' = {}
    <3>1. links' \subseteq links
      BY <1>1, <1>2, <1>4, <2>1, UpIs
    <3>2. \A l \in links : FALSE
      BY <1>1, <2>1 DEF Linked, Containers
    <3> QED
      BY <3>1, <3>2
  <2> QED
    BY <1>1, <1>2, <1>3, <2>1 DEF Connected
<1> QED
  BY <1>9, <1>10, <1>11, <1>12 DEF IInv

LEMMA SameEnvironment ==
  ASSUME NEW d \in Environment, NEW e \in Environment,
         d.genesis = e.genesis, d.seederIp = e.seederIp,
         d.args = e.args, d.orchestrator = e.orchestrator
  PROVE  d = e
BY DEF Environment

LEMMA JobFailsKeeps ==
  ASSUME IInv, JobFails, Running
  PROVE  IInv'
<1>1. Typed /\ Settings /\ Containers /\ Generations /\ Linked /\ Connected
  BY DEF IInv
<1>2. pc \in 0..34
  <2>1. pc \in 0..35
    BY <1>1 DEF Typed
  <2>2. pc \in 1..34
    BY JobIs DEF Running
  <2> QED
    BY <2>2
<1>3. pc' = 0 /\ UNCHANGED <<env, persisted, seen, restarts>>
  BY DEF JobFails
<1>4. {TestNode, Seeder} \in SUBSET Services
  BY ServicesAre
<1>5. /\ status' \in [Services -> {"absent", "stopped", "running"}]
      /\ \A s \in Services : status'[s] \in {status[s], "absent"}
      /\ config' = config /\ created' = created /\ good' = good
      /\ links' \subseteq links
      /\ \A l \in links' : \A s \in {l[1], l[2]} : s \in Services => status'[s] = status[s]
      /\ DOMAIN known' = Services
      /\ \A s \in Services : known'[s] = {} \/ \E a : known'[s] = {a}
  <2>1. CASE ComposeDown({TestNode, Seeder}, "absent")
    <3>1. /\ status' \in [Services -> {"absent", "stopped", "running"}]
          /\ \A s \in {TestNode, Seeder} : status'[s] = "absent"
          /\ \A s \in Services \ {TestNode, Seeder} : status'[s] = status[s]
          /\ config' = config /\ created' = created /\ good' = good /\ links' \subseteq links
          /\ \A l \in links' : l[1] \notin {TestNode, Seeder} /\ l[2] \notin {TestNode, Seeder}
          /\ DOMAIN known' = Services /\ \A s \in Services : known'[s] \in {{}, known[s]}
      BY <1>1, <1>4, <2>1, DownIs
    <3>2. \A s \in Services : known'[s] = {} \/ \E a : known'[s] = {a}
      BY <1>1, <3>1, KnownKept
    <3> QED
      BY <3>1, <3>2
  <2>2. CASE UNCHANGED <<status, config, created, good, known, links>>
    BY <1>1, <2>2 DEF Typed
  <2> QED
    BY <2>1, <2>2 DEF JobFails
<1>6. Typed'
  BY <1>1, <1>3, <1>5 DEF Typed
<1>7. Settings' /\ Connected'
  BY <1>3 DEF Settings, Connected
<1>8. Containers'
  <2>1. GithubActions => \A s \in Services \ {Seeder} : status[s] # "absent" => config[s].genesis
    BY <1>1 DEF Containers
  <2> QED
    BY <1>3, <1>5, <2>1 DEF Containers
<1>9. Generations'
  <2>1. /\ \A n \in Cores : created[n] <= 3
        /\ \A n \in Cores : status[n] # "absent" => created[n] >= 1
        /\ \A a \in good : \E n \in Cores : \E i \in 1..created[n] : a = <<n, i>>
    BY <1>1, <1>2 DEF Generations
  <2>2. \A n \in Cores : status'[n] # "absent" => created'[n] >= 1
    BY <1>5, <2>1, ServicesAre
  <2> QED
    BY <1>3, <1>5, <2>1, <2>2 DEF Generations
<1>10. Linked'
  BY <1>1, <1>5, ServicesAre DEF Linked
<1> QED
  BY <1>6, <1>7, <1>8, <1>9, <1>10 DEF IInv

LEMMA SettingKeeps ==
  ASSUME IInv, SetsEnvironment
  PROVE  IInv'
<1>1. Typed /\ Settings /\ Containers /\ Generations /\ Linked /\ Connected
  BY DEF IInv
<1>2. /\ pc' = pc + 1 /\ persisted' = persisted /\ seen' = seen
      /\ UNCHANGED <<status, config, created, good, known, links, restarts>>
      /\ \/ pc \in {1, 23, 30, 32} /\ env' = persisted
         \/ pc \in {2, 25} /\ env' = [env EXCEPT !.genesis = TRUE]
         \/ pc = 26 /\ env' = [env EXCEPT !.orchestrator = TRUE]
         \/ pc = 5 /\ env' = [env EXCEPT !.args = "addseeder"]
         \/ pc \in {12, 27} /\ env' = [env EXCEPT !.args = "connect"]
         \/ pc \in {4, 14, 19} /\ env' = [env EXCEPT !.seederIp = created[Seeder]]
  BY <1>1, SettingIs DEF network
<1>3. pc \in {1, 2, 4, 5, 12, 14, 19, 23, 25, 26, 27, 30, 32}
  BY <1>2
<1>4. env \in Environment /\ persisted \in Environment /\ created[Seeder] \in Nat
  BY <1>1, ServicesAre DEF Typed
<1>5. /\ env' \in Environment
      /\ pc \in {1, 23, 30, 32} => env' = persisted
      /\ pc \in {2, 25} => env'.genesis = TRUE
      /\ pc \in {4, 5, 12, 14, 19, 26, 27} => env'.genesis = env.genesis
      /\ pc \in {14, 19} => env'.args = env.args
      /\ pc \in {12, 27} => env'.args = "connect"
      /\ pc = 26 => env'.orchestrator = TRUE
      /\ pc = 27 => env'.orchestrator = env.orchestrator
      /\ pc \in {25, 26, 27} => env'.seederIp = env.seederIp
  <2>1. CASE pc \in {1, 23, 30, 32} /\ env' = persisted
    BY <1>4, <2>1
  <2>2. CASE pc \in {2, 25} /\ env' = [env EXCEPT !.genesis = TRUE]
    <3>1. env' \in Environment
      BY <1>4, <2>2, EnvironmentIs
    <3>2. env'.genesis = TRUE /\ env'.seederIp = env.seederIp
      BY <1>4, <2>2 DEF Environment
    <3>3. /\ pc \in {2, 25}
          /\ pc \notin {1, 4, 5, 12, 14, 19, 23, 26, 27, 30, 32}
      BY <2>2
    <3> QED
      BY <3>1, <3>2, <3>3
  <2>3. CASE pc = 26 /\ env' = [env EXCEPT !.orchestrator = TRUE]
    <3>1. env' \in Environment
      BY <1>4, <2>3, EnvironmentIs
    <3>2. /\ env'.genesis = env.genesis /\ env'.seederIp = env.seederIp
          /\ env'.orchestrator = TRUE
      BY <1>4, <2>3 DEF Environment
    <3> QED
      BY <2>3, <3>1, <3>2
  <2>4. CASE pc = 5 /\ env' = [env EXCEPT !.args = "addseeder"]
    BY <1>4, <2>4 DEF Environment
  <2>5. CASE pc \in {12, 27} /\ env' = [env EXCEPT !.args = "connect"]
    BY <1>4, <2>5 DEF Environment
  <2>6. CASE pc \in {4, 14, 19} /\ env' = [env EXCEPT !.seederIp = created[Seeder]]
    BY <1>4, <2>6 DEF Environment
  <2> QED
    BY <1>2, <2>1, <2>2, <2>3, <2>4, <2>5, <2>6
<1>6. Typed'
  BY <1>1, <1>2, <1>3, <1>5 DEF Typed
<1>7. Settings'
  <2>1. pc' \in 3..22 \cup 26..29 => env'.genesis
    BY <1>1, <1>2, <1>3, <1>5 DEF Settings
  <2>2. pc' \in 13..22 \cup 28..29 => env'.args = "connect"
    BY <1>1, <1>2, <1>3, <1>5 DEF Settings
  <2>3. pc' \in 27..29 => env'.orchestrator
    BY <1>1, <1>2, <1>3, <1>5 DEF Settings
  <2>4. GithubActions =>
          /\ pc' \in 17..35 => persisted.genesis /\ persisted.args = "connect"
          /\ pc' \in 24..29 => env'.seederIp = persisted.seederIp
          /\ pc' \in 30..35 => env' = persisted
    BY <1>1, <1>2, <1>3, <1>5 DEF Settings
  <2> QED
    BY <1>2, <2>1, <2>2, <2>3, <2>4 DEF Settings
<1>8. Containers'
  <2>1. GithubActions /\ pc' \in 29..35 => pc \in 29..35 /\ env' = env
    BY <1>1, <1>2, <1>3, <1>5 DEF Settings
  <2>2. GithubActions /\ pc' \in 29..35 => \A n \in Cores : config[n] = Resolved(n)'
    BY <1>1, <2>1 DEF Containers, Resolved
  <2> QED
    BY <1>1, <1>2, <1>3, <2>2 DEF Containers
<1>9. Generations' /\ Linked'
  BY <1>1, <1>2, <1>3 DEF Generations, Linked
<1>10. Connected'
  <2>1. /\ pc' \in 29..31 => pc \in 29..31
        /\ pc' \in 1..9 \cup 11..30 => pc \in 1..9 \cup 11..30
        /\ pc' = 31 => pc = 30
        /\ pc' \in 32..35 => pc \in 32..35
    BY <1>2, <1>3
  <2>2. pc = 30 => DOMAIN seen = {}
    BY <1>1 DEF Connected
  <2> QED
    BY <1>1, <1>2, <2>1, <2>2 DEF Connected, Neighbours
<1> QED
  BY <1>6, <1>7, <1>8, <1>9, <1>10 DEF IInv

LEMMA PersistsSeederEnvKeeps ==
  ASSUME IInv, PersistsSeederEnv
  PROVE  IInv'
<1>1. Typed /\ Settings /\ Containers /\ Generations /\ Linked /\ Connected
  BY DEF IInv
<1>2. /\ pc = 16 /\ pc' = 17 /\ persisted' = (IF GithubActions THEN env ELSE persisted)
      /\ env' = env /\ seen' = seen
      /\ UNCHANGED <<status, config, created, good, known, links, restarts>>
  <2>1. pc = 16
    BY <1>1, ThisPlace DEF PersistsSeederEnv, Typed
  <2> QED
    BY <2>1 DEF PersistsSeederEnv, Continue, network
<1>3. Typed' /\ Linked'
  <2>1. persisted' \in Environment
    BY <1>1, <1>2 DEF Typed
  <2>2. Typed'
    BY <1>1, <1>2, <2>1 DEF Typed
  <2>3. Linked'
    BY <1>1, <1>2 DEF Linked
  <2> QED
    BY <2>2, <2>3
<1>4. Settings'
  BY <1>1, <1>2 DEF Settings
<1>5. Containers' /\ Generations'
  BY <1>1, <1>2 DEF Containers, Generations
<1>6. Connected'
  BY <1>1, <1>2 DEF Connected
<1> QED
  BY <1>3, <1>4, <1>5, <1>6 DEF IInv

LEMMA PersistsOrchestratorKeeps ==
  ASSUME IInv, PersistsOrchestrator
  PROVE  IInv'
<1>1. Typed /\ Settings /\ Containers /\ Generations /\ Linked /\ Connected
  BY DEF IInv
<1>2. /\ pc = 29 /\ pc' = 30 /\ persisted' = [persisted EXCEPT !.orchestrator = GithubActions]
      /\ env' = env /\ seen' = seen
      /\ UNCHANGED <<status, config, created, good, known, links, restarts>>
  <2>1. pc = 29
    BY <1>1, ThisPlace DEF PersistsOrchestrator, Typed
  <2> QED
    BY <2>1 DEF PersistsOrchestrator, Continue, network
<1>3. env \in Environment /\ persisted \in Environment /\ persisted' \in Environment
  BY <1>1, <1>2, DeploymentAssumption DEF Typed, Environment
<1>4. Typed' /\ Linked'
  BY <1>1, <1>2, <1>3 DEF Typed, Linked
<1>5. GithubActions => persisted' = env
  <2> SUFFICES ASSUME GithubActions PROVE persisted' = env
    OBVIOUS
  <2>1. /\ persisted.genesis = env.genesis /\ persisted.args = env.args
        /\ persisted.seederIp = env.seederIp /\ env.orchestrator = TRUE
    BY <1>1, <1>2, <1>3 DEF Settings, Environment
  <2>2. /\ persisted'.genesis = persisted.genesis /\ persisted'.args = persisted.args
        /\ persisted'.seederIp = persisted.seederIp /\ persisted'.orchestrator = GithubActions
    BY <1>2, <1>3 DEF Environment
  <2>3. GithubActions = TRUE
    BY DeploymentAssumption
  <2> QED
    BY <1>3, <2>1, <2>2, <2>3, SameEnvironment
<1>6. Settings'
  <2>1. GithubActions => persisted'.genesis /\ persisted'.args = "connect"
    BY <1>1, <1>2, <1>5 DEF Settings
  <2> QED
    BY <1>2, <1>5, <2>1 DEF Settings
<1>7. Containers' /\ Generations'
  <2>1. \A s : Resolved(s)' = Resolved(s)
    BY <1>2 DEF Resolved
  <2> QED
    BY <1>1, <1>2, <2>1 DEF Containers, Generations
<1>8. Connected'
  BY <1>1, <1>2 DEF Connected
<1> QED
  BY <1>4, <1>6, <1>7, <1>8 DEF IInv

-----------------------------------------------------------------------------
(* The waits.                                                              *)

\* A wait changes nothing but the job's place and what it has seen.
LEMMA WaitKeeps ==
  ASSUME IInv, UNCHANGED <<env, persisted, network>>, pc \in {7, 8, 10, 17, 18, 21, 31},
         pc' \in {0, pc, pc + 1}
  PROVE  Typed' /\ Settings' /\ Containers' /\ Generations' /\ Linked'
<1>1. Typed /\ Settings /\ Containers /\ Generations /\ Linked
  BY DEF IInv
<1>2. /\ UNCHANGED <<env, persisted, status, config, created, good, known, links, restarts>>
      /\ pc' \in {0, 7, 8, 9, 10, 11, 17, 18, 19, 21, 22, 31, 32}
  BY DEF network
<1>3. Typed'
  <2>1. pc' \in 0..35
    BY <1>2
  <2> QED
    BY <1>1, <1>2, <2>1 DEF Typed
<1>4. Settings'
  BY <1>1, <1>2 DEF Settings
<1>5. Containers'
  <2>1. \A s : Resolved(s)' = Resolved(s)
    BY <1>2 DEF Resolved
  <2> QED
    BY <1>1, <1>2, <2>1 DEF Containers
<1>6. Generations' /\ Linked'
  BY <1>1, <1>2 DEF Generations, Linked
<1> QED
  BY <1>3, <1>4, <1>5, <1>6

LEMMA EarlyWaitsKeep ==
  ASSUME IInv,
         \/ ResolvesIps \/ SeederConverged \/ AllDiscovered
         \/ Bootstrapped /\ ~JobFails
         \/ \E n \in Cores : DiscoversPeer(n)
  PROVE  IInv'
<1>1. Typed /\ Connected /\ pc \in 0..35
  BY DEF IInv, Typed
<1>2. /\ UNCHANGED <<env, persisted, network>> /\ links' = links
      /\ \/ pc \in {7, 8, 17, 18} /\ pc' = pc + 1 /\ seen' = seen
         \/ pc = 10 /\ pc' = 11 /\ DOMAIN seen' = {}
         \/ pc = 21 /\ pc' = 22 /\ seen' = seen
         \/ pc = 10 /\ pc' = 10
  <2>1. CASE ResolvesIps
    BY <1>1, <2>1, ThisPlace DEF ResolvesIps, Continue, network
  <2>2. CASE SeederConverged
    BY <1>1, <2>2, ThisPlace DEF SeederConverged, Continue, network
  <2>3. CASE AllDiscovered
    <3>1. pc = 10
      BY <1>1, <2>3, ThisPlace DEF AllDiscovered
    <3>2. seen' = <<>> /\ pc' = pc + 1 /\ UNCHANGED <<env, persisted, network>>
      BY <2>3 DEF AllDiscovered, Continue
    <3>3. DOMAIN seen' = {}
      BY <3>2
    <3> QED
      BY <3>1, <3>2, <3>3 DEF network
  <2>4. CASE Bootstrapped /\ ~JobFails
    <3>1. At("bootstrap") /\ pc = 21
      BY <1>1, <2>4, ThisPlace DEF Bootstrapped
    <3>2. Continue /\ UNCHANGED <<env, persisted, ips, seen, network>>
      BY <2>4 DEF Bootstrapped
    <3> QED
      BY <3>1, <3>2 DEF Continue, network
  <2>5. CASE \E n \in Cores : DiscoversPeer(n)
    BY <1>1, <2>5, ThisPlace DEF DiscoversPeer, network
  <2> QED
    BY <2>1, <2>2, <2>3, <2>4, <2>5
<1>3. pc \in {7, 8, 10, 17, 18, 21, 31} /\ pc' \in {0, pc, pc + 1}
  BY <1>2
<1>4. Connected'
  <2>1. pc' \in {0, 8, 9, 10, 11, 18, 19, 22}
    BY <1>2
  <2>2. pc' \notin {0, 10} => DOMAIN seen' = {}
    <3>1. CASE pc = 10
      BY <1>2, <3>1
    <3>2. CASE pc # 10
      <4>1. pc' # 0 => DOMAIN seen = {}
        BY <1>1, <1>2, <3>2 DEF Connected
      <4> QED
        BY <1>2, <3>2, <4>1
    <3> QED
      BY <3>1, <3>2
  <2> QED
    BY <2>1, <2>2, SMTT(30) DEF Connected
<1> QED
  BY <1>2, <1>3, <1>4, WaitKeeps DEF IInv

\* The topology in the -connect graph: every connection is one of its edges.
LEMMA PeersAreNeighbours ==
  ASSUME Connected, pc = 31, NEW n \in Cores
  PROVE  Peers(n) \subseteq Neighbours(n)
<1>1. \A l \in links : l[1] \in Cores /\ l[2] \in ConnectTo[l[1]]
  BY DEF Connected
<1>2. ASSUME NEW p \in Peers(n)
      PROVE  p \in Neighbours(n)
  <2>1. \/ \E l \in links : l[2] = n /\ p = l[1]
        \/ \E l \in links : l[1] = n /\ p = l[2]
    BY <1>2 DEF Peers
  <2> QED
    BY <1>1, <2>1 DEF Neighbours
<1> QED
  BY <1>2

LEMMA CountsConnectionsKeeps ==
  ASSUME IInv, NEW n \in Cores, CountsConnections(n)
  PROVE  IInv'
<1>1. Typed /\ Connected /\ pc \in 0..35
  BY DEF IInv, Typed
<1>2. /\ pc = 31 /\ pc' = pc /\ UNCHANGED <<env, persisted, network>> /\ links' = links
      /\ seen' = SeenWith(n)
  BY <1>1, ThisPlace DEF CountsConnections, network
<1>3. /\ DOMAIN seen' = DOMAIN seen \cup {n}
      /\ \A m \in DOMAIN seen' : seen'[m] = IF m = n THEN Peers(n) ELSE seen[m]
  BY <1>2 DEF SeenWith
<1>4. \A m \in DOMAIN seen' : seen'[m] \subseteq Neighbours(m)
  <2>1. Peers(n) \subseteq Neighbours(n)
    BY <1>1, <1>2, PeersAreNeighbours
  <2> QED
    BY <1>1, <1>2, <1>3, <2>1 DEF Connected
<1>5. Connected'
  BY <1>1, <1>2, <1>3, <1>4 DEF Connected, Neighbours
<1> QED
  BY <1>2, <1>5, WaitKeeps DEF IInv

LEMMA TopologyRetriedKeeps ==
  ASSUME IInv, TopologyRetried
  PROVE  IInv'
<1>1. Typed /\ Connected /\ pc \in 0..35
  BY DEF IInv, Typed
<1>2. /\ pc = 31 /\ pc' = pc /\ UNCHANGED <<env, persisted, network>> /\ links' = links
      /\ seen' = <<>>
  BY <1>1, ThisPlace DEF TopologyRetried, network
<1>3. DOMAIN seen' = {}
  BY <1>2
<1>4. Connected'
  BY <1>1, <1>2, <1>3 DEF Connected
<1> QED
  BY <1>2, <1>4, WaitKeeps DEF IInv

\* Among neighbours only, as many as there are neighbours is all of them.
LEMMA TopologyConvergedKeeps ==
  ASSUME IInv, TopologyConverged
  PROVE  IInv'
<1>1. Typed /\ Connected /\ pc \in 0..35
  BY DEF IInv, Typed
<1>2. /\ pc = 31 /\ pc' = 32 /\ UNCHANGED <<env, persisted, network>> /\ links' = links
      /\ seen' = seen /\ DOMAIN seen = Cores /\ Mismatches = {}
  <2>1. pc = 31
    BY <1>1, ThisPlace DEF TopologyConverged
  <2> QED
    BY <2>1 DEF TopologyConverged, Continue, network
<1>3. ASSUME NEW n \in Cores
      PROVE  seen[n] = Neighbours(n)
  <2>1. Neighbours(n) \subseteq Cores
    BY ServicesAre DEF Neighbours
  <2>2. IsFiniteSet(Neighbours(n))
    BY <2>1, ServicesAre, FS_Subset
  <2>3. seen[n] \subseteq Neighbours(n)
    BY <1>1, <1>2 DEF Connected
  <2>4. Cardinality(seen[n]) = Cardinality(Neighbours(n))
    BY <1>2 DEF Mismatches
  <2> QED
    BY <2>2, <2>3, <2>4, FS_Subset
<1>4. Connected'
  BY <1>2, <1>3 DEF Connected, Neighbours
<1> QED
  BY <1>2, <1>4, WaitKeeps DEF IInv

-----------------------------------------------------------------------------
(* Nodes and seeder.                                                       *)

\* They touch no container and nothing of the job.
LEMMA NodesLeave ==
  ASSUME IInv, Nodes, restarts' \in 0..MaxRestarts, DOMAIN known' = Services,
         \A s \in Services : known'[s] = {} \/ \E a : known'[s] = {a}
  PROVE  Typed' /\ Settings' /\ Containers'
<1>1. Typed /\ Settings /\ Containers
  BY DEF IInv
<1>2. UNCHANGED <<pc, env, persisted, status, config, created>>
  BY DEF Nodes, LooksUp, Dials, Crawls, HangsUp, ChaosRestart, script
<1>3. Typed'
  BY <1>1, <1>2 DEF Typed
<1>4. Settings'
  BY <1>1, <1>2 DEF Settings
<1>5. Containers'
  <2>1. \A s : Resolved(s)' = Resolved(s)
    BY <1>2 DEF Resolved
  <2> QED
    BY <1>1, <1>2, <2>1 DEF Containers
<1> QED
  BY <1>3, <1>4, <1>5

LEMMA NodesKeep ==
  ASSUME IInv, Nodes
  PROVE  IInv'
<1>1. Typed /\ Containers /\ Generations /\ Linked /\ Connected
  BY DEF IInv
<1>2. UNCHANGED <<pc, seen, status, config, created>>
  BY DEF Nodes, LooksUp, Dials, Crawls, HangsUp, ChaosRestart, script
<1>3. /\ status \in [Services -> {"absent", "stopped", "running"}]
      /\ created \in [Services -> Nat] /\ restarts \in 0..MaxRestarts
      /\ DOMAIN known = Services /\ \A s \in Services : known[s] = {} \/ \E a : known[s] = {a}
  BY <1>1 DEF Typed
<1>4. \A m : Listening(m) => m \in Cores /\ status[m] = "running"
  BY DEF Listening
<1>5. restarts' \in 0..MaxRestarts
  <2>1. CASE restarts' = restarts
    BY <1>3, <2>1
  <2>2. CASE restarts < MaxRestarts /\ restarts' = restarts + 1
    BY <1>3, <2>2, DeploymentAssumption
  <2> QED
    BY <2>1, <2>2 DEF Nodes, LooksUp, Dials, Crawls, HangsUp, ChaosRestart
<1>6. /\ DOMAIN known' = Services
      /\ \A s \in Services : known'[s] = {} \/ \E a : known'[s] = {a}
  <2>1. CASE \E s \in Services : LooksUp(s)
    <3>1. PICK s \in Services : LooksUp(s)
      BY <2>1
    <3>2. PICK a : known' = [known EXCEPT ![s] = {a}]
      BY <3>1 DEF LooksUp
    <3> QED
      BY <1>3, <3>2
  <2>2. CASE \E m \in Cores : ChaosRestart(m)
    BY <1>3, <2>2 DEF ChaosRestart, Unlinked
  <2>3. CASE known' = known
    BY <1>3, <2>3
  <2> QED
    BY <2>1, <2>2, <2>3 DEF Nodes, Dials, Crawls, HangsUp
<1>7. \A a \in good' : \E n \in Cores : \E i \in 1..created[n] : a = <<n, i>>
  <2>1. \A a \in good : \E n \in Cores : \E i \in 1..created[n] : a = <<n, i>>
    BY <1>1 DEF Generations
  <2>2. ASSUME NEW m \in Cores, Crawls(m)
        PROVE  /\ good' = good \cup {<<m, created[m]>>}
               /\ created[m] \in 1..created[m]
    <3>1. status[m] = "running" /\ good' = good \cup {<<m, created[m]>>}
      BY <1>4, <2>2 DEF Crawls, Address
    <3>2. created[m] \in Nat /\ created[m] >= 1
      BY <1>1, <1>3, <3>1, ServicesAre DEF Generations
    <3> QED
      BY <3>1, <3>2
  <2>3. CASE \E m \in Cores : Crawls(m)
    BY <2>1, <2>2, <2>3
  <2>4. CASE good' = good
    BY <2>1, <2>4
  <2> QED
    BY <2>3, <2>4 DEF Nodes, LooksUp, Dials, HangsUp, ChaosRestart
<1>8. Generations'
  BY <1>1, <1>2, <1>7 DEF Generations
<1>9. \A l \in links' : \/ l \in links
                        \/ \E s \in Services, m \in Cores : Dials(s, m) /\ l = <<s, m>>
                        \/ \E m \in Cores : Crawls(m) /\ l = <<Seeder, m>>
  <2>1. CASE \E s \in Services, m \in Cores : Dials(s, m)
    BY <2>1 DEF Dials
  <2>2. CASE \E m \in Cores : Crawls(m)
    BY <2>2 DEF Crawls
  <2>3. CASE links' \subseteq links
    BY <2>3
  <2>4. (\E s \in Services : LooksUp(s)) \/ (\E m \in Cores : HangsUp(m) \/ ChaosRestart(m)) =>
          links' \subseteq links
    BY DEF LooksUp, HangsUp, ChaosRestart, Unlinked, LinksWithout
  <2> QED
    BY <2>1, <2>2, <2>3, <2>4 DEF Nodes
<1>10. Linked'
  <2>1. ASSUME NEW s \in Services, NEW m \in Cores, Dials(s, m)
        PROVE  status[s] = "running" /\ status[m] = "running"
    BY <1>4, <2>1 DEF Dials
  <2>2. ASSUME NEW m \in Cores, Crawls(m)
        PROVE  status[Seeder] = "running" /\ status[m] = "running"
    BY <1>4, <2>2 DEF Crawls
  <2>3. ASSUME NEW l \in links'
        PROVE  /\ l[1] \in Services /\ l[2] \in Cores
               /\ status[l[1]] = "running" /\ status[l[2]] = "running"
    <3>1. CASE l \in links
      BY <1>1, <3>1 DEF Linked
    <3>2. CASE \E s \in Services, m \in Cores : Dials(s, m) /\ l = <<s, m>>
      BY <2>1, <3>2
    <3>3. CASE \E m \in Cores : Crawls(m) /\ l = <<Seeder, m>>
      BY <2>2, <3>3, ServicesAre
    <3> QED
      BY <1>9, <2>3, <3>1, <3>2, <3>3
  <2> QED
    BY <1>2, <2>3 DEF Linked
<1>11. Connected'
  <2>1. ASSUME pc \in 29..31, NEW l \in links'
        PROVE  l[1] \in Cores /\ l[2] \in ConnectTo[l[1]]
    <3>1. /\ status[Seeder] = "absent" /\ status[TestNode] = "absent"
          /\ \A n \in Cores : config[n].args \in {"connect", "none"}
      BY <1>1, <2>1 DEF Containers
    <3>2. CASE l \in links
      BY <1>1, <2>1, <3>2 DEF Connected
    <3>3. CASE \E s \in Services, m \in Cores : Dials(s, m) /\ l = <<s, m>>
      <4>1. PICK s \in Services, m \in Cores : Dials(s, m) /\ l = <<s, m>>
        BY <3>3
      <4>2. s \in Cores
        BY <3>1, <4>1, ServicesAre DEF Dials
      <4>3. config[s].args \in {"connect", "none"} /\ MayDial(s, m)
        BY <3>1, <4>1, <4>2 DEF Dials
      <4>4. m \in ConnectTo[s]
        BY <4>3 DEF MayDial
      <4> QED
        BY <4>1, <4>2, <4>4
    <3>4. ~ \E m \in Cores : Crawls(m)
      BY <3>1 DEF Crawls
    <3> QED
      BY <1>9, <2>1, <3>2, <3>3, <3>4
  <2> QED
    BY <1>1, <1>2, <2>1 DEF Connected, Neighbours
<1> QED
  BY <1>5, <1>6, <1>8, <1>10, <1>11, NodesLeave DEF IInv

-----------------------------------------------------------------------------
(* What holds of every behaviour.                                          *)

LEMMA StepKeeps ==
  ASSUME IInv, [Next]_vars
  PROVE  IInv'
<1>1. CASE ComposeRuns
  BY <1>1, ComposeRunsKeeps
<1>2. CASE JobFails /\ Running
  BY <1>2, JobFailsKeeps
<1>3. CASE SetsEnvironment
  BY <1>3, SettingKeeps
<1>4. CASE PersistsSeederEnv
  BY <1>4, PersistsSeederEnvKeeps
<1>5. CASE PersistsOrchestrator
  BY <1>5, PersistsOrchestratorKeeps
<1>6. CASE \/ ResolvesIps \/ SeederConverged \/ AllDiscovered
           \/ Bootstrapped /\ ~JobFails
           \/ \E n \in Cores : DiscoversPeer(n)
  BY <1>6, EarlyWaitsKeep
<1>7. CASE \E n \in Cores : CountsConnections(n)
  BY <1>7, CountsConnectionsKeeps
<1>8. CASE TopologyRetried
  BY <1>8, TopologyRetriedKeeps
<1>9. CASE TopologyConverged
  BY <1>9, TopologyConvergedKeeps
<1>10. CASE Nodes
  BY <1>10, NodesKeep
<1>11. CASE UNCHANGED vars
  <2>1. /\ UNCHANGED <<pc, env, persisted, seen, status, config, created>>
        /\ UNCHANGED <<good, known, links, restarts>>
    BY <1>11 DEF vars, script, network
  <2>2. Typed' /\ Settings' /\ Generations' /\ Linked'
    BY <2>1, SMTT(30) DEF IInv, Typed, Settings, Generations, Linked
  <2>3. Containers' /\ Connected'
    BY <2>1, SMTT(30) DEF IInv, Containers, Connected, Resolved, Neighbours
  <2> QED
    BY <2>2, <2>3 DEF IInv
<1>12. ComposeFails => JobFails /\ Running
  BY DEF ComposeFails, At
<1>13. Bootstrapped => Running
  BY DEF Bootstrapped, At
<1> QED
  BY <1>1, <1>2, <1>3, <1>4, <1>5, <1>6, <1>7, <1>8, <1>9, <1>10, <1>11, <1>12, <1>13
     DEF Next, Scripts

LEMMA AlwaysIInv == Spec => []IInv
BY Initially, StepKeeps, PTL DEF Spec

\* In a job that has a $GITHUB_ENV: every variable has its type, every tapyrusd
\* that runs was given its genesis block, and the seeder answers with addresses
\* that core nodes have or had.
THEOREM TypesOfDeployment ==
  ASSUME GithubActions
  PROVE  Spec => []TypeOK
<1>1. IInv => TypeOK
  <2> SUFFICES ASSUME IInv PROVE TypeOK
    OBVIOUS
  <2>1. Typed /\ Containers /\ Generations /\ Linked
    BY DEF IInv
  <2>2. pc \in 0..Len(Job) + 1
    BY <2>1, ThisPlace DEF Typed
  <2>3. \A s \in Services : Cardinality(known[s]) <= 1
    <3>1. ASSUME NEW s \in Services
          PROVE  Cardinality(known[s]) <= 1
      <4>1. known[s] = {} \/ \E a : known[s] = {a}
        BY <2>1 DEF Typed
      <4>2. CASE known[s] = {}
        BY <4>2, FS_EmptySet
      <4>3. CASE \E a : known[s] = {a}
        <5>1. PICK a : known[s] = {a}
          BY <4>3
        <5>2. Cardinality({a}) = 1
          BY FS_Singleton
        <5> QED
          BY <5>1, <5>2
      <4> QED
        BY <4>1, <4>2, <4>3
    <3> QED
      BY <3>1
  <2>4. good \subseteq {<<s, i>> : s \in Cores, i \in 1..3}
    <3>1. \A n \in Cores : created[n] \in Nat /\ created[n] <= 3
      BY <2>1, ServicesAre DEF Typed, Generations
    <3>2. ASSUME NEW a \in good
          PROVE  a \in {<<s, i>> : s \in Cores, i \in 1..3}
      <4>1. PICK n \in Cores : \E i \in 1..created[n] : a = <<n, i>>
        BY <2>1 DEF Generations
      <4>2. PICK i \in 1..created[n] : a = <<n, i>>
        BY <4>1
      <4>3. i \in 1..3
        BY <3>1, <4>2
      <4> QED
        BY <4>2, <4>3
    <3> QED
      BY <3>2
  <2>5. \A s \in Services : config[s] \in Environment /\ created[s] \in Nat
    BY <2>1 DEF Typed
  <2>6. \A s \in Services \ {Seeder} : status[s] = "running" => config[s].genesis
    BY <2>1 DEF Containers
  <2>7. \A l \in links : status[l[1]] = "running" /\ status[l[2]] = "running"
    BY <2>1 DEF Linked
  <2> QED
    BY <2>1, <2>2, <2>3, <2>4, <2>5, <2>6, <2>7 DEF TypeOK, Typed
<1> QED
  BY <1>1, AlwaysIInv, PTL

\* When wait_for_topology.py passes it has seen every node with exactly its
\* neighbours of the -connect graph, though it compares only how many there are.
THEOREM TopologyIsTheGraph == Spec => []ConvergedMeansConnected
<1>1. IInv => ConvergedMeansConnected
  <2> SUFFICES ASSUME IInv, Past("topology"), NEW n \in Cores
               PROVE  seen[n] = Neighbours(n)
    BY DEF ConvergedMeansConnected
  <2>1. pc \in 0..35 /\ Connected
    BY DEF IInv, Typed
  <2>2. pc \in 32..35
    BY <2>1, ThisPlace
  <2> QED
    BY <2>1, <2>2 DEF Connected
<1> QED
  BY <1>1, AlwaysIInv, PTL

\* Once the orchestrators run no step of the job replaces the container of a core
\* node, given that the environment could be persisted: without a $GITHUB_ENV a
\* later script does.
THEOREM CoresAreKept ==
  ASSUME GithubActions
  PROVE  Spec => NoCoreRecreated
<1>1. ASSUME IInv, [Next]_vars, Past("persistOrchestrator")
      PROVE  \A n \in Cores : created'[n] = created[n]
  <2>1. Typed /\ Containers /\ pc \in 0..35
    BY <1>1 DEF IInv, Typed
  <2>2. pc \in 30..35
    BY <1>1, <2>1, ThisPlace
  <2>3. CASE ComposeRuns
    <3>1. \/ pc = 34 /\ ComposeUp(LaterGroup)
          \/ pc = 33 /\ ComposeDown(LaterGroup, "stopped")
      BY <2>1, <2>2, <2>3, ComposeIs
    <3>2. CASE pc = 34 /\ ComposeUp(LaterGroup)
      <4>1. LaterGroup \in SUBSET Services
        BY ServicesAre
      <4>2. \A s \in Services : ~Fresh(s) => created'[s] = created[s]
        BY <2>1, <3>2, <4>1, UpIs
      <4>3. \A n \in Cores : ~Fresh(n)
        BY <2>1, <2>2 DEF Containers, Fresh
      <4> QED
        BY <4>2, <4>3, ServicesAre
    <3>3. CASE ComposeDown(LaterGroup, "stopped")
      BY <3>3 DEF ComposeDown
    <3> QED
      BY <3>1, <3>2, <3>3
  <2>4. CASE JobFails
    BY <2>4 DEF JobFails, ComposeDown
  <2>5. CASE Nodes
    BY <2>5 DEF Nodes, LooksUp, Dials, Crawls, HangsUp, ChaosRestart
  <2>6. CASE UNCHANGED vars
    BY <2>6 DEF vars, network
  <2>7. CASE Scripts /\ ~ComposeRuns /\ ~JobFails
    BY <2>7 DEF Scripts, ComposeFails, SetsEnvironment, PersistsSeederEnv, PersistsOrchestrator,
       ResolvesIps, SeederConverged, DiscoversPeer, CountsConnections, AllDiscovered,
       Bootstrapped, TopologyConverged, TopologyRetried, network
  <2> QED
    BY <1>1, <2>3, <2>4, <2>5, <2>6, <2>7 DEF Next
<1>2. IInv /\ [Next]_vars =>
        [Past("persistOrchestrator") => \A n \in Cores : created'[n] = created[n]]_vars
  BY <1>1
<1> QED
  BY <1>2, AlwaysIInv, PTL DEF Spec, NoCoreRecreated
=============================================================================
