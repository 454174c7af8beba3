------------------------------ MODULE Ceremony -------------------------------
(***************************************************************************)
(* The tapyrus-setup ceremonies and the files they leave in secrets/:      *)
(* scripts/generate_dev_secrets.py, scripts/sign_genesis.py, the ones that *)
(* simulate_federation_change.py and simulate_maxblocksize_change.py begin *)
(* with, and scripts/assemble_signer_configs.py, which reads the files.    *)
(*                                                                         *)
(* Only the provenance of a file is kept: the run of a script that wrote   *)
(* it and what it was made from.  One script runs at a time, may die in    *)
(* any of its steps with some of the step's files written, and may be run  *)
(* again; between two runs the host may remove a set ("remove it first").  *)
(* Signer i is node-(i-1) of the code.                                     *)
(***************************************************************************)
EXTENDS Naturals, Sequences

CONSTANTS
  N,         \* SIGNER_COUNT
  Values,    \* what there is to sign: unsigned genesis blocks, block sizes
  MaxRuns    \* bound on the runs of a script

ASSUME CeremonyAssumption == N \in Nat \ {0} /\ MaxRuns \in Nat

Signers == 1..N
Sets == {"a", "b"}
Reused == 1                        \* REUSE_NODE_INDEX
Rounds == {"raw", "xfield-signoff"} \* the two _raw_dir of block-vss

VARIABLES
  disk,      \* disk[s]: the files under secrets/ of set s, and their contents
  configs,   \* configs[<<s, i>>]: set s's entry in federations.toml of signer i
  runs,      \* the runs so far; the number of the present one
  program,   \* what that run still has to do
  payload,   \* and what it signs
  sigs,      \* every local signature made, whether its file was written or not
  combined   \* every signature that computesig returned

vars == <<disk, configs, runs, program, payload, sigs, combined>>

-----------------------------------------------------------------------------
(* Files.                                                                  *)

\* The files of `old` and those of `new`, which replace the ones of their name.
Overlay(new, old) ==
  [f \in DOMAIN new \cup DOMAIN old |-> IF f \in DOMAIN new THEN new[f] ELSE old[f]]

\* A file that was opened for writing and not written.
Torn == [run |-> 0]

Pubkeys == <<"pubkeys.txt", 0>>
Aggpubkey == <<"aggregated-public-key.txt", 0>>
Key(i) == <<"signer.key", i>>
PublicKey(i) == <<"public-key.txt", i>>
NodeVss(i) == <<"nodevss_from", i>>
Share(i) == <<"node-secret-share.hex", i>>
BlockVss(round, i) == <<"blockvss_from", i, round>>
LocalSig(round, i) == <<"local-sig", i, round>>

\* `files` are there, with or without something in them.
Exists(s, files) == files \subseteq DOMAIN disk[s]

\* `files` are there, and there is something in them.
Readable(s, files) ==
  \A f \in files : f \in DOMAIN disk[s] /\ disk[s][f] # Torn

\* _extract_vss_for(): a line is found by its receiver's public key.
Addressed(s, i, file) == disk[s][file].to[i] = disk[s][Pubkeys].of[i]

-----------------------------------------------------------------------------
(* Scripts: run() of each, one instruction for each of its methods.        *)

Op(op, s) == [op |-> op, set |-> s, round |-> "raw"]

Generate(s) ==
  << Op("createkey", s), Op("pubkeys", s), Op("createnodevss", s),
     Op("aggregate", s), Op("aggpubkey", s) >>

SignOff(s, round) ==
  << [op |-> "createblockvss", set |-> s, round |-> round],
     [op |-> "sign", set |-> s, round |-> round],
     [op |-> "computesig", set |-> s, round |-> round] >>

Instruction == Head(program)
At(op) == program # <<>> /\ Instruction.op = op
S == Instruction.set
Continue == program' = Tail(program)

\* `files` are written in this order, with these contents; or the run dies.
Put(s, new) == disk' = [disk EXCEPT ![s] = Overlay(new, disk[s])]
Written(files, contents, k) ==
  [f \in {files[i] : i \in 1..k} |-> contents[f]]

Writes(files, contents) ==
  Put(S, [f \in {files[i] : i \in DOMAIN files} |-> contents[f]]) /\ Continue

Dies(files, contents) ==
  /\ program' = <<>>
  /\ \/ \E k \in 0..Len(files) : Put(S, Written(files, contents, k))
     \/ \E k \in 1..Len(files) :
          Put(S, Overlay([f \in {files[k]} |-> Torn], Written(files, contents, k - 1)))

Step(op, files, contents) ==
  /\ At(op)
  /\ Writes(files, contents) \/ Dies(files, contents)

\* A call or a read raises before anything is written.
Raises ==
  /\ program # <<>>
  /\ program' = <<>>
  /\ UNCHANGED <<disk, configs, runs, payload, sigs, combined>>

Init ==
  /\ disk = [s \in Sets |-> <<>>]
  /\ configs = <<>>
  /\ runs = 0
  /\ program = <<>>
  /\ payload = <<"none", 0>>
  /\ sigs = {}
  /\ combined = {}

Starts(script, signs) ==
  /\ program = <<>> /\ runs < MaxRuns
  /\ runs' = runs + 1
  /\ program' = script
  /\ payload' = signs
  /\ UNCHANGED <<disk, configs, sigs, combined>>

\* Mutant: generated keys are no reason to refuse.
GenerateDevSecrets_Unguarded == Starts(Generate("a"), <<"none", 0>>)

GenerateDevSecrets ==
  /\ Pubkeys \notin DOMAIN disk["a"]
  /\ Starts(Generate("a"), <<"none", 0>>)

\* Of the key every script reads what there is, be it nothing; without pubkeys none
\* of them writes anything (hosts and addresses are counted against them, and the
\* designated signer is looked up among them).
SignGenesis ==
  /\ Readable("a", {Pubkeys}) /\ Exists("a", {Aggpubkey})
  /\ \E v \in Values : Starts(SignOff("a", "raw"), <<"block", v>>)

AssembleSignerConfigs ==
  /\ Readable("a", {Pubkeys}) /\ Exists("a", {Aggpubkey})
  /\ Starts(<<Op("assemble", "a")>>, <<"none", 0>>)

\* What set-a signs is the aggregated key that this run is about to make.
SimulateFederationChange ==
  /\ Readable("a", {Pubkeys, Key(Reused), PublicKey(Reused)}) /\ Exists("a", {Aggpubkey})
  /\ Pubkeys \notin DOMAIN disk["b"]
  /\ Starts(Generate("b") \o SignOff("a", "xfield-signoff") \o <<Op("assemble", "b")>>,
            <<"aggpubkey", runs + 1>>)

SimulateMaxBlockSizeChange ==
  /\ Readable("b", {Pubkeys}) /\ Exists("b", {Aggpubkey})
  /\ \E v \in Values :
       Starts(SignOff("b", "xfield-signoff") \o <<Op("assemble", "b")>>, <<"size", v>>)

RemovesSet(s) ==
  /\ program = <<>>
  /\ disk' = [disk EXCEPT ![s] = <<>>]
  /\ UNCHANGED <<configs, runs, program, payload, sigs, combined>>

-----------------------------------------------------------------------------
(* AggpubkeyCeremony and PartialReuseAggpubkeyCeremony.                    *)

Ours == [run |-> runs]
KeyFiles ==
  [k \in 1..2 * N |-> IF k % 2 = 1 THEN Key((k + 1) \div 2) ELSE PublicKey(k \div 2)]

\* _create_keys(): set-b's first signer is set-a's.
CreateKeys ==
  LET keyOf(f) == IF S = "b" /\ f[2] = Reused THEN disk["a"][f] ELSE Ours IN
  /\ Step("createkey", KeyFiles, [f \in {KeyFiles[k] : k \in DOMAIN KeyFiles} |-> keyOf(f)])
  /\ UNCHANGED <<configs, runs, payload, sigs, combined>>

\* _wifs and _pubkeys are those of the files just written.
OwnKeys == [i \in Signers |-> disk[S][Key(i)]]

WritePubkeysFile ==
  /\ Step("pubkeys", <<Pubkeys>>, [f \in {Pubkeys} |-> [run |-> runs, of |-> OwnKeys]])
  /\ UNCHANGED <<configs, runs, payload, sigs, combined>>

CreateNodeVss ==
  /\ Step("createnodevss", [i \in Signers |-> NodeVss(i)],
          [f \in {NodeVss(i) : i \in Signers} |-> [run |-> runs, to |-> OwnKeys]])
  /\ UNCHANGED <<configs, runs, payload, sigs, combined>>

\* _aggregate() reads the node-vss back; signers that differ end the loop.
Aggregate ==
  /\ At("aggregate")
  /\ Readable(S, {NodeVss(i) : i \in Signers})
  /\ \A i, j \in Signers : Addressed(S, j, NodeVss(i))
  /\ Step("aggregate", [i \in Signers |-> Share(i)],
          [f \in {Share(i) : i \in Signers} |-> Ours])
  /\ UNCHANGED <<configs, runs, payload, sigs, combined>>

WriteAggpubkeyFile ==
  /\ Step("aggpubkey", <<Aggpubkey>>, [f \in {Aggpubkey} |-> Ours])
  /\ UNCHANGED <<configs, runs, payload, sigs, combined>>

-----------------------------------------------------------------------------
(* GenesisSigningCeremony and XFieldSignoffCeremony.  createblockvss does  *)
(* not use the aggregated key; sign and computesig refuse an empty one.    *)

R == Instruction.round
PublicFiles == {Pubkeys, Aggpubkey}
BlockVssFiles == {BlockVss(R, i) : i \in Signers}
FreshBlockVss == [f \in BlockVssFiles |-> [run |-> runs, to |-> disk[S][Pubkeys].of]]

\* Mutant: a round that is there already is taken up.
CreateBlockVss_Resumed ==
  /\ At("createblockvss")
  /\ Readable(S, {Pubkeys} \cup {Key(i) : i \in Signers}) /\ Exists(S, {Aggpubkey})
  /\ IF Readable(S, BlockVssFiles) THEN Continue /\ UNCHANGED disk
     ELSE Step("createblockvss", [i \in Signers |-> BlockVss(R, i)], FreshBlockVss)
  /\ UNCHANGED <<configs, runs, payload, sigs, combined>>

CreateBlockVss ==
  /\ At("createblockvss")
  /\ Readable(S, {Pubkeys} \cup {Key(i) : i \in Signers}) /\ Exists(S, {Aggpubkey})
  /\ Step("createblockvss", [i \in Signers |-> BlockVss(R, i)], FreshBlockVss)
  /\ UNCHANGED <<configs, runs, payload, sigs, combined>>

\* A signature of signer j under the nonces of the block-vss of all signers.
LocalSignature(j) ==
  [run |-> runs, signs |-> payload, set |-> S, signer |-> j,
   share |-> disk[S][Share(j)].run,
   nonces |-> [i \in Signers |-> disk[S][BlockVss(R, i)].run]]
LocalSigs == [i \in Signers |-> LocalSig(R, i)]

SignReads ==
  /\ At("sign")
  /\ Readable(S, PublicFiles \cup BlockVssFiles \cup {Key(i) : i \in Signers}
                   \cup {Share(i) : i \in Signers})
  /\ \A i, j \in Signers : Addressed(S, j, BlockVss(R, i))
  /\ sigs' = sigs \cup {LocalSignature(j) : j \in Signers}

\* Mutant: a signer that fails is passed over.
Sign_PassedOver ==
  /\ SignReads
  /\ \E up \in SUBSET Signers :
       Put(S, [f \in {LocalSig(R, j) : j \in up} |-> LocalSignature(f[2])])
  /\ Continue
  /\ UNCHANGED <<configs, runs, payload, combined>>

Sign ==
  /\ SignReads
  /\ Step("sign", LocalSigs,
          [f \in {LocalSig(R, j) : j \in Signers} |-> LocalSignature(f[2])])
  /\ UNCHANGED <<configs, runs, payload, combined>>

\* Signer 0 combines all signers' files.
ComputeSig ==
  /\ At("computesig")
  /\ Readable(S, PublicFiles \cup BlockVssFiles \cup {Key(1), Share(1)}
                   \cup {LocalSig(R, i) : i \in Signers} \cup {NodeVss(i) : i \in Signers})
  /\ \A i \in Signers : Addressed(S, 1, BlockVss(R, i)) /\ Addressed(S, 1, NodeVss(i))
  /\ combined' = combined \cup
       {[set |-> S, signs |-> payload, key |-> disk[S][Aggpubkey].run,
         locals |-> {disk[S][LocalSig(R, i)] : i \in Signers},
         nonces |-> [i \in Signers |-> disk[S][BlockVss(R, i)].run],
         nodevss |-> {disk[S][NodeVss(i)].run : i \in Signers}]}
  /\ Continue
  /\ UNCHANGED <<disk, configs, runs, payload, sigs>>

-----------------------------------------------------------------------------
(* SignerConfigAssembler and RotationSignerConfigAssembler.                *)

\* The set's entry for signer i: _federations_toml(), shared_node_vss.  The key is
\* what was read, Torn.run when that was nothing.
Entry(s) ==
  [key |-> disk[s][Aggpubkey].run, nodevss |-> {disk[s][NodeVss(i)].run : i \in Signers}]

\* One signer's file after the other, the script may die between two.
Assemble ==
  /\ At("assemble")
  /\ Readable(S, {Pubkeys} \cup {NodeVss(i) : i \in Signers}) /\ Exists(S, {Aggpubkey})
  /\ \A i, j \in Signers : Addressed(S, j, NodeVss(i))
  /\ \E k \in Signers :
       /\ configs' = Overlay([x \in {<<S, i>> : i \in 1..k} |-> Entry(S)], configs)
       /\ program' = <<>>
  /\ UNCHANGED <<disk, runs, payload, sigs, combined>>

Next ==
  \/ GenerateDevSecrets \/ SignGenesis \/ AssembleSignerConfigs
  \/ SimulateFederationChange \/ SimulateMaxBlockSizeChange
  \/ \E s \in Sets : RemovesSet(s)
  \/ CreateKeys \/ WritePubkeysFile \/ CreateNodeVss \/ Aggregate \/ WriteAggpubkeyFile
  \/ CreateBlockVss \/ Sign \/ ComputeSig \/ Assemble \/ Raises

Spec == Init /\ [][Next]_vars

-----------------------------------------------------------------------------
(* Properties.                                                             *)

\* The aggregated key is the last thing a ceremony writes: where its file exists, key
\* files, node-vss and shares are all there and of one run, whatever died before, and
\* the key is that run's or empty.  Every signer is configured with the node-vss of one
\* run and with its key; set-a's entry may have been given the empty key instead, which
\* assemble_signer_configs.py does not look at, set-b's never: its own sign-off is first.
SetIsCoherent ==
  /\ \A s \in Sets : Exists(s, {Aggpubkey}) =>
       LET r == disk[s][NodeVss(1)].run IN
       /\ disk[s][Aggpubkey] \in {[run |-> r], Torn}
       /\ Readable(s, {Pubkeys})
       /\ \A i \in Signers :
            /\ Readable(s, {Key(i), PublicKey(i), NodeVss(i), Share(i)})
            /\ disk[s][Share(i)].run = r
            /\ disk[s][NodeVss(i)].run = r
            /\ disk[s][Pubkeys].of[i] = disk[s][Key(i)]
            /\ disk[s][Key(i)] = disk[s][PublicKey(i)]
            /\ disk[s][NodeVss(i)].to = disk[s][Pubkeys].of
  /\ \A x \in DOMAIN configs :
       \E r \in configs[x].nodevss \ {Torn.run} :
         /\ configs[x].nodevss = {r}
         /\ configs[x].key \in (IF x[1] = "a" THEN {r, Torn.run} ELSE {r})

\* "a nonce-reuse footgun": no block-vss goes into the signatures of two payloads.
NoncesUsedOnce ==
  \A x, y \in sigs :
    x.set = y.set /\ (\E i \in Signers : x.nonces[i] = y.nonces[i]) => x.signs = y.signs

\* A signature that comes out combines all signers' signatures of its own payload,
\* made with its own nonces and with shares of the key it is checked against.
CombinesOneRound ==
  \A c \in combined :
    /\ c.nodevss = {c.key}
    /\ {l.signer : l \in c.locals} = Signers
    /\ \A l \in c.locals :
         /\ l.signs = c.signs /\ l.set = c.set
         /\ l.nonces = c.nonces /\ l.share = c.key
=============================================================================
