---------------------------- MODULE ServiceProofs ----------------------------
(***************************************************************************)
(* Proofs about the deployment scripts and the Safe, the signed updates,   *)
(* the quotes and the reads of the event store, for any number of          *)
(* factories, requests, clients and blocks.                                *)
(***************************************************************************)
EXTENDS Deployment, SignedUpdates, QuoteRelay, StoreReads, DataProofs

\* Deployment.  No deploying, proposing or executing in any order leaves two Factories
\* unpaused: a creation is mined paused, and an execution unpauses the new one and
\* pauses the one that the registry leaves.

AuthorityInv ==
    /\ active \in Factory /\ paused \in [Factory -> BOOLEAN] /\ deployed \subseteq Factory
    /\ queue \subseteq SafeTransaction
    /\ script \in Script /\ manifest \in Transition \cup {NoFile} /\ batch \in Transition \cup {NoFile}
    /\ prepared \in SafeTransaction \cup {NoFile}
    /\ registrar = {active} /\ collector = {active}
    /\ \A f \in Factory : ~paused[f] => f = active

LEMMA AuthorityStarts == DeploymentInit => AuthorityInv
  <1> SUFFICES ASSUME DeploymentInit PROVE AuthorityInv
    OBVIOUS
  <1>1. First \in Factory /\ active = First
    BY DeploymentAssumption DEF DeploymentInit
  <1>2. paused = [f \in Factory |-> f # First]
    BY DEF DeploymentInit
  <1>3. paused \in [Factory -> BOOLEAN] /\ \A f \in Factory : ~paused[f] => f = active
    BY <1>1, <1>2
  <1>4. /\ registrar = {active} /\ collector = {active} /\ queue = {} /\ deployed = {First}
        /\ manifest = NoFile /\ batch = NoFile /\ prepared = NoFile
    BY <1>1 DEF DeploymentInit
  <1>5. script \in Script
    BY <1>1 DEF DeploymentInit, Script, IdleScript, Transition
  <1> QED
    BY <1>1, <1>3, <1>4, <1>5 DEF AuthorityInv

LEMMA AuthorityMoves ==
    ASSUME AuthorityInv, [DeploymentNext]_deploymentVars
    PROVE  AuthorityInv'
  <1> USE DeploymentAssumption
  <1> DEFINE Kept == UNCHANGED <<active, paused, deployed, registrar, collector>>
  <1>1. CASE UNCHANGED deploymentVars
    BY <1>1 DEF AuthorityInv, deploymentVars, contracts, files
  <1>2. CASE DeployVerify
    <2>1. script' \in Script
      BY <1>2 DEF AuthorityInv, DeployVerify, Script
    <2> QED
      BY <1>2, <2>1 DEF AuthorityInv, DeployVerify, contracts, files
  <1>3. CASE WriteManifest
    <2>1. script' \in Script /\ manifest' \in Transition
      BY <1>3 DEF AuthorityInv, WriteManifest, Script
    <2> QED
      BY <1>3, <2>1 DEF AuthorityInv, WriteManifest, contracts
  <1>4. CASE WriteBatch
    <2>1. script' \in Script /\ batch' \in Transition
      BY <1>4 DEF AuthorityInv, WriteBatch, Script, IdleScript, Transition
    <2> QED
      BY <1>4, <2>1 DEF AuthorityInv, WriteBatch, contracts
  <1>5. CASE ScriptFails
    <2>1. script' \in Script
      BY <1>5 DEF AuthorityInv, ScriptFails, Script, IdleScript, Transition
    <2> QED
      BY <1>5, <2>1 DEF AuthorityInv, ScriptFails, contracts, files
  <1>6. CASE RemoveFiles
    BY <1>6 DEF AuthorityInv, RemoveFiles, contracts
  <1>7. CASE Propose
    BY <1>7 DEF AuthorityInv, Propose, ActivationVerifies, contracts
  <1>8. CASE UnpauseActive
    BY <1>8 DEF AuthorityInv, UnpauseActive, files
  <1>9. ASSUME NEW f \in Factory, DeployPreflight(f) PROVE AuthorityInv'
    <2>1. script' \in Script
      BY <1>9 DEF DeployPreflight, Script, Transition
    <2> QED
      BY <1>9, <2>1 DEF AuthorityInv, DeployPreflight, contracts, files
  <1>10. ASSUME NEW f \in Factory, DeploySubmit(f) PROVE AuthorityInv'
    <2>1. script' \in Script
      BY <1>10 DEF AuthorityInv, DeploySubmit, Script, Transition
    <2> QED
      BY <1>10, <2>1 DEF AuthorityInv, DeploySubmit, files
  <1>11. ASSUME NEW f \in Factory, CreationMined(f) PROVE AuthorityInv'
    BY <1>11 DEF AuthorityInv, CreationMined, Create, files
  <1>12. ASSUME NEW f \in Factory, PauseLaunches(f) PROVE AuthorityInv'
    BY <1>12 DEF AuthorityInv, PauseLaunches, files
  <1>13. ASSUME NEW f \in Factory, LaunchThrough(f) PROVE AuthorityInv'
    BY <1>13 DEF AuthorityInv, LaunchThrough, files
  <1>14. ASSUME NEW w \in Transition, Recover(w) PROVE AuthorityInv'
    <2>1. script' \in Script
      BY <1>14 DEF AuthorityInv, Recover, Script
    <2> QED
      BY <1>14, <2>1 DEF AuthorityInv, Recover, contracts, files
  <1>15. ASSUME NEW n \in 0 .. MaxNonce, Prepare(n) PROVE AuthorityInv'
    <2>1. prepared' \in SafeTransaction
      BY <1>15 DEF AuthorityInv, Prepare, SafeTransaction
    <2> QED
      BY <1>15, <2>1 DEF AuthorityInv, Prepare, contracts
  <1>16. ASSUME NEW t \in queue, Execute(t) PROVE AuthorityInv'
    <2>1. t.what.new \in Factory /\ t.what.old \in Factory /\ ~paused[t.what.old] /\ paused[t.what.new]
      BY <1>16 DEF AuthorityInv, Execute, ActivationReverts, SafeTransaction, Transition
    <2>2. t.what.old = active /\ t.what.new # active
      BY <2>1 DEF AuthorityInv
    <2>3. registrar' = {t.what.new} /\ collector' = {t.what.new} /\ active' = t.what.new
      BY <1>16, <2>2 DEF AuthorityInv, Execute, Rotate
    <2>4. paused' = [paused EXCEPT ![t.what.old] = TRUE, ![t.what.new] = FALSE]
      BY <1>16 DEF Execute
    <2>5. paused' \in [Factory -> BOOLEAN] /\ \A f \in Factory : ~paused'[f] => f = t.what.new
      BY <2>1, <2>2, <2>4 DEF AuthorityInv
    <2> QED
      BY <1>16, <2>1, <2>3, <2>5 DEF AuthorityInv, Execute, files
  <1>17. ASSUME NEW f \in Factory, NEW x \in GovernanceFee, SetLaunchFee(f, x) PROVE AuthorityInv'
    BY <1>17 DEF AuthorityInv, SetLaunchFee, files
  <1> QED
    BY <1>1, <1>2, <1>3, <1>4, <1>5, <1>6, <1>7, <1>8, <1>9, <1>10, <1>11, <1>12, <1>13, <1>14, <1>15,
       <1>16, <1>17 DEF DeploymentNext

\* Whatever scripts run, die or are repeated, and in whatever order proposals are
\* executed, exactly the registry's Factory registers collectors, collects and launches.
THEOREM AuthorityIsOne == DeploymentSpec => []AuthorityFollowsRegistry
  <1>1. AuthorityInv => AuthorityFollowsRegistry
    BY DEF AuthorityInv, AuthorityFollowsRegistry
  <1> QED
    BY <1>1, AuthorityStarts, AuthorityMoves, PTL DEF DeploymentSpec

\* A script that is under way found no file and wrote the manifest it still describes.
FilesInv ==
    /\ FilesAgree
    /\ script # IdleScript => batch = NoFile
    /\ script # IdleScript /\ script.at # "manifest" => manifest = NoFile
    /\ script.at = "manifest" => script # IdleScript /\ manifest = script.what

LEMMA FilesStart == DeploymentInit => FilesInv
  BY DEF DeploymentInit, FilesInv, FilesAgree, IdleScript

LEMMA FilesMove ==
    ASSUME AuthorityInv, FilesInv, [DeploymentNext]_deploymentVars
    PROVE  FilesInv'
  <1> USE DEF FilesInv, FilesAgree
  <1>0. script \in Script /\ IdleScript.name = "idle" /\ IdleScript.at = "preflight"
    BY DEF AuthorityInv, IdleScript
  <1>1. CASE UNCHANGED <<script, manifest, batch>>
    BY <1>1
  <1>2. CASE DeployVerify
    BY <1>0, <1>2 DEF DeployVerify, Script, files
  <1>3. CASE WriteManifest
    BY <1>0, <1>3 DEF WriteManifest, Script
  <1>4. CASE WriteBatch
    BY <1>0, <1>4 DEF WriteBatch
  <1>5. CASE ScriptFails
    BY <1>0, <1>5 DEF ScriptFails, files
  <1>6. CASE RemoveFiles
    BY <1>0, <1>6 DEF RemoveFiles
  <1>7. ASSUME NEW f \in Factory, DeployPreflight(f) PROVE FilesInv'
    BY <1>0, <1>7 DEF DeployPreflight, NoFilesYet, files
  <1>8. ASSUME NEW f \in Factory, DeploySubmit(f) PROVE FilesInv'
    BY <1>0, <1>8 DEF DeploySubmit, Script, files
  <1>9. ASSUME NEW w \in Transition, Recover(w) PROVE FilesInv'
    BY <1>0, <1>9 DEF Recover, NoFilesYet, files
  <1>10. ASSUME Propose \/ UnpauseActive \/ (\E n \in 0 .. MaxNonce : Prepare(n)) \/ (\E t \in queue : Execute(t))
         PROVE  UNCHANGED <<script, manifest, batch>>
    BY <1>10 DEF Propose, UnpauseActive, Prepare, Execute, files
  <1>11. ASSUME NEW f \in Factory,
                CreationMined(f) \/ PauseLaunches(f) \/ LaunchThrough(f) \/ \E x \in GovernanceFee : SetLaunchFee(f, x)
         PROVE  UNCHANGED <<script, manifest, batch>>
    BY <1>11 DEF CreationMined, PauseLaunches, LaunchThrough, SetLaunchFee, files
  <1>12. CASE UNCHANGED deploymentVars
    BY <1>12 DEF deploymentVars, files
  <1> QED
    BY <1>1, <1>2, <1>3, <1>4, <1>5, <1>6, <1>7, <1>8, <1>9, <1>10, <1>11, <1>12 DEF DeploymentNext

\* A manifest and a batch that lie side by side are of one deployment, whichever script
\* died between writing them and whatever the operator removed.
THEOREM FilesOfOneDeployment == DeploymentSpec => []FilesAgree
  <1>1. FilesInv => FilesAgree
    BY DEF FilesInv
  <1> QED
    BY <1>1, AuthorityStarts, AuthorityMoves, FilesStart, FilesMove, PTL DEF DeploymentSpec

\* The reads of the event store.

LEMMA Beginning ==
    ASSUME NEW h \in Hash, NEW n \in 0 .. Len(h)
    PROVE  Len(h) \in Nat /\ SubSeq(h, 1, n) \in Hash /\ Len(SubSeq(h, 1, n)) = n
  <1> DEFINE Block == UNION {ToSet(g) : g \in Hash}
  <1>1. h \in Seq(Block) /\ SubSeq(h, 1, n) \in Hash
    BY StoreReadsAssumption
  <1> HIDE DEF Block
  <1>2. Len(h) \in Nat /\ \A i \in 1 .. n : h[i] \in Block
    BY <1>1
  <1>3. n \in Nat /\ Len(SubSeq(h, 1, n)) = IF 1 <= n THEN n - 1 + 1 ELSE 0
    BY <1>2, SubSeqProperties
  <1> QED
    BY <1>1, <1>2, <1>3

LEMMA PrefixKeepsBeginnings ==
    ASSUME NEW g \in Hash, NEW h \in Hash, IsPrefix(g, h), NEW n \in 0 .. Len(g)
    PROVE  Len(g) <= Len(h) /\ SubSeq(h, 1, n) = SubSeq(g, 1, n)
  <1> DEFINE Block == UNION {ToSet(x) : x \in Hash}
  <1>1. g \in Seq(Block) /\ h \in Seq(Block)
    BY StoreReadsAssumption
  <1> HIDE DEF Block
  <1>2. Len(g) \in Nat /\ Len(h) \in Nat /\ Len(g) <= Len(h) /\ SubSeq(g, 1, Len(g)) = SubSeq(h, 1, Len(g))
    BY <1>1 DEF IsPrefix
  <1>3. SubSeq(h, 1, Len(g)) = g
    BY <1>1, <1>2, SubSeqFull
  <1>4. CASE n = 0
    BY <1>2, <1>4, SubSeqEmpty
  <1>5. CASE n # 0
    <2>1. n \in 1 .. Len(g) - 1 + 1 /\ 1 \in 1 .. Len(h) /\ Len(g) \in 1 .. Len(h) /\ 1 \in 1 .. Len(g) - 1 + 1
      BY <1>2, <1>5
    <2>2. SubSeq(SubSeq(h, 1, Len(g)), 1, n) = SubSeq(h, 1 + 1 - 1, 1 + n - 1)
      BY <1>1, <2>1, SubSeqOfSubSeq
    <2> QED
      BY <1>2, <1>3, <2>2
  <1> QED
    BY <1>2, <1>4, <1>5

\* Where a load may be: which loads fall back, and which reads have been made by then.
Underway ==
    /\ load.kind # "buys" /\ (load.kind = "analytics" => load.phase = "store")
    /\ load.kind = "holder" /\ load.phase # "store" => Done(StoredHolderBalances)

\* A read of the fallback is made at the load's block; the executions alone may be the
\* store's, and then the store is within the tolerance.
FallsBackAt(q, read, kind, phase, block) ==
    /\ read.source = "rpc" => q[1] = "rpc"
    /\ q[1] = "rpc" => \/ phase = "rpc"
                       \/ kind = "buyback" /\ phase = "store" /\ q = <<"rpc", "buybackReady">>
    /\ q \in {Header, <<"rpc", "buybackReady">>} => read.source = "rpc"
    /\ q[1] = "rpc" /\ read.source = "store" =>
          kind = "buyback" /\ q = <<"rpc", "executions">>

AsOf(q, read, store, past, block) ==
    /\ read.source = "store" => read.view = store
    /\ q[1] = "rpc" /\ read.source = "store" => Len(store) + Tolerance >= block
    /\ read.source = "rpc" => block \in 1 .. Len(past) /\ read.view = SubSeq(past, 1, block)

Sourced ==
    /\ \A q \in DOMAIN reads : FallsBackAt(q, reads[q], load.kind, load.phase, load.block)
    /\ ~moved => \A q \in DOMAIN reads : AsOf(q, reads[q], stored, chain, load.block)

ReadsInv == StoreReadsTypeOK /\ Underway /\ Sourced /\ TornOnlyByMovement

LEMMA HeightOfHash == \A h \in Hash : Len(h) \in Nat /\ Len(h) \in Height
  BY Beginning, StoreReadsAssumption DEF Height

LEMMA EmptyHash ==
    ASSUME NEW h \in Hash
    PROVE  <<>> \in Hash /\ 0 \in Height
  <1>1. 0 \in 0 .. Len(h)
    BY HeightOfHash
  <1>2. SubSeq(h, 1, 0) \in Hash /\ Len(SubSeq(h, 1, 0)) = 0
    BY <1>1, Beginning
  <1>3. SubSeq(h, 1, 0) = <<>>
    BY SubSeqEmpty
  <1> QED
    BY <1>2, <1>3, HeightOfHash

LEMMA ReadsStart == StoreReadsInit => ReadsInv
  <1> SUFFICES ASSUME StoreReadsInit PROVE ReadsInv
    OBVIOUS
  <1>1. chain \in Hash /\ Len(chain) = 1 /\ stored = <<>> /\ replacements = 0
    BY DEF StoreReadsInit
  <1>3. <<>> \in Hash /\ 0 \in Height
    BY <1>1, EmptyHash
  <1>4. /\ factoryCache = [launches |-> <<>>, block |-> 0] /\ index = [named |-> <<>>, known |-> FALSE]
        /\ load = IdleLoad /\ reads = <<>> /\ snapshot = NoSnapshot /\ moved = FALSE
    BY DEF StoreReadsInit
  <1>5. DOMAIN reads = {}
    BY <1>4
  <1>6. load = [kind |-> "index", phase |-> "idle", block |-> 0]
        /\ snapshot = [kind |-> "index", named |-> <<>>, parts |-> {}]
    BY <1>4 DEF IdleLoad, NoSnapshot
  <1>7. StoreReadsTypeOK
    <2>1. replacements \in 0 .. MaxReplacements
      BY <1>1, StoreReadsAssumption
    <2>2. factoryCache \in [launches : Hash, block : Height] /\ index \in [named : Hash, known : BOOLEAN]
      BY <1>3, <1>4
    <2>3. load \in [kind : Kind, phase : {"idle", "store", "number", "launches", "balances", "rpc"}, block : Height]
      BY <1>3, <1>6 DEF Kind
    <2>4. snapshot.kind \in Kind /\ snapshot.named \in Hash /\ snapshot.parts = {}
      BY <1>3, <1>6 DEF Kind
    <2>5. moved \in BOOLEAN
      BY <1>4
    <2> QED
      BY <1>1, <1>3, <1>5, <2>1, <2>2, <2>3, <2>4, <2>5 DEF StoreReadsTypeOK
  <1> QED
    BY <1>5, <1>6, <1>7 DEF ReadsInv, Underway, Sourced, TornOnlyByMovement

Phase == {"idle", "store", "number", "launches", "balances", "rpc"}

\* The chain grows, or it or the store moves under the load.
LEMMA WorldMoves ==
    ASSUME ReadsInv, ChainGrows \/ ChainReplaced \/ WorkerCommits \/ WorkerRollsBack
    PROVE  ReadsInv'
  <1>1. UNCHANGED processVars
    BY DEF ChainGrows, ChainReplaced, WorkerCommits, WorkerRollsBack
  <1>2. UNCHANGED <<factoryCache, index, load, reads, snapshot>>
    BY <1>1 DEF processVars
  <1>3. StoreReadsTypeOK /\ chain \in Hash /\ stored \in Hash /\ replacements \in 0 .. MaxReplacements
    BY DEF ReadsInv, StoreReadsTypeOK
  <1>4. Underway' /\ \A q \in DOMAIN reads' : FallsBackAt(q, reads'[q], load'.kind, load'.phase, load'.block)
    BY <1>2 DEF ReadsInv, Underway, Sourced, Done
  <1>5. ASSUME chain' \in Hash, stored' \in Hash, replacements' \in 0 .. MaxReplacements, moved' \in BOOLEAN
        PROVE  StoreReadsTypeOK'
    BY <1>2, <1>3, <1>5 DEF StoreReadsTypeOK
  <1>6. ASSUME moved' PROVE Sourced' /\ TornOnlyByMovement'
    BY <1>4, <1>6 DEF Sourced, TornOnlyByMovement
  <1>7. CASE ChainGrows
    <2>1. chain' \in Hash /\ IsPrefix(chain, chain') /\ UNCHANGED <<stored, replacements, moved>>
      BY <1>7 DEF ChainGrows
    <2>2. moved \in BOOLEAN
      BY <1>3 DEF StoreReadsTypeOK
    <2>3. \A q \in DOMAIN reads, n \in 1 .. Len(chain) :
              n \in 1 .. Len(chain') /\ SubSeq(chain', 1, n) = SubSeq(chain, 1, n)
      <3>1. TAKE q \in DOMAIN reads, n \in 1 .. Len(chain)
      <3>2. Len(chain) \in Nat /\ Len(chain') \in Nat /\ n \in 0 .. Len(chain)
        BY <1>3, <2>1, HeightOfHash
      <3> QED
        BY <1>3, <2>1, <3>2, PrefixKeepsBeginnings
    <2>4. Sourced'
      <3> SUFFICES ASSUME ~moved', NEW q \in DOMAIN reads'
                   PROVE  AsOf(q, reads'[q], stored', chain', load'.block)
        BY <1>4 DEF Sourced
      <3>1. AsOf(q, reads[q], stored, chain, load.block) /\ q \in DOMAIN reads
        BY <1>2, <2>1 DEF ReadsInv, Sourced
      <3> QED
        BY <1>2, <2>1, <2>3, <3>1 DEF AsOf
    <2>5. TornOnlyByMovement'
      BY <1>2, <2>1 DEF ReadsInv, TornOnlyByMovement, Slack
    <2> QED
      BY <1>3, <1>4, <1>5, <2>1, <2>2, <2>4, <2>5 DEF ReadsInv
  <1>8. CASE ChainReplaced
    <2>1. chain' \in Hash /\ stored' = stored /\ replacements' = replacements + 1 /\ moved' = TRUE
          /\ replacements < MaxReplacements
      BY <1>8 DEF ChainReplaced
    <2>2. replacements' \in 0 .. MaxReplacements
      BY <1>3, <2>1, StoreReadsAssumption
    <2> QED
      BY <1>3, <1>4, <1>5, <1>6, <2>1, <2>2 DEF ReadsInv
  <1>9. CASE WorkerCommits
    <2>1. moved' = TRUE /\ UNCHANGED <<chain, replacements>>
      BY <1>9 DEF WorkerCommits
    <2>2. PICK n \in (Len(stored) + 1) .. Len(chain) : stored' = SubSeq(chain, 1, n)
      BY <1>9 DEF WorkerCommits, At
    <2>3. Len(stored) \in Nat /\ Len(chain) \in Nat /\ n \in 0 .. Len(chain)
      BY <1>3, <2>2, HeightOfHash
    <2>4. stored' \in Hash
      BY <1>3, <2>2, <2>3, Beginning
    <2> QED
      BY <1>3, <1>4, <1>5, <1>6, <2>1, <2>4 DEF ReadsInv
  <1>10. CASE WorkerRollsBack
    <2>1. moved' = TRUE /\ UNCHANGED <<chain, replacements>>
      BY <1>10 DEF WorkerRollsBack
    <2>2. PICK n \in 0 .. (Len(stored) - 1) : stored' = SubSeq(stored, 1, n)
      BY <1>10 DEF WorkerRollsBack
    <2>3. Len(stored) \in Nat /\ n \in 0 .. Len(stored)
      BY <1>3, <2>2, HeightOfHash
    <2>4. stored' \in Hash
      BY <1>3, <2>2, <2>3, Beginning
    <2> QED
      BY <1>3, <1>4, <1>5, <1>6, <2>1, <2>4 DEF ReadsInv
  <1> QED
    BY <1>7, <1>8, <1>9, <1>10

Keeps == UNCHANGED <<chain, stored, replacements, moved>>
ProcessTyped ==
    factoryCache \in [launches : Hash, block : Height] /\ index \in [named : Hash, known : BOOLEAN]

\* A load ends, with a snapshot or without one.
LEMMA LoadEnds ==
    ASSUME ReadsInv, Keeps, Ends, ProcessTyped',
           snapshot'.kind \in Kind, snapshot'.named \in Hash,
           snapshot'.parts \subseteq [source : Source, view : Hash], TornOnlyByMovement'
    PROVE  ReadsInv'
  <1>1. StoreReadsTypeOK
    BY DEF ReadsInv
  <1>2. load' = [kind |-> "index", phase |-> "idle", block |-> 0] /\ DOMAIN reads' = {}
    BY DEF Ends, IdleLoad
  <1>3. 0 \in Height
    BY <1>1, EmptyHash DEF StoreReadsTypeOK
  <1>4. load' \in [kind : Kind, phase : Phase, block : Height]
    BY <1>2, <1>3 DEF Kind, Phase
  <1>5. StoreReadsTypeOK'
    BY <1>1, <1>2, <1>4 DEF StoreReadsTypeOK, Keeps, ProcessTyped, Phase
  <1> QED
    BY <1>2, <1>5 DEF ReadsInv, Underway, Sourced

\* A load goes to its next phase.
LEMMA LoadGoesOn ==
    ASSUME ReadsInv, Keeps, ProcessTyped', UNCHANGED <<reads, snapshot>>,
           NEW phase \in Phase, NEW block \in Height,
           load' = [load EXCEPT !.phase = phase, !.block = block], Underway',
           phase = "rpc" \/ \A q \in DOMAIN reads : q[1] # "rpc",
           block = load.block \/ \A q \in DOMAIN reads : q[1] # "rpc"
    PROVE  ReadsInv'
  <1>1. StoreReadsTypeOK /\ load \in [kind : Kind, phase : Phase, block : Height]
    BY DEF ReadsInv, StoreReadsTypeOK, Phase
  <1>2. load' \in [kind : Kind, phase : Phase, block : Height]
        /\ load'.kind = load.kind /\ load'.phase = phase /\ load'.block = block
    BY <1>1
  <1>3. StoreReadsTypeOK'
    BY <1>1, <1>2 DEF StoreReadsTypeOK, Keeps, ProcessTyped, Phase
  <1>4. ASSUME NEW q \in DOMAIN reads
        PROVE  FallsBackAt(q, reads[q], load.kind, phase, block)
    <2>1. FallsBackAt(q, reads[q], load.kind, load.phase, load.block)
      BY DEF ReadsInv, Sourced
    <2>2. CASE q[1] # "rpc"
      BY <2>1, <2>2 DEF FallsBackAt
    <2>3. CASE q[1] = "rpc"
      BY <2>1, <2>3 DEF FallsBackAt
    <2> QED
      BY <2>2, <2>3
  <1>5. ASSUME ~moved, NEW q \in DOMAIN reads
        PROVE  AsOf(q, reads[q], stored, chain, block)
    <2>1. FallsBackAt(q, reads[q], load.kind, load.phase, load.block) /\ AsOf(q, reads[q], stored, chain, load.block)
      BY <1>5 DEF ReadsInv, Sourced
    <2>2. CASE block = load.block
      BY <2>1, <2>2
    <2>3. CASE q[1] # "rpc"
      BY <2>1, <2>3 DEF FallsBackAt, AsOf
    <2> QED
      BY <2>2, <2>3
  <1>6. Sourced'
    BY <1>2, <1>4, <1>5 DEF Sourced, Keeps
  <1>7. TornOnlyByMovement'
    BY DEF ReadsInv, TornOnlyByMovement, Slack, Keeps
  <1> QED
    BY <1>3, <1>6, <1>7 DEF ReadsInv

\* A load makes one more read.
LEMMA ReadAdded ==
    ASSUME ReadsInv, Keeps, ProcessTyped', snapshot' = snapshot,
           NEW q, NEW source \in Source, NEW view \in Hash, Read(q, source, view),
           load' \in [kind : Kind, phase : Phase, block : Height],
           load'.kind = load.kind, load'.block = load.block,
           load'.phase \in {load.phase, "rpc"} \/ \A r \in DOMAIN reads : r[1] # "rpc", Underway',
           FallsBackAt(q, [source |-> source, view |-> view], load'.kind, load'.phase, load'.block),
           ~moved => AsOf(q, [source |-> source, view |-> view], stored, chain, load.block)
    PROVE  ReadsInv'
  <1>1. StoreReadsTypeOK
    BY DEF ReadsInv
  <1>2. DOMAIN reads' = DOMAIN reads \cup {q} /\ reads'[q] = [source |-> source, view |-> view]
        /\ \A r \in DOMAIN reads : r # q => reads'[r] = reads[r]
    BY DEF Read
  <1>3. [source |-> source, view |-> view] \in [source : Source, view : Hash]
    OBVIOUS
  <1>4. StoreReadsTypeOK'
    BY <1>1, <1>2, <1>3 DEF StoreReadsTypeOK, Keeps, ProcessTyped, Phase
  <1>5. ASSUME NEW r \in DOMAIN reads', r # q
        PROVE  /\ FallsBackAt(r, reads'[r], load'.kind, load'.phase, load'.block)
               /\ ~moved => AsOf(r, reads'[r], stored, chain, load'.block)
    <2>1. /\ r \in DOMAIN reads /\ reads'[r] = reads[r]
          /\ FallsBackAt(r, reads[r], load.kind, load.phase, load.block)
          /\ ~moved => AsOf(r, reads[r], stored, chain, load.block)
      BY <1>2, <1>5 DEF ReadsInv, Sourced
    <2>2. CASE r[1] # "rpc"
      BY <2>1, <2>2 DEF FallsBackAt
    <2>3. CASE r[1] = "rpc"
      BY <2>1, <2>3 DEF FallsBackAt
    <2> QED
      BY <2>2, <2>3
  <1>6. Sourced'
    BY <1>2, <1>5 DEF Sourced, Keeps
  <1>7. TornOnlyByMovement'
    BY DEF ReadsInv, TornOnlyByMovement, Slack, Keeps
  <1> QED
    BY <1>4, <1>6, <1>7 DEF ReadsInv

\* What an available group of queries returned, and names.
LEMMA AvailableIsStored ==
    ASSUME ReadsInv, NEW g, NEW queries, Of(g, queries) \subseteq DOMAIN reads, Available(Of(g, queries))
    PROVE  /\ Named(Of(g, queries)) \in Hash
           /\ ~moved => Named(Of(g, queries)) = stored
           /\ ~moved => \A q \in Of(g, queries) : reads[q].view = stored
           /\ \A q \in Of(g, queries) : reads[q].source = "store"
  <1> DEFINE group == Of(g, queries)
             q0 == CHOOSE q \in group : q[2] = "checkpoint"
  <1>1. <<g, "checkpoint">> \in group
    BY DEF Of
  <1>2. \E q \in group : q[2] = "checkpoint"
    BY <1>1
  <1>3. q0 \in group
    BY <1>2
  <1>4. Named(group) = reads[q0].view /\ \A q \in group : reads[q].source = "store"
    BY DEF Named, Available
  <1> HIDE DEF q0, group
  <1>5. q0 \in DOMAIN reads /\ group \subseteq DOMAIN reads
    BY <1>3 DEF group
  <1>6. \A q \in DOMAIN reads : reads[q] \in [source : Source, view : Hash]
    BY DEF ReadsInv, StoreReadsTypeOK
  <1>7. ~moved => \A q \in DOMAIN reads : AsOf(q, reads[q], stored, chain, load.block)
    BY DEF ReadsInv, Sourced
  <1>8. ~moved => \A q \in group : reads[q].view = stored
    BY <1>4, <1>5, <1>7 DEF AsOf
  <1> QED
    BY <1>3, <1>4, <1>5, <1>6, <1>8 DEF group

LEMMA ResultsTyped ==
    ASSUME ReadsInv, NEW queries, queries \subseteq DOMAIN reads
    PROVE  Results(queries) \subseteq [source : Source, view : Hash]
  BY DEF Results, ReadsInv, StoreReadsTypeOK

LEMMA BeginReads ==
    ASSUME ReadsInv, NEW k \in Kind \ {"buys"}, NEW forced \in BOOLEAN, Begin(k, forced)
    PROVE  ReadsInv'
  <1>1. /\ load' = [kind |-> k, phase |-> IF forced THEN "number" ELSE "store",
                    block |-> IF k \in {"market", "buyback"} /\ ~forced THEN Len(index.named) ELSE 0]
        /\ reads' = <<>> /\ snapshot' = [kind |-> "index", named |-> <<>>, parts |-> {}] /\ moved' = FALSE
        /\ UNCHANGED <<chain, stored, replacements, factoryCache, index>>
        /\ forced => k = "buyback"
    BY DEF Begin, storeVars, NoSnapshot
  <1>2. StoreReadsTypeOK /\ chain \in Hash /\ index.named \in Hash
    BY DEF ReadsInv, StoreReadsTypeOK
  <1>4. <<>> \in Hash /\ 0 \in Height
    BY <1>2, EmptyHash
  <1>5. load'.block \in Height
    BY <1>1, <1>2, <1>4, HeightOfHash
  <1>6. load' \in [kind : Kind, phase : Phase, block : Height]
    BY <1>1, <1>5 DEF Phase
  <1>7. DOMAIN reads' = {}
    BY <1>1
  <1>8. snapshot'.kind \in Kind /\ snapshot'.named \in Hash /\ snapshot'.parts = {}
    BY <1>1, <1>4 DEF Kind
  <1>9. moved' \in BOOLEAN
    BY <1>1
  <1>10. StoreReadsTypeOK'
    BY <1>1, <1>2, <1>6, <1>7, <1>8, <1>9 DEF StoreReadsTypeOK, Phase
  <1>11. Underway'
    BY <1>1 DEF Underway
  <1> QED
    BY <1>7, <1>8, <1>10, <1>11 DEF ReadsInv, Sourced, TornOnlyByMovement

LEMMA QueriesAreOfTheStore ==
    \A k \in Kind : \A q \in Queries(k) : q[1] # "rpc"
  <1> SUFFICES ASSUME NEW k \in Kind, NEW q \in Queries(k) PROVE q[1] # "rpc"
    OBVIOUS
  <1>1. \E g \in {"launches", "swaps", "reserve", "balances", "buybacks", "analytics"} :
           \E queries : q \in {g} \X queries
    BY DEF Queries, Kind, Of, StoredLaunchIndex, StoredSwaps, StoredTokenBalance, StoredHolderBalances,
           StoredBuybacks, StoredAnalytics
  <1> QED
    BY <1>1

LEMMA QueryReads ==
    ASSUME ReadsInv, NEW q \in Queries(load.kind), Query(q)
    PROVE  ReadsInv'
  <1>1. Keeps /\ UNCHANGED <<factoryCache, index, load, snapshot>> /\ load.phase = "store"
    BY DEF Query, storeVars, Keeps
  <1>2. StoreReadsTypeOK /\ load \in [kind : Kind, phase : Phase, block : Height] /\ ProcessTyped'
    BY <1>1 DEF ReadsInv, StoreReadsTypeOK, ProcessTyped, Phase
  <1>3. \A r \in Queries(load.kind) : r[1] # "rpc"
    BY <1>2, QueriesAreOfTheStore
  <1>4. CASE Read(q, "store", stored)
    <2>1. Underway'
      BY <1>1 DEF ReadsInv, Underway
    <2>2. FallsBackAt(q, [source |-> "store", view |-> stored], load'.kind, load'.phase, load'.block)
      BY <1>3 DEF FallsBackAt, Header
    <2>3. AsOf(q, [source |-> "store", view |-> stored], stored, chain, load.block)
      BY <1>3 DEF AsOf
    <2>4. "store" \in Source /\ stored \in Hash
      BY <1>2 DEF Source, StoreReadsTypeOK
    <2> QED
      BY <1>1, <1>2, <1>4, <2>1, <2>2, <2>3, <2>4, ReadAdded
  <1>5. CASE Fail(q)
    <2> DEFINE group == {r \in Queries(load.kind) : r[1] = q[1]}
               lost == [source |-> "failed", view |-> <<>>]
    <2>1. /\ DOMAIN reads' = DOMAIN reads \cup group
          /\ \A r \in group : reads'[r] = lost
          /\ \A r \in DOMAIN reads : r \notin group => reads'[r] = reads[r]
      BY <1>5 DEF Fail
    <2>2. \A r \in group : r[1] # "rpc"
      BY <1>3
    <2> HIDE DEF group
    <2>3. lost \in [source : Source, view : Hash]
      <3>1. chain \in Hash
        BY <1>2 DEF StoreReadsTypeOK
      <3>3. <<>> \in Hash
        BY <3>1, EmptyHash
      <3> QED
        BY <3>3 DEF Source
    <2>4. StoreReadsTypeOK'
      <3>1. \A r \in DOMAIN reads' : reads'[r] \in [source : Source, view : Hash]
        BY <1>2, <2>1, <2>3 DEF StoreReadsTypeOK
      <3> QED
        BY <1>1, <1>2, <3>1 DEF StoreReadsTypeOK, Keeps
    <2>5. ASSUME NEW r \in DOMAIN reads'
          PROVE  /\ FallsBackAt(r, reads'[r], load.kind, load.phase, load.block)
                 /\ ~moved => AsOf(r, reads'[r], stored, chain, load.block)
      <3>1. CASE r \in group
        BY <2>1, <2>2, <3>1 DEF FallsBackAt, AsOf, Header
      <3>2. CASE r \notin group
        BY <2>1, <3>2 DEF ReadsInv, Sourced
      <3> QED
        BY <3>1, <3>2
    <2>6. Sourced' /\ Underway' /\ TornOnlyByMovement'
      BY <1>1, <2>5 DEF ReadsInv, Sourced, Underway, TornOnlyByMovement, Slack, Keeps
    <2> QED
      BY <2>4, <2>6 DEF ReadsInv
  <1> QED
    BY <1>4, <1>5 DEF Query

\* A load that publishes what the store returned.
LEMMA StoreLoadsPublish ==
    ASSUME ReadsInv, Keeps, ProcessTyped', load.kind # "buyback",
           NEW named \in Hash, NEW queries, queries \subseteq DOMAIN reads,
           Publish(named, Results(queries)),
           ~moved => named = stored, \A q \in queries : reads[q].source = "store"
    PROVE  ReadsInv'
  <1>1. /\ snapshot' = [kind |-> load.kind, named |-> named, parts |-> Results(queries)] /\ Ends
    BY DEF Publish
  <1>2. load.kind \in Kind /\ stored \in Hash
    BY DEF ReadsInv, StoreReadsTypeOK
  <1>3. \A p \in Results(queries) : ~moved => p.source = "store" /\ p.view = stored
    BY DEF Results, ReadsInv, Sourced, AsOf
  <1>4. TornOnlyByMovement'
    <2> SUFFICES ASSUME ~moved', NEW p \in snapshot'.parts
                 PROVE  /\ Len(p.view) + Slack(load.kind) >= Len(named)
                        /\ p.view = named
      BY <1>1 DEF TornOnlyByMovement
    <2>1. p.view = named /\ named = stored
      BY <1>1, <1>3 DEF Keeps
    <2>2. Len(stored) \in Nat
      BY <1>2, HeightOfHash
    <2> QED
      BY <2>1, <2>2 DEF Slack
  <1> QED
    BY <1>1, <1>2, <1>4, ResultsTyped, LoadEnds

LEMMA StoredMarketLoads == ASSUME ReadsInv, StoredMarket PROVE ReadsInv'
  <1>1. /\ Keeps /\ UNCHANGED <<factoryCache, index>> /\ load.kind = "market" /\ load.phase = "store"
        /\ Queries("market") \subseteq DOMAIN reads
    BY DEF StoredMarket, storeVars, Keeps, Done
  <1>2. Queries("market") = StoredSwaps \cup StoredTokenBalance
    BY DEF Queries
  <1>3. ProcessTyped'
    BY <1>1 DEF ReadsInv, StoreReadsTypeOK, ProcessTyped
  <1>4. CASE FromOneCheckpoint
    <2>1. Publish(Named(StoredSwaps), Results(Queries("market")))
      BY <1>4 DEF StoredMarket
    <2>2. Available(StoredSwaps) /\ Available(StoredTokenBalance)
      BY <1>4 DEF FromOneCheckpoint
    <2>3. StoredSwaps \subseteq DOMAIN reads
      BY <1>1, <1>2
    <2>4. Named(StoredSwaps) \in Hash /\ (~moved => Named(StoredSwaps) = stored)
      BY <2>2, <2>3, AvailableIsStored DEF StoredSwaps
    <2>5. \A q \in Queries("market") : reads[q].source = "store"
      BY <1>2, <2>2 DEF Available
    <2> QED
      BY <1>1, <1>3, <2>1, <2>4, <2>5, StoreLoadsPublish
  <1>5. CASE ~FromOneCheckpoint
    <2>1. load' = [load EXCEPT !.phase = "rpc", !.block = load.block] /\ UNCHANGED <<reads, snapshot>>
      BY <1>5 DEF StoredMarket, GoOn
    <2>2. load \in [kind : Kind, phase : Phase, block : Height] /\ "rpc" \in Phase
      BY DEF ReadsInv, StoreReadsTypeOK, Phase
    <2>3. Underway'
      BY <1>1, <2>1, <2>2 DEF Underway
    <2> QED
      BY <1>1, <1>3, <2>1, <2>2, <2>3, LoadGoesOn
  <1> QED
    BY <1>4, <1>5

\* No read of the fallback has been made while a load is not in it.
LEMMA NoFallbackYet ==
    ASSUME ReadsInv, load.phase # "rpc", load.kind # "buyback" \/ load.phase # "store"
    PROVE  \A q \in DOMAIN reads : q[1] # "rpc"
  BY DEF ReadsInv, Sourced, FallsBackAt

LEMMA StoredIndexLoads == ASSUME ReadsInv, StoredIndex PROVE ReadsInv'
  <1>1. /\ Keeps /\ load.kind = "index" /\ load.phase = "store" /\ StoredLaunchIndex \subseteq DOMAIN reads
    BY DEF StoredIndex, storeVars, Keeps, Done
  <1>2. StoreReadsTypeOK
    BY DEF ReadsInv
  <1>3. CASE Available(StoredLaunchIndex)
    <2> DEFINE named == Named(StoredLaunchIndex)
               view == reads[<<"launches", "markets">>].view
    <2>1. /\ factoryCache' = [launches |-> view, block |-> Len(named)]
          /\ index' = [named |-> named, known |-> HasLaunch(view)]
          /\ Publish(named, Results(StoredLaunchIndex))
      BY <1>3 DEF StoredIndex
    <2>2. named \in Hash /\ (~moved => named = stored) /\ \A q \in StoredLaunchIndex : reads[q].source = "store"
      BY <1>1, <1>3, AvailableIsStored DEF StoredLaunchIndex
    <2>3. view \in Hash
      BY <1>1, <1>2 DEF StoreReadsTypeOK, StoredLaunchIndex, Of
    <2>4. HasLaunch(view) \in BOOLEAN
      BY DEF HasLaunch
    <2> HIDE DEF named, view
    <2>5. ProcessTyped'
      BY <2>1, <2>2, <2>3, <2>4, HeightOfHash DEF ProcessTyped
    <2> QED
      BY <1>1, <2>1, <2>2, <2>5, StoreLoadsPublish
  <1>4. CASE ~Available(StoredLaunchIndex)
    <2>1. load' = [load EXCEPT !.phase = "number", !.block = 0] /\ UNCHANGED <<reads, snapshot, factoryCache, index>>
      BY <1>4 DEF StoredIndex, GoOn
    <2>2. load \in [kind : Kind, phase : Phase, block : Height] /\ "number" \in Phase /\ 0 \in Height
      BY <1>2, EmptyHash DEF StoreReadsTypeOK, Phase
    <2>3. Underway' /\ ProcessTyped'
      BY <1>1, <1>2, <2>1, <2>2 DEF Underway, StoreReadsTypeOK, ProcessTyped
    <2>4. \A q \in DOMAIN reads : q[1] # "rpc"
      BY <1>1, NoFallbackYet
    <2> QED
      BY <1>1, <2>1, <2>2, <2>3, <2>4, LoadGoesOn
  <1> QED
    BY <1>3, <1>4

LEMMA AnalyticsLoad == ASSUME ReadsInv, StoredProtocolAnalytics PROVE ReadsInv'
  <1>1. /\ Keeps /\ load.kind = "analytics" /\ StoredAnalytics \subseteq DOMAIN reads
        /\ UNCHANGED <<factoryCache, index>>
    BY DEF StoredProtocolAnalytics, storeVars, Keeps, Done
  <1>2. StoreReadsTypeOK /\ ProcessTyped'
    BY <1>1 DEF ReadsInv, StoreReadsTypeOK, ProcessTyped
  <1>3. CASE Available(StoredAnalytics)
    <2>1. Publish(Named(StoredAnalytics), Results(StoredAnalytics))
      BY <1>3 DEF StoredProtocolAnalytics
    <2>2. /\ Named(StoredAnalytics) \in Hash /\ (~moved => Named(StoredAnalytics) = stored)
          /\ \A q \in StoredAnalytics : reads[q].source = "store"
      BY <1>1, <1>3, AvailableIsStored DEF StoredAnalytics
    <2> QED
      BY <1>1, <1>2, <2>1, <2>2, StoreLoadsPublish
  <1>4. CASE ~Available(StoredAnalytics)
    <2>1. Ends /\ snapshot' = snapshot
      BY <1>4 DEF StoredProtocolAnalytics
    <2>2. TornOnlyByMovement'
      BY <1>1, <2>1 DEF ReadsInv, TornOnlyByMovement, Slack, Keeps
    <2> QED
      BY <1>1, <1>2, <2>1, <2>2, LoadEnds DEF StoreReadsTypeOK
  <1> QED
    BY <1>3, <1>4

LEMMA HolderLaunchLoads == ASSUME ReadsInv, HolderLaunch PROVE ReadsInv'
  <1>1. /\ Keeps /\ load.kind = "holder" /\ load.phase = "store" /\ Done(Queries("holder"))
        /\ UNCHANGED <<factoryCache, index>>
    BY DEF HolderLaunch, storeVars, Keeps
  <1>2. StoreReadsTypeOK /\ ProcessTyped'
    BY <1>1 DEF ReadsInv, StoreReadsTypeOK, ProcessTyped
  <1>3. Queries("holder") = StoredLaunchIndex \cup StoredHolderBalances
    BY DEF Queries
  <1>4. PICK phase \in {"balances", "launches", "number"}, block \in Height :
           load' = [load EXCEPT !.phase = phase, !.block = block] /\ UNCHANGED <<reads, snapshot>>
    <2>1. CASE Available(StoredLaunchIndex) /\ HasLaunch(reads[<<"launches", "markets">>].view)
      <3>1. StoredLaunchIndex \subseteq DOMAIN reads
        BY <1>1, <1>3 DEF Done
      <3>2. Named(StoredLaunchIndex) \in Hash
        BY <2>1, <3>1, AvailableIsStored DEF StoredLaunchIndex
      <3> QED
        BY <2>1, <3>2, HeightOfHash DEF HolderLaunch, GoOn
    <2>2. CASE ~(Available(StoredLaunchIndex) /\ HasLaunch(reads[<<"launches", "markets">>].view))
      <3>1. Len(chain) \in Height /\ factoryCache.block \in Height /\ 0 \in Height
        BY <1>2, EmptyHash, HeightOfHash DEF StoreReadsTypeOK
      <3> QED
        BY <2>2, <3>1 DEF HolderLaunch, GoOn
    <2> QED
      BY <2>1, <2>2
  <1>5. load \in [kind : Kind, phase : Phase, block : Height] /\ phase \in Phase
    BY <1>2 DEF StoreReadsTypeOK, Phase
  <1>6. StoredHolderBalances \subseteq DOMAIN reads
    BY <1>1, <1>3 DEF Done
  <1>7. Underway'
    BY <1>1, <1>4, <1>5, <1>6 DEF Underway, Done
  <1>8. \A q \in DOMAIN reads : q[1] # "rpc"
    BY <1>1, NoFallbackYet
  <1> QED
    BY <1>1, <1>2, <1>4, <1>5, <1>7, <1>8, LoadGoesOn

LEMMA BlockNumberLoads == ASSUME ReadsInv, BlockNumber PROVE ReadsInv'
  <1>1. /\ Keeps /\ load.phase = "number" /\ UNCHANGED <<factoryCache, index, reads, snapshot>>
        /\ load' = [load EXCEPT !.phase = IF load.kind = "buyback" THEN "store" ELSE "launches",
                                !.block = Len(chain)]
    BY DEF BlockNumber, storeVars, Keeps, GoOn
  <1>2. StoreReadsTypeOK /\ ProcessTyped' /\ load \in [kind : Kind, phase : Phase, block : Height]
    BY <1>1 DEF ReadsInv, StoreReadsTypeOK, ProcessTyped, Phase
  <1>3. (IF load.kind = "buyback" THEN "store" ELSE "launches") \in Phase /\ Len(chain) \in Height
    BY <1>2, HeightOfHash DEF Phase, StoreReadsTypeOK
  <1>4. Underway'
    BY <1>1, <1>2 DEF ReadsInv, Underway, Done
  <1>5. \A q \in DOMAIN reads : q[1] # "rpc"
    BY <1>1, NoFallbackYet
  <1> QED
    BY <1>1, <1>2, <1>3, <1>4, <1>5, LoadGoesOn

LEMMA FactoryLaunchesLoad == ASSUME ReadsInv, FactoryLaunches PROVE ReadsInv'
  <1>1. /\ Keeps /\ load.phase = "launches" /\ UNCHANGED <<index, snapshot>>
    BY DEF FactoryLaunches, storeVars, Keeps
  <1>2. StoreReadsTypeOK /\ load \in [kind : Kind, phase : Phase, block : Height]
    BY DEF ReadsInv, StoreReadsTypeOK, Phase
  <1>3. PICK view \in Hash :
          /\ factoryCache' = [launches |-> view,
                         block |-> IF load.kind = "index" THEN load.block ELSE factoryCache.block]
          /\ IF load.kind = "holder" /\ ~HasLaunch(view)
             THEN Ends
             ELSE /\ Read(<<"launches", "markets">>, "cache", view)
                  /\ load' = [load EXCEPT !.phase = IF load.kind = "holder" THEN "balances" ELSE "rpc"]
    BY DEF FactoryLaunches
  <1>4. ProcessTyped'
    BY <1>1, <1>2, <1>3 DEF ProcessTyped, StoreReadsTypeOK
  <1>5. CASE Ends
    <2>1. TornOnlyByMovement'
      BY <1>1 DEF ReadsInv, TornOnlyByMovement, Slack, Keeps
    <2> QED
      BY <1>1, <1>2, <1>4, <1>5, <2>1, LoadEnds DEF StoreReadsTypeOK
  <1>6. CASE ~Ends
    <2>1. /\ Read(<<"launches", "markets">>, "cache", view)
          /\ load' = [load EXCEPT !.phase = IF load.kind = "holder" THEN "balances" ELSE "rpc"]
      BY <1>3, <1>6
    <2>2. /\ load' \in [kind : Kind, phase : Phase, block : Height]
          /\ load'.kind = load.kind /\ load'.block = load.block
      BY <1>2, <2>1 DEF Phase
    <2>3. \A r \in DOMAIN reads : r[1] # "rpc"
      BY <1>1, NoFallbackYet
    <2>4. Underway'
      <3>1. DOMAIN reads \subseteq DOMAIN reads'
        BY <2>1 DEF Read
      <3>2. load.kind # "analytics"
        BY <1>1 DEF ReadsInv, Underway
      <3> QED
        BY <1>1, <2>2, <3>1, <3>2 DEF ReadsInv, Underway, Done
    <2>5. /\ FallsBackAt(<<"launches", "markets">>, [source |-> "cache", view |-> view],
                         load'.kind, load'.phase, load'.block)
          /\ AsOf(<<"launches", "markets">>, [source |-> "cache", view |-> view], stored, chain, load.block)
      BY DEF FallsBackAt, AsOf, Header
    <2>6. "cache" \in Source
      BY DEF Source
    <2> QED
      BY <1>1, <1>4, <2>1, <2>2, <2>3, <2>4, <2>5, <2>6, ReadAdded
  <1> QED
    BY <1>5, <1>6

LEMMA StoredHoldersLoad == ASSUME ReadsInv, StoredHolders PROVE ReadsInv'
  <1>1. /\ Keeps /\ load.kind = "holder" /\ load.phase = "balances" /\ UNCHANGED <<factoryCache, index>>
    BY DEF StoredHolders, storeVars, Keeps
  <1>2. StoreReadsTypeOK /\ ProcessTyped'
    BY <1>1 DEF ReadsInv, StoreReadsTypeOK, ProcessTyped
  <1>3. CASE FreshEnough(StoredHolderBalances, LaunchBlock)
    <2>1. Publish(Named(StoredHolderBalances), Results(StoredHolderBalances))
      BY <1>3 DEF StoredHolders
    <2>2. StoredHolderBalances \subseteq DOMAIN reads
      BY <1>1 DEF ReadsInv, Underway, Done
    <2>3. /\ Named(StoredHolderBalances) \in Hash /\ (~moved => Named(StoredHolderBalances) = stored)
          /\ \A q \in StoredHolderBalances : reads[q].source = "store"
      BY <1>3, <2>2, AvailableIsStored DEF StoredHolderBalances, FreshEnough
    <2> QED
      BY <1>1, <1>2, <2>1, <2>2, <2>3, StoreLoadsPublish
  <1>4. CASE ~FreshEnough(StoredHolderBalances, LaunchBlock)
    <2>1. load' = [load EXCEPT !.phase = "rpc", !.block = load.block] /\ UNCHANGED <<reads, snapshot>>
      BY <1>4 DEF StoredHolders, GoOn
    <2>2. load \in [kind : Kind, phase : Phase, block : Height] /\ "rpc" \in Phase
      BY <1>2 DEF StoreReadsTypeOK, Phase
    <2>3. Underway'
      BY <1>1, <2>1, <2>2 DEF ReadsInv, Underway, Done
    <2> QED
      BY <1>1, <1>2, <2>1, <2>2, <2>3, LoadGoesOn
  <1> QED
    BY <1>3, <1>4

LEMMA StoredExecutionsLoad == ASSUME ReadsInv, StoredExecutions PROVE ReadsInv'
  <1>1. /\ Keeps /\ load.kind = "buyback" /\ load.phase = "store" /\ StoredBuybacks \subseteq DOMAIN reads
        /\ UNCHANGED <<factoryCache, index, snapshot>> /\ load' = [load EXCEPT !.phase = "rpc"]
    BY DEF StoredExecutions, storeVars, Keeps, Done
  <1>2. StoreReadsTypeOK /\ ProcessTyped' /\ load \in [kind : Kind, phase : Phase, block : Height]
    BY <1>1 DEF ReadsInv, StoreReadsTypeOK, ProcessTyped, Phase
  <1>3. /\ load' \in [kind : Kind, phase : Phase, block : Height] /\ load'.phase = "rpc"
        /\ load'.kind = load.kind /\ load'.block = load.block
    BY <1>1, <1>2 DEF Phase
  <1>4. Underway'
    BY <1>1, <1>3 DEF Underway
  <1>5. CASE FreshEnough(StoredBuybacks, 1)
    <2> DEFINE view == reads[<<"buybacks", "rows">>].view
    <2>1. Read(<<"rpc", "executions">>, "store", view)
      BY <1>5 DEF StoredExecutions
    <2>2. Available(StoredBuybacks) /\ Len(Named(StoredBuybacks)) + Tolerance >= load.block
      BY <1>5 DEF FreshEnough
    <2>3. <<"buybacks", "rows">> \in StoredBuybacks /\ view \in Hash
      BY <1>1, <1>2 DEF StoredBuybacks, Of, StoreReadsTypeOK
    <2>4. ~moved => view = stored /\ Named(StoredBuybacks) = stored
      BY <1>1, <2>2, <2>3, AvailableIsStored DEF StoredBuybacks
    <2> HIDE DEF view
    <2>5. ~moved => AsOf(<<"rpc", "executions">>, [source |-> "store", view |-> view], stored, chain, load.block)
      BY <2>2, <2>4 DEF AsOf
    <2>6. FallsBackAt(<<"rpc", "executions">>, [source |-> "store", view |-> view],
                      load'.kind, load'.phase, load'.block)
      BY <1>1, <1>3 DEF FallsBackAt, Header
    <2>7. "store" \in Source
      BY DEF Source
    <2> QED
      BY <1>1, <1>2, <1>3, <1>4, <2>1, <2>3, <2>5, <2>6, <2>7, ReadAdded
  <1>6. CASE ~FreshEnough(StoredBuybacks, 1)
    <2>1. reads' = reads /\ load' = [load EXCEPT !.phase = "rpc", !.block = load.block]
      BY <1>1, <1>2, <1>6 DEF StoredExecutions
    <2> QED
      BY <1>1, <1>2, <1>4, <2>1, LoadGoesOn DEF Phase
  <1> QED
    BY <1>5, <1>6

LEMMA FallbackReads ==
    ASSUME ReadsInv, NEW q \in Fallback(load.kind), FallbackRead(q)
    PROVE  ReadsInv'
  <1>1. /\ Keeps /\ UNCHANGED <<factoryCache, index, load, snapshot>> /\ q[1] = "rpc"
        /\ (load.phase = "rpc" \/ (load.kind = "buyback" /\ load.phase = "store" /\ q = <<"rpc", "buybackReady">>))
    <2>1. q[1] = "rpc"
      BY DEF Fallback, Rpc, Header
    <2>2. load.phase = "rpc" \/ (load.kind = "buyback" /\ load.phase = "store" /\ q = <<"rpc", "buybackReady">>)
      BY DEF FallbackRead
    <2>3. UNCHANGED <<chain, stored, replacements, factoryCache, index, load, snapshot, moved>>
      BY DEF FallbackRead, storeVars
    <2> QED
      BY <2>1, <2>2, <2>3 DEF Keeps
  <1>2. StoreReadsTypeOK /\ ProcessTyped' /\ load \in [kind : Kind, phase : Phase, block : Height]
    BY <1>1 DEF ReadsInv, StoreReadsTypeOK, ProcessTyped, Phase
  <1>3. ASSUME Underway PROVE Underway'
    <2>1. DOMAIN reads \subseteq DOMAIN reads'
      BY DEF FallbackRead, Read
    <2> QED
      BY <1>1, <1>3, <2>1 DEF Underway, Done
  <1>4. Underway'
    BY <1>3 DEF ReadsInv
  <1>5. CASE load.block \in 1 .. Len(chain) /\ Read(q, "rpc", SubSeq(chain, 1, load.block))
    <2>1. SubSeq(chain, 1, load.block) \in Hash
      <3>1. chain \in Hash /\ load.block \in 0 .. Len(chain)
        BY <1>2, <1>5, HeightOfHash DEF StoreReadsTypeOK
      <3> QED
        BY <3>1, Beginning
    <2> DEFINE view == SubSeq(chain, 1, load.block)
    <2>2. /\ FallsBackAt(q, [source |-> "rpc", view |-> view], load'.kind, load'.phase, load'.block)
          /\ AsOf(q, [source |-> "rpc", view |-> view], stored, chain, load.block)
      BY <1>1, <1>5 DEF FallsBackAt, AsOf
    <2>3. "rpc" \in Source
      BY DEF Source
    <2> QED
      BY <1>1, <1>2, <1>4, <1>5, <2>1, <2>2, <2>3, ReadAdded
  <1>6. ASSUME q = <<"rpc", "transfers">>, NEW view \in Hash, Read(q, "explorer", view) PROVE ReadsInv'
    <2>1. /\ FallsBackAt(q, [source |-> "explorer", view |-> view], load'.kind, load'.phase, load'.block)
          /\ AsOf(q, [source |-> "explorer", view |-> view], stored, chain, load.block)
      BY <1>1, <1>6 DEF FallsBackAt, AsOf, Header
    <2>2. "explorer" \in Source
      BY DEF Source
    <2> QED
      BY <1>1, <1>2, <1>4, <1>6, <2>1, <2>2, ReadAdded
  <1> QED
    BY <1>5, <1>6 DEF FallbackRead, At, AtBlock

\* The fallback's snapshot: what was read is as of the header, or of the reading of the
\* buyback's state, which are as of the load's block.
LEMMA FallbackLoads == ASSUME ReadsInv, FallbackLoaded PROVE ReadsInv'
  <1> DEFINE q0 == IF load.kind = "buyback" THEN <<"rpc", "buybackReady">> ELSE Header
             queries == Fallback(load.kind)
             named == reads[q0].view
  <1>1. /\ Keeps /\ factoryCache' = factoryCache /\ load.phase = "rpc" /\ queries \subseteq DOMAIN reads
        /\ Publish(named, Results(queries))
        /\ index' = IF load.kind = "index"
                    THEN [named |-> named, known |-> HasLaunch(reads[<<"launches", "markets">>].view)]
                    ELSE index
    BY DEF FallbackLoaded, storeVars, Keeps, Done
  <1>2. StoreReadsTypeOK /\ load.kind \in Kind
    BY DEF ReadsInv, StoreReadsTypeOK
  <1>3. load.kind \in {"market", "index", "holder", "buyback"}
    BY <1>1, <1>2 DEF ReadsInv, Underway, Kind
  <1>4. q0 \in queries /\ (load.kind = "buyback" => queries = Rpc({"buybackReady", "executions"}))
    BY <1>3 DEF Fallback, Rpc, Header
  <1>5. \A q \in queries : q \in DOMAIN reads /\ q[1] = "rpc"
    BY <1>1 DEF Fallback, Rpc, Header
  <1>6. snapshot' = [kind |-> load.kind, named |-> named, parts |-> Results(queries)] /\ Ends
    BY <1>1 DEF Publish
  <1>7. Results(queries) \subseteq [source : Source, view : Hash]
    BY <1>5, ResultsTyped
  <1>8. \A q \in queries :
            /\ FallsBackAt(q, reads[q], load.kind, load.phase, load.block)
            /\ ~moved => AsOf(q, reads[q], stored, chain, load.block)
    BY <1>5 DEF ReadsInv, Sourced
  <1>9. reads[q0].source = "rpc"
    BY <1>4, <1>8 DEF FallsBackAt
  <1>10. named \in Hash
    BY <1>2, <1>4, <1>5 DEF StoreReadsTypeOK
  <1>11. ~moved => load.block \in 1 .. Len(chain) /\ named = SubSeq(chain, 1, load.block)
    BY <1>4, <1>8, <1>9 DEF AsOf
  <1>12. ProcessTyped'
    <2>1. HasLaunch(reads[<<"launches", "markets">>].view) \in BOOLEAN
      BY DEF HasLaunch
    <2> HIDE DEF named
    <2> QED
      BY <1>1, <1>2, <1>10, <2>1 DEF ProcessTyped, StoreReadsTypeOK
  <1>13. TornOnlyByMovement'
    <2> SUFFICES ASSUME ~moved', NEW p \in snapshot'.parts, p.source \in {"store", "rpc"}
                 PROVE  /\ Len(p.view) + Slack(load.kind) >= Len(named)
                        /\ load.kind # "buyback" => p.view = named
      BY <1>6 DEF TornOnlyByMovement
    <2>1. ~moved
      BY <1>1 DEF Keeps
    <2>2. PICK q \in queries : p = reads[q]
      BY <1>6 DEF Results
    <2>3. Len(named) = load.block /\ load.block \in Nat
      <3>1. chain \in Hash /\ load.block \in 0 .. Len(chain)
        BY <1>2, <1>11, <2>1, HeightOfHash DEF StoreReadsTypeOK
      <3> QED
        BY <1>11, <2>1, <3>1, HeightOfHash, Beginning
    <2> HIDE DEF named, queries
    <2>4. CASE p.source = "rpc"
      <3>1. p.view = named
        BY <1>8, <1>11, <2>1, <2>2, <2>4 DEF AsOf
      <3> QED
        BY <2>3, <3>1, StoreReadsAssumption DEF Slack
    <2>5. CASE p.source = "store"
      <3>1. load.kind = "buyback" /\ p.view = stored /\ Len(stored) + Tolerance >= load.block
        BY <1>5, <1>8, <2>1, <2>2, <2>5 DEF AsOf, FallsBackAt
      <3> QED
        BY <2>3, <3>1 DEF Slack
    <2> QED
      BY <2>4, <2>5
  <1> QED
    BY <1>1, <1>2, <1>6, <1>7, <1>10, <1>12, <1>13, LoadEnds

LEMMA ReadsMove ==
    ASSUME ReadsInv, [StoreReadsNext]_storeReadsVars
    PROVE  ReadsInv'
  <1>1. CASE UNCHANGED storeReadsVars
    BY <1>1 DEF storeReadsVars, storeVars, processVars, ReadsInv, StoreReadsTypeOK, Underway, Done, Sourced,
           TornOnlyByMovement, Slack
  <1>2. CASE ChainGrows \/ ChainReplaced \/ WorkerCommits \/ WorkerRollsBack
    BY <1>2, WorldMoves
  <1>3. CASE LoadFails
    <2>1. Keeps /\ Ends /\ UNCHANGED <<factoryCache, index, snapshot>>
      BY <1>3 DEF LoadFails, storeVars, Keeps
    <2>2. ProcessTyped' /\ StoreReadsTypeOK
      BY <2>1 DEF ReadsInv, StoreReadsTypeOK, ProcessTyped
    <2>3. TornOnlyByMovement'
      BY <2>1 DEF ReadsInv, TornOnlyByMovement, Slack, Keeps
    <2> QED
      BY <2>1, <2>2, <2>3, LoadEnds DEF StoreReadsTypeOK
  <1>4. CASE LatestBuys
    <2>1. /\ UNCHANGED <<chain, stored, replacements, factoryCache, index, load, reads, moved>>
          /\ snapshot' = [kind |-> "buys", named |-> index.named,
                          parts |-> {[source |-> "cache", view |-> snapshot.named]}]
      BY <1>4 DEF LatestBuys, storeVars
    <2>2. StoreReadsTypeOK
      BY DEF ReadsInv
    <2>3. snapshot'.kind \in Kind /\ snapshot'.named \in Hash
          /\ snapshot'.parts \subseteq [source : Source, view : Hash]
          /\ \A p \in snapshot'.parts : p.source = "cache"
      BY <2>1, <2>2 DEF StoreReadsTypeOK, Kind, Source
    <2>4. StoreReadsTypeOK'
      BY <2>1, <2>2, <2>3 DEF StoreReadsTypeOK
    <2>5. Underway' /\ Sourced'
      BY <2>1 DEF ReadsInv, Underway, Done, Sourced
    <2>6. TornOnlyByMovement'
      BY <2>3 DEF TornOnlyByMovement
    <2> QED
      BY <2>4, <2>5, <2>6 DEF ReadsInv
  <1> QED
    BY <1>1, <1>2, <1>3, <1>4, BeginReads, QueryReads, StoredMarketLoads, StoredIndexLoads, AnalyticsLoad,
       HolderLaunchLoads, BlockNumberLoads, FactoryLaunchesLoad, StoredHoldersLoad, StoredExecutionsLoad,
       FallbackReads, FallbackLoads DEF StoreReadsNext

\* A snapshot is torn by movement alone: while neither the worker stored or rolled back
\* nor the chain was replaced since its load began, what it was put together from is as
\* of the block it names, whichever of its queries failed and fell back.
THEOREM SnapshotsAreOfOneBlock == StoreReadsSpec => []TornOnlyByMovement
  <1>1. ReadsInv => TornOnlyByMovement
    BY DEF ReadsInv
  <1> QED
    BY <1>1, ReadsStart, ReadsMove, PTL DEF StoreReadsSpec

\* What the process keeps and a load reads stays well formed.
THEOREM ReadsTyped == StoreReadsSpec => []StoreReadsTypeOK
  <1>1. ReadsInv => StoreReadsTypeOK
    BY DEF ReadsInv
  <1> QED
    BY <1>1, ReadsStart, ReadsMove, PTL DEF StoreReadsSpec

\* Quotes.  While a read is under way, its key's entry of pendingQuotes is its own: the
\* entry is made when the read begins, only where there is none, and removed by the
\* continuations of the read that made it, once it has settled.

PriceRead == [at : {"none", "markets", "contracts", "stored", "hedged", "quoted", "failed"},
              key : QuoteKey \cup {None}, quoted : 0 .. MaxClock, failed : 0 .. Attempts]

\* A read that is tried has an attempt left.
HedgedInv ==
    /\ clock \in 0 .. MaxClock /\ pending \in [QuoteKey -> Client \cup {None}]
    /\ priceReads \in [Client -> PriceRead] /\ waits \in [Client -> Client \cup {None}]
    /\ verified \in BOOLEAN
    /\ \A c \in Client : ~Settled(c) => priceReads[c].failed < Attempts
    /\ \A c \in Client : ~Settled(c) /\ priceReads[c].key # None => pending[priceReads[c].key] = c

LEMMA HedgesStart == QuoteInit => HedgedInv
  <1> SUFFICES ASSUME QuoteInit PROVE HedgedInv
    OBVIOUS
  <1>1. 0 \in 0 .. MaxClock /\ 0 \in 0 .. Attempts /\ 0 < Attempts
    BY QuoteAssumption
  <1>2. NoRead \in PriceRead /\ NoRead.key = None /\ NoRead.failed = 0
    BY <1>1 DEF NoRead, PriceRead
  <1>3. verified \in BOOLEAN
    BY DEF QuoteInit
  <1> QED
    BY <1>1, <1>2, <1>3 DEF QuoteInit, HedgedInv

\* One read moves on, and it was not settled.
LEMMA ReadAdvances ==
    ASSUME HedgedInv, NEW c \in Client, ~Settled(c), NEW read \in PriceRead,
           read.key = priceReads[c].key,
           read.failed < Attempts \/ read.at \in {"quoted", "failed"},
           priceReads' = [priceReads EXCEPT ![c] = read],
           UNCHANGED <<clock, pending, waits>>, verified' \in BOOLEAN
    PROVE  HedgedInv'
  <1>1. priceReads' \in [Client -> PriceRead] /\ priceReads'[c] = read
        /\ \A d \in Client : d # c => priceReads'[d] = priceReads[d]
    BY DEF HedgedInv
  <1>2. ASSUME NEW d \in Client, ~Settled(d)'
        PROVE  /\ priceReads'[d].failed < Attempts
               /\ priceReads'[d].key # None => pending'[priceReads'[d].key] = d
    <2>1. CASE d = c
      BY <1>1, <1>2, <2>1 DEF HedgedInv, Settled
    <2>2. CASE d # c
      BY <1>1, <1>2, <2>2 DEF HedgedInv, Settled
    <2> QED
      BY <2>1, <2>2
  <1> QED
    BY <1>1, <1>2 DEF HedgedInv

LEMMA GetHedges ==
    ASSUME HedgedInv, NEW c \in Client, NEW key \in QuoteKey, Get(c, key)
    PROVE  HedgedInv'
  <1>1. UNCHANGED <<clock, verified>>
    BY DEF Get
  <1>2. CASE UNCHANGED <<pending, priceReads, waits>>
    BY <1>1, <1>2 DEF HedgedInv, Settled
  <1>3. CASE /\ waits' = [waits EXCEPT ![c] = IF pending[key] = None THEN c ELSE pending[key]]
             /\ pending' = (IF pending[key] = None THEN [pending EXCEPT ![key] = c] ELSE pending)
             /\ priceReads' = (IF pending[key] = None
                               THEN [priceReads EXCEPT ![c] = [NoRead EXCEPT !.at = "markets", !.key = key]]
                               ELSE priceReads)
    <2>1. waits' \in [Client -> Client \cup {None}]
      BY <1>3 DEF HedgedInv
    <2>2. CASE pending[key] # None
      BY <1>1, <1>3, <2>1, <2>2 DEF HedgedInv, Settled
    <2>3. CASE pending[key] = None
      <3> DEFINE read == [NoRead EXCEPT !.at = "markets", !.key = key]
      <3>1. read \in PriceRead /\ read.key = key /\ read.failed = 0 /\ read.at = "markets"
        <4>1. NoRead \in PriceRead /\ NoRead.failed = 0
          <5>1. 0 \in 0 .. MaxClock /\ 0 \in 0 .. Attempts
            BY QuoteAssumption
          <5> QED
            BY <5>1 DEF PriceRead, NoRead
        <4> QED
          BY <4>1 DEF PriceRead
      <3> HIDE DEF read
      <3>2. priceReads' \in [Client -> PriceRead] /\ priceReads'[c] = read
            /\ \A d \in Client : d # c => priceReads'[d] = priceReads[d]
        BY <1>3, <2>3, <3>1 DEF HedgedInv, read
      <3>3. pending' \in [QuoteKey -> Client \cup {None}] /\ pending'[key] = c
            /\ \A k \in QuoteKey : k # key => pending'[k] = pending[k]
        BY <1>3, <2>3 DEF HedgedInv
      <3>4. ASSUME NEW d \in Client, ~Settled(d)'
            PROVE  /\ priceReads'[d].failed < Attempts
                   /\ priceReads'[d].key # None => pending'[priceReads'[d].key] = d
        <4>1. CASE d = c
          BY <3>1, <3>2, <3>3, <4>1, QuoteAssumption
        <4>2. CASE d # c
          <5>1. ~Settled(d) /\ priceReads'[d] = priceReads[d] /\ priceReads[d].key \in QuoteKey \cup {None}
            BY <3>2, <3>4, <4>2 DEF Settled, HedgedInv, PriceRead
          <5>2. priceReads[d].key # key
            BY <2>3, <5>1, QuoteAssumption DEF HedgedInv
          <5> QED
            BY <3>3, <5>1, <5>2 DEF HedgedInv
        <4> QED
          BY <4>1, <4>2
      <3> QED
        BY <1>1, <2>1, <3>2, <3>3, <3>4 DEF HedgedInv
    <2> QED
      BY <2>2, <2>3
  <1> QED
    BY <1>2, <1>3 DEF Get

LEMMA ContinueHedges ==
    ASSUME HedgedInv, NEW c \in Client, ContinueRead(c)
    PROVE  HedgedInv'
  <1> DEFINE r == waits[c]
             key == priceReads[r].key
  <1>1. /\ r \in Client /\ Settled(r) /\ UNCHANGED <<clock, verified>>
        /\ waits' = [waits EXCEPT ![c] = None]
        /\ pending' = IF pending[key] = r THEN [pending EXCEPT ![key] = None] ELSE pending
        /\ priceReads' \in {priceReads, [priceReads EXCEPT ![r] = NoRead]}
    BY DEF HedgedInv, ContinueRead, Finally
  <1>2. NoRead \in PriceRead /\ NoRead.key = None /\ NoRead.failed = 0
    <2>1. 0 \in 0 .. MaxClock /\ 0 \in 0 .. Attempts
      BY QuoteAssumption
    <2> QED
      BY <2>1 DEF NoRead, PriceRead
  <1> HIDE DEF r, key
  <1>3. waits' \in [Client -> Client \cup {None}] /\ pending' \in [QuoteKey -> Client \cup {None}]
        /\ priceReads' \in [Client -> PriceRead]
    BY <1>1, <1>2 DEF HedgedInv
  <1>4. ASSUME NEW d \in Client, ~Settled(d)'
        PROVE  /\ priceReads'[d].failed < Attempts
               /\ priceReads'[d].key # None => pending'[priceReads'[d].key] = d
    <2>1. CASE d # r \/ priceReads' = priceReads
      <3>1. priceReads'[d] = priceReads[d] /\ ~Settled(d) /\ d # r
        BY <1>1, <1>4, <2>1 DEF HedgedInv, Settled
      <3>2. \A k \in QuoteKey : pending[k] = d => pending'[k] = d
        BY <1>1, <3>1 DEF HedgedInv
      <3>3. priceReads[d].key \in QuoteKey \cup {None}
        BY DEF HedgedInv, PriceRead
      <3> QED
        BY <3>1, <3>2, <3>3 DEF HedgedInv
    <2>2. CASE d = r /\ priceReads' = [priceReads EXCEPT ![r] = NoRead]
      BY <1>2, <2>2, QuoteAssumption DEF HedgedInv
    <2> QED
      BY <1>1, <2>1, <2>2
  <1> QED
    BY <1>1, <1>3, <1>4 DEF HedgedInv

LEMMA HedgesMove ==
    ASSUME HedgedInv, [QuoteNext]_quoteVars
    PROVE  HedgedInv'
  <1>0. \A c \in Client : /\ priceReads[c] \in PriceRead
                          /\ priceReads[c].at \in {"markets", "contracts", "stored", "hedged"} => ~Settled(c)
    BY DEF HedgedInv, Settled
  <1>1. CASE UNCHANGED quoteVars
    BY <1>1 DEF quoteVars, HedgedInv, Settled
  <1>2. CASE Pass
    <2>1. clock' \in 0 .. MaxClock
      BY <1>2, QuoteAssumption DEF Pass, HedgedInv
    <2> QED
      BY <1>2, <2>1 DEF Pass, HedgedInv, Settled
  <1>3. ASSUME NEW c \in Client, NEW indexed \in BOOLEAN, NEW local \in BOOLEAN, Markets(c, indexed, local)
        PROVE  HedgedInv'
    <2>1. PICK at \in {"stored", "hedged", "contracts"} :
             priceReads' = [priceReads EXCEPT ![c] = [priceReads[c] EXCEPT !.at = at]]
      BY <1>3 DEF Markets
    <2>2. [priceReads[c] EXCEPT !.at = at] \in PriceRead
          /\ [priceReads[c] EXCEPT !.at = at].key = priceReads[c].key
          /\ [priceReads[c] EXCEPT !.at = at].failed = priceReads[c].failed
      BY <1>0 DEF PriceRead
    <2>3. ~Settled(c) /\ priceReads[c].failed < Attempts /\ verified' \in BOOLEAN
          /\ UNCHANGED <<clock, pending, waits>>
      BY <1>0, <1>3 DEF Markets, HedgedInv
    <2> QED
      BY <2>1, <2>2, <2>3, ReadAdvances
  <1>4. ASSUME NEW c \in Client, NEW yes \in BOOLEAN, Contracts(c, yes)
        PROVE  HedgedInv'
    <2>1. PICK at \in {"hedged", "failed"} :
             priceReads' = [priceReads EXCEPT ![c] = [priceReads[c] EXCEPT !.at = at]]
      BY <1>4 DEF Contracts
    <2>2. [priceReads[c] EXCEPT !.at = at] \in PriceRead
          /\ [priceReads[c] EXCEPT !.at = at].key = priceReads[c].key
          /\ [priceReads[c] EXCEPT !.at = at].failed = priceReads[c].failed
      BY <1>0 DEF PriceRead
    <2>3. ~Settled(c) /\ priceReads[c].failed < Attempts /\ verified' \in BOOLEAN
          /\ UNCHANGED <<clock, pending, waits>>
      BY <1>0, <1>4 DEF Contracts, HedgedInv
    <2> QED
      BY <2>1, <2>2, <2>3, ReadAdvances
  <1>5. ASSUME NEW c \in Client, NEW yes \in BOOLEAN, Attempt(c, yes)
        PROVE  HedgedInv'
    <2>1. /\ ~Settled(c) /\ priceReads[c].failed < Attempts /\ verified' \in BOOLEAN
          /\ clock \in 0 .. MaxClock /\ UNCHANGED <<clock, pending, waits>>
      BY <1>0, <1>5 DEF Attempt, HedgedInv
    <2>2. CASE yes
      <3> DEFINE read == [priceReads[c] EXCEPT !.at = "quoted", !.quoted = clock]
      <3>1. read \in PriceRead /\ read.key = priceReads[c].key /\ read.at = "quoted"
        BY <1>0, <2>1 DEF PriceRead
      <3>2. priceReads' = [priceReads EXCEPT ![c] = read]
        BY <1>5, <2>2 DEF Attempt, Quoted
      <3> QED
        BY <2>1, <3>1, <3>2, ReadAdvances
    <2>3. CASE ~yes
      <3> DEFINE at == IF priceReads[c].failed + 1 = Attempts THEN "failed" ELSE "hedged"
                 read == [priceReads[c] EXCEPT !.failed = priceReads[c].failed + 1, !.at = at]
      <3>1. read \in PriceRead /\ read.key = priceReads[c].key
            /\ (read.failed < Attempts \/ read.at \in {"quoted", "failed"})
        <4>1. priceReads[c].failed + 1 \in 0 .. Attempts
              /\ (at = "failed" \/ priceReads[c].failed + 1 < Attempts) /\ at \in {"failed", "hedged"}
          BY <1>0, <2>1, QuoteAssumption DEF PriceRead
        <4> HIDE DEF at
        <4> QED
          BY <1>0, <4>1 DEF PriceRead
      <3>2. priceReads' = [priceReads EXCEPT ![c] = read]
        BY <1>5, <2>3 DEF Attempt
      <3> QED
        BY <2>1, <3>1, <3>2, ReadAdvances
    <2> QED
      BY <2>2, <2>3
  <1>6. ASSUME NEW c \in Client, NEW at \in 0 .. MaxClock, StoredState(c, at)
        PROVE  HedgedInv'
    <2>1. /\ ~Settled(c) /\ priceReads[c].failed < Attempts /\ verified' \in BOOLEAN
          /\ UNCHANGED <<clock, pending, waits>>
      BY <1>0, <1>6 DEF StoredState, HedgedInv
    <2>2. PICK read \in {[priceReads[c] EXCEPT !.at = "quoted", !.quoted = at], [priceReads[c] EXCEPT !.at = "hedged"]} :
             priceReads' = [priceReads EXCEPT ![c] = read]
      BY <1>6 DEF StoredState, Quoted
    <2>3. read \in PriceRead /\ read.key = priceReads[c].key
          /\ (read.failed < Attempts \/ read.at \in {"quoted", "failed"})
      BY <1>0, <2>1 DEF PriceRead
    <2> QED
      BY <2>1, <2>2, <2>3, ReadAdvances
  <1>7. ASSUME NEW c \in Client, StoredUnavailable(c)
        PROVE  HedgedInv'
    <2>1. /\ ~Settled(c) /\ priceReads[c].failed < Attempts /\ verified' \in BOOLEAN
          /\ UNCHANGED <<clock, pending, waits>>
      BY <1>0, <1>7 DEF StoredUnavailable, HedgedInv
    <2>2. [priceReads[c] EXCEPT !.at = "hedged"] \in PriceRead
          /\ [priceReads[c] EXCEPT !.at = "hedged"].key = priceReads[c].key
          /\ [priceReads[c] EXCEPT !.at = "hedged"].failed = priceReads[c].failed
      BY <1>0 DEF PriceRead
    <2>3. priceReads' = [priceReads EXCEPT ![c] = [priceReads[c] EXCEPT !.at = "hedged"]]
      BY <1>7 DEF StoredUnavailable
    <2> QED
      BY <2>1, <2>2, <2>3, ReadAdvances
  <1> QED
    BY <1>1, <1>2, <1>3, <1>4, <1>5, <1>6, <1>7, GetHedges, ContinueHedges DEF QuoteNext

\* Quotes of one market, side and amount are read by one set of attempts at a time,
\* however the requests that share reads begin, fail and go on.
THEOREM OneHedgeSet == QuoteSpec => []SingleHedgeSet
  <1>1. HedgedInv => SingleHedgeSet
    BY DEF HedgedInv, SingleHedgeSet
  <1> QED
    BY <1>1, HedgesStart, HedgesMove, PTL DEF QuoteSpec

\* Signed updates.

AnyWhat == {"pictured", "plain", "new", "keep", "remove"}
SignedRequest ==
    [at : {"idle", "verify", "normalize", "v3", "legacy", "store", "rename", "read", "write"},
     nonce : Nat, what : AnyWhat, late : BOOLEAN, part : {"image", "metadata"}, base : Request \cup {NoAvatar}]
Publishing == {"v3", "legacy", "store", "rename"}

SignedTyped ==
    /\ service \in {"metadata", "profile"} /\ now \in Nat /\ issued \in Seq(Nat)
    /\ requests \in [Request -> SignedRequest]
    /\ \A r \in Request : requests[r].at # "idle" => requests[r].what \in What
    /\ \A r \in Request : requests[r].at \in Publishing => service = "metadata"

LEMMA IdleRequestTyped == IdleRequest \in SignedRequest /\ IdleRequest.at = "idle"
  BY DEF IdleRequest, SignedRequest, AnyWhat

LEMMA SignedStart == SignedInit => SignedTyped
  <1> SUFFICES ASSUME SignedInit PROVE SignedTyped
    OBVIOUS
  <1>1. requests = [r \in Request |-> IdleRequest] /\ issued = <<>> /\ now = 0
    BY DEF SignedInit
  <1> QED
    BY <1>1, IdleRequestTyped DEF SignedInit, SignedTyped, Publishing

\* One request moves on.
LEMMA RequestMoves ==
    ASSUME SignedTyped, NEW r \in Request, NEW to \in SignedRequest,
           requests' = [requests EXCEPT ![r] = to],
           to.at # "idle" => to.what \in What,
           to.at \in Publishing => service = "metadata",
           UNCHANGED <<service, now, issued>>
    PROVE  SignedTyped'
  <1>1. requests' \in [Request -> SignedRequest] /\ requests'[r] = to
        /\ \A s \in Request : s # r => requests'[s] = requests[s]
    BY DEF SignedTyped
  <1>2. What' = What
    BY DEF What
  <1>3. \A s \in Request : requests'[s].at # "idle" => requests'[s].what \in What
    BY <1>1 DEF SignedTyped
  <1>4. \A s \in Request : requests'[s].at \in Publishing => service = "metadata"
    BY <1>1 DEF SignedTyped
  <1> QED
    BY <1>1, <1>2, <1>3, <1>4 DEF SignedTyped

\* What each step does to the request that takes it.
RequestStep(r, to) ==
    /\ requests' = [requests EXCEPT ![r] = to]
    /\ to \in SignedRequest /\ (to.at # "idle" => to.what \in What)
    /\ to.at \in Publishing => service = "metadata"

LEMMA PresentMoves ==
    ASSUME SignedTyped, NEW r \in Request, NEW n \in DOMAIN issued, NEW x \in What, Present(r, n, x)
    PROVE  /\ UNCHANGED <<service, now, rates, issued, spent, fileVars, profileVars>>
           /\ \/ UNCHANGED requests
              \/ /\ \E c \in ToSet(Cleanup(challenges)) : c.nonce = n
                 /\ requests[r].at = "idle" /\ n \in 1 .. Len(issued)
                 /\ \E to : /\ RequestStep(r, to) /\ to.at = "verify" /\ to.nonce = n
                            /\ to.late = (n \in spent)
  <1>1. UNCHANGED <<service, now, rates, issued, spent, fileVars, profileVars>>
        /\ requests[r] = IdleRequest /\ challenges' = Cleanup(challenges)
    BY DEF Present
  <1>2. n \in 1 .. Len(issued) /\ n \in Nat /\ requests[r].at = "idle"
    BY <1>1, IdleRequestTyped DEF SignedTyped
  <1> DEFINE late == n \in spent
             to == [IdleRequest EXCEPT !.at = "verify", !.nonce = n, !.what = x, !.late = late]
  <1>3. x \in AnyWhat
    BY DEF What, AnyWhat
  <1>4. late \in BOOLEAN
    OBVIOUS
  <1>5. to \in SignedRequest /\ to.at = "verify" /\ to.nonce = n /\ to.what = x /\ to.late = late
    <2> HIDE DEF late
    <2> QED
      BY <1>2, <1>3, <1>4, IdleRequestTyped DEF SignedRequest
  <1> HIDE DEF to
  <1>6. CASE UNCHANGED requests
    BY <1>1, <1>6
  <1>7. CASE requests' = [requests EXCEPT ![r] = to] /\ \E c \in ToSet(challenges') : c.nonce = n /\ c.what = x
    <2>1. RequestStep(r, to)
      BY <1>5, <1>7 DEF RequestStep, Publishing
    <2> QED
      BY <1>1, <1>2, <1>5, <1>7, <2>1
  <1> QED
    BY <1>6, <1>7 DEF Present, to

\* A request goes on from where it was with what it was for, or ends.
Follows(from, to) == to = IdleRequest \/ (to.what = from.what /\ to.nonce = from.nonce /\ to.late = from.late)

LEMMA RequestEnds ==
    ASSUME NEW r \in Request, requests' = [requests EXCEPT ![r] = IdleRequest]
    PROVE  RequestStep(r, IdleRequest) /\ \A from : Follows(from, IdleRequest)
  BY IdleRequestTyped DEF RequestStep, Publishing, Follows

LEMMA RequestTyped ==
    ASSUME SignedTyped, NEW r \in Request, requests[r].at # "idle"
    PROVE  requests[r] \in SignedRequest /\ requests[r].what \in What
  BY DEF SignedTyped

LEMMA AuthorizeMoves ==
    ASSUME SignedTyped, NEW r \in Request, Authorize(r)
    PROVE  /\ requests[r].at = "verify" /\ UNCHANGED <<service, now, issued, fileVars, profileVars>>
           /\ challenges' = SpendChallenge(requests[r].nonce) /\ spent' = spent \cup {requests[r].nonce}
           /\ \E to : RequestStep(r, to) /\ Follows(requests[r], to) /\ to.at \in {"idle", "normalize"}
  <1> DEFINE from == requests[r]
             to == [from EXCEPT !.at = "normalize"]
  <1>1. /\ requests[r].at = "verify" /\ UNCHANGED <<service, now, issued, fileVars, profileVars>>
        /\ challenges' = SpendChallenge(requests[r].nonce) /\ spent' = spent \cup {requests[r].nonce}
    BY DEF Authorize
  <1>2. requests' = [requests EXCEPT ![r] = IdleRequest] \/ requests' = [requests EXCEPT ![r] = to]
    BY DEF Authorize
  <1>3. to \in SignedRequest /\ to.what \in What /\ Follows(from, to) /\ to.at = "normalize"
    <2>1. from \in SignedRequest /\ from.what \in What
      BY <1>1, RequestTyped
    <2> HIDE DEF from
    <2> QED
      BY <2>1 DEF SignedRequest, Follows
  <1>4. CASE requests' = [requests EXCEPT ![r] = IdleRequest]
    BY <1>1, <1>4, RequestEnds, IdleRequestTyped
  <1>5. CASE requests' = [requests EXCEPT ![r] = to]
    <2> HIDE DEF to
    <2>1. RequestStep(r, to) /\ Follows(requests[r], to) /\ to.at = "normalize"
      BY <1>3, <1>5 DEF RequestStep, Publishing
    <2> QED
      BY <1>1, <2>1
  <1> QED
    BY <1>2, <1>4, <1>5

LEMMA NormalizeMoves ==
    ASSUME SignedTyped, NEW r \in Request, Normalize(r)
    PROVE  /\ requests[r].at = "normalize" /\ UNCHANGED <<service, now, serverVars, fileVars, profileVars>>
           /\ \E to : /\ RequestStep(r, to) /\ Follows(requests[r], to) /\ to.what = requests[r].what
                      /\ to.at = (IF service = "metadata" THEN "v3" ELSE "read")
                      /\ to.part = (IF requests[r].what = "pictured" THEN "image" ELSE "metadata")
  <1> DEFINE from == requests[r]
             at == IF service = "metadata" THEN "v3" ELSE "read"
             part == IF from.what = "pictured" THEN "image" ELSE "metadata"
             to == [from EXCEPT !.at = at, !.part = part]
  <1>1. from \in SignedRequest /\ from.what \in What /\ from.at = "normalize"
    BY RequestTyped DEF Normalize
  <1>2. requests' = [requests EXCEPT ![r] = to]
    BY DEF Normalize
  <1>3. at \in {"v3", "read"} /\ (at \in Publishing => service = "metadata") /\ part \in {"image", "metadata"}
    BY DEF Publishing
  <1>4. to \in SignedRequest /\ to.what = from.what /\ Follows(from, to) /\ to.at = at /\ to.part = part
    <2> HIDE DEF from, at, part
    <2> QED
      BY <1>1, <1>3 DEF SignedRequest, Follows
  <1>5. RequestStep(r, to)
    <2> HIDE DEF to, at, part, from
    <2> QED
      BY <1>1, <1>2, <1>3, <1>4 DEF RequestStep
  <1> HIDE DEF to
  <1> QED
    BY <1>1, <1>4, <1>5 DEF Normalize

LEMMA PinMoves ==
    ASSUME SignedTyped, NEW r \in Request, NEW outcome \in {"pinned", "denied", "lost", "failed"}, Pin(r, outcome)
    PROVE  /\ requests[r].at \in {"v3", "legacy"}
           /\ UNCHANGED <<service, now, serverVars, disk, answered, resolved, profileVars>>
           /\ pinned' = (IF outcome \in {"pinned", "lost"} THEN pinned \cup {FileOf(r)} ELSE pinned)
           /\ \E to : /\ RequestStep(r, to) /\ Follows(requests[r], to)
                      /\ \/ to = IdleRequest
                         \/ /\ to.at = (IF outcome = "pinned" THEN "store" ELSE "legacy")
                            /\ to.part = requests[r].part /\ to.what = requests[r].what
  <1> DEFINE from == requests[r]
             at == IF outcome = "pinned" THEN "store" ELSE "legacy"
             to == [from EXCEPT !.at = at]
  <1>1. /\ requests[r].at \in {"v3", "legacy"}
        /\ UNCHANGED <<service, now, serverVars, disk, answered, resolved, profileVars>>
        /\ pinned' = (IF outcome \in {"pinned", "lost"} THEN pinned \cup {FileOf(r)} ELSE pinned)
    BY DEF Pin
  <1>2. service = "metadata" /\ from \in SignedRequest /\ from.what \in What
    BY <1>1, RequestTyped DEF SignedTyped, Publishing
  <1>3. requests' = [requests EXCEPT ![r] = IdleRequest] \/ requests' = [requests EXCEPT ![r] = to]
    <2> DEFINE next == CASE outcome = "pinned" -> "store"
                         [] FallsBack(outcome) /\ requests[r].at = "v3" -> "legacy"
                         [] OTHER -> "idle"
    <2>1. next \in {at, "idle"} /\ at # "idle"
      BY DEF FallsBack
    <2>2. requests' = [requests EXCEPT ![r] = IF next = "idle" THEN IdleRequest ELSE [from EXCEPT !.at = next]]
      BY DEF Pin
    <2> HIDE DEF next, at, from
    <2> QED
      BY <2>1, <2>2
  <1>4. CASE requests' = [requests EXCEPT ![r] = IdleRequest]
    BY <1>1, <1>4, RequestEnds
  <1>5. CASE requests' = [requests EXCEPT ![r] = to]
    <2>1. at \in {"store", "legacy"}
      OBVIOUS
    <2>2. to \in SignedRequest /\ Follows(from, to) /\ to.at = at /\ to.part = from.part /\ to.what = from.what
      <3> HIDE DEF from, at
      <3> QED
        BY <1>2, <2>1 DEF SignedRequest, Follows
    <2>3. RequestStep(r, to)
      <3> HIDE DEF from, at, to
      <3> QED
        BY <1>2, <1>5, <2>2 DEF RequestStep
    <2> HIDE DEF to
    <2> QED
      BY <1>1, <2>2, <2>3
  <1> QED
    BY <1>3, <1>4, <1>5

LEMMA StoreMoves ==
    ASSUME SignedTyped, NEW r \in Request, Store(r)
    PROVE  /\ requests[r].at = "store"
           /\ UNCHANGED <<service, now, serverVars, pinned, disk, answered, resolved, profileVars>>
           /\ \E to : /\ RequestStep(r, to) /\ Follows(requests[r], to) /\ to.at = "rename"
                      /\ to.part = requests[r].part /\ to.what = requests[r].what
  <1> DEFINE from == requests[r]
             to == [from EXCEPT !.at = "rename"]
  <1>1. /\ requests[r].at = "store" /\ requests' = [requests EXCEPT ![r] = to]
        /\ UNCHANGED <<service, now, serverVars, pinned, disk, answered, resolved, profileVars>>
    BY DEF Store, WriteTemporary
  <1>2. service = "metadata" /\ from \in SignedRequest /\ from.what \in What
    BY <1>1, RequestTyped DEF SignedTyped, Publishing
  <1>3. to \in SignedRequest /\ Follows(from, to) /\ to.at = "rename" /\ to.part = from.part /\ to.what = from.what
    <2> HIDE DEF from
    <2> QED
      BY <1>2 DEF SignedRequest, Follows
  <1>4. RequestStep(r, to)
    <2> HIDE DEF from, to
    <2> QED
      BY <1>1, <1>2, <1>3 DEF RequestStep
  <1> HIDE DEF to
  <1> QED
    BY <1>1, <1>3, <1>4

LEMMA RenameMoves ==
    ASSUME SignedTyped, NEW r \in Request, Rename(r)
    PROVE  /\ requests[r].at = "rename"
           /\ UNCHANGED <<service, now, serverVars, pinned, resolved, profileVars>>
           /\ disk' = [disk EXCEPT ![FileOf(r)] = "whole"]
           /\ \E to : /\ RequestStep(r, to) /\ Follows(requests[r], to)
                      /\ \/ /\ requests[r].part = "image" /\ answered' = answered
                            /\ to.at = "v3" /\ to.part = "metadata" /\ to.what = requests[r].what
                         \/ /\ requests[r].part # "image" /\ answered' = answered \cup {requests[r].what}
                            /\ to = IdleRequest
  <1> DEFINE from == requests[r]
             to == [from EXCEPT !.at = "v3", !.part = "metadata"]
  <1>1. /\ requests[r].at = "rename" /\ disk' = [disk EXCEPT ![FileOf(r)] = "whole"]
        /\ UNCHANGED <<service, now, serverVars, pinned, resolved, profileVars>>
    BY DEF Rename
  <1>2. service = "metadata" /\ from \in SignedRequest /\ from.what \in What
    BY <1>1, RequestTyped DEF SignedTyped, Publishing
  <1>3. CASE from.part = "image"
    <2>1. requests' = [requests EXCEPT ![r] = to] /\ answered' = answered
      BY <1>3 DEF Rename, Stored
    <2>2. /\ to \in SignedRequest /\ Follows(from, to) /\ to.at = "v3"
          /\ to.part = "metadata" /\ to.what = from.what
      <3> HIDE DEF from
      <3> QED
        BY <1>2 DEF SignedRequest, Follows
    <2>3. RequestStep(r, to)
      <3> HIDE DEF from, to
      <3> QED
        BY <1>2, <2>1, <2>2 DEF RequestStep
    <2> HIDE DEF to
    <2> QED
      BY <1>1, <1>3, <2>1, <2>2, <2>3
  <1>4. CASE from.part # "image"
    <2>1. requests' = [requests EXCEPT ![r] = IdleRequest] /\ answered' = answered \cup {requests[r].what}
      BY <1>4 DEF Rename, Stored, AfterMetadata
    <2> QED
      BY <1>1, <1>4, <2>1, RequestEnds
  <1> QED
    BY <1>3, <1>4

LEMMA ReadProfileMoves ==
    ASSUME SignedTyped, NEW r \in Request, profile \in Request \cup {NoAvatar}, ReadProfile(r)
    PROVE  /\ requests[r].at = "read"
           /\ UNCHANGED <<service, now, serverVars, fileVars, profile, expected>>
           /\ \E to : /\ RequestStep(r, to) /\ Follows(requests[r], to) /\ to.at = "write"
                      /\ alone' = (alone /\ Writing = {} /\ to.base = profile)
  <1>1. requests[r].at = "read" /\ UNCHANGED <<service, now, serverVars, fileVars, profile, expected>>
    BY DEF ReadProfile
  <1>2. PICK base \in {profile, NoAvatar} :
           /\ requests' = [requests EXCEPT ![r].at = "write", ![r].base = base]
           /\ alone' = (alone /\ Writing = {} /\ base = profile)
    BY DEF ReadProfile
  <1> DEFINE from == requests[r]
             to == [from EXCEPT !.at = "write", !.base = base]
  <1>3. requests' = [requests EXCEPT ![r] = to]
    <2>1. requests \in [Request -> SignedRequest]
      BY DEF SignedTyped
    <2> QED
      BY <1>2, <2>1
  <1>4. from \in SignedRequest /\ from.what \in What
    BY <1>1, RequestTyped
  <1>5. to \in SignedRequest /\ Follows(from, to) /\ to.at = "write" /\ to.base = base /\ to.what = from.what
    <2> HIDE DEF from
    <2> QED
      BY <1>4 DEF SignedRequest, Follows
  <1>6. RequestStep(r, to)
    <2> HIDE DEF from, to
    <2> QED
      BY <1>3, <1>4, <1>5 DEF RequestStep, Publishing
  <1> HIDE DEF to
  <1> QED
    BY <1>1, <1>2, <1>5, <1>6

\* The steps that leave the requests alone, or end one or all of them.
Quiet ==
    \/ Tick \/ Media \/ UNCHANGED signedVars
    \/ \E x \in What : CreateChallenge(x)
    \/ \E x \in {"pictured", "plain"} : Resolve(x)

LEMMA QuietSteps ==
    ASSUME SignedTyped, Quiet
    PROVE  /\ UNCHANGED <<service, requests, spent, pinned, answered, profileVars>>
           /\ now' \in Nat /\ issued' \in Seq(Nat) /\ Len(issued') \in Nat /\ Len(issued) <= Len(issued')
           /\ disk' = disk \/ \E f \in pinned : disk' = [disk EXCEPT ![f] = "whole"]
  <1>0. now \in Nat /\ issued \in Seq(Nat)
    BY DEF SignedTyped
  <1>1. CASE Tick
    BY <1>0, <1>1 DEF Tick, serverVars, fileVars
  <1>2. CASE Media
    <2>1. UNCHANGED <<service, now, issued, requests, spent, pinned, answered, profileVars>>
      BY <1>2 DEF Media, serverVars
    <2>2. PICK f \in pinned : disk' = [disk EXCEPT ![f] = "whole"]
      BY <1>2 DEF Media
    <2>3. \E g \in pinned : disk' = [disk EXCEPT ![g] = "whole"]
      BY <2>2, Zenon
    <2>4. now' \in Nat /\ issued' \in Seq(Nat) /\ Len(issued') \in Nat /\ Len(issued) <= Len(issued')
      BY <1>0, <2>1
    <2> QED
      BY <2>1, <2>3, <2>4, Zenon
  <1>3. CASE UNCHANGED signedVars
    BY <1>0, <1>3 DEF signedVars, serverVars, fileVars
  <1>4. ASSUME NEW x \in What, CreateChallenge(x)
        PROVE  /\ UNCHANGED <<service, now, requests, spent, pinned, answered, disk, profileVars>>
               /\ issued' \in {issued, Append(issued, now + Lifetime)}
    BY <1>4 DEF CreateChallenge, fileVars
  <1>5. now + Lifetime \in Nat
    BY <1>0, SignedAssumption
  <1>6. Append(issued, now + Lifetime) \in Seq(Nat) /\ Len(Append(issued, now + Lifetime)) = Len(issued) + 1
        /\ Len(issued) \in Nat
    BY <1>0, <1>5
  <1>7. ASSUME NEW x \in {"pictured", "plain"}, Resolve(x)
        PROVE  UNCHANGED <<service, now, issued, requests, spent, pinned, answered, disk, profileVars>>
    BY <1>7 DEF Resolve, serverVars
  <1>8. CASE \E x \in What : CreateChallenge(x)
    BY <1>0, <1>4, <1>6, <1>8
  <1>9. CASE \E x \in {"pictured", "plain"} : Resolve(x)
    BY <1>0, <1>6, <1>7, <1>9
  <1> QED
    BY <1>1, <1>2, <1>3, <1>8, <1>9 DEF Quiet

Ending(r) == Reject(r) \/ StoreFails(r) \/ \E saved \in BOOLEAN : WriteProfile(r, saved)

LEMMA SignedStep ==
    ASSUME SignedTyped, profile \in Request \cup {NoAvatar}, [SignedNext]_signedVars
    PROVE  SignedTyped'
  <1>1. CASE Quiet
    <2>1. What' = What
      BY <1>1, QuietSteps DEF What
    <2> QED
      BY <1>1, <2>1, QuietSteps DEF SignedTyped
  <1>2. ASSUME NEW r \in Request, NEW to, RequestStep(r, to), UNCHANGED <<service, now, issued>>
        PROVE  SignedTyped'
    BY <1>2, RequestMoves DEF RequestStep
  <1>3. CASE Restart
    <2>1. requests' = [r \in Request |-> IdleRequest] /\ UNCHANGED <<service, now, issued>>
      BY <1>3 DEF Restart
    <2> QED
      BY <2>1, IdleRequestTyped DEF SignedTyped, Publishing
  <1>4. ASSUME NEW r \in Request, NEW n \in DOMAIN issued, NEW x \in What, Present(r, n, x)
        PROVE  SignedTyped'
    <2>1. CASE UNCHANGED requests
      <3>1. UNCHANGED <<service, now, issued>> /\ What' = What
        BY <1>4, PresentMoves DEF What
      <3> QED
        BY <2>1, <3>1 DEF SignedTyped
    <2>2. CASE \E to : RequestStep(r, to)
      BY <1>2, <1>4, <2>2, PresentMoves
    <2> QED
      BY <1>4, <2>1, <2>2, PresentMoves
  <1>5. ASSUME NEW r \in Request, Ending(r)
        PROVE  SignedTyped'
    <2>1. requests' = [requests EXCEPT ![r] = IdleRequest] /\ UNCHANGED <<service, now, issued>>
      BY <1>5 DEF Ending, Reject, StoreFails, Answers503, WriteProfile, serverVars
    <2> QED
      BY <1>2, <2>1, RequestEnds
  <1>6. ASSUME NEW r \in Request, Authorize(r) PROVE SignedTyped'
    BY <1>2, <1>6, AuthorizeMoves
  <1>7. ASSUME NEW r \in Request, Normalize(r) PROVE SignedTyped'
    BY <1>2, <1>7, NormalizeMoves DEF serverVars
  <1>8. ASSUME NEW r \in Request, NEW outcome \in {"pinned", "denied", "lost", "failed"}, Pin(r, outcome)
        PROVE  SignedTyped'
    BY <1>2, <1>8, PinMoves DEF serverVars
  <1>9. ASSUME NEW r \in Request, Store(r) \/ Rename(r) \/ ReadProfile(r)
        PROVE  SignedTyped'
    BY <1>2, <1>9, StoreMoves, RenameMoves, ReadProfileMoves DEF serverVars
  <1> QED
    BY <1>1, <1>3, <1>4, <1>5, <1>6, <1>7, <1>8, <1>9 DEF SignedNext, Quiet, Ending

\* The avatar.
AvatarInv ==
    /\ profile \in Request \cup {NoAvatar} /\ alone \in BOOLEAN
    /\ \A r \in Request : requests[r].at \in {"read", "write"} => service = "profile"
    /\ AvatarKept
    /\ alone => \A r, s \in Writing : r = s /\ requests[r].base = profile

LEMMA AvatarStarts == SignedInit => AvatarInv
  BY IdleRequestTyped DEF SignedInit, AvatarInv, AvatarKept, Writing

\* A step that begins no write changes nothing of it.
LEMMA AvatarUntouched ==
    ASSUME AvatarInv, UNCHANGED <<service, profile, expected>>, alone' \in BOOLEAN, alone' => alone,
           \A s \in Request : \/ requests'[s] = requests[s]
                              \/ requests'[s].at # "write" /\ (requests'[s].at = "read" => service = "profile")
    PROVE  AvatarInv'
  <1>1. \A s \in Writing' : s \in Writing /\ requests'[s].base = requests[s].base
    BY DEF Writing
  <1>2. alone' => \A r, s \in Writing' : r = s /\ requests'[r].base = profile'
    BY <1>1 DEF AvatarInv
  <1>3. \A r \in Request : requests'[r].at \in {"read", "write"} => service' = "profile"
    BY DEF AvatarInv
  <1>4. profile' \in Request \cup {NoAvatar} /\ AvatarKept'
    BY DEF AvatarInv, AvatarKept
  <1> QED
    BY <1>2, <1>3, <1>4 DEF AvatarInv

LEMMA AvatarRequestMoves ==
    ASSUME SignedTyped, AvatarInv, NEW r \in Request, NEW to, RequestStep(r, to),
           to.at # "write", to.at = "read" => service = "profile",
           UNCHANGED <<service, profileVars>>
    PROVE  AvatarInv'
  <1>1. \A s \in Request : requests'[s] = requests[s] \/ requests'[s] = to
    BY DEF SignedTyped, RequestStep
  <1>2. UNCHANGED <<profile, expected, alone>>
    BY DEF profileVars
  <1>3. alone' \in BOOLEAN /\ (alone' => alone)
    BY <1>2 DEF AvatarInv
  <1> QED
    BY <1>1, <1>2, <1>3, AvatarUntouched

LEMMA AvatarRead ==
    ASSUME SignedTyped, AvatarInv, NEW r \in Request, ReadProfile(r)
    PROVE  AvatarInv'
  <1>1. /\ requests[r].at = "read"
        /\ UNCHANGED <<service, now, serverVars, fileVars, profile, expected>>
    BY ReadProfileMoves DEF AvatarInv
  <1>2. PICK to : /\ RequestStep(r, to) /\ Follows(requests[r], to) /\ to.at = "write"
                  /\ alone' = (alone /\ Writing = {} /\ to.base = profile)
    BY ReadProfileMoves DEF AvatarInv
  <1>3. requests'[r] = to /\ \A s \in Request : s # r => requests'[s] = requests[s]
    BY <1>2 DEF SignedTyped, RequestStep
  <1>4. alone' => \A t, s \in Writing' : t = s /\ requests'[t].base = profile'
    <2> SUFFICES ASSUME alone' PROVE \A t, s \in Writing' : t = s /\ requests'[t].base = profile'
      OBVIOUS
    <2>1. alone /\ Writing = {} /\ to.base = profile
      BY <1>2
    <2>2. \A t \in Writing' : t = r
      BY <1>3, <2>1 DEF Writing
    <2> QED
      BY <1>1, <1>3, <2>1, <2>2
  <1>5. \A s \in Request : requests'[s].at \in {"read", "write"} => service' = "profile"
    BY <1>1, <1>3 DEF AvatarInv
  <1>6. profile' \in Request \cup {NoAvatar} /\ alone' \in BOOLEAN
    BY <1>1, <1>2 DEF AvatarInv
  <1>7. AvatarKept'
    BY <1>1, <1>2 DEF AvatarInv, AvatarKept
  <1> QED
    BY <1>4, <1>5, <1>6, <1>7 DEF AvatarInv

LEMMA AvatarWritten ==
    ASSUME SignedTyped, AvatarInv, NEW r \in Request, NEW saved \in BOOLEAN, WriteProfile(r, saved)
    PROVE  AvatarInv'
  <1> DEFINE what == requests[r].what
             base == requests[r].base
             written == Asked(r, what, base)
  <1>1. /\ requests[r].at = "write" /\ service' = service
        /\ profile' \in {written} \cup (IF saved THEN {} ELSE {profile})
        /\ expected' = (IF saved THEN Asked(r, what, expected) ELSE expected)
        /\ requests' = [requests EXCEPT ![r] = IdleRequest]
    BY DEF WriteProfile, Avatar
  <1>2. alone' = (alone /\ saved)
    BY DEF WriteProfile
  <1>3. service = "profile" /\ what \in {"new", "keep", "remove"} /\ base \in Request \cup {NoAvatar}
    BY <1>1, RequestTyped DEF AvatarInv, What, SignedRequest
  <1>4. profile' \in Request \cup {NoAvatar}
    <2>1. written \in Request \cup {NoAvatar}
      BY <1>3 DEF Asked
    <2> HIDE DEF written
    <2> QED
      BY <1>1, <2>1 DEF AvatarInv
  <1>5. alone' \in BOOLEAN
    BY <1>2 DEF AvatarInv
  <1>6. requests'[r] = IdleRequest /\ \A s \in Request : s # r => requests'[s] = requests[s]
    BY <1>1, RequestEnds DEF RequestStep, SignedTyped
  <1>7. \A s \in Writing' : s \in Writing /\ s # r
    BY <1>6, IdleRequestTyped DEF Writing
  <1>8. alone' => alone /\ saved
    BY <1>2
  <1>9. alone' => \A t, s \in Writing' : t = s /\ requests'[t].base = profile'
    <2>1. alone => Writing = {r}
      BY <1>1 DEF AvatarInv, Writing
    <2> QED
      BY <1>7, <1>8, <2>1
  <1>10. AvatarKept'
    <2> SUFFICES ASSUME alone' PROVE profile' = expected'
      BY DEF AvatarKept
    <2>1. base = profile /\ profile = expected
      BY <1>1, <1>8 DEF AvatarInv, AvatarKept, Writing
    <2> HIDE DEF what, base
    <2> QED
      BY <1>1, <1>8, <2>1
  <1>11. \A s \in Request : requests'[s].at \in {"read", "write"} => service' = "profile"
    BY <1>1, <1>6, IdleRequestTyped DEF AvatarInv
  <1> QED
    BY <1>4, <1>5, <1>9, <1>10, <1>11 DEF AvatarInv

LEMMA AvatarMoves == ASSUME SignedTyped, AvatarInv, [SignedNext]_signedVars PROVE AvatarInv'
  <1>1. CASE Quiet
    <2>1. UNCHANGED <<service, requests, profileVars>>
      BY <1>1, QuietSteps
    <2>2. alone' \in BOOLEAN /\ (alone' => alone)
      BY <2>1 DEF profileVars, AvatarInv
    <2> QED
      BY <2>1, <2>2, AvatarUntouched DEF profileVars
  <1>2. CASE Restart
    <2>1. UNCHANGED <<service, profile, expected>> /\ alone' = (alone /\ Writing = {})
          /\ \A s \in Request : requests'[s] = IdleRequest
      BY <1>2 DEF Restart
    <2>2. alone' \in BOOLEAN /\ (alone' => alone)
      BY <2>1 DEF AvatarInv
    <2> QED
      BY <2>1, <2>2, IdleRequestTyped, AvatarUntouched
  <1>3. ASSUME NEW r \in Request, NEW n \in DOMAIN issued, NEW x \in What, Present(r, n, x)
        PROVE  AvatarInv'
    <2>1. UNCHANGED <<service, profileVars>>
      BY <1>3, PresentMoves
    <2>2. CASE UNCHANGED requests
      <3>1. alone' \in BOOLEAN /\ (alone' => alone)
        BY <2>1 DEF profileVars, AvatarInv
      <3> QED
        BY <2>1, <2>2, <3>1, AvatarUntouched DEF profileVars
    <2>3. CASE \E to : RequestStep(r, to) /\ to.at = "verify"
      BY <2>1, <2>3, AvatarRequestMoves
    <2> QED
      BY <1>3, <2>2, <2>3, PresentMoves
  <1>4. ASSUME NEW r \in Request, Reject(r) \/ StoreFails(r)
        PROVE  AvatarInv'
    <2>1. requests' = [requests EXCEPT ![r] = IdleRequest] /\ UNCHANGED <<service, profileVars>>
      BY <1>4 DEF Reject, StoreFails, Answers503
    <2> QED
      BY <2>1, RequestEnds, IdleRequestTyped, AvatarRequestMoves
  <1>5. ASSUME NEW r \in Request, Authorize(r) PROVE AvatarInv'
    <2>1. UNCHANGED <<service, profileVars>>
      BY <1>5, AuthorizeMoves
    <2>2. PICK to : RequestStep(r, to) /\ to.at \in {"idle", "normalize"}
      BY <1>5, AuthorizeMoves
    <2> QED
      BY <2>1, <2>2, AvatarRequestMoves
  <1>6. ASSUME NEW r \in Request, Normalize(r) PROVE AvatarInv'
    <2>1. UNCHANGED <<service, profileVars>>
      BY <1>6, NormalizeMoves
    <2>2. PICK to : RequestStep(r, to) /\ to.at = (IF service = "metadata" THEN "v3" ELSE "read")
      BY <1>6, NormalizeMoves
    <2>3. to.at # "write" /\ (to.at = "read" => service = "profile")
      BY <2>2 DEF SignedTyped
    <2> QED
      BY <2>1, <2>2, <2>3, AvatarRequestMoves
  <1>7. ASSUME NEW r \in Request, NEW outcome \in {"pinned", "denied", "lost", "failed"}, Pin(r, outcome)
        PROVE  AvatarInv'
    <2>1. UNCHANGED <<service, profileVars>>
      BY <1>7, PinMoves
    <2>2. PICK to : RequestStep(r, to) /\ (to = IdleRequest \/ to.at \in {"store", "legacy"})
      BY <1>7, PinMoves
    <2> QED
      BY <2>1, <2>2, IdleRequestTyped, AvatarRequestMoves
  <1>8. ASSUME NEW r \in Request, Store(r) PROVE AvatarInv'
    BY <1>8, StoreMoves, AvatarRequestMoves
  <1>9. ASSUME NEW r \in Request, Rename(r) PROVE AvatarInv'
    <2>1. UNCHANGED <<service, profileVars>>
      BY <1>9, RenameMoves
    <2>2. PICK to : RequestStep(r, to) /\ (to = IdleRequest \/ to.at = "v3")
      BY <1>9, RenameMoves
    <2> QED
      BY <2>1, <2>2, IdleRequestTyped, AvatarRequestMoves
  <1> QED
    BY <1>1, <1>2, <1>3, <1>4, <1>5, <1>6, <1>7, <1>8, <1>9, AvatarRead, AvatarWritten DEF SignedNext, Quiet

\* As long as profile updates do not overlap and Redis answers, the avatar saved is
\* the one the saved updates asked for: an update of the name alone keeps it.
THEOREM AvatarKeptAlways == SignedSpec => []AvatarKept
  <1> DEFINE Inv == SignedTyped /\ AvatarInv
  <1>1. SignedInit => Inv
    BY SignedStart, AvatarStarts
  <1>2. Inv /\ [SignedNext]_signedVars => Inv'
    BY SignedStep, AvatarMoves DEF AvatarInv
  <1>3. Inv => AvatarKept
    BY DEF AvatarInv
  <1> QED
    BY <1>1, <1>2, <1>3, PTL DEF SignedSpec

\* The files: what is pinned and whole stays so, and a request that publishes goes
\* on to the metadata only when its image is.

Kept(f, pins, local) == f \in pins /\ local[f] = "whole"
Picture == <<"image", "pictured">>
Ready(q, pins, local) ==
    /\ q.what \in {"pictured", "plain"}
    /\ q.part = "image" => q.what = "pictured"
    /\ q.part = "metadata" /\ q.what = "pictured" => Kept(Picture, pins, local)
    /\ q.at \in {"store", "rename"} => <<q.part, q.what>> \in pins

PublishInv ==
    /\ pinned \subseteq File /\ disk \in [File -> {"absent", "whole"}]
    /\ \A x \in answered, f \in File : f[2] = x => Kept(f, pinned, disk)
    /\ \A r \in Request : requests[r].at \in Publishing => Ready(requests[r], pinned, disk)

LEMMA PublishStarts == SignedInit => PublishInv
  BY IdleRequestTyped DEF SignedInit, PublishInv, File, Publishing

\* Files are added, and a request gets ready to publish, ends, or stays.
LEMMA PublishGoesOn ==
    ASSUME PublishInv, pinned \subseteq pinned', pinned' \subseteq File,
           disk' \in [File -> {"absent", "whole"}],
           \A f \in File : disk[f] = "whole" => disk'[f] = "whole",
           \A x \in answered', f \in File : x \in answered \/ (f[2] = x => Kept(f, pinned', disk')),
           \A s \in Request : \/ requests'[s] = requests[s]
                              \/ requests'[s].at \notin Publishing
                              \/ Ready(requests'[s], pinned', disk')
    PROVE  PublishInv'
  <1>1. Picture \in File
    BY DEF Picture, File
  <1>2. \A f \in File : Kept(f, pinned, disk) => Kept(f, pinned', disk')
    BY DEF Kept
  <1>3. ASSUME NEW q, Ready(q, pinned, disk) PROVE Ready(q, pinned', disk')
    BY <1>1, <1>2, <1>3 DEF Ready
  <1>4. \A s \in Request : requests'[s].at \in Publishing => Ready(requests'[s], pinned', disk')
    BY <1>3 DEF PublishInv
  <1>5. \A x \in answered', f \in File : f[2] = x => Kept(f, pinned', disk')
    BY <1>2 DEF PublishInv
  <1> QED
    BY <1>4, <1>5 DEF PublishInv

LEMMA PublishRequestMoves ==
    ASSUME SignedTyped, PublishInv, NEW r \in Request, NEW to, RequestStep(r, to),
           to.at \notin Publishing \/ Ready(to, pinned', disk), pinned \subseteq pinned', pinned' \subseteq File,
           UNCHANGED <<disk, answered>>
    PROVE  PublishInv'
  <1>1. \A s \in Request : requests'[s] = requests[s] \/ requests'[s] = to
    BY DEF SignedTyped, RequestStep
  <1>2. disk' \in [File -> {"absent", "whole"}] /\ \A f \in File : disk[f] = "whole" => disk'[f] = "whole"
    BY DEF PublishInv
  <1>3. disk' = disk /\ answered' = answered
    OBVIOUS
  <1> QED
    BY <1>1, <1>2, <1>3, PublishGoesOn

\* Which file a publishing request is about.
LEMMA PublishedFile ==
    ASSUME SignedTyped, PublishInv, NEW r \in Request, requests[r].at \in Publishing
    PROVE  /\ FileOf(r) \in File /\ Ready(requests[r], pinned, disk)
           /\ requests[r].part \in {"image", "metadata"}
           /\ requests[r].at \in {"store", "rename"} => FileOf(r) \in pinned
  <1>1. Ready(requests[r], pinned, disk)
    BY DEF PublishInv
  <1>2. requests[r].part \in {"image", "metadata"}
    BY DEF SignedTyped, SignedRequest
  <1>3. FileOf(r) \in File
    BY <1>1, <1>2 DEF Ready, FileOf, File
  <1> QED
    BY <1>1, <1>2, <1>3 DEF Ready, FileOf

LEMMA PublishPins ==
    ASSUME SignedTyped, PublishInv, NEW r \in Request,
           NEW outcome \in {"pinned", "denied", "lost", "failed"}, Pin(r, outcome)
    PROVE  PublishInv'
  <1>1. /\ requests[r].at \in {"v3", "legacy"} /\ UNCHANGED <<disk, answered>>
        /\ pinned' = (IF outcome \in {"pinned", "lost"} THEN pinned \cup {FileOf(r)} ELSE pinned)
    BY PinMoves
  <1>2. PICK to : /\ RequestStep(r, to)
                  /\ \/ to = IdleRequest
                     \/ /\ to.at = (IF outcome = "pinned" THEN "store" ELSE "legacy")
                        /\ to.part = requests[r].part /\ to.what = requests[r].what
    BY PinMoves
  <1>3. requests[r].at \in Publishing
    BY <1>1 DEF Publishing
  <1>4. FileOf(r) \in File /\ Ready(requests[r], pinned, disk)
    BY <1>3, PublishedFile
  <1>5. pinned \subseteq pinned' /\ pinned' \subseteq File
    BY <1>1, <1>4 DEF PublishInv
  <1>6. to.at \notin Publishing \/ Ready(to, pinned', disk)
    <2>1. CASE to = IdleRequest
      BY <2>1, IdleRequestTyped DEF Publishing
    <2>2. CASE /\ to.at = (IF outcome = "pinned" THEN "store" ELSE "legacy")
               /\ to.part = requests[r].part /\ to.what = requests[r].what
      <3>1. to.at \in {"store", "rename"} => <<to.part, to.what>> \in pinned'
        BY <1>1, <2>2 DEF FileOf
      <3> QED
        BY <1>4, <1>5, <2>2, <3>1 DEF Ready, Kept
    <2> QED
      BY <1>2, <2>1, <2>2
  <1> QED
    BY <1>1, <1>2, <1>5, <1>6, PublishRequestMoves

LEMMA PublishRenames ==
    ASSUME SignedTyped, PublishInv, NEW r \in Request, Rename(r)
    PROVE  PublishInv'
  <1>1. /\ requests[r].at = "rename" /\ pinned' = pinned
        /\ disk' = [disk EXCEPT ![FileOf(r)] = "whole"]
    BY RenameMoves
  <1>2. PICK to : /\ RequestStep(r, to)
                  /\ \/ /\ requests[r].part = "image" /\ answered' = answered
                        /\ to.at = "v3" /\ to.part = "metadata" /\ to.what = requests[r].what
                     \/ /\ requests[r].part # "image" /\ answered' = answered \cup {requests[r].what}
                        /\ to = IdleRequest
    BY RenameMoves
  <1>3. requests[r].at \in Publishing
    BY <1>1 DEF Publishing
  <1>4. /\ FileOf(r) \in File /\ Ready(requests[r], pinned, disk) /\ FileOf(r) \in pinned
        /\ requests[r].part \in {"image", "metadata"}
    BY <1>1, <1>3, PublishedFile
  <1>5. disk' \in [File -> {"absent", "whole"}] /\ Kept(FileOf(r), pinned', disk')
        /\ \A f \in File : disk[f] = "whole" => disk'[f] = "whole"
    BY <1>1, <1>4 DEF PublishInv, Kept
  <1>6. \A x \in answered', f \in File : x \in answered \/ (f[2] = x => Kept(f, pinned', disk'))
    <2>1. CASE requests[r].part = "image"
      BY <1>2, <2>1
    <2>2. CASE requests[r].part = "metadata"
      <3> SUFFICES ASSUME NEW f \in File, f[2] = requests[r].what PROVE Kept(f, pinned', disk')
        BY <1>2, <2>2
      <3>1. f = FileOf(r) \/ (f = Picture /\ requests[r].what = "pictured")
        BY <2>2 DEF File, FileOf, Picture
      <3>2. Picture \in File
        BY DEF File, Picture
      <3>3. requests[r].what = "pictured" => Kept(Picture, pinned, disk)
        BY <1>4, <2>2 DEF Ready
      <3> QED
        BY <1>1, <1>5, <3>1, <3>2, <3>3 DEF Kept
    <2> QED
      BY <1>4, <2>1, <2>2
  <1>7. to.at \notin Publishing \/ Ready(to, pinned', disk')
    <2>1. CASE to = IdleRequest
      BY <2>1, IdleRequestTyped DEF Publishing
    <2>2. CASE /\ requests[r].part = "image"
               /\ to.at = "v3" /\ to.part = "metadata" /\ to.what = requests[r].what
      <3>1. to.what = "pictured" /\ FileOf(r) = Picture
        BY <1>4, <2>2 DEF Ready, FileOf, Picture
      <3> QED
        BY <1>5, <2>2, <3>1 DEF Ready
    <2> QED
      BY <1>2, <2>1, <2>2
  <1>8. \A s \in Request : requests'[s] = requests[s] \/ requests'[s] = to
    BY <1>2 DEF SignedTyped, RequestStep
  <1>9. pinned \subseteq pinned' /\ pinned' \subseteq File
    BY <1>1 DEF PublishInv
  <1> QED
    BY <1>5, <1>6, <1>7, <1>8, <1>9, PublishGoesOn

LEMMA PublishMoves ==
    ASSUME SignedTyped, PublishInv, profile \in Request \cup {NoAvatar}, [SignedNext]_signedVars
    PROVE  PublishInv'
  <1>1. CASE Quiet \/ Restart
    <2>1. \A s \in Request : requests'[s] = requests[s] \/ requests'[s] = IdleRequest
      BY <1>1, QuietSteps DEF Restart
    <2>2. pinned' = pinned /\ answered' = answered
      BY <1>1, QuietSteps DEF Restart
    <2>3. disk' = disk \/ \E f \in pinned : disk' = [disk EXCEPT ![f] = "whole"]
      <3>1. CASE Quiet
        BY <3>1, QuietSteps, Zenon
      <3> QED
        BY <1>1, <3>1 DEF Restart
    <2>4. disk' \in [File -> {"absent", "whole"}] /\ \A f \in File : disk[f] = "whole" => disk'[f] = "whole"
      BY <2>3 DEF PublishInv
    <2>5. pinned \subseteq pinned' /\ pinned' \subseteq File
      BY <2>2 DEF PublishInv
    <2> QED
      BY <2>1, <2>2, <2>4, <2>5, IdleRequestTyped, PublishGoesOn DEF Publishing
  <1>2. ASSUME NEW r \in Request, NEW to, RequestStep(r, to), UNCHANGED <<pinned, disk, answered>>,
               to.at \notin Publishing \/ Ready(to, pinned, disk)
        PROVE  PublishInv'
    BY <1>2, PublishRequestMoves DEF PublishInv
  <1>3. ASSUME NEW r \in Request, NEW n \in DOMAIN issued, NEW x \in What, Present(r, n, x)
        PROVE  PublishInv'
    <2>1. UNCHANGED <<pinned, disk, answered>>
      BY <1>3, PresentMoves DEF fileVars
    <2>2. CASE UNCHANGED requests
      <3>1. disk' \in [File -> {"absent", "whole"}] /\ pinned' \subseteq File
            /\ \A f \in File : disk[f] = "whole" => disk'[f] = "whole"
        BY <2>1 DEF PublishInv
      <3> QED
        BY <2>1, <2>2, <3>1, PublishGoesOn
    <2>3. CASE \E to : RequestStep(r, to) /\ to.at = "verify"
      BY <1>2, <2>1, <2>3 DEF Publishing
    <2> QED
      BY <1>3, <2>2, <2>3, PresentMoves
  <1>4. ASSUME NEW r \in Request, Ending(r)
        PROVE  PublishInv'
    <2>1. requests' = [requests EXCEPT ![r] = IdleRequest] /\ UNCHANGED <<pinned, disk, answered>>
      BY <1>4 DEF Ending, Reject, StoreFails, Answers503, WriteProfile, fileVars
    <2> QED
      BY <1>2, <2>1, RequestEnds, IdleRequestTyped DEF Publishing
  <1>5. ASSUME NEW r \in Request, Authorize(r) PROVE PublishInv'
    <2>1. UNCHANGED <<pinned, disk, answered>>
      BY <1>5, AuthorizeMoves DEF fileVars
    <2>2. PICK to : RequestStep(r, to) /\ to.at \in {"idle", "normalize"}
      BY <1>5, AuthorizeMoves
    <2> QED
      BY <1>2, <2>1, <2>2 DEF Publishing
  <1>6. ASSUME NEW r \in Request, Normalize(r) PROVE PublishInv'
    <2>1. UNCHANGED <<pinned, disk, answered>> /\ requests[r].at = "normalize"
      BY <1>6, NormalizeMoves DEF fileVars
    <2>2. PICK to : /\ RequestStep(r, to) /\ to.what = requests[r].what
                    /\ to.at = (IF service = "metadata" THEN "v3" ELSE "read")
                    /\ to.part = (IF requests[r].what = "pictured" THEN "image" ELSE "metadata")
      BY <1>6, NormalizeMoves
    <2>3. CASE service = "metadata"
      <3>1. to.what \in {"pictured", "plain"}
        BY <2>1, <2>2, <2>3, RequestTyped DEF What
      <3> QED
        BY <1>2, <2>1, <2>2, <2>3, <3>1 DEF Ready
    <2>4. CASE service # "metadata"
      BY <1>2, <2>1, <2>2, <2>4 DEF Publishing
    <2> QED
      BY <2>3, <2>4
  <1>7. ASSUME NEW r \in Request, Store(r) PROVE PublishInv'
    <2>1. UNCHANGED <<pinned, disk, answered>> /\ requests[r].at = "store"
      BY <1>7, StoreMoves
    <2>2. PICK to : RequestStep(r, to) /\ to.at = "rename" /\ to.part = requests[r].part /\ to.what = requests[r].what
      BY <1>7, StoreMoves
    <2>3. Ready(requests[r], pinned, disk)
      BY <2>1, PublishedFile DEF Publishing
    <2>4. Ready(to, pinned, disk)
      BY <2>1, <2>2, <2>3 DEF Ready
    <2> QED
      BY <1>2, <2>1, <2>2, <2>4
  <1>8. ASSUME NEW r \in Request, ReadProfile(r) PROVE PublishInv'
    <2>1. UNCHANGED <<pinned, disk, answered>>
      BY <1>8, ReadProfileMoves DEF fileVars
    <2>2. PICK to : RequestStep(r, to) /\ to.at = "write"
      BY <1>8, ReadProfileMoves
    <2> QED
      BY <1>2, <2>1, <2>2 DEF Publishing
  <1> QED
    BY <1>1, <1>3, <1>4, <1>5, <1>6, <1>7, <1>8, PublishPins, PublishRenames DEF SignedNext, Quiet, Ending

\* Once a metadata URI was answered, the metadata and the image it names are on IPFS
\* and in the local stores, whole, whatever failed, was lost or was retried.
THEOREM PublishedIsServed == SignedSpec => []PublishedIsServable
  <1> DEFINE Inv == SignedTyped /\ AvatarInv /\ PublishInv
  <1>1. SignedInit => Inv
    BY SignedStart, AvatarStarts, PublishStarts
  <1>2. Inv /\ [SignedNext]_signedVars => Inv'
    BY SignedStep, AvatarMoves, PublishMoves DEF AvatarInv
  <1>3. Inv => PublishedIsServable
    BY DEF PublishInv, PublishedIsServable, Kept
  <1> QED
    BY <1>1, <1>2, <1>3, PTL DEF SignedSpec

\* The challenges: those kept were issued and authorized nothing yet.

Open(count, used) ==
    {c \in [nonce : Nat, what : AnyWhat, expires : Nat] : c.nonce \in 1 .. count /\ c.nonce \notin used}
ChallengesInv ==
    /\ spent \subseteq 1 .. Len(issued)
    /\ challenges \in Seq(Open(Len(issued), spent))
    /\ \A r \in Request : ~requests[r].late
    /\ \A r \in Request : requests[r].at # "idle" => requests[r].nonce \in 1 .. Len(issued)

LEMMA ChallengesStart == SignedInit => ChallengesInv
  <1> SUFFICES ASSUME SignedInit PROVE ChallengesInv
    OBVIOUS
  <1>1. challenges = <<>> /\ spent = {} /\ \A r \in Request : requests[r] = IdleRequest
    BY DEF SignedInit
  <1>2. challenges \in Seq(Open(Len(issued), spent))
    BY <1>1
  <1>3. ~IdleRequest.late
    BY DEF IdleRequest
  <1> QED
    BY <1>1, <1>2, <1>3, IdleRequestTyped DEF ChallengesInv

LEMMA CleanupKeeps == ASSUME NEW X, NEW list \in Seq(X) PROVE Cleanup(list) \in Seq(X)
  <1> DEFINE S == {c \in ToSet(list) : c.expires > now}
             live == Filtered(list, S)
  <1>1. live \in Seq(X \cap S)
    BY FilteredEntries
  <1>2. live \in Seq(X)
    BY <1>1, SeqMonotonic
  <1>3. Cleanup(list) = IF Len(live) > Capacity THEN Tail(live) ELSE live
    BY DEF Cleanup
  <1> HIDE DEF live
  <1> QED
    BY <1>2, <1>3, SignedAssumption

LEMMA SpendKeeps ==
    ASSUME SignedTyped, ChallengesInv, NEW n \in 1 .. Len(issued)
    PROVE  SpendChallenge(n) \in Seq(Open(Len(issued), spent \cup {n}))
  <1> DEFINE S == {c \in ToSet(challenges) : c.nonce # n}
             X == Open(Len(issued), spent)
  <1>1. Filtered(challenges, S) \in Seq(X \cap S)
    BY FilteredEntries DEF ChallengesInv
  <1>2. X \cap S \subseteq Open(Len(issued), spent \cup {n})
    BY DEF Open
  <1>3. SpendChallenge(n) = Filtered(challenges, S)
    BY DEF SpendChallenge
  <1> HIDE DEF X, S
  <1> QED
    BY <1>1, <1>2, <1>3, SeqMonotonic

LEMMA CreateKeeps ==
    ASSUME SignedTyped, ChallengesInv, NEW x \in What, CreateChallenge(x)
    PROVE  ChallengesInv'
  <1> DEFINE k == Len(issued)
             cs == Cleanup(challenges)
             new == [nonce |-> k + 1, what |-> x, expires |-> now + Lifetime]
  <1>1. UNCHANGED <<spent, requests>>
    BY DEF CreateChallenge
  <1>2. k \in Nat /\ now + Lifetime \in Nat /\ x \in AnyWhat /\ issued \in Seq(Nat)
    BY SignedAssumption DEF SignedTyped, What, AnyWhat
  <1>3. cs \in Seq(Open(k, spent))
    BY CleanupKeeps DEF ChallengesInv
  <1>4. CASE issued' = issued /\ challenges' \in {challenges, cs}
    BY <1>1, <1>3, <1>4 DEF ChallengesInv
  <1>5. CASE issued' = Append(issued, now + Lifetime)
             /\ challenges' = Append(cs, [nonce |-> Len(issued'), what |-> x, expires |-> now + Lifetime])
    <2>1. Len(issued') = k + 1
      BY <1>2, <1>5
    <2>2. challenges' = Append(cs, new)
      BY <1>5, <2>1
    <2>3. new \in Open(k + 1, spent)
      BY <1>2 DEF Open, ChallengesInv
    <2>4. Open(k, spent) \subseteq Open(k + 1, spent)
      BY <1>2 DEF Open
    <2>5. cs \in Seq(Open(k + 1, spent))
      BY <1>3, <2>4, SeqMonotonic
    <2>6. Append(cs, new) \in Seq(Open(k + 1, spent))
      <3> HIDE DEF new, cs, k
      <3> QED
        BY <2>3, <2>5
    <2>7. 1 .. k \subseteq 1 .. k + 1
      BY <1>2
    <2>8. spent' \subseteq 1 .. Len(issued')
          /\ \A r \in Request : ~requests'[r].late
                                /\ (requests'[r].at # "idle" => requests'[r].nonce \in 1 .. Len(issued'))
      BY <1>1, <2>1, <2>7 DEF ChallengesInv
    <2>9. challenges' \in Seq(Open(Len(issued'), spent'))
      BY <1>1, <2>1, <2>2, <2>6
    <2> QED
      BY <2>8, <2>9 DEF ChallengesInv
  <1> QED
    BY <1>4, <1>5 DEF CreateChallenge

LEMMA PresentKeeps ==
    ASSUME SignedTyped, ChallengesInv, NEW r \in Request, NEW n \in DOMAIN issued, NEW x \in What,
           Present(r, n, x)
    PROVE  ChallengesInv'
  <1> DEFINE cs == Cleanup(challenges)
  <1>1. cs \in Seq(Open(Len(issued), spent))
    BY CleanupKeeps DEF ChallengesInv
  <1>2. UNCHANGED <<issued, spent>> /\ challenges' = cs
    BY DEF Present
  <1>3. CASE UNCHANGED requests
    BY <1>1, <1>2, <1>3 DEF ChallengesInv
  <1>4. CASE /\ \E c \in ToSet(cs) : c.nonce = n
             /\ \E to : RequestStep(r, to) /\ to.nonce = n /\ to.late = (n \in spent)
    <2>1. PICK c \in ToSet(cs) : c.nonce = n
      BY <1>4
    <2>2. c \in Open(Len(issued), spent)
      <3> HIDE DEF cs
      <3> QED
        BY <1>1, <2>1 DEF ToSet
    <2>3. n \in 1 .. Len(issued) /\ n \notin spent
      BY <2>1, <2>2 DEF Open
    <2>4. PICK to : RequestStep(r, to) /\ to.nonce = n /\ to.late = (n \in spent)
      BY <1>4
    <2>5. \A s \in Request : requests'[s] = requests[s] \/ requests'[s] = to
      BY <2>4 DEF SignedTyped, RequestStep
    <2>6. ~to.late
      BY <2>3, <2>4
    <2>7. \A s \in Request : ~requests'[s].late
      BY <2>5, <2>6 DEF ChallengesInv
    <2>8. \A s \in Request : requests'[s].at # "idle" => requests'[s].nonce \in 1 .. Len(issued)
      BY <2>3, <2>4, <2>5 DEF ChallengesInv
    <2> QED
      BY <1>1, <1>2, <2>7, <2>8 DEF ChallengesInv
  <1> QED
    BY <1>3, <1>4, PresentMoves

\* A request that goes on keeps its nonce, which was not spent when it came.
LEMMA ChallengesFollow ==
    ASSUME SignedTyped, ChallengesInv, NEW r \in Request, NEW to, RequestStep(r, to),
           requests[r].at # "idle", Follows(requests[r], to), UNCHANGED issued,
           \/ UNCHANGED <<challenges, spent>>
           \/ /\ challenges' = SpendChallenge(requests[r].nonce)
              /\ spent' = spent \cup {requests[r].nonce}
    PROVE  ChallengesInv'
  <1>1. requests[r].nonce \in 1 .. Len(issued) /\ ~requests[r].late
    BY DEF ChallengesInv
  <1>2. ~IdleRequest.late
    BY DEF IdleRequest
  <1>3. ~to.late
    BY <1>1, <1>2 DEF Follows
  <1>4. to.at # "idle" => to.nonce \in 1 .. Len(issued)
    BY <1>1, IdleRequestTyped DEF Follows
  <1>5. \A s \in Request : requests'[s] = requests[s] \/ requests'[s] = to
    BY DEF SignedTyped, RequestStep
  <1>6. spent' \subseteq 1 .. Len(issued) /\ challenges' \in Seq(Open(Len(issued), spent'))
    BY <1>1, SpendKeeps DEF ChallengesInv
  <1>7. \A s \in Request : ~requests'[s].late
    BY <1>3, <1>5 DEF ChallengesInv
  <1>8. \A s \in Request : requests'[s].at # "idle" => requests'[s].nonce \in 1 .. Len(issued)
    BY <1>4, <1>5 DEF ChallengesInv
  <1> QED
    BY <1>6, <1>7, <1>8 DEF ChallengesInv

LEMMA ChallengesMove ==
    ASSUME SignedTyped, ChallengesInv, profile \in Request \cup {NoAvatar}, [SignedNext]_signedVars
    PROVE  ChallengesInv'
  <1>1. ASSUME UNCHANGED <<challenges, issued, spent, requests>> PROVE ChallengesInv'
    BY <1>1 DEF ChallengesInv
  <1>2. CASE Tick \/ Media \/ UNCHANGED signedVars \/ \E x \in {"pictured", "plain"} : Resolve(x)
    BY <1>1, <1>2 DEF Tick, Media, Resolve, signedVars, serverVars
  <1>3. CASE Restart
    <2>1. challenges' = <<>> /\ spent' = spent \cup DOMAIN issued /\ issued' = issued
          /\ \A r \in Request : requests'[r] = IdleRequest
      BY <1>3 DEF Restart
    <2>2. DOMAIN issued = 1 .. Len(issued)
      BY DEF SignedTyped
    <2>3. ~IdleRequest.late
      BY DEF IdleRequest
    <2>4. challenges' \in Seq(Open(Len(issued'), spent'))
      BY <2>1
    <2> QED
      BY <2>1, <2>2, <2>3, <2>4, IdleRequestTyped DEF ChallengesInv
  <1>4. ASSUME NEW r \in Request, NEW to, RequestStep(r, to), requests[r].at # "idle",
               Follows(requests[r], to), UNCHANGED <<issued, challenges, spent>>
        PROVE  ChallengesInv'
    BY <1>4, ChallengesFollow
  <1>5. ASSUME NEW r \in Request, Ending(r) PROVE ChallengesInv'
    <2>1. requests' = [requests EXCEPT ![r] = IdleRequest] /\ requests[r].at # "idle"
          /\ UNCHANGED <<issued, challenges, spent>>
      BY <1>5 DEF Ending, Reject, StoreFails, Answers503, WriteProfile, serverVars
    <2> QED
      BY <1>4, <2>1, RequestEnds
  <1>6. ASSUME NEW r \in Request, Authorize(r) PROVE ChallengesInv'
    <2>1. /\ requests[r].at = "verify" /\ issued' = issued
          /\ challenges' = SpendChallenge(requests[r].nonce) /\ spent' = spent \cup {requests[r].nonce}
      BY <1>6, AuthorizeMoves
    <2>2. PICK to : RequestStep(r, to) /\ Follows(requests[r], to)
      BY <1>6, AuthorizeMoves
    <2> QED
      BY <2>1, <2>2, ChallengesFollow
  <1>7. ASSUME NEW r \in Request,
               \/ Normalize(r) \/ Store(r) \/ Rename(r) \/ ReadProfile(r)
               \/ \E outcome \in {"pinned", "denied", "lost", "failed"} : Pin(r, outcome)
        PROVE  ChallengesInv'
    <2>1. UNCHANGED <<issued, challenges, spent>> /\ requests[r].at # "idle"
      BY <1>7 DEF Normalize, Store, Rename, ReadProfile, Pin, serverVars
    <2>2. \E to : RequestStep(r, to) /\ Follows(requests[r], to)
      BY <1>7, NormalizeMoves, StoreMoves, RenameMoves, ReadProfileMoves, PinMoves
    <2> QED
      BY <1>4, <2>1, <2>2
  <1> QED
    BY <1>2, <1>3, <1>5, <1>6, <1>7, CreateKeeps, PresentKeeps DEF SignedNext, Ending

\* A challenge that has authorized a request, or was lost in a restart, authorizes
\* none that presents it afterwards, however challenges are cleaned up or dropped.
THEOREM ChallengesAreSpentOnce == SignedSpec => []SpentStaysSpent
  <1> DEFINE Inv == SignedTyped /\ AvatarInv /\ ChallengesInv
  <1>1. SignedInit => Inv
    BY SignedStart, AvatarStarts, ChallengesStart
  <1>2. Inv /\ [SignedNext]_signedVars => Inv'
    BY SignedStep, AvatarMoves, ChallengesMove DEF AvatarInv
  <1>3. Inv => SpentStaysSpent
    BY DEF ChallengesInv, SpentStaysSpent
  <1> QED
    BY <1>1, <1>2, <1>3, PTL DEF SignedSpec
=============================================================================
