------------------------------ MODULE Deployment ------------------------------
(***************************************************************************)
(* How a Factory is replaced: the deployment and recovery scripts leave a  *)
(* paused candidate, a manifest and an unsigned Safe batch; the Safe       *)
(* scripts turn the batch into a proposal at one nonce; the Safe executes  *)
(* it in one transaction.  One operator runs one script at a time, and it  *)
(* may die at any step.  A Factory stands for itself and its locker.       *)
(***************************************************************************)
EXTENDS Naturals

CONSTANTS
    Factory,   \* every Factory ever created
    First,     \* the one that is active at first
    NoFile,    \* the content of a file that is not there
    MaxNonce   \* bound: the transactions of the Safe

ASSUME DeploymentAssumption == First \in Factory /\ MaxNonce \in Nat

VARIABLES
    creations, \* Factory creations that are submitted and not mined
    deployed,  \* factories whose creation is confirmed
    paused, fee, withLaunches, \* of each factory; the fee in USDC
    registrar, collector,  \* who the fee vault lets in
    recipient, \* where the fee vault's withdrawals go
    active,    \* the factory of the creator registry
    nonce,     \* the Safe's
    queue,     \* the proposals in the Safe's transaction service
    manifest, batch, prepared, proposal, \* the files of the operator
    script,    \* the script under way
    recovery   \* what the last recovery came to

contracts == <<creations, deployed, paused, fee, withLaunches, registrar, collector, recipient, active, nonce>>
files == <<manifest, batch, prepared, proposal>>
deploymentVars == <<contracts, queue, files, script, recovery>>

\* LAUNCH_FEE of the deployment script, which the verification expects as well.
LAUNCH_FEE == 1
RecoverLaunchFee == 10
GovernanceFee == {0, LAUNCH_FEE, RecoverLaunchFee}

Transition == [new : Factory, old : Factory]
SafeTransaction == [what : Transition, nonce : 0..MaxNonce]
Script == [name : {"idle", "deploy", "recover"}, what : Transition,
           at : {"preflight", "submitted", "verified", "manifest"}]
IdleScript == [name |-> "idle", what |-> [new |-> First, old |-> First], at |-> "preflight"]

DeploymentTypeOK ==
    /\ creations \subseteq Factory /\ deployed \subseteq Factory
    /\ paused \in [Factory -> BOOLEAN] /\ fee \in [Factory -> GovernanceFee]
    /\ withLaunches \subseteq Factory /\ registrar \subseteq Factory /\ collector \subseteq Factory
    /\ recipient \in {"previous", "reviewed"} /\ active \in Factory /\ nonce \in 0..MaxNonce
    /\ queue \subseteq SafeTransaction
    /\ manifest \in Transition \cup {NoFile} /\ batch \in Transition \cup {NoFile}
    /\ prepared \in SafeTransaction \cup {NoFile} /\ proposal \in SafeTransaction \cup {NoFile}
    /\ script \in Script
    /\ recovery \in [of : Factory, outcome : {"none", "refused", "written"}]

DeploymentInit ==
    /\ creations = {} /\ deployed = {First}
    /\ paused = [f \in Factory |-> f # First] /\ fee = [f \in Factory |-> LAUNCH_FEE]
    /\ withLaunches = {} /\ registrar = {First} /\ collector = {First}
    /\ recipient = "previous" /\ active = First /\ nonce = 0 /\ queue = {}
    /\ manifest = NoFile /\ batch = NoFile /\ prepared = NoFile /\ proposal = NoFile
    /\ script = IdleScript
    /\ recovery = [of |-> First, outcome |-> "none"]

-----------------------------------------------------------------------------
\* The deployment and recovery scripts.

\* What both require of the live system before they replace `old'.
StillActive(old) == active = old /\ old \in registrar /\ old \in collector

OneFileMissing == manifest = NoFile
NoFilesYet == manifest = NoFile /\ batch = NoFile

DeployPreflight(old) ==
    /\ script = IdleScript /\ StillActive(old) /\ NoFilesYet
    /\ script' = [name |-> "deploy", what |-> [new |-> old, old |-> old], at |-> "preflight"]
    /\ UNCHANGED <<contracts, queue, files, recovery>>

DeploySubmit(new) ==
    /\ script.name = "deploy" /\ script.at = "preflight"
    /\ new \notin deployed \cup creations
    /\ creations' = creations \cup {new}
    /\ script' = [script EXCEPT !.what.new = new, !.at = "submitted"]
    /\ UNCHANGED <<deployed, paused, fee, withLaunches, registrar, collector, recipient, active,
                   nonce, queue, files, recovery>>

\* The constructor, with or without the script that waits for it.
CreateUnpaused(new) == [paused EXCEPT ![new] = FALSE]
Create(new) == [paused EXCEPT ![new] = TRUE]

CreationMined(new) ==
    /\ new \in creations
    /\ creations' = creations \ {new}
    /\ deployed' = deployed \cup {new}
    /\ paused' = Create(new)
    /\ fee' = [fee EXCEPT ![new] = LAUNCH_FEE]
    /\ UNCHANGED <<withLaunches, registrar, collector, recipient, active, nonce, queue, files,
                   script, recovery>>

DeployVerify ==
    /\ script.name = "deploy" /\ script.at = "submitted" /\ script.what.new \in deployed
    /\ paused[script.what.new] /\ fee[script.what.new] = LAUNCH_FEE
    /\ script' = [script EXCEPT !.at = "verified"]
    /\ UNCHANGED <<contracts, queue, files, recovery>>

RecoverFee(f) == fee[f] = RecoverLaunchFee
RecoverAccepts(w) ==
    /\ paused[w.new] /\ RecoverFee(w.new) /\ w.new \notin withLaunches
    /\ StillActive(w.old)

\* The creation of w.new is confirmed; its state is read at once, and asserted.
Recover(w) ==
    /\ script = IdleScript /\ NoFilesYet /\ w.new \in deployed \ {First}
    /\ IF RecoverAccepts(w)
       THEN /\ script' = [name |-> "recover", what |-> w, at |-> "verified"]
            /\ recovery' = recovery
       ELSE /\ script' = script
            /\ recovery' = [of |-> w.new, outcome |-> "refused"]
    /\ UNCHANGED <<contracts, queue, files>>

WriteManifest ==
    /\ script.at = "verified"
    /\ manifest' = script.what
    /\ script' = [script EXCEPT !.at = "manifest"]
    /\ UNCHANGED <<contracts, queue, batch, prepared, proposal, recovery>>

WriteBatch ==
    /\ script.at = "manifest"
    /\ batch' = script.what
    /\ recovery' = IF script.name = "recover"
                   THEN [of |-> script.what.new, outcome |-> "written"] ELSE recovery
    /\ script' = IdleScript
    /\ UNCHANGED <<contracts, queue, manifest, prepared, proposal>>

\* A failed read, a failed assertion or the end of the process.
ScriptFails ==
    /\ script # IdleScript
    /\ script' = IdleScript
    /\ UNCHANGED <<contracts, queue, files, recovery>>

\* The operator clears the way for the next run.
RemoveFiles ==
    /\ script = IdleScript
    /\ \/ manifest # NoFile /\ manifest' = NoFile /\ UNCHANGED <<batch, prepared, proposal>>
       \/ batch # NoFile /\ batch' = NoFile /\ UNCHANGED <<manifest, prepared, proposal>>
       \/ /\ prepared # NoFile /\ prepared' = NoFile /\ proposal' = NoFile
          /\ UNCHANGED <<manifest, batch>>
    /\ UNCHANGED <<contracts, queue, script, recovery>>

-----------------------------------------------------------------------------
\* The Safe scripts.  The operator says at which nonce.

Prepare(n) ==
    /\ batch # NoFile /\ prepared = NoFile
    /\ prepared' = [what |-> batch, nonce |-> n]
    /\ UNCHANGED <<contracts, queue, manifest, batch, proposal, script, recovery>>

\* What verify-mainnet-activation-safe requires.
ActivationVerifies == prepared # NoFile /\ prepared.nonce = nonce

\* The proposal is posted before its file is written, which must not exist.
Propose ==
    /\ ActivationVerifies /\ prepared \notin queue
    /\ queue' = queue \cup {prepared}
    /\ proposal' \in {proposal, IF proposal = NoFile THEN prepared ELSE proposal}
    /\ UNCHANGED <<contracts, manifest, batch, prepared, script, recovery>>

-----------------------------------------------------------------------------
\* The Safe and the contracts.

\* OpenZeppelin's _pause and _unpause revert when there is nothing to do, and
\* MultiSend reverts with the first of its calls that does.
OnlyUnpauseReverts(w) == ~paused[w.new]
ActivationReverts(w) == paused[w.old] \/ ~paused[w.new]

ActivateOnly(w, s) == s \cup {w.new}
Rotate(w, s) == (s \ {w.old}) \cup {w.new}

Execute(t) ==
    /\ t \in queue /\ t.nonce = nonce /\ nonce < MaxNonce
    /\ ~ActivationReverts(t.what)
    /\ nonce' = nonce + 1
    /\ paused' = [paused EXCEPT ![t.what.old] = TRUE, ![t.what.new] = FALSE]
    /\ registrar' = Rotate(t.what, registrar)
    /\ collector' = Rotate(t.what, collector)
    /\ recipient' = "reviewed"
    /\ active' = t.what.new
    /\ UNCHANGED <<creations, deployed, fee, withLaunches, queue, files, script, recovery>>

\* The other transactions the Safe is used for.
SetLaunchFee(f, x) ==
    /\ f \in deployed /\ nonce < MaxNonce
    /\ fee' = [fee EXCEPT ![f] = x] /\ nonce' = nonce + 1
    /\ UNCHANGED <<creations, deployed, paused, withLaunches, registrar, collector, recipient,
                   active, queue, files, script, recovery>>

UnpauseActive ==
    /\ paused[active] /\ nonce < MaxNonce
    /\ paused' = [paused EXCEPT ![active] = FALSE] /\ nonce' = nonce + 1
    /\ UNCHANGED <<creations, deployed, fee, withLaunches, registrar, collector, recipient,
                   active, queue, files, script, recovery>>

PauseLaunches(f) ==
    /\ f \in deployed /\ ~paused[f]
    /\ paused' = [paused EXCEPT ![f] = TRUE]
    /\ UNCHANGED <<creations, deployed, fee, withLaunches, registrar, collector, recipient,
                   active, nonce, queue, files, script, recovery>>

\* recordLaunch accepts the registry's Factory alone, collectFee a collector.
LaunchThrough(f) ==
    /\ f \in deployed /\ ~paused[f] /\ active = f /\ (fee[f] = 0 \/ f \in collector)
    /\ withLaunches' = withLaunches \cup {f}
    /\ UNCHANGED <<creations, deployed, paused, fee, registrar, collector, recipient,
                   active, nonce, queue, files, script, recovery>>

DeploymentNext ==
    \/ DeployVerify \/ WriteManifest \/ WriteBatch \/ ScriptFails \/ RemoveFiles
    \/ Propose \/ UnpauseActive
    \/ \E f \in Factory : DeployPreflight(f) \/ DeploySubmit(f) \/ CreationMined(f)
    \/ \E f \in Factory : PauseLaunches(f) \/ LaunchThrough(f)
    \/ \E w \in Transition : Recover(w)
    \/ \E n \in 0..MaxNonce : Prepare(n)
    \/ \E t \in queue : Execute(t)
    \/ \E f \in Factory, x \in GovernanceFee : SetLaunchFee(f, x)

DeploymentSpec == DeploymentInit /\ [][DeploymentNext]_deploymentVars

-----------------------------------------------------------------------------
\* Properties.

\* The contracts follow the registry: whatever scripts were run or died, and in
\* whatever order proposals are executed, exactly the registry's Factory may
\* register collectors and collect, and no other one launches.  Of two batches
\* built for one retired Factory the second cannot execute, because retiring it
\* again reverts.
AuthorityFollowsRegistry ==
    /\ registrar = {active} /\ collector = {active}
    /\ \A f \in deployed : ~paused[f] => f = active

\* A manifest and a batch that lie side by side are of one deployment, also when
\* the script that wrote one of them died before the other or the operator
\* removed only one.
FilesAgree == manifest # NoFile /\ batch # NoFile => manifest = batch

AsDeployed(f) ==
    /\ f \in deployed \ {First} /\ paused[f] /\ fee[f] = LAUNCH_FEE /\ f \notin withLaunches

\* audit/SECURITY_REVIEW.md, line 57: a recovery command reconstructs the
\* manifest and the batch from the confirmed creation.  It does not refuse a
\* candidate that is as the deployment left it while the Factory it was to
\* replace is still active.
RecoveryReconstructs ==
    [][~ \E w \in Transition : /\ Recover(w) /\ StillActive(w.old) /\ AsDeployed(w.new)
                               /\ recovery' = [of |-> w.new, outcome |-> "refused"]]_deploymentVars
=============================================================================
