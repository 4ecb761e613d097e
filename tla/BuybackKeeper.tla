---------------------------- MODULE BuybackKeeper ----------------------------
(***************************************************************************)
(* The buyback keeper: a timer starts a run, the run goes through the list *)
(* of launched tokens and for each that opted in simulates, estimates and  *)
(* sends collectAndExecuteBuyback and waits for the receipt.  Other        *)
(* keepers, traders and time go on between any two of its calls, and a     *)
(* call that fails for a transient reason is repeated, also when the node  *)
(* had accepted the transaction and only its answer was lost.              *)
(***************************************************************************)
EXTENDS LaunchProtocol

CONSTANTS MaxFaults     \* bound: how many calls of the keeper fail

ASSUME KeeperAssumption == MaxFaults \in Nat

VARIABLES
    pc,         \* the call the keeper makes next
    todo,       \* the tokens of this run it has not finished
    executed,   \* how many buybacks this run counts as executed
    failed,     \* how many it counts as failures
    mempool,    \* the keeper's transactions that are not mined, oldest first
    receipt,    \* the outcome of the transaction it waits for
    landed,     \* history: the keeper's buybacks that succeeded since the run began
    faults      \* bound

run == <<pc, todo, executed, failed>>
sending == <<mempool, receipt, landed>>
keeperVars == <<run, sending, faults>>
allVars == <<vars, keeperVars>>

\* The transaction would go through now.
WouldExecute(t) == Executable(Collected(accounts[t], locks[t].automatic), t)

Abandoned(pending) == [i \in DOMAIN pending |-> [pending[i] EXCEPT !.awaited = FALSE]]

\* Done with the first token, in one way or another.
ContinueRun ==
    /\ todo' = Tail(todo)
    /\ pc' = "next"

StartRun ==
    /\ pc = "idle"
    /\ pc' = "next" /\ todo' = launched
    /\ executed' = 0 /\ failed' = 0 /\ landed' = 0
    /\ UNCHANGED <<vars, mempool, receipt, faults>>

EndRun ==
    /\ pc = "next" /\ todo = <<>>
    /\ pc' = "idle"
    /\ UNCHANGED <<vars, todo, executed, failed, sending, faults>>

ReadInfo ==
    /\ pc = "next" /\ todo # <<>>
    /\ IF locks[Head(todo)].automatic THEN pc' = "simulate" /\ UNCHANGED todo ELSE ContinueRun
    /\ UNCHANGED <<vars, executed, failed, sending, faults>>

\* The simulation and the estimate run the transaction on the current state: one
\* that is not ready, or whose price is not safe, is skipped.
Try ==
    /\ pc \in {"simulate", "estimate"}
    /\ IF WouldExecute(Head(todo))
       THEN pc' = (IF pc = "simulate" THEN "estimate" ELSE "send") /\ UNCHANGED todo
       ELSE ContinueRun
    /\ UNCHANGED <<vars, executed, failed, sending, faults>>

Send ==
    /\ pc = "send"
    /\ mempool' = Append(mempool, [token |-> Head(todo), awaited |-> TRUE])
    /\ receipt' = "none"
    /\ pc' = "receipt"
    /\ UNCHANGED <<vars, todo, executed, failed, landed, faults>>

\* The node takes the transaction, its answer is lost, and the call is repeated.
SendUnanswered ==
    /\ pc = "send" /\ faults < MaxFaults
    /\ mempool' = Append(mempool, [token |-> Head(todo), awaited |-> FALSE])
    /\ faults' = faults + 1
    /\ UNCHANGED <<vars, run, receipt, landed>>

\* A call for one token fails for good.
CallFails ==
    /\ pc \in {"simulate", "estimate", "send", "receipt"} /\ faults < MaxFaults
    /\ ContinueRun
    /\ failed' = failed + 1 /\ faults' = faults + 1
    /\ mempool' = Abandoned(mempool)
    /\ UNCHANGED <<vars, executed, receipt, landed>>

\* A call outside the per-token try ends the run.
RunAborts ==
    /\ pc = "next" /\ faults < MaxFaults
    /\ pc' = "idle" /\ faults' = faults + 1
    /\ UNCHANGED <<vars, todo, executed, failed, sending>>

\* Slip: any receipt will do.
AnyReceipt == receipt # "none"
Succeeded == receipt = "success"

TakeReceipt ==
    /\ pc = "receipt" /\ receipt # "none"
    /\ IF Succeeded THEN executed' = executed + 1 /\ UNCHANGED failed
       ELSE failed' = failed + 1 /\ UNCHANGED executed
    /\ receipt' = "none"
    /\ ContinueRun
    /\ UNCHANGED <<vars, mempool, landed, faults>>

\* The keeper's transactions are mined in the order of their nonces.
Mined(outcome) ==
    /\ mempool' = Tail(mempool)
    /\ receipt' = IF Head(mempool).awaited THEN outcome ELSE receipt
    /\ UNCHANGED <<run, faults>>
MineExecuted ==
    /\ mempool # <<>>
    /\ Buyback(Head(mempool).token)
    /\ Mined("success")
    /\ landed' = landed + 1
MineReverted ==
    /\ mempool # <<>>
    /\ ~WouldExecute(Head(mempool).token)
    /\ Mined("reverted")
    /\ UNCHANGED <<vars, landed>>

KeeperInit ==
    /\ Init
    /\ pc = "idle" /\ todo = <<>> /\ executed = 0 /\ failed = 0
    /\ mempool = <<>> /\ receipt = "none" /\ landed = 0
    /\ faults = 0

KeeperStep == StartRun \/ EndRun \/ ReadInfo \/ Try \/ Send \/ TakeReceipt
KeeperFault == SendUnanswered \/ CallFails \/ RunAborts
Mine == MineExecuted \/ MineReverted

KeeperNext ==
    \/ KeeperStep \/ KeeperFault \/ Mine
    \/ Next /\ UNCHANGED keeperVars

KeeperSpec == KeeperInit /\ [][KeeperNext]_allVars

\* The timer, the node and time go on; nothing else has to happen.
KeeperFairness ==
    /\ WF_allVars(KeeperStep) /\ WF_allVars(Mine)
    /\ WF_allVars(Elapse /\ UNCHANGED keeperVars)
FairKeeperSpec == KeeperSpec /\ KeeperFairness
-----------------------------------------------------------------------------
\* The keeper never reports a buyback that did not happen, whatever was lost,
\* repeated or overtaken by another keeper; when nothing was lost, it reports each.
ReportsTruly ==
    /\ executed <= landed
    /\ pc = "idle" /\ faults = 0 => executed = landed

\* Whatever reserve can be spent is spent in the end: with the timer running, no
\* opted-in position keeps fees worth a buyback for ever.
Drained ==
    <>[](\A t \in Token :
            locks[t] # NoLock /\ locks[t].automatic =>
                accounts[t].reserve + Part(accounts[t].quoteFees, CreatorShare) < MinBuyback)
=============================================================================
