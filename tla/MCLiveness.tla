----------------------------- MODULE MCLiveness ------------------------------
(***************************************************************************)
(* What must happen in the end, in the worker, the event stream, the       *)
(* keeper and a token's page: each runs alone, with its own fairness, and  *)
(* `part` says which. The others rest in their initial state; variables of *)
(* the same name are one variable.                                         *)
(***************************************************************************)
EXTENDS MCEventIndexer, LiveDelivery

CONSTANTS Token0, Creator, InitialTick, TradeFees

VARIABLES
    part,
    launched, locks, accounts, lockerQuote, lockerToken, pools, profiles, gifts, trades,
    todo, executed, failed, mempool, receipt, landed,
    height, orphaned, told, snapshot, pendingTrades, flight, busy, staleShown, reconcileDue

Keeper == INSTANCE MCBuybackKeeper WITH
    MaxTick <- 20, MinPrice <- 2, MaxPrice <- 100, Bps <- 10,
    MaxImpact <- 2, CreatorShare <- 7, RewardShare <- 3, MaxReward <- 1, MinBuyback <- 2,
    Cooldown <- 1, PoolFee <- 3, TickSpacing <- 4, MaxTrades <- 1, MaxGifts <- 0, MaxFaults <- 1
Dashboard == INSTANCE TokenDashboard WITH MaxHeight <- 3, MaxOrphans <- 0

MCInitialTick == [first \in BOOLEAN |-> IF first THEN -7 ELSE 7]
MCTradeFees == {[quote |-> 5, token |-> 1], [quote |-> 3, token |-> 0]}

workerVars == <<chain, events, rows, markets, balances, checkpoint, candidates, common,
    from, to, fetched, logs, blocks, outbox, published, window, dirtyFrom, replacements>>
lockerVars == <<launched, locks, accounts, lockerQuote, lockerToken, pools, profiles, gifts, trades>>
runVars == <<todo, executed, failed, mempool, receipt, landed>>
pageVars == <<height, orphaned, told, snapshot, pendingTrades, flight, busy, staleShown,
    reconcileDue>>
common_ == <<pc, faults>>
livenessVars == <<part, common_, workerVars, liveVars, lockerVars, runVars, pageVars>>

LivenessInit ==
    /\ part \in {"worker", "stream", "keeper", "page"}
    /\ Init /\ LiveInitWith("open") /\ Keeper!KeeperInit /\ Dashboard!DashboardInit
    /\ part # "worker" => chain = <<a1>>

OfWorker(A) == part = "worker" /\ A
    /\ UNCHANGED <<part, liveVars, lockerVars, runVars, pageVars>>
OfStream(A) == part = "stream" /\ A
    /\ UNCHANGED <<part, common_, workerVars, lockerVars, runVars, pageVars>>
OfKeeper(A) == part = "keeper" /\ A
    /\ UNCHANGED <<part, workerVars, liveVars, pageVars>>
OfPage(A) == part = "page" /\ A
    /\ UNCHANGED <<part, common_, workerVars, liveVars, lockerVars, runVars>>

LivenessNext ==
    \/ OfWorker(Next)
    \/ OfStream(LiveNext)
    \/ OfKeeper(Keeper!KeeperNext)
    \/ OfPage(Dashboard!DashboardNext)

\* The fairness each module states, of the part that runs.
LivenessFairness ==
    /\ WF_livenessVars(OfWorker(Cycle))
    /\ WF_livenessVars(OfStream(HubStep)) /\ WF_livenessVars(OfStream(Deliver))
    /\ WF_livenessVars(OfStream(Reattach))
    /\ \A p \in Page :
         /\ WF_livenessVars(OfStream(Receive(p)))
         /\ WF_livenessVars(OfStream(conn[p] = "away" /\ Subscribe(p)))
    /\ WF_livenessVars(OfKeeper(Keeper!KeeperStep)) /\ WF_livenessVars(OfKeeper(Keeper!Mine))
    /\ WF_livenessVars(OfKeeper(Keeper!Elapse /\ UNCHANGED <<common_, runVars>>))
    /\ WF_livenessVars(OfPage(Dashboard!PollMarket)) /\ SF_livenessVars(OfPage(Dashboard!AnsweredNow))
    /\ WF_livenessVars(OfPage(\E h \in 0..3 : Dashboard!MarketAnswered(h, FALSE)))

LivenessSpec == LivenessInit /\ [][LivenessNext]_livenessVars /\ LivenessFairness

-----------------------------------------------------------------------------
\* What can be spent on a buyback is spent in the end.
Drained == Keeper!Drained

\* With polling alone the token's page comes to show exactly the chain's trades: in the
\* parts where it does not run there are none.
PollingRecovers == Dashboard!PollingRecovers
=============================================================================
