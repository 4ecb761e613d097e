--------------------------- MODULE TokenDashboard ---------------------------
(***************************************************************************)
(* The market snapshot of a token's page (useOnchainTokenSnapshot in       *)
(* src/src/components/onchain-token-dashboard.tsx, with the refresh loop   *)
(* of src/src/hooks/use-live-refresh.ts). Trades reach the page as events  *)
(* ahead of the snapshots that contain them; a snapshot that lacks one of  *)
(* them, or is of an earlier block than the one shown, is not shown.       *)
(*                                                                         *)
(* Block n holds trade n, and trade 0 is the launch. A replaced block is   *)
(* an orphaned trade: its event was delivered (by the trade panel from the *)
(* first receipt, or by the indexer before it rolled back) and no later    *)
(* snapshot has it.                                                        *)
(***************************************************************************)
EXTENDS Naturals, FiniteSets

CONSTANTS
  MaxHeight,   \* bound: blocks with a trade
  MaxOrphans   \* bound: blocks replaced

VARIABLES
  height,      \* the block of the chain's last trade
  orphaned,    \* trades whose block was replaced
  told,        \* trades the page had an event for
  snapshot,    \* React state: [block, trades]
  pendingTrades, \* pendingTradeHashes
  flight,      \* the current request: "none", "background", "foreground"
  busy,        \* refreshInFlightRef
  staleShown,  \* the state `stale`
  reconcileDue \* reconciliationTimer is set

ASSUME DashboardAssumption == MaxHeight \in Nat

dashboardVars == <<height, orphaned, told, snapshot, pendingTrades, flight, busy, staleShown, reconcileDue>>
blockVars == <<height, orphaned>>

\* The market snapshot of block h, by the server or by the browser's own fallback.
SnapshotOf(h) == [block |-> h, trades |-> (1 .. h) \ orphaned]

\* The page starts with the server's snapshot, or with the Factory's data alone.
DashboardInit ==
  /\ height = 0
  /\ orphaned = {}
  /\ told = {}
  /\ snapshot = [block |-> 0, trades |-> {}]
  /\ pendingTrades = {}
  /\ flight = "foreground" /\ busy = TRUE
  /\ staleShown = FALSE
  /\ reconcileDue = FALSE

NextBlock ==
  /\ height < MaxHeight
  /\ height' = height + 1
  /\ UNCHANGED <<orphaned, told, snapshot, pendingTrades, flight, busy, staleShown, reconcileDue>>

\* The last block is replaced by one without its trade.
Orphan ==
  /\ height > 0 /\ height \notin orphaned
  /\ Cardinality(orphaned) < MaxOrphans
  /\ orphaned' = orphaned \union {height}
  /\ UNCHANGED <<height, told, snapshot, pendingTrades, flight, busy, staleShown, reconcileDue>>

\* handleTrade; an event may come late, after a snapshot with the trade or
\* after its block was replaced.
ShowTrade(t) ==
  /\ t \in 1 .. height \ told
  /\ told' = told \union {t}
  /\ pendingTrades' = pendingTrades \union {t}
  /\ snapshot' = [snapshot EXCEPT !.trades = @ \union {t}]
  /\ reconcileDue' = TRUE
  /\ UNCHANGED <<blockVars, flight, busy, staleShown>>

-----------------------------------------------------------------------------
(* Requests *)

Starts(kind) == flight' = kind /\ busy' = TRUE

\* useLiveRefresh: a background refresh, dropped while one is under way.
PollMarket ==
  /\ ~busy
  /\ Starts("background")
  /\ UNCHANGED <<blockVars, told, snapshot, pendingTrades, staleShown, reconcileDue>>

ReconcileMarket ==
  /\ reconcileDue
  /\ reconcileDue' = FALSE
  /\ IF busy THEN UNCHANGED <<flight, busy>> ELSE Starts("background")
  /\ UNCHANGED <<blockVars, told, snapshot, pendingTrades, staleShown>>

\* The timer of a stale snapshot, kept off while the page is loading.
RevalidateMarket ==
  /\ staleShown /\ flight # "foreground"
  /\ Starts("foreground")
  /\ UNCHANGED <<blockVars, told, snapshot, pendingTrades, staleShown, reconcileDue>>

\* The token object is another one after the index was loaded: the effect runs
\* again, drops the reconciliation and refreshes.
ReloadMarket ==
  /\ Starts("foreground")
  /\ reconcileDue' = FALSE
  /\ UNCHANGED <<blockVars, told, snapshot, pendingTrades, staleShown>>

\* Whether a snapshot that lacks one of the trades told is held back.
Ignored(next) == FALSE
Lacks(next) == \E t \in pendingTrades : t \notin next.trades

\* The trades found before the first missing one are forgotten even when the
\* snapshot is not shown; the set is walked in the order of insertion, any here.
Found(next, gone) ==
  /\ gone \subseteq pendingTrades \intersect next.trades
  /\ ~Lacks(next) => gone = pendingTrades \intersect next.trades

Older(next) == next.block < snapshot.block

ApplyRefreshedSnapshot(next) ==
  IF Older(next) THEN UNCHANGED <<snapshot, pendingTrades>>
  ELSE /\ \E gone \in SUBSET pendingTrades :
            Found(next, gone) /\ pendingTrades' = pendingTrades \ gone
       /\ snapshot' = IF Lacks(next) THEN snapshot ELSE next

StaysBusy == busy
Released == FALSE
MarketLands == flight' = "none" /\ busy' = Released

\* The current request is answered, from a cache or from the chain: any
\* earlier block. A fallback of the browser is never stale.
MarketAnswered(h, stale) ==
  /\ flight # "none"
  /\ h \in 0 .. height
  /\ ApplyRefreshedSnapshot(SnapshotOf(h))
  /\ staleShown' = stale
  /\ MarketLands
  /\ UNCHANGED <<blockVars, told, reconcileDue>>

\* Neither the server nor the explorer answers.
MarketUnanswered ==
  /\ flight # "none"
  /\ staleShown' = TRUE
  /\ MarketLands
  /\ UNCHANGED <<blockVars, told, snapshot, pendingTrades, reconcileDue>>

DashboardNext ==
  \/ NextBlock \/ Orphan \/ PollMarket \/ ReconcileMarket \/ RevalidateMarket \/ ReloadMarket \/ MarketUnanswered
  \/ \E t \in 1 .. MaxHeight : ShowTrade(t)
  \/ \E h \in 0 .. MaxHeight, stale \in BOOLEAN : MarketAnswered(h, stale)

DashboardSpec == DashboardInit /\ [][DashboardNext]_dashboardVars

\* The poll timer of a visible page fires, a request ends (its timeout), and
\* asked again and again the server answers of the chain's last block.
AnsweredNow == MarketAnswered(height, FALSE)
DashboardFairness == WF_dashboardVars(PollMarket) /\ WF_dashboardVars(\E h \in 0 .. MaxHeight : MarketAnswered(h, FALSE)) /\ SF_dashboardVars(AnsweredNow)

FairDashboardSpec == DashboardSpec /\ DashboardFairness

-----------------------------------------------------------------------------
DashboardTypeOK ==
  /\ height \in 0 .. MaxHeight /\ orphaned \subseteq 1 .. MaxHeight /\ told \subseteq 1 .. MaxHeight
  /\ snapshot.block \in 0 .. MaxHeight /\ snapshot.trades \subseteq 1 .. MaxHeight
  /\ pendingTrades \subseteq told
  /\ flight \in {"none", "background", "foreground"}
  /\ busy = (flight # "none")
  /\ staleShown \in BOOLEAN /\ reconcileDue \in BOOLEAN

\* A trade once shown, by event or by snapshot, stays shown, though answers
\* arrive of any earlier block and late events follow the snapshots that have
\* their trade; only a trade whose block was replaced may go.
ShownTradesStay == [][(snapshot.trades \ orphaned) \subseteq snapshot'.trades]_dashboardVars

\* "Bounded HTTP polling remains a recovery path" (docs/ARCHITECTURE.md:49):
\* with polling alone the page comes to show exactly the chain's trades.
PollingRecovers == <>[](snapshot.trades = (1 .. height) \ orphaned)
=============================================================================
