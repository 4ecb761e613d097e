----------------------------- MODULE MarketPage -----------------------------
(***************************************************************************)
(* The token list of a browser page (src/src/hooks/                        *)
(* use-factory-token-index.ts): server snapshots of the token index and of *)
(* its markets, trades and launches applied before the server knows them,  *)
(* and what localStorage keeps of both across reloads and tabs.            *)
(*                                                                         *)
(* One token stands for all: the hook treats each on its own. Trade n of   *)
(* the token is the number n; a token on the page is the feed of its       *)
(* trades (recentTrades, newest first) and how many the page counted       *)
(* (volume24h, buyers, sellers and trades move together). A server answer  *)
(* may be of any earlier time: caches between page and server keep one for *)
(* up to five minutes. Trades older than a day are not modelled, except    *)
(* that a remembered one is dropped (Expire).                              *)
(***************************************************************************)
EXTENDS Lists, FiniteSets

CONSTANTS
  None,        \* the token is not on the page
  MaxTraded,   \* bound: trades of the token
  MaxPending,  \* PENDING: trades that readPendingTrades returns at most (50)
  FeedLimit    \* TRADE_FEED_LIMIT, of the page and of the server alike (500)

VARIABLES
  launched,    \* the token exists on the chain
  traded,      \* its trades on the chain: 1 .. traded
  tokens,      \* React state: the token as it is shown, or None
  remembered,  \* localStorage PENDING_TRADES_KEY, newest first
  cached,      \* localStorage TOKEN_INDEX_CACHE_KEY: [tokens], or <<>>
  foreign,     \* another tab changed PENDING_TRADES_KEY: a storage event is due
  pendingLaunches, \* pendingLaunchesRef holds the token
  request,     \* the current request of refresh: its stage and whether background
  stale,       \* isCached
  reconciling  \* the token's reconciliation: idle, armed, and requests out

ASSUME MarketAssumption == MaxTraded \in Nat /\ MaxPending \in Nat /\ FeedLimit \in Nat

marketVars == <<launched, traded, tokens, remembered, cached, foreign,
          pendingLaunches, request, stale, reconciling>>
listVars == <<launched, traded>>
localVars == <<remembered, cached, foreign>>

NoRequest == [stage |-> "none", background |-> FALSE]
Latest(trades, limit) == SubSeq(trades, 1, IF Len(trades) < limit THEN Len(trades) ELSE limit)
Has(trades, t) == \E i \in DOMAIN trades : trades[i] = t

\* A market snapshot of the time when v trades had been made.
Market(v) ==
  LET newest == [i \in 1 .. v |-> v + 1 - i]
  IN  [feed |-> Latest(newest, FeedLimit), count |-> v]

NewToken == [feed |-> <<>>, count |-> 0]   \* tokenFromLiveLaunch, the index without markets

-----------------------------------------------------------------------------
(* Trades merged into a token *)

MergeTwice(token, t) ==
  IF token = None THEN None
  ELSE [feed |-> Latest(<<t>> \o token.feed, FeedLimit), count |-> token.count + 1]

MergeConfirmedTrade(token, t) ==
  IF token = None \/ Has(token.feed, t) THEN token
  ELSE [feed |-> Latest(<<t>> \o token.feed, FeedLimit), count |-> token.count + 1]

\* The remembered trades are merged newest first, so an older one lands on top.
MergeAll(token, trades) ==
  LET merged[i \in 0 .. Len(trades)] ==
        IF i = 0 THEN token ELSE MergeConfirmedTrade(merged[i - 1], trades[i])
  IN  merged[Len(trades)]

MergePendingTrades(token) == MergeAll(token, remembered)

RememberConfirmedTrade(t) == Latest(<<t>> \o Filtered(remembered, Nat \ {t}), MaxPending)

\* The list shown when the index answers `token`: a launch it does not have yet stays.
MergePendingLaunches(token) ==
  IF token = None /\ pendingLaunches THEN NewToken ELSE token

\* preserveMarketValues: an index entry keeps the market values already shown.
Preserve(token) == IF token # None /\ tokens # None THEN tokens ELSE token

-----------------------------------------------------------------------------
MarketInit ==
  /\ launched \in BOOLEAN
  /\ traded = 0
  /\ tokens = None
  /\ remembered = <<>>
  /\ cached = <<>>
  /\ foreign = FALSE
  /\ pendingLaunches = FALSE
  /\ request = [stage |-> "index", background |-> FALSE]
  /\ stale = FALSE
  /\ reconciling = [armed |-> FALSE, out |-> FALSE]

(* The chain, and the events the live bridge or the trade panel dispatch *)

TokenLaunches ==
  /\ ~launched
  /\ launched' = TRUE
  /\ UNCHANGED <<traded, tokens, localVars, pendingLaunches, request, stale, reconciling>>

TokenTrades ==
  /\ launched /\ traded < MaxTraded
  /\ traded' = traded + 1
  /\ UNCHANGED <<launched, tokens, localVars, pendingLaunches, request, stale, reconciling>>

\* A background refresh is dropped while any refresh is under way.
Background == IF request.stage = "none" THEN [stage |-> "index", background |-> TRUE] ELSE request

HandleLaunch ==
  /\ launched /\ ~pendingLaunches
  /\ pendingLaunches' = TRUE
  /\ tokens' = IF tokens = None THEN NewToken ELSE tokens
  /\ request' = Background
  /\ UNCHANGED <<listVars, localVars, stale, reconciling>>

\* The bridge delivers an event once; one whose trade is remembered no more, after
\* a reload and a replay, may come again.
HandleTrade(t) ==
  /\ t \in 1 .. traded /\ ~Has(remembered, t)
  /\ remembered' = RememberConfirmedTrade(t)
  /\ tokens' = MergeConfirmedTrade(tokens, t)
  /\ cached' = IF cached # <<>> THEN <<tokens'>> ELSE cached
  /\ reconciling' = [reconciling EXCEPT !.armed = TRUE]
  /\ UNCHANGED <<listVars, foreign, pendingLaunches, request, stale>>

\* Another tab had the event and remembered the trade; this page hears of it.
OtherTab(t) ==
  /\ t \in 1 .. traded /\ ~Has(remembered, t)
  /\ remembered' = RememberConfirmedTrade(t)
  /\ foreign' = TRUE
  /\ UNCHANGED <<listVars, tokens, cached, pendingLaunches, request, stale, reconciling>>

HandleStorage ==
  /\ foreign
  /\ foreign' = FALSE
  /\ tokens' = MergePendingTrades(tokens)
  /\ reconciling' = IF remembered # <<>> THEN [reconciling EXCEPT !.armed = TRUE] ELSE reconciling
  /\ UNCHANGED <<listVars, remembered, cached, pendingLaunches, request, stale>>

\* PENDING_TRADE_TTL: the oldest remembered trade is a day old.
Expire ==
  /\ remembered # <<>> /\ ~foreign
  /\ remembered' = SubSeq(remembered, 1, Len(remembered) - 1)
  /\ UNCHANGED <<listVars, tokens, cached, foreign, pendingLaunches, request, stale, reconciling>>

-----------------------------------------------------------------------------
(* refresh: the index, then the market of every token of it *)

\* Polling and the timers of a launch (background), the button and the
\* revalidation of a stale list (not): a newer request supersedes the last one.
Refresh(background) ==
  /\ background => request.stage = "none"
  /\ ~background => stale \/ request.stage = "none"
  /\ request' = [stage |-> "index", background |-> background]
  /\ UNCHANGED <<listVars, tokens, localVars, pendingLaunches, stale, reconciling>>

IndexLoaded(listed, old) ==
  /\ request.stage = "index"
  /\ listed => launched
  /\ LET index == IF listed THEN NewToken ELSE None
     IN  tokens' = MergePendingTrades(MergePendingLaunches(Preserve(index)))
  /\ pendingLaunches' = (pendingLaunches /\ ~listed)
  /\ request' = [request EXCEPT !.stage = IF listed THEN "market" ELSE "listed"]
  /\ stale' = old
  /\ UNCHANGED <<listVars, localVars, reconciling>>

\* The server failed, and so did the index the browser builds itself.
IndexFails ==
  /\ request.stage = "index"
  /\ request' = NoRequest
  /\ UNCHANGED <<listVars, tokens, localVars, pendingLaunches, stale, reconciling>>

Shown(token) ==
  /\ tokens' = token
  /\ pendingLaunches' = (pendingLaunches /\ request.stage # "market")

\* The market of the one token is answered, by the server or the explorer.
MarketLoaded(v) ==
  /\ request.stage = "market"
  /\ v \in 0 .. traded
  /\ Shown(MergePendingTrades(MergePendingLaunches(Market(v))))
  /\ cached' = <<tokens'>>
  /\ request' = NoRequest
  /\ UNCHANGED <<listVars, remembered, foreign, stale, reconciling>>

\* Neither answers: the list keeps the market values shown, and is not stored.
MarketFails ==
  /\ request.stage = "market"
  /\ Shown(MergePendingTrades(MergePendingLaunches(Preserve(NewToken))))
  /\ request' = NoRequest
  /\ UNCHANGED <<listVars, localVars, stale, reconciling>>

\* An index without the token: nothing to ask markets for.
NothingListed ==
  /\ request.stage = "listed"
  /\ Shown(MergePendingTrades(MergePendingLaunches(None)))
  /\ cached' = <<tokens'>>
  /\ request' = NoRequest
  /\ UNCHANGED <<listVars, remembered, foreign, stale, reconciling>>

-----------------------------------------------------------------------------
(* reconcileToken: outside the numbered requests, so it may answer in any order *)

ReconcileToken ==
  /\ reconciling.armed
  /\ reconciling' = [armed |-> FALSE, out |-> TRUE]
  /\ UNCHANGED <<listVars, tokens, localVars, pendingLaunches, request, stale>>

ApplyUnmerged(v) == IF tokens = None THEN None ELSE Market(v)

ApplySnapshot(v) == MergePendingTrades(IF tokens = None THEN None ELSE Market(v))

Reconciled(v) ==
  /\ reconciling.out
  /\ v \in 0 .. traded
  /\ tokens' = ApplySnapshot(v)
  /\ \E again \in BOOLEAN : reconciling' = [reconciling EXCEPT !.out = again]
  /\ UNCHANGED <<listVars, localVars, pendingLaunches, request, stale>>

ReconcileFails ==
  /\ reconciling.out
  /\ reconciling' = [reconciling EXCEPT !.out = FALSE]
  /\ UNCHANGED <<listVars, tokens, localVars, pendingLaunches, request, stale>>

\* The page is loaded again: what it shows comes from localStorage.
Reload ==
  /\ tokens' = IF cached # <<>> THEN MergePendingTrades(cached[1]) ELSE None
  /\ stale' = (cached # <<>>)
  /\ pendingLaunches' = FALSE
  /\ request' = [stage |-> "index", background |-> FALSE]
  /\ reconciling' = [armed |-> FALSE, out |-> FALSE]
  /\ foreign' = FALSE
  /\ UNCHANGED <<listVars, remembered, cached>>

MarketNext ==
  \/ TokenLaunches \/ TokenTrades \/ HandleLaunch \/ HandleStorage \/ Expire
  \/ \E t \in 1 .. MaxTraded : HandleTrade(t) \/ OtherTab(t)
  \/ \E background \in BOOLEAN : Refresh(background)
  \/ \E listed, old \in BOOLEAN : IndexLoaded(listed, old)
  \/ IndexFails \/ MarketFails \/ NothingListed \/ ReconcileToken \/ ReconcileFails \/ Reload
  \/ \E v \in 0 .. MaxTraded : MarketLoaded(v) \/ Reconciled(v)

MarketSpec == MarketInit /\ [][MarketNext]_marketVars

-----------------------------------------------------------------------------
Feeds == UNION {[1 .. n -> 1 .. MaxTraded] : n \in 0 .. FeedLimit}

MarketTypeOK ==
  /\ launched \in BOOLEAN /\ traded \in 0 .. MaxTraded
  /\ tokens = None \/ (tokens.feed \in Feeds /\ tokens.count \in 0 .. 2 * MaxTraded)
  /\ remembered \in UNION {[1 .. n -> 1 .. MaxTraded] : n \in 0 .. MaxPending}
  /\ cached = <<>> \/ cached[1] = None \/ cached[1].feed \in Feeds
  /\ foreign \in BOOLEAN /\ pendingLaunches \in BOOLEAN /\ stale \in BOOLEAN
  /\ request \in [stage : {"none", "index", "market", "listed"}, background : BOOLEAN]
  /\ reconciling \in [armed : BOOLEAN, out : BOOLEAN]

\* A trade that was shown and is still remembered stays shown, whatever older
\* answer arrives (index, market, reconciliation) and through a reload, as long
\* as the token is listed and the feed has room for all its trades.
RememberedStaysShown ==
  [][ \A t \in 1 .. traded :
        (/\ traded' <= FeedLimit /\ tokens # None /\ tokens' # None
         /\ Has(tokens.feed, t) /\ Has(remembered', t)) => Has(tokens'.feed, t) ]_marketVars

\* Volume and trade count include every trade of the feed exactly once, though
\* it may reach the page as an event, from another tab, from storage and in
\* snapshots; while the feed has room for all trades.
CountedOnce ==
  (tokens # None /\ traded <= FeedLimit) =>
    /\ tokens.count = Len(tokens.feed)
    /\ \A i, j \in DOMAIN tokens.feed : i # j => tokens.feed[i] # tokens.feed[j]
=============================================================================
