----------------------------- MODULE PageProofs -----------------------------
(***************************************************************************)
(* Proofs about the pages that merge what events told them into snapshots  *)
(* that answer late: the token's page, its holder and buyback cards and    *)
(* the token list, for any number of trades, replaced blocks and cards;    *)
(* and about the wallet, for any controls and connectors.                  *)
(***************************************************************************)
EXTENDS TokenDashboard, HolderCards, MarketPage, BuybackCard, WalletSession, DataProofs

\* The token's page.

\* A trade shown is in the chain's part of the snapshot, or waits to be found.  Once
\* found it may be forgotten while an older snapshot is shown, but only with another
\* trade still waited for that is later, or that no snapshot will ever have.
ShownIsKept ==
    \A t \in snapshot.trades \ orphaned :
        \/ t \in 1 .. snapshot.block
        \/ t \in pendingTrades
        \/ \E p \in pendingTrades : p > t \/ p \in orphaned

DashboardInv == DashboardTypeOK /\ told \subseteq 1 .. height /\ ShownIsKept

LEMMA DashboardStarts == DashboardInit => DashboardInv
  <1> SUFFICES ASSUME DashboardInit PROVE DashboardInv
    OBVIOUS
  <1>1. snapshot.trades = {} /\ snapshot.block = 0 /\ told = {} /\ pendingTrades = {}
    BY DEF DashboardInit
  <1>2. busy = (flight # "none") /\ staleShown \in BOOLEAN /\ reconcileDue \in BOOLEAN
    BY DEF DashboardInit
  <1>3. DashboardTypeOK
    BY <1>1, <1>2, DashboardAssumption DEF DashboardInit, DashboardTypeOK
  <1> QED
    BY <1>1, <1>3 DEF DashboardInv, ShownIsKept

LEMMA AnswerKeepsShown ==
    ASSUME DashboardInv, NEW h \in 0 .. MaxHeight, NEW late \in BOOLEAN, MarketAnswered(h, late)
    PROVE  DashboardInv' /\ (snapshot.trades \ orphaned) \subseteq snapshot'.trades
  <1>1. DashboardTypeOK /\ told \subseteq 1 .. height /\ ShownIsKept
    BY DEF DashboardInv
  <1>2. /\ UNCHANGED <<height, orphaned, told, reconcileDue>> /\ h \in 0 .. height
        /\ flight' = "none" /\ busy' = FALSE /\ staleShown' = late
        /\ ApplyRefreshedSnapshot(SnapshotOf(h))
    BY DEF MarketAnswered, blockVars, MarketLands, Released
  <1> DEFINE next == SnapshotOf(h)
  <1>3. next.block = h /\ next.trades = (1 .. h) \ orphaned
    BY DEF SnapshotOf
  <1>4. height \in 0 .. MaxHeight /\ snapshot.block \in 0 .. MaxHeight /\ h \in Nat
        /\ pendingTrades \subseteq 1 .. height /\ snapshot.trades \subseteq 1 .. MaxHeight
    BY <1>1, <1>2, DashboardAssumption DEF DashboardTypeOK
  <1> HIDE DEF next
  <1>5. CASE Older(next)
    <2>1. UNCHANGED <<snapshot, pendingTrades>>
      BY <1>2, <1>5 DEF ApplyRefreshedSnapshot, next
    <2>2. DashboardTypeOK'
      BY <1>1, <1>2, <2>1 DEF DashboardTypeOK
    <2> QED
      BY <1>1, <1>2, <2>1, <2>2 DEF DashboardInv, ShownIsKept
  <1>6. CASE ~Older(next)
    <2>1. PICK gone \in SUBSET pendingTrades : Found(next, gone) /\ pendingTrades' = pendingTrades \ gone
      BY <1>2, <1>6 DEF ApplyRefreshedSnapshot, next
    <2>2. snapshot' = (IF Lacks(next) THEN snapshot ELSE next) /\ snapshot.block <= h
      BY <1>2, <1>3, <1>4, <1>6 DEF ApplyRefreshedSnapshot, next, Older
    <2>3. CASE Lacks(next)
      <3>1. PICK p \in pendingTrades : p \notin next.trades
        BY <2>3 DEF Lacks
      <3>2. p \in pendingTrades' /\ (p > h \/ p \in orphaned)
        BY <1>3, <1>4, <2>1, <3>1 DEF Found
      <3>3. \A q \in gone : q \in 1 .. h /\ q \notin orphaned
        BY <1>3, <2>1 DEF Found
      <3>4. snapshot' = snapshot
        BY <2>2, <2>3
      <3>5. ShownIsKept'
        <4>1. SUFFICES ASSUME NEW t \in snapshot.trades \ orphaned, t \notin 1 .. snapshot.block,
                              t \notin pendingTrades'
                       PROVE  \E q \in pendingTrades' : q > t \/ q \in orphaned
          BY <1>2, <3>4 DEF ShownIsKept
        <4>2. CASE t \in pendingTrades
          BY <1>4, <2>1, <3>2, <3>3, <4>1, <4>2
        <4>3. CASE t \notin pendingTrades
          <5>1. PICK q \in pendingTrades : q > t \/ q \in orphaned
            BY <1>1, <4>1, <4>3 DEF ShownIsKept
          <5>2. CASE q \in pendingTrades'
            BY <5>1, <5>2
          <5>3. CASE q \notin pendingTrades'
            <6>1. q \in 1 .. h /\ q > t
              BY <2>1, <3>3, <5>1, <5>3
            <6>2. p > t \/ p \in orphaned
              BY <1>4, <3>2, <6>1
            <6> QED
              BY <3>2, <6>2
          <5> QED
            BY <5>2, <5>3
        <4> QED
          BY <4>2, <4>3
      <3>6. DashboardTypeOK'
        BY <1>1, <1>2, <2>1, <3>4 DEF DashboardTypeOK
      <3> QED
        BY <1>1, <1>2, <3>4, <3>5, <3>6 DEF DashboardInv
    <2>4. CASE ~Lacks(next)
      <3>1. snapshot' = next /\ pendingTrades \subseteq next.trades
        BY <2>2, <2>4 DEF Lacks
      <3>2. \A t \in snapshot.trades \ orphaned : t \in 1 .. h
        <4>1. SUFFICES ASSUME NEW t \in snapshot.trades \ orphaned PROVE t \in 1 .. h
          OBVIOUS
        <4>2. t \in 1 .. MaxHeight
          BY <1>4, <4>1
        <4>3. CASE t \in 1 .. snapshot.block
          BY <1>4, <2>2, <4>3
        <4>4. CASE t \in pendingTrades
          BY <1>3, <3>1, <4>4
        <4>5. CASE \E q \in pendingTrades : q > t \/ q \in orphaned
          BY <1>3, <1>4, <3>1, <4>2, <4>5
        <4> QED
          BY <1>1, <4>1, <4>3, <4>4, <4>5 DEF ShownIsKept
      <3>3. ShownIsKept'
        BY <1>2, <1>3, <3>1 DEF ShownIsKept
      <3>4. DashboardTypeOK'
        <4>1. next.trades \subseteq 1 .. MaxHeight
          BY <1>2, <1>3, <1>4, DashboardAssumption
        <4>2. pendingTrades' \subseteq told
          BY <1>1, <2>1 DEF DashboardTypeOK
        <4>3. busy' = (flight' # "none") /\ staleShown' \in BOOLEAN /\ reconcileDue' \in BOOLEAN
          BY <1>1, <1>2 DEF DashboardTypeOK
        <4> QED
          BY <1>1, <1>2, <1>3, <3>1, <4>1, <4>2, <4>3 DEF DashboardTypeOK
      <3> QED
        BY <1>1, <1>2, <1>3, <3>1, <3>2, <3>3, <3>4 DEF DashboardInv
    <2> QED
      BY <2>3, <2>4
  <1> QED
    BY <1>5, <1>6

LEMMA DashboardStep ==
    ASSUME DashboardInv, [DashboardNext]_dashboardVars
    PROVE  DashboardInv' /\ (snapshot.trades \ orphaned) \subseteq snapshot'.trades
  <1>1. DashboardTypeOK /\ told \subseteq 1 .. height /\ ShownIsKept
    BY DEF DashboardInv
  <1>2. CASE NextBlock
    <2>1. /\ height' = height + 1 /\ height < MaxHeight
          /\ UNCHANGED <<orphaned, told, snapshot, pendingTrades, flight, busy, staleShown, reconcileDue>>
      BY <1>2 DEF NextBlock
    <2> QED
      BY <1>1, <2>1, DashboardAssumption DEF DashboardInv, DashboardTypeOK, ShownIsKept
  <1>3. CASE Orphan
    <2>1. /\ orphaned' = orphaned \union {height} /\ height > 0
          /\ UNCHANGED <<height, told, snapshot, pendingTrades, flight, busy, staleShown, reconcileDue>>
      BY <1>3 DEF Orphan
    <2> QED
      BY <1>1, <2>1, DashboardAssumption DEF DashboardInv, DashboardTypeOK, ShownIsKept
  <1>4. ASSUME NEW t \in 1 .. MaxHeight, ShowTrade(t)
        PROVE  DashboardInv' /\ (snapshot.trades \ orphaned) \subseteq snapshot'.trades
    <2>1. /\ t \in 1 .. height /\ told' = told \union {t} /\ pendingTrades' = pendingTrades \union {t}
          /\ snapshot' = [snapshot EXCEPT !.trades = @ \union {t}] /\ reconcileDue' = TRUE
          /\ UNCHANGED <<height, orphaned, flight, busy, staleShown>>
      BY <1>4 DEF ShowTrade, blockVars
    <2>2. snapshot'.trades = snapshot.trades \union {t} /\ snapshot'.block = snapshot.block
      BY <2>1
    <2>3. DashboardTypeOK'
      BY <1>1, <2>1, <2>2 DEF DashboardTypeOK
    <2>4. ShownIsKept'
      BY <1>1, <2>1, <2>2 DEF ShownIsKept
    <2> QED
      BY <1>1, <2>1, <2>2, <2>3, <2>4 DEF DashboardInv
  <1>5. CASE PollMarket \/ ReconcileMarket \/ RevalidateMarket \/ ReloadMarket \/ MarketUnanswered
    <2>1. /\ UNCHANGED <<height, orphaned, told, snapshot, pendingTrades>>
          /\ staleShown' \in {staleShown, TRUE} /\ reconcileDue' \in {reconcileDue, FALSE}
          /\ \/ UNCHANGED <<flight, busy>>
             \/ flight' \in {"background", "foreground"} /\ busy' = TRUE
             \/ flight' = "none" /\ busy' = FALSE
      BY <1>5 DEF PollMarket, ReconcileMarket, RevalidateMarket, ReloadMarket, MarketUnanswered,
                  Starts, MarketLands, Released, blockVars
    <2>2. DashboardTypeOK'
      BY <1>1, <2>1 DEF DashboardTypeOK
    <2> QED
      BY <1>1, <2>1, <2>2 DEF DashboardInv, ShownIsKept
  <1>6. CASE \E h \in 0 .. MaxHeight, late \in BOOLEAN : MarketAnswered(h, late)
    BY <1>6, AnswerKeepsShown
  <1>7. CASE UNCHANGED dashboardVars
    BY <1>1, <1>7 DEF dashboardVars, DashboardInv, DashboardTypeOK, ShownIsKept
  <1> QED
    BY <1>2, <1>3, <1>4, <1>5, <1>6, <1>7 DEF DashboardNext

LEMMA DashboardInvariant == DashboardSpec => []DashboardInv
  <1>1. DashboardInv /\ [DashboardNext]_dashboardVars => DashboardInv'
    BY DashboardStep
  <1> QED
    BY DashboardStarts, <1>1, PTL DEF DashboardSpec

\* Every state of the token's page has its type; only a request under way is busy.
THEOREM DashboardTyped == DashboardSpec => []DashboardTypeOK
  <1>1. DashboardInv => DashboardTypeOK
    BY DEF DashboardInv
  <1> QED
    BY DashboardInvariant, <1>1, PTL

\* A trade once shown stays shown, whatever older answer arrives in whatever order,
\* unless its block was replaced.
THEOREM ShownTradesKept == DashboardSpec => ShownTradesStay
  <1>1. DashboardInv /\ [DashboardNext]_dashboardVars =>
            [(snapshot.trades \ orphaned) \subseteq snapshot'.trades]_dashboardVars
    BY DashboardStep
  <1> QED
    BY DashboardInvariant, <1>1, PTL DEF DashboardSpec, ShownTradesStay
-----------------------------------------------------------------------------
(* The holder cards. *)

\* A trade is added by its event at most, and its event comes once.
Counts(shown, events) ==
    shown # NoSnapshot =>
      /\ shown \in [TradeNumber -> 0 .. 2]
      /\ \A t \in TradeNumber \ events : shown[t] <= 1

CardsInv ==
    /\ CardsTypeOK
    /\ \A c \in Card : Counts(holders[c], heard)
    /\ GuessesAreReplaced

LEMMA ServerSnapshots ==
    ASSUME NEW v \in 0 .. MaxMade
    PROVE  FromServer(HoldersAt(v)) /\ Counts(HoldersAt(v), heard)
  BY CardsAssumption DEF FromServer, HoldersAt, Counts, TradeNumber

LEMMA KeptSnapshot ==
    ASSUME CardsTypeOK
    PROVE  Counts(Kept, heard) /\ (Kept # NoSnapshot => FromServer(Kept))
  BY ServerSnapshots DEF CardsTypeOK, Kept, Counts

LEMMA CardsStart == CardsInit => CardsInv
  <1> SUFFICES ASSUME CardsInit PROVE CardsInv
    OBVIOUS
  <1>1. kept = NoSnapshot \/ kept \in 0 .. MaxMade
    BY CardsAssumption DEF CardsInit
  <1>2. Counts(Kept, heard) /\ (Kept # NoSnapshot => FromServer(Kept))
    BY <1>1, ServerSnapshots DEF Kept, Counts
  <1>3. CardsTypeOK
    BY <1>1, <1>2, CardsAssumption DEF CardsInit, CardsTypeOK, Counts
  <1> QED
    BY <1>2, <1>3 DEF CardsInit, CardsInv, GuessesAreReplaced

\* A request of some cards: none of them stops asking.
LEMMA AskingKeepsTypes ==
    ASSUME CardsTypeOK, NEW cards \in SUBSET Card, NEW key \in {"cached", "fresh"},
           NEW background \in BOOLEAN, AskFor(cards, key, background)
    PROVE  /\ asking' \in [Card -> {"none", "cached", "fresh"}]
           /\ \A c \in Card : asking[c] # "none" \/ c \in cards => asking'[c] # "none"
           /\ \A c \in Card \ cards : asking'[c] = asking[c]
           /\ loading' \subseteq {c \in Card : asking'[c] # "none"}
           /\ {asking'[c] : c \in Card} \ {"none"} \subseteq requested'
  <1>1. /\ asking \in [Card -> {"none", "cached", "fresh"}]
        /\ loading \subseteq {c \in Card : asking[c] # "none"}
        /\ \A c \in Card : asking[c] # "none" => asking[c] \in requested
    BY DEF CardsTypeOK
  <1>2. asking' = [c \in Card |-> IF c \in cards THEN key ELSE asking[c]]
    BY DEF AskFor
  <1>3. loading' \subseteq loading \union cards
    BY DEF AskFor
  <1>4. requested \subseteq requested' /\ (cards # {} => key \in requested')
    BY DEF AskFor
  <1>5. /\ asking' \in [Card -> {"none", "cached", "fresh"}]
        /\ \A c \in Card : asking[c] # "none" \/ c \in cards => asking'[c] # "none"
        /\ \A c \in Card \ cards : asking'[c] = asking[c]
    BY <1>1, <1>2
  <1>6. loading' \subseteq {c \in Card : asking'[c] # "none"}
    BY <1>1, <1>3, <1>5
  <1>7. \A c \in Card : asking'[c] # "none" => asking'[c] \in requested'
    BY <1>1, <1>2, <1>4
  <1> QED
    BY <1>5, <1>6, <1>7

LEMMA EventsKeepCards ==
    ASSUME CardsInv,
           \/ NextTrade \/ HandleHolderEvent
           \/ \E t \in TradeNumber : CountTrade(t)
    PROVE  CardsInv'
  <1>1. CardsTypeOK /\ GuessesAreReplaced /\ \A c \in Card : Counts(holders[c], heard)
    BY DEF CardsInv
  <1>2. CASE NextTrade
    <2>1. /\ made' = made + 1 /\ made < MaxMade
          /\ UNCHANGED <<heard, holders, autoRefresh, asking, loading, requested, old, timers, kept>>
      BY <1>2 DEF NextTrade, askVars
    <2>2. CardsTypeOK'
      <3>1. made' \in 0 .. MaxMade /\ heard' \subseteq 1 .. made'
        BY <1>1, <2>1, CardsAssumption DEF CardsTypeOK
      <3> QED
        BY <1>1, <2>1, <3>1 DEF CardsTypeOK
    <2> QED
      BY <1>1, <2>1, <2>2 DEF CardsInv, GuessesAreReplaced, Counts
  <1>3. CASE HandleHolderEvent
    <2>1. /\ timers' = Card
          /\ UNCHANGED <<made, heard, holders, autoRefresh, asking, loading, requested, old, kept>>
      BY <1>3 DEF HandleHolderEvent, askVars, pageVars
    <2> QED
      BY <1>1, <2>1 DEF CardsInv, CardsTypeOK, GuessesAreReplaced, Counts
  <1>4. ASSUME NEW t \in TradeNumber, CountTrade(t) PROVE CardsInv'
    <2>1. /\ t \in 1 .. made /\ t \notin heard /\ heard' = heard \union {t} /\ timers' = Card
          /\ holders' = [c \in Card |-> Apply(holders[c], t)]
          /\ UNCHANGED <<made, autoRefresh, asking, loading, requested, old, kept>>
      BY <1>4 DEF CountTrade, askVars
    <2>2. \A c \in Card : Counts(holders'[c], heard')
      <3>1. SUFFICES ASSUME NEW c \in Card, holders'[c] # NoSnapshot
                     PROVE  /\ holders'[c] \in [TradeNumber -> 0 .. 2]
                            /\ \A s \in TradeNumber \ heard' : holders'[c][s] <= 1
        BY DEF Counts
      <3>2. holders[c] # NoSnapshot /\ holders'[c] = [holders[c] EXCEPT ![t] = holders[c][t] + 1]
        BY <2>1, <3>1 DEF Apply
      <3>3. /\ holders[c] \in [TradeNumber -> 0 .. 2] /\ holders[c][t] <= 1
            /\ \A s \in TradeNumber \ heard : holders[c][s] <= 1
        BY <1>1, <2>1, <3>2 DEF Counts
      <3>4. holders[c][t] + 1 \in 0 .. 2
        BY <3>3
      <3> QED
        BY <2>1, <3>2, <3>3, <3>4
    <2>3. CardsTypeOK'
      <3>1. \A c \in Card : holders'[c] = NoSnapshot \/ holders'[c] \in [TradeNumber -> 0 .. 2]
        BY <2>2 DEF Counts
      <3> QED
        BY <1>1, <2>1, <3>1 DEF CardsTypeOK
    <2> QED
      BY <2>1, <2>2, <2>3 DEF CardsInv, GuessesAreReplaced
  <1> QED
    BY <1>2, <1>3, <1>4

\* A request of one card, that a poll, a timer or the button starts.
LEMMA RequestsKeepCards ==
    ASSUME CardsInv, NEW c \in Card,
           ReconcileHolders(c) \/ PollHolders(c) \/ RevalidateHolders(c) \/ RefreshHolders(c)
    PROVE  CardsInv'
  <1>1. CardsTypeOK /\ GuessesAreReplaced /\ \A d \in Card : Counts(holders[d], heard)
    BY DEF CardsInv
  <1>2. UNCHANGED <<made, heard, holders, autoRefresh, old, kept>>
    BY DEF ReconcileHolders, PollHolders, RevalidateHolders, RefreshHolders, pageVars
  <1>3. timers \ {c} \subseteq timers' /\ timers' \subseteq timers
        /\ (c \in timers \ timers' => asking'[c] # "none")
    <2>1. CASE ReconcileHolders(c)
      <3>1. CASE asking[c] = "none"
        BY <1>1, <2>1, <3>1 DEF ReconcileHolders, AskFor, CardsTypeOK
      <3>2. CASE asking[c] # "none"
        BY <2>1, <3>2 DEF ReconcileHolders, askVars
      <3> QED
        BY <3>1, <3>2, <2>1 DEF ReconcileHolders
    <2>2. CASE PollHolders(c) \/ RevalidateHolders(c) \/ RefreshHolders(c)
      BY <2>2 DEF PollHolders, RevalidateHolders, RefreshHolders
    <2> QED
      BY <2>1, <2>2
  <1>4. /\ asking' \in [Card -> {"none", "cached", "fresh"}]
        /\ \A d \in Card : asking[d] # "none" => asking'[d] # "none"
        /\ loading' \subseteq {d \in Card : asking'[d] # "none"}
        /\ {asking'[d] : d \in Card} \ {"none"} \subseteq requested'
    <2>1. CASE UNCHANGED askVars
      BY <1>1, <2>1 DEF askVars, CardsTypeOK
    <2>2. CASE \E key \in {"cached", "fresh"}, background \in BOOLEAN : AskFor({c}, key, background)
      BY <1>1, <2>2, AskingKeepsTypes
    <2> QED
      BY <2>1, <2>2 DEF ReconcileHolders, PollHolders, RevalidateHolders, RefreshHolders
  <1>5. CardsTypeOK'
    BY <1>1, <1>2, <1>3, <1>4 DEF CardsTypeOK
  <1>6. GuessesAreReplaced'
    BY <1>1, <1>2, <1>3, <1>4 DEF GuessesAreReplaced, FromServer, HoldersAt
  <1> QED
    BY <1>1, <1>2, <1>5, <1>6 DEF CardsInv, Counts

LEMMA LoadingKeepsCards ==
    ASSUME CardsInv, (\E c \in Card : TabChanges(c)) \/ ReloadHolders
    PROVE  CardsInv'
  <1>1. CardsTypeOK /\ GuessesAreReplaced /\ \A d \in Card : Counts(holders[d], heard)
    BY DEF CardsInv
  <1>2. PICK cards \in SUBSET Card :
          /\ Loads(cards, autoRefresh')
          /\ UNCHANGED <<made, heard, kept>>
          /\ timers \ cards \subseteq timers' /\ timers' \subseteq Card
          /\ autoRefresh \ cards \subseteq autoRefresh'
          /\ autoRefresh' \subseteq Card /\ Always \subseteq autoRefresh'
    <2>1. CASE ReloadHolders
      BY <1>1, <2>1 DEF ReloadHolders, pageVars, CardsTypeOK, Loads
    <2>2. ASSUME NEW c \in Card, TabChanges(c)
          PROVE  /\ Loads({c}, autoRefresh')
                 /\ UNCHANGED <<made, heard, kept>>
                 /\ timers \ {c} \subseteq timers' /\ timers' \subseteq Card
                 /\ autoRefresh \ {c} \subseteq autoRefresh'
                 /\ autoRefresh' \subseteq Card /\ Always \subseteq autoRefresh'
      BY <1>1, <2>2 DEF TabChanges, pageVars, CardsTypeOK
    <2> QED
      BY <2>1, <2>2
  <1>3. /\ holders' = [c \in Card |-> IF c \in cards THEN Kept ELSE holders[c]]
        /\ old' = old \ cards
        /\ AskFor(cards \intersect autoRefresh', "cached", FALSE)
    BY <1>2 DEF Loads
  <1>4. /\ asking' \in [Card -> {"none", "cached", "fresh"}]
        /\ \A d \in Card : asking[d] # "none" => asking'[d] # "none"
        /\ loading' \subseteq {d \in Card : asking'[d] # "none"}
        /\ {asking'[d] : d \in Card} \ {"none"} \subseteq requested'
    BY <1>1, <1>3, AskingKeepsTypes
  <1>5. \A d \in Card : Counts(holders'[d], heard')
    BY <1>1, <1>2, <1>3, KeptSnapshot DEF Counts
  <1>6. CardsTypeOK'
    <2>1. \A d \in Card : holders'[d] = NoSnapshot \/ holders'[d] \in [TradeNumber -> 0 .. 2]
      BY <1>5 DEF Counts
    <2> QED
      BY <1>1, <1>2, <1>3, <1>4, <2>1 DEF CardsTypeOK
  <1>7. GuessesAreReplaced'
    BY <1>1, <1>2, <1>3, <1>4, KeptSnapshot DEF GuessesAreReplaced, FromServer, HoldersAt
  <1> QED
    BY <1>5, <1>6, <1>7 DEF CardsInv

LEMMA LandingKeepsTypes ==
    ASSUME CardsTypeOK, NEW key \in {"cached", "fresh"}, HoldersLand(key)
    PROVE  /\ asking' \in [Card -> {"none", "cached", "fresh"}]
           /\ \A d \in Card \ Waiting(key) : asking'[d] = asking[d]
           /\ loading' \subseteq {d \in Card : asking'[d] # "none"}
           /\ {asking'[d] : d \in Card} \ {"none"} \subseteq requested'
  <1>1. /\ asking \in [Card -> {"none", "cached", "fresh"}]
        /\ loading \subseteq {c \in Card : asking[c] # "none"}
        /\ \A c \in Card : asking[c] # "none" => asking[c] \in requested
    BY DEF CardsTypeOK
  <1>2. /\ asking' = [c \in Card |-> IF asking[c] = key THEN "none" ELSE asking[c]]
        /\ requested' = requested \ {key} /\ loading' = loading \ Waiting(key)
    BY DEF HoldersLand
  <1>3. \A c \in Card : asking'[c] # "none" => asking'[c] \in requested'
    BY <1>1, <1>2
  <1> QED
    BY <1>1, <1>2, <1>3 DEF Waiting

LEMMA AnswersKeepCards ==
    ASSUME CardsInv, NEW key \in {"cached", "fresh"},
           \/ HoldersUnanswered(key)
           \/ \E v \in 0 .. MaxMade, late \in BOOLEAN : HoldersAnswered(key, v, late)
    PROVE  CardsInv'
  <1>1. CardsTypeOK /\ GuessesAreReplaced /\ \A d \in Card : Counts(holders[d], heard)
    BY DEF CardsInv
  <1>2. /\ asking' \in [Card -> {"none", "cached", "fresh"}]
        /\ \A d \in Card \ Waiting(key) : asking'[d] = asking[d]
        /\ loading' \subseteq {d \in Card : asking'[d] # "none"}
        /\ {asking'[d] : d \in Card} \ {"none"} \subseteq requested'
    BY <1>1, LandingKeepsTypes DEF HoldersUnanswered, HoldersAnswered
  <1>3. UNCHANGED <<made, heard, autoRefresh, timers>> /\ Waiting(key) \subseteq Card
    BY DEF HoldersUnanswered, HoldersAnswered, pageVars, Waiting
  <1>4. CASE UNCHANGED <<holders, kept>> /\ old' = old \union Waiting(key)
    <2>1. CardsTypeOK'
      BY <1>1, <1>2, <1>3, <1>4 DEF CardsTypeOK
    <2>2. GuessesAreReplaced'
      BY <1>1, <1>2, <1>3, <1>4 DEF GuessesAreReplaced, FromServer, HoldersAt
    <2> QED
      BY <1>1, <1>3, <1>4, <2>1, <2>2 DEF CardsInv, Counts
  <1>5. CASE \E v \in 0 .. MaxMade, late \in BOOLEAN :
               HoldersAnswered(key, v, late) /\ Waiting(key) # {}
    <2>1. PICK v \in 0 .. MaxMade :
            /\ holders' = [c \in Card |-> HoldersAt(v)] /\ kept' = v
            /\ old' \subseteq old \union Waiting(key)
      BY <1>5 DEF HoldersAnswered
    <2>2. \A d \in Card : Counts(holders'[d], heard') /\ FromServer(holders'[d])
      BY <1>3, <2>1, ServerSnapshots DEF Counts, FromServer, HoldersAt
    <2>3. CardsTypeOK'
      <3>1. \A d \in Card : holders'[d] = NoSnapshot \/ holders'[d] \in [TradeNumber -> 0 .. 2]
        BY <2>2 DEF Counts
      <3> QED
        BY <1>1, <1>2, <1>3, <2>1, <3>1 DEF CardsTypeOK
    <2>4. GuessesAreReplaced'
      BY <2>2 DEF GuessesAreReplaced
    <2> QED
      BY <2>2, <2>3, <2>4 DEF CardsInv
  <1> QED
    BY <1>4, <1>5 DEF HoldersUnanswered, HoldersAnswered, Noticed

LEMMA CardsStep == CardsInv /\ [CardsNext]_cardsVars => CardsInv'
  <1> SUFFICES ASSUME CardsInv, [CardsNext]_cardsVars PROVE CardsInv'
    OBVIOUS
  <1>1. CASE NextTrade \/ HandleHolderEvent \/ \E t \in TradeNumber : CountTrade(t)
    BY <1>1, EventsKeepCards
  <1>2. CASE \E c \in Card : ReconcileHolders(c) \/ PollHolders(c) \/ RevalidateHolders(c) \/ RefreshHolders(c)
    BY <1>2, RequestsKeepCards
  <1>3. CASE (\E c \in Card : TabChanges(c)) \/ ReloadHolders
    BY <1>3, LoadingKeepsCards
  <1>4. CASE \E key \in {"cached", "fresh"} :
               \/ HoldersUnanswered(key)
               \/ \E v \in 0 .. MaxMade, late \in BOOLEAN : HoldersAnswered(key, v, late)
    BY <1>4, AnswersKeepCards
  <1>5. CASE UNCHANGED cardsVars
    BY <1>5 DEF cardsVars, CardsInv, CardsTypeOK, Counts, GuessesAreReplaced, FromServer, HoldersAt
  <1> QED
    BY <1>1, <1>2, <1>3, <1>4, <1>5 DEF CardsNext

LEMMA CardsInvariant == CardsSpec => []CardsInv
  BY CardsStart, CardsStep, PTL DEF CardsSpec

\* Every state of the holder cards has its type: no trade is counted more than twice.
THEOREM CardsTyped == CardsSpec => []CardsTypeOK
  <1>1. CardsInv => CardsTypeOK
    BY DEF CardsInv
  <1> QED
    BY CardsInvariant, <1>1, PTL

\* Balances that no server snapshot has are always about to be replaced, whichever of
\* the cards asked, was answered, failed or was hidden in between.
THEOREM GuessesReplaced == CardsSpec => []GuessesAreReplaced
  <1>1. CardsInv => GuessesAreReplaced
    BY DEF CardsInv
  <1> QED
    BY CardsInvariant, <1>1, PTL

-----------------------------------------------------------------------------
(* The token list. *)

\* The walk over the trades is defined, whatever the token.
LEMMA WalkOfMerges ==
    ASSUME NEW token, NEW trades \in Seq(Nat)
    PROVE  \E walk :
             /\ DOMAIN walk = 0 .. Len(trades) /\ walk[0] = token
             /\ \A i \in 1 .. Len(trades) : walk[i] = MergeConfirmedTrade(walk[i - 1], trades[i])
             /\ MergeAll(token, trades) = walk[Len(trades)]
  <1> DEFINE G(n, f) == f = [i \in 0 .. n |->
                               IF i = 0 THEN token ELSE MergeConfirmedTrade(f[i - 1], trades[i])]
             T == {n \in Nat : n <= Len(trades) /\ ~\E f : G(n, f)}
  <1>1. T = {}
    <2>1. SUFFICES ASSUME T # {} PROVE FALSE
      OBVIOUS
    <2>2. PICK n \in T : \A m \in T : n <= m
      BY <2>1, LeastNumber
    <2>3. n # 0
      <3>1. G(0, [i \in 0 .. 0 |-> token])
        OBVIOUS
      <3> QED
        BY <2>2, <3>1
    <2>4. PICK f : G(n - 1, f)
      <3>1. n - 1 \in Nat /\ n - 1 <= Len(trades) /\ ~(n <= n - 1)
        BY <2>2, <2>3
      <3>2. n - 1 \notin T
        BY <2>2, <3>1
      <3> HIDE DEF G
      <3> QED
        BY <3>1, <3>2
    <2> DEFINE g == [i \in 0 .. n |-> IF i = n THEN MergeConfirmedTrade(f[n - 1], trades[n]) ELSE f[i]]
    <2>5. G(n, g)
      <3>1. ASSUME NEW i \in 0 .. n
            PROVE  g[i] = IF i = 0 THEN token ELSE MergeConfirmedTrade(g[i - 1], trades[i])
        <4>1. CASE i = n
          BY <2>2, <2>3, <4>1
        <4>2. CASE i # n
          <5>1. i \in 0 .. (n - 1) /\ g[i] = f[i] /\ (i # 0 => g[i - 1] = f[i - 1])
            BY <2>2, <3>1, <4>2
          <5> QED
            BY <2>4, <5>1
        <4> QED
          BY <4>1, <4>2
      <3> HIDE DEF g
      <3>2. g = [i \in 0 .. n |-> g[i]]
        BY DEF g
      <3> QED
        BY <3>1, <3>2
    <2> QED
      BY <2>2, <2>5
  <1>2. \E f : G(Len(trades), f)
    BY <1>1
  <1> DEFINE merged == CHOOSE f : G(Len(trades), f)
  <1>3. G(Len(trades), merged)
    BY <1>2
  <1>4. MergeAll(token, trades) = merged[Len(trades)]
    BY DEF MergeAll
  <1> HIDE DEF merged
  <1>5. DOMAIN merged = 0 .. Len(trades) /\ Len(trades) \in Nat
    BY <1>3
  <1>6. \A i \in 0 .. Len(trades) :
           merged[i] = IF i = 0 THEN token ELSE MergeConfirmedTrade(merged[i - 1], trades[i])
    BY <1>3
  <1>7. merged[0] = token
    BY <1>5, <1>6
  <1>8. \A i \in 1 .. Len(trades) : merged[i] = MergeConfirmedTrade(merged[i - 1], trades[i])
    BY <1>5, <1>6
  <1> QED
    BY <1>4, <1>5, <1>7, <1>8

\* What each merge takes from one set to the next, the walk takes to the last.
LEMMA MergingReaches ==
    ASSUME NEW token, NEW trades \in Seq(Nat), NEW S, token \in S[0],
           \A i \in 1 .. Len(trades) : \A x \in S[i - 1] : MergeConfirmedTrade(x, trades[i]) \in S[i]
    PROVE  MergeAll(token, trades) \in S[Len(trades)]
  <1>1. PICK walk :
          /\ walk[0] = token
          /\ \A i \in 1 .. Len(trades) : walk[i] = MergeConfirmedTrade(walk[i - 1], trades[i])
          /\ MergeAll(token, trades) = walk[Len(trades)]
    BY WalkOfMerges
  <1> DEFINE T == {n \in Nat : n <= Len(trades) /\ walk[n] \notin S[n]}
  <1>2. T = {}
    <2>1. SUFFICES ASSUME T # {} PROVE FALSE
      OBVIOUS
    <2>2. PICK n \in T : \A m \in T : n <= m
      BY <2>1, LeastNumber
    <2>3. n # 0 /\ n \in 1 .. Len(trades) /\ n - 1 \in Nat /\ n - 1 <= Len(trades) /\ ~(n <= n - 1)
      BY <1>1, <2>2
    <2>4. walk[n - 1] \in S[n - 1]
      BY <2>2, <2>3
    <2> QED
      BY <1>1, <2>2, <2>3, <2>4
  <1> QED
    BY <1>1, <1>2

-----------------------------------------------------------------------------
(* Tokens whose trades are counted once. *)

Distinct(feed) == \A i, j \in DOMAIN feed : i # j => feed[i] # feed[j]

\* The token has trades among the first n, each once, and counts what it has.
Clean(token, n) ==
    token # None =>
      /\ token \in [feed : Seq(1 .. n), count : Nat]
      /\ token.count = Len(token.feed)
      /\ Distinct(token.feed)

\* A feed of the first n trades that has none twice has room in a feed of n.
LEMMA DistinctFits ==
    ASSUME NEW n \in Nat, NEW feed \in Seq(1 .. n), Distinct(feed)
    PROVE  Len(feed) <= n
  <1>1. Len(feed) \in Nat /\ DOMAIN feed = 1 .. Len(feed) /\ feed \in [1 .. Len(feed) -> 1 .. n]
    OBVIOUS
  <1>2. /\ IsFiniteSet(1 .. Len(feed)) /\ Cardinality(1 .. Len(feed)) = Len(feed)
        /\ IsFiniteSet(1 .. n) /\ Cardinality(1 .. n) = n
    <2>1. \A m \in Nat : IsFiniteSet(1 .. m) /\ Cardinality(1 .. m) = m
      <3>1. SUFFICES ASSUME NEW m \in Nat PROVE IsFiniteSet(1 .. m) /\ Cardinality(1 .. m) = m
        OBVIOUS
      <3>2. 1 \in Int /\ m \in Int /\ (IF 1 > m THEN 0 ELSE m - 1 + 1) = m
        OBVIOUS
      <3>3. IsFiniteSet(1 .. m) /\ Cardinality(1 .. m) = IF 1 > m THEN 0 ELSE m - 1 + 1
        BY <3>2, FS_Interval
      <3> QED
        BY <3>2, <3>3
    <2> QED
      BY <1>1, <2>1
  <1>3. ASSUME n < Len(feed) PROVE FALSE
    <2>1. \E x, y \in 1 .. Len(feed) : x # y /\ feed[x] = feed[y]
      BY <1>1, <1>2, <1>3, FS_PigeonHole
    <2> QED
      BY <1>1, <2>1 DEF Distinct
  <1> QED
    BY <1>1, <1>3

\* With room for all trades, nothing is cut off.
LEMMA LatestOfFew ==
    ASSUME NEW X, NEW trades \in Seq(X), NEW limit \in Nat, Len(trades) <= limit
    PROVE  Latest(trades, limit) = trades
  BY DEF Latest

LEMMA SnapshotIsClean ==
    ASSUME NEW n \in Nat, n <= FeedLimit, NEW v \in 0 .. n
    PROVE  Clean(Market(v), n)
  <1> DEFINE newest == [i \in 1 .. v |-> v + 1 - i]
  <1>1. newest \in Seq(1 .. n) /\ Len(newest) = v
    OBVIOUS
  <1>2. Distinct(newest)
    BY DEF Distinct
  <1>3. Latest(newest, FeedLimit) = newest
    <2>1. Len(newest) <= FeedLimit /\ FeedLimit \in Nat
      BY <1>1, MarketAssumption
    <2> HIDE DEF newest
    <2> QED
      BY <1>1, <2>1, LatestOfFew
  <1>4. Market(v) = [feed |-> newest, count |-> v]
    BY <1>3 DEF Market
  <1> HIDE DEF newest
  <1> QED
    BY <1>1, <1>2, <1>4 DEF Clean

LEMMA MergeIsClean ==
    ASSUME NEW n \in Nat, n <= FeedLimit, NEW token, Clean(token, n), NEW t \in 1 .. n
    PROVE  LET merged == MergeConfirmedTrade(token, t)
           IN  /\ Clean(merged, n)
               /\ (token = None => merged = None)
               /\ (merged # None /\ token # None =>
                     /\ Has(merged.feed, t)
                     /\ \A u \in Nat : Has(token.feed, u) => Has(merged.feed, u))
  <1>1. CASE token = None \/ Has(token.feed, t)
    BY <1>1 DEF MergeConfirmedTrade
  <1>2. CASE token # None /\ ~Has(token.feed, t)
    <2> DEFINE new == <<t>> \o token.feed
    <2>1. /\ token.feed \in Seq(1 .. n) /\ token.count = Len(token.feed) /\ Distinct(token.feed)
          /\ \A i \in DOMAIN token.feed : token.feed[i] # t
      BY <1>2 DEF Clean, Has
    <2>2. /\ new \in Seq(1 .. n) /\ Len(new) = Len(token.feed) + 1 /\ new[1] = t
          /\ \A i \in 1 .. Len(token.feed) : new[i + 1] = token.feed[i]
          /\ \A i \in 2 .. Len(new) : i - 1 \in 1 .. Len(token.feed) /\ new[i] = token.feed[i - 1]
          /\ DOMAIN new = 1 .. Len(new) /\ DOMAIN token.feed = 1 .. Len(token.feed)
      BY <2>1
    <2> HIDE DEF new
    <2>3. Distinct(new)
      <3>1. SUFFICES ASSUME NEW i \in 1 .. Len(new), NEW j \in 1 .. Len(new), i < j
                     PROVE  new[i] # new[j]
        BY <2>2 DEF Distinct
      <3>2. j \in 2 .. Len(new) /\ new[j] = token.feed[j - 1] /\ j - 1 \in 1 .. Len(token.feed)
        BY <2>2, <3>1
      <3>3. CASE i = 1
        BY <2>1, <2>2, <3>2, <3>3
      <3>4. CASE i # 1
        <4>1. i - 1 \in 1 .. Len(token.feed) /\ new[i] = token.feed[i - 1] /\ i - 1 # j - 1
          BY <2>2, <3>1, <3>4
        <4>2. token.feed[i - 1] # token.feed[j - 1]
          BY <2>1, <2>2, <3>2, <4>1 DEF Distinct
        <4> QED
          BY <3>2, <4>1, <4>2
      <3> QED
        BY <3>3, <3>4
    <2>4. Latest(new, FeedLimit) = new
      BY <2>2, <2>3, DistinctFits, LatestOfFew, MarketAssumption
    <2>5. MergeConfirmedTrade(token, t) = [feed |-> new, count |-> token.count + 1]
      BY <1>2, <2>4 DEF MergeConfirmedTrade, new
    <2>6. Clean(MergeConfirmedTrade(token, t), n)
      BY <2>1, <2>2, <2>3, <2>5 DEF Clean
    <2>7. Has(new, t) /\ \A u \in Nat : Has(token.feed, u) => Has(new, u)
      <3>1. Has(new, t)
        <4>1. 1 \in 1 .. Len(new) /\ new[1] = t
          BY <2>1, <2>2
        <4> QED
          BY <2>2, <4>1 DEF Has
      <3>2. ASSUME NEW u \in Nat, Has(token.feed, u) PROVE Has(new, u)
        <4>1. PICK i \in 1 .. Len(token.feed) : token.feed[i] = u
          BY <2>2, <3>2 DEF Has
        <4>2. i + 1 \in 1 .. Len(new) /\ new[i + 1] = u
          BY <2>2, <4>1
        <4> QED
          BY <2>2, <4>2 DEF Has
      <3> QED
        BY <3>1, <3>2
    <2> QED
      BY <1>2, <2>5, <2>6, <2>7
  <1> QED
    BY <1>1, <1>2

\* Merging remembered trades keeps the token clean and shows them all.
LEMMA MergesAreClean ==
    ASSUME NEW n \in Nat, n <= FeedLimit, NEW token, Clean(token, n), NEW trades \in Seq(1 .. n)
    PROVE  LET merged == MergeAll(token, trades)
           IN  /\ Clean(merged, n)
               /\ (token = None => merged = None)
               /\ (merged # None => \A t \in Nat : Has(trades, t) => Has(merged.feed, t))
  <1> DEFINE Reached(x, i) ==
               /\ Clean(x, n)
               /\ token = None => x = None
               /\ x # None => \A j \in 1 .. i : Has(x.feed, trades[j])
             S == [i \in 0 .. Len(trades) |->
                     {x \in {None} \cup [feed : Seq(1 .. n), count : Nat] : Reached(x, i)}]
  <1>1. /\ trades \in Seq(Nat) /\ Len(trades) \in Nat /\ DOMAIN trades = 1 .. Len(trades)
        /\ \A i \in 1 .. Len(trades) : trades[i] \in 1 .. n
    OBVIOUS
  <1>2. token \in S[0]
    BY <1>1 DEF Clean
  <1>3. ASSUME NEW i \in 1 .. Len(trades), NEW x \in S[i - 1]
        PROVE  MergeConfirmedTrade(x, trades[i]) \in S[i]
    <2> DEFINE y == MergeConfirmedTrade(x, trades[i])
    <2>1. Reached(x, i - 1) /\ i - 1 \in 0 .. Len(trades)
      BY <1>1, <1>3
    <2>2. trades[i] \in 1 .. n /\ \A j \in 1 .. Len(trades) : trades[j] \in Nat
      BY <1>1, <1>3
    <2>3. /\ Clean(y, n) /\ (x = None => y = None)
          /\ y # None /\ x # None =>
                Has(y.feed, trades[i]) /\ \A u \in Nat : Has(x.feed, u) => Has(y.feed, u)
      BY <2>1, <2>2, MergeIsClean
    <2> HIDE DEF y
    <2>4. Reached(y, i)
      BY <1>3, <2>1, <2>2, <2>3
    <2>5. y \in {None} \cup [feed : Seq(1 .. n), count : Nat]
      BY <2>3 DEF Clean
    <2> HIDE DEF Reached
    <2> QED
      BY <1>1, <2>4, <2>5 DEF y
  <1>4. MergeAll(token, trades) \in S[Len(trades)]
    <2> HIDE DEF S
    <2> QED
      BY <1>1, <1>2, <1>3, MergingReaches
  <1>5. Reached(MergeAll(token, trades), Len(trades))
    BY <1>1, <1>4
  <1> QED
    BY <1>1, <1>5 DEF Has
-----------------------------------------------------------------------------
(* The token list. *)

\* As long as the feed has room for all trades, what is shown and what is stored for
\* the next load counts each once.
MarketInv ==
    /\ traded \in Nat /\ remembered \in Seq(1 .. traded)
    /\ traded <= FeedLimit =>
          Clean(tokens, traded) /\ (cached # <<>> => Clean(cached[1], traded))

Stays(t) ==
    (/\ traded' <= FeedLimit /\ tokens # None /\ tokens' # None
     /\ Has(tokens.feed, t) /\ Has(remembered', t)) => Has(tokens'.feed, t)

LEMMA RememberedTrades ==
    ASSUME MarketInv, NEW t \in 1 .. traded
    PROVE  RememberConfirmedTrade(t) \in Seq(1 .. traded)
  <1> DEFINE others == Filtered(remembered, Nat \ {t})
  <1>1. others \in Seq(1 .. traded)
    <2>1. remembered \in Seq(1 .. traded)
      BY DEF MarketInv
    <2>2. others \in Seq((1 .. traded) \cap (Nat \ {t}))
      BY <2>1, FilteredEntries
    <2> DEFINE X == (1 .. traded) \cap (Nat \ {t})
    <2>3. X \subseteq 1 .. traded
      OBVIOUS
    <2> HIDE DEF others, X
    <2> QED
      BY <2>2, <2>3, SeqMonotonic DEF X
  <1> HIDE DEF others
  <1>2. <<t>> \o others \in Seq(1 .. traded)
    BY <1>1
  <1>3. ASSUME NEW X, NEW trades \in Seq(X) PROVE Latest(trades, MaxPending) \in Seq(X)
    BY <1>3, MarketAssumption DEF Latest
  <1> QED
    BY <1>2, <1>3 DEF RememberConfirmedTrade, others

\* A step that merges the remembered trades into an answer, into what is stored or
\* into what is shown keeps the invariant, and shows them all.
LEMMA MergingKeepsMarket ==
    ASSUME MarketInv, UNCHANGED <<traded, remembered>>, cached' \in {cached, <<tokens'>>},
           NEW token, traded <= FeedLimit => Clean(token, traded),
           tokens' = MergeAll(token, remembered)
    PROVE  MarketInv' /\ \A t \in 1 .. traded : Stays(t)
  <1>1. traded \in Nat /\ remembered \in Seq(1 .. traded)
    BY DEF MarketInv
  <1>2. CASE traded <= FeedLimit
    <2>1. /\ Clean(tokens', traded)
          /\ tokens' # None => \A t \in Nat : Has(remembered, t) => Has(tokens'.feed, t)
      BY <1>1, <1>2, MergesAreClean
    <2>2. cached' # <<>> => Clean(cached'[1], traded)
      BY <1>2, <2>1 DEF MarketInv
    <2> QED
      BY <1>1, <2>1, <2>2 DEF MarketInv, Stays
  <1>3. CASE ~(traded <= FeedLimit)
    BY <1>1, <1>3 DEF MarketInv, Stays
  <1> QED
    BY <1>2, <1>3

LEMMA EmptyIsClean == \A n \in Nat : Clean(None, n) /\ Clean(NewToken, n)
  BY DEF Clean, NewToken, Distinct

\* The steps that leave what is shown, stored and remembered.
LEMMA OthersKeepMarket ==
    ASSUME MarketInv,
           \/ TokenLaunches \/ TokenTrades \/ HandleLaunch \/ Expire \/ IndexFails
           \/ ReconcileToken \/ ReconcileFails \/ UNCHANGED marketVars
           \/ \E t \in 1 .. MaxTraded : OtherTab(t)
           \/ \E background \in BOOLEAN : Refresh(background)
    PROVE  MarketInv' /\ \A t \in 1 .. traded : Stays(t)
  <1>1. traded \in Nat /\ remembered \in Seq(1 .. traded)
    BY DEF MarketInv
  <1>2. cached' = cached
    BY DEF TokenLaunches, TokenTrades, HandleLaunch, Expire, IndexFails, ReconcileToken,
           ReconcileFails, OtherTab, Refresh, localVars, marketVars
  <1>3. tokens' = tokens \/ (tokens = None /\ tokens' = NewToken /\ traded' = traded)
    BY DEF TokenLaunches, TokenTrades, HandleLaunch, Expire, IndexFails, ReconcileToken,
           ReconcileFails, OtherTab, Refresh, marketVars, listVars
  <1>4. traded' \in {traded, traded + 1} /\ remembered' \in Seq(1 .. traded')
    <2>1. CASE TokenTrades
      BY <1>1, <2>1 DEF TokenTrades, localVars
    <2>2. CASE Expire
      BY <1>1, <2>2 DEF Expire, listVars
    <2>3. CASE \E t \in 1 .. MaxTraded : OtherTab(t)
      BY <1>1, <2>3, RememberedTrades DEF OtherTab, listVars
    <2>4. CASE \/ TokenLaunches \/ HandleLaunch \/ IndexFails \/ ReconcileToken \/ ReconcileFails
               \/ UNCHANGED marketVars \/ \E background \in BOOLEAN : Refresh(background)
      BY <1>1, <2>4 DEF TokenLaunches, HandleLaunch, IndexFails, ReconcileToken, ReconcileFails,
                        Refresh, localVars, listVars, marketVars
    <2> QED
      BY <2>1, <2>2, <2>3, <2>4
  <1>5. ASSUME traded' <= FeedLimit
        PROVE  Clean(tokens', traded') /\ (cached' # <<>> => Clean(cached'[1], traded'))
    <2>1. traded <= FeedLimit
      BY <1>1, <1>4, <1>5, MarketAssumption
    <2>2. Clean(tokens, traded) /\ (cached # <<>> => Clean(cached[1], traded))
      BY <2>1 DEF MarketInv
    <2>3. \A token : Clean(token, traded) => Clean(token, traded')
      BY <1>1, <1>4 DEF Clean
    <2> QED
      BY <1>1, <1>2, <1>3, <1>4, <2>2, <2>3, EmptyIsClean
  <1>6. \A t \in 1 .. traded : Stays(t)
    BY <1>3 DEF Stays
  <1> QED
    BY <1>1, <1>4, <1>5, <1>6 DEF MarketInv

LEMMA TradeKeepsMarket ==
    ASSUME MarketInv, NEW t \in 1 .. MaxTraded, HandleTrade(t)
    PROVE  MarketInv' /\ \A u \in 1 .. traded : Stays(u)
  <1>1. /\ traded \in Nat /\ t \in 1 .. traded /\ traded' = traded
        /\ remembered' = RememberConfirmedTrade(t) /\ tokens' = MergeConfirmedTrade(tokens, t)
        /\ cached' = IF cached # <<>> THEN <<tokens'>> ELSE cached
    BY DEF MarketInv, HandleTrade, listVars
  <1>2. remembered' \in Seq(1 .. traded')
    BY <1>1, RememberedTrades
  <1>3. CASE traded <= FeedLimit
    <2>1. Clean(tokens, traded)
      BY <1>3 DEF MarketInv
    <2>2. /\ Clean(tokens', traded)
          /\ tokens' # None /\ tokens # None =>
                \A u \in Nat : Has(tokens.feed, u) => Has(tokens'.feed, u)
      BY <1>1, <1>3, <2>1, MergeIsClean
    <2>3. cached' # <<>> => Clean(cached'[1], traded)
      BY <1>1, <2>2
    <2> QED
      BY <1>1, <1>2, <2>2, <2>3 DEF MarketInv, Stays
  <1>4. CASE ~(traded <= FeedLimit)
    BY <1>1, <1>2, <1>4 DEF MarketInv, Stays
  <1> QED
    BY <1>3, <1>4

LEMMA AnswersKeepMarket ==
    ASSUME MarketInv,
           \/ HandleStorage \/ MarketFails \/ NothingListed \/ Reload
           \/ \E listed, aged \in BOOLEAN : IndexLoaded(listed, aged)
           \/ \E v \in 0 .. MaxTraded : MarketLoaded(v) \/ Reconciled(v)
    PROVE  MarketInv' /\ \A t \in 1 .. traded : Stays(t)
  <1>1. traded \in Nat /\ remembered \in Seq(1 .. traded)
    BY DEF MarketInv
  <1>2. UNCHANGED <<traded, remembered>> /\ cached' \in {cached, <<tokens'>>}
    BY DEF HandleStorage, MarketFails, NothingListed, Reload, IndexLoaded, MarketLoaded, Reconciled,
           listVars, localVars
  <1>3. traded <= FeedLimit => Clean(tokens, traded) /\ (cached # <<>> => Clean(cached[1], traded))
    BY DEF MarketInv
  <1>4. /\ Clean(None, traded) /\ Clean(NewToken, traded)
        /\ traded <= FeedLimit => \A v \in 0 .. traded : Clean(Market(v), traded)
    BY <1>1, EmptyIsClean, SnapshotIsClean
  <1>5. \E token : /\ traded <= FeedLimit => Clean(token, traded)
                   /\ tokens' = MergeAll(token, remembered) \/ tokens' = None
    <2>1. CASE HandleStorage
      BY <1>3, <2>1 DEF HandleStorage, MergePendingTrades
    <2>2. CASE MarketFails
      BY <1>3, <1>4, <2>2 DEF MarketFails, Shown, MergePendingTrades, MergePendingLaunches, Preserve
    <2>3. CASE NothingListed
      BY <1>3, <1>4, <2>3 DEF NothingListed, Shown, MergePendingTrades, MergePendingLaunches
    <2>4. CASE Reload
      BY <1>3, <1>4, <2>4 DEF Reload, MergePendingTrades
    <2>5. CASE \E listed, aged \in BOOLEAN : IndexLoaded(listed, aged)
      BY <1>3, <1>4, <2>5 DEF IndexLoaded, MergePendingTrades, MergePendingLaunches, Preserve
    <2>6. CASE \E v \in 0 .. MaxTraded : MarketLoaded(v)
      BY <1>3, <1>4, <2>6 DEF MarketLoaded, Shown, MergePendingTrades, MergePendingLaunches
    <2>7. CASE \E v \in 0 .. MaxTraded : Reconciled(v)
      BY <1>3, <1>4, <2>7 DEF Reconciled, ApplySnapshot, MergePendingTrades
    <2> QED
      BY <2>1, <2>2, <2>3, <2>4, <2>5, <2>6, <2>7
  <1>6. PICK token : /\ traded <= FeedLimit => Clean(token, traded)
                     /\ tokens' = MergeAll(token, remembered) \/ tokens' = None
    BY <1>5
  <1>7. CASE tokens' = MergeAll(token, remembered)
    BY <1>2, <1>6, <1>7, MergingKeepsMarket
  <1>8. CASE tokens' = None
    BY <1>1, <1>2, <1>3, <1>4, <1>8 DEF MarketInv, Stays
  <1> QED
    BY <1>6, <1>7, <1>8

LEMMA MarketStep ==
    ASSUME MarketInv, [MarketNext]_marketVars
    PROVE  MarketInv' /\ \A t \in 1 .. traded : Stays(t)
  <1>1. CASE \/ TokenLaunches \/ TokenTrades \/ HandleLaunch \/ Expire \/ IndexFails
             \/ ReconcileToken \/ ReconcileFails \/ UNCHANGED marketVars
             \/ \E t \in 1 .. MaxTraded : OtherTab(t)
             \/ \E background \in BOOLEAN : Refresh(background)
    BY <1>1, OthersKeepMarket
  <1>2. CASE \E t \in 1 .. MaxTraded : HandleTrade(t)
    BY <1>2, TradeKeepsMarket
  <1>3. CASE \/ HandleStorage \/ MarketFails \/ NothingListed \/ Reload
             \/ \E listed, aged \in BOOLEAN : IndexLoaded(listed, aged)
             \/ \E v \in 0 .. MaxTraded : MarketLoaded(v) \/ Reconciled(v)
    BY <1>3, AnswersKeepMarket
  <1> QED
    BY <1>1, <1>2, <1>3 DEF MarketNext

LEMMA MarketInvariant == MarketSpec => []MarketInv
  <1>1. MarketInit => MarketInv
    BY DEF MarketInit, MarketInv, Clean
  <1>2. MarketInv /\ [MarketNext]_marketVars => MarketInv'
    BY MarketStep
  <1> QED
    BY <1>1, <1>2, PTL DEF MarketSpec

\* However a trade reaches the page, its volume is counted once: as long as the feed
\* has room for all trades, of any number of them.
THEOREM TradesCountedOnce == MarketSpec => []CountedOnce
  <1>1. MarketInv => CountedOnce
    BY DEF MarketInv, CountedOnce, Clean, Distinct
  <1> QED
    BY MarketInvariant, <1>1, PTL

\* A remembered trade that was shown stays shown through every older answer.
THEOREM RememberedKept == MarketSpec => RememberedStaysShown
  <1>1. MarketInv /\ [MarketNext]_marketVars =>
          [\A t \in 1 .. traded :
             (/\ traded' <= FeedLimit /\ tokens # None /\ tokens' # None
              /\ Has(tokens.feed, t) /\ Has(remembered', t)) => Has(tokens'.feed, t)]_marketVars
    BY MarketStep DEF Stays
  <1> QED
    BY MarketInvariant, <1>1, PTL DEF MarketSpec, RememberedStaysShown
-----------------------------------------------------------------------------
(* The buyback card. *)

\* A card that is not mounted waits for nothing, and a browser that does not let the
\* page store holds nothing.
BuybackInv ==
    /\ BuybackTypeOK
    /\ CardHolds
    /\ awaited = "none" => quiet
    /\ ~cardOpen => awaited = "none" /\ ~spinning
    /\ ~storable => storedCard = 0

LEMMA BuybackStarts == BuybackInit => BuybackInv
  <1> SUFFICES ASSUME BuybackInit PROVE BuybackInv
    OBVIOUS
  <1>1. /\ generated \in 0 .. MaxGenerated
        /\ storedCard \in 0 .. MaxGenerated
        /\ ~storable => storedCard = 0
    BY CardAssumption DEF BuybackInit
  <1>2. storable \in BOOLEAN /\ cardOpen = FALSE /\ spinning = FALSE /\ doubted = FALSE
        /\ overtaken = FALSE /\ quiet = TRUE
    BY DEF BuybackInit
  <1>3. shownCard = 0 /\ awaited = "none" /\ leftBehind = {} /\ fetching = {}
    BY DEF BuybackInit
  <1>4. storable \in BOOLEAN /\ cardOpen \in BOOLEAN /\ spinning \in BOOLEAN /\ doubted \in BOOLEAN
        /\ overtaken \in BOOLEAN /\ quiet \in BOOLEAN
    BY <1>2
  <1>5. shownCard \in 0 .. MaxGenerated
    BY <1>3, CardAssumption
  <1>6. awaited \in fetching \union {"none"} /\ leftBehind \subseteq fetching /\ fetching \subseteq Fetch
    BY <1>3
  <1>7. BuybackTypeOK
    BY <1>1, <1>4, <1>5, <1>6 DEF BuybackTypeOK
  <1> QED
    BY <1>1, <1>2, <1>3, <1>7 DEF BuybackInv, CardHolds, CardIsKept, SpinnerStops

LEMMA BuybackStep == BuybackInv /\ [BuybackNext]_buybackVars => BuybackInv'
  <1> SUFFICES ASSUME BuybackInv, [BuybackNext]_buybackVars PROVE BuybackInv'
    OBVIOUS
  <1> USE CardAssumption
      DEF BuybackInv, BuybackTypeOK, CardHolds, CardIsKept, SpinnerStops, Fetch
  <1>1. CASE Generate
    BY <1>1 DEF Generate
  <1>2. CASE StoredExpires
    BY <1>2 DEF StoredExpires
  <1>3. CASE LeaveCard
    <2>1. leftBehind' \subseteq fetching' /\ fetching' \subseteq Fetch
      BY <1>3 DEF LeaveCard
    <2>2. spinning' = FALSE /\ doubted' = FALSE /\ overtaken' = FALSE /\ quiet' = TRUE /\ cardOpen' = FALSE
      BY <1>3 DEF LeaveCard
    <2>3. shownCard' = 0 /\ awaited' = "none" /\ UNCHANGED <<generated, storable, storedCard>>
      BY <1>3 DEF LeaveCard
    <2>4. BuybackTypeOK'
      <3>1. cardOpen' \in BOOLEAN /\ spinning' \in BOOLEAN /\ doubted' \in BOOLEAN
            /\ overtaken' \in BOOLEAN /\ quiet' \in BOOLEAN
        BY <2>2
      <3>2. shownCard' \in 0 .. MaxGenerated /\ awaited' \in fetching' \union {"none"}
        BY <2>3
      <3> QED
        BY <2>1, <2>3, <3>1, <3>2
    <2> QED
      BY <2>2, <2>3, <2>4
  <1>4. ASSUME NEW fetch \in Fetch, NEW background \in BOOLEAN, RefreshCard(fetch, background)
        PROVE  BuybackInv'
    BY <1>4 DEF RefreshCard, RequestSnapshot
  <1>5. ASSUME NEW initial \in 0 .. MaxGenerated, OpenCard(initial) PROVE BuybackInv'
    <2> DEFINE useCached == storedCard # 0 /\ storedCard >= initial
               immediate == IF useCached THEN storedCard ELSE initial
    <2>1. /\ shownCard' = immediate /\ immediate \in 0 .. MaxGenerated
          /\ storedCard' \in {0, immediate}
          /\ ~storable => storedCard' = 0
      BY <1>5 DEF OpenCard, KeepInitial, Write
    <2>2. /\ cardOpen' = TRUE /\ doubted' = useCached /\ overtaken' = FALSE
          /\ spinning' = (immediate = 0) /\ quiet' = (immediate # 0)
      BY <1>5 DEF OpenCard, RequestSnapshot
    <2>3. /\ awaited' = "cached" /\ fetching' = fetching \union {"cached"}
          /\ UNCHANGED <<generated, storable, leftBehind>>
      BY <1>5 DEF OpenCard, RequestSnapshot
    <2> HIDE DEF useCached, immediate
    <2>4. useCached \in BOOLEAN
      BY DEF useCached
    <2>5. BuybackTypeOK'
      <3>1. cardOpen' \in BOOLEAN /\ spinning' \in BOOLEAN /\ doubted' \in BOOLEAN
            /\ overtaken' \in BOOLEAN /\ quiet' \in BOOLEAN
        BY <2>2, <2>4
      <3>2. /\ awaited' \in fetching' \union {"none"} /\ fetching' \subseteq Fetch
            /\ leftBehind' \subseteq fetching'
        BY <2>3
      <3>3. storedCard' \in 0 .. MaxGenerated /\ shownCard' \in 0 .. MaxGenerated
        BY <2>1
      <3> QED
        BY <2>3, <3>1, <3>2, <3>3
    <2> QED
      BY <2>1, <2>2, <2>3, <2>5
  <1>6. ASSUME NEW fetch \in Fetch, NEW s \in 1 .. MaxGenerated, NEW stale_ \in BOOLEAN,
               CardAnswered(fetch, s, stale_)
        PROVE  BuybackInv'
    <2>1. /\ fetching' = fetching \ {fetch} /\ leftBehind' = leftBehind \ {fetch}
          /\ UNCHANGED <<generated, storable, cardOpen, overtaken>>
      BY <1>6 DEF CardAnswered
    <2>2. \/ storedCard' \in {storedCard, s} /\ (storable => storedCard' = s)
             /\ (~storable => storedCard' = storedCard) /\ shownCard' = IF cardOpen THEN s ELSE 0
          \/ UNCHANGED <<storedCard, shownCard>>
      BY <1>6 DEF CardAnswered, Write
    <2>3. \/ /\ awaited = fetch /\ awaited' = "none" /\ doubted' = stale_
             /\ quiet' = TRUE /\ spinning' = (quiet /\ spinning)
          \/ awaited # fetch /\ UNCHANGED <<doubted, spinning, awaited, quiet>>
      BY <1>6 DEF CardAnswered, RequestEnds, StopSpinner, IsNewest
    <2>4. storedCard' \in 0 .. MaxGenerated /\ shownCard' \in 0 .. MaxGenerated
          /\ (~storable => storedCard' = 0) /\ CardIsKept'
      BY <2>1, <2>2
    <2>5. awaited' \in fetching' \union {"none"} /\ fetching' \subseteq Fetch
          /\ leftBehind' \subseteq fetching'
      BY <2>1, <2>3
    <2>6. spinning' \in BOOLEAN /\ doubted' \in BOOLEAN /\ quiet' \in BOOLEAN
      BY <2>3
    <2>7. BuybackTypeOK'
      BY <2>1, <2>4, <2>5, <2>6
    <2>8. SpinnerStops'
      BY <2>1, <2>3, <2>5
    <2>9. (awaited' = "none" => quiet') /\ (~cardOpen' => awaited' = "none" /\ ~spinning')
      BY <2>1, <2>3
    <2> QED
      BY <2>1, <2>4, <2>7, <2>8, <2>9
  <1>7. ASSUME NEW fetch \in Fetch, CardUnanswered(fetch) PROVE BuybackInv'
    BY <1>7 DEF CardUnanswered, RequestEnds, StopSpinner, IsNewest
  <1>8. CASE UNCHANGED buybackVars
    BY <1>8 DEF buybackVars
  <1> QED
    BY <1>1, <1>2, <1>3, <1>4, <1>5, <1>6, <1>7, <1>8
    DEF BuybackNext, PollCard, HandleIndexerBuyback, RetryCard

\* Whatever requests overlap, fail, come late or belong to a card that was left, what the
\* card shows is what its storage keeps, and its spinner turns for a request that stops it,
\* unless a request in the background superseded that one.
THEOREM CardHoldsTogether == BuybackSpec => []CardHolds
  <1>1. BuybackInv => CardHolds
    BY DEF BuybackInv
  <1> QED
    BY <1>1, BuybackStarts, BuybackStep, PTL DEF BuybackSpec

-----------------------------------------------------------------------------
(* The wallet. *)

WalletInv ==
    /\ WalletTypeOK
    /\ SingleFlight

LEMMA WalletStarts == WalletInit => WalletInv
  <1> SUFFICES ASSUME WalletInit PROVE WalletInv
    OBVIOUS
  <1>1. walletStatus = "disconnected" /\ safeContext = "none" /\ restoreStarted = FALSE
    BY DEF WalletInit
  <1>2. /\ currentWallet \in Connector \union {NoConnector} /\ sessions = {} /\ waitingOn = {}
        /\ operation = NoConnector /\ restoring = NoConnector
    BY DEF WalletInit
  <1>3. prompts = 0 /\ prompted = 0
    BY DEF WalletInit
  <1>4. WalletTypeOK
    BY <1>1, <1>2, <1>3 DEF WalletTypeOK
  <1>5. SingleFlight
    BY <1>2, <1>3 DEF SingleFlight
  <1> QED
    BY <1>4, <1>5 DEF WalletInv

LEMMA WalletStep == WalletInv /\ [WalletNext]_walletVars => WalletInv'
  <1> SUFFICES ASSUME WalletInv, [WalletNext]_walletVars PROVE WalletInv'
    OBVIOUS
  <1> USE WalletAssumption DEF WalletInv, WalletTypeOK, SingleFlight, sessionVars, promptVars
  <1>1. CASE BridgeSafe
    BY <1>1 DEF BridgeSafe
  <1>2. ASSUME NEW outcome \in {"none", "known"}, SafeAnswered(outcome) PROVE WalletInv'
    BY <1>2 DEF SafeAnswered
  <1>3. ASSUME NEW c \in Control, NEW w \in Connector, ConnectWallet(c, w) PROVE WalletInv'
    <2>1. CASE Shared
      BY <1>3, <2>1 DEF ConnectWallet, Shared
    <2>2. CASE ~Shared
      <3>1. sessions' \subseteq Connector /\ currentWallet' \in Connector \union {NoConnector}
        BY <1>3, <2>2 DEF ConnectWallet, RemoveStale
      <3>2. SingleFlight' /\ prompts' \in Nat /\ prompted' \in Nat
        BY <1>3, <2>2 DEF ConnectWallet, Shared, OpenPrompt
      <3> QED
        BY <1>3, <2>2, <3>1, <3>2 DEF ConnectWallet, AskSafe
    <2> QED
      BY <2>1, <2>2
  <1>4. ASSUME NEW w \in Connector, Approved(w) PROVE WalletInv'
    BY <1>4 DEF Approved, Settles, ClosePrompt
  <1>5. ASSUME NEW w \in Connector, Rejected(w) PROVE WalletInv'
    BY <1>5 DEF Rejected, Settles, ClosePrompt
  <1>6. ASSUME NEW w \in Connector, RestoreWalletSession(w) PROVE WalletInv'
    BY <1>6 DEF RestoreWalletSession, AskSafe
  <1>7. ASSUME NEW w \in Connector, Restored(w) \/ NotRestored(w) PROVE WalletInv'
    BY <1>7 DEF Restored, NotRestored
  <1>8. ASSUME NEW w \in Connector, DisconnectWallet(w) PROVE WalletInv'
    BY <1>8 DEF DisconnectWallet
  <1>9. CASE UNCHANGED walletVars
    BY <1>9 DEF walletVars
  <1> QED
    BY <1>1, <1>2, <1>3, <1>4, <1>5, <1>6, <1>7, <1>8, <1>9 DEF WalletNext

\* For any controls and wallets: one permission request at a time, open exactly while a
\* connection other than the Safe's is pending, and no control waits for nothing.
THEOREM OnePrompt == WalletSpec => []SingleFlight
  <1>1. WalletInv => SingleFlight
    BY DEF WalletInv
  <1> QED
    BY <1>1, WalletStarts, WalletStep, PTL DEF WalletSpec
=============================================================================
