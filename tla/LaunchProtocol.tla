--------------------------- MODULE LaunchProtocol ---------------------------
(***************************************************************************)
(* The contracts: launches of the factory, and the locker that holds every *)
(* launch's liquidity position for ever, splits its fees between creator   *)
(* and protocol and, where the creator opted in, buys the launch token     *)
(* back with the creator's share.  A transaction is one step: what reverts *)
(* changes nothing, and nonReentrant keeps others out.                     *)
(*                                                                         *)
(* All positions share the locker's one balance of the quote token, USDC.  *)
(* Prices and liquidity stay inside Uniswap: a pool is `young' while its   *)
(* observations do not span the window, `steady' when its price is close   *)
(* to their mean, else `moved'.  Fees accrue in any amount of TradeFees.   *)
(***************************************************************************)
EXTENDS UniswapMath, Sequences, FiniteSets, FiniteSetsExt

CONSTANTS
    Token,          \* the addresses a launch may get
    Token0,         \* those of them below the address of the quote token
    Creator,
    CreatorShare,   \* CREATOR_FEE_SHARE_BPS
    RewardShare,    \* KEEPER_REWARD_BPS
    MaxReward,      \* MAX_KEEPER_REWARD
    MinBuyback,     \* MIN_BUYBACK_QUOTE
    Cooldown,       \* BUYBACK_COOLDOWN
    PoolFee,        \* POOL_FEE, which a buyback's own swap pays too
    TickSpacing,    \* that of POOL_FEE
    InitialTick,    \* where START_MARKET_CAP puts a new pool, by the order of its tokens
    TradeFees,      \* the fees one stretch of trading leaves to a position
    MaxTrades,      \* bound: stretches of trading
    MaxGifts        \* bound: transfers to the locker that nobody asked for

ASSUME ProtocolAssumption ==
    /\ IsFiniteSet(Token) /\ Token0 \subseteq Token
    /\ CreatorShare \in 0..Bps /\ RewardShare \in 0..Bps /\ PoolFee \in 0..Bps
    /\ MaxReward \in Nat /\ MinBuyback \in Nat /\ Cooldown \in Nat
    /\ TickSpacing \in Nat \ {0}
    /\ InitialTick \in [BOOLEAN -> Int]
    /\ TradeFees \subseteq [quote : Nat, token : Nat]
    /\ MaxTrades \in Nat /\ MaxGifts \in Nat

VARIABLES
    launched,       \* launchedTokens
    locks,          \* locks of the locker
    accounts,       \* of each position: its uncollected fees in the pool, buybackReserve,
                    \* the time since lastBuybackAt, and what came in and went out so far
    lockerQuote,    \* the locker's balance of the quote token
    lockerToken,    \* its balance of each launch token
    pools,          \* of each token: its pool
    profiles,       \* of each creator: registered and launchCount of the registry
    gifts,          \* history: what was transferred to the locker unasked
    trades          \* bound

factory == <<launched, locks, profiles>>
locker == <<accounts, lockerQuote, lockerToken>>
vars == <<factory, locker, pools, gifts, trades>>

NoLock == [creator |-> "none"]
Lock == [creator : Creator, automatic : BOOLEAN, lower : Int, upper : Int]
Account == [quoteFees : Nat, tokenFees : Nat, reserve : Nat, age : 0..Cooldown,
            credited : Nat, spent : Nat, rewarded : Nat]
NewAccount == [quoteFees |-> 0, tokenFees |-> 0, reserve |-> 0, age |-> Cooldown,
               credited |-> 0, spent |-> 0, rewarded |-> 0]
PoolState == {"none", "poisoned", "young", "steady", "moved"}

Locked(t) == locks[t] # NoLock
-----------------------------------------------------------------------------
(* Launching. *)

\* Above the range a position holds token1 alone, below it token0 alone.
NeedsQuote(range, tick, launchTokenIsToken0) ==
    IF launchTokenIsToken0 THEN range.lower <= tick ELSE tick < range.upper

LaunchRange(isToken0) == SingleSidedTicks(InitialTick[isToken0], TickSpacing, isToken0)

\* One transaction creates token and pool, mints the position to the locker and
\* registers it; a pool that somebody initialized at the predicted address makes
\* it revert, and so does a range that would take quote tokens.
Launch(t, c, automatic) ==
    LET isToken0 == t \in Token0
        range == LaunchRange(isToken0)
    IN  /\ ~Locked(t) /\ pools[t] = "none"
        /\ range.lower < range.upper
        /\ ~NeedsQuote(range, InitialTick[isToken0], isToken0)
        /\ launched' = Append(launched, t)
        /\ locks' = [locks EXCEPT ![t] = [creator |-> c, automatic |-> automatic,
                                          lower |-> range.lower, upper |-> range.upper]]
        /\ pools' = [pools EXCEPT ![t] = "young"]
        /\ profiles' = [profiles EXCEPT ![c] = [registered |-> TRUE, count |-> @.count + 1]]
        /\ UNCHANGED <<locker, gifts, trades>>

\* Slip: a creator may register again.
RegisterableAlways(c) == TRUE
Registerable(c) == ~profiles[c].registered

RegisterCreator(c) ==
    /\ Registerable(c)
    /\ profiles' = [profiles EXCEPT ![c] = [registered |-> TRUE, count |-> 0]]
    /\ UNCHANGED <<launched, locks, locker, pools, gifts, trades>>

\* Anybody may initialize a pool for an address a launch could get next.
Poison(t) ==
    /\ pools[t] = "none"
    /\ pools' = [pools EXCEPT ![t] = "poisoned"]
    /\ UNCHANGED <<factory, locker, gifts, trades>>

-----------------------------------------------------------------------------
(* Fees and buybacks. *)

CreatorPart(amount) == Part(amount, CreatorShare)
\* Slip: the protocol's share is rounded down too.
ProtocolShare(amount) == Part(amount, Bps - CreatorShare)
ProtocolPart(amount) == amount - CreatorPart(amount)

\* An account after its fees have been collected and routed.
Collected(a, automatic) ==
    LET kept == IF automatic THEN CreatorPart(a.quoteFees) ELSE 0
    IN  [a EXCEPT !.quoteFees = 0, !.tokenFees = 0,
                  !.reserve = @ + kept, !.credited = @ + kept]

\* What collecting leaves in the locker: the collected amount less what is
\* transferred on to creator and protocol.
QuoteLeft(a, automatic) ==
    a.quoteFees - ProtocolPart(a.quoteFees)
    - (IF automatic THEN 0 ELSE CreatorPart(a.quoteFees))
\* The creator's launch tokens are burned or transferred.  Slip: they stay.
TokenLeft(a) == a.tokenFees - ProtocolPart(a.tokenFees) - CreatorPart(a.tokenFees)

\* Slip: rounded up.
RewardRoundedUp(quote) ==
    IF Part(quote, RewardShare) >= MaxReward THEN MaxReward ELSE Part(quote, RewardShare) + 1
Reward(quote) ==
    IF Part(quote, RewardShare) > MaxReward THEN MaxReward ELSE Part(quote, RewardShare)
\* Slip: the whole reserve is swapped, and the reward comes on top.
WholeBudget(reserve) == reserve
SwapBudget(reserve) == reserve - Reward(reserve)

\* The pool's fee on the swap goes to the position, or to other liquidity.
Bought(a, spent, fee) ==
    [a EXCEPT !.quoteFees = @ + fee,
              !.reserve = @ - spent - Reward(spent), !.age = 0,
              !.spent = @ + spent, !.rewarded = @ + Reward(spent)]

\* Slip: the least reserve does not do.
ReadyAbove(a) == a.reserve > MinBuyback /\ a.age = Cooldown
Ready(a) == a.reserve >= MinBuyback /\ a.age = Cooldown
\* Executing is refused without the opt-in, before the reserve and the cooldown
\* allow it, and while the price is not safe.
Executable(a, t) == locks[t].automatic /\ Ready(a) /\ pools[t] = "steady"

CollectFees(t) ==
    LET a == accounts[t]
    IN  /\ Locked(t)
        /\ accounts' = [accounts EXCEPT ![t] = Collected(a, locks[t].automatic)]
        /\ lockerQuote' = lockerQuote + QuoteLeft(a, locks[t].automatic)
        /\ lockerToken' = [lockerToken EXCEPT ![t] = @ + TokenLeft(a)]
        /\ UNCHANGED <<factory, pools, gifts, trades>>

\* The swap may end at the price limit before it has used its budget; the tokens
\* it returns are burned.
ExecuteBuyback(t) ==
    LET a == accounts[t]
    IN  /\ Locked(t) /\ Executable(a, t)
        /\ \E spent \in 1..SwapBudget(a.reserve) : \E fee \in 0..Part(spent, PoolFee) :
              /\ accounts' = [accounts EXCEPT ![t] = Bought(a, spent, fee)]
              /\ lockerQuote' = lockerQuote - spent - Reward(spent)
        /\ UNCHANGED <<factory, lockerToken, pools, gifts, trades>>

\* What collectAndExecuteBuyback can do; it reverts as a whole when the buyback
\* does.
Buyback(t) ==
    LET a == accounts[t]
        c == Collected(a, locks[t].automatic)
    IN  /\ Locked(t) /\ Executable(c, t)
        /\ \E spent \in 1..SwapBudget(c.reserve) : \E fee \in 0..Part(spent, PoolFee) :
              /\ accounts' = [accounts EXCEPT ![t] = Bought(c, spent, fee)]
              /\ lockerQuote' = lockerQuote + QuoteLeft(a, locks[t].automatic)
                                - spent - Reward(spent)
        /\ lockerToken' = [lockerToken EXCEPT ![t] = @ + TokenLeft(a)]
        /\ UNCHANGED <<factory, pools, gifts, trades>>
-----------------------------------------------------------------------------
(* Everybody else. *)

Trade(t) ==
    /\ Locked(t) /\ trades < MaxTrades
    /\ \E fees \in TradeFees :
          accounts' = [accounts EXCEPT ![t].quoteFees = @ + fees.quote,
                                       ![t].tokenFees = @ + fees.token]
    /\ \E state \in {pools[t], IF pools[t] = "steady" THEN "moved" ELSE pools[t]} :
          pools' = [pools EXCEPT ![t] = state]
    /\ trades' = trades + 1
    /\ UNCHANGED <<factory, lockerQuote, lockerToken, gifts>>

Give ==
    /\ gifts.count < MaxGifts
    /\ \/ /\ gifts' = [gifts EXCEPT !.count = @ + 1, !.quote = @ + 1]
          /\ lockerQuote' = lockerQuote + 1
          /\ UNCHANGED lockerToken
       \/ \E t \in Token :
             /\ Locked(t)
             /\ gifts' = [gifts EXCEPT !.count = @ + 1, !.token[t] = @ + 1]
             /\ lockerToken' = [lockerToken EXCEPT ![t] = @ + 1]
             /\ UNCHANGED lockerQuote
    /\ UNCHANGED <<factory, accounts, pools, trades>>

\* Time passes: accounts come closer to their next buyback, and the mean of a
\* pool's price comes closer to the price.
Elapse ==
    /\ accounts' = [t \in Token |->
                      [accounts[t] EXCEPT !.age = IF @ < Cooldown THEN @ + 1 ELSE @]]
    /\ pools' = [t \in Token |-> IF pools[t] \in {"young", "moved"} THEN "steady" ELSE pools[t]]
    /\ UNCHANGED <<factory, lockerQuote, lockerToken, gifts, trades>>
-----------------------------------------------------------------------------
Init ==
    /\ launched = <<>>
    /\ locks = [t \in Token |-> NoLock]
    /\ accounts = [t \in Token |-> NewAccount]
    /\ lockerQuote = 0 /\ lockerToken = [t \in Token |-> 0]
    /\ pools = [t \in Token |-> "none"]
    /\ profiles = [c \in Creator |-> [registered |-> FALSE, count |-> 0]]
    /\ gifts = [count |-> 0, quote |-> 0, token |-> [t \in Token |-> 0]]
    /\ trades = 0

Next ==
    \/ \E t \in Token, c \in Creator, automatic \in BOOLEAN : Launch(t, c, automatic)
    \/ \E c \in Creator : RegisterCreator(c)
    \/ \E t \in Token : Poison(t) \/ CollectFees(t) \/ ExecuteBuyback(t) \/ Buyback(t) \/ Trade(t)
    \/ Give \/ Elapse

Spec == Init /\ [][Next]_vars
-----------------------------------------------------------------------------
(* Properties. *)

\* Types; no reserve ever goes below zero, which Solidity's checked arithmetic
\* would turn into a buyback that reverts for ever.
TypeOK ==
    /\ launched \in Seq(Token)
    /\ locks \in [Token -> Lock \union {NoLock}]
    /\ accounts \in [Token -> Account]
    /\ lockerQuote \in Int
    /\ lockerToken \in [Token -> Int]
    /\ pools \in [Token -> PoolState]
    /\ profiles \in [Creator -> [registered : BOOLEAN, count : Nat]]
    /\ gifts \in [count : Nat, quote : Nat, token : [Token -> Nat]]
    /\ trades \in Nat

\* The locker holds of each token what it owes, to the unit, whatever was rounded:
\* the one balance of quote all positions share backs every buyback reserve, and
\* no launch token is left behind by the transaction that collects or burns it.
Reserve(t) == accounts[t].reserve
Backed == lockerQuote = gifts.quote + MapThenSumSet(Reserve, Token)
NothingLeftBehind == lockerToken = gifts.token
Solvent == Backed /\ NothingLeftBehind

\* What a position was credited is still reserved, was spent on its token or paid
\* to keepers for spending, and the reward never exceeds its share of that.
Accounted ==
    \A t \in Token :
        /\ accounts[t].credited = accounts[t].reserve + accounts[t].spent + accounts[t].rewarded
        /\ accounts[t].rewarded * Bps <= accounts[t].spent * RewardShare

\* The registry counts the launches of a creator, before and after registering.
LaunchesOf(c) == {t \in Token : Locked(t) /\ locks[t].creator = c}
ProfilesCount == \A c \in Creator : profiles[c].count = Cardinality(LaunchesOf(c))
=============================================================================
