------------------------ MODULE LaunchProtocolProofs ------------------------
(***************************************************************************)
(* Proofs about LaunchProtocol, for any tokens, shares, fees and bounds.   *)
(* The argument is about one account at a time: collecting and buying back *)
(* keep an account in order, and a transaction that does both composes the *)
(* two facts.                                                              *)
(***************************************************************************)
EXTENDS BuybackKeeper, UniswapMathProofs, DataProofs

\* Nothing is in an account that was not credited, and rewards keep to their share.
InOrder(a) ==
    /\ a \in Account
    /\ a.credited = a.reserve + a.spent + a.rewarded
    /\ a.rewarded * Bps <= a.spent * RewardShare

AccountsInOrder == accounts \in [Token -> Account] /\ \A t \in Token : InOrder(accounts[t])
-----------------------------------------------------------------------------
(* Amounts. *)

LEMMA RewardBounds ==
    ASSUME NEW quote \in Nat
    PROVE  /\ Reward(quote) \in 0..quote
           /\ Reward(quote) * Bps <= quote * RewardShare
  <1>1. /\ Part(quote, RewardShare) \in 0..quote
        /\ Part(quote, RewardShare) * Bps <= quote * RewardShare
    BY PartBounds, ProtocolAssumption
  <1>2. Reward(quote) \in Nat /\ Reward(quote) <= Part(quote, RewardShare)
    BY <1>1, ProtocolAssumption DEF Reward
  <1>3. Reward(quote) * Bps <= Part(quote, RewardShare) * Bps
    BY <1>1, <1>2, TimesMonotone, MathAssumption
  <1>4. /\ Reward(quote) * Bps \in Nat /\ Part(quote, RewardShare) * Bps \in Nat
        /\ quote * RewardShare \in Nat
    BY <1>1, <1>2, MathAssumption, ProtocolAssumption
  <1> QED
    BY <1>1, <1>2, <1>3, <1>4

\* The reward for what was spent is covered by what the budget held back: the swap
\* and the reward together never take more than the reserve.
THEOREM RewardCovered ==
    ASSUME NEW reserve \in Nat, NEW spent \in 1..SwapBudget(reserve)
    PROVE  spent + Reward(spent) <= reserve
  <1>1. Reward(reserve) \in 0..reserve /\ SwapBudget(reserve) = reserve - Reward(reserve)
    BY RewardBounds DEF SwapBudget
  <1>2. spent \in Nat /\ spent <= reserve
    BY <1>1
  <1>3. /\ Part(spent, RewardShare) <= Part(reserve, RewardShare)
        /\ Part(spent, RewardShare) \in Nat /\ Part(reserve, RewardShare) \in Nat
    BY <1>2, PartMonotone, PartBounds, ProtocolAssumption
  <1>4. Reward(spent) <= Reward(reserve)
    BY <1>3, ProtocolAssumption DEF Reward
  <1>5. Reward(spent) \in Nat
    BY <1>2, RewardBounds
  <1> QED
    BY <1>1, <1>2, <1>4, <1>5

LEMMA SplitIsWhole ==
    ASSUME NEW amount \in Nat
    PROVE  /\ CreatorPart(amount) \in 0..amount
           /\ ProtocolPart(amount) \in 0..amount
           /\ CreatorPart(amount) + ProtocolPart(amount) = amount
  <1>1. CreatorPart(amount) \in 0..amount
    BY PartBounds, ProtocolAssumption DEF CreatorPart
  <1> QED
    BY <1>1 DEF ProtocolPart
-----------------------------------------------------------------------------
(* Accounts. *)

LEMMA CollectingKeepsOrder ==
    ASSUME NEW a, InOrder(a), NEW automatic \in BOOLEAN
    PROVE  /\ InOrder(Collected(a, automatic))
           /\ QuoteLeft(a, automatic) = Collected(a, automatic).reserve - a.reserve
           /\ TokenLeft(a) = 0
  <1> DEFINE kept == IF automatic THEN CreatorPart(a.quoteFees) ELSE 0
             c == Collected(a, automatic)
  <1>1. a \in Account /\ a.quoteFees \in Nat /\ a.tokenFees \in Nat /\ a.reserve \in Nat
        /\ a.credited \in Nat /\ a.spent \in Nat /\ a.rewarded \in Nat
        /\ a.credited = a.reserve + a.spent + a.rewarded
        /\ a.rewarded * Bps <= a.spent * RewardShare
    BY DEF InOrder, Account
  <1>2. kept \in Nat
    BY <1>1, SplitIsWhole
  <1>3. /\ c \in Account
        /\ c.reserve = a.reserve + kept /\ c.credited = a.credited + kept
        /\ c.spent = a.spent /\ c.rewarded = a.rewarded
    <2> HIDE DEF kept
    <2>1. c = [a EXCEPT !.quoteFees = 0, !.tokenFees = 0,
                        !.reserve = a.reserve + kept, !.credited = a.credited + kept]
      BY DEF Collected, kept
    <2>2. a.reserve + kept \in Nat /\ a.credited + kept \in Nat
      BY <1>1, <1>2
    <2> HIDE DEF c
    <2> QED
      BY <1>1, <2>1, <2>2 DEF Account
  <1>4. InOrder(c)
    <2> HIDE DEF c, kept
    <2>1. c.credited = c.reserve + c.spent + c.rewarded
      BY <1>1, <1>2, <1>3
    <2>2. c.rewarded * Bps <= c.spent * RewardShare
      BY <1>1, <1>3
    <2> QED
      BY <1>3, <2>1, <2>2 DEF InOrder
  <1>5. QuoteLeft(a, automatic) = kept
    BY <1>1, SplitIsWhole DEF QuoteLeft
  <1>6. TokenLeft(a) = 0
    BY <1>1, SplitIsWhole DEF TokenLeft
  <1> QED
    BY <1>1, <1>2, <1>3, <1>4, <1>5, <1>6

LEMMA BuyingKeepsOrder ==
    ASSUME NEW a, InOrder(a), NEW spent \in 1..SwapBudget(a.reserve), NEW fee \in Nat
    PROVE  /\ InOrder(Bought(a, spent, fee))
           /\ Bought(a, spent, fee).reserve = a.reserve - spent - Reward(spent)
  <1> DEFINE b == Bought(a, spent, fee)
             r == Reward(spent)
  <1>1. /\ a \in Account
        /\ a.quoteFees \in Nat /\ a.tokenFees \in Nat /\ a.reserve \in Nat
        /\ a.credited \in Nat /\ a.spent \in Nat /\ a.rewarded \in Nat
        /\ a.credited = a.reserve + a.spent + a.rewarded
        /\ a.rewarded * Bps <= a.spent * RewardShare
    BY DEF InOrder, Account
  <1>2. spent \in Nat
    BY <1>1, RewardBounds DEF SwapBudget
  <1>3. r \in Nat /\ r * Bps <= spent * RewardShare
    BY <1>2, RewardBounds
  <1>4. a.reserve - spent - r \in Nat
    BY <1>1, <1>2, <1>3, RewardCovered
  <1> HIDE DEF r
  <1>5. b = [a EXCEPT !.quoteFees = a.quoteFees + fee, !.reserve = a.reserve - spent - r,
                      !.age = 0, !.spent = a.spent + spent, !.rewarded = a.rewarded + r]
    BY DEF Bought, r
  <1>6. /\ b \in Account
        /\ b.reserve = a.reserve - spent - r /\ b.credited = a.credited
        /\ b.spent = a.spent + spent /\ b.rewarded = a.rewarded + r
    <2>1. /\ a.quoteFees + fee \in Nat /\ a.spent + spent \in Nat /\ a.rewarded + r \in Nat
          /\ 0 \in 0..Cooldown
      BY <1>1, <1>2, <1>3, ProtocolAssumption
    <2> HIDE DEF b
    <2> QED
      BY <1>1, <1>4, <1>5, <2>1 DEF Account
  <1> HIDE DEF b
  <1>7. b.credited = b.reserve + b.spent + b.rewarded
    BY <1>1, <1>2, <1>3, <1>4, <1>6
  <1>8. b.rewarded * Bps <= b.spent * RewardShare
    <2>1. /\ (a.rewarded + r) * Bps = a.rewarded * Bps + r * Bps
          /\ (a.spent + spent) * RewardShare = a.spent * RewardShare + spent * RewardShare
      BY <1>1, <1>2, <1>3, MathAssumption, ProtocolAssumption
    <2>2. /\ a.rewarded * Bps \in Nat /\ r * Bps \in Nat
          /\ a.spent * RewardShare \in Nat /\ spent * RewardShare \in Nat
      BY <1>1, <1>2, <1>3, MathAssumption, ProtocolAssumption
    <2>3. b.rewarded * Bps = a.rewarded * Bps + r * Bps
      BY <1>6, <2>1
    <2>4. b.spent * RewardShare = a.spent * RewardShare + spent * RewardShare
      BY <1>6, <2>1
    <2> QED
      BY <1>1, <1>3, <2>2, <2>3, <2>4
  <1> QED
    BY <1>6, <1>7, <1>8 DEF InOrder, b, r
-----------------------------------------------------------------------------
(* Trading and time. *)

LEMMA FeesKeepOrder ==
    ASSUME NEW a, InOrder(a), NEW q \in Nat, NEW k \in Nat
    PROVE  InOrder([a EXCEPT !.quoteFees = a.quoteFees + q, !.tokenFees = a.tokenFees + k])
  <1> DEFINE b == [a EXCEPT !.quoteFees = a.quoteFees + q, !.tokenFees = a.tokenFees + k]
  <1>1. a \in Account /\ a.quoteFees + q \in Nat /\ a.tokenFees + k \in Nat
    BY DEF InOrder, Account
  <1>2. /\ b \in Account /\ b.reserve = a.reserve /\ b.credited = a.credited
        /\ b.spent = a.spent /\ b.rewarded = a.rewarded
    BY <1>1 DEF Account
  <1> HIDE DEF b
  <1>3. InOrder(b)
    BY <1>2 DEF InOrder
  <1> QED
    BY <1>3 DEF b

LEMMA AgingKeepsOrder ==
    ASSUME NEW a, InOrder(a)
    PROVE  InOrder([a EXCEPT !.age = IF a.age < Cooldown THEN a.age + 1 ELSE a.age])
  <1> DEFINE age == IF a.age < Cooldown THEN a.age + 1 ELSE a.age
             b == [a EXCEPT !.age = age]
  <1>1. a \in Account
    BY DEF InOrder
  <1>2. age \in 0..Cooldown
    BY <1>1, ProtocolAssumption DEF Account
  <1> HIDE DEF age
  <1>3. /\ b \in Account /\ b.reserve = a.reserve /\ b.credited = a.credited
        /\ b.spent = a.spent /\ b.rewarded = a.rewarded
    BY <1>1, <1>2 DEF Account
  <1> HIDE DEF b
  <1>4. InOrder(b)
    BY <1>3 DEF InOrder
  <1> QED
    BY <1>4 DEF b, age
-----------------------------------------------------------------------------
(* Reachable states. *)

LEMMA LaunchRangeTypes ==
    ASSUME NEW isToken0 \in BOOLEAN
    PROVE  LaunchRange(isToken0).lower \in Int /\ LaunchRange(isToken0).upper \in Int
  <1>1. InitialTick[isToken0] \in Int /\ TickSpacing \in Nat \ {0} /\ MaxTick \in Nat
    BY ProtocolAssumption, MathAssumption
  <1>2. TickFloor(InitialTick[isToken0], TickSpacing) \in Int
    BY <1>1, TickFloorIsFloor
  <1>3. /\ MinUsableTick(TickSpacing) \in Int /\ MaxUsableTick(TickSpacing) \in Int
    BY <1>1 DEF MinUsableTick, MaxUsableTick, Quotient
  <1> QED
    BY <1>1, <1>2, <1>3 DEF LaunchRange, SingleSidedTicks

\* The range a launch computes never needs the quote token: neither order of the
\* two tokens, nor a negative tick, makes the factory's mint ask for USDC.
THEOREM LaunchNeedsNoQuote ==
    ASSUME NEW isToken0 \in BOOLEAN
    PROVE  ~NeedsQuote(LaunchRange(isToken0), InitialTick[isToken0], isToken0)
  <1>1. InitialTick[isToken0] \in Int /\ TickSpacing \in Nat \ {0}
    BY ProtocolAssumption
  <1>2. LET floor == TickFloor(InitialTick[isToken0], TickSpacing)
        IN  floor \in Int /\ floor <= InitialTick[isToken0] /\ InitialTick[isToken0] < floor + TickSpacing
    BY <1>1, TickFloorIsFloor
  <1> QED
    BY <1>1, <1>2 DEF NeedsQuote, LaunchRange, SingleSidedTicks
-----------------------------------------------------------------------------
(* The inductive invariant: types, and every account in order. *)

IInv == TypeOK /\ AccountsInOrder

LEMMA InitInv ==
    ASSUME Init
    PROVE  IInv
  <1>1. NewAccount \in Account
    BY ProtocolAssumption DEF NewAccount, Account
  <1>2. NewAccount.rewarded * Bps <= NewAccount.spent * RewardShare
    BY MathAssumption, ProtocolAssumption DEF NewAccount
  <1>3. InOrder(NewAccount)
    BY <1>1, <1>2 DEF InOrder, NewAccount
  <1>4. AccountsInOrder
    BY <1>1, <1>3 DEF Init, AccountsInOrder
  <1>5. launched \in Seq(Token)
    BY DEF Init
  <1>6. locks \in [Token -> Lock \union {NoLock}]
    BY DEF Init
  <1> QED
    BY <1>1, <1>4, <1>5, <1>6 DEF IInv, TypeOK, Init, PoolState

\* One account changes to another in order, and all else about accounts stays.
LEMMA OneAccount ==
    ASSUME AccountsInOrder, NEW t \in Token, NEW b, InOrder(b),
           accounts' = [accounts EXCEPT ![t] = b]
    PROVE  AccountsInOrder'
  <1>1. b \in Account
    BY DEF InOrder
  <1> QED
    BY <1>1 DEF AccountsInOrder

LEMMA LaunchInv ==
    ASSUME IInv, NEW t \in Token, NEW c \in Creator, NEW automatic \in BOOLEAN,
           Launch(t, c, automatic)
    PROVE  IInv'
  <1> DEFINE isToken0 == t \in Token0
             lock == [creator |-> c, automatic |-> automatic,
                      lower |-> LaunchRange(isToken0).lower,
                      upper |-> LaunchRange(isToken0).upper]
  <1>1. lock \in Lock
    <2>1. isToken0 \in BOOLEAN
      OBVIOUS
    <2> HIDE DEF isToken0
    <2>2. LaunchRange(isToken0).lower \in Int /\ LaunchRange(isToken0).upper \in Int
      BY <2>1, LaunchRangeTypes
    <2> QED
      BY <2>2 DEF Lock
  <1>2. locks' \in [Token -> Lock \union {NoLock}]
    BY <1>1 DEF Launch, IInv, TypeOK
  <1>3. launched' \in Seq(Token)
    BY DEF Launch, IInv, TypeOK
  <1>4. pools' \in [Token -> PoolState]
    BY DEF Launch, IInv, TypeOK, PoolState
  <1>5. profiles' \in [Creator -> [registered : BOOLEAN, count : Nat]]
    BY DEF Launch, IInv, TypeOK
  <1>6. AccountsInOrder'
    BY DEF Launch, IInv, AccountsInOrder, locker
  <1> QED
    BY <1>2, <1>3, <1>4, <1>5, <1>6 DEF Launch, IInv, TypeOK, locker

LEMMA CollectFeesInv ==
    ASSUME IInv, NEW t \in Token, CollectFees(t)
    PROVE  IInv'
  <1> DEFINE a == accounts[t]
             automatic == locks[t].automatic
  <1>1. InOrder(a) /\ automatic \in BOOLEAN
    BY DEF IInv, TypeOK, AccountsInOrder, CollectFees, Locked, Lock
  <1>2. /\ InOrder(Collected(a, automatic))
        /\ QuoteLeft(a, automatic) = Collected(a, automatic).reserve - a.reserve
        /\ TokenLeft(a) = 0
    BY <1>1, CollectingKeepsOrder
  <1>3. AccountsInOrder'
    BY <1>2, OneAccount DEF CollectFees, IInv
  <1>4. lockerQuote' \in Int
    <2>1. a.reserve \in Nat /\ Collected(a, automatic).reserve \in Nat
      BY <1>1, <1>2 DEF InOrder, Account
    <2>2. lockerQuote' = lockerQuote + QuoteLeft(a, automatic)
      BY DEF CollectFees
    <2> QED
      BY <1>2, <2>1, <2>2 DEF IInv, TypeOK
  <1>5. lockerToken' \in [Token -> Int]
    BY <1>2 DEF CollectFees, IInv, TypeOK
  <1> QED
    BY <1>3, <1>4, <1>5 DEF CollectFees, IInv, TypeOK, AccountsInOrder, factory

\* A buyback keeps the account it starts from in order, and takes from the balance
\* what it takes from the reserve.
LEMMA BuyingFrom ==
    ASSUME NEW a, InOrder(a), NEW spent \in 1..SwapBudget(a.reserve),
           NEW fee \in 0..Part(spent, PoolFee)
    PROVE  /\ InOrder(Bought(a, spent, fee))
           /\ spent + Reward(spent) = a.reserve - Bought(a, spent, fee).reserve
           /\ spent \in Nat /\ Reward(spent) \in Nat
  <1>1. a.reserve \in Nat
    BY DEF InOrder, Account
  <1>2. spent \in Nat
    BY <1>1, RewardBounds DEF SwapBudget
  <1>3. Reward(spent) \in Nat
    BY <1>2, RewardBounds
  <1>4. fee \in Nat
    BY <1>2, PartBounds, ProtocolAssumption
  <1>5. /\ InOrder(Bought(a, spent, fee))
        /\ Bought(a, spent, fee).reserve = a.reserve - spent - Reward(spent)
    BY <1>4, BuyingKeepsOrder
  <1> QED
    BY <1>1, <1>2, <1>3, <1>5

LEMMA ExecuteBuybackInv ==
    ASSUME IInv, NEW t \in Token, ExecuteBuyback(t)
    PROVE  IInv'
  <1> DEFINE a == accounts[t]
  <1>1. InOrder(a)
    BY DEF IInv, AccountsInOrder
  <1>2. PICK spent \in 1..SwapBudget(a.reserve) : \E fee \in 0..Part(spent, PoolFee) :
          /\ accounts' = [accounts EXCEPT ![t] = Bought(a, spent, fee)]
          /\ lockerQuote' = lockerQuote - spent - Reward(spent)
    BY DEF ExecuteBuyback
  <1>3. PICK fee \in 0..Part(spent, PoolFee) :
          /\ accounts' = [accounts EXCEPT ![t] = Bought(a, spent, fee)]
          /\ lockerQuote' = lockerQuote - spent - Reward(spent)
    BY <1>2
  <1>4. InOrder(Bought(a, spent, fee)) /\ spent \in Nat /\ Reward(spent) \in Nat
    BY <1>1, BuyingFrom
  <1>5. AccountsInOrder'
    BY <1>3, <1>4, OneAccount DEF IInv
  <1>6. lockerQuote' \in Int
    BY <1>3, <1>4 DEF IInv, TypeOK
  <1> QED
    BY <1>5, <1>6 DEF ExecuteBuyback, IInv, TypeOK, AccountsInOrder, factory

LEMMA BuybackInv ==
    ASSUME IInv, NEW t \in Token, Buyback(t)
    PROVE  IInv'
  <1> DEFINE a == accounts[t]
             automatic == locks[t].automatic
             c == Collected(a, automatic)
  <1>1. InOrder(a) /\ automatic \in BOOLEAN
    BY DEF IInv, TypeOK, AccountsInOrder, Buyback, Locked, Lock
  <1>2. /\ InOrder(c)
        /\ QuoteLeft(a, automatic) = c.reserve - a.reserve
        /\ TokenLeft(a) = 0
    BY <1>1, CollectingKeepsOrder
  <1>3. a.reserve \in Nat /\ c.reserve \in Nat
    BY <1>1, <1>2 DEF InOrder, Account
  <1>4. PICK spent \in 1..SwapBudget(c.reserve) : \E fee \in 0..Part(spent, PoolFee) :
          /\ accounts' = [accounts EXCEPT ![t] = Bought(c, spent, fee)]
          /\ lockerQuote' = lockerQuote + QuoteLeft(a, automatic) - spent - Reward(spent)
    BY DEF Buyback
  <1>5. PICK fee \in 0..Part(spent, PoolFee) :
          /\ accounts' = [accounts EXCEPT ![t] = Bought(c, spent, fee)]
          /\ lockerQuote' = lockerQuote + QuoteLeft(a, automatic) - spent - Reward(spent)
    BY <1>4
  <1> HIDE DEF c
  <1>6. InOrder(Bought(c, spent, fee)) /\ spent \in Nat /\ Reward(spent) \in Nat
    BY <1>2, BuyingFrom
  <1>7. AccountsInOrder'
    BY <1>5, <1>6, OneAccount DEF IInv
  <1>8. lockerQuote' \in Int
    BY <1>2, <1>3, <1>5, <1>6 DEF IInv, TypeOK
  <1>9. lockerToken' \in [Token -> Int]
    BY <1>2 DEF Buyback, IInv, TypeOK
  <1> QED
    BY <1>7, <1>8, <1>9 DEF Buyback, IInv, TypeOK, AccountsInOrder, factory

LEMMA TradeInv ==
    ASSUME IInv, NEW t \in Token, Trade(t)
    PROVE  IInv'
  <1> DEFINE a == accounts[t]
  <1>1. PICK fees \in TradeFees :
          accounts' = [accounts EXCEPT ![t].quoteFees = @ + fees.quote,
                                       ![t].tokenFees = @ + fees.token]
    BY DEF Trade
  <1>2. fees.quote \in Nat /\ fees.token \in Nat
    BY ProtocolAssumption
  <1> DEFINE b == [a EXCEPT !.quoteFees = a.quoteFees + fees.quote,
                            !.tokenFees = a.tokenFees + fees.token]
  <1>3. accounts \in [Token -> Account] /\ InOrder(a)
    BY DEF IInv, AccountsInOrder
  <1>4. accounts' = [accounts EXCEPT ![t] = b]
    BY <1>1, <1>3
  <1>5. InOrder(b)
    BY <1>2, <1>3, FeesKeepOrder
  <1> HIDE DEF b
  <1>6. AccountsInOrder'
    BY <1>4, <1>5, OneAccount DEF IInv
  <1>7. pools' \in [Token -> PoolState]
    BY DEF Trade, IInv, TypeOK, PoolState
  <1> QED
    BY <1>6, <1>7 DEF Trade, IInv, TypeOK, AccountsInOrder, factory

LEMMA ElapseInv ==
    ASSUME IInv, Elapse
    PROVE  IInv'
  <1>1. ASSUME NEW t \in Token PROVE InOrder(accounts'[t])
    <2>1. InOrder(accounts[t])
      BY DEF IInv, AccountsInOrder
    <2>2. accounts'[t] = [accounts[t] EXCEPT !.age =
            IF accounts[t].age < Cooldown THEN accounts[t].age + 1 ELSE accounts[t].age]
      BY <2>1 DEF Elapse, InOrder, Account
    <2> QED
      BY <2>1, <2>2, AgingKeepsOrder
  <1>2. AccountsInOrder'
    <2>1. \A t \in Token : accounts'[t] \in Account
      BY <1>1 DEF InOrder
    <2>2. accounts' \in [Token -> Account]
      BY <2>1 DEF Elapse
    <2> QED
      BY <1>1, <2>2 DEF AccountsInOrder
  <1>3. pools' \in [Token -> PoolState]
    BY DEF Elapse, IInv, TypeOK, PoolState
  <1> QED
    BY <1>2, <1>3 DEF Elapse, IInv, TypeOK, AccountsInOrder, factory

LEMMA NextInv == IInv /\ [Next]_vars => IInv'
  <1> SUFFICES ASSUME IInv, [Next]_vars PROVE IInv'
    OBVIOUS
  <1>1. CASE UNCHANGED vars
    BY <1>1 DEF vars, factory, locker, IInv, TypeOK, AccountsInOrder
  <1>2. ASSUME NEW c \in Creator, RegisterCreator(c) PROVE IInv'
    BY <1>2 DEF RegisterCreator, IInv, TypeOK, AccountsInOrder, locker
  <1>3. ASSUME NEW t \in Token, Poison(t) PROVE IInv'
    BY <1>3 DEF Poison, IInv, TypeOK, AccountsInOrder, locker, factory, PoolState
  <1>4. CASE Give
    <2>1. AccountsInOrder'
      BY <1>4 DEF Give, IInv, AccountsInOrder
    <2>2. /\ gifts' \in [count : Nat, quote : Nat, token : [Token -> Nat]]
          /\ lockerQuote' \in Int /\ lockerToken' \in [Token -> Int]
      <3>1. /\ gifts \in [count : Nat, quote : Nat, token : [Token -> Nat]]
            /\ lockerQuote \in Int /\ lockerToken \in [Token -> Int]
        BY DEF IInv, TypeOK
      <3>2. CASE /\ gifts' = [gifts EXCEPT !.count = @ + 1, !.quote = @ + 1]
                 /\ lockerQuote' = lockerQuote + 1
                 /\ UNCHANGED lockerToken
        <4>1. gifts.count + 1 \in Nat /\ gifts.quote + 1 \in Nat
          BY <3>1
        <4>2. gifts' = [gifts EXCEPT !.count = gifts.count + 1, !.quote = gifts.quote + 1]
          BY <3>1, <3>2
        <4>3. gifts' \in [count : Nat, quote : Nat, token : [Token -> Nat]]
          BY <3>1, <4>1, <4>2
        <4> QED
          BY <3>1, <3>2, <4>3
      <3>3. ASSUME NEW t \in Token,
                   gifts' = [gifts EXCEPT !.count = @ + 1, !.token[t] = @ + 1],
                   lockerToken' = [lockerToken EXCEPT ![t] = @ + 1],
                   UNCHANGED lockerQuote
            PROVE  /\ gifts' \in [count : Nat, quote : Nat, token : [Token -> Nat]]
                   /\ lockerQuote' \in Int /\ lockerToken' \in [Token -> Int]
        <4> DEFINE given == [gifts.token EXCEPT ![t] = gifts.token[t] + 1]
        <4>1. given \in [Token -> Nat] /\ gifts.count + 1 \in Nat
          BY <3>1
        <4>2. gifts' = [gifts EXCEPT !.count = gifts.count + 1, !.token = given]
          BY <3>1, <3>3
        <4> HIDE DEF given
        <4>3. gifts' \in [count : Nat, quote : Nat, token : [Token -> Nat]]
          BY <3>1, <4>1, <4>2
        <4> QED
          BY <3>1, <3>3, <4>3
      <3> QED
        BY <1>4, <3>2, <3>3 DEF Give
    <2> QED
      BY <1>4, <2>1, <2>2 DEF Give, IInv, TypeOK, AccountsInOrder, factory
  <1> QED
    BY <1>1, <1>2, <1>3, <1>4, LaunchInv, CollectFeesInv, ExecuteBuybackInv, BuybackInv,
       TradeInv, ElapseInv DEF Next

\* Every reachable state is well typed; in particular no reserve and no uncollected
\* fee of the locker's positions is ever negative, so that checked arithmetic never
\* makes a collection or a buyback revert.
THEOREM TypeCorrect == Spec => []TypeOK
  <1>1. IInv => TypeOK
    BY DEF IInv
  <1> QED
    BY InitInv, NextInv, <1>1, PTL DEF Spec

\* What the locker credited a position is, in every reachable state, still in its
\* reserve, spent on its token or paid to keepers, who never get more than their
\* share of what was spent.
THEOREM AlwaysAccounted == Spec => []Accounted
  <1>1. IInv => Accounted
    BY DEF IInv, AccountsInOrder, InOrder, Accounted
  <1> QED
    BY InitInv, NextInv, <1>1, PTL DEF Spec
-----------------------------------------------------------------------------
(* Launch tokens in the locker. *)

LEMMA PassedOn ==
    ASSUME IInv, NEW t \in Token
    PROVE  TokenLeft(accounts[t]) = 0
  <1>1. accounts[t].tokenFees \in Nat
    BY DEF IInv, TypeOK, Account
  <1> QED
    BY <1>1, SplitIsWhole DEF TokenLeft

LEMMA NothingLeftStep == IInv /\ NothingLeftBehind /\ [Next]_vars => NothingLeftBehind'
  <1> SUFFICES ASSUME IInv, NothingLeftBehind, [Next]_vars
               PROVE  NothingLeftBehind'
    OBVIOUS
  <1> USE DEF NothingLeftBehind
  <1>1. lockerToken \in [Token -> Int] /\ gifts \in [count : Nat, quote : Nat, token : [Token -> Nat]]
    BY DEF IInv, TypeOK
  <1>2. ASSUME NEW t \in Token, CollectFees(t) \/ Buyback(t)
        PROVE  NothingLeftBehind'
    <2>1. lockerToken' = [lockerToken EXCEPT ![t] = @ + TokenLeft(accounts[t])] /\ gifts' = gifts
      BY <1>2 DEF CollectFees, Buyback
    <2>2. lockerToken' = lockerToken
      BY <1>1, <2>1, PassedOn
    <2> QED
      BY <2>1, <2>2
  <1>3. CASE Give
    <2>1. CASE /\ gifts' = [gifts EXCEPT !.count = @ + 1, !.quote = @ + 1]
               /\ UNCHANGED lockerToken
      BY <1>1, <2>1
    <2>2. ASSUME NEW t \in Token,
                 gifts' = [gifts EXCEPT !.count = @ + 1, !.token[t] = @ + 1],
                 lockerToken' = [lockerToken EXCEPT ![t] = @ + 1]
          PROVE  NothingLeftBehind'
      BY <1>1, <2>2
    <2> QED
      BY <1>3, <2>1, <2>2 DEF Give
  <1>4. CASE UNCHANGED vars
    BY <1>4 DEF vars, locker
  <1>5. ASSUME NEW t \in Token, Poison(t) \/ Trade(t) \/ ExecuteBuyback(t)
        PROVE  NothingLeftBehind'
    BY <1>5 DEF Poison, Trade, ExecuteBuyback, locker
  <1>6. ASSUME NEW t \in Token, NEW c \in Creator, NEW automatic \in BOOLEAN, Launch(t, c, automatic)
        PROVE  NothingLeftBehind'
    BY <1>6 DEF Launch, locker
  <1>7. ASSUME NEW c \in Creator, RegisterCreator(c)
        PROVE  NothingLeftBehind'
    BY <1>7 DEF RegisterCreator, locker
  <1>8. CASE Elapse
    BY <1>8 DEF Elapse
  <1> QED
    BY <1>2, <1>3, <1>4, <1>5, <1>6, <1>7, <1>8 DEF Next

\* In no reachable state does the locker hold launch tokens it collected: the two
\* shares are the whole, whatever was rounded, and both leave in the transaction.
THEOREM NeverLeftBehind == Spec => []NothingLeftBehind
  <1>1. Init => NothingLeftBehind
    BY DEF Init, NothingLeftBehind
  <1> QED
    BY <1>1, InitInv, NextInv, NothingLeftStep, PTL DEF Spec
-----------------------------------------------------------------------------
(* The quote tokens in the locker. *)

\* The balance moves with the reserves, whoever's they are: a step leaves every
\* reserve alone and only gifts come in, or it moves the balance by what it moves
\* the reserve of one position.
BalanceFollowsReserves ==
    \/ /\ \A t \in Token : accounts'[t].reserve = accounts[t].reserve
       /\ lockerQuote' - gifts'.quote = lockerQuote - gifts.quote
    \/ \E t \in Token :
          /\ \A u \in Token \ {t} : accounts'[u] = accounts[u]
          /\ lockerQuote' - lockerQuote = accounts'[t].reserve - accounts[t].reserve
          /\ gifts' = gifts

LEMMA CollectMoves ==
    ASSUME IInv, NEW t \in Token, CollectFees(t)
    PROVE  BalanceFollowsReserves
  <1> DEFINE a == accounts[t]
             automatic == locks[t].automatic
             c == Collected(a, automatic)
  <1>1. InOrder(a) /\ automatic \in BOOLEAN /\ accounts \in [Token -> Account] /\ lockerQuote \in Int
    BY DEF IInv, TypeOK, AccountsInOrder, CollectFees, Locked, Lock
  <1>2. InOrder(c) /\ QuoteLeft(a, automatic) = c.reserve - a.reserve
    BY <1>1, CollectingKeepsOrder
  <1>3. a.reserve \in Nat /\ c.reserve \in Nat
    BY <1>1, <1>2 DEF InOrder, Account
  <1>4. /\ accounts' = [accounts EXCEPT ![t] = c]
        /\ lockerQuote' = lockerQuote + QuoteLeft(a, automatic)
        /\ gifts' = gifts
    BY DEF CollectFees
  <1> HIDE DEF c
  <1>5. accounts'[t] = c /\ \A u \in Token \ {t} : accounts'[u] = accounts[u]
    BY <1>1, <1>4
  <1>6. lockerQuote' - lockerQuote = accounts'[t].reserve - accounts[t].reserve
    BY <1>1, <1>2, <1>3, <1>4, <1>5
  <1> QED
    BY <1>4, <1>5, <1>6 DEF BalanceFollowsReserves

LEMMA ExecuteMoves ==
    ASSUME IInv, NEW t \in Token, ExecuteBuyback(t)
    PROVE  BalanceFollowsReserves
  <1> DEFINE a == accounts[t]
  <1>1. InOrder(a) /\ accounts \in [Token -> Account] /\ lockerQuote \in Int
    BY DEF IInv, TypeOK, AccountsInOrder
  <1>2. PICK spent \in 1..SwapBudget(a.reserve) : \E fee \in 0..Part(spent, PoolFee) :
          /\ accounts' = [accounts EXCEPT ![t] = Bought(a, spent, fee)]
          /\ lockerQuote' = lockerQuote - spent - Reward(spent)
    BY DEF ExecuteBuyback
  <1>3. PICK fee \in 0..Part(spent, PoolFee) :
          /\ accounts' = [accounts EXCEPT ![t] = Bought(a, spent, fee)]
          /\ lockerQuote' = lockerQuote - spent - Reward(spent)
    BY <1>2
  <1> DEFINE b == Bought(a, spent, fee)
  <1>4. /\ InOrder(b) /\ spent \in Nat /\ Reward(spent) \in Nat
        /\ spent + Reward(spent) = a.reserve - b.reserve
    BY <1>1, BuyingFrom
  <1>5. a.reserve \in Nat /\ b.reserve \in Nat
    BY <1>1, <1>4 DEF InOrder, Account
  <1>6. accounts' = [accounts EXCEPT ![t] = b]
    BY <1>3
  <1> HIDE DEF b
  <1>7. accounts'[t] = b /\ \A u \in Token \ {t} : accounts'[u] = accounts[u]
    BY <1>1, <1>6
  <1>8. lockerQuote' - lockerQuote = accounts'[t].reserve - accounts[t].reserve
    BY <1>1, <1>3, <1>4, <1>5, <1>7
  <1>9. gifts' = gifts
    BY DEF ExecuteBuyback
  <1> QED
    BY <1>7, <1>8, <1>9 DEF BalanceFollowsReserves

LEMMA BuybackMoves ==
    ASSUME IInv, NEW t \in Token, Buyback(t)
    PROVE  BalanceFollowsReserves
  <1> DEFINE a == accounts[t]
             automatic == locks[t].automatic
             c == Collected(a, automatic)
  <1>1. InOrder(a) /\ automatic \in BOOLEAN /\ accounts \in [Token -> Account] /\ lockerQuote \in Int
    BY DEF IInv, TypeOK, AccountsInOrder, Buyback, Locked, Lock
  <1>2. InOrder(c) /\ QuoteLeft(a, automatic) = c.reserve - a.reserve
    BY <1>1, CollectingKeepsOrder
  <1>3. PICK spent \in 1..SwapBudget(c.reserve) : \E fee \in 0..Part(spent, PoolFee) :
          /\ accounts' = [accounts EXCEPT ![t] = Bought(c, spent, fee)]
          /\ lockerQuote' = lockerQuote + QuoteLeft(a, automatic) - spent - Reward(spent)
    BY DEF Buyback
  <1>4. PICK fee \in 0..Part(spent, PoolFee) :
          /\ accounts' = [accounts EXCEPT ![t] = Bought(c, spent, fee)]
          /\ lockerQuote' = lockerQuote + QuoteLeft(a, automatic) - spent - Reward(spent)
    BY <1>3
  <1> HIDE DEF c
  <1> DEFINE b == Bought(c, spent, fee)
  <1>5. /\ InOrder(b) /\ spent \in Nat /\ Reward(spent) \in Nat
        /\ spent + Reward(spent) = c.reserve - b.reserve
    BY <1>2, BuyingFrom
  <1>6. a.reserve \in Nat /\ b.reserve \in Nat /\ c.reserve \in Nat
    BY <1>1, <1>2, <1>5 DEF InOrder, Account
  <1>7. accounts' = [accounts EXCEPT ![t] = b]
    BY <1>4
  <1> HIDE DEF b
  <1>8. accounts'[t] = b /\ \A u \in Token \ {t} : accounts'[u] = accounts[u]
    BY <1>1, <1>7
  <1>9. lockerQuote' - lockerQuote = accounts'[t].reserve - accounts[t].reserve
    BY <1>1, <1>2, <1>4, <1>5, <1>6, <1>8
  <1>10. gifts' = gifts
    BY DEF Buyback
  <1> QED
    BY <1>8, <1>9, <1>10 DEF BalanceFollowsReserves

\* Every step of the contracts keeps the shared balance in step with the reserves
\* it backs, so that no position ever spends what another one was credited.
THEOREM BalanceStaysBacked == Spec => [][BalanceFollowsReserves]_vars
  <1>1. IInv /\ [Next]_vars => [BalanceFollowsReserves]_vars
    <2> SUFFICES ASSUME IInv, Next PROVE BalanceFollowsReserves
      OBVIOUS
    <2>1. /\ accounts \in [Token -> Account] /\ lockerQuote \in Int
          /\ gifts \in [count : Nat, quote : Nat, token : [Token -> Nat]]
      BY DEF IInv, TypeOK
    <2>2. ASSUME UNCHANGED <<accounts, lockerQuote, gifts>>
          PROVE  BalanceFollowsReserves
      BY <2>2 DEF BalanceFollowsReserves
    <2>3. ASSUME NEW t \in Token, Trade(t) PROVE BalanceFollowsReserves
      <3>1. \A u \in Token : accounts'[u].reserve = accounts[u].reserve
        BY <2>1, <2>3 DEF Trade, Account
      <3> QED
        BY <2>3, <3>1 DEF Trade, BalanceFollowsReserves
    <2>4. CASE Give
      <3>1. lockerQuote' - gifts'.quote = lockerQuote - gifts.quote
        <4>1. CASE /\ gifts' = [gifts EXCEPT !.count = @ + 1, !.quote = @ + 1]
                   /\ lockerQuote' = lockerQuote + 1
          <5>1. gifts'.quote = gifts.quote + 1 /\ gifts.quote \in Nat
            BY <2>1, <4>1
          <5> QED
            BY <2>1, <4>1, <5>1
        <4>2. ASSUME NEW t \in Token,
                     gifts' = [gifts EXCEPT !.count = @ + 1, !.token[t] = @ + 1],
                     UNCHANGED lockerQuote
              PROVE  lockerQuote' - gifts'.quote = lockerQuote - gifts.quote
          <5>1. gifts'.quote = gifts.quote
            BY <2>1, <4>2
          <5> QED
            BY <4>2, <5>1
        <4> QED
          BY <2>4, <4>1, <4>2 DEF Give
      <3> QED
        BY <2>4, <3>1 DEF Give, BalanceFollowsReserves
    <2>5. CASE Elapse
      <3>1. \A u \in Token : accounts'[u].reserve = accounts[u].reserve
        BY <2>1, <2>5 DEF Elapse, Account
      <3> QED
        BY <2>5, <3>1 DEF Elapse, BalanceFollowsReserves
    <2>6. ASSUME NEW t \in Token, NEW c \in Creator, NEW automatic \in BOOLEAN, Launch(t, c, automatic)
          PROVE  BalanceFollowsReserves
      BY <2>2, <2>6 DEF Launch, locker
    <2>7. ASSUME NEW c \in Creator, RegisterCreator(c) PROVE BalanceFollowsReserves
      BY <2>2, <2>7 DEF RegisterCreator, locker
    <2>8. ASSUME NEW t \in Token, Poison(t) PROVE BalanceFollowsReserves
      BY <2>2, <2>8 DEF Poison, locker
    <2> QED
      BY <2>3, <2>4, <2>5, <2>6, <2>7, <2>8, CollectMoves, ExecuteMoves, BuybackMoves DEF Next
  <1> QED
    BY <1>1, InitInv, NextInv, PTL DEF Spec
-----------------------------------------------------------------------------
(* The registry. *)

\* A creator who is not registered has not launched, and so registering, which
\* sets the count to zero, forgets no launch.
CountInv ==
    /\ ProfilesCount
    /\ \A c \in Creator :
          /\ IsFiniteSet(LaunchesOf(c))
          /\ profiles[c].registered \/ LaunchesOf(c) = {}

LEMMA LockIsNoNoLock == \A lock \in Lock : lock # NoLock
  <1>1. DOMAIN NoLock = {"creator"}
    BY DEF NoLock
  <1>2. \A lock \in Lock : "automatic" \in DOMAIN lock
    BY DEF Lock
  <1> QED
    BY <1>1, <1>2

LEMMA CountStep == IInv /\ CountInv /\ [Next]_vars => CountInv'
  <1> SUFFICES ASSUME IInv, CountInv, [Next]_vars
               PROVE  CountInv'
    OBVIOUS
  <1>1. profiles \in [Creator -> [registered : BOOLEAN, count : Nat]]
    BY DEF IInv, TypeOK
  <1>2. ASSUME UNCHANGED <<locks, profiles>>
        PROVE  CountInv'
    BY <1>2 DEF CountInv, ProfilesCount, LaunchesOf, Locked
  <1>3. ASSUME NEW c \in Creator, RegisterCreator(c)
        PROVE  CountInv'
    <2>1. LaunchesOf(c) = {} /\ Cardinality(LaunchesOf(c)) = 0
      BY <1>3, FS_EmptySet DEF CountInv, RegisterCreator, Registerable
    <2>2. \A d \in Creator : LaunchesOf(d)' = LaunchesOf(d)
      BY <1>3 DEF RegisterCreator, LaunchesOf, Locked
    <2>3. profiles' = [profiles EXCEPT ![c] = [registered |-> TRUE, count |-> 0]]
      BY <1>3 DEF RegisterCreator
    <2>4. profiles'[c] = [registered |-> TRUE, count |-> 0]
      BY <1>1, <2>3
    <2>5. \A d \in Creator \ {c} : profiles'[d] = profiles[d]
      BY <1>1, <2>3
    <2> HIDE DEF LaunchesOf
    <2> QED
      BY <2>1, <2>2, <2>4, <2>5 DEF CountInv, ProfilesCount
  <1>4. ASSUME NEW t \in Token, NEW c \in Creator, NEW automatic \in BOOLEAN,
               Launch(t, c, automatic)
        PROVE  CountInv'
    <2>1. PICK lock \in Lock : lock.creator = c /\ locks' = [locks EXCEPT ![t] = lock]
      <3> DEFINE isToken0 == t \in Token0
                 range == LaunchRange(isToken0)
                 new == [creator |-> c, automatic |-> automatic,
                         lower |-> range.lower, upper |-> range.upper]
      <3>1. isToken0 \in BOOLEAN
        OBVIOUS
      <3>2. range.lower \in Int /\ range.upper \in Int
        BY <3>1, LaunchRangeTypes
      <3>3. locks' = [locks EXCEPT ![t] = new]
        BY <1>4 DEF Launch
      <3> HIDE DEF range
      <3>4. new \in Lock /\ new.creator = c
        BY <3>2 DEF Lock
      <3> QED
        BY <3>3, <3>4
    <2>2. locks[t] = NoLock /\ locks'[t] # NoLock /\ locks'[t].creator = c
      BY <1>4, <2>1, LockIsNoNoLock DEF Launch, Locked, IInv, TypeOK
    <2>3. \A u \in Token \ {t} : locks'[u] = locks[u]
      BY <2>1 DEF IInv, TypeOK
    <2>4. t \notin LaunchesOf(c) /\ LaunchesOf(c)' = LaunchesOf(c) \union {t}
      BY <2>2, <2>3 DEF LaunchesOf, Locked
    <2>5. \A d \in Creator \ {c} : LaunchesOf(d)' = LaunchesOf(d)
      BY <2>2, <2>3 DEF LaunchesOf, Locked
    <2>6. /\ profiles'[c].registered /\ profiles'[c].count = profiles[c].count + 1
          /\ \A d \in Creator \ {c} : profiles'[d] = profiles[d]
      BY <1>1, <1>4 DEF Launch
    <2> HIDE DEF LaunchesOf
    <2>7. /\ IsFiniteSet(LaunchesOf(c)')
          /\ Cardinality(LaunchesOf(c)') = Cardinality(LaunchesOf(c)) + 1
      BY <2>4, FS_AddElement DEF CountInv
    <2>8. profiles'[c].count = Cardinality(LaunchesOf(c)')
      BY <2>6, <2>7 DEF CountInv, ProfilesCount
    <2> QED
      BY <2>5, <2>6, <2>7, <2>8 DEF CountInv, ProfilesCount
  <1>5. ASSUME NEW t \in Token,
               Poison(t) \/ CollectFees(t) \/ ExecuteBuyback(t) \/ Buyback(t) \/ Trade(t)
        PROVE  CountInv'
    BY <1>2, <1>5 DEF Poison, CollectFees, ExecuteBuyback, Buyback, Trade, factory
  <1>6. CASE Give \/ Elapse \/ UNCHANGED vars
    BY <1>2, <1>6 DEF Give, Elapse, vars, factory
  <1> QED
    BY <1>3, <1>4, <1>5, <1>6 DEF Next

\* The registry's launch count of every creator is the number of positions locked
\* for that creator, whether the profile was registered before the first launch
\* or by it.
THEOREM CountsAreRight == Spec => []ProfilesCount
  <1>1. Init => CountInv
    <2> SUFFICES ASSUME Init PROVE CountInv
      OBVIOUS
    <2>1. \A c \in Creator : LaunchesOf(c) = {}
      BY DEF Init, LaunchesOf, Locked
    <2> QED
      BY <2>1, FS_EmptySet DEF Init, CountInv, ProfilesCount
  <1>2. CountInv => ProfilesCount
    BY DEF CountInv
  <1> QED
    BY <1>1, <1>2, InitInv, NextInv, CountStep, PTL DEF Spec
-----------------------------------------------------------------------------
(* The sum of the reserves, which changes by what changes in one of them. *)

ReserveSum(acc) == Total([t \in Token |-> acc[t].reserve], Token)

LEMMA TheReserveSum ==
    /\ MapThenSumSet(Reserve, Token) = ReserveSum(accounts)
    /\ MapThenSumSet(Reserve, Token)' = ReserveSum(accounts')
  <1>1. ASSUME NEW acc
        PROVE  (CHOOSE sum : sum = [s \in SUBSET Token |->
                                      IF s = {} THEN 0
                                      ELSE acc[AnyOf(s)].reserve + sum[s \ {AnyOf(s)}]])[Token]
               = ReserveSum(acc)
    <2> DEFINE w == [t \in Token |-> acc[t].reserve]
    <2>1. \A s \in SUBSET Token : s # {} => w[AnyOf(s)] = acc[AnyOf(s)].reserve
      BY AnyOfIt
    <2>2. ASSUME NEW sum
          PROVE  [s \in SUBSET Token |-> IF s = {} THEN 0
                                         ELSE acc[AnyOf(s)].reserve + sum[s \ {AnyOf(s)}]]
                 = [s \in SUBSET Token |-> IF s = {} THEN 0
                                           ELSE w[AnyOf(s)] + sum[s \ {AnyOf(s)}]]
      BY <2>1
    <2> HIDE DEF w
    <2>3. \A sum : IsSum(w, SUBSET Token, sum) <=>
                   sum = [s \in SUBSET Token |-> IF s = {} THEN 0
                                  ELSE acc[AnyOf(s)].reserve + sum[s \ {AnyOf(s)}]]
      BY <2>2 DEF IsSum
    <2> QED
      BY <2>3 DEF ReserveSum, Total, w
  <1> QED
    BY <1>1 DEF MapThenSumSet, MapThenFoldSet, Reserve, AnyOf

LEMMA SumsAgreeOnReserves ==
    ASSUME NEW a, NEW b, \A u \in Token : b[u].reserve = a[u].reserve
    PROVE  ReserveSum(b) = ReserveSum(a)
  <1> DEFINE v == [u \in Token |-> a[u].reserve]
             w == [u \in Token |-> b[u].reserve]
  <1>1. v = w
    OBVIOUS
  <1> QED
    BY <1>1 DEF ReserveSum

LEMMA SumType ==
    ASSUME NEW a, \A u \in Token : a[u].reserve \in Int
    PROVE  ReserveSum(a) \in Int
  <1> DEFINE v == [u \in Token |-> a[u].reserve]
  <1>1. \A u \in Token : v[u] \in Int
    OBVIOUS
  <1> HIDE DEF v
  <1>2. Total(v, Token) \in Int
    BY <1>1, ProtocolAssumption, TotalType
  <1> QED
    BY <1>2 DEF ReserveSum, v

\* Two sums, when the reserve of t alone differs.
LEMMA SumsDiffer ==
    ASSUME NEW a, NEW b, NEW t \in Token,
           \A u \in Token : a[u].reserve \in Int /\ b[u].reserve \in Int,
           \A u \in Token \ {t} : b[u].reserve = a[u].reserve
    PROVE  /\ ReserveSum(a) \in Int
           /\ ReserveSum(b) = ReserveSum(a) + b[t].reserve - a[t].reserve
  <1> DEFINE v == [u \in Token |-> a[u].reserve]
             w == [u \in Token |-> b[u].reserve]
  <1>1. /\ \A u \in Token : v[u] \in Int /\ w[u] \in Int
        /\ \A u \in Token \ {t} : v[u] = w[u]
        /\ v[t] = a[t].reserve /\ w[t] = b[t].reserve
    OBVIOUS
  <1> HIDE DEF v, w
  <1>2. \A u \in Token : v[u] \in Int
    BY <1>1
  <1>3. \A u \in Token : w[u] \in Int
    BY <1>1
  <1>4. \A u \in Token \ {t} : v[u] = w[u]
    BY <1>1
  <1>5. IsFiniteSet(Token)
    BY ProtocolAssumption
  <1>6. Total(w, Token) = Total(v, Token) + (w[t] - v[t])
    BY <1>2, <1>3, <1>4, <1>5, TotalChange
  <1>7. Total(v, Token) \in Int
    BY <1>2, <1>5, TotalType
  <1>8. ReserveSum(a) = Total(v, Token) /\ ReserveSum(b) = Total(w, Token)
    BY DEF ReserveSum, v, w
  <1> QED
    BY <1>1, <1>6, <1>7, <1>8

\* The balance of the quote token in the locker is what was given plus the sum of the
\* buyback reserves, to the unit: no position spends what another one was credited.
LEMMA AlwaysBacked == Spec => []Backed
  <1>1. Init => Backed
    <2> SUFFICES ASSUME Init PROVE Backed
      OBVIOUS
    <2>1. \A u \in Token : accounts[u].reserve = 0
      BY DEF Init, NewAccount
    <2>2. ReserveSum(accounts) = 0
      <3> DEFINE w == [t \in Token |-> accounts[t].reserve]
      <3>1. \A u \in Token : w[u] = 0
        BY <2>1
      <3> HIDE DEF w
      <3>2. Total(w, Token) = 0
        BY <3>1, ProtocolAssumption, TotalOfZeros
      <3> QED
        BY <3>2 DEF ReserveSum, w
    <2> QED
      BY <2>2, TheReserveSum DEF Init, Backed
  <1>2. IInv /\ IInv' /\ Backed /\ [BalanceFollowsReserves]_vars => Backed'
    <2> SUFFICES ASSUME IInv, IInv', Backed, [BalanceFollowsReserves]_vars PROVE Backed'
      OBVIOUS
    <2>1. \A u \in Token : accounts[u].reserve \in Int /\ accounts'[u].reserve \in Int
      BY DEF IInv, AccountsInOrder, Account
    <2>2. /\ lockerQuote \in Int /\ lockerQuote' \in Int
          /\ gifts.quote \in Int /\ gifts'.quote \in Int
      BY DEF IInv, TypeOK
    <2>3. lockerQuote = gifts.quote + ReserveSum(accounts)
      BY TheReserveSum DEF Backed
    <2>4. lockerQuote' = gifts'.quote + ReserveSum(accounts')
      <3>1. CASE UNCHANGED vars
        BY <2>3, <3>1 DEF vars, locker
      <3>2. CASE /\ \A t \in Token : accounts'[t].reserve = accounts[t].reserve
                 /\ lockerQuote' - gifts'.quote = lockerQuote - gifts.quote
        <4>1. ReserveSum(accounts') = ReserveSum(accounts) /\ ReserveSum(accounts) \in Int
          BY <2>1, <3>2, SumsAgreeOnReserves, SumType
        <4> QED
          BY <2>2, <2>3, <3>2, <4>1
      <3>3. ASSUME NEW t \in Token, \A u \in Token \ {t} : accounts'[u] = accounts[u],
                   lockerQuote' - lockerQuote = accounts'[t].reserve - accounts[t].reserve,
                   gifts' = gifts
            PROVE  lockerQuote' = gifts'.quote + ReserveSum(accounts')
        <4>1. /\ ReserveSum(accounts) \in Int
              /\ ReserveSum(accounts') = ReserveSum(accounts) + accounts'[t].reserve - accounts[t].reserve
          BY <2>1, <3>3, SumsDiffer
        <4> QED
          BY <2>1, <2>2, <2>3, <3>3, <4>1
      <3> QED
        BY <3>1, <3>2, <3>3 DEF BalanceFollowsReserves
    <2> QED
      BY <2>4, TheReserveSum DEF Backed
  <1> QED
    BY <1>1, <1>2, InitInv, NextInv, BalanceStaysBacked, PTL DEF Spec

\* The locker holds of each token exactly what it owes.
THEOREM AlwaysSolvent == Spec => []Solvent
  <1>1. Backed /\ NothingLeftBehind => Solvent
    BY DEF Solvent
  <1> QED
    BY <1>1, AlwaysBacked, NeverLeftBehind, PTL
-----------------------------------------------------------------------------
(* The keeper: at most one transaction is awaited, the last one it sent, and what it *)
(* counts as executed, with the success it is about to count, has landed.            *)

PendingTransaction == [token : Token, awaited : BOOLEAN]
AwaitsReceipt == pc = "receipt" /\ receipt = "none"
AboutToCount == IF pc = "receipt" /\ receipt = "success" THEN 1 ELSE 0

KeeperTyped ==
    /\ todo \in Seq(Token) /\ mempool \in Seq(PendingTransaction)
    /\ executed \in Nat /\ landed \in Nat /\ faults \in Nat
    /\ pc \in {"idle", "next", "simulate", "estimate", "send", "receipt"}
    /\ receipt \in {"none", "success", "reverted"}
    /\ pc \notin {"idle", "next"} => todo # <<>>
OneAwaited ==
    /\ \A i \in 1 .. Len(mempool) : mempool[i].awaited <=> (AwaitsReceipt /\ i = Len(mempool))
    /\ AwaitsReceipt => mempool # <<>>
CountsLanded ==
    /\ executed + AboutToCount <= landed
    /\ faults = 0 => executed + AboutToCount = landed
    /\ faults = 0 => \A i \in 1 .. Len(mempool) : mempool[i].awaited
KeeperInv == KeeperTyped /\ OneAwaited /\ CountsLanded

LEMMA KeeperStarts == KeeperInit => KeeperInv
  BY DEF KeeperInit, KeeperInv, KeeperTyped, OneAwaited, CountsLanded, AwaitsReceipt, AboutToCount

\* What the keeper does with the transactions under way left alone.
LEMMA KeeperGoesOn ==
    ASSUME KeeperInv, UNCHANGED <<mempool, receipt, landed>>, pc # "receipt", pc' # "receipt",
           UNCHANGED <<executed, faults>>
    PROVE  OneAwaited' /\ CountsLanded'
  BY DEF KeeperInv, OneAwaited, CountsLanded, AwaitsReceipt, AboutToCount

LEMMA KeeperSelects ==
    ASSUME IInv, KeeperInv, StartRun \/ EndRun \/ ReadInfo \/ Try \/ RunAborts
    PROVE  KeeperInv'
  <1>1. launched \in Seq(Token) /\ todo \in Seq(Token)
    BY DEF IInv, TypeOK, KeeperInv, KeeperTyped
  <1>2. CASE StartRun
    <2>1. ~AwaitsReceipt /\ \A i \in 1 .. Len(mempool) : ~mempool[i].awaited
      BY <1>2 DEF StartRun, KeeperInv, OneAwaited, AwaitsReceipt
    <2>2. OneAwaited'
      BY <1>2, <2>1 DEF StartRun, OneAwaited, AwaitsReceipt
    <2>3. CountsLanded'
      BY <1>2 DEF StartRun, KeeperInv, CountsLanded, AboutToCount
    <2>4. KeeperTyped'
      BY <1>1, <1>2 DEF StartRun, KeeperInv, KeeperTyped
    <2> QED
      BY <2>2, <2>3, <2>4 DEF KeeperInv
  <1>3. CASE EndRun
    <2>1. KeeperTyped'
      BY <1>1, <1>3 DEF EndRun, sending, KeeperInv, KeeperTyped
    <2> QED
      BY <1>3, <2>1, KeeperGoesOn DEF EndRun, sending, KeeperInv
  <1>4. CASE RunAborts
    <2>1. KeeperTyped'
      BY <1>1, <1>4 DEF RunAborts, sending, KeeperInv, KeeperTyped
    <2>2. OneAwaited' /\ CountsLanded'
      BY <1>4 DEF RunAborts, sending, KeeperInv, KeeperTyped, OneAwaited, CountsLanded, AwaitsReceipt, AboutToCount
    <2> QED
      BY <2>1, <2>2 DEF KeeperInv
  <1>5. CASE ReadInfo \/ Try
    <2>1. todo # <<>> /\ Tail(todo) \in Seq(Token)
      BY <1>1, <1>5 DEF ReadInfo, Try, KeeperInv, KeeperTyped
    <2>2. /\ UNCHANGED <<mempool, receipt, landed, executed, faults>> /\ pc # "receipt"
          /\ \/ pc' = "next" /\ todo' = Tail(todo)
             \/ pc' \in {"simulate", "estimate", "send"} /\ todo' = todo
      BY <1>5 DEF ReadInfo, Try, sending, ContinueRun
    <2>3. KeeperTyped'
      BY <1>1, <2>1, <2>2 DEF KeeperInv, KeeperTyped
    <2> QED
      BY <2>2, <2>3, KeeperGoesOn DEF KeeperInv
  <1> QED
    BY <1>2, <1>3, <1>4, <1>5

LEMMA KeeperSends ==
    ASSUME KeeperInv, Send \/ SendUnanswered
    PROVE  KeeperInv'
  <1>1. /\ pc = "send" /\ todo \in Seq(Token) /\ todo # <<>> /\ mempool \in Seq(PendingTransaction)
        /\ \A i \in 1 .. Len(mempool) : ~mempool[i].awaited
        /\ executed \in Nat /\ landed \in Nat /\ faults \in Nat
    BY DEF Send, SendUnanswered, KeeperInv, KeeperTyped, OneAwaited, AwaitsReceipt
  <1>2. PICK isAnswered \in BOOLEAN :
           /\ mempool' = Append(mempool, [token |-> Head(todo), awaited |-> isAnswered])
           /\ isAnswered => pc' = "receipt" /\ receipt' = "none" /\ UNCHANGED faults
           /\ ~isAnswered => pc' = pc /\ receipt' = receipt /\ faults' = faults + 1
           /\ UNCHANGED <<todo, executed, landed>>
    BY DEF Send, SendUnanswered, run
  <1> DEFINE sent == [token |-> Head(todo), awaited |-> isAnswered]
  <1>3. sent \in PendingTransaction /\ sent.awaited = isAnswered
    BY <1>1 DEF PendingTransaction
  <1> HIDE DEF sent
  <1>4. /\ mempool' \in Seq(PendingTransaction) /\ Len(mempool') = Len(mempool) + 1
        /\ mempool'[Len(mempool')] = sent /\ mempool' # <<>>
        /\ \A i \in 1 .. Len(mempool) : mempool'[i] = mempool[i]
    <2>1. mempool' = Append(mempool, sent) /\ mempool \in Seq(PendingTransaction)
      BY <1>1, <1>2 DEF sent
    <2> HIDE DEF PendingTransaction
    <2> QED
      BY <1>3, <2>1
  <1>5. KeeperTyped'
    BY <1>1, <1>2, <1>4 DEF KeeperInv, KeeperTyped
  <1>6. OneAwaited'
    <2>1. AwaitsReceipt' <=> isAnswered
      BY <1>1, <1>2 DEF AwaitsReceipt
    <2>2. Len(mempool) \in Nat /\ \A i \in 1 .. Len(mempool') : i \in 1 .. Len(mempool) \/ i = Len(mempool')
      BY <1>1, <1>4
    <2>3. \A i \in 1 .. Len(mempool) : i # Len(mempool')
      BY <1>4, <2>2
    <2> QED
      BY <1>1, <1>3, <1>4, <2>1, <2>2, <2>3 DEF OneAwaited
  <1>7. CountsLanded'
    <2>1. AboutToCount = 0 /\ AboutToCount' = 0
      BY <1>1, <1>2 DEF AboutToCount
    <2>2. faults' = 0 => faults = 0 /\ isAnswered
      BY <1>1, <1>2
    <2>3. faults = 0 => Len(mempool) = 0
      BY <1>1 DEF KeeperInv, CountsLanded
    <2>4. \A i \in 1 .. Len(mempool') : i = Len(mempool') \/ Len(mempool) # 0
      BY <1>1, <1>4
    <2> QED
      BY <1>2, <1>3, <1>4, <2>1, <2>2, <2>3, <2>4 DEF KeeperInv, CountsLanded
  <1> QED
    BY <1>5, <1>6, <1>7 DEF KeeperInv

LEMMA KeeperGivesUp ==
    ASSUME KeeperInv, CallFails
    PROVE  KeeperInv'
  <1>1. /\ todo \in Seq(Token) /\ todo # <<>> /\ mempool \in Seq(PendingTransaction)
        /\ executed \in Nat /\ landed \in Nat /\ faults \in Nat
    BY DEF CallFails, KeeperInv, KeeperTyped
  <1>2. /\ todo' = Tail(todo) /\ pc' = "next" /\ faults' = faults + 1 /\ mempool' = Abandoned(mempool)
        /\ UNCHANGED <<executed, receipt, landed>>
    BY DEF CallFails, ContinueRun
  <1>3. /\ mempool' \in Seq(PendingTransaction) /\ Len(mempool') = Len(mempool)
        /\ \A i \in 1 .. Len(mempool') : ~mempool'[i].awaited
    <2> DEFINE unawaited(i) == [mempool[i] EXCEPT !.awaited = FALSE]
    <2>1. DOMAIN mempool = 1 .. Len(mempool) /\ Len(mempool) \in Nat
      BY <1>1
    <2>2. ASSUME NEW i \in 1 .. Len(mempool)
          PROVE  unawaited(i) \in PendingTransaction /\ unawaited(i).awaited = FALSE
      <3> DEFINE pending == mempool[i]
      <3>1. pending \in PendingTransaction
        BY <1>1
      <3> HIDE DEF pending
      <3>2. [pending EXCEPT !.awaited = FALSE] \in PendingTransaction
            /\ [pending EXCEPT !.awaited = FALSE].awaited = FALSE
        BY <3>1 DEF PendingTransaction
      <3> QED
        BY <3>2 DEF pending
    <2>3. mempool' = [i \in 1 .. Len(mempool) |-> unawaited(i)]
      BY <1>2, <2>1 DEF Abandoned
    <2> HIDE DEF unawaited
    <2>4. mempool' \in [1 .. Len(mempool) -> PendingTransaction]
      BY <2>2, <2>3
    <2>5. mempool' \in Seq(PendingTransaction) /\ Len(mempool') = Len(mempool)
      BY <2>1, <2>4
    <2>6. \A i \in 1 .. Len(mempool) : mempool'[i].awaited = FALSE
      BY <2>2, <2>3
    <2> QED
      BY <2>5, <2>6
  <1>4. KeeperTyped'
    BY <1>1, <1>2, <1>3 DEF KeeperInv, KeeperTyped
  <1>5. OneAwaited'
    BY <1>2, <1>3 DEF OneAwaited, AwaitsReceipt
  <1>6. CountsLanded'
    BY <1>1, <1>2 DEF KeeperInv, CountsLanded, AboutToCount
  <1> QED
    BY <1>4, <1>5, <1>6 DEF KeeperInv

LEMMA KeeperCounts ==
    ASSUME KeeperInv, TakeReceipt
    PROVE  KeeperInv'
  <1>1. /\ todo \in Seq(Token) /\ todo # <<>> /\ executed \in Nat /\ landed \in Nat
        /\ pc = "receipt" /\ receipt # "none"
    BY DEF TakeReceipt, KeeperInv, KeeperTyped
  <1>2. /\ executed' = IF receipt = "success" THEN executed + 1 ELSE executed
        /\ receipt' = "none" /\ todo' = Tail(todo) /\ pc' = "next"
        /\ UNCHANGED <<mempool, landed, faults>>
    BY DEF TakeReceipt, ContinueRun, Succeeded
  <1>3. KeeperTyped'
    BY <1>1, <1>2 DEF KeeperInv, KeeperTyped
  <1>4. OneAwaited'
    BY <1>1, <1>2 DEF KeeperInv, OneAwaited, AwaitsReceipt
  <1>5. CountsLanded'
    BY <1>1, <1>2 DEF KeeperInv, CountsLanded, AboutToCount
  <1> QED
    BY <1>3, <1>4, <1>5 DEF KeeperInv

LEMMA KeeperMined ==
    ASSUME KeeperInv, Mine
    PROVE  KeeperInv'
  <1>1. /\ mempool \in Seq(PendingTransaction) /\ mempool # <<>> /\ landed \in Nat /\ executed \in Nat
    BY DEF Mine, MineExecuted, MineReverted, KeeperInv, KeeperTyped
  <1>2. PICK outcome \in {"success", "reverted"} :
           /\ mempool' = Tail(mempool)
           /\ receipt' = IF Head(mempool).awaited THEN outcome ELSE receipt
           /\ landed' = IF outcome = "success" THEN landed + 1 ELSE landed
           /\ UNCHANGED <<pc, todo, executed, failed, faults>>
    BY DEF Mine, MineExecuted, MineReverted, Mined, run
  <1>3. /\ mempool' \in Seq(PendingTransaction) /\ Len(mempool') = Len(mempool) - 1 /\ Len(mempool) \in Nat
        /\ \A i \in 1 .. Len(mempool') : mempool'[i] = mempool[i + 1] /\ i + 1 \in 1 .. Len(mempool)
        /\ Head(mempool) = mempool[1] /\ 1 \in 1 .. Len(mempool)
    BY <1>1, <1>2
  <1>4. Head(mempool).awaited <=> (AwaitsReceipt /\ Len(mempool) = 1)
    BY <1>3 DEF KeeperInv, OneAwaited
  <1>5. KeeperTyped'
    BY <1>1, <1>2, <1>3 DEF KeeperInv, KeeperTyped
  <1>6. OneAwaited'
    <2>1. AwaitsReceipt' <=> (AwaitsReceipt /\ Len(mempool) # 1)
      BY <1>2, <1>4 DEF AwaitsReceipt
    <2>2. \A i \in 1 .. Len(mempool') : mempool'[i].awaited <=> (AwaitsReceipt /\ i = Len(mempool'))
      BY <1>3 DEF KeeperInv, OneAwaited
    <2>3. \A i \in 1 .. Len(mempool') : Len(mempool) # 1
      BY <1>3
    <2>4. Len(mempool) # 1 => mempool' # <<>>
      BY <1>3
    <2> QED
      BY <2>1, <2>2, <2>3, <2>4 DEF OneAwaited
  <1>7. CountsLanded'
    <2>1. faults = 0 => AwaitsReceipt /\ Head(mempool).awaited
      BY <1>3, <1>4 DEF KeeperInv, CountsLanded
    <2>2. AboutToCount' = IF Head(mempool).awaited /\ outcome = "success" THEN 1 ELSE AboutToCount
      BY <1>2, <1>4 DEF AboutToCount, AwaitsReceipt
    <2>3. Head(mempool).awaited => AboutToCount = 0
      BY <1>4 DEF AboutToCount, AwaitsReceipt
    <2>4. AboutToCount \in {0, 1}
      BY DEF AboutToCount
    <2>5. executed' + AboutToCount' <= landed'
      BY <1>1, <1>2, <2>2, <2>3, <2>4 DEF KeeperInv, CountsLanded
    <2>6. faults' = 0 => executed' + AboutToCount' = landed'
      BY <1>1, <1>2, <2>1, <2>2, <2>3 DEF KeeperInv, CountsLanded
    <2>7. faults' = 0 => \A i \in 1 .. Len(mempool') : mempool'[i].awaited
      BY <1>2, <1>3 DEF KeeperInv, CountsLanded
    <2> QED
      BY <2>5, <2>6, <2>7 DEF CountsLanded
  <1> QED
    BY <1>5, <1>6, <1>7 DEF KeeperInv

LEMMA KeeperMoves == IInv /\ KeeperInv /\ [KeeperNext]_allVars => KeeperInv'
  <1> SUFFICES ASSUME IInv, KeeperInv, [KeeperNext]_allVars PROVE KeeperInv'
    OBVIOUS
  <1>1. CASE UNCHANGED keeperVars
    BY <1>1 DEF keeperVars, run, sending, KeeperInv, KeeperTyped, OneAwaited, CountsLanded,
                AwaitsReceipt, AboutToCount
  <1> QED
    BY <1>1, KeeperSelects, KeeperSends, KeeperGivesUp, KeeperCounts, KeeperMined
    DEF KeeperNext, KeeperStep, KeeperFault, allVars

\* To the contracts the keeper is one caller among others.
LEMMA KeeperCalls == KeeperInv /\ [KeeperNext]_allVars => [Next]_vars
  <1> SUFFICES ASSUME KeeperInv, [KeeperNext]_allVars PROVE [Next]_vars
    OBVIOUS
  <1>1. CASE UNCHANGED vars
    BY <1>1
  <1>2. CASE MineExecuted
    <2>1. mempool \in Seq(PendingTransaction) /\ mempool # <<>> /\ Buyback(Head(mempool).token)
      BY <1>2 DEF MineExecuted, KeeperInv, KeeperTyped
    <2>2. Head(mempool) \in PendingTransaction
      BY <2>1
    <2>3. Head(mempool).token \in Token
      BY <2>2 DEF PendingTransaction
    <2> QED
      BY <2>1, <2>3 DEF Next
  <1>3. CASE Next
    BY <1>3
  <1> QED
    BY <1>1, <1>2, <1>3 DEF KeeperNext, KeeperStep, KeeperFault, Mine, StartRun, EndRun, ReadInfo, Try, Send,
       TakeReceipt, SendUnanswered, CallFails, RunAborts, MineReverted, allVars

\* Whatever the keeper does, and whatever is lost or repeated, the contracts see a
\* behaviour of their own: what is proved of them holds with the keeper running.
THEOREM KeeperUsesTheContracts == KeeperSpec => Spec
  <1>1. KeeperInit => Init /\ KeeperInv
    BY KeeperStarts DEF KeeperInit
  <1>2. IInv /\ KeeperInv /\ [KeeperNext]_allVars => IInv' /\ KeeperInv' /\ [Next]_vars
    BY NextInv, KeeperMoves, KeeperCalls
  <1> QED
    BY <1>1, <1>2, InitInv, PTL DEF KeeperSpec, Spec

\* The keeper never counts a buyback that did not succeed, whatever call failed, was
\* repeated or left a transaction behind; when none failed, it counts each.
THEOREM KeeperReportsTruly == KeeperSpec => []ReportsTruly
  <1>1. KeeperInit => IInv /\ KeeperInv
    BY InitInv, KeeperStarts DEF KeeperInit
  <1>2. IInv /\ KeeperInv /\ [KeeperNext]_allVars => IInv' /\ KeeperInv'
    BY NextInv, KeeperMoves, KeeperCalls
  <1>3. KeeperInv => ReportsTruly
    BY DEF KeeperInv, KeeperTyped, CountsLanded, AboutToCount, ReportsTruly
  <1> QED
    BY <1>1, <1>2, <1>3, PTL DEF KeeperSpec
=============================================================================
