----------------------------- MODULE HolderCards -----------------------------
(***************************************************************************)
(* The holder snapshots of a token's page (src/src/hooks/                  *)
(* use-holder-snapshot.ts): the hook is mounted twice, by the page header, *)
(* which always refreshes itself, and by the dashboard, which does so only *)
(* while a tab that shows holders is open. The two share the requests      *)
(* under way, localStorage, and every answer, by an event.                 *)
(*                                                                         *)
(* A snapshot says how often each trade is counted in its balances. One of *)
(* the server (or of localStorage) counts the trades up to its block once; *)
(* a confirmed trade is added to the snapshot shown without knowing        *)
(* whether it is in it already, and stays so until an answer replaces it.  *)
(***************************************************************************)
EXTENDS Naturals

CONSTANTS
  Card,        \* the mounted hooks
  Always,      \* those with autoRefresh on for good
  NoSnapshot,     \* no snapshot
  MaxMade    \* bound: trades of the token

VARIABLES
  made,        \* trades on the chain: 1 .. made
  heard,       \* trades the page had an event for
  holders,     \* card -> the snapshot it shows: trade -> times counted, or Nothing
  autoRefresh, \* cards with autoRefresh
  asking,      \* card -> its current request: "none", "cached", "fresh"
  loading,     \* cards whose current request is not in the background
  old,         \* cards in the state `stale`
  timers,      \* cards with a reconciliation timer
  requested,   \* pendingRequests: keys of fetches under way
  kept         \* localStorage: the block of the snapshot stored, or Nothing

ASSUME CardsAssumption == MaxMade \in Nat /\ Always \subseteq Card

cardsVars == <<made, heard, holders, autoRefresh, asking, loading, old, timers, requested, kept>>
pageVars == <<made, heard>>
askVars == <<asking, loading, requested>>

TradeNumber == 1 .. MaxMade
HoldersAt(v) == [t \in TradeNumber |-> IF t <= v THEN 1 ELSE 0]
FromServer(shown) == \E v \in 0 .. MaxMade : shown = HoldersAt(v)
Kept == IF kept = NoSnapshot THEN NoSnapshot ELSE HoldersAt(kept)

\* refresh(force, background) of the cards of a set: each joins the fetch of
\* its kind that is under way, or starts it.
AskFor(cards, key, background) ==
  /\ asking' = [c \in Card |-> IF c \in cards THEN key ELSE asking[c]]
  /\ loading' = IF background THEN loading \ cards ELSE loading \union cards
  /\ requested' = IF cards = {} THEN requested ELSE requested \union {key}

CardsInit ==
  /\ made = 0
  /\ heard = {}
  /\ kept \in {NoSnapshot, 0}
  /\ autoRefresh = Always
  /\ holders = [c \in Card |-> Kept]
  /\ asking = [c \in Card |-> IF c \in Always THEN "cached" ELSE "none"]
  /\ loading = Always
  /\ old = {}
  /\ timers = {}
  /\ requested = IF Always = {} THEN {} ELSE {"cached"}

NextTrade ==
  /\ made < MaxMade
  /\ made' = made + 1
  /\ UNCHANGED <<heard, holders, autoRefresh, askVars, old, timers, kept>>

-----------------------------------------------------------------------------
(* Events *)

\* applyConfirmedTransfer on every card that shows a snapshot.
Apply(shown, t) == IF shown = NoSnapshot THEN NoSnapshot ELSE [shown EXCEPT ![t] = @ + 1]

CountTrade(t) ==
  /\ t \in 1 .. made /\ t \notin heard
  /\ heard' = heard \union {t}
  /\ holders' = [c \in Card |-> Apply(holders[c], t)]
  /\ timers' = Card
  /\ UNCHANGED <<made, autoRefresh, askVars, old, kept>>

\* A holder_change of the indexer: the balances are asked for again.
HandleHolderEvent ==
  /\ made > 0
  /\ timers' = Card
  /\ UNCHANGED <<pageVars, holders, autoRefresh, askVars, old, kept>>

\* refresh(true, true) after a trade: dropped while the card asks already.
ReconcileHolders(c) ==
  /\ c \in timers
  /\ timers' = timers \ {c}
  /\ IF asking[c] = "none" THEN AskFor({c}, "fresh", TRUE) ELSE UNCHANGED askVars
  /\ UNCHANGED <<pageVars, holders, autoRefresh, old, kept>>

\* useLiveRefresh
PollHolders(c) ==
  /\ c \in autoRefresh /\ asking[c] = "none"
  /\ AskFor({c}, "cached", TRUE)
  /\ UNCHANGED <<pageVars, holders, autoRefresh, old, timers, kept>>

RevalidateHolders(c) ==
  /\ c \in old \ loading
  /\ AskFor({c}, "cached", FALSE)
  /\ UNCHANGED <<pageVars, holders, autoRefresh, old, timers, kept>>

\* The button of the holder tab.
RefreshHolders(c) ==
  /\ c \in autoRefresh \ Always /\ c \notin loading
  /\ AskFor({c}, "fresh", FALSE)
  /\ UNCHANGED <<pageVars, holders, autoRefresh, old, timers, kept>>

\* The effect that loads: what localStorage has, and a refresh where it is on.
Loads(cards, refreshing) ==
  /\ holders' = [c \in Card |-> IF c \in cards THEN Kept ELSE holders[c]]
  /\ old' = old \ cards
  /\ AskFor(cards \intersect refreshing, "cached", FALSE)

\* The user opens or leaves a tab that shows holders.
TabChanges(c) ==
  /\ c \in Card \ Always
  /\ autoRefresh' = IF c \in autoRefresh THEN autoRefresh \ {c} ELSE autoRefresh \union {c}
  /\ Loads({c}, autoRefresh')
  /\ UNCHANGED <<pageVars, timers, kept>>

\* Another token object after the index was loaded: the effects of both cards
\* run again and the reconciliation timers are gone.
ReloadHolders ==
  /\ Loads(Card, autoRefresh)
  /\ timers' = {}
  /\ UNCHANGED <<pageVars, autoRefresh, kept>>

-----------------------------------------------------------------------------
(* Answers *)

Waiting(key) == {c \in Card : asking[c] = key}

HoldersLand(key) ==
  /\ key \in requested
  /\ requested' = requested \ {key}
  /\ asking' = [c \in Card |-> IF asking[c] = key THEN "none" ELSE asking[c]]
  /\ loading' = loading \ Waiting(key)

\* The server answers with some block, for a cached answer possibly an old
\* one. It is stored and every card shows it, those that asked for another
\* answer too; when all have asked again meanwhile, it is dropped.
HoldersAnswered(key, v, stale) ==
  /\ HoldersLand(key)
  /\ v \in 0 .. made
  /\ IF Waiting(key) = {} THEN UNCHANGED <<holders, old, kept>>
     ELSE /\ holders' = [c \in Card |-> HoldersAt(v)]
          /\ old' = IF stale THEN old \union Waiting(key) ELSE old \ Waiting(key)
          /\ kept' = v
  /\ UNCHANGED <<pageVars, autoRefresh, timers>>

Unnoticed(cards) == old
Noticed(cards) == old \union cards

HoldersUnanswered(key) ==
  /\ HoldersLand(key)
  /\ old' = Noticed(Waiting(key))
  /\ UNCHANGED <<pageVars, holders, autoRefresh, timers, kept>>

CardsNext ==
  \/ NextTrade \/ HandleHolderEvent \/ ReloadHolders
  \/ \E t \in TradeNumber : CountTrade(t)
  \/ \E c \in Card : ReconcileHolders(c) \/ PollHolders(c) \/ RevalidateHolders(c) \/ RefreshHolders(c) \/ TabChanges(c)
  \/ \E key \in {"cached", "fresh"} :
       \/ HoldersUnanswered(key)
       \/ \E v \in 0 .. MaxMade, stale \in BOOLEAN : HoldersAnswered(key, v, stale)

CardsSpec == CardsInit /\ [][CardsNext]_cardsVars

-----------------------------------------------------------------------------
CardsTypeOK ==
  /\ made \in 0 .. MaxMade /\ heard \subseteq 1 .. made
  /\ \A c \in Card : holders[c] = NoSnapshot \/ holders[c] \in [TradeNumber -> 0 .. 2]
  /\ autoRefresh \subseteq Card /\ Always \subseteq autoRefresh
  /\ asking \in [Card -> {"none", "cached", "fresh"}]
  /\ loading \subseteq {c \in Card : asking[c] # "none"}
  /\ old \subseteq Card /\ timers \subseteq Card
  /\ {asking[c] : c \in Card} \ {"none"} \subseteq requested
  /\ kept = NoSnapshot \/ kept \in 0 .. MaxMade

\* Balances that no server snapshot has (a trade counted twice, or counted on
\* top of an older snapshot) are on their way out: the card has a timer, a
\* request, a revalidation or polling that replaces them, also after a
\* reconciliation was dropped or failed, a tab change, or another card's answer.
GuessesAreReplaced ==
  \A c \in Card :
    (holders[c] # NoSnapshot /\ ~FromServer(holders[c])) =>
      c \in timers \union old \union autoRefresh \/ asking[c] # "none"
=============================================================================
