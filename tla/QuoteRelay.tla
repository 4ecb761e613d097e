----------------------------- MODULE QuoteRelay -----------------------------
(***************************************************************************)
(* GET /api/onchain/quote: a rate per client, a short cache, and requests  *)
(* that share one pending read of the price.  The read takes the price     *)
(* from the event store while its checkpoint is recent, and from the       *)
(* Quoter contract through hedged attempts otherwise.  A step ends where   *)
(* its handler awaits; the continuations of one settled promise are steps  *)
(* of their own, between which a new request can begin.                    *)
(***************************************************************************)
EXTENDS Lists, SequencesExt, FiniteSets, FiniteSetsExt

CONSTANTS
    Client,         \* requests the server can have under way
    QuoteKey,       \* pool, side and amount
    None,
    Ttl,            \* of a cached quote (7.5 s)
    IndexedAge,     \* age up to which the stored price is used (30 s)
    MaxCached, MaxPending, \* entries (256)
    Attempts,       \* of a hedged read: the providers and the first of them again
    RateWindow, RateLimit, \* 120 in a minute
    MaxClock        \* a bound

ASSUME QuoteAssumption ==
    /\ None \notin Client /\ None \notin QuoteKey
    /\ Attempts \in Nat \ {0} /\ MaxClock \in Nat

VARIABLES
    clock,
    cache,          \* quoteCache, oldest first: [key, expires, quoted]
    pending,        \* pendingQuotes: the request whose read the key's requests wait for
    priceReads,          \* the read each request began: [at, key, quoted, failed]
    waits,          \* the read each request waits for
    rate,           \* quoteRates of the one client: [started, count]
    verified        \* verifiedMarkets has the market

quoteVars == <<clock, cache, pending, priceReads, waits, rate, verified>>

NoRead == [at |-> "none", key |-> None, quoted |-> 0, failed |-> 0]

QuoteTypeOK ==
    /\ clock \in 0..MaxClock
    /\ Len(cache) <= MaxCached
    /\ \A e \in ToSet(cache) :
          e \in [key : QuoteKey, expires : 0..(MaxClock + Ttl), quoted : 0..MaxClock]
    /\ pending \in [QuoteKey -> Client \cup {None}]
    /\ priceReads \in [Client -> [at : {"none", "markets", "contracts", "stored", "hedged", "quoted", "failed"},
                             key : QuoteKey \cup {None}, quoted : 0..MaxClock, failed : 0..Attempts]]
    /\ waits \in [Client -> Client \cup {None}]
    /\ rate \in [started : 0..MaxClock, count : 0..RateLimit]
    /\ verified \in BOOLEAN

QuoteInit ==
    /\ clock = 0 /\ cache = << >> /\ pending = [k \in QuoteKey |-> None]
    /\ priceReads = [c \in Client |-> NoRead] /\ waits = [c \in Client |-> None]
    /\ rate = [started |-> 0, count |-> 0] /\ verified = FALSE

Settled(c) == priceReads[c].at \in {"quoted", "failed"}

\* Continuations run before time passes.
Pass ==
    /\ clock < MaxClock /\ clock' = clock + 1
    /\ \A c \in Client : ~Settled(c)
    /\ UNCHANGED <<cache, pending, priceReads, waits, rate, verified>>

-----------------------------------------------------------------------------

Live(e) == e.expires > clock
CachedQuote(key) == {e \in ToSet(cache) : e.key = key /\ Live(e)}

\* consumeQuoteRate
NewWindow == clock - rate.started >= RateWindow
RateLeft == NewWindow \/ rate.count < RateLimit
ConsumeQuoteRate ==
    rate' = IF NewWindow THEN [started |-> clock, count |-> 1]
            ELSE IF RateLeft THEN [rate EXCEPT !.count = @ + 1] ELSE rate

Unused(c) == waits[c] = None /\ \A d \in Client : waits[d] # c
Get(c, key) ==
    /\ Unused(c)
    /\ ConsumeQuoteRate
    /\ LET found == CachedQuote(key)
           swept == IF RateLeft THEN Filtered(cache, {e \in ToSet(cache) : e.key # key \/ Live(e)}) ELSE cache
           count == Cardinality({k \in QuoteKey : pending[k] # None})
       IN  /\ cache' = swept
           /\ IF ~RateLeft \/ found # {} \/ (pending[key] = None /\ count >= MaxPending)
              THEN UNCHANGED <<pending, priceReads, waits>>
              ELSE /\ waits' = [waits EXCEPT ![c] = IF pending[key] = None THEN c ELSE pending[key]]
                   /\ pending' = IF pending[key] = None THEN [pending EXCEPT ![key] = c] ELSE pending
                   /\ priceReads' = IF pending[key] = None
                               THEN [priceReads EXCEPT ![c] = [NoRead EXCEPT !.at = "markets", !.key = key]]
                               ELSE priceReads
    /\ UNCHANGED <<clock, verified>>

-----------------------------------------------------------------------------
\* readVerifiedQuote

Quoted(r, quoted) == [r EXCEPT !.at = "quoted", !.quoted = quoted]

\* The cached token index and the event store were asked for the market.
Markets(c, indexed, stored) ==
    /\ priceReads[c].at = "markets"
    /\ verified' = (verified \/ indexed \/ stored)
    /\ priceReads' = [priceReads EXCEPT ![c].at =
                    IF stored THEN "stored" ELSE IF verified' THEN "hedged" ELSE "contracts"]
    /\ UNCHANGED <<clock, cache, pending, waits, rate>>

\* Neither knows it: the Factory and Uniswap's factory do, or the request is refused.
Contracts(c, genuine) ==
    /\ priceReads[c].at = "contracts"
    /\ verified' = (verified \/ genuine)
    /\ priceReads' = [priceReads EXCEPT ![c].at = IF genuine THEN "hedged" ELSE "failed"]
    /\ UNCHANGED <<clock, cache, pending, waits, rate>>

RecentEnough(at) == clock - at <= IndexedAge

\* The stored pool state has the time of its checkpoint, or cannot be read.
StoredState(c, at) ==
    /\ priceReads[c].at = "stored" /\ at <= clock
    /\ priceReads' = [priceReads EXCEPT ![c] = IF RecentEnough(at) THEN Quoted(@, at) ELSE [@ EXCEPT !.at = "hedged"]]
    /\ UNCHANGED <<clock, cache, pending, waits, rate, verified>>
StoredUnavailable(c) ==
    /\ priceReads[c].at = "stored"
    /\ priceReads' = [priceReads EXCEPT ![c].at = "hedged"]
    /\ UNCHANGED <<clock, cache, pending, waits, rate, verified>>

\* withHedgedRpc: the first answer counts, and only the failure of all attempts.
Attempt(c, answered) ==
    /\ priceReads[c].at = "hedged"
    /\ LET failures == priceReads[c].failed + 1
       IN  priceReads' = [priceReads EXCEPT ![c] =
              IF answered THEN Quoted(@, clock)
              ELSE [@ EXCEPT !.failed = failures, !.at = IF failures = Attempts THEN "failed" ELSE "hedged"]]
    /\ UNCHANGED <<clock, cache, pending, waits, rate, verified>>

-----------------------------------------------------------------------------

\* writeCachedQuote evicts at the limit even to replace an entry.
WriteCachedQuote(key, quoted) ==
    LET room == IF Len(cache) >= MaxCached THEN Tail(cache) ELSE cache
        entry == [key |-> key, expires |-> clock + Ttl, quoted |-> quoted]
    IN  cache' = IF \E i \in DOMAIN room : room[i].key = key
                 THEN [i \in DOMAIN room |-> IF room[i].key = key THEN entry ELSE room[i]]
                 ELSE Append(room, entry)

FinallyAnyway(key, r) == [pending EXCEPT ![key] = None]
Finally(key, r) == IF pending[key] = r THEN [pending EXCEPT ![key] = None] ELSE pending

\* A request goes on after `await pending`; the last one leaves the read behind.
ContinueRead(c) ==
    LET r == waits[c]
        key == priceReads[r].key
    IN  /\ r # None /\ Settled(r)
        /\ IF priceReads[r].at = "quoted"
           THEN WriteCachedQuote(key, priceReads[r].quoted)
           ELSE UNCHANGED cache
        /\ pending' = Finally(key, r)
        /\ waits' = [waits EXCEPT ![c] = None]
        /\ priceReads' = IF \E d \in Client \ {c} : waits[d] = r THEN priceReads ELSE [priceReads EXCEPT ![r] = NoRead]
        /\ UNCHANGED <<clock, rate, verified>>

QuoteNext ==
    \/ Pass
    \/ \E c \in Client :
          \/ \E key \in QuoteKey : Get(c, key)
          \/ \E indexed, stored \in BOOLEAN : Markets(c, indexed, stored)
          \/ \E yes \in BOOLEAN : Contracts(c, yes) \/ Attempt(c, yes)
          \/ \E at \in 0..MaxClock : StoredState(c, at)
          \/ StoredUnavailable(c)
          \/ ContinueRead(c)

QuoteSpec == QuoteInit /\ [][QuoteNext]_quoteVars

-----------------------------------------------------------------------------
\* Properties.

\* Quotes of one market, side and amount are read by one set of attempts at a time,
\* also while the requests that shared an earlier, failed read are being answered:
\* "pendingQuotes still guarantees a single hedge set per exact market/side/amount".
SingleHedgeSet ==
    \A c, d \in Client :
        priceReads[c].key = priceReads[d].key /\ priceReads[c].key # None /\ ~Settled(c) /\ ~Settled(d) => c = d
=============================================================================
