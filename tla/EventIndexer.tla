---------------------------- MODULE EventIndexer ----------------------------
(***************************************************************************)
(* The dedicated event worker (scripts/run-event-indexer.cjs): one loop    *)
(* that compares its Postgres checkpoint with the chain, rolls orphaned    *)
(* blocks back, reads the next range of confirmed logs over several RPC    *)
(* calls, stores it in one transaction and publishes it through Redis.     *)
(*                                                                         *)
(* A block is identified with its hash, so that a chain is a sequence of   *)
(* hashes.  Every RPC call is a step of its own and is answered from the   *)
(* chain as it is at that step: the chain may grow or be replaced between  *)
(* any two calls (a reorganisation, or another endpoint of the fallback    *)
(* pool answering).  Heights start at FROM_BLOCK = 1.                      *)
(***************************************************************************)
EXTENDS Integers, Sequences, FiniteSets, FiniteSetsExt

CONSTANTS
    Block,          \* block hashes
    Chains,         \* the chains an RPC endpoint may present, as sequences of hashes
    Logs,           \* Logs[b]: the ArcOrigin logs of block b
    Token,          \* launch tokens
    Holder,         \* token holders other than the zero address
    Zero,           \* the zero address: mints come from it, burns go to it
    NoHash,         \* SQL NULL in arc_indexer_state.last_hash
    Confirmations,  \* INDEXER_CONFIRMATIONS
    BatchSize,      \* INDEXER_BATCH_SIZE
    ReorgDepth,     \* INDEXER_REORG_DEPTH
    MaxHeight,      \* bound: no chain is higher
    MaxReplacements,\* bound: how often the chain is replaced
    MaxFaults       \* bound: how many cycles are lost to an error or a restart

Launch == "TokenLaunched"
Config == "AutomaticBuybackConfigured"
Kinds == {Launch, Config, "Swap", "Transfer", "BuybackExecuted"}
Never == MaxHeight + 1

ASSUME BoundsAssumption ==
    /\ Confirmations \in Nat
    /\ BatchSize \in Nat \ {0}
    /\ ReorgDepth \in Nat \ {0}
    /\ MaxHeight \in Nat
    /\ MaxReplacements \in Nat /\ MaxFaults \in Nat
    /\ NoHash \notin Block
    /\ Zero \notin Holder

\* A hash commits to everything below it, and to its height.
ASSUME HashLinkAssumption ==
    /\ Chains \subseteq Seq(Block)
    /\ \A c \in Chains : Len(c) <= MaxHeight
    /\ \A c, d \in Chains : \A i \in 1..Len(c), j \in 1..Len(d) :
          c[i] = d[j] => i = j /\ \A k \in 1..i : c[k] = d[k]

\* What the contracts guarantee of the logs of one chain: a token is launched
\* once, before or in the block of its other logs, under a position of its own,
\* it is configured once, in its launch (ArcForgeFactory.sol:469), and a log has
\* its own transactionHash:logIndex.  Between chains: a token's address is bound
\* to the parent of its launch block (the CREATE2 salt).
ASSUME LogAssumption ==
    /\ \A b \in Block : IsFiniteSet(Logs[b])
    /\ \A b \in Block : \A l \in Logs[b] :
          /\ l.kind \in Kinds /\ l.token \in Token /\ l.index \in Nat
          /\ l.kind = Config => l.enabled \in BOOLEAN
          /\ l.kind = "Transfer" => l.value \in Nat
    /\ \A c \in Chains : \A i, j \in 1..Len(c) :
          \A l \in Logs[c[i]], m \in Logs[c[j]] :
             l.tx = m.tx /\ l.index = m.index => i = j /\ l = m
    /\ \A c, d \in Chains : \A i \in 1..Len(c), j \in 1..Len(d) :
          \A l \in Logs[c[i]], m \in Logs[d[j]] :
             l.kind = Launch /\ m.kind = Launch =>
                /\ l.token = m.token => i = j
                /\ c = d => /\ l.token = m.token => l = m
                            /\ l.position = m.position => l = m
    /\ \A c \in Chains : \A i, j \in 1..Len(c) :
          \A l \in Logs[c[i]], m \in Logs[c[j]] :
             l.kind = Config /\ m.kind = Config /\ l.token = m.token => l = m
    /\ \A c \in Chains : \A i \in 1..Len(c) : \A l \in Logs[c[i]] :
          \E j \in 1..i : \E m \in Logs[c[j]] :
             /\ m.kind = Launch /\ m.token = l.token
             /\ l.kind = "BuybackExecuted" => l.position = m.position

VARIABLES
    chain,        \* the chain the RPC endpoints present now
    events,       \* arc_events
    rows,         \* arc_blocks: height -> hash, for the heights that have a row
    markets,      \* arc_markets: token -> [position, enabled]
    balances,     \* arc_holder_balances; an absent row is a zero
    checkpoint,   \* arc_indexer_state: [lastBlock, lastHash]
    pc,           \* where the worker's loop is
    candidates,   \* arc_blocks heights still to be probed for a common block
    common,       \* commonBlock
    from, to,     \* the range being read
    fetched,      \* the kinds of logs already fetched for the range
    logs,         \* the logs fetched: [log, block]
    blocks,       \* the block map fetched for the range: height -> hash
    outbox,       \* events committed by this cycle and not yet published
    published,    \* events published through Redis
    window,       \* history: lowest height replaced since the checkpoint was compared
    dirtyFrom,    \* history: lowest height stored from a range the chain moved under
    replacements, faults    \* bounds

database == <<events, rows, markets, balances, checkpoint>>
range == <<from, to, fetched, logs, blocks>>
search == <<candidates, common>>
history == <<window, dirtyFrom>>
vars == <<chain, database, pc, search, range, outbox, published, history,
          replacements, faults>>
-----------------------------------------------------------------------------
(* The event store. *)

Id(e) == <<e.log.tx, e.log.index>>
EventsAt(n) == {[log |-> e.log, hash |-> e.hash] : e \in {f \in events : f.block = n}}
OfKind(S, k) == {e \in S : e.log.kind = k}
OfToken(S, t) == {e \in S : e.log.token = t}

\* ORDER BY block_number, log_index
Before(e, f) == \/ e.block < f.block
                \/ e.block = f.block /\ e.log.index < f.log.index
Earliest(S) == CHOOSE e \in S : \A f \in S : ~Before(f, e)
Latest(S) == CHOOSE e \in S : \A f \in S : ~Before(e, f)

\* upsertBalance: the zero address has no row
Delta(e, t, h) ==
    IF e.log.kind # "Transfer" \/ e.log.token # t THEN 0
    ELSE (IF e.log.to = h THEN e.log.value ELSE 0)
         - (IF e.log.from = h THEN e.log.value ELSE 0)
\* Slip: the zero address gets rows.
BalanceWithZero(S) ==
    [t \in Token |-> [h \in Holder \union {Zero} |->
                        MapThenSumSet(LAMBDA e : Delta(e, t, h), S)]]
BalanceOf(S) ==
    [t \in Token |-> [h \in Holder |-> MapThenSumSet(LAMBDA e : Delta(e, t, h), S)]]

\* The token contract (an ERC-20) lets nobody send what they do not have: on a chain,
\* no balance is negative after any block.
LogsUpTo(c, n) == UNION {Logs[c[i]] : i \in 1..n}
ASSUME NoDebtAssumption ==
    \A c \in Chains : \A n \in 1..Len(c) : \A t \in Token, h \in Holder :
        BalanceOf({[log |-> l] : l \in LogsUpTo(c, n)})[t][h] >= 0

\* The rows rebuildMaterializedState inserts: the first launch of a token wins,
\* and the latest stored configuration overrides the flag of its payload.
Launched(S) == {e.log.token : e \in OfKind(S, Launch)}
RebuiltMarkets(S) ==
    [t \in Launched(S) |->
        LET launch == Earliest(OfToken(OfKind(S, Launch), t))
            configs == OfToken(OfKind(S, Config), t)
        IN  [position |-> launch.log.position,
             enabled |-> IF configs = {} THEN launch.flag ELSE Latest(configs).flag]]

\* storeRange row by row: a launch upserts its market with the flag of its payload,
\* a configuration updates the market it finds.
UpsertedMarkets(S) ==
    [t \in DOMAIN markets \union Launched(S) |->
        LET launches == OfToken(OfKind(S, Launch), t)
            configs == {e \in OfToken(OfKind(S, Config), t) :
                           launches = {} \/ Before(Latest(launches), e)}
            base == IF launches = {} THEN markets[t]
                    ELSE [position |-> Latest(launches).log.position,
                          enabled |-> Latest(launches).flag]
        IN  [position |-> base.position,
             enabled |-> IF configs = {} THEN base.enabled ELSE Latest(configs).flag]]

\* arc_markets: UNIQUE (position_id) and UNIQUE (pool_address)
PositionsUnique(m) == \A t, u \in DOMAIN m : m[t].position = m[u].position => t = u
-----------------------------------------------------------------------------
(* The chain. *)

SafeBlock(c) == IF Len(c) > Confirmations THEN Len(c) - Confirmations ELSE 0
On(c, n, h) == n \in 1..Len(c) /\ c[n] = h
Shared(c, d) == {n \in 1..MaxHeight : n <= Len(c) /\ n <= Len(d) /\ c[n] = d[n]}
FirstDifference(c, d, n) == n \notin Shared(c, d) /\ 1..(n - 1) \subseteq Shared(c, d)

\* The height up to which the cycle in progress relies on what it has read.
ReliedOn ==
    CASE pc = "rollback" -> common
      [] pc = "head" -> checkpoint.lastBlock
      [] pc \in {"logs", "blocks"} -> to
      [] OTHER -> 0

Extend ==
    /\ \E b \in Block : Append(chain, b) \in Chains /\ chain' = Append(chain, b)
    /\ UNCHANGED <<database, pc, search, range, outbox, published, history,
                   replacements, faults>>

Replace ==
    /\ replacements < MaxReplacements
    /\ \E c \in Chains, n \in 1..Len(chain) :
          /\ FirstDifference(c, chain, n)
          /\ chain' = c
          /\ window' = IF n <= ReliedOn /\ n < window THEN n ELSE window
    /\ replacements' = replacements + 1
    /\ UNCHANGED <<database, pc, search, range, outbox, published, dirtyFrom, faults>>
-----------------------------------------------------------------------------
(* reconcileReorg *)

\* The checkpoint's block is still the chain's, or there is no checkpoint.
CheckpointStands ==
    /\ pc = "idle"
    /\ \/ checkpoint.lastHash = NoHash
       \/ On(chain, checkpoint.lastBlock, checkpoint.lastHash)
    /\ pc' = "head"
    /\ window' = Never
    /\ UNCHANGED <<chain, database, search, range, outbox, published, dirtyFrom,
                   replacements, faults>>

\* Another block stands at its height: collect the newest rows to probe.
CheckpointOrphaned ==
    /\ pc = "idle"
    /\ checkpoint.lastHash # NoHash
    /\ checkpoint.lastBlock <= Len(chain)
    /\ chain[checkpoint.lastBlock] # checkpoint.lastHash
    /\ LET below == {n \in DOMAIN rows : n <= checkpoint.lastBlock}
       IN  candidates' = {n \in below : Cardinality({m \in below : m > n}) < ReorgDepth}
    /\ pc' = "search"
    /\ UNCHANGED <<chain, database, common, range, outbox, published, history,
                   replacements, faults>>

\* ORDER BY block_number DESC
Newest(n) == \A m \in candidates : m <= n

ProbeCandidate ==
    /\ pc = "search"
    /\ \E n \in candidates :
          /\ Newest(n)
          /\ n <= Len(chain)
          /\ IF chain[n] = rows[n]
             THEN /\ common' = n
                  /\ pc' = "rollback"
                  /\ window' = Never
                  /\ UNCHANGED candidates
             ELSE /\ candidates' = candidates \ {n}
                  /\ UNCHANGED <<common, pc, window>>
    /\ UNCHANGED <<chain, database, range, outbox, published, dirtyFrom,
                   replacements, faults>>

\* Slip: without a common block the checkpoint is kept.
NoCommonBlockKept ==
    /\ pc = "search"
    /\ candidates = {}
    /\ pc' = "idle"
    /\ UNCHANGED <<chain, database, search, range, outbox, published, history,
                   replacements, faults>>
NoCommonBlock ==
    /\ pc = "search"
    /\ candidates = {}
    /\ common' = 0
    /\ pc' = "rollback"
    /\ window' = Never
    /\ UNCHANGED <<chain, database, candidates, range, outbox, published, dirtyFrom,
                   replacements, faults>>

\* DELETE ... WHERE block_number >= commonBlock + 1; slip: one block is left
EventsUpToNext(n) == {e \in events : e.block <= n + 1}
EventsUpTo(n) == {e \in events : e.block <= n}
RowsUpTo(n) == {m \in DOMAIN rows : m <= n}

\* One transaction: delete above the common block, rebuild what is materialized
\* from the events that are left, move the checkpoint back.
Rollback ==
    /\ pc = "rollback"
    /\ events' = EventsUpTo(common)
    /\ markets' = RebuiltMarkets(EventsUpTo(common))
    /\ balances' = BalanceOf(EventsUpTo(common))
    /\ rows' = [n \in RowsUpTo(common) |-> rows[n]]
    /\ checkpoint' = [lastBlock |-> common,
                      lastHash |-> IF common = 0 THEN NoHash ELSE rows[common]]
    /\ dirtyFrom' = IF common < dirtyFrom THEN Never ELSE dirtyFrom
    /\ pc' = "head"
    /\ UNCHANGED <<chain, search, range, outbox, published, window,
                   replacements, faults>>
-----------------------------------------------------------------------------
(* main, readRange *)

\* getBlockNumber: start the next range of confirmed blocks, ...
StartRange ==
    /\ pc = "head"
    /\ checkpoint.lastBlock < SafeBlock(chain)
    /\ from' = checkpoint.lastBlock + 1
    /\ to' = IF checkpoint.lastBlock + BatchSize < SafeBlock(chain)
             THEN checkpoint.lastBlock + BatchSize ELSE SafeBlock(chain)
    /\ fetched' = {} /\ logs' = {} /\ blocks' = << >>
    /\ pc' = "logs"
    /\ UNCHANGED <<chain, database, search, outbox, published, history,
                   replacements, faults>>

\* ... or publish the status and sleep for one poll interval.
UpToDate ==
    /\ pc = "head"
    /\ checkpoint.lastBlock >= SafeBlock(chain)
    /\ pc' = "idle"
    /\ UNCHANGED <<chain, database, search, range, outbox, published, history,
                   replacements, faults>>

\* storedMarkets, and the launches of the range: what the address filters of the
\* later getLogs calls and the position filter are made from; slip: the stored ones only.
StoredTokens == DOMAIN markets
KnownTokens == DOMAIN markets \union {x.log.token : x \in {y \in logs : y.log.kind = Launch}}
PositionIn(t, p) ==
    LET launches == {x \in logs : x.log.kind = Launch /\ x.log.token = t}
    IN  IF launches = {} THEN t \in DOMAIN markets /\ markets[t].position = p
        ELSE \E x \in launches : x.log.position = p
Known(l) ==
    \/ l.kind \in {Launch, Config}
    \/ l.kind \in {"Swap", "Transfer"} /\ l.token \in KnownTokens
    \/ l.kind = "BuybackExecuted" /\ \E t \in KnownTokens : PositionIn(t, l.position)

\* Launch and configuration logs are requested together; the others follow in turn.
FetchedBefore(k) ==
    CASE k \in {Launch, Config} -> {}
      [] k = "Swap" -> {Launch, Config}
      [] k = "Transfer" -> {Launch, Config, "Swap"}
      [] k = "BuybackExecuted" -> Kinds \ {k}

FetchLogs(k) ==
    /\ pc = "logs"
    /\ k \notin fetched
    /\ FetchedBefore(k) \subseteq fetched
    /\ logs' = logs \union
          UNION {{[log |-> l, block |-> n] : l \in {m \in Logs[chain[n]] : m.kind = k /\ Known(m)}}
                   : n \in {i \in from..to : i <= Len(chain)}}
    /\ fetched' = fetched \union {k}
    /\ pc' = IF fetched' = Kinds THEN "blocks" ELSE "logs"
    /\ UNCHANGED <<chain, database, search, from, to, blocks, outbox, published,
                   history, replacements, faults>>

\* fetchBlockMap: the block of every log, and the last block of the range.
BlocksNeeded == {x.block : x \in logs} \union {to}

FetchBlock(n) ==
    /\ pc = "blocks"
    /\ n \in BlocksNeeded \ DOMAIN blocks
    /\ n <= Len(chain)
    /\ blocks' = [m \in DOMAIN blocks \union {n} |-> IF m = n THEN chain[n] ELSE blocks[m]]
    /\ pc' = IF DOMAIN blocks' = BlocksNeeded THEN "store" ELSE "blocks"
    /\ UNCHANGED <<chain, database, search, from, to, fetched, logs, outbox, published,
                   history, replacements, faults>>
-----------------------------------------------------------------------------
(* storeRange, publishEvents *)

\* configsByToken, last one wins: the flag a launch carries in its payload
ConfigFlag(t) ==
    LET configs == OfToken(OfKind(logs, Config), t)
    IN  configs # {} /\ Latest(configs).log.enabled
Flag(l) ==
    CASE l.kind = Launch -> ConfigFlag(l.token)
      [] l.kind = Config -> l.enabled
      [] OTHER -> FALSE
RangeEvents ==
    {[log |-> x.log, block |-> x.block, hash |-> blocks[x.block], flag |-> Flag(x.log)]
       : x \in logs}

\* Ties of (block, index) keep the order in which readRange pushed the kinds.
KindRank(k) ==
    CASE k = Launch -> 1 [] k = Config -> 2 [] k = "Swap" -> 3
      [] k = "Transfer" -> 4 [] k = "BuybackExecuted" -> 5
StoredFirst(e, f) ==
    \/ e.block < f.block
    \/ e.block = f.block /\ KindRank(e.log.kind) < KindRank(f.log.kind)

\* ON CONFLICT (id) DO NOTHING RETURNING id
Inserted ==
    {e \in RangeEvents :
        /\ \A f \in events : Id(f) # Id(e)
        /\ \A f \in RangeEvents : Id(f) = Id(e) /\ f # e => StoredFirst(e, f)}

\* The transfers of the inserted rows only; slip: of every row offered.
CreditOfRange == BalanceOf(RangeEvents)
Credit == BalanceOf(Inserted)

\* The unique constraints are enforced row by row.
Accepted ==
    \A e \in OfKind(Inserted, Launch) :
        PositionsUnique(UpsertedMarkets({f \in Inserted : f = e \/ Before(f, e)}))

StoreRange ==
    /\ pc = "store"
    /\ Accepted
    /\ rows' = [n \in DOMAIN rows \union DOMAIN blocks |->
                   IF n \in DOMAIN blocks THEN blocks[n] ELSE rows[n]]
    /\ events' = events \union Inserted
    /\ markets' = UpsertedMarkets(Inserted)
    /\ balances' = [t \in Token |-> [h \in Holder |-> balances[t][h] + Credit[t][h]]]
    /\ checkpoint' = [lastBlock |-> to, lastHash |-> blocks[to]]
    /\ outbox' = Inserted
    /\ dirtyFrom' = IF window < dirtyFrom THEN window ELSE dirtyFrom
    /\ pc' = "publish"
    /\ UNCHANGED <<chain, search, range, published, window, replacements, faults>>

\* A unique constraint fails: ROLLBACK, and the cycle fails.
StoreRejected ==
    /\ pc = "store"
    /\ ~Accepted
    /\ pc' = "idle"
    /\ UNCHANGED <<chain, database, search, range, outbox, published, history,
                   replacements, faults>>

\* liveEvent has no message for a configuration; slip: nor for a transfer.
MessagesButTransfers(S) == {e \in S : e.log.kind \notin {Config, "Transfer"}}
Messages(S) == {e \in S : e.log.kind # Config}

PublishEvents ==
    /\ pc = "publish"
    /\ published' = published \union Messages(outbox)
    /\ outbox' = {}
    /\ pc' = "idle"
    /\ UNCHANGED <<chain, database, search, range, history, replacements, faults>>
-----------------------------------------------------------------------------
(* Errors and restarts: what is in Postgres stays, the cycle is forgotten. *)

\* getBlock of a height the endpoint does not have throws.
BlockMissing ==
    /\ \/ pc = "idle" /\ checkpoint.lastHash # NoHash /\ checkpoint.lastBlock > Len(chain)
       \/ pc = "search" /\ \E n \in candidates : Newest(n) /\ n > Len(chain)
       \/ pc = "blocks" /\ \E n \in BlocksNeeded \ DOMAIN blocks : n > Len(chain)
    /\ pc' = "idle"
    /\ UNCHANGED <<chain, database, search, range, outbox, published, history,
                   replacements, faults>>

\* Any call fails after its retries, or the process is restarted.
CycleFails ==
    /\ pc # "idle"
    /\ faults < MaxFaults
    /\ faults' = faults + 1
    /\ pc' = "idle"
    /\ outbox' = {}
    /\ UNCHANGED <<chain, database, search, range, published, history, replacements>>
-----------------------------------------------------------------------------
Init ==
    /\ chain \in {c \in Chains : Len(c) = 1}
    /\ events = {} /\ rows = << >> /\ markets = << >>
    /\ balances = [t \in Token |-> [h \in Holder |-> 0]]
    /\ checkpoint = [lastBlock |-> 0, lastHash |-> NoHash]
    /\ pc = "idle"
    /\ candidates = {} /\ common = 0
    /\ from = 1 /\ to = 0 /\ fetched = {} /\ logs = {} /\ blocks = << >>
    /\ outbox = {} /\ published = {}
    /\ window = Never /\ dirtyFrom = Never
    /\ replacements = 0 /\ faults = 0

Cycle ==
    \/ CheckpointStands \/ CheckpointOrphaned
    \/ ProbeCandidate \/ NoCommonBlock \/ Rollback
    \/ StartRange \/ UpToDate
    \/ \E k \in Kinds : FetchLogs(k)
    \/ \E n \in 1..MaxHeight : FetchBlock(n)
    \/ StoreRange \/ StoreRejected \/ PublishEvents
    \/ BlockMissing

Next == Extend \/ Replace \/ Cycle \/ CycleFails

Spec == Init /\ [][Next]_vars
FairSpec == Spec /\ WF_vars(Cycle)
-----------------------------------------------------------------------------
(* What the event store promises. *)


Log == UNION {Logs[b] : b \in Block}
Event == [log : Log, block : 1..MaxHeight, hash : Block, flag : BOOLEAN]

\* Every variable has its type.
TypeOK ==
    /\ chain \in Chains
    /\ events \subseteq Event /\ outbox \subseteq Event /\ published \subseteq Event
    /\ DOMAIN rows \subseteq 1..MaxHeight /\ \A n \in DOMAIN rows : rows[n] \in Block
    /\ DOMAIN markets \subseteq Token
    /\ DOMAIN balances = Token /\ \A t \in Token : DOMAIN balances[t] = Holder
    /\ checkpoint \in [lastBlock : 0..MaxHeight, lastHash : Block \union {NoHash}]
    /\ pc \in {"idle", "search", "rollback", "head", "logs", "blocks", "store", "publish"}
    /\ candidates \subseteq 1..MaxHeight /\ common \in 0..MaxHeight
    /\ from \in 1..Never /\ to \in 0..MaxHeight /\ fetched \subseteq Kinds
    /\ logs \subseteq [log : Log, block : from..to]
    /\ DOMAIN blocks \subseteq from..to /\ \A n \in DOMAIN blocks : blocks[n] \in Block
    /\ window \in 1..Never /\ dirtyFrom \in 1..Never
    /\ replacements \in 0..MaxReplacements /\ faults \in 0..MaxFaults

\* What a complete index holds of block n of chain c.
Recorded(c, n) == {[log |-> l, hash |-> c[n]] : l \in Logs[c[n]]}

\* The checkpoint is the newest row, and nothing is stored above it.
CheckpointIsNewestRow ==
    /\ checkpoint.lastHash = NoHash <=> checkpoint.lastBlock = 0
    /\ checkpoint.lastBlock > 0 => /\ checkpoint.lastBlock \in DOMAIN rows
                                   /\ rows[checkpoint.lastBlock] = checkpoint.lastHash
    /\ \A n \in DOMAIN rows : n <= checkpoint.lastBlock
    /\ \A e \in events : e.block <= checkpoint.lastBlock

\* Every stored block hash vouches for everything stored up to it: on any chain
\* through it, the events of each height are exactly that chain's logs, under that
\* chain's hash, whatever reorganisations, restarts and partial cycles came between;
\* except from the height on where the chain moved under a range being read.  This is
\* what reconcileReorg relies on when it probes rows for a common block.
RowsVouch ==
    \A n \in DOMAIN rows : \A c \in Chains :
        On(c, n, rows[n]) =>
            \A m \in 1..n : m < dirtyFrom => EventsAt(m) = Recorded(c, m)

\* The incrementally materialized tables are what rebuildMaterializedState would
\* make of the stored events, in every state: upserts and deltas commute with the
\* rebuild, even over ranges torn by a reorganisation.
MaterializedFromEvents ==
    /\ balances = BalanceOf(events)
    /\ markets = RebuiltMarkets(events)

\* No holder is ever shown a negative balance by an untorn index.
NoOverdraft ==
    dirtyFrom = Never => \A t \in Token, h \in Holder : balances[t][h] >= 0

\* The height the cycle in progress continues from.
Base == IF pc = "rollback" THEN common ELSE checkpoint.lastBlock
ReadsChain == pc \in {"rollback", "head", "logs", "blocks"}

\* What the cycle continues from is the presented chain's, below what was replaced.
BaseAgrees ==
    /\ pc = "search" => candidates \subseteq DOMAIN rows
    /\ pc = "rollback" => common = 0 \/ common \in DOMAIN rows
    /\ ReadsChain =>
          \A n \in 1..Base : n < window =>
              /\ n <= Len(chain)
              /\ n < dirtyFrom => EventsAt(n) = Recorded(chain, n)

\* The logs fetched so far are the presented chain's, below what was replaced.
Fetched(l, n) == [log |-> l, block |-> n] \in logs
LogsAgree ==
    pc \in {"logs", "blocks"} =>
        \A n \in from..to : n < window =>
            /\ n <= Len(chain)
            /\ dirtyFrom = Never =>
                  \A l \in Log : Fetched(l, n) <=> l \in Logs[chain[n]] /\ l.kind \in fetched

\* The block hashes fetched so far are those of chains that still agree with the
\* presented one, below what was replaced.
BlocksAgree ==
    pc = "blocks" =>
        \A m \in DOMAIN blocks : \A c \in Chains :
            On(c, m, blocks[m]) => \A n \in 1..m : n < window => c[n] = chain[n]

\* What is about to be stored is vouched for by each hash stored with it.
StoreAgrees ==
    pc = "store" =>
        \A m \in DOMAIN blocks : \A c \in Chains : On(c, m, blocks[m]) =>
            \A n \in 1..m : n < window =>
                /\ n < from /\ n < dirtyFrom => EventsAt(n) = Recorded(c, n)
                /\ n >= from /\ dirtyFrom = Never =>
                      /\ \A l \in Log : Fetched(l, n) <=> l \in Logs[c[n]]
                      /\ n \in DOMAIN blocks => blocks[n] = c[n]

\* A range continues the checkpoint, and brings the blocks of all its logs; only a
\* height the cycle relies on is remembered as replaced.
RangeShape ==
    /\ pc \in {"logs", "blocks", "store"} => from = checkpoint.lastBlock + 1 /\ from <= to
    /\ pc = "logs" => blocks = << >>
    /\ pc \in {"blocks", "store"} => fetched = Kinds
    /\ pc = "store" => DOMAIN blocks = BlocksNeeded
    /\ pc \in {"logs", "blocks", "store"} => \A x \in logs : x.log.kind \in fetched
    /\ ReadsChain => window = Never \/ window <= ReliedOn
    /\ pc = "store" => window = Never \/ window <= to

\* Every stored or fetched hash and log was some chain's at its height, a torn height
\* is a stored one, and an untorn market has the position of its launch event.
HistoryShape ==
    /\ \A n \in DOMAIN rows : \E c \in Chains : On(c, n, rows[n])
    /\ \A n \in DOMAIN blocks : \E c \in Chains : On(c, n, blocks[n])
    /\ \A x \in logs : \E c \in Chains : x.block \in 1..Len(c) /\ x.log \in Logs[c[x.block]]
    /\ dirtyFrom = Never \/ dirtyFrom <= checkpoint.lastBlock
    /\ dirtyFrom = Never =>
          \A e \in OfKind(events, Launch) :
              /\ e.log.token \in DOMAIN markets
              /\ markets[e.log.token].position = e.log.position

\* The inductive invariant behind RowsVouch: what each phase of a cycle has read agrees
\* with the presented chain below the lowest height replaced since the checkpoint (or
\* the common block) was last compared with it.
IInv ==
    /\ TypeOK /\ CheckpointIsNewestRow /\ RowsVouch
    /\ BaseAgrees /\ LogsAgree /\ BlocksAgree /\ StoreAgrees
    /\ RangeShape /\ HistoryShape

\* As long as no cycle is lost after its commit, every stored event a client can be
\* told about has been published.
StoredIsPublished ==
    faults = 0 /\ pc # "publish" =>
        \A e \in events : e.log.kind # Config => e \in published

CaughtUp ==
    /\ checkpoint.lastBlock >= SafeBlock(chain)
    /\ checkpoint.lastHash = NoHash \/ On(chain, checkpoint.lastBlock, checkpoint.lastHash)

\* Once the chain stands still the worker catches up with it and stays there, unless
\* a torn range is stored or the chain it stopped at is shorter than the checkpoint.
CatchesUp ==
    <>[](CaughtUp \/ dirtyFrom # Never \/ Len(chain) < checkpoint.lastBlock)
-----------------------------------------------------------------------------
\* The readers of the store may rely on EventStore: a range is stored above everything
\* that is there, and a rollback leaves exactly what was stored up to the common block.
Store == INSTANCE EventStore WITH facts <- events, head <- checkpoint
ImplementsStore == Store!StoreSpec
-----------------------------------------------------------------------------
(* What the documentation promises and the code does not keep. *)

\* docs/ARCHITECTURE.md: "if that hash becomes non-canonical, the worker rolls back
\* orphaned events".  While the checkpoint's hash is the chain's, then, the events
\* below it should be the chain's, torn ranges or not.
CheckpointHashDetectsOrphans ==
    pc = "idle" /\ On(chain, checkpoint.lastBlock, checkpoint.lastHash) =>
        \A m \in 1..checkpoint.lastBlock : EventsAt(m) = Recorded(chain, m)
=============================================================================
