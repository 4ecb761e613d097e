------------------------------ MODULE StoreReads ------------------------------
(***************************************************************************)
(* How the web process makes its snapshots.  The event worker moves the    *)
(* store; each load runs several queries, in parallel and without a        *)
(* transaction, and each query sees the store as it is when it runs.  A    *)
(* failed query makes its group of results null, and the load goes on with *)
(* the explorer and the RPC endpoints.                                     *)
(*                                                                         *)
(* A block's hash is its whole past, so a chain, the store and whatever a  *)
(* query returns are each given by one hash: the newest block they cover.  *)
(***************************************************************************)
EXTENDS Naturals, Sequences, SequencesExt

CONSTANTS
    Hash,            \* the chains there may be, and their beginnings, as sequences of blocks
    LaunchBlock,     \* the height of the token's launch, on every chain
    Tolerance,       \* blocks a stored result may be behind (20 in the code)
    MaxReplacements  \* bound: how often the chain is replaced

ASSUME StoreReadsAssumption ==
    /\ Hash \subseteq Seq(UNION {ToSet(h) : h \in Hash})
    /\ \A h \in Hash : \A n \in 0..Len(h) : SubSeq(h, 1, n) \in Hash
    /\ LaunchBlock \in Nat /\ Tolerance \in Nat /\ MaxReplacements \in Nat

VARIABLES
    chain,       \* what the RPC endpoints present
    stored,      \* what Postgres holds
    replacements,
    factoryCache,     \* factoryLaunches and factoryIndexedBlock of the process
    index,       \* the token index snapshot of the process: [named, known: the token is in it]
    load,        \* the load under way: [kind, phase, block]
    reads,       \* what its queries have returned
    snapshot,    \* what the last load made: [kind, named, parts]
    moved        \* history: the store moved, or the chain was replaced, since the load began

storeVars == <<chain, stored, replacements>>
processVars == <<factoryCache, index, load, reads, snapshot>>
storeReadsVars == <<storeVars, processVars, moved>>

Height == {Len(h) : h \in Hash}
At(n) == SubSeq(chain, 1, n)
HasLaunch(view) == Len(view) >= LaunchBlock

-----------------------------------------------------------------------------
\* The queries of each group; the aggregates of one table are one query.

Of(group, queries) == {group} \X (queries \cup {"checkpoint"})
StoredLaunchIndex == Of("launches", {"markets"})
StoredSwaps == Of("swaps", {"rows", "aggregates"})
StoredTokenBalance == Of("reserve", {"balance"})
StoredHolderBalances == Of("balances", {"rows"})
StoredBuybacks == Of("buybacks", {"rows"})
StoredAnalytics == Of("analytics", {"range", "allTime", "holders"})

Kind == {"market", "index", "holder", "buyback", "analytics", "buys"}
Queries(kind) ==
    CASE kind = "market" -> StoredSwaps \cup StoredTokenBalance
      [] kind = "index" -> StoredLaunchIndex
      [] kind = "holder" -> StoredLaunchIndex \cup StoredHolderBalances
      [] kind = "buyback" -> StoredBuybacks
      [] kind = "analytics" -> StoredAnalytics
      [] kind = "buys" -> {}

Source == {"store", "failed", "cache", "explorer", "rpc"}

\* The reads of the fallback, "header" last: createCanonicalCheckpoint.
Rpc(queries) == {"rpc"} \X queries
Header == <<"rpc", "header">>
Fallback(kind) ==
    CASE kind = "market" -> Rpc({"slot0", "balanceOf", "swaps", "header"})
      [] kind = "index" -> {Header}
      [] kind = "holder" -> Rpc({"transfers", "header"})
      [] kind = "buyback" -> Rpc({"buybackReady", "executions"})
      [] OTHER -> {}

Done(queries) == queries \subseteq DOMAIN reads
Read(q, source, view) ==
    reads' = [r \in DOMAIN reads \cup {q} |->
                 IF r = q THEN [source |-> source, view |-> view] ELSE reads[r]]

\* A query that throws decides its group, whatever the other ones return.
Fail(q) ==
    LET group == {r \in Queries(load.kind) : r[1] = q[1]}
    IN  reads' = [r \in DOMAIN reads \cup group |->
                     IF r \in group THEN [source |-> "failed", view |-> << >>] ELSE reads[r]]

\* optionalQuery, and a store that has no valid checkpoint yet.
Named(group) == reads[CHOOSE q \in group : q[2] = "checkpoint"].view
Available(group) == (\A q \in group : reads[q].source = "store") /\ Named(group) # << >>
Results(queries) == {reads[q] : q \in {r \in queries : r[2] \notin {"checkpoint", "header"}}}

IdleLoad == [kind |-> "index", phase |-> "idle", block |-> 0]
NoSnapshot == [kind |-> "index", named |-> << >>, parts |-> {}]

StoreReadsTypeOK ==
    /\ chain \in Hash /\ stored \in Hash /\ replacements \in 0..MaxReplacements
    /\ factoryCache \in [launches : Hash, block : Height]
    /\ index \in [named : Hash, known : BOOLEAN]
    /\ load \in [kind : Kind, phase : {"idle", "store", "number", "launches", "balances", "rpc"},
                 block : Height]
    /\ \A q \in DOMAIN reads : reads[q] \in [source : Source, view : Hash]
    /\ snapshot.kind \in Kind /\ snapshot.named \in Hash
    /\ snapshot.parts \subseteq [source : Source, view : Hash]
    /\ moved \in BOOLEAN

StoreReadsInit ==
    /\ chain \in {h \in Hash : Len(h) = 1} /\ stored = << >> /\ replacements = 0
    /\ factoryCache = [launches |-> << >>, block |-> 0]
    /\ index = [named |-> << >>, known |-> FALSE]
    /\ load = IdleLoad /\ reads = << >> /\ snapshot = NoSnapshot /\ moved = FALSE

-----------------------------------------------------------------------------
\* The chain and the event worker: Advance and Retreat of EventStore.

ChainGrows ==
    /\ chain' \in {h \in Hash : Len(h) = Len(chain) + 1 /\ IsPrefix(chain, h)}
    /\ UNCHANGED <<stored, replacements, processVars, moved>>

ChainReplaced ==
    /\ replacements < MaxReplacements
    /\ chain' \in {h \in Hash : ~IsPrefix(chain, h) /\ ~IsPrefix(h, chain)}
    /\ replacements' = replacements + 1 /\ moved' = TRUE
    /\ UNCHANGED <<stored, processVars>>

WorkerCommits ==
    /\ IsPrefix(stored, chain)
    /\ \E n \in (Len(stored) + 1)..Len(chain) : stored' = At(n)
    /\ moved' = TRUE
    /\ UNCHANGED <<chain, replacements, processVars>>

WorkerRollsBack ==
    /\ ~IsPrefix(stored, chain)
    /\ \E n \in 0..(Len(stored) - 1) : /\ IsPrefix(SubSeq(stored, 1, n), chain)
                                       /\ stored' = SubSeq(stored, 1, n)
    /\ moved' = TRUE
    /\ UNCHANGED <<chain, replacements, processVars>>

-----------------------------------------------------------------------------
\* A load.

Ends == load' = IdleLoad /\ reads' = << >>
Publish(named, parts) ==
    Ends /\ snapshot' = [kind |-> load.kind, named |-> named, parts |-> parts]
GoOn(phase, block) ==
    load' = [load EXCEPT !.phase = phase, !.block = block] /\ UNCHANGED <<reads, snapshot>>

\* A market and its buybacks are loaded for a token of the index, at the index's block;
\* buybacks whose refresh is forced at the newest one.
Begin(kind, forced) ==
    /\ load = IdleLoad
    /\ kind \in {"market", "buyback"} => index.known
    /\ forced => kind = "buyback"
    /\ load' = [kind |-> kind, phase |-> IF forced THEN "number" ELSE "store",
                block |-> IF kind \in {"market", "buyback"} /\ ~forced THEN Len(index.named) ELSE 0]
    /\ reads' = << >> /\ snapshot' = NoSnapshot /\ moved' = FALSE
    /\ UNCHANGED <<storeVars, factoryCache, index>>

Query(q) ==
    /\ load.phase = "store" /\ q \in Queries(load.kind) \ DOMAIN reads
    /\ Read(q, "store", stored) \/ Fail(q)
    /\ UNCHANGED <<storeVars, factoryCache, index, load, snapshot, moved>>

\* The market of one checkpoint, not older than the launch and the index.
FromOneCheckpoint ==
    /\ Available(StoredSwaps) /\ Available(StoredTokenBalance)
    /\ Named(StoredSwaps) = Named(StoredTokenBalance)
    /\ HasLaunch(Named(StoredSwaps)) /\ Len(Named(StoredSwaps)) >= load.block
StoredMarket ==
    /\ load.kind = "market" /\ load.phase = "store" /\ Done(Queries("market"))
    /\ IF FromOneCheckpoint
       THEN Publish(Named(StoredSwaps), Results(Queries("market")))
       ELSE GoOn("rpc", load.block)
    /\ UNCHANGED <<storeVars, factoryCache, index, moved>>

StoredIndex ==
    /\ load.kind = "index" /\ load.phase = "store" /\ Done(StoredLaunchIndex)
    /\ IF Available(StoredLaunchIndex)
       THEN LET named == Named(StoredLaunchIndex)
                view == reads[<<"launches", "markets">>].view
            IN  /\ factoryCache' = [launches |-> view, block |-> Len(named)]
                /\ index' = [named |-> named, known |-> HasLaunch(view)]
                /\ Publish(named, Results(StoredLaunchIndex))
       ELSE GoOn("number", 0) /\ UNCHANGED <<factoryCache, index>>
    /\ UNCHANGED <<storeVars, moved>>

StoredProtocolAnalytics ==
    /\ load.kind = "analytics" /\ Done(StoredAnalytics)
    /\ IF Available(StoredAnalytics)
       THEN Publish(Named(StoredAnalytics), Results(StoredAnalytics))
       ELSE Ends /\ UNCHANGED snapshot
    /\ UNCHANGED <<storeVars, factoryCache, index, moved>>

\* Without a stored launch the token is verified: at the launch block of the hint, or
\* among the process's launches, at factoryIndexedBlock while they are fresh.
HolderLaunch ==
    /\ load.kind = "holder" /\ load.phase = "store" /\ Done(Queries("holder"))
    /\ IF Available(StoredLaunchIndex) /\ HasLaunch(reads[<<"launches", "markets">>].view)
       THEN GoOn("balances", Len(Named(StoredLaunchIndex)))
       ELSE \/ HasLaunch(chain) /\ GoOn("balances", Len(chain))
            \/ factoryCache.block > 0 /\ GoOn("launches", factoryCache.block)
            \/ GoOn("number", 0)
    /\ UNCHANGED <<storeVars, factoryCache, index, moved>>

\* getBlockNumber
BlockNumber ==
    /\ load.phase = "number"
    /\ GoOn(IF load.kind = "buyback" THEN "store" ELSE "launches", Len(chain))
    /\ UNCHANGED <<storeVars, factoryCache, index, moved>>

\* The explorer may be behind the block it is asked for, but its answer is not empty.
FromExplorer(view) == HasLaunch(view) /\ Len(view) <= load.block /\ IsPrefix(view, chain)

\* The launches cached, whatever block they were read at, or loaded; none replaces some.
Launches(view) ==
    \/ view = factoryCache.launches /\ HasLaunch(view)
    \/ FromExplorer(view)
    \/ load.block <= Len(chain) /\ view = At(load.block)
       /\ (HasLaunch(factoryCache.launches) => HasLaunch(view))
FactoryLaunches ==
    /\ load.phase = "launches"
    /\ \E view \in Hash :
          /\ Launches(view)
          /\ factoryCache' = [launches |-> view,
                         block |-> IF load.kind = "index" THEN load.block ELSE factoryCache.block]
          /\ IF load.kind = "holder" /\ ~HasLaunch(view)
             THEN Ends
             ELSE /\ Read(<<"launches", "markets">>, "cache", view)
                  /\ load' = [load EXCEPT !.phase = IF load.kind = "holder" THEN "balances" ELSE "rpc"]
    /\ UNCHANGED <<storeVars, index, snapshot, moved>>

FreshEnough(group, least) ==
    /\ Available(group)
    /\ Len(Named(group)) >= least /\ Len(Named(group)) + Tolerance >= load.block

StoredHolders ==
    /\ load.kind = "holder" /\ load.phase = "balances"
    /\ IF FreshEnough(StoredHolderBalances, LaunchBlock)
       THEN Publish(Named(StoredHolderBalances), Results(StoredHolderBalances))
       ELSE GoOn("rpc", load.block)
    /\ UNCHANGED <<storeVars, factoryCache, index, moved>>

\* Within the tolerance the executions are the store's, at whatever block it is.
StoredExecutions ==
    /\ load.kind = "buyback" /\ load.phase = "store" /\ Done(StoredBuybacks)
    /\ IF FreshEnough(StoredBuybacks, 1)
       THEN Read(<<"rpc", "executions">>, "store", reads[<<"buybacks", "rows">>].view)
       ELSE UNCHANGED reads
    /\ load' = [load EXCEPT !.phase = "rpc"]
    /\ UNCHANGED <<storeVars, factoryCache, index, snapshot, moved>>

\* A read of the fallback at the load's block; slip: at the newest one.
AtLatest(n) == chain
AtBlock(n) == At(n)
FallbackRead(q) ==
    /\ \/ load.phase = "rpc" /\ q \in Fallback(load.kind) \ DOMAIN reads
       \/ load.kind = "buyback" /\ load.phase = "store" /\ q = <<"rpc", "buybackReady">> /\ ~Done({q})
    /\ q = Header => Done(Fallback(load.kind) \ {Header})
    /\ \/ load.block \in 1..Len(chain) /\ Read(q, "rpc", IF q = Header THEN At(load.block) ELSE AtBlock(load.block))
       \/ q = <<"rpc", "transfers">> /\ \E view \in Hash : FromExplorer(view) /\ Read(q, "explorer", view)
    /\ UNCHANGED <<storeVars, factoryCache, index, load, snapshot, moved>>

\* A buyback snapshot names its block only; the chain it was read from stands for it.
FallbackLoaded ==
    /\ load.phase = "rpc" /\ Done(Fallback(load.kind))
    /\ LET named == reads[IF load.kind = "buyback" THEN <<"rpc", "buybackReady">> ELSE Header].view
       IN  /\ Publish(named, Results(Fallback(load.kind)))
           /\ index' = IF load.kind = "index"
                       THEN [named |-> named, known |-> HasLaunch(reads[<<"launches", "markets">>].view)]
                       ELSE index
    /\ UNCHANGED <<storeVars, factoryCache, moved>>

LoadFails ==
    /\ load.phase \in {"number", "launches", "rpc"} \/ load.kind = "buyback"
    /\ load # IdleLoad
    /\ Ends
    /\ UNCHANGED <<storeVars, factoryCache, index, snapshot, moved>>

\* The latest buys of every market, under the name of the token index.
LatestBuys ==
    /\ load = IdleLoad /\ snapshot.kind = "market" /\ snapshot.parts # {}
    /\ snapshot' = [kind |-> "buys", named |-> index.named,
                    parts |-> {[source |-> "cache", view |-> snapshot.named]}]
    /\ UNCHANGED <<storeVars, factoryCache, index, load, reads, moved>>

StoreReadsNext ==
    \/ ChainGrows \/ ChainReplaced \/ WorkerCommits \/ WorkerRollsBack
    \/ \E k \in Kind \ {"buys"}, forced \in BOOLEAN : Begin(k, forced)
    \/ \E q \in Queries(load.kind) : Query(q)
    \/ StoredMarket \/ StoredIndex \/ StoredProtocolAnalytics
    \/ HolderLaunch \/ BlockNumber \/ FactoryLaunches \/ StoredHolders \/ StoredExecutions
    \/ \E q \in Fallback(load.kind) : FallbackRead(q)
    \/ FallbackLoaded \/ LoadFails \/ LatestBuys

StoreReadsSpec == StoreReadsInit /\ [][StoreReadsNext]_storeReadsVars

-----------------------------------------------------------------------------
Slack(kind) == IF kind = "buyback" THEN Tolerance ELSE 0

\* What a snapshot was put together from is as of the block it names (the executions of
\* a buyback snapshot at most the tolerance behind it), unless, while it was loaded, the
\* worker stored a range or rolled back, or the chain was replaced; the launches kept in
\* the process and the answers of the explorer are the two sources this does not bound.
TornOnlyByMovement ==
    ~moved => \A p \in snapshot.parts :
        p.source \in {"store", "rpc"} =>
            /\ Len(p.view) + Slack(snapshot.kind) >= Len(snapshot.named)
            /\ snapshot.kind # "buyback" => p.view = snapshot.named

\* docs/ARCHITECTURE.md: "Market snapshots read their price, trade history, volume and
\* pool reserve from one worker checkpoint".
OneCheckpoint ==
    snapshot.kind = "market" =>
        \A p \in snapshot.parts : p.source = "store" => p.view = snapshot.named
=============================================================================
