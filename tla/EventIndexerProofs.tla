------------------------- MODULE EventIndexerProofs -------------------------
(***************************************************************************)
(* Proofs about EventIndexer, for every set of chains, logs and bounds:    *)
(* type correctness, and that every stored block hash vouches for what is  *)
(* stored up to it (RowsVouch), by way of the inductive invariant IInv.    *)
(***************************************************************************)
EXTENDS EventIndexer, DataProofs

-----------------------------------------------------------------------------
(* Chains. *)

\* A chain is a bounded sequence of block hashes.
LEMMA ChainFacts ==
    ASSUME NEW c \in Chains
    PROVE  /\ c \in Seq(Block)
           /\ Len(c) \in 0..MaxHeight
           /\ \A n \in 1..Len(c) : c[n] \in Block
  <1>1. c \in Seq(Block) /\ Len(c) <= MaxHeight
    BY HashLinkAssumption
  <1> QED
    BY <1>1, BoundsAssumption

\* Two chains through one block are the same up to it.
LEMMA SameBelow ==
    ASSUME NEW c \in Chains, NEW d \in Chains, NEW m, NEW h,
           On(c, m, h), On(d, m, h)
    PROVE  \A n \in 1..m : n <= Len(c) /\ n <= Len(d) /\ c[n] = d[n]
  <1>1. m \in 1..Len(c) /\ m \in 1..Len(d) /\ c[m] = d[m]
    BY DEF On
  <1>2. \A n \in 1..m : c[n] = d[n]
    BY <1>1, HashLinkAssumption
  <1> QED
    BY <1>1, <1>2, ChainFacts

\* Below the first difference the replacing chain is the replaced one.
LEMMA SameBelowDifference ==
    ASSUME chain \in Chains, NEW c \in Chains, NEW n \in 1..Len(chain),
           FirstDifference(c, chain, n)
    PROVE  \A k \in 1..(n - 1) : k <= Len(c) /\ k <= Len(chain) /\ c[k] = chain[k]
  BY ChainFacts DEF FirstDifference, Shared

\* A block's logs are logs.
LEMMA LogsOfChain ==
    ASSUME NEW c \in Chains, NEW n \in 1..Len(c)
    PROVE  Logs[c[n]] \subseteq Log
  BY ChainFacts DEF Log

\* On one chain a log has one height and one identity.
LEMMA LogIdentity ==
    ASSUME NEW c \in Chains, NEW i \in 1..Len(c), NEW j \in 1..Len(c),
           NEW l \in Logs[c[i]], NEW m \in Logs[c[j]], l.tx = m.tx, l.index = m.index
    PROVE  i = j /\ l = m
  BY LogAssumption
-----------------------------------------------------------------------------
THEOREM InitIInv == Init => IInv
  <1> SUFFICES ASSUME Init PROVE IInv
    OBVIOUS
  <1>1. chain \in Chains
    BY DEF Init
  <1>2. TypeOK
    BY <1>1, BoundsAssumption DEF Init, TypeOK, Never, Kinds
  <1>3. CheckpointIsNewestRow
    BY BoundsAssumption DEF Init, CheckpointIsNewestRow
  <1>4. RowsVouch /\ BaseAgrees /\ LogsAgree /\ BlocksAgree /\ StoreAgrees
    BY DEF Init, RowsVouch, BaseAgrees, ReadsChain, LogsAgree, BlocksAgree, StoreAgrees
  <1>5. RangeShape /\ HistoryShape
    BY DEF Init, RangeShape, HistoryShape, OfKind, ReadsChain
  <1> QED
    BY <1>2, <1>3, <1>4, <1>5 DEF IInv
-----------------------------------------------------------------------------
(* Type correctness is preserved, given IInv: a rollback takes its hash from  *)
(* a row that exists.                                                         *)

LEMMA UpsertedType ==
    ASSUME TypeOK, NEW S, S \subseteq Event
    PROVE  DOMAIN UpsertedMarkets(S) \subseteq Token
  <1>1. Launched(S) \subseteq Token
    BY LogAssumption DEF Launched, OfKind, Event, Log
  <1> QED
    BY <1>1 DEF UpsertedMarkets, TypeOK

LEMMA RebuiltType ==
    ASSUME NEW S, S \subseteq Event
    PROVE  DOMAIN RebuiltMarkets(S) \subseteq Token
  BY LogAssumption DEF RebuiltMarkets, Launched, OfKind, Event, Log

LEMMA RangeEventsType ==
    ASSUME TypeOK, RangeShape, pc = "store"
    PROVE  RangeEvents \subseteq Event
  <1>1. \A x \in logs : /\ x.log \in Log /\ x.block \in 1..MaxHeight
                        /\ blocks[x.block] \in Block
    BY BoundsAssumption DEF TypeOK, RangeShape, BlocksNeeded, Never
  <1>2. \A x \in logs : x.log.kind = Config => x.log.enabled \in BOOLEAN
    BY LogAssumption DEF TypeOK, Log
  <1>3. \A t : ConfigFlag(t) \in BOOLEAN
    BY DEF ConfigFlag
  <1>4. \A x \in logs : Flag(x.log) \in BOOLEAN
    BY <1>2, <1>3 DEF Flag
  <1> QED
    BY <1>1, <1>4 DEF RangeEvents, Event

LEMMA TypeStep == IInv /\ [Next]_vars => TypeOK'
  <1> SUFFICES ASSUME IInv, [Next]_vars PROVE TypeOK'
    OBVIOUS
  <1> USE DEF IInv, database, range, search, history
  <1>1. CASE Extend
    BY <1>1 DEF Extend, TypeOK
  <1>2. CASE Replace
    BY <1>2, ChainFacts, BoundsAssumption DEF Replace, TypeOK, Never
  <1>3. CASE CheckpointStands
    BY <1>3, BoundsAssumption DEF CheckpointStands, TypeOK, Never
  <1>4. CASE CheckpointOrphaned
    BY <1>4 DEF CheckpointOrphaned, TypeOK
  <1>5. CASE ProbeCandidate
    <2>1. PICK n \in candidates :
             IF chain[n] = rows[n]
             THEN common' = n /\ pc' = "rollback" /\ window' = Never /\ candidates' = candidates
             ELSE candidates' = candidates \ {n} /\ UNCHANGED <<common, pc, window>>
      BY <1>5 DEF ProbeCandidate
    <2>2. UNCHANGED <<chain, database, range, outbox, published, dirtyFrom,
                      replacements, faults>>
      BY <1>5 DEF ProbeCandidate
    <2>3. n \in 0..MaxHeight /\ Never \in 1..Never
      BY BoundsAssumption DEF TypeOK, Never
    <2> QED
      BY <2>1, <2>2, <2>3 DEF TypeOK
  <1>6. CASE NoCommonBlock
    BY <1>6, BoundsAssumption DEF NoCommonBlock, TypeOK, Never
  <1>7. CASE Rollback
    <2> DEFINE kept == EventsUpTo(common)
    <2>1. /\ DOMAIN RebuiltMarkets(kept) \subseteq Token
          /\ DOMAIN BalanceOf(kept) = Token
          /\ \A t \in Token : DOMAIN BalanceOf(kept)[t] = Holder
      BY RebuiltType DEF BalanceOf, TypeOK, EventsUpTo
    <2>2. checkpoint' \in [lastBlock : 0..MaxHeight, lastHash : Block \union {NoHash}]
      BY <1>7 DEF Rollback, TypeOK, BaseAgrees
    <2> QED
      BY <1>7, <2>1, <2>2, BoundsAssumption DEF Rollback, TypeOK, Never, EventsUpTo, RowsUpTo
  <1>8. CASE StartRange
    BY <1>8, ChainFacts, BoundsAssumption DEF StartRange, TypeOK, Never, SafeBlock
  <1>9. CASE UpToDate
    BY <1>9 DEF UpToDate, TypeOK
  <1>10. ASSUME NEW k \in Kinds, FetchLogs(k) PROVE TypeOK'
    <2>1. UNION {{[log |-> l, block |-> n] : l \in {m \in Logs[chain[n]] : m.kind = k /\ Known(m)}}
                    : n \in {i \in from..to : i <= Len(chain)}}
            \subseteq [log : Log, block : from..to]
      <3>1. \A n \in {i \in from..to : i <= Len(chain)} : Logs[chain[n]] \subseteq Log
        BY LogsOfChain, ChainFacts, BoundsAssumption DEF TypeOK, Never
      <3> QED
        BY <3>1
    <2>2. logs' \subseteq [log : Log, block : from..to]
      BY <1>10, <2>1 DEF FetchLogs, TypeOK
    <2>3. UNCHANGED <<from, to>> /\ fetched' \subseteq Kinds
      BY <1>10 DEF FetchLogs, TypeOK
    <2> QED
      BY <1>10, <2>2, <2>3 DEF FetchLogs, TypeOK
  <1>11. ASSUME NEW n \in 1..MaxHeight, FetchBlock(n) PROVE TypeOK'
    <2>1. n \in from..to
      BY <1>11 DEF FetchBlock, BlocksNeeded, TypeOK, RangeShape
    <2>2. chain[n] \in Block
      BY <1>11, ChainFacts DEF FetchBlock, TypeOK
    <2> QED
      BY <1>11, <2>1, <2>2 DEF FetchBlock, TypeOK
  <1>12. CASE StoreRange
    <2>1. Inserted \subseteq Event
      BY <1>12, RangeEventsType DEF StoreRange, Inserted
    <2>2. DOMAIN UpsertedMarkets(Inserted) \subseteq Token
      BY <2>1, UpsertedType
    <2>3. DOMAIN blocks \subseteq 1..MaxHeight /\ to \in DOMAIN blocks
      BY <1>12, BoundsAssumption DEF StoreRange, TypeOK, RangeShape, BlocksNeeded, Never
    <2>4. DOMAIN rows' \subseteq 1..MaxHeight /\ \A n \in DOMAIN rows' : rows'[n] \in Block
      BY <1>12, <2>3 DEF StoreRange, TypeOK
    <2>5. checkpoint' \in [lastBlock : 0..MaxHeight, lastHash : Block \union {NoHash}]
      BY <1>12, <2>3 DEF StoreRange, TypeOK
    <2> QED
      BY <1>12, <2>1, <2>2, <2>4, <2>5, BoundsAssumption DEF StoreRange, TypeOK, Never
  <1>13. CASE StoreRejected
    BY <1>13 DEF StoreRejected, TypeOK
  <1>14. CASE PublishEvents
    BY <1>14 DEF PublishEvents, TypeOK, Messages
  <1>15. CASE BlockMissing
    BY <1>15 DEF BlockMissing, TypeOK
  <1>16. CASE CycleFails
    BY <1>16, BoundsAssumption DEF CycleFails, TypeOK
  <1>17. CASE UNCHANGED vars
    BY <1>17 DEF vars, TypeOK
  <1> QED
    BY <1>1, <1>2, <1>3, <1>4, <1>5, <1>6, <1>7, <1>8, <1>9, <1>10, <1>11, <1>12,
       <1>13, <1>14, <1>15, <1>16, <1>17 DEF Next, Cycle
-----------------------------------------------------------------------------
(* Only the two transactions write the database. *)

LEMMA DatabaseFrame ==
    [Next]_vars => Rollback \/ StoreRange \/ UNCHANGED <<database, dirtyFrom>>
  BY DEF Next, Cycle, vars, database, history, Extend, Replace, CheckpointStands,
         CheckpointOrphaned, ProbeCandidate, NoCommonBlock, StartRange, UpToDate,
         FetchLogs, FetchBlock, StoreRejected, PublishEvents, BlockMissing, CycleFails

\* A height whose events a step neither adds nor deletes keeps what it has.
LEMMA EventsAtFrame ==
    ASSUME NEW n, \A e \in events \union events' : e.block = n => (e \in events <=> e \in events')
    PROVE  EventsAt(n)' = EventsAt(n)
  BY DEF EventsAt

\* What it means for a height to be complete.
LEMMA StoredLog ==
    ASSUME NEW c, NEW n, EventsAt(n) = Recorded(c, n)
    PROVE  /\ \A f \in events : f.block = n => f.log \in Logs[c[n]]
           /\ \A l \in Logs[c[n]] : \E f \in events : f.block = n /\ f.log = l
  <1>1. ASSUME NEW f \in events, f.block = n PROVE f.log \in Logs[c[n]]
    <2>1. PICK k \in Logs[c[n]] :
             [log |-> f.log, hash |-> f.hash] = [log |-> k, hash |-> c[n]]
      BY <1>1 DEF Recorded, EventsAt
    <2>2. f.log = k
      BY <2>1
    <2> QED
      BY <2>2
  <1>2. ASSUME NEW l \in Logs[c[n]] PROVE \E f \in events : f.block = n /\ f.log = l
    <2>1. PICK f \in events : f.block = n /\ [log |-> f.log, hash |-> f.hash] = [log |-> l, hash |-> c[n]]
      BY DEF Recorded, EventsAt
    <2>2. f.log = l
      BY <2>1
    <2> QED
      BY <2>1, <2>2
  <1> QED
    BY <1>1, <1>2

\* The blocks and events a range brings are above the checkpoint.
LEMMA RangeAbove ==
    ASSUME IInv, pc = "store"
    PROVE  /\ to \in DOMAIN blocks /\ from = checkpoint.lastBlock + 1 /\ from <= to
           /\ from \in 1..MaxHeight /\ to \in 1..MaxHeight
           /\ \A n \in DOMAIN blocks : n \in from..to
           /\ \A e \in Inserted : e.block \in from..to
  <1>1. \A x \in logs : x.block \in from..to
    BY DEF IInv, TypeOK
  <1>2. \A e \in Inserted : e.block \in from..to
    BY <1>1 DEF Inserted, RangeEvents
  <1> QED
    BY <1>2, BoundsAssumption DEF IInv, TypeOK, RangeShape, BlocksNeeded, Never

LEMMA CheckpointStep == IInv /\ [Next]_vars => CheckpointIsNewestRow'
  <1> SUFFICES ASSUME IInv, [Next]_vars PROVE CheckpointIsNewestRow'
    OBVIOUS
  <1>1. CASE Rollback
    <2>1. common \in 0..MaxHeight /\ (common = 0 \/ common \in DOMAIN rows)
      BY <1>1 DEF Rollback, IInv, TypeOK, BaseAgrees
    <2>2. common # 0 => rows[common] # NoHash
      BY <2>1, BoundsAssumption DEF IInv, TypeOK
    <2> QED
      BY <1>1, <2>1, <2>2 DEF Rollback, CheckpointIsNewestRow, EventsUpTo, RowsUpTo
  <1>2. CASE StoreRange
    <2>1. \A n \in DOMAIN rows : n <= to /\ n \in Nat
      BY <1>2, RangeAbove DEF StoreRange, IInv, CheckpointIsNewestRow, TypeOK
    <2>2. \A e \in events : e.block <= to
      BY <1>2, RangeAbove DEF StoreRange, IInv, CheckpointIsNewestRow, TypeOK, Event
    <2>3. blocks[to] # NoHash
      BY <1>2, RangeAbove, BoundsAssumption DEF StoreRange, IInv, TypeOK
    <2> QED
      BY <1>2, <2>1, <2>2, <2>3, RangeAbove DEF StoreRange, CheckpointIsNewestRow
  <1>3. CASE UNCHANGED <<database, dirtyFrom>>
    BY <1>3 DEF IInv, CheckpointIsNewestRow, database
  <1> QED
    BY <1>1, <1>2, <1>3, DatabaseFrame
-----------------------------------------------------------------------------
(* RowsVouch is preserved: a rollback only removes, and a range stored on top *)
(* is vouched for by StoreAgrees.                                             *)

\* Below the window, and of an untorn index, storing a range stores exactly the logs
\* of the chains its hashes belong to: no log is kept out by an earlier event's id.
LEMMA RangeComplete ==
    ASSUME IInv, pc = "store", dirtyFrom = Never,
           NEW m \in DOMAIN blocks, NEW c \in Chains, On(c, m, blocks[m]),
           NEW n \in from..m, n < window
    PROVE  {[log |-> e.log, hash |-> e.hash] : e \in {f \in Inserted : f.block = n}}
              = Recorded(c, n)
  <1>1. /\ n \in 1..m /\ m \in 1..Len(c) /\ n \in 1..Len(c) /\ n \in Nat /\ n < Never
        /\ m \in Nat /\ from \in Nat /\ to \in Nat /\ Len(c) \in Nat
    BY RangeAbove, ChainFacts, BoundsAssumption DEF On, Never
  <1>2. \A k \in 1..n : k < window /\ k \in 1..m
    BY <1>1 DEF IInv, TypeOK
  <1>3. \A k \in from..n : \A l \in Log : Fetched(l, k) <=> l \in Logs[c[k]]
    BY <1>1, <1>2, RangeAbove DEF IInv, StoreAgrees
  <1>4. \A k \in 1..n : k < from => EventsAt(k) = Recorded(c, k)
    BY <1>1, <1>2, BoundsAssumption DEF IInv, StoreAgrees, Never
  <1>5. \A k \in from..n : k \in DOMAIN blocks => blocks[k] = c[k]
    BY <1>1, <1>2, RangeAbove DEF IInv, StoreAgrees
  <1>6. \A f \in events : f.block < from /\ f.block \in 1..MaxHeight
    BY RangeAbove DEF IInv, CheckpointIsNewestRow, TypeOK, Event
  <1>7. \A x \in logs : /\ x.log \in Log /\ x.block \in from..to /\ x.block \in DOMAIN blocks
                        /\ x = [log |-> x.log, block |-> x.block]
    BY RangeAbove DEF IInv, TypeOK, RangeShape, BlocksNeeded
  <1>8. \A f \in RangeEvents :
           /\ f.block \in from..to /\ f.log \in Log /\ Fetched(f.log, f.block)
           /\ f.block \in DOMAIN blocks
           /\ f = [log |-> f.log, block |-> f.block, hash |-> blocks[f.block],
                   flag |-> Flag(f.log)]
    BY <1>7 DEF RangeEvents, Fetched
  <1>9. ASSUME NEW l \in Logs[c[n]]
        PROVE  \E e \in Inserted : e.block = n /\ e.log = l /\ e.hash = c[n]
    <2> DEFINE e == [log |-> l, block |-> n, hash |-> blocks[n], flag |-> Flag(l)]
    <2>1. l \in Log /\ Fetched(l, n)
      BY <1>1, <1>3, LogsOfChain
    <2>2. e \in RangeEvents
      BY <2>1 DEF RangeEvents, Fetched
    <2>3. blocks[n] = c[n]
      BY <1>1, <1>5, <1>8, <2>2
    <2>4. ASSUME NEW f \in events, Id(f) = Id(e) PROVE FALSE
      <3>1. f.block < from /\ f.block \in 1..MaxHeight
        BY <1>6
      <3>2. f.block \in 1..n /\ f.block \in 1..Len(c)
        BY <1>1, <3>1
      <3>3. f.log \in Logs[c[f.block]]
        BY <1>4, <3>1, <3>2, StoredLog
      <3>4. f.log.tx = l.tx /\ f.log.index = l.index
        <4>1. e.log = l
          OBVIOUS
        <4>2. <<f.log.tx, f.log.index>> = <<e.log.tx, e.log.index>>
          BY <2>4 DEF Id
        <4> QED
          BY <4>1, <4>2
      <3>5. f.block = n
        BY <1>1, <3>2, <3>3, <3>4, LogIdentity
      <3> QED
        BY <1>1, <3>1, <3>5
    <2>5. ASSUME NEW f \in RangeEvents, Id(f) = Id(e), f # e PROVE StoredFirst(e, f)
      <3>1. f.block \in from..to /\ f.log \in Log /\ Fetched(f.log, f.block)
        BY <1>8
      <3>2. CASE f.block <= n
        <4>1. f.block \in from..n /\ f.block \in 1..Len(c)
          BY <1>1, <3>1, <3>2, RangeAbove
        <4>2. f.log \in Logs[c[f.block]]
          BY <1>3, <3>1, <4>1
        <4>3. f.block = n /\ f.log = l
          BY <1>1, <2>5, <4>1, <4>2, LogIdentity DEF Id
        <4>4. f = [log |-> f.log, block |-> f.block, hash |-> blocks[f.block],
                   flag |-> Flag(f.log)]
          BY <1>8
        <4>5. f = e
          BY <4>3, <4>4
        <4> QED
          BY <2>5, <4>5
      <3>3. CASE f.block > n
        BY <3>3 DEF StoredFirst
      <3> QED
        BY <1>1, <3>1, <3>2, <3>3
    <2>6. e \in Inserted
      BY <2>2, <2>4, <2>5 DEF Inserted
    <2> QED
      BY <2>3, <2>6
  <1>10. ASSUME NEW e \in Inserted, e.block = n
         PROVE  e.log \in Logs[c[n]] /\ e.hash = c[n]
    <2>1. e \in RangeEvents
      BY DEF Inserted
    <2>2. e.hash = blocks[n] /\ n \in DOMAIN blocks
      BY <1>8, <1>10, <2>1
    <2> QED
      BY <1>1, <1>3, <1>5, <1>8, <1>10, <2>1, <2>2
  <1> QED
    BY <1>9, <1>10 DEF Recorded

LEMMA RowsVouchStep == IInv /\ [Next]_vars => RowsVouch'
  <1> SUFFICES ASSUME IInv, [Next]_vars PROVE RowsVouch'
    OBVIOUS
  <1>1. CASE Rollback
    <2> SUFFICES ASSUME NEW n \in DOMAIN rows', NEW c \in Chains, On(c, n, rows'[n]),
                        NEW m \in 1..n, m < dirtyFrom'
                 PROVE  EventsAt(m)' = Recorded(c, m)
      BY DEF RowsVouch, Recorded
    <2>1. n \in DOMAIN rows /\ n <= common /\ rows'[n] = rows[n] /\ n \in Nat
      BY <1>1 DEF Rollback, RowsUpTo, IInv, TypeOK
    <2>2. m < dirtyFrom
      BY <1>1, <2>1 DEF Rollback, IInv, TypeOK
    <2>3. EventsAt(m) = Recorded(c, m)
      BY <2>1, <2>2 DEF IInv, RowsVouch
    <2>4. EventsAt(m)' = EventsAt(m)
      <3>1. m <= common
        BY <2>1 DEF IInv, TypeOK
      <3>2. events' = {e \in events : e.block <= common}
        BY <1>1 DEF Rollback, EventsUpTo
      <3> QED
        BY <3>1, <3>2, EventsAtFrame
    <2> QED
      BY <2>3, <2>4
  <1>2. CASE StoreRange
    <2> SUFFICES ASSUME NEW n \in DOMAIN rows', NEW c \in Chains, On(c, n, rows'[n]),
                        NEW m \in 1..n, m < dirtyFrom'
                 PROVE  EventsAt(m)' = Recorded(c, m)
      BY DEF RowsVouch, Recorded
    <2>1. /\ pc = "store" /\ events' = events \union Inserted
          /\ rows' = [k \in DOMAIN rows \union DOMAIN blocks |->
                        IF k \in DOMAIN blocks THEN blocks[k] ELSE rows[k]]
          /\ dirtyFrom' = IF window < dirtyFrom THEN window ELSE dirtyFrom
      BY <1>2 DEF StoreRange
    <2>2. m < window /\ m < dirtyFrom
      BY <2>1 DEF IInv, TypeOK
    <2>3. \A e \in events : e.block < from
      BY <2>1, RangeAbove DEF IInv, CheckpointIsNewestRow, TypeOK, Event
    <2>4. CASE m < from
      <3>1. EventsAt(m)' = EventsAt(m)
        BY <2>1, <2>4, RangeAbove, EventsAtFrame
      <3>2. EventsAt(m) = Recorded(c, m)
        <4>1. CASE n \in DOMAIN blocks
          BY <2>1, <2>2, <2>4, <4>1 DEF IInv, StoreAgrees
        <4>2. CASE n \notin DOMAIN blocks
          BY <2>1, <2>2, <4>2 DEF IInv, RowsVouch
        <4> QED
          BY <4>1, <4>2
      <3> QED
        BY <3>1, <3>2
    <2>5. CASE m >= from
      <3>1. n \in DOMAIN blocks /\ n \in Nat /\ from \in Nat /\ m \in from..n
        BY <2>1, <2>5, RangeAbove DEF IInv, CheckpointIsNewestRow, TypeOK
      <3>2. dirtyFrom = Never
        BY <2>1, <2>2, <2>5, RangeAbove DEF IInv, HistoryShape, TypeOK
      <3>3. EventsAt(m)' = {[log |-> e.log, hash |-> e.hash] : e \in {f \in Inserted : f.block = m}}
        <4>1. {f \in events' : f.block = m} = {f \in Inserted : f.block = m}
          BY <2>1, <2>3, <3>1
        <4> QED
          BY <4>1 DEF EventsAt
      <3>4. On(c, n, blocks[n])
        BY <2>1, <3>1
      <3> QED
        BY <2>1, <2>2, <3>1, <3>2, <3>3, <3>4, RangeComplete
    <2> QED
      BY <2>4, <2>5, RangeAbove, <2>1
  <1>3. CASE UNCHANGED <<database, dirtyFrom>>
    BY <1>3 DEF IInv, RowsVouch, database, EventsAt, Recorded
  <1> QED
    BY <1>1, <1>2, <1>3, DatabaseFrame
-----------------------------------------------------------------------------
(* What the cycle in progress has read stays true of the presented chain.     *)

\* When the chain moves, what the cycle relies on is unchanged below the window.
LEMMA ChainMoves ==
    ASSUME IInv, Extend \/ Replace
    PROVE  /\ UNCHANGED <<database, pc, search, range, dirtyFrom>>
           /\ \A k \in 1..ReliedOn : k < window' =>
                 /\ k < window
                 /\ k <= Len(chain) => k <= Len(chain') /\ chain'[k] = chain[k]
           /\ ReliedOn = 0 => window' = window
  <1>1. CASE Extend
    <2>1. PICK b \in Block : chain' = Append(chain, b)
      BY <1>1 DEF Extend
    <2>2. chain \in Seq(Block) /\ window' = window
      BY <1>1, ChainFacts DEF Extend, IInv, TypeOK, history
    <2>3. \A k \in 1..Len(chain) : k <= Len(chain') /\ chain'[k] = chain[k]
      BY <2>1, <2>2
    <2>4. ReliedOn \in Nat /\ Len(chain) \in Nat
      BY <2>2, BoundsAssumption DEF ReliedOn, IInv, TypeOK
    <2> QED
      BY <1>1, <2>2, <2>3, <2>4 DEF Extend, history
  <1>2. CASE Replace
    <2>1. PICK c \in Chains, n \in 1..Len(chain) :
             /\ FirstDifference(c, chain, n) /\ chain' = c
             /\ window' = IF n <= ReliedOn /\ n < window THEN n ELSE window
      BY <1>2 DEF Replace
    <2>2. chain \in Chains /\ n \in Nat /\ window \in Nat
      BY <2>1, BoundsAssumption DEF IInv, TypeOK, Never
    <2>3. \A k \in 1..(n - 1) : k <= Len(chain') /\ chain'[k] = chain[k]
      BY <2>1, <2>2, SameBelowDifference
    <2>4. ReliedOn \in Nat /\ n >= 1
      BY <2>1, BoundsAssumption DEF ReliedOn, IInv, TypeOK
    <2>5. ASSUME NEW k \in 1..ReliedOn, k < window' PROVE k < window /\ k \in 1..(n - 1)
      BY <2>1, <2>2, <2>4, <2>5
    <2> QED
      BY <1>2, <2>1, <2>2, <2>3, <2>4, <2>5 DEF Replace
  <1> QED
    BY <1>1, <1>2

\* The height a reading cycle continues from is one it relies on.
LEMMA BaseReliedOn ==
    ASSUME IInv, ReadsChain
    PROVE  Base \in 0..MaxHeight /\ ReliedOn \in 0..MaxHeight /\ Base <= ReliedOn
  BY BoundsAssumption DEF IInv, TypeOK, RangeShape, ReadsChain, Base, ReliedOn

LEMMA BaseStep == IInv /\ [Next]_vars => BaseAgrees'
  <1> SUFFICES ASSUME IInv, [Next]_vars PROVE BaseAgrees'
    OBVIOUS
  <1> USE DEF database, range, search, history
  <1>1. CASE Extend \/ Replace
    <2>1. UNCHANGED <<database, pc, search, dirtyFrom>>
      BY <1>1, ChainMoves
    <2>2. ASSUME ReadsChain', NEW n \in 1..Base', n < window'
          PROVE  n <= Len(chain') /\ (n < dirtyFrom' => EventsAt(n)' = Recorded(chain', n))
      <3>1. ReadsChain /\ n \in 1..Base /\ n \in 1..ReliedOn
        BY <2>1, <2>2, BaseReliedOn DEF ReadsChain, Base
      <3>2. n < window /\ (n <= Len(chain) => n <= Len(chain') /\ chain'[n] = chain[n])
        BY <1>1, <2>2, <3>1, ChainMoves
      <3>3. n <= Len(chain) /\ (n < dirtyFrom => EventsAt(n) = Recorded(chain, n))
        BY <3>1, <3>2 DEF IInv, BaseAgrees
      <3> QED
        BY <2>1, <3>2, <3>3 DEF EventsAt, Recorded
    <2> QED
      BY <2>1, <2>2 DEF IInv, BaseAgrees, Recorded
  <1>2. CASE CheckpointStands
    <2>1. ASSUME NEW n \in 1..Base'
          PROVE  n <= Len(chain) /\ (n < dirtyFrom => EventsAt(n) = Recorded(chain, n))
      <3>1. n \in 1..checkpoint.lastBlock /\ checkpoint.lastBlock \in Nat
        BY <1>2, <2>1 DEF CheckpointStands, Base, IInv, TypeOK
      <3>2. /\ On(chain, checkpoint.lastBlock, checkpoint.lastHash)
            /\ checkpoint.lastBlock \in DOMAIN rows
            /\ rows[checkpoint.lastBlock] = checkpoint.lastHash
        BY <1>2, <3>1 DEF CheckpointStands, IInv, CheckpointIsNewestRow
      <3>3. n < dirtyFrom => EventsAt(n) = Recorded(chain, n)
        BY <3>1, <3>2 DEF IInv, RowsVouch, TypeOK
      <3> QED
        BY <3>1, <3>2, <3>3, ChainFacts DEF On, IInv, TypeOK
    <2> QED
      BY <1>2, <2>1 DEF CheckpointStands, IInv, BaseAgrees, EventsAt, Recorded
  <1>3. CASE CheckpointOrphaned
    BY <1>3 DEF CheckpointOrphaned, BaseAgrees, ReadsChain
  <1>4. CASE ProbeCandidate
    <2>1. PICK n \in candidates :
             /\ n <= Len(chain)
             /\ IF chain[n] = rows[n]
                THEN common' = n /\ pc' = "rollback" /\ window' = Never /\ candidates' = candidates
                ELSE candidates' = candidates \ {n} /\ UNCHANGED <<common, pc, window>>
      BY <1>4 DEF ProbeCandidate
    <2>2. pc = "search" /\ UNCHANGED <<chain, database, dirtyFrom>>
      BY <1>4 DEF ProbeCandidate
    <2>3. CASE chain[n] = rows[n]
      <3>1. On(chain, n, rows[n]) /\ n \in DOMAIN rows /\ n \in Nat
        <4>1. n \in DOMAIN rows
          BY <2>2 DEF IInv, BaseAgrees
        <4>2. n \in 1..MaxHeight /\ Len(chain) \in Nat
          BY ChainFacts DEF IInv, TypeOK
        <4> QED
          BY <2>1, <2>3, <4>1, <4>2, BoundsAssumption DEF On
      <3>2. ASSUME NEW m \in 1..n
            PROVE  m <= Len(chain) /\ (m < dirtyFrom => EventsAt(m) = Recorded(chain, m))
        BY <2>1, <3>1, ChainFacts DEF IInv, RowsVouch, TypeOK
      <3>3. Base' = n
        BY <2>1, <2>3 DEF Base
      <3> QED
        BY <2>1, <2>2, <2>3, <3>1, <3>2, <3>3 DEF BaseAgrees, EventsAt, Recorded
    <2>4. CASE chain[n] # rows[n]
      BY <2>1, <2>2, <2>4 DEF BaseAgrees, ReadsChain, IInv
    <2> QED
      BY <2>3, <2>4
  <1>5. CASE NoCommonBlock
    BY <1>5 DEF NoCommonBlock, BaseAgrees, Base
  <1>6. CASE Rollback
    <2>1. /\ pc = "rollback" /\ pc' = "head" /\ checkpoint'.lastBlock = common
          /\ events' = {e \in events : e.block <= common}
          /\ UNCHANGED <<chain, window>>
          /\ dirtyFrom' = IF common < dirtyFrom THEN Never ELSE dirtyFrom
      BY <1>6 DEF Rollback, EventsUpTo
    <2>2. ASSUME NEW n \in 1..common, n < window
          PROVE  n <= Len(chain) /\ (n < dirtyFrom' => EventsAt(n)' = Recorded(chain, n))
      <3>1. n <= common /\ (n < dirtyFrom' => n < dirtyFrom)
        BY <2>1, <2>2 DEF IInv, TypeOK
      <3>2. n <= Len(chain) /\ (n < dirtyFrom => EventsAt(n) = Recorded(chain, n))
        BY <2>1, <2>2, <3>1 DEF IInv, BaseAgrees, ReadsChain, Base
      <3>3. EventsAt(n)' = EventsAt(n)
        BY <2>1, <3>1, EventsAtFrame
      <3> QED
        BY <3>1, <3>2, <3>3
    <2>3. Base' = common
      BY <2>1 DEF Base
    <2> QED
      BY <2>1, <2>2, <2>3 DEF BaseAgrees, Recorded
  <1>7. CASE StartRange
    BY <1>7 DEF StartRange, IInv, BaseAgrees, ReadsChain, Base, EventsAt, Recorded
  <1>8. ASSUME NEW k \in Kinds, FetchLogs(k) PROVE BaseAgrees'
    BY <1>8 DEF FetchLogs, IInv, BaseAgrees, ReadsChain, Base, EventsAt, Recorded
  <1>9. ASSUME NEW n \in 1..MaxHeight, FetchBlock(n) PROVE BaseAgrees'
    BY <1>9 DEF FetchBlock, IInv, BaseAgrees, ReadsChain, Base, EventsAt, Recorded
  <1>10. CASE UpToDate \/ StoreRange \/ StoreRejected \/ PublishEvents \/ BlockMissing \/ CycleFails
    BY <1>10 DEF UpToDate, StoreRange, StoreRejected, PublishEvents, BlockMissing,
                 CycleFails, BaseAgrees, ReadsChain
  <1>11. CASE UNCHANGED vars
    BY <1>11 DEF vars, IInv, BaseAgrees, ReadsChain, Base, EventsAt, Recorded
  <1> QED
    BY <1>1, <1>2, <1>3, <1>4, <1>5, <1>6, <1>7, <1>8, <1>9, <1>10, <1>11 DEF Next, Cycle

\* The address filters of a range built on an untorn index miss no log of the
\* presented chain below the window: the launch of each one's token is either stored
\* or among the logs fetched before it.
LEMMA KnownLog ==
    ASSUME IInv, pc = "logs", dirtyFrom = Never,
           NEW k \in Kinds, FetchedBefore(k) \subseteq fetched,
           NEW n \in from..to, n < window, NEW l \in Logs[chain[n]], l.kind = k
    PROVE  Known(l)
  <1>1. CASE k \in {Launch, Config}
    BY <1>1 DEF Known
  <1>2. CASE k \notin {Launch, Config}
    <2>1. n \in 1..Len(chain) /\ n \in Nat /\ chain \in Chains
      BY ChainFacts, BoundsAssumption DEF IInv, LogsAgree, TypeOK, Never
    <2>2. PICK j \in 1..n : \E x \in Logs[chain[j]] :
             /\ x.kind = Launch /\ x.token = l.token
             /\ l.kind = "BuybackExecuted" => l.position = x.position
      BY <2>1, LogAssumption
    <2>3. PICK m \in Logs[chain[j]] :
             /\ m.kind = Launch /\ m.token = l.token
             /\ l.kind = "BuybackExecuted" => l.position = m.position
      BY <2>2
    <2>4. j \in 1..Len(chain) /\ j \in Nat /\ j < window /\ m \in Log /\ j <= to
      BY <2>1, ChainFacts, LogsOfChain, BoundsAssumption DEF IInv, TypeOK, Never
    <2>5. m.token \in KnownTokens /\ PositionIn(m.token, m.position)
      <3>1. CASE j < from
        <4>1. EventsAt(j) = Recorded(chain, j)
          <5>1. j \in 1..Base /\ j < dirtyFrom /\ ReadsChain
            BY <2>4, <3>1, BoundsAssumption DEF IInv, RangeShape, Base, ReadsChain, TypeOK, Never
          <5> QED
            BY <2>4, <5>1 DEF IInv, BaseAgrees
        <4>2. PICK e \in events : e.block = j /\ e.log = m
          BY <4>1, StoredLog
        <4>3. m.token \in DOMAIN markets /\ markets[m.token].position = m.position
          BY <2>3, <4>2 DEF IInv, HistoryShape, OfKind
        <4>4. ASSUME NEW x \in logs, x.log.kind = Launch, x.log.token = m.token PROVE FALSE
          <5>1. PICK c \in Chains : x.block \in 1..Len(c) /\ x.log \in Logs[c[x.block]]
            BY DEF IInv, HistoryShape
          <5>2. \A a, b \in Chains : \A i1 \in 1..Len(a), i2 \in 1..Len(b) :
                   \A l1 \in Logs[a[i1]], l2 \in Logs[b[i2]] :
                      l1.kind = Launch /\ l2.kind = Launch /\ l1.token = l2.token => i1 = i2
            BY LogAssumption
          <5>4. x.block = j
            BY <2>1, <2>3, <2>4, <4>4, <5>1, <5>2
          <5>3. x.block \in from..to
            BY DEF IInv, TypeOK
          <5> QED
            BY <2>4, <3>1, <5>3, <5>4 DEF IInv, TypeOK
        <4> QED
          BY <4>3, <4>4 DEF KnownTokens, PositionIn
      <3>2. CASE j >= from
        <4>1. Fetched(m, j)
          <5>1. Launch \in fetched
            BY <1>2 DEF FetchedBefore, Kinds, Launch, Config
          <5>2. j \in from..to
            BY <2>4, <3>2 DEF IInv, TypeOK
          <5> QED
            BY <2>3, <2>4, <5>1, <5>2 DEF IInv, LogsAgree
        <4> QED
          BY <2>3, <4>1 DEF Fetched, KnownTokens, PositionIn
      <3> QED
        BY <2>4, <3>1, <3>2 DEF IInv, TypeOK
    <2>6. CASE k = "BuybackExecuted"
      BY <1>2, <2>3, <2>5, <2>6 DEF Known
    <2>7. CASE k # "BuybackExecuted"
      BY <1>2, <2>3, <2>5, <2>7 DEF Known, Kinds
    <2> QED
      BY <2>6, <2>7
  <1> QED
    BY <1>1, <1>2

LEMMA LogsStep == IInv /\ [Next]_vars => LogsAgree'
  <1> SUFFICES ASSUME IInv, [Next]_vars PROVE LogsAgree'
    OBVIOUS
  <1> USE DEF database, range, search, history
  <1>1. CASE Extend \/ Replace
    <2>1. UNCHANGED <<pc, range, dirtyFrom>>
      BY <1>1, ChainMoves
    <2>2. ASSUME pc \in {"logs", "blocks"}, NEW n \in from..to, n < window'
          PROVE  /\ n <= Len(chain')
                 /\ dirtyFrom = Never =>
                      \A l \in Log : Fetched(l, n) <=> l \in Logs[chain'[n]] /\ l.kind \in fetched
      <3>1. n \in 1..ReliedOn
        BY <2>2 DEF ReliedOn, IInv, TypeOK
      <3>2. n < window /\ (n <= Len(chain) => n <= Len(chain') /\ chain'[n] = chain[n])
        BY <1>1, <2>2, <3>1, ChainMoves
      <3> QED
        BY <2>2, <3>2 DEF IInv, LogsAgree
    <2> QED
      BY <2>1, <2>2 DEF LogsAgree, Fetched
  <1>2. CASE StartRange
    <2>1. to' <= Len(chain) /\ to' \in Nat /\ from' \in Nat
      BY <1>2, ChainFacts, BoundsAssumption DEF StartRange, SafeBlock, IInv, TypeOK
    <2> QED
      BY <1>2, <2>1, ChainFacts DEF StartRange, LogsAgree, Fetched, IInv, TypeOK
  <1>3. ASSUME NEW k \in Kinds, FetchLogs(k) PROVE LogsAgree'
    <2>1. /\ pc = "logs" /\ UNCHANGED <<chain, from, to, window, dirtyFrom>>
          /\ FetchedBefore(k) \subseteq fetched /\ fetched' = fetched \union {k}
          /\ logs' = logs \union
               UNION {{[log |-> l, block |-> n] : l \in {m \in Logs[chain[n]] : m.kind = k /\ Known(m)}}
                        : n \in {i \in from..to : i <= Len(chain)}}
      BY <1>3 DEF FetchLogs
    <2>2. ASSUME NEW n \in from..to, n < window, dirtyFrom = Never, NEW l \in Log
          PROVE  Fetched(l, n)' <=> l \in Logs[chain[n]] /\ l.kind \in fetched'
      <3>1. n <= Len(chain) /\ (Fetched(l, n) <=> l \in Logs[chain[n]] /\ l.kind \in fetched)
        BY <2>1, <2>2 DEF IInv, LogsAgree
      <3>2. Fetched(l, n)' <=> Fetched(l, n) \/ (l \in Logs[chain[n]] /\ l.kind = k /\ Known(l))
        <4> DEFINE x == [log |-> l, block |-> n]
                   from_n(i) == {[log |-> y, block |-> i]
                                   : y \in {m \in Logs[chain[i]] : m.kind = k /\ Known(m)}}
        <4>1. x \in logs' <=> x \in logs \/ \E i \in from..to : i <= Len(chain) /\ x \in from_n(i)
          BY <2>1
        <4>2. \A i : x \in from_n(i) <=> i = n /\ l \in Logs[chain[n]] /\ l.kind = k /\ Known(l)
          OBVIOUS
        <4> QED
          BY <2>2, <3>1, <4>1, <4>2 DEF Fetched
      <3>3. l \in Logs[chain[n]] /\ l.kind = k => Known(l)
        BY <2>1, <2>2, KnownLog
      <3> QED
        BY <2>1, <3>1, <3>2, <3>3
    <2> QED
      BY <2>1, <2>2 DEF IInv, LogsAgree
  <1>4. ASSUME NEW n \in 1..MaxHeight, FetchBlock(n) PROVE LogsAgree'
    BY <1>4 DEF FetchBlock, IInv, LogsAgree, Fetched
  <1>5. CASE CheckpointStands \/ CheckpointOrphaned \/ ProbeCandidate \/ NoCommonBlock \/ Rollback
    BY <1>5 DEF CheckpointStands, CheckpointOrphaned, ProbeCandidate, NoCommonBlock,
                Rollback, LogsAgree
  <1>6. CASE UpToDate \/ StoreRange \/ StoreRejected \/ PublishEvents \/ BlockMissing \/ CycleFails
    BY <1>6 DEF UpToDate, StoreRange, StoreRejected, PublishEvents, BlockMissing,
                CycleFails, LogsAgree
  <1>7. CASE UNCHANGED vars
    BY <1>7 DEF vars, IInv, LogsAgree, Fetched
  <1> QED
    BY <1>1, <1>2, <1>3, <1>4, <1>5, <1>6, <1>7 DEF Next, Cycle

LEMMA FetchBlockAgrees ==
    ASSUME IInv, NEW k \in 1..MaxHeight, FetchBlock(k)
    PROVE  /\ \A m \in DOMAIN blocks' : \A c \in Chains :
                 On(c, m, blocks'[m]) => \A n \in 1..m : n < window => c[n] = chain[n]
           /\ \A m \in DOMAIN blocks' : \E c \in Chains : On(c, m, blocks'[m])
  <1>1. /\ pc = "blocks" /\ k \in 1..Len(chain) /\ chain \in Chains
        /\ blocks' = [m \in DOMAIN blocks \union {k} |-> IF m = k THEN chain[k] ELSE blocks[m]]
    BY ChainFacts DEF FetchBlock, IInv, TypeOK
  <1>2. On(chain, k, blocks'[k])
    BY <1>1 DEF On
  <1>3. ASSUME NEW m \in DOMAIN blocks', NEW c \in Chains, On(c, m, blocks'[m]),
               NEW n \in 1..m, n < window
        PROVE  c[n] = chain[n]
    <2>1. CASE m = k
      BY <1>1, <1>2, <1>3, <2>1, SameBelow
    <2>2. CASE m # k
      BY <1>1, <1>3, <2>2 DEF IInv, BlocksAgree
    <2> QED
      BY <2>1, <2>2
  <1>4. ASSUME NEW m \in DOMAIN blocks' PROVE \E c \in Chains : On(c, m, blocks'[m])
    BY <1>1, <1>2 DEF IInv, HistoryShape
  <1> QED
    BY <1>3, <1>4

LEMMA BlocksStep == IInv /\ [Next]_vars => BlocksAgree'
  <1> SUFFICES ASSUME IInv, [Next]_vars PROVE BlocksAgree'
    OBVIOUS
  <1> USE DEF database, range, search, history
  <1>1. CASE Extend \/ Replace
    <2>1. UNCHANGED <<pc, range>>
      BY <1>1, ChainMoves
    <2>2. ASSUME pc = "blocks", NEW m \in DOMAIN blocks, NEW c \in Chains, On(c, m, blocks[m]),
                 NEW n \in 1..m, n < window'
          PROVE  c[n] = chain'[n]
      <3>1. n \in 1..ReliedOn /\ n \in from..to \union 1..Base /\ ReadsChain
        BY <2>2, BoundsAssumption DEF ReliedOn, Base, ReadsChain, IInv, TypeOK, RangeShape, Never
      <3>2. n < window /\ (n <= Len(chain) => chain'[n] = chain[n])
        BY <1>1, <2>2, <3>1, ChainMoves
      <3>3. c[n] = chain[n]
        BY <2>2, <3>2 DEF IInv, BlocksAgree
      <3>4. n <= Len(chain)
        BY <2>2, <3>1, <3>2 DEF IInv, LogsAgree, BaseAgrees
      <3> QED
        BY <3>2, <3>3, <3>4
    <2> QED
      BY <2>1, <2>2 DEF BlocksAgree
  <1>2. ASSUME NEW k \in Kinds, FetchLogs(k) PROVE BlocksAgree'
    BY <1>2 DEF FetchLogs, IInv, RangeShape, BlocksAgree
  <1>3. ASSUME NEW n \in 1..MaxHeight, FetchBlock(n) PROVE BlocksAgree'
    <2>1. UNCHANGED <<chain, window>>
      BY <1>3 DEF FetchBlock
    <2> QED
      BY <1>3, <2>1, FetchBlockAgrees DEF BlocksAgree
  <1>4. CASE CheckpointStands \/ CheckpointOrphaned \/ ProbeCandidate \/ NoCommonBlock
             \/ Rollback \/ StartRange
    BY <1>4 DEF CheckpointStands, CheckpointOrphaned, ProbeCandidate, NoCommonBlock,
                Rollback, StartRange, BlocksAgree
  <1>5. CASE UpToDate \/ StoreRange \/ StoreRejected \/ PublishEvents \/ BlockMissing \/ CycleFails
    BY <1>5 DEF UpToDate, StoreRange, StoreRejected, PublishEvents, BlockMissing,
                CycleFails, BlocksAgree
  <1>6. CASE UNCHANGED vars
    BY <1>6 DEF vars, IInv, BlocksAgree
  <1> QED
    BY <1>1, <1>2, <1>3, <1>4, <1>5, <1>6 DEF Next, Cycle

LEMMA StoreStep == IInv /\ [Next]_vars => StoreAgrees'
  <1> SUFFICES ASSUME IInv, [Next]_vars PROVE StoreAgrees'
    OBVIOUS
  <1> USE DEF database, range, search, history
  <1>1. CASE Extend \/ Replace
    <2>1. UNCHANGED <<database, pc, range, dirtyFrom>> /\ (pc = "store" => window' = window)
      BY <1>1, ChainMoves DEF ReliedOn
    <2> QED
      BY <2>1 DEF IInv, StoreAgrees, EventsAt, Recorded, Fetched
  <1>2. ASSUME NEW k \in 1..MaxHeight, FetchBlock(k), pc' = "store" PROVE StoreAgrees'
    <2>1. /\ pc = "blocks" /\ fetched = Kinds
          /\ UNCHANGED <<database, chain, from, to, logs, window, dirtyFrom>>
      BY <1>2 DEF FetchBlock, IInv, RangeShape
    <2>2. ASSUME NEW m \in DOMAIN blocks', NEW c \in Chains, On(c, m, blocks'[m]),
                 NEW n \in 1..m, n < window
          PROVE  /\ n < from /\ n < dirtyFrom => EventsAt(n) = Recorded(c, n)
                 /\ n >= from /\ dirtyFrom = Never =>
                      /\ \A l \in Log : Fetched(l, n) <=> l \in Logs[c[n]]
                      /\ n \in DOMAIN blocks' => blocks'[n] = c[n]
      <3>1. c[n] = chain[n]
        BY <1>2, <2>2, FetchBlockAgrees
      <3>2. m \in from..to /\ from = checkpoint.lastBlock + 1 /\ n \in Nat
        BY <1>2, <2>1 DEF FetchBlock, BlocksNeeded, IInv, TypeOK, RangeShape
      <3>3. n < from /\ n < dirtyFrom => EventsAt(n) = Recorded(c, n)
        <4>1. n < from => n \in 1..Base /\ ReadsChain
          BY <2>1, <3>2 DEF Base, ReadsChain, IInv, TypeOK
        <4> QED
          BY <2>2, <3>1, <4>1 DEF IInv, BaseAgrees, Recorded
      <3>4. n >= from => n \in from..to
        BY <3>2 DEF IInv, TypeOK
      <3>5. n >= from /\ dirtyFrom = Never => \A l \in Log : Fetched(l, n) <=> l \in Logs[c[n]]
        <4>1. \A l \in Log : l.kind \in fetched
          BY <2>1, LogAssumption DEF Log
        <4> QED
          BY <2>1, <2>2, <3>1, <3>4, <4>1 DEF IInv, LogsAgree
      <3>6. n \in DOMAIN blocks' => blocks'[n] = c[n]
        <4> SUFFICES ASSUME n \in DOMAIN blocks' PROVE blocks'[n] = c[n]
          OBVIOUS
        <4>1. PICK d \in Chains : On(d, n, blocks'[n])
          BY <1>2, FetchBlockAgrees
        <4>2. d[n] = chain[n]
          BY <1>2, <2>2, <3>2, <4>1, FetchBlockAgrees
        <4> QED
          BY <3>1, <4>1, <4>2 DEF On
      <3> QED
        BY <3>3, <3>5, <3>6
    <2> QED
      BY <2>1, <2>2 DEF StoreAgrees, EventsAt, Recorded, Fetched
  <1>3. ASSUME NEW k \in 1..MaxHeight, FetchBlock(k), pc' # "store" PROVE StoreAgrees'
    BY <1>3 DEF StoreAgrees
  <1>4. ASSUME NEW k \in Kinds, FetchLogs(k) PROVE StoreAgrees'
    BY <1>4 DEF FetchLogs, StoreAgrees
  <1>5. CASE CheckpointStands \/ CheckpointOrphaned \/ ProbeCandidate \/ NoCommonBlock
             \/ Rollback \/ StartRange
    BY <1>5 DEF CheckpointStands, CheckpointOrphaned, ProbeCandidate, NoCommonBlock,
                Rollback, StartRange, StoreAgrees
  <1>6. CASE UpToDate \/ StoreRange \/ StoreRejected \/ PublishEvents \/ BlockMissing \/ CycleFails
    BY <1>6 DEF UpToDate, StoreRange, StoreRejected, PublishEvents, BlockMissing,
                CycleFails, StoreAgrees
  <1>7. CASE UNCHANGED vars
    BY <1>7 DEF vars, IInv, StoreAgrees, EventsAt, Recorded, Fetched
  <1> QED
    BY <1>1, <1>2, <1>3, <1>4, <1>5, <1>6, <1>7 DEF Next, Cycle

LEMMA RangeStep == IInv /\ [Next]_vars => RangeShape'
  <1> SUFFICES ASSUME IInv, [Next]_vars PROVE RangeShape'
    OBVIOUS
  <1> USE DEF database, range, search, history
  <1>1. CASE Extend \/ Replace
    <2>1. UNCHANGED <<database, pc, search, range>>
      BY <1>1, ChainMoves
    <2>2. window' = window \/ window' <= ReliedOn
      BY <1>1 DEF Extend, Replace
    <2>3. ReliedOn' = ReliedOn /\ (pc = "store" => window' = window)
      BY <1>1, <2>1, ChainMoves DEF ReliedOn
    <2> QED
      BY <2>1, <2>2, <2>3 DEF IInv, RangeShape, BlocksNeeded, ReadsChain
  <1>2. CASE StartRange
    <2>1. checkpoint.lastBlock \in Nat /\ SafeBlock(chain) \in Int
      BY <1>2, ChainFacts, BoundsAssumption DEF SafeBlock, IInv, TypeOK
    <2> QED
      BY <1>2, <2>1, BoundsAssumption DEF StartRange, IInv, RangeShape, TypeOK, Never,
                                          ReadsChain, ReliedOn
  <1>3. ASSUME NEW k \in Kinds, FetchLogs(k) PROVE RangeShape'
    <2>1. /\ pc = "logs" /\ pc' \in {"logs", "blocks"} /\ fetched' = fetched \union {k}
          /\ pc' = "blocks" => fetched' = Kinds
          /\ UNCHANGED <<database, from, to, blocks>>
      BY <1>3 DEF FetchLogs
    <2>2. \A x \in logs' : x.log.kind \in fetched'
      <3>1. \A x \in logs' : x \in logs \/ x.log.kind = k
        BY <1>3 DEF FetchLogs
      <3> QED
        BY <2>1, <3>1 DEF IInv, RangeShape
    <2>3. UNCHANGED window
      BY <1>3 DEF FetchLogs
    <2> QED
      BY <2>1, <2>2, <2>3 DEF IInv, RangeShape, ReadsChain, ReliedOn
  <1>4. ASSUME NEW n \in 1..MaxHeight, FetchBlock(n) PROVE RangeShape'
    BY <1>4 DEF FetchBlock, IInv, RangeShape, BlocksNeeded, ReadsChain, ReliedOn
  <1>5. CASE CheckpointStands \/ CheckpointOrphaned \/ ProbeCandidate \/ NoCommonBlock \/ Rollback
    BY <1>5 DEF CheckpointStands, CheckpointOrphaned, ProbeCandidate, NoCommonBlock,
                Rollback, RangeShape, IInv, ReadsChain, ReliedOn
  <1>6. CASE UpToDate \/ StoreRange \/ StoreRejected \/ PublishEvents \/ BlockMissing \/ CycleFails
    BY <1>6 DEF UpToDate, StoreRange, StoreRejected, PublishEvents, BlockMissing,
                CycleFails, RangeShape, ReadsChain
  <1>7. CASE UNCHANGED vars
    BY <1>7 DEF vars, IInv, RangeShape, BlocksNeeded, ReadsChain, ReliedOn
  <1> QED
    BY <1>1, <1>2, <1>3, <1>4, <1>5, <1>6, <1>7 DEF Next, Cycle
-----------------------------------------------------------------------------
(* An untorn market has its launch's position.                                *)

\* Among events of one chain, the launches of a token are one and the same.
LEMMA OneLaunch ==
    ASSUME NEW c \in Chains, NEW S,
           \A f \in S : f.block \in 1..Len(c) /\ f.log \in Logs[c[f.block]],
           NEW e \in OfKind(S, Launch)
    PROVE  /\ Earliest(OfToken(OfKind(S, Launch), e.log.token)).log = e.log
           /\ Latest(OfToken(OfKind(S, Launch), e.log.token)).log = e.log
  <1> DEFINE T == OfToken(OfKind(S, Launch), e.log.token)
  <1>1. e \in T
    BY DEF OfToken, OfKind
  <1>2. \A f \in T : f \in S /\ f.log.kind = Launch /\ f.log.token = e.log.token
    BY DEF OfToken, OfKind
  <1>3. \A f \in T : f.log = e.log /\ f.block = e.block
    BY <1>1, <1>2, LogAssumption
  <1>4. \A f, g \in T : ~Before(f, g)
    <2>1. \A f \in T : f.block \in Int /\ f.log.index \in Nat
      BY <1>2, ChainFacts, LogAssumption
    <2> QED
      BY <1>3, <2>1 DEF Before
  <1>5. Earliest(T) \in T /\ Latest(T) \in T
    BY <1>1, <1>4 DEF Earliest, Latest
  <1> QED
    BY <1>3, <1>5

\* After an untorn range, the events stored before it and in it are of one chain.
LEMMA UntornChain ==
    ASSUME IInv, pc = "store", window = Never, dirtyFrom = Never
    PROVE  \E c \in Chains : \A f \in events \union Inserted :
              f.block \in 1..Len(c) /\ f.log \in Logs[c[f.block]]
  <1>1. to \in DOMAIN blocks /\ from \in Nat /\ to \in 1..MaxHeight /\ to < Never
    BY RangeAbove, BoundsAssumption DEF Never
  <1>2. PICK c \in Chains : On(c, to, blocks[to])
    BY <1>1 DEF IInv, HistoryShape
  <1>3. \A n \in 1..to : n < Never /\ n \in 1..Len(c)
    BY <1>1, <1>2, ChainFacts, BoundsAssumption DEF On, Never
  <1>4. ASSUME NEW f \in events PROVE f.block \in 1..to /\ f.log \in Logs[c[f.block]]
    <2>1. f.block \in 1..to /\ f.block < from
      BY <1>1, RangeAbove DEF IInv, CheckpointIsNewestRow, TypeOK, Event
    <2>2. EventsAt(f.block) = Recorded(c, f.block)
      BY <1>1, <1>2, <1>3, <2>1 DEF IInv, StoreAgrees
    <2> QED
      BY <2>1, <2>2, StoredLog
  <1>5. ASSUME NEW f \in Inserted PROVE f.block \in 1..to /\ f.log \in Logs[c[f.block]]
    <2>1. f.block \in from..to /\ f.block \in 1..to
      BY RangeAbove
    <2>2. f.log \in Log /\ Fetched(f.log, f.block)
      BY DEF Inserted, RangeEvents, Fetched, IInv, TypeOK
    <2> QED
      BY <1>1, <1>2, <1>3, <2>1, <2>2 DEF IInv, StoreAgrees
  <1> QED
    BY <1>3, <1>4, <1>5

\* Only three actions touch the range being read.
LEMMA RangeFrame ==
    [Next]_vars => \/ StartRange
                   \/ \E k \in Kinds : FetchLogs(k)
                   \/ \E n \in 1..MaxHeight : FetchBlock(n)
                   \/ UNCHANGED range
  BY DEF Next, Cycle, vars, range, Extend, Replace, CheckpointStands, CheckpointOrphaned,
         ProbeCandidate, NoCommonBlock, Rollback, UpToDate, StoreRange, StoreRejected,
         PublishEvents, BlockMissing, CycleFails

LEMMA HistoryStep == IInv /\ [Next]_vars => HistoryShape'
  <1> SUFFICES ASSUME IInv, [Next]_vars PROVE HistoryShape'
    OBVIOUS
  <1> USE DEF database, range, search, history
  <1>1. \A n \in DOMAIN blocks' : \E c \in Chains : On(c, n, blocks'[n])
    <2>1. CASE StartRange
      BY <2>1 DEF StartRange
    <2>2. ASSUME NEW k \in Kinds, FetchLogs(k)
          PROVE  \A n \in DOMAIN blocks' : \E c \in Chains : On(c, n, blocks'[n])
      BY <2>2 DEF FetchLogs, IInv, HistoryShape
    <2>3. CASE UNCHANGED range
      BY <2>3 DEF IInv, HistoryShape
    <2> QED
      BY <2>1, <2>2, <2>3, FetchBlockAgrees, RangeFrame
  <1>2. \A x \in logs' : \E c \in Chains : x.block \in 1..Len(c) /\ x.log \in Logs[c[x.block]]
    <2>1. CASE StartRange
      BY <2>1 DEF StartRange
    <2>2. ASSUME NEW k \in Kinds, FetchLogs(k)
          PROVE  \A x \in logs' : \E c \in Chains :
                     x.block \in 1..Len(c) /\ x.log \in Logs[c[x.block]]
      <3>1. \A x \in logs' : \/ x \in logs
                              \/ /\ x.block \in from..to /\ x.block <= Len(chain)
                                 /\ x.log \in Logs[chain[x.block]]
        BY <2>2 DEF FetchLogs
      <3>2. chain \in Chains /\ from \in Nat \ {0} /\ to \in Nat /\ Len(chain) \in Nat
        BY ChainFacts, BoundsAssumption DEF IInv, TypeOK, Never
      <3> QED
        BY <3>1, <3>2 DEF IInv, HistoryShape
    <2>3. ASSUME NEW n \in 1..MaxHeight, FetchBlock(n) PROVE UNCHANGED logs
      BY <2>3 DEF FetchBlock
    <2>4. CASE UNCHANGED logs
      BY <2>4 DEF IInv, HistoryShape
    <2> QED
      BY <2>1, <2>2, <2>3, <2>4, RangeFrame
  <1>3. \A n \in DOMAIN rows' : \E c \in Chains : On(c, n, rows'[n])
    <2>1. CASE Rollback
      BY <2>1 DEF Rollback, RowsUpTo, IInv, HistoryShape
    <2>2. CASE StoreRange
      BY <2>2 DEF StoreRange, IInv, HistoryShape
    <2>3. CASE UNCHANGED <<database, dirtyFrom>>
      BY <2>3 DEF IInv, HistoryShape
    <2> QED
      BY <2>1, <2>2, <2>3, DatabaseFrame
  <1>4. dirtyFrom' = Never \/ dirtyFrom' <= checkpoint'.lastBlock
    <2>1. CASE Rollback
      BY <2>1, BoundsAssumption DEF Rollback, IInv, TypeOK, Never
    <2>2. CASE StoreRange
      <3>1. /\ pc = "store" /\ checkpoint'.lastBlock = to
            /\ dirtyFrom' = IF window < dirtyFrom THEN window ELSE dirtyFrom
        BY <2>2 DEF StoreRange
      <3>2. window = Never \/ window <= to
        BY <3>1 DEF IInv, RangeShape
      <3>3. dirtyFrom = Never \/ dirtyFrom <= checkpoint.lastBlock
        BY DEF IInv, HistoryShape
      <3>4. /\ window \in Nat /\ dirtyFrom \in Nat /\ dirtyFrom <= Never /\ Never \in Nat
            /\ to \in Nat /\ checkpoint.lastBlock \in Nat /\ checkpoint.lastBlock < to
        BY <3>1, RangeAbove, BoundsAssumption DEF IInv, TypeOK, Never
      <3> QED
        BY <3>1, <3>2, <3>3, <3>4
    <2>3. CASE UNCHANGED <<database, dirtyFrom>>
      BY <2>3 DEF IInv, HistoryShape
    <2> QED
      BY <2>1, <2>2, <2>3, DatabaseFrame
  <1>5. ASSUME dirtyFrom' = Never, NEW e \in OfKind(events', Launch)
        PROVE  e.log.token \in DOMAIN markets' /\ markets'[e.log.token].position = e.log.position
    <2>1. CASE Rollback
      <3> DEFINE kept == {f \in events : f.block <= common}
      <3>1. events' = kept /\ markets' = RebuiltMarkets(kept) /\ pc = "rollback"
        BY <2>1 DEF Rollback, EventsUpTo
      <3>2. \A f \in kept : f.block \in 1..common /\ f.block < dirtyFrom
        <4>1. \A f \in kept : f.block \in 1..common
          BY DEF IInv, TypeOK, Event
        <4>2. common < dirtyFrom \/ dirtyFrom = Never
          BY <1>5, <2>1 DEF Rollback
        <4>3. common < Never /\ common \in Nat /\ dirtyFrom \in Nat /\ Never \in Nat
          BY BoundsAssumption DEF IInv, TypeOK, Never
        <4> QED
          BY <4>1, <4>2, <4>3
      <3>3. common \in DOMAIN rows
        BY <1>5, <3>1, <3>2 DEF IInv, BaseAgrees, OfKind
      <3>4. PICK c \in Chains : On(c, common, rows[common])
        BY <3>3 DEF IInv, HistoryShape
      <3>5. \A f \in kept : f.block \in 1..Len(c) /\ f.log \in Logs[c[f.block]]
        <4>1. \A f \in kept : EventsAt(f.block) = Recorded(c, f.block)
          BY <3>2, <3>3, <3>4 DEF IInv, RowsVouch
        <4>2. \A f \in kept : f.log \in Logs[c[f.block]]
          BY <4>1, StoredLog
        <4>3. \A f \in kept : f.block \in 1..Len(c)
          BY <3>2, <3>4, ChainFacts DEF On
        <4> QED
          BY <4>2, <4>3
      <3>6. e \in OfKind(kept, Launch) /\ e.log.token \in Launched(kept)
        BY <1>5, <3>1 DEF OfKind, Launched
      <3>7. Earliest(OfToken(OfKind(kept, Launch), e.log.token)).log = e.log
        BY <3>5, <3>6, OneLaunch
      <3> QED
        BY <3>1, <3>6, <3>7 DEF RebuiltMarkets
    <2>2. CASE StoreRange
      <3>1. /\ pc = "store" /\ events' = events \union Inserted
            /\ markets' = UpsertedMarkets(Inserted)
            /\ dirtyFrom = Never /\ window = Never
        <4>1. /\ pc = "store" /\ events' = events \union Inserted
              /\ markets' = UpsertedMarkets(Inserted)
              /\ dirtyFrom' = IF window < dirtyFrom THEN window ELSE dirtyFrom
          BY <2>2 DEF StoreRange
        <4>2. window \in 1..Never /\ dirtyFrom \in 1..Never /\ Never \in Nat
          BY BoundsAssumption DEF IInv, TypeOK, Never
        <4> QED
          BY <1>5, <4>1, <4>2
      <3>2. PICK c \in Chains : \A f \in events \union Inserted :
               f.block \in 1..Len(c) /\ f.log \in Logs[c[f.block]]
        BY <3>1, UntornChain
      <3> DEFINE new == OfToken(OfKind(Inserted, Launch), e.log.token)
      <3>3. CASE new = {}
        <4>1. e \in OfKind(events, Launch)
          BY <1>5, <3>1, <3>3 DEF OfKind, OfToken
        <4>2. e.log.token \in DOMAIN markets /\ markets[e.log.token].position = e.log.position
          BY <3>1, <4>1 DEF IInv, HistoryShape
        <4> QED
          <5>1. e.log.token \in DOMAIN UpsertedMarkets(Inserted)
            BY <4>2 DEF UpsertedMarkets
          <5>2. UpsertedMarkets(Inserted)[e.log.token].position = markets[e.log.token].position
            BY <3>3, <5>1 DEF UpsertedMarkets
          <5> QED
            BY <3>1, <4>2, <5>1, <5>2
      <3>4. CASE new # {}
        <4>1. PICK f \in OfKind(Inserted, Launch) : f.log.token = e.log.token
          BY <3>4 DEF OfToken
        <4>2. f.log = e.log
          BY <1>5, <3>1, <3>2, <4>1, LogAssumption DEF OfKind
        <4>3. Latest(new).log = e.log
          BY <3>2, <4>1, <4>2, OneLaunch
        <4>4. e.log.token \in Launched(Inserted)
          BY <4>1 DEF Launched
        <4> QED
          BY <3>1, <3>4, <4>3, <4>4 DEF UpsertedMarkets
      <3> QED
        BY <3>3, <3>4
    <2>3. CASE UNCHANGED <<database, dirtyFrom>>
      BY <1>5, <2>3 DEF IInv, HistoryShape, OfKind
    <2> QED
      BY <2>1, <2>2, <2>3, DatabaseFrame
  <1> QED
    BY <1>1, <1>2, <1>3, <1>4, <1>5 DEF HistoryShape, OfKind
-----------------------------------------------------------------------------
LEMMA NextIInv == IInv /\ [Next]_vars => IInv'
  BY TypeStep, CheckpointStep, RowsVouchStep, BaseStep, LogsStep, BlocksStep, StoreStep,
     RangeStep, HistoryStep DEF IInv

\* The inductive invariant holds in every reachable state.
THEOREM Invariant == Spec => []IInv
  <1>1. Init => IInv
    BY InitIInv
  <1>2. IInv /\ [Next]_vars => IInv'
    BY NextIInv
  <1> QED
    BY <1>1, <1>2, PTL DEF Spec

\* Type correctness, for every set of chains and every bound.
THEOREM TypeCorrect == Spec => []TypeOK
  <1>1. IInv => TypeOK
    BY DEF IInv
  <1> QED
    BY <1>1, Invariant, PTL

\* Whatever the chain does between any two calls of the worker, a stored hash vouches
\* for every untorn height up to it: reconcileReorg may trust a matching row.
THEOREM StoredHashesVouch == Spec => []RowsVouch
  <1>1. IInv => RowsVouch
    BY DEF IInv
  <1> QED
    BY <1>1, Invariant, PTL

\* The checkpoint always is the newest stored row, and nothing is stored above it.
THEOREM CheckpointIsARow == Spec => []CheckpointIsNewestRow
  <1>1. IInv => CheckpointIsNewestRow
    BY DEF IInv
  <1> QED
    BY <1>1, Invariant, PTL
-----------------------------------------------------------------------------
(* The index implements EventStore. *)

\* A rollback goes back to a height that is not above the checkpoint.
LEMMA RollbackHeight ==
    ASSUME IInv, pc = "rollback"
    PROVE  common \in Nat /\ common <= checkpoint.lastBlock
  <1>1. common = 0 \/ common \in DOMAIN rows
    BY DEF IInv, BaseAgrees
  <1>2. \A n \in DOMAIN rows : n <= checkpoint.lastBlock
    BY DEF IInv, CheckpointIsNewestRow
  <1> QED
    BY <1>1, <1>2, BoundsAssumption DEF IInv, TypeOK

\* Every step of the worker and of the chain advances the store, takes it back to what
\* it was, or leaves it alone.
LEMMA StoreStepSimulates ==
    ASSUME IInv, [Next]_vars
    PROVE  [Store!Advance \/ Store!Retreat]_<<events, checkpoint>>
  <1>1. CASE Rollback
    <2>1. checkpoint'.lastBlock = common /\ events' = {e \in events : e.block <= common}
      BY <1>1 DEF Rollback, EventsUpTo
    <2>2. common <= checkpoint.lastBlock
      BY <1>1, RollbackHeight DEF Rollback
    <2>3. Store!Retreat
      BY <2>1, <2>2 DEF Store!Retreat
    <2> QED
      BY <2>3
  <1>2. CASE StoreRange
    <2>1. checkpoint'.lastBlock = to /\ events' = events \union Inserted
      BY <1>2 DEF StoreRange
    <2>2. /\ from = checkpoint.lastBlock + 1 /\ from <= to
          /\ \A e \in Inserted : e.block \in from..to
      BY <1>2, RangeAbove DEF StoreRange
    <2>3. checkpoint.lastBlock \in Nat /\ to \in Nat
      BY <1>2, RangeAbove, BoundsAssumption DEF StoreRange, IInv, TypeOK
    <2>4. Store!Advance
      BY <2>1, <2>2, <2>3 DEF Store!Advance
    <2> QED
      BY <2>4
  <1>3. CASE UNCHANGED <<database, dirtyFrom>>
    BY <1>3 DEF database
  <1> QED
    BY <1>1, <1>2, <1>3, DatabaseFrame

\* The event worker implements the store its readers rely on, for every set of chains
\* and every bound.
THEOREM WorkerImplementsStore == Spec => ImplementsStore
  <1>1. Init => Store!Empty
    BY DEF Init, Store!Empty
  <1>2. IInv /\ [Next]_vars => [Store!Advance \/ Store!Retreat]_<<events, checkpoint>>
    BY StoreStepSimulates
  <1> QED
    BY <1>1, <1>2, Invariant, PTL DEF Spec, ImplementsStore, Store!StoreSpec
-----------------------------------------------------------------------------
(* What is materialized follows the events. *)

\* What one event moves.
Moved(S, t, h) == [e \in S |-> Delta(e, t, h)]

LEMMA BalanceIsTotal ==
    ASSUME NEW S, NEW t \in Token, NEW h \in Holder
    PROVE  BalanceOf(S)[t][h] = Total(Moved(S, t, h), S)
  <1> DEFINE w == Moved(S, t, h)
  <1>1. \A s \in SUBSET S : s # {} => w[AnyOf(s)] = Delta(AnyOf(s), t, h)
    BY AnyOfIt DEF Moved
  <1>2. ASSUME NEW sum
        PROVE  [s \in SUBSET S |-> IF s = {} THEN 0 ELSE Delta(AnyOf(s), t, h) + sum[s \ {AnyOf(s)}]]
               = [s \in SUBSET S |-> IF s = {} THEN 0 ELSE w[AnyOf(s)] + sum[s \ {AnyOf(s)}]]
    BY <1>1
  <1> HIDE DEF w
  <1>3. \A sum : IsSum(w, SUBSET S, sum) <=>
                 sum = [s \in SUBSET S |-> IF s = {} THEN 0
                                ELSE Delta(AnyOf(s), t, h) + sum[s \ {AnyOf(s)}]]
    BY <1>2 DEF IsSum
  <1>4. (CHOOSE sum : sum = [s \in SUBSET S |-> IF s = {} THEN 0
                                ELSE Delta(AnyOf(s), t, h) + sum[s \ {AnyOf(s)}]])[S]
        = Total(w, S)
    BY <1>3 DEF Total
  <1>5. BalanceOf(S)[t][h] = MapThenSumSet(LAMBDA e : Delta(e, t, h), S)
    BY DEF BalanceOf
  <1>6. MapThenSumSet(LAMBDA e : Delta(e, t, h), S) = Total(w, S)
    BY <1>4 DEF MapThenSumSet, MapThenFoldSet, AnyOf
  <1> QED
    BY <1>5, <1>6 DEF w

\* A balance is an integer, no event moves nothing, and what two sets of events move adds up.
LEMMA BalanceAdds ==
    ASSUME NEW E, NEW S, NEW t \in Token, NEW h \in Holder, IsFiniteSet(E), IsFiniteSet(S),
           E \cap S = {}, \A e \in E \union S : e.log \in Log
    PROVE  /\ BalanceOf(E)[t][h] \in Int
           /\ BalanceOf(E \union S)[t][h] = BalanceOf(E)[t][h] + BalanceOf(S)[t][h]
  <1> DEFINE w == Moved(E \union S, t, h)
  <1>1. \A e \in E \union S : w[e] = Delta(e, t, h) /\ Delta(e, t, h) \in Int
    <2>1. ASSUME NEW e \in E \union S PROVE Delta(e, t, h) \in Int
      <3>1. e.log.kind = "Transfer" => e.log.value \in Nat
        BY LogAssumption DEF Log
      <3> QED
        BY <3>1 DEF Delta
    <2> QED
      BY <2>1 DEF Moved
  <1>2. \A e \in E \union S : w[e] \in Int
    BY <1>1
  <1>3. \A e \in E : w[e] = Moved(E, t, h)[e]
    BY DEF Moved
  <1>4. \A e \in S : w[e] = Moved(S, t, h)[e]
    BY DEF Moved
  <1> HIDE DEF w
  <1>5. Total(w, E \union S) = Total(w, E) + Total(w, S)
    BY <1>2, TotalUnion
  <1>6. Total(w, E) = Total(Moved(E, t, h), E)
    BY <1>3, TotalOfSame
  <1>7. Total(w, S) = Total(Moved(S, t, h), S)
    BY <1>4, TotalOfSame
  <1>8. Total(w, E) \in Int
    <2>1. \A e \in E : w[e] \in Int
      BY <1>2
    <2> QED
      BY <2>1, TotalType
  <1> QED
    BY <1>5, <1>6, <1>7, <1>8, BalanceIsTotal DEF w

LEMMA NothingMoved == \A t \in Token, h \in Holder : BalanceOf({})[t][h] = 0
  <1>1. IsFiniteSet({})
    BY FS_EmptySet
  <1>2. \A t \in Token, h \in Holder : Total(Moved({}, t, h), {}) = 0
    BY <1>1, TotalUnfolds
  <1> QED
    BY <1>2, BalanceIsTotal

\* Stored and fetched logs were some chain's at their heights, and the launches, and
\* the configurations, of a range were read from one chain.
MaterialInv ==
    /\ IsFiniteSet(events) /\ IsFiniteSet(logs)
    /\ \A e \in events : \E c \in Chains : e.block \in 1..Len(c) /\ e.log \in Logs[c[e.block]]
    /\ \A k \in {Launch, Config} : \E c \in Chains :
          \A x \in OfKind(logs, k) : x.block \in 1..Len(c) /\ x.log \in Logs[c[x.block]]
    /\ MaterializedFromEvents

\* A range has one launch and one configuration of a token at most.
LEMMA OneInRange ==
    ASSUME MaterialInv, NEW k \in {Launch, Config}, NEW x \in OfKind(logs, k),
           NEW y \in OfKind(logs, k), x.log.token = y.log.token
    PROVE  x.log = y.log /\ x.block = y.block
  <1>1. PICK c \in Chains :
           \A z \in OfKind(logs, k) : z.block \in 1..Len(c) /\ z.log \in Logs[c[z.block]]
    BY DEF MaterialInv
  <1>2. x.log.kind = k /\ y.log.kind = k
    BY DEF OfKind
  <1>3. x.log = y.log
    BY <1>1, <1>2, LogAssumption DEF Launch, Config
  <1> QED
    BY <1>1, <1>3, LogIdentity

\* An inserted event is a log of the range, with its flag.
LEMMA InsertedFrom ==
    ASSUME NEW e \in Inserted
    PROVE  \E x \in logs : /\ e.log = x.log /\ e.block = x.block
                           /\ e = [log |-> x.log, block |-> x.block, hash |-> blocks[x.block],
                                   flag |-> Flag(x.log)]
  BY DEF Inserted, RangeEvents

LEMMA OneInserted ==
    ASSUME MaterialInv, NEW k \in {Launch, Config}, NEW e \in OfKind(Inserted, k),
           NEW f \in OfKind(Inserted, k), e.log.token = f.log.token
    PROVE  e = f
  <1>1. e \in Inserted /\ f \in Inserted /\ e.log.kind = k /\ f.log.kind = k
    BY DEF OfKind
  <1>2. PICK x \in logs : /\ e.log = x.log /\ e.block = x.block
                          /\ e = [log |-> x.log, block |-> x.block, hash |-> blocks[x.block],
                                  flag |-> Flag(x.log)]
    BY <1>1, InsertedFrom
  <1>3. PICK y \in logs : /\ f.log = y.log /\ f.block = y.block
                          /\ f = [log |-> y.log, block |-> y.block, hash |-> blocks[y.block],
                                  flag |-> Flag(y.log)]
    BY <1>1, InsertedFrom
  <1>4. x \in OfKind(logs, k) /\ y \in OfKind(logs, k) /\ x.log.token = y.log.token
    BY <1>1, <1>2, <1>3 DEF OfKind
  <1>5. x.log = y.log /\ x.block = y.block
    BY <1>4, OneInRange
  <1> QED
    BY <1>2, <1>3, <1>5

\* The heights and positions of events are numbers, and a range's are above the store's.
LEMMA EventOrder ==
    ASSUME IInv, pc = "store"
    PROVE  /\ \A e \in events \union Inserted : e.block \in Nat /\ e.log.index \in Nat
           /\ \A e \in events, f \in Inserted : e.block < f.block
           /\ events \cap Inserted = {}
  <1>1. \A e \in events : e.block \in Nat /\ e.log \in Log /\ e.block <= checkpoint.lastBlock
    BY DEF IInv, TypeOK, Event, CheckpointIsNewestRow
  <1>2. checkpoint.lastBlock \in Nat /\ from = checkpoint.lastBlock + 1 /\ to \in Nat
    BY RangeAbove DEF IInv, TypeOK
  <1>3. \A f \in Inserted : f.block \in from..to /\ f.log \in Log
    BY RangeAbove, RangeEventsType DEF IInv, Inserted, Event
  <1>4. \A l \in Log : l.index \in Nat
    BY LogAssumption DEF Log
  <1>5. \A e \in events, f \in Inserted : e.block < f.block
    BY <1>1, <1>2, <1>3
  <1> QED
    BY <1>1, <1>2, <1>3, <1>4, <1>5

\* What is launched in a range has no earlier event.
LEMMA LaunchIsFirst ==
    ASSUME IInv, MaterialInv, pc = "store", NEW e \in OfKind(Inserted, Launch),
           NEW f \in events, f.log.token = e.log.token
    PROVE  FALSE
  <1>1. e \in Inserted /\ e.log.kind = Launch
    BY DEF OfKind
  <1>2. PICK x \in logs : e.log = x.log /\ e.block = x.block
    BY <1>1, InsertedFrom
  <1>3. PICK c \in Chains : e.block \in 1..Len(c) /\ e.log \in Logs[c[e.block]]
    BY <1>2 DEF IInv, HistoryShape
  <1>4. PICK d \in Chains : f.block \in 1..Len(d) /\ f.log \in Logs[d[f.block]]
    BY DEF MaterialInv
  <1>5. PICK j \in 1..f.block : \E m \in Logs[d[j]] : m.kind = Launch /\ m.token = f.log.token
    BY <1>4, LogAssumption
  <1>6. PICK m \in Logs[d[j]] : m.kind = Launch /\ m.token = e.log.token
    BY <1>5
  <1>7. j \in 1..Len(d)
    BY <1>4, <1>5, ChainFacts
  <1>8. e.block = j
    BY <1>1, <1>3, <1>6, <1>7, LogAssumption
  <1>9. f.block < e.block /\ f.block \in Nat /\ e.block \in Nat
    BY <1>1, EventOrder
  <1> QED
    BY <1>5, <1>8, <1>9

LEMMA OfUnion ==
    ASSUME NEW A, NEW B, NEW k, NEW t
    PROVE  OfToken(OfKind(A \union B, k), t) = OfToken(OfKind(A, k), t) \union OfToken(OfKind(B, k), t)
  BY DEF OfToken, OfKind

LEMMA ConfigOfLaunch ==
    ASSUME IInv, MaterialInv, pc = "store", NEW e \in OfKind(Inserted, Launch),
           NEW f \in OfKind(Inserted, Config), f.log.token = e.log.token
    PROVE  e.flag = f.flag
  <1>1. e \in Inserted /\ e.log.kind = Launch /\ f \in Inserted /\ f.log.kind = Config
    BY DEF OfKind
  <1>2. e.flag = Flag(e.log) /\ f.flag = Flag(f.log)
    BY <1>1, InsertedFrom
  <1>3. e.flag = ConfigFlag(e.log.token)
    BY <1>1, <1>2 DEF Flag, Launch, Config
  <1>4. f.flag = f.log.enabled /\ f.log.enabled \in BOOLEAN
    <2>1. f.log \in Log
      BY <1>1, RangeEventsType DEF IInv, Inserted, Event
    <2>2. Flag(f.log) = f.log.enabled
      BY <1>1 DEF Flag, Launch, Config
    <2> QED
      BY <1>1, <1>2, <2>1, <2>2, LogAssumption DEF Log
  <1>5. PICK y \in logs : f.log = y.log /\ f.block = y.block
    BY <1>1, InsertedFrom
  <1> DEFINE configs == OfToken(OfKind(logs, Config), e.log.token)
  <1>6. y \in configs
    BY <1>1, <1>5 DEF OfToken, OfKind
  <1>7. \A x \in configs : x.log = f.log /\ x.block = f.block
    <2>1. \A x \in configs : x \in OfKind(logs, Config) /\ y \in OfKind(logs, Config)
                             /\ x.log.token = y.log.token
      BY <1>6 DEF OfToken
    <2> HIDE DEF configs
    <2> QED
      BY <1>5, <2>1, OneInRange
  <1>8. \A x, z \in configs : ~Before(x, z)
    <2>1. f.block \in Nat /\ f.log.index \in Nat
      BY <1>1, EventOrder
    <2> HIDE DEF configs
    <2> QED
      BY <1>7, <2>1 DEF Before
  <1>9. Latest(configs) \in configs
    <2> HIDE DEF configs
    <2> QED
      BY <1>6, <1>8 DEF Latest
  <1>10. ConfigFlag(e.log.token) = f.log.enabled
    <2>1. ConfigFlag(e.log.token) = (configs # {} /\ Latest(configs).log.enabled)
      BY DEF ConfigFlag
    <2>2. configs # {} /\ Latest(configs).log = f.log
      BY <1>6, <1>7, <1>9
    <2> HIDE DEF configs
    <2> QED
      BY <1>4, <2>1, <2>2
  <1> QED
    BY <1>3, <1>4, <1>10

\* The latest of two sets, all of one before all of the other.
LEMMA LatestOfBoth ==
    ASSUME NEW A, NEW B, \A a \in A, b \in B : a.block < b.block, B # {},
           \A a \in A : a.block \in Nat, \A b \in B : b.block \in Nat
    PROVE  Latest(A \union B) = Latest(B)
  <1>1. \A a \in A, b \in B : Before(a, b) /\ ~Before(b, a)
    BY DEF Before
  <1>2. \A e : e \in A \union B /\ (\A f \in A \union B : ~Before(e, f))
               <=> e \in B /\ \A f \in B : ~Before(e, f)
    BY <1>1
  <1> QED
    BY <1>2 DEF Latest

\* The latest of a set are the latest of those of it that come after something.
LEMMA LatestAfter ==
    ASSUME NEW S, NEW l, l.block \in Nat, l.log.index \in Nat,
           \A e \in S : e.block \in Nat /\ e.log.index \in Nat,
           {e \in S : Before(l, e)} # {}
    PROVE  Latest({e \in S : Before(l, e)}) = Latest(S)
  <1> DEFINE after == {e \in S : Before(l, e)}
  <1>1. \A e \in S, f \in after : e \notin after => Before(e, f) /\ ~Before(f, e)
    BY DEF Before
  <1>2. \A e : e \in after /\ (\A f \in after : ~Before(e, f))
               <=> e \in S /\ \A f \in S : ~Before(e, f)
    <2>1. after \in SUBSET S /\ after # {}
      OBVIOUS
    <2> HIDE DEF after
    <2> QED
      BY <1>1, <2>1
  <1> QED
    BY <1>2 DEF Latest

\* What rebuildMaterializedState would insert for a token, and what storeRange upserts.
Rebuilt(S, t) ==
    LET launch == Earliest(OfToken(OfKind(S, Launch), t))
        configs == OfToken(OfKind(S, Config), t)
    IN  [position |-> launch.log.position,
         enabled |-> IF configs = {} THEN launch.flag ELSE Latest(configs).flag]

LEMMA RebuiltAt ==
    ASSUME NEW S
    PROVE  RebuiltMarkets(S) = [t \in Launched(S) |-> Rebuilt(S, t)]
  BY DEF RebuiltMarkets, Rebuilt

\* A token the range does not launch: a configuration of the range is the latest.
LEMMA OldMarket ==
    ASSUME IInv, MaterialInv, pc = "store", NEW t \in DOMAIN markets \union Launched(Inserted),
           OfToken(OfKind(Inserted, Launch), t) = {}
    PROVE  UpsertedMarkets(Inserted)[t] = Rebuilt(events \union Inserted, t)
  <1> DEFINE lE == OfToken(OfKind(events, Launch), t)
             lI == OfToken(OfKind(Inserted, Launch), t)
             cE == OfToken(OfKind(events, Config), t)
             cI == OfToken(OfKind(Inserted, Config), t)
             both == events \union Inserted
  <1>1. OfToken(OfKind(both, Launch), t) = lE
    BY DEF OfToken, OfKind
  <1>2. OfToken(OfKind(both, Config), t) = cE \union cI
    BY OfUnion
  <1>3. t \in DOMAIN markets /\ markets[t] = Rebuilt(events, t)
    <2>1. t \notin Launched(Inserted)
      BY DEF Launched, OfToken
    <2>2. t \in Launched(events) /\ markets = RebuiltMarkets(events)
      BY <2>1, RebuiltAt DEF MaterialInv, MaterializedFromEvents
    <2> QED
      BY <2>2, RebuiltAt
  <1>4. markets[t] = [position |-> Earliest(lE).log.position,
                      enabled |-> IF cE = {} THEN Earliest(lE).flag ELSE Latest(cE).flag]
    BY <1>3 DEF Rebuilt
  <1>5. Rebuilt(both, t) = [position |-> Earliest(lE).log.position,
                            enabled |-> IF cE \union cI = {} THEN Earliest(lE).flag
                                        ELSE Latest(cE \union cI).flag]
    BY <1>1, <1>2 DEF Rebuilt
  <1>6. UpsertedMarkets(Inserted)[t] =
           [position |-> markets[t].position,
            enabled |-> IF cI = {} THEN markets[t].enabled ELSE Latest(cI).flag]
    <2>1. {e \in cI : lI = {} \/ Before(Latest(lI), e)} = cI
      OBVIOUS
    <2> HIDE DEF cI
    <2> QED
      BY <2>1 DEF UpsertedMarkets, cI
  <1>7. CASE cI = {}
    <2>1. cE \union cI = cE
      BY <1>7
    <2> HIDE DEF cE, cI, lE
    <2> QED
      BY <1>4, <1>5, <1>6, <1>7, <2>1
  <1>8. CASE cI # {}
    <2>1. /\ \A a \in cE, b \in cI : a.block < b.block
          /\ \A a \in cE : a.block \in Nat
          /\ \A b \in cI : b.block \in Nat
      BY EventOrder DEF OfToken, OfKind
    <2> HIDE DEF cE, cI, lE
    <2>2. Latest(cE \union cI) = Latest(cI)
      BY <1>8, <2>1, LatestOfBoth
    <2>3. cE \union cI # {}
      BY <1>8
    <2> QED
      BY <1>4, <1>5, <1>6, <1>8, <2>2, <2>3
  <1> QED
    BY <1>7, <1>8

\* A token the range launches: it has no earlier event, and one configuration at most.
LEMMA NewMarket ==
    ASSUME IInv, MaterialInv, pc = "store", NEW t \in DOMAIN markets \union Launched(Inserted),
           OfToken(OfKind(Inserted, Launch), t) # {}
    PROVE  UpsertedMarkets(Inserted)[t] = Rebuilt(events \union Inserted, t)
  <1> DEFINE lI == OfToken(OfKind(Inserted, Launch), t)
             cI == OfToken(OfKind(Inserted, Config), t)
             both == events \union Inserted
  <1>1. PICK l : l \in lI
    OBVIOUS
  <1>2. l \in OfKind(Inserted, Launch) /\ l.log.token = t /\ l \in Inserted
    BY <1>1 DEF OfToken, OfKind
  <1>3. lI = {l}
    <2>1. \A x \in lI : x \in OfKind(Inserted, Launch) /\ x.log.token = t
      BY DEF OfToken
    <2>2. \A x \in lI : x = l
      BY <1>2, <2>1, OneInserted
    <2> QED
      BY <1>1, <2>2
  <1>4. OfToken(OfKind(events, Launch), t) = {} /\ OfToken(OfKind(events, Config), t) = {}
    <2>1. \A f \in events : f.log.token # t
      BY <1>2, LaunchIsFirst
    <2> QED
      BY <2>1 DEF OfToken, OfKind
  <1>5. OfToken(OfKind(both, Launch), t) = {l} /\ OfToken(OfKind(both, Config), t) = cI
    <2>1. OfToken(OfKind(both, Launch), t) = OfToken(OfKind(events, Launch), t) \union lI
      BY OfUnion
    <2>2. OfToken(OfKind(both, Config), t) = OfToken(OfKind(events, Config), t) \union cI
      BY OfUnion
    <2> HIDE DEF lI, cI, both
    <2>3. OfToken(OfKind(both, Launch), t) = {} \union {l}
      BY <1>3, <1>4, <2>1
    <2>4. OfToken(OfKind(both, Config), t) = {} \union cI
      BY <1>4, <2>2
    <2>5. {} \union {l} = {l} /\ {} \union cI = cI
      OBVIOUS
    <2> QED
      BY <2>3, <2>4, <2>5
  <1>6. l.block \in Nat /\ l.log.index \in Nat
    BY <1>2, EventOrder
  <1>7. Earliest({l}) = l /\ Latest({l}) = l
    <2>1. ~Before(l, l)
      BY <1>6 DEF Before
    <2>2. Earliest({l}) \in {l} /\ Latest({l}) \in {l}
      BY <2>1 DEF Earliest, Latest
    <2> QED
      BY <2>2
  <1>8. Rebuilt(both, t) = [position |-> l.log.position,
                            enabled |-> IF cI = {} THEN l.flag ELSE Latest(cI).flag]
    BY <1>5, <1>7 DEF Rebuilt
  <1> DEFINE after == {e \in cI : Before(l, e)}
  <1>9. UpsertedMarkets(Inserted)[t] = [position |-> l.log.position,
                                        enabled |-> IF after = {} THEN l.flag ELSE Latest(after).flag]
    <2>1. {e \in cI : lI = {} \/ Before(Latest(lI), e)} = after
      BY <1>3, <1>7
    <2> HIDE DEF after
    <2> QED
      BY <1>3, <1>7, <2>1 DEF UpsertedMarkets
  <1>10. \A e \in cI : /\ e \in OfKind(Inserted, Config) /\ e.log.token = l.log.token
                       /\ e.block \in Nat /\ e.log.index \in Nat
    BY <1>2, EventOrder DEF OfToken, OfKind
  <1>11. CASE after # {}
    <2>1. \A e \in cI : e.block \in Nat /\ e.log.index \in Nat
      BY <1>10
    <2>2. cI # {}
      BY <1>11
    <2> HIDE DEF cI
    <2>3. Latest(after) = Latest(cI)
      BY <1>6, <1>11, <2>1, LatestAfter
    <2> HIDE DEF after
    <2> QED
      BY <1>8, <1>9, <1>11, <2>2, <2>3
  <1>12. CASE after = {} /\ cI = {}
    <2> HIDE DEF after, cI
    <2> QED
      BY <1>8, <1>9, <1>12
  <1>13. CASE after = {} /\ cI # {}
    <2>1. PICK c : c \in cI
      BY <1>13
    <2> HIDE DEF cI
    <2>2. \A x \in cI : x = c
      BY <1>10, <2>1, OneInserted
    <2>3. ~Before(c, c)
      BY <1>10, <2>1 DEF Before
    <2>4. Latest(cI) \in cI
      BY <2>1, <2>2, <2>3 DEF Latest
    <2>5. Latest(cI).flag = l.flag
      BY <1>2, <1>10, <2>1, <2>2, <2>4, ConfigOfLaunch
    <2> HIDE DEF after
    <2> QED
      BY <1>8, <1>9, <1>13, <2>5
  <1> QED
    BY <1>11, <1>12, <1>13

LEMMA MarketsFollow ==
    ASSUME IInv, MaterialInv, pc = "store"
    PROVE  UpsertedMarkets(Inserted) = RebuiltMarkets(events \union Inserted)
  <1> DEFINE both == events \union Inserted
             tokens == DOMAIN markets \union Launched(Inserted)
  <1>1. Launched(both) = tokens
    <2>1. DOMAIN markets = Launched(events)
      BY RebuiltAt DEF MaterialInv, MaterializedFromEvents
    <2>2. Launched(both) = Launched(events) \union Launched(Inserted)
      BY DEF Launched, OfKind
    <2> QED
      BY <2>1, <2>2
  <1>2. \A t \in tokens : UpsertedMarkets(Inserted)[t] = Rebuilt(both, t)
    BY OldMarket, NewMarket
  <1>3. UpsertedMarkets(Inserted) = [t \in tokens |-> UpsertedMarkets(Inserted)[t]]
    BY DEF UpsertedMarkets
  <1>4. RebuiltMarkets(both) = [t \in tokens |-> Rebuilt(both, t)]
    BY <1>1, RebuiltAt
  <1> HIDE DEF tokens, both
  <1>5. [t \in tokens |-> UpsertedMarkets(Inserted)[t]] = [t \in tokens |-> Rebuilt(both, t)]
    BY <1>2
  <1> QED
    BY <1>3, <1>4, <1>5 DEF both

LEMMA FetchedShape ==
    ASSUME IInv, MaterialInv, NEW k \in Kinds, FetchLogs(k)
    PROVE  /\ IsFiniteSet(logs')
           /\ \A q \in {Launch, Config} : \E c \in Chains :
                 \A x \in OfKind(logs', q) : x.block \in 1..Len(c) /\ x.log \in Logs[c[x.block]]
  <1> DEFINE heights == {i \in from..to : i <= Len(chain)}
             at(n) == {[log |-> l, block |-> n] : l \in {m \in Logs[chain[n]] : m.kind = k /\ Known(m)}}
             new == UNION {at(n) : n \in heights}
  <1>1. logs' = logs \union new /\ k \notin fetched /\ pc = "logs"
    BY DEF FetchLogs
  <1>2. chain \in Chains /\ from \in Nat \ {0} /\ to \in Nat /\ Len(chain) \in Nat
    BY ChainFacts, BoundsAssumption DEF IInv, TypeOK, Never
  <1>3. IsFiniteSet(logs')
    <2>1. IsFiniteSet(heights)
      <3>1. IsFiniteSet(from..to)
        BY <1>2, FS_Interval
      <3> QED
        BY <3>1, FS_Subset
    <2>2. \A n \in heights : IsFiniteSet(at(n))
      <3> SUFFICES ASSUME NEW n \in heights PROVE IsFiniteSet(at(n))
        OBVIOUS
      <3> DEFINE these == {m \in Logs[chain[n]] : m.kind = k /\ Known(m)}
      <3>1. chain[n] \in Block
        BY <1>2, ChainFacts
      <3>2. IsFiniteSet(these)
        BY <3>1, LogAssumption, FS_Subset
      <3> HIDE DEF these
      <3> DEFINE f == [l \in these |-> [log |-> l, block |-> n]]
      <3>3. IsFiniteSet({f[l] : l \in these})
        <4> HIDE DEF f
        <4> QED
          BY <3>2, ImageFinite
      <3>4. {f[l] : l \in these} = {[log |-> l, block |-> n] : l \in these}
        OBVIOUS
      <3> QED
        BY <3>3, <3>4 DEF these
    <2> HIDE DEF at, heights
    <2> DEFINE f == [n \in heights |-> at(n)]
    <2>31. IsFiniteSet({f[n] : n \in heights})
      <3> HIDE DEF f
      <3> QED
        BY <2>1, ImageFinite
    <2>3. IsFiniteSet({at(n) : n \in heights})
      <3>1. {f[n] : n \in heights} = {at(n) : n \in heights}
        OBVIOUS
      <3> QED
        BY <2>31, <3>1
    <2>4. \A s \in {at(n) : n \in heights} : IsFiniteSet(s)
      BY <2>2
    <2>5. IsFiniteSet(new)
      BY <2>3, <2>4, FS_UNION
    <2>6. IsFiniteSet(logs)
      BY DEF MaterialInv
    <2> HIDE DEF new
    <2> QED
      BY <1>1, <2>5, <2>6, FS_Union
  <1>4. \A x \in new : x.log.kind = k /\ x.block \in 1..Len(chain) /\ x.log \in Logs[chain[x.block]]
    BY <1>2
  <1>5. \A x \in logs : x.log.kind # k
    BY <1>1 DEF IInv, RangeShape
  <1> HIDE DEF new
  <1>6. ASSUME NEW q \in {Launch, Config}
        PROVE  \E c \in Chains : \A x \in OfKind(logs', q) :
                  x.block \in 1..Len(c) /\ x.log \in Logs[c[x.block]]
    <2>1. CASE q = k
      <3>1. \A x \in OfKind(logs', q) : x \in new
        BY <1>1, <1>5, <2>1 DEF OfKind
      <3> QED
        BY <1>2, <1>4, <3>1
    <2>2. CASE q # k
      <3>1. OfKind(logs', q) = OfKind(logs, q)
        BY <1>1, <1>4, <2>2 DEF OfKind
      <3> QED
        BY <3>1 DEF MaterialInv
    <2> QED
      BY <2>1, <2>2
  <1> QED
    BY <1>3, <1>6

LEMMA MaterialInit == Init => MaterialInv
  <1> SUFFICES ASSUME Init PROVE MaterialInv
    OBVIOUS
  <1>1. events = {} /\ logs = {} /\ markets = << >> /\ chain \in Chains
    BY DEF Init
  <1>2. balances = BalanceOf(events)
    <2>1. BalanceOf({}) = [t \in Token |-> [h \in Holder |-> BalanceOf({})[t][h]]]
      BY DEF BalanceOf
    <2>2. [t \in Token |-> [h \in Holder |-> BalanceOf({})[t][h]]]
          = [t \in Token |-> [h \in Holder |-> 0]]
      BY NothingMoved
    <2>3. balances = [t \in Token |-> [h \in Holder |-> 0]]
      BY DEF Init
    <2> QED
      BY <1>1, <2>1, <2>2, <2>3
  <1>3. markets = RebuiltMarkets(events)
    <2>1. Launched({}) = {}
      BY DEF Launched, OfKind
    <2>2. RebuiltMarkets({}) = [t \in {} |-> Rebuilt({}, t)]
      BY <2>1, RebuiltAt
    <2>3. [t \in {} |-> Rebuilt({}, t)] = << >>
      OBVIOUS
    <2> QED
      BY <1>1, <2>2, <2>3
  <1>4. IsFiniteSet({})
    BY FS_EmptySet
  <1>5. \A k \in {Launch, Config} : \E c \in Chains :
          \A x \in OfKind(logs, k) : x.block \in 1..Len(c) /\ x.log \in Logs[c[x.block]]
    BY <1>1 DEF OfKind
  <1> QED
    BY <1>1, <1>2, <1>3, <1>4, <1>5 DEF MaterialInv, MaterializedFromEvents

LEMMA InsertedFinite == ASSUME MaterialInv PROVE IsFiniteSet(Inserted)
  <1> DEFINE f == [x \in logs |-> [log |-> x.log, block |-> x.block, hash |-> blocks[x.block],
                                   flag |-> Flag(x.log)]]
             image == {f[x] : x \in logs}
  <1>1. IsFiniteSet(image)
    <2> HIDE DEF f
    <2> QED
      BY ImageFinite DEF MaterialInv
  <1>2. Inserted \subseteq image
    BY DEF Inserted, RangeEvents
  <1> HIDE DEF image
  <1> QED
    BY <1>1, <1>2, FS_Subset

LEMMA MaterialStored ==
    ASSUME IInv, MaterialInv, StoreRange
    PROVE  /\ IsFiniteSet(events')
           /\ \A e \in events' : \E c \in Chains : e.block \in 1..Len(c) /\ e.log \in Logs[c[e.block]]
           /\ MaterializedFromEvents'
  <1>1. /\ pc = "store" /\ events' = events \union Inserted /\ markets' = UpsertedMarkets(Inserted)
        /\ balances' = [t \in Token |-> [h \in Holder |-> balances[t][h] + Credit[t][h]]]
    BY DEF StoreRange
  <1>2. IsFiniteSet(events) /\ IsFiniteSet(Inserted)
    BY InsertedFinite DEF MaterialInv
  <1>3. IsFiniteSet(events')
    BY <1>1, <1>2, FS_Union
  <1>4. ASSUME NEW e \in events'
        PROVE  \E c \in Chains : e.block \in 1..Len(c) /\ e.log \in Logs[c[e.block]]
    <2>1. CASE e \in events
      BY <2>1 DEF MaterialInv
    <2>2. CASE e \in Inserted
      <3>1. PICK x \in logs : e.log = x.log /\ e.block = x.block
        BY <2>2, InsertedFrom
      <3> QED
        BY <3>1 DEF IInv, HistoryShape
    <2> QED
      BY <1>1, <2>1, <2>2
  <1>5. markets' = RebuiltMarkets(events')
    BY <1>1, MarketsFollow
  <1>6. \A t \in Token, h \in Holder : balances[t][h] + Credit[t][h] = BalanceOf(events')[t][h]
    <2> SUFFICES ASSUME NEW t \in Token, NEW h \in Holder
                 PROVE  balances[t][h] + Credit[t][h] = BalanceOf(events')[t][h]
      OBVIOUS
    <2>1. balances[t][h] = BalanceOf(events)[t][h]
      BY DEF MaterialInv, MaterializedFromEvents
    <2>2. \A e \in events \union Inserted : e.log \in Log
      BY <1>1, RangeEventsType DEF IInv, TypeOK, Event, Inserted
    <2>3. events \cap Inserted = {}
      BY <1>1, EventOrder
    <2>4. BalanceOf(events \union Inserted)[t][h] = BalanceOf(events)[t][h] + BalanceOf(Inserted)[t][h]
      BY <1>2, <2>2, <2>3, BalanceAdds
    <2> QED
      BY <1>1, <2>1, <2>4 DEF Credit
  <1>7. balances' = BalanceOf(events')
    <2>1. BalanceOf(events') = [t \in Token |-> [h \in Holder |-> BalanceOf(events')[t][h]]]
      BY DEF BalanceOf
    <2> HIDE DEF MaterialInv
    <2> QED
      BY <1>1, <1>6, <2>1
  <1>8. MaterializedFromEvents'
    BY <1>5, <1>7 DEF MaterializedFromEvents
  <1> QED
    BY <1>3, <1>4, <1>8

LEMMA MaterialStep == IInv /\ MaterialInv /\ [Next]_vars => MaterialInv'
  <1> SUFFICES ASSUME IInv, MaterialInv, [Next]_vars PROVE MaterialInv'
    OBVIOUS
  <1>1. /\ IsFiniteSet(events')
        /\ \A e \in events' : \E c \in Chains : e.block \in 1..Len(c) /\ e.log \in Logs[c[e.block]]
        /\ MaterializedFromEvents'
    <2>1. CASE Rollback
      <3>1. /\ events' = EventsUpTo(common) /\ EventsUpTo(common) \subseteq events
            /\ markets' = RebuiltMarkets(EventsUpTo(common))
            /\ balances' = BalanceOf(EventsUpTo(common))
        BY <2>1 DEF Rollback, EventsUpTo
      <3>2. IsFiniteSet(events')
        BY <3>1, FS_Subset DEF MaterialInv
      <3>3. markets' = RebuiltMarkets(events') /\ balances' = BalanceOf(events')
        BY <3>1
      <3>4. MaterializedFromEvents'
        BY <3>3 DEF MaterializedFromEvents
      <3> QED
        BY <3>1, <3>2, <3>4 DEF MaterialInv
    <2>2. CASE StoreRange
      BY <2>2, MaterialStored
    <2>3. CASE UNCHANGED <<database, dirtyFrom>>
      <3>1. UNCHANGED <<events, markets, balances>>
        BY <2>3 DEF database
      <3>2. markets' = RebuiltMarkets(events') /\ balances' = BalanceOf(events')
        BY <3>1 DEF MaterialInv, MaterializedFromEvents
      <3> QED
        BY <3>1, <3>2 DEF MaterialInv, MaterializedFromEvents
    <2> QED
      BY <2>1, <2>2, <2>3, DatabaseFrame
  <1>2. /\ IsFiniteSet(logs')
        /\ \A k \in {Launch, Config} : \E c \in Chains :
              \A x \in OfKind(logs', k) : x.block \in 1..Len(c) /\ x.log \in Logs[c[x.block]]
    <2>1. CASE StartRange
      <3>1. logs' = {} /\ chain \in Chains
        BY <2>1 DEF StartRange, IInv, TypeOK
      <3> QED
        BY <3>1, FS_EmptySet DEF OfKind
    <2>2. ASSUME NEW k \in Kinds, FetchLogs(k)
          PROVE  /\ IsFiniteSet(logs')
                 /\ \A q \in {Launch, Config} : \E c \in Chains :
                       \A x \in OfKind(logs', q) : x.block \in 1..Len(c) /\ x.log \in Logs[c[x.block]]
      BY <2>2, FetchedShape
    <2>3. CASE UNCHANGED logs
      BY <2>3 DEF MaterialInv
    <2>4. ASSUME NEW n \in 1..MaxHeight, FetchBlock(n) PROVE UNCHANGED logs
      BY <2>4 DEF FetchBlock
    <2> QED
      BY <2>1, <2>2, <2>3, <2>4, RangeFrame DEF range
  <1>3. \A k : OfKind(logs, k)' = OfKind(logs', k)
    BY DEF OfKind
  <1> QED
    BY <1>1, <1>2, <1>3 DEF MaterialInv

\* In every state, over torn ranges too, the tables storeRange keeps up row by row are
\* those rebuildMaterializedState would make of the stored events: the incremental
\* updates commute with the rebuild.
THEOREM TablesFollowEvents == Spec => []MaterializedFromEvents
  <1>1. MaterialInv => MaterializedFromEvents
    BY DEF MaterialInv
  <1> QED
    BY <1>1, MaterialInit, MaterialStep, Invariant, PTL DEF Spec
-----------------------------------------------------------------------------
(* What is stored is published. *)

PublishedInv ==
    faults = 0 =>
        /\ pc # "publish" => outbox = {}
        /\ \A e \in events : e.log.kind # Config => e \in published \union outbox

LEMMA PublishedStep == IInv /\ PublishedInv /\ [Next]_vars => PublishedInv'
  <1> SUFFICES ASSUME IInv, PublishedInv, [Next]_vars, faults' = 0
               PROVE  /\ pc' # "publish" => outbox' = {}
                      /\ \A e \in events' : e.log.kind # Config => e \in published' \union outbox'
    BY DEF PublishedInv
  <1> USE DEF database, range, search, history
  <1>1. faults \in Nat
    BY DEF IInv, TypeOK
  <1>2. CASE CycleFails
    BY <1>1, <1>2 DEF CycleFails
  <1>3. CASE StoreRange
    BY <1>3 DEF StoreRange, PublishedInv
  <1>4. CASE PublishEvents
    BY <1>4 DEF PublishEvents, PublishedInv, Messages
  <1>5. CASE Rollback
    BY <1>5 DEF Rollback, PublishedInv, EventsUpTo
  <1>6. CASE /\ UNCHANGED <<events, outbox, published, faults>>
             /\ pc = "publish" => pc' = "publish"
    BY <1>6 DEF PublishedInv
  <1>7. CASE Extend \/ Replace \/ UNCHANGED vars
    BY <1>6, <1>7 DEF Extend, Replace, vars
  <1>8. CASE CheckpointStands \/ CheckpointOrphaned \/ ProbeCandidate \/ NoCommonBlock
             \/ StartRange \/ UpToDate \/ StoreRejected \/ BlockMissing
    BY <1>6, <1>8 DEF CheckpointStands, CheckpointOrphaned, ProbeCandidate, NoCommonBlock,
                      StartRange, UpToDate, StoreRejected, BlockMissing
  <1>9. ASSUME NEW k \in Kinds, FetchLogs(k)
        PROVE  UNCHANGED <<events, outbox, published, faults>> /\ pc # "publish"
    BY <1>9 DEF FetchLogs
  <1>10. ASSUME NEW n \in 1..MaxHeight, FetchBlock(n)
         PROVE  UNCHANGED <<events, outbox, published, faults>> /\ pc # "publish"
    BY <1>10 DEF FetchBlock
  <1> QED
    BY <1>2, <1>3, <1>4, <1>5, <1>6, <1>7, <1>8, <1>9, <1>10 DEF Next, Cycle

\* As long as no cycle is lost after its commit, every stored event that has a message
\* has been published once the worker is past publishEvents, whatever was rolled back,
\* rejected or read torn in between.
THEOREM StoredIsAnnounced == Spec => []StoredIsPublished
  <1>1. Init => PublishedInv
    BY DEF Init, PublishedInv
  <1>2. PublishedInv => StoredIsPublished
    BY DEF PublishedInv, StoredIsPublished
  <1> QED
    BY <1>1, <1>2, PublishedStep, Invariant, PTL DEF Spec
-----------------------------------------------------------------------------
(* No overdraft: an untorn index holds the transfers of one chain, each once. *)

IdsUnique == \A e, f \in events : Id(e) = Id(f) => e = f

LEMMA IdsStep == IInv /\ IdsUnique /\ [Next]_vars => IdsUnique'
  <1> SUFFICES ASSUME IInv, IdsUnique, [Next]_vars,
                      NEW e \in events', NEW f \in events', Id(e) = Id(f)
               PROVE  e = f
    BY DEF IdsUnique, Id
  <1>1. CASE Rollback \/ UNCHANGED <<database, dirtyFrom>>
    BY <1>1 DEF Rollback, EventsUpTo, IdsUnique, database
  <1>2. CASE StoreRange
    <2>1. pc = "store" /\ events' = events \union Inserted
      BY <1>2 DEF StoreRange
    <2>2. \A x, y \in Inserted : Id(x) = Id(y) => x = y
      <3> SUFFICES ASSUME NEW x \in Inserted, NEW y \in Inserted, Id(x) = Id(y), x # y
                   PROVE  FALSE
        OBVIOUS
      <3>1. StoredFirst(x, y) /\ StoredFirst(y, x)
        BY DEF Inserted
      <3>2. x.block \in Nat /\ y.block \in Nat /\ x.log \in Log /\ y.log \in Log
        BY <2>1, RangeEventsType DEF IInv, Inserted, Event
      <3>3. \A l \in Log : KindRank(l.kind) \in Nat
        BY LogAssumption DEF Log, Kinds, KindRank, Launch, Config
      <3> QED
        BY <3>1, <3>2, <3>3 DEF StoredFirst
    <2>3. \A x \in events, y \in Inserted : Id(x) # Id(y)
      BY DEF Inserted
    <2> QED
      BY <2>1, <2>2, <2>3 DEF IdsUnique
  <1> QED
    BY <1>1, <1>2, DatabaseFrame

LEMMA UntornBalances ==
    ASSUME IInv, MaterialInv, IdsUnique, dirtyFrom = Never, NEW t \in Token, NEW h \in Holder
    PROVE  balances[t][h] >= 0
  <1>1. balances[t][h] = BalanceOf(events)[t][h]
    BY DEF MaterialInv, MaterializedFromEvents
  <1>2. \A e \in events : /\ e.block \in 1..checkpoint.lastBlock /\ e.block < Never
                          /\ e.log \in Log
    BY BoundsAssumption DEF IInv, TypeOK, Event, CheckpointIsNewestRow, Never
  <1>3. checkpoint.lastBlock \in 0..MaxHeight
    BY DEF IInv, TypeOK
  <1>4. CASE checkpoint.lastBlock = 0
    <2>1. events = {}
      BY <1>2, <1>4
    <2> QED
      BY <1>1, <2>1, NothingMoved
  <1>5. CASE checkpoint.lastBlock > 0
    <2> DEFINE last == checkpoint.lastBlock
    <2>1. last \in DOMAIN rows /\ last \in 1..MaxHeight
      BY <1>3, <1>5 DEF IInv, CheckpointIsNewestRow
    <2>2. PICK c \in Chains : On(c, last, rows[last])
      BY <2>1 DEF IInv, HistoryShape
    <2>3. last \in 1..Len(c) /\ Len(c) \in Nat /\ \A n \in 1..last : n \in 1..Len(c)
      BY <2>2, ChainFacts DEF On
    <2>4. \A n \in 1..last : EventsAt(n) = Recorded(c, n)
      <3>1. \A n \in 1..last : n < dirtyFrom
        BY <2>1, BoundsAssumption DEF Never
      <3> QED
        BY <2>1, <2>2, <3>1 DEF IInv, RowsVouch
    <2>5. \A e \in events : e.block \in 1..Len(c) /\ e.log \in Logs[c[e.block]]
      BY <1>2, <2>3, <2>4, StoredLog
    <2> DEFINE f == [e \in events |-> [log |-> e.log]]
               these == {[log |-> l] : l \in LogsUpTo(c, last)}
               image == {f[e] : e \in events}
    <2>6. \A x, y \in events : f[x] = f[y] => x = y
      <3> SUFFICES ASSUME NEW x \in events, NEW y \in events, f[x] = f[y] PROVE x = y
        OBVIOUS
      <3>1. f[x].log = x.log /\ f[y].log = y.log
        OBVIOUS
      <3>2. x.log = y.log
        BY <3>1
      <3>3. Id(x) = Id(y)
        BY <3>2 DEF Id
      <3> QED
        BY <3>3 DEF IdsUnique
    <2>7. image = these
      <3>1. ASSUME NEW e \in events PROVE e.log \in LogsUpTo(c, last)
        BY <1>2, <2>5 DEF LogsUpTo
      <3>2. ASSUME NEW l \in LogsUpTo(c, last) PROVE \E e \in events : e.log = l
        <4>1. PICK n \in 1..last : l \in Logs[c[n]]
          BY DEF LogsUpTo
        <4> QED
          BY <2>4, <4>1, StoredLog
      <3> QED
        BY <3>1, <3>2
    <2> DEFINE v == Moved(events, t, h)
               w == Moved(these, t, h)
    <2>8. \A e \in events : v[e] \in Int
      <3> SUFFICES ASSUME NEW e \in events PROVE Delta(e, t, h) \in Int
        BY DEF Moved
      <3>1. e.log.kind = "Transfer" => e.log.value \in Nat
        BY <1>2, LogAssumption DEF Log
      <3> QED
        BY <3>1 DEF Delta
    <2>9. \A e \in events : v[e] = w[f[e]]
      <3> SUFFICES ASSUME NEW e \in events PROVE v[e] = w[f[e]]
        OBVIOUS
      <3>1. f[e] \in these /\ f[e] = [log |-> e.log]
        BY <2>7
      <3>2. v[e] = Delta(e, t, h) /\ w[f[e]] = Delta(f[e], t, h)
        BY <3>1 DEF Moved
      <3>3. f[e].log = e.log
        BY <3>1
      <3>4. Delta(f[e], t, h) = Delta(e, t, h)
        BY <3>3 DEF Delta
      <3> QED
        BY <3>2, <3>4
    <2>10. IsFiniteSet(events)
      BY DEF MaterialInv
    <2>11. Total(v, events) = Total(w, these)
      <3> HIDE DEF v, w, f, these
      <3>1. Total(v, events) = Total(w, image)
        BY <2>6, <2>8, <2>9, <2>10, TotalImage
      <3> QED
        BY <2>7, <3>1
    <2>12. BalanceOf(these)[t][h] >= 0
      BY <2>2, <2>3, NoDebtAssumption
    <2> HIDE DEF these
    <2> QED
      BY <1>1, <2>11, <2>12, BalanceIsTotal
  <1> QED
    BY <1>3, <1>4, <1>5

\* An untorn index never shows a negative balance: what it holds are the transfers of one
\* chain, each once, after whatever was stored twice, rolled back or rejected.
THEOREM UntornIsNeverOverdrawn == Spec => []NoOverdraft
  <1>1. Init => IdsUnique
    BY DEF Init, IdsUnique
  <1>2. IInv /\ MaterialInv /\ IdsUnique => NoOverdraft
    BY UntornBalances DEF NoOverdraft
  <1> QED
    BY <1>1, <1>2, IdsStep, MaterialInit, MaterialStep, Invariant, PTL DEF Spec
=============================================================================
