--------------------------- MODULE SnapshotCache ----------------------------
(***************************************************************************)
(* One key of a snapshot cache of the web process: a hot entry in memory,  *)
(* a copy in Redis, one shared refresh, and the live events that mark the  *)
(* entry out of date.  The four caches written this way (market, holders,  *)
(* token index, protocol analytics) differ in the switches of `Cache'.     *)
(*                                                                         *)
(* A version is a state of the event store; a reorganisation orphans the   *)
(* newest ones.  A step is a stretch of the code between two awaits.  Time *)
(* is the age of each timestamp, in units of which TTL is the largest that *)
(* matters: a timestamp of 0, or of long ago, has the age TTL.             *)
(***************************************************************************)
EXTENDS Integers, Sequences, SequencesExt, Lists

CONSTANTS
    Request,          \* the requests under way at one time
    Cache,            \* which of the caches below
    TTL,              \* CACHE_TTL_MS
    MinInterval,      \* MIN_REFRESH_INTERVAL_MS
    ForceInterval,    \* FORCE_REFRESH_INTERVAL_MS
    MaxVersion,       \* bound: the versions of the store
    MaxReorgs,        \* bound: how many of them orphan others
    MaxSourceFailures,\* bound: how many refreshes fail
    MaxRedisFailures, \* bound: how often the Redis connection fails
    MaxProcessRestarts, \* bound: how often the web process restarts
    MaxPipe           \* bound: the commands on the Redis connection

Market     == [hydratesOnce |-> FALSE, checks |-> TRUE,  cools |-> TRUE,
               givesUp |-> FALSE, peeks |-> TRUE, datedByStore |-> FALSE]
Holder     == [Market EXCEPT !.peeks = FALSE]
TokenIndex == [Holder EXCEPT !.givesUp = TRUE]
Analytics  == [hydratesOnce |-> TRUE, checks |-> FALSE, cools |-> FALSE,
               givesUp |-> TRUE, peeks |-> FALSE, datedByStore |-> TRUE]

ASSUME SnapshotAssumption ==
    /\ Cache \in {Market, Holder, TokenIndex, Analytics}
    /\ TTL \in Nat /\ MinInterval \in 1..TTL /\ ForceInterval \in 1..MinInterval
    /\ MaxVersion \in Nat \ {0} /\ MaxReorgs \in Nat /\ MaxSourceFailures \in Nat
    /\ MaxRedisFailures \in Nat /\ MaxProcessRestarts \in Nat /\ MaxPipe \in Nat

VARIABLES
    world,     \* the version of the event store
    orphaned,  \* the versions that are not canonical any more
    entry,     \* the cache entry
    pending,   \* the shared refresh: none, asking, or the version it was answered
    stored,    \* the copy in Redis
    pipe,      \* commands on the Redis connection, in order
    replies,   \* its answers the process has not taken yet, in order
    pc,        \* what a request waits for
    kind,      \* how it calls the cache
    answer,    \* its last answer
    due,       \* history: the version the last live event announced
    behind,    \* history: the cache may have missed that announcement
    overtaken, \* history: no refresh has begun since that announcement
    since,     \* history: how long ago the last refresh began
    promised,  \* history: a canonical snapshot was there when the request came
    faults   \* bounds: how often each failure has happened

storeVars == <<world, orphaned>>
redisVars == <<stored, pipe, replies>>
request == <<pc, kind, answer, promised>>
history == <<due, behind, overtaken, since>>
cacheVars == <<storeVars, entry, pending, redisVars, request, history, faults>>

Version == 1..MaxVersion
NoVersion == 0
NoRefresh == -1
Asking == 0
Ages == 0..TTL
Older(a) == IF a < TTL THEN a + 1 ELSE a

\* A snapshot and the age of its generatedAt.
Copy == [version : Version \cup {NoVersion}, age : Ages]
NoCopy == [version |-> NoVersion, age |-> TTL]
Get(r) == [op |-> "get", by |-> r]
Put(c) == [op |-> "set", copy |-> c]

Entry == [snapshot : Version \cup {NoVersion}, age : Ages, attempt : Ages,
          checked : Ages, checking : BOOLEAN, hydrated : BOOLEAN]
EmptyEntry == [snapshot |-> NoVersion, age |-> TTL, attempt |-> TTL,
               checked |-> TTL, checking |-> FALSE, hydrated |-> FALSE]

Cached == entry.snapshot # NoVersion
Canonical(v) == v # NoVersion /\ v \notin orphaned
Reading(r) == Get(r) \in Range(pipe) \/ \E i \in DOMAIN replies : replies[i].by = r
SomeoneReads == \E r \in Request : Reading(r)

-----------------------------------------------------------------------------
\* What a request does once the entry is `e', without another await.

\* The canonical check is started in the background, at most one per interval.
Checked(e) ==
    IF Cache.checks /\ e.snapshot # NoVersion /\ e.checked >= MinInterval
    THEN [e EXCEPT !.checked = 0, !.checking = TRUE] ELSE e

FreshForever(e) == e.snapshot # NoVersion
IsFresh(e) == e.snapshot # NoVersion /\ e.age < TTL
RefreshThrottled(e, k) ==
    e.snapshot # NoVersion /\ e.attempt < (IF k = "force" THEN ForceInterval ELSE MinInterval)
Cooling(e) ==
    Cache.cools /\ e.snapshot = NoVersion /\ pending = NoRefresh /\ e.attempt < MinInterval

Answer(r, a) == /\ answer' = [answer EXCEPT ![r] = a]
                /\ pc' = [pc EXCEPT ![r] = "idle"]

Wait(r, where) == /\ answer' = [answer EXCEPT ![r] = "none"]
                  /\ pc' = [pc EXCEPT ![r] = where]

AttemptForgotten(e) == e
Attempted(e) == [e EXCEPT !.attempt = 0]

AnswerAtOnce(r, k, e) ==
    /\ \/ k = "poll" /\ IsFresh(e) /\ Answer(r, "fresh")
       \/ ~(k = "poll" /\ IsFresh(e)) /\ RefreshThrottled(e, k)
             /\ Answer(r, IF IsFresh(e) THEN "fresh" ELSE "stale")
       \/ Cooling(e) /\ Answer(r, "failed")
    /\ entry' = e
    /\ UNCHANGED <<pending, overtaken, since>>

ShareRefresh(r, k, e) ==
    /\ ~(k = "poll" /\ IsFresh(e)) /\ ~RefreshThrottled(e, k) /\ ~Cooling(e)
    /\ IF pending = NoRefresh
       THEN /\ pending' = Asking /\ entry' = Attempted(e)
            /\ overtaken' = FALSE /\ since' = 0
       ELSE entry' = e /\ UNCHANGED <<pending, overtaken, since>>
    /\ IF e.snapshot # NoVersion /\ k # "force" THEN Answer(r, "stale") ELSE Wait(r, "waiting")

Decide(r, k, e) == LET c == Checked(e) IN AnswerAtOnce(r, k, c) \/ ShareRefresh(r, k, c)

-----------------------------------------------------------------------------
\* Requests.

HydratesAtFirst == ~entry.hydrated
Hydrates == IF Cache.hydratesOnce THEN ~entry.hydrated ELSE ~Cached
Kinds == {"poll", "force"} \cup (IF Cache.peeks THEN {"peek"} ELSE {})

\* The copy Redis has once the commands under way are served.
Puts == {i \in DOMAIN pipe : pipe[i].op = "set"}
Coming == IF Puts = {} THEN stored ELSE pipe[Max(Puts)].copy

\* The entry is marked hydrated before the read is awaited.
Begin(r, k) ==
    /\ pc[r] = "idle"
    /\ kind' = [kind EXCEPT ![r] = k]
    /\ promised' = [promised EXCEPT ![r] =
                        IF Cached THEN Canonical(entry.snapshot) ELSE Canonical(Coming.version)]
    /\ IF Hydrates
       THEN /\ Len(pipe) < MaxPipe
            /\ pipe' = Append(pipe, Get(r))
            /\ Wait(r, "reading")
            /\ entry' = [entry EXCEPT !.hydrated = TRUE]
            /\ UNCHANGED <<pending, overtaken, since>>
       ELSE /\ UNCHANGED pipe
            /\ IF k = "peek"
               THEN Answer(r, "stale") /\ UNCHANGED <<entry, pending, overtaken, since>>
               ELSE Decide(r, k, entry)
    /\ UNCHANGED <<storeVars, stored, replies, due, behind, faults>>

\* A copy found in Redis replaces whatever the entry holds by then.
Adopted(c) ==
    IF c.version = NoVersion THEN entry
    ELSE [entry EXCEPT !.snapshot = c.version, !.age = c.age, !.checking = FALSE,
                       !.checked = TTL]

Adopt ==
    /\ replies # <<>>
    /\ LET r == Head(replies).by
           e == Adopted(Head(replies).copy)
       IN /\ replies' = Tail(replies)
          /\ IF kind[r] = "peek"
             THEN /\ entry' = e
                  /\ Answer(r, IF Head(replies).copy.version = NoVersion
                               THEN "none" ELSE "stale")
                  /\ UNCHANGED <<pending, overtaken, since>>
             ELSE Decide(r, kind[r], e)
    /\ promised' = [q \in Request |-> promised[q] /\ ~(Cached /\ Head(replies).copy.version \in orphaned)]
    /\ UNCHANGED <<storeVars, stored, pipe, kind, due, behind, faults>>

Waiting == {r \in Request : pc[r] = "waiting"}

AnswerWaiting(a) ==
    /\ pc' = [r \in Request |-> IF r \in Waiting THEN "idle" ELSE pc[r]]
    /\ answer' = [r \in Request |-> IF r \in Waiting THEN a ELSE answer[r]]

Load ==
    /\ pending = Asking
    /\ pending' = world
    /\ UNCHANGED <<storeVars, entry, redisVars, request, history, faults>>

Refreshed(v) == [entry EXCEPT !.snapshot = v, !.age = 0, !.checking = FALSE, !.checked = 0]

CompleteRefresh ==
    /\ pending \in Version /\ Len(pipe) < MaxPipe
    /\ entry' = Refreshed(pending)
    /\ \E a \in IF Cache.datedByStore THEN Ages ELSE {0} :
           pipe' = Append(pipe, Put([version |-> pending, age |-> a]))
    /\ pending' = NoRefresh
    /\ AnswerWaiting("fresh")
    /\ behind' = (behind /\ (overtaken \/ SomeoneReads))
    /\ UNCHANGED <<storeVars, stored, replies, kind, promised, due, overtaken, since, faults>>

\* The waiting requests fall back to the snapshot, if there is one by then.
RefreshFails ==
    /\ pending # NoRefresh /\ faults.source < MaxSourceFailures
    /\ faults' = [faults EXCEPT !.source = @ + 1]
    /\ pending' = NoRefresh
    /\ AnswerWaiting(IF Cached THEN "stale" ELSE "failed")
    /\ UNCHANGED <<storeVars, entry, redisVars, kind, promised, history>>

\* REQUEST_WAIT_TIMEOUT_MS: the request leaves, the refresh goes on.
GiveUp(r) ==
    /\ Cache.givesUp /\ pc[r] = "waiting" /\ faults.source < MaxSourceFailures
    /\ faults' = [faults EXCEPT !.source = @ + 1]
    /\ Answer(r, IF Cached THEN "stale" ELSE "failed")
    /\ UNCHANGED <<storeVars, entry, pending, redisVars, kind, promised, history>>

-----------------------------------------------------------------------------
\* The background check, live events and time.

CheckAnswered ==
    /\ entry.checking
    /\ entry' = IF Canonical(entry.snapshot) THEN [entry EXCEPT !.checking = FALSE]
                ELSE [entry EXCEPT !.checking = FALSE, !.snapshot = NoVersion, !.age = TTL]
    /\ behind' = (behind \/ ~Canonical(entry.snapshot))
    /\ UNCHANGED <<storeVars, pending, redisVars, request, due, overtaken, since, faults>>

\* A live event announces that the store has a newer version.
InvalidatedAttemptOnly(e) == [e EXCEPT !.attempt = TTL]
Invalidated(e) == [e EXCEPT !.age = TTL, !.attempt = TTL]

Invalidate ==
    /\ due < world
    /\ due' = due + 1
    /\ entry' = Invalidated(entry)
    /\ overtaken' = TRUE
    /\ behind' = (pending # NoRefresh \/ ~Cached \/ SomeoneReads)
    /\ UNCHANGED <<storeVars, pending, redisVars, request, since, faults>>

Advance ==
    /\ world < MaxVersion
    /\ world' = world + 1
    /\ UNCHANGED <<orphaned, entry, pending, redisVars, request, history, faults>>

\* The store is rolled back: the versions from v on are no longer canonical.
Reorg ==
    /\ world < MaxVersion /\ faults.reorg < MaxReorgs
    /\ \E v \in 1..world : orphaned' = orphaned \cup v..world
    /\ world' = world + 1
    /\ faults' = [faults EXCEPT !.reorg = @ + 1]
    /\ promised' = [r \in Request |-> FALSE]
    /\ UNCHANGED <<entry, pending, redisVars, pc, kind, answer, history>>

Tick ==
    /\ entry' = [entry EXCEPT !.age = Older(@), !.attempt = Older(@), !.checked = Older(@)]
    /\ stored' = [stored EXCEPT !.age = Older(@)]
    /\ pipe' = [i \in DOMAIN pipe |-> IF pipe[i].op = "set"
                                      THEN [pipe[i] EXCEPT !.copy.age = Older(@)] ELSE pipe[i]]
    /\ replies' = [i \in DOMAIN replies |-> [replies[i] EXCEPT !.copy.age = Older(@)]]
    /\ since' = Older(since)
    /\ UNCHANGED <<storeVars, pending, request, due, behind, overtaken, faults>>

-----------------------------------------------------------------------------
\* Redis and the process.

RedisServes ==
    /\ pipe # <<>>
    /\ pipe' = Tail(pipe)
    /\ IF Head(pipe).op = "set"
       THEN stored' = Head(pipe).copy /\ UNCHANGED replies
       ELSE replies' = Append(replies, [by |-> Head(pipe).by, copy |-> stored]) /\ UNCHANGED stored
    /\ UNCHANGED <<storeVars, entry, pending, request, history, faults>>

\* Failed reads are answered with nothing, failed writes are ignored.
RedisFails ==
    /\ pipe # <<>> /\ faults.redis < MaxRedisFailures
    /\ faults' = [faults EXCEPT !.redis = @ + 1]
    /\ LET gets == Filtered(pipe, [op : {"get"}, by : Request])
       IN /\ replies' = replies \o [i \in DOMAIN gets |-> [by |-> gets[i].by, copy |-> NoCopy]]
          /\ promised' = [r \in Request |-> promised[r] /\ Get(r) \notin Range(pipe)]
    /\ pipe' = <<>>
    /\ UNCHANGED <<storeVars, entry, pending, stored, pc, kind, answer, history>>

CacheRestarts ==
    /\ faults.restart < MaxProcessRestarts
    /\ faults' = [faults EXCEPT !.restart = @ + 1]
    /\ entry' = EmptyEntry
    /\ pending' = NoRefresh
    /\ pipe' = <<>> /\ replies' = <<>>
    /\ pc' = [r \in Request |-> "idle"]
    /\ behind' = TRUE /\ overtaken' = FALSE /\ since' = TTL
    /\ UNCHANGED <<storeVars, stored, kind, answer, promised, due>>

-----------------------------------------------------------------------------

CacheInit ==
    /\ world = 1 /\ orphaned = {}
    /\ entry = EmptyEntry /\ pending = NoRefresh
    /\ stored \in {NoCopy, [version |-> 1, age |-> TTL], [version |-> 1, age |-> 0]}
    /\ pipe = <<>> /\ replies = <<>>
    /\ pc = [r \in Request |-> "idle"]
    /\ kind = [r \in Request |-> "poll"]
    /\ answer = [r \in Request |-> "none"]
    /\ promised = [r \in Request |-> FALSE]
    /\ due = 1 /\ behind = FALSE /\ overtaken = FALSE /\ since = TTL
    /\ faults = [source |-> 0, redis |-> 0, reorg |-> 0, restart |-> 0]

CacheNext ==
    \/ \E r \in Request, k \in Kinds : Begin(r, k)
    \/ Adopt \/ Load \/ CompleteRefresh \/ RefreshFails
    \/ \E r \in Request : GiveUp(r)
    \/ CheckAnswered \/ Invalidate \/ Advance \/ Reorg \/ Tick
    \/ RedisServes \/ RedisFails \/ CacheRestarts

CacheSpec == CacheInit /\ [][CacheNext]_cacheVars

\* Pages poll; Redis, the source and the node answer; time passes.
CacheFairness ==
    /\ WF_cacheVars(\E r \in Request : Begin(r, "poll"))
    /\ WF_cacheVars(Adopt) /\ WF_cacheVars(Load) /\ WF_cacheVars(CompleteRefresh)
    /\ WF_cacheVars(CheckAnswered) /\ WF_cacheVars(RedisServes) /\ WF_cacheVars(Tick)

FairCacheSpec == CacheSpec /\ CacheFairness

-----------------------------------------------------------------------------
\* Properties.

\* The variables stay in their types.
CacheTypeOK ==
    /\ world \in Version /\ orphaned \subseteq Version
    /\ entry \in Entry
    /\ pending \in {NoRefresh, Asking} \cup Version
    /\ stored \in Copy
    /\ Len(pipe) <= MaxPipe
    /\ \A c \in Range(pipe) : c \in [op : {"get"}, by : Request] \cup [op : {"set"}, copy : Copy]
    /\ \A c \in Range(replies) : c \in [by : Request, copy : Copy]
    /\ pc \in [Request -> {"idle", "reading", "waiting"}]
    /\ kind \in [Request -> {"poll", "force", "peek"}]
    /\ answer \in [Request -> {"none", "fresh", "stale", "failed"}]
    /\ promised \in [Request -> BOOLEAN]
    /\ due \in Version /\ behind \in BOOLEAN /\ overtaken \in BOOLEAN /\ since \in Ages
    /\ faults \in [source : 0..MaxSourceFailures, redis : 0..MaxRedisFailures,
                      reorg : 0..MaxReorgs, restart : 0..MaxProcessRestarts]

\* What the cache calls fresh holds every change a live event announced while
\* it had a snapshot to mark and neither a refresh nor a read of Redis was
\* under way (invalidate*Snapshot).
FreshCovers == Cached /\ entry.age < TTL /\ ~behind => entry.snapshot >= due

\* What a refresh brings and calls fresh holds every change that a live event
\* has announced by then.
RefreshEnds == pending # NoRefresh /\ pending' = NoRefresh /\ entry'.snapshot = pending
RefreshCovers == [][RefreshEnds => pending >= due \/ entry'.age >= TTL]_cacheVars

\* Two refreshes begin FORCE_REFRESH_INTERVAL_MS apart, whatever the requests
\* ask for and also after faults, unless a live event came in between.
RefreshBegins == pending = NoRefresh /\ pending' = Asking
RefreshesSpaced == [][RefreshBegins => since >= ForceInterval \/ overtaken]_cacheVars

\* A request is not refused while there is a canonical snapshot in memory, or
\* in a reachable Redis (or the last one on its way there) when it came: a
\* failing source is hidden.  (Unless a late answer of Redis then replaces the
\* snapshot by an orphaned one.)
Fallback == \A r \in Request : answer[r] = "failed" => ~promised[r]

\* In the end the snapshot is canonical and holds what was announced, and
\* stays so, whatever was read from Redis, orphaned or lost before.
Settles == <>[](Canonical(entry.snapshot) /\ entry.snapshot >= due)

=============================================================================
