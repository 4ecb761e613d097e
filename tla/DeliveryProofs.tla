--------------------------- MODULE DeliveryProofs ---------------------------
(***************************************************************************)
(* Proofs about SnapshotCache and LiveDelivery, for every bound, number of *)
(* requests and pages, and interval: what a snapshot cache calls fresh,    *)
(* whom it refuses and how often it refreshes; that a hub that starts      *)
(* forgets neither a request nor a payload; and that a page is given no    *)
(* event twice and, while the hub serves, misses none.                     *)
(***************************************************************************)
EXTENDS SnapshotCache, LiveDelivery, DataProofs

-----------------------------------------------------------------------------
(* Types of the cache. *)

Command == [op : {"get"}, by : Request] \cup [op : {"set"}, copy : Copy]
Reply == [by : Request, copy : Copy]
Calls == {"poll", "force", "peek"}

CacheTyped ==
    /\ world \in Version /\ orphaned \subseteq Version
    /\ entry \in Entry
    /\ pending \in {NoRefresh, Asking} \cup Version
    /\ stored \in Copy
    /\ pipe \in Seq(Command) /\ replies \in Seq(Reply)
    /\ pc \in [Request -> {"idle", "reading", "waiting"}]
    /\ kind \in [Request -> Calls]
    /\ answer \in [Request -> {"none", "fresh", "stale", "failed"}]
    /\ promised \in [Request -> BOOLEAN]
    /\ due \in Version /\ due <= world
    /\ behind \in BOOLEAN /\ overtaken \in BOOLEAN /\ since \in Ages

LEMMA OlderAge == \A a \in Ages : Older(a) \in Ages /\ Older(a) >= a
  BY SnapshotAssumption DEF Ages, Older

\* What a request does once its entry is e.
LEMMA DecideDoes ==
    ASSUME CacheTyped, NEW r \in Request, NEW k \in Calls, NEW e \in Entry, Decide(r, k, e)
    PROVE  /\ entry' \in Entry
           /\ entry'.snapshot = e.snapshot /\ entry'.age = e.age /\ entry'.hydrated = e.hydrated
           /\ pc' \in [Request -> {"idle", "reading", "waiting"}] /\ pc'[r] \in {"idle", "waiting"}
           /\ answer' \in [Request -> {"none", "fresh", "stale", "failed"}]
           /\ \A q \in Request \ {r} : pc'[q] = pc[q] /\ answer'[q] = answer[q]
           /\ answer'[r] = "failed" => pc'[r] = "idle" /\ e.snapshot = NoVersion /\ Cache.cools
           /\ \/ UNCHANGED <<pending, overtaken, since>> /\ entry'.attempt = e.attempt
              \/ /\ pending = NoRefresh /\ pending' = Asking /\ overtaken' = FALSE /\ since' = 0
                 /\ entry'.attempt = 0
                 /\ Cache.cools \/ e.snapshot # NoVersion => e.attempt >= ForceInterval
  <1> DEFINE c == Checked(e)
  <1>1. /\ c \in Entry /\ c.snapshot = e.snapshot /\ c.age = e.age /\ c.hydrated = e.hydrated
        /\ c.attempt = e.attempt
    <2>1. c = e \/ c = [e EXCEPT !.checked = 0, !.checking = TRUE]
      BY DEF Checked
    <2>2. e \in [snapshot : Version \cup {NoVersion}, age : Ages, attempt : Ages,
                 checked : Ages, checking : BOOLEAN, hydrated : BOOLEAN]
      BY DEF Entry
    <2>3. 0 \in Ages
      BY SnapshotAssumption DEF Ages
    <2> HIDE DEF c
    <2> QED
      BY <2>1, <2>2, <2>3, ZenonT(30) DEF Entry
  <1>2. AnswerAtOnce(r, k, c) \/ ShareRefresh(r, k, c)
    BY DEF Decide
  <1> HIDE DEF c
  <1>3. ASSUME NEW a \in {"none", "fresh", "stale", "failed"}, Answer(r, a)
        PROVE  /\ pc' \in [Request -> {"idle", "reading", "waiting"}] /\ pc'[r] = "idle"
               /\ answer' \in [Request -> {"none", "fresh", "stale", "failed"}] /\ answer'[r] = a
               /\ \A q \in Request \ {r} : pc'[q] = pc[q] /\ answer'[q] = answer[q]
    BY <1>3 DEF Answer, CacheTyped
  <1>4. ASSUME Wait(r, "waiting")
        PROVE  /\ pc' \in [Request -> {"idle", "reading", "waiting"}] /\ pc'[r] = "waiting"
               /\ answer' \in [Request -> {"none", "fresh", "stale", "failed"}] /\ answer'[r] = "none"
               /\ \A q \in Request \ {r} : pc'[q] = pc[q] /\ answer'[q] = answer[q]
    BY <1>4 DEF Wait, CacheTyped
  <1>5. CASE AnswerAtOnce(r, k, c)
    <2>1. entry' = c /\ UNCHANGED <<pending, overtaken, since>>
      BY <1>5 DEF AnswerAtOnce
    <2>2. \E a \in {"none", "fresh", "stale", "failed"} :
             Answer(r, a) /\ (a = "failed" => c.snapshot = NoVersion /\ Cache.cools)
      BY <1>5 DEF AnswerAtOnce, Cooling
    <2> QED
      BY <1>1, <1>3, <2>1, <2>2
  <1>6. CASE ShareRefresh(r, k, c)
    <2>1. Answer(r, "stale") \/ Wait(r, "waiting")
      BY <1>6 DEF ShareRefresh
    <2>2. /\ pc' \in [Request -> {"idle", "reading", "waiting"}] /\ pc'[r] \in {"idle", "waiting"}
          /\ answer' \in [Request -> {"none", "fresh", "stale", "failed"}] /\ answer'[r] # "failed"
          /\ \A q \in Request \ {r} : pc'[q] = pc[q] /\ answer'[q] = answer[q]
      BY <1>3, <1>4, <2>1
    <2>3. CASE pending = NoRefresh
      <3>1. pending' = Asking /\ overtaken' = FALSE /\ since' = 0 /\ entry' = [c EXCEPT !.attempt = 0]
        BY <1>6, <2>3 DEF ShareRefresh, Attempted
      <3>2. /\ entry' \in Entry /\ entry'.snapshot = c.snapshot /\ entry'.age = c.age
            /\ entry'.hydrated = c.hydrated /\ entry'.attempt = 0
        BY <1>1, <3>1, SnapshotAssumption DEF Entry, Ages
      <3>3. ~RefreshThrottled(c, k) /\ ~Cooling(c)
        BY <1>6 DEF ShareRefresh
      <3>4. c.attempt \in Nat /\ ForceInterval \in Nat /\ MinInterval \in Nat /\ ForceInterval <= MinInterval
        BY <1>1, SnapshotAssumption DEF Entry, Ages
      <3>5. Cache.cools \/ c.snapshot # NoVersion => c.attempt >= ForceInterval
        BY <2>3, <3>3, <3>4 DEF RefreshThrottled, Cooling
      <3> QED
        BY <1>1, <2>2, <2>3, <3>1, <3>2, <3>5
    <2>4. CASE pending # NoRefresh
      <3>1. entry' = c /\ UNCHANGED <<pending, overtaken, since>>
        BY <1>6, <2>4 DEF ShareRefresh
      <3> QED
        BY <1>1, <2>2, <3>1
    <2> QED
      BY <2>3, <2>4
  <1> QED
    BY <1>2, <1>5, <1>6

\* A read that Redis answered changes the snapshot, its age and its check only.
LEMMA AdoptedEntry ==
    ASSUME CacheTyped, NEW c \in Copy
    PROVE  /\ Adopted(c) \in Entry
           /\ Adopted(c).attempt = entry.attempt /\ Adopted(c).hydrated = entry.hydrated
           /\ Adopted(c).snapshot = IF c.version = NoVersion THEN entry.snapshot ELSE c.version
           /\ Adopted(c).age = IF c.version = NoVersion THEN entry.age ELSE c.age
  <1>1. TTL \in Ages /\ c.age \in Ages /\ c.version \in Version \cup {NoVersion}
    BY SnapshotAssumption DEF Ages, Copy
  <1>2. entry \in [snapshot : Version \cup {NoVersion}, age : Ages, attempt : Ages,
                   checked : Ages, checking : BOOLEAN, hydrated : BOOLEAN]
    BY DEF CacheTyped, Entry
  <1>3. CASE c.version = NoVersion
    BY <1>2, <1>3 DEF Adopted, Entry
  <1>4. CASE c.version # NoVersion
    <2>1. Adopted(c) = [entry EXCEPT !.snapshot = c.version, !.age = c.age, !.checking = FALSE,
                                     !.checked = TTL]
      BY <1>4 DEF Adopted
    <2>2. Adopted(c) \in Entry
      BY <1>1, <1>2, <2>1, ZenonT(30) DEF Entry
    <2> QED
      BY <1>2, <1>4, <2>1, <2>2
  <1> QED
    BY <1>3, <1>4

\* What Begin does to the entry and the connection.
LEMMA BeginDoes ==
    ASSUME CacheTyped, NEW r \in Request, NEW k \in Kinds, Begin(r, k)
    PROVE  /\ k \in Calls /\ pc[r] = "idle"
           /\ \/ /\ Hydrates /\ pipe' = Append(pipe, Get(r)) /\ pc' = [pc EXCEPT ![r] = "reading"]
                 /\ answer' = [answer EXCEPT ![r] = "none"]
                 /\ entry' = [entry EXCEPT !.hydrated = TRUE]
                 /\ UNCHANGED <<pending, overtaken, since>>
              \/ /\ ~Hydrates /\ k = "peek" /\ UNCHANGED <<pipe, entry, pending, overtaken, since>>
                 /\ answer' = [answer EXCEPT ![r] = "stale"] /\ pc' = [pc EXCEPT ![r] = "idle"]
              \/ ~Hydrates /\ k # "peek" /\ UNCHANGED pipe /\ Decide(r, k, entry)
  <1>1. k \in Calls
    BY DEF Kinds, Calls
  <1> QED
    BY <1>1 DEF Begin, Wait, Answer

LEMMA RestOfBegin ==
    ASSUME CacheTyped, NEW r \in Request, NEW k \in Kinds, Begin(r, k)
    PROVE  /\ kind' = [kind EXCEPT ![r] = k]
           /\ UNCHANGED <<world, orphaned, stored, replies, due, behind, faults>>
  BY DEF Begin, storeVars

LEMMA AdoptDoes ==
    ASSUME CacheTyped, Adopt
    PROVE  LET r == Head(replies).by
               c == Head(replies).copy
           IN  /\ replies # <<>> /\ r \in Request /\ c \in Copy /\ replies' = Tail(replies)
               /\ \/ /\ entry' = Adopted(c) /\ UNCHANGED <<pending, overtaken, since>>
                     /\ pc' = [pc EXCEPT ![r] = "idle"]
                     /\ answer' = [answer EXCEPT ![r] = IF c.version = NoVersion THEN "none" ELSE "stale"]
                  \/ Decide(r, kind[r], Adopted(c)) /\ kind[r] \in Calls
               /\ UNCHANGED <<world, orphaned, stored, pipe, kind, due, behind, faults>>
  <1>1. replies # <<>> /\ replies \in Seq(Reply)
    BY DEF Adopt, CacheTyped
  <1>2. Head(replies) \in Reply
    BY <1>1
  <1>3. Head(replies).by \in Request /\ Head(replies).copy \in Copy
    BY <1>2 DEF Reply
  <1>4. kind[Head(replies).by] \in Calls
    BY <1>3 DEF CacheTyped
  <1> QED
    BY <1>1, <1>3, <1>4 DEF Adopt, Answer, storeVars

\* The requests after Begin and after Adopt, whichever way they go.
LEMMA RequestsTyped ==
    ASSUME CacheTyped,
           \/ \E r \in Request, k \in Kinds : Begin(r, k)
           \/ Adopt
    PROVE  /\ entry' \in Entry
           /\ pc' \in [Request -> {"idle", "reading", "waiting"}]
           /\ answer' \in [Request -> {"none", "fresh", "stale", "failed"}]
           /\ pending' \in {NoRefresh, Asking} \cup Version
           /\ overtaken' \in BOOLEAN /\ since' \in Ages
           /\ pipe' \in Seq(Command) /\ replies' \in Seq(Reply)
           /\ kind' \in [Request -> Calls]
  <1>0. /\ 0 \in Ages /\ pending \in {NoRefresh, Asking} \cup Version
        /\ overtaken \in BOOLEAN /\ since \in Ages
    BY SnapshotAssumption DEF Ages, CacheTyped
  <1>1. ASSUME NEW r \in Request, NEW k \in Kinds, Begin(r, k)
        PROVE  /\ entry' \in Entry
               /\ pc' \in [Request -> {"idle", "reading", "waiting"}]
               /\ answer' \in [Request -> {"none", "fresh", "stale", "failed"}]
               /\ pending' \in {NoRefresh, Asking} \cup Version
               /\ overtaken' \in BOOLEAN /\ since' \in Ages
               /\ pipe' \in Seq(Command) /\ replies' \in Seq(Reply)
               /\ kind' \in [Request -> Calls]
    <2>1. k \in Calls /\ kind' \in [Request -> Calls] /\ replies' \in Seq(Reply)
      BY <1>1, BeginDoes, RestOfBegin DEF CacheTyped
    <2>2. CASE Hydrates /\ pipe' = Append(pipe, Get(r)) /\ pc' = [pc EXCEPT ![r] = "reading"]
               /\ answer' = [answer EXCEPT ![r] = "none"]
               /\ entry' = [entry EXCEPT !.hydrated = TRUE]
               /\ UNCHANGED <<pending, overtaken, since>>
      <3>1. Get(r) \in Command
        BY DEF Get, Command
      <3>2. entry' \in Entry
        BY <2>2 DEF CacheTyped, Entry
      <3>3. pipe' \in Seq(Command)
        BY <2>2, <3>1 DEF CacheTyped
      <3> QED
        BY <1>0, <2>1, <2>2, <3>2, <3>3 DEF CacheTyped
    <2>3. CASE ~Hydrates /\ k = "peek" /\ UNCHANGED <<pipe, entry, pending, overtaken, since>>
               /\ answer' = [answer EXCEPT ![r] = "stale"] /\ pc' = [pc EXCEPT ![r] = "idle"]
      BY <1>0, <2>1, <2>3 DEF CacheTyped
    <2>4. CASE ~Hydrates /\ k # "peek" /\ UNCHANGED pipe /\ Decide(r, k, entry)
      <3>1. entry \in Entry
        BY DEF CacheTyped
      <3> QED
        BY <1>0, <2>1, <2>4, <3>1, DecideDoes DEF CacheTyped
    <2> QED
      BY <1>1, <2>2, <2>3, <2>4, BeginDoes
  <1>2. ASSUME Adopt
        PROVE  /\ entry' \in Entry
               /\ pc' \in [Request -> {"idle", "reading", "waiting"}]
               /\ answer' \in [Request -> {"none", "fresh", "stale", "failed"}]
               /\ pending' \in {NoRefresh, Asking} \cup Version
               /\ overtaken' \in BOOLEAN /\ since' \in Ages
               /\ pipe' \in Seq(Command) /\ replies' \in Seq(Reply)
               /\ kind' \in [Request -> Calls]
    <2> DEFINE r == Head(replies).by
               c == Head(replies).copy
    <2>1. /\ replies # <<>> /\ r \in Request /\ c \in Copy /\ replies' = Tail(replies)
          /\ \/ /\ entry' = Adopted(c) /\ UNCHANGED <<pending, overtaken, since>>
                /\ pc' = [pc EXCEPT ![r] = "idle"]
                /\ answer' = [answer EXCEPT ![r] = IF c.version = NoVersion THEN "none" ELSE "stale"]
             \/ Decide(r, kind[r], Adopted(c)) /\ kind[r] \in Calls
          /\ UNCHANGED <<pipe, kind>>
      BY <1>2, AdoptDoes
    <2> HIDE DEF r, c
    <2>2. Adopted(c) \in Entry
      BY <2>1, AdoptedEntry
    <2>3. replies' \in Seq(Reply) /\ pipe' \in Seq(Command) /\ kind' \in [Request -> Calls]
      BY <2>1 DEF CacheTyped
    <2>4. CASE Decide(r, kind[r], Adopted(c)) /\ kind[r] \in Calls
      BY <1>0, <2>1, <2>2, <2>3, <2>4, DecideDoes
    <2>5. CASE /\ entry' = Adopted(c) /\ UNCHANGED <<pending, overtaken, since>>
               /\ pc' = [pc EXCEPT ![r] = "idle"]
               /\ answer' = [answer EXCEPT ![r] = IF c.version = NoVersion THEN "none" ELSE "stale"]
      BY <1>0, <2>1, <2>2, <2>3, <2>5 DEF CacheTyped
    <2> QED
      BY <2>1, <2>4, <2>5
  <1> QED
    BY <1>1, <1>2

LEMMA AnsweredTyped ==
    ASSUME CacheTyped, NEW a \in {"fresh", "stale", "failed"}, AnswerWaiting(a)
    PROVE  /\ pc' \in [Request -> {"idle", "reading", "waiting"}]
           /\ answer' \in [Request -> {"none", "fresh", "stale", "failed"}]
  BY DEF CacheTyped, AnswerWaiting

\* The commands that pass to Redis are answered by replies.
LEMMA RepliesTyped ==
    ASSUME CacheTyped
    PROVE  /\ RedisServes => stored' \in Copy /\ pipe' \in Seq(Command) /\ replies' \in Seq(Reply)
           /\ RedisFails => pipe' \in Seq(Command) /\ replies' \in Seq(Reply)
  <1>1. ASSUME RedisServes
        PROVE  stored' \in Copy /\ pipe' \in Seq(Command) /\ replies' \in Seq(Reply)
    <2>1. pipe # <<>> /\ pipe \in Seq(Command) /\ pipe' = Tail(pipe)
      BY <1>1 DEF RedisServes, CacheTyped
    <2>2. Head(pipe) \in Command /\ pipe' \in Seq(Command)
      BY <2>1
    <2>3. CASE Head(pipe).op = "set"
      <3>1. Head(pipe).copy \in Copy
        BY <2>2, <2>3 DEF Command
      <3> QED
        BY <1>1, <2>2, <2>3, <3>1 DEF RedisServes, CacheTyped
    <2>4. CASE Head(pipe).op # "set"
      <3>1. Head(pipe).by \in Request
        BY <2>2, <2>4 DEF Command
      <3>2. [by |-> Head(pipe).by, copy |-> stored] \in Reply
        BY <3>1 DEF Reply, CacheTyped
      <3>3. replies' = Append(replies, [by |-> Head(pipe).by, copy |-> stored]) /\ stored' = stored
        BY <1>1, <2>4 DEF RedisServes
      <3> QED
        BY <2>2, <3>2, <3>3 DEF CacheTyped
    <2> QED
      BY <2>3, <2>4
  <1>2. ASSUME RedisFails
        PROVE  pipe' \in Seq(Command) /\ replies' \in Seq(Reply)
    <2> DEFINE gets == Filtered(pipe, [op : {"get"}, by : Request])
               answers == [i \in DOMAIN gets |-> [by |-> gets[i].by, copy |-> NoCopy]]
    <2>1. pipe \in Seq(Command) /\ replies \in Seq(Reply)
      BY DEF CacheTyped
    <2>2. gets \in Seq(Command \cap [op : {"get"}, by : Request])
      BY <2>1, FilteredEntries
    <2>3. replies' = replies \o answers /\ pipe' = <<>>
      BY <1>2 DEF RedisFails
    <2>4. NoCopy \in Copy
      BY SnapshotAssumption DEF NoCopy, Copy, Ages
    <2> HIDE DEF gets
    <2>5. \A i \in DOMAIN gets : gets[i].by \in Request
      BY <2>2 DEF Command
    <2>6. answers \in Seq(Reply)
      <3>1. Len(gets) \in Nat /\ DOMAIN gets = 1 .. Len(gets)
        BY <2>2
      <3>2. \A i \in 1 .. Len(gets) : [by |-> gets[i].by, copy |-> NoCopy] \in Reply
        BY <2>4, <2>5, <3>1 DEF Reply
      <3>3. answers = [i \in 1 .. Len(gets) |-> [by |-> gets[i].by, copy |-> NoCopy]]
        BY <3>1
      <3> QED
        BY <3>1, <3>2, <3>3
    <2> HIDE DEF answers
    <2> QED
      BY <2>1, <2>3, <2>6
  <1> QED
    BY <1>1, <1>2

\* Time passes for every timestamp.
LEMMA TickTyped ==
    ASSUME CacheTyped, Tick
    PROVE  /\ entry' \in Entry /\ stored' \in Copy /\ pipe' \in Seq(Command)
           /\ replies' \in Seq(Reply) /\ since' \in Ages
  <1>1. entry' \in Entry
    <2>1. /\ Older(entry.age) \in Ages /\ Older(entry.attempt) \in Ages /\ Older(entry.checked) \in Ages
      BY OlderAge DEF CacheTyped, Entry
    <2>2. entry' = [entry EXCEPT !.age = Older(entry.age), !.attempt = Older(entry.attempt),
                                 !.checked = Older(entry.checked)]
      BY DEF Tick
    <2>3. entry \in [snapshot : Version \cup {NoVersion}, age : Ages, attempt : Ages,
                     checked : Ages, checking : BOOLEAN, hydrated : BOOLEAN]
      BY DEF CacheTyped, Entry
    <2> QED
      BY <2>1, <2>2, <2>3, ZenonT(30) DEF Entry
  <1>2. \A c \in Copy : [c EXCEPT !.age = Older(c.age)] \in Copy
    BY OlderAge DEF Copy
  <1>3. stored' \in Copy
    BY <1>2 DEF Tick, CacheTyped
  <1>4. pipe' \in Seq(Command)
    <2>1. pipe \in Seq(Command)
      BY DEF CacheTyped
    <2> DEFINE elder(c) == IF c.op = "set" THEN [c EXCEPT !.copy.age = Older(c.copy.age)] ELSE c
    <2>2. \A c \in Command : elder(c) \in Command
      BY <1>2 DEF Command
    <2>3. pipe' = [i \in DOMAIN pipe |-> elder(pipe[i])]
      BY DEF Tick
    <2> HIDE DEF elder
    <2> QED
      BY <2>1, <2>2, <2>3
  <1>5. replies' \in Seq(Reply)
    <2>1. replies \in Seq(Reply)
      BY DEF CacheTyped
    <2> DEFINE elder(c) == [c EXCEPT !.copy.age = Older(c.copy.age)]
    <2>2. \A c \in Reply : elder(c) \in Reply
      BY <1>2 DEF Reply
    <2>3. replies' = [i \in DOMAIN replies |-> elder(replies[i])]
      BY DEF Tick
    <2> HIDE DEF elder
    <2> QED
      BY <2>1, <2>2, <2>3
  <1>6. since' \in Ages
    BY OlderAge DEF Tick, CacheTyped
  <1> QED
    BY <1>1, <1>3, <1>4, <1>5, <1>6

LEMMA CacheTypedKept == CacheTyped /\ [CacheNext]_cacheVars => CacheTyped'
  <1> SUFFICES ASSUME CacheTyped, [CacheNext]_cacheVars PROVE CacheTyped'
    OBVIOUS
  <1>0. /\ TTL \in Ages /\ 0 \in Ages /\ 1 \in Version
    BY SnapshotAssumption DEF Ages, Version
  <1>0e. entry \in [snapshot : Version \cup {NoVersion}, age : Ages, attempt : Ages,
                    checked : Ages, checking : BOOLEAN, hydrated : BOOLEAN]
    BY DEF CacheTyped, Entry
  <1>1. ASSUME NEW r \in Request, NEW k \in Kinds, Begin(r, k) PROVE CacheTyped'
    <2>1. promised' \in [Request -> BOOLEAN]
      <3>1. promised \in [Request -> BOOLEAN]
        BY DEF CacheTyped
      <3>2. Canonical(entry.snapshot) \in BOOLEAN /\ Canonical(Coming.version) \in BOOLEAN
        BY DEF Canonical
      <3>3. promised' = [promised EXCEPT ![r] =
                           IF Cached THEN Canonical(entry.snapshot) ELSE Canonical(Coming.version)]
        BY <1>1 DEF Begin
      <3> QED
        BY <3>1, <3>2, <3>3, Zenon
    <2>2. UNCHANGED <<world, orphaned, stored, due, behind>>
      BY <1>1, RestOfBegin
    <2> QED
      BY <1>1, <2>1, <2>2, RequestsTyped DEF CacheTyped
  <1>2. ASSUME Adopt PROVE CacheTyped'
    <2>1. promised' \in [Request -> BOOLEAN]
      BY <1>2, Zenon DEF Adopt, CacheTyped
    <2>2. UNCHANGED <<world, orphaned, stored, due, behind>>
      BY <1>2, AdoptDoes
    <2> QED
      BY <1>2, <2>1, <2>2, RequestsTyped DEF CacheTyped
  <1>3. ASSUME Load PROVE CacheTyped'
    BY <1>3 DEF Load, CacheTyped, storeVars, redisVars, request, history
  <1>4. ASSUME CompleteRefresh PROVE CacheTyped'
    <2>1. entry' \in Entry
      BY <1>0, <1>0e, <1>4, ZenonT(30) DEF CompleteRefresh, Refreshed, Entry
    <2>2. pipe' \in Seq(Command)
      <3>1. PICK a \in Ages : pipe' = Append(pipe, Put([version |-> pending, age |-> a]))
        BY <1>0, <1>4 DEF CompleteRefresh
      <3>2. Put([version |-> pending, age |-> a]) \in Command
        BY <1>4 DEF CompleteRefresh, Put, Command, Copy
      <3> QED
        BY <3>1, <3>2 DEF CacheTyped
    <2>3. behind' \in BOOLEAN
      BY <1>4 DEF CompleteRefresh
    <2>4. /\ pc' \in [Request -> {"idle", "reading", "waiting"}]
          /\ answer' \in [Request -> {"none", "fresh", "stale", "failed"}]
      BY <1>4, AnsweredTyped DEF CompleteRefresh
    <2> QED
      BY <1>4, <2>1, <2>2, <2>3, <2>4 DEF CompleteRefresh, CacheTyped, storeVars
  <1>5. ASSUME RefreshFails PROVE CacheTyped'
    <2>1. /\ pc' \in [Request -> {"idle", "reading", "waiting"}]
          /\ answer' \in [Request -> {"none", "fresh", "stale", "failed"}]
      BY <1>5, AnsweredTyped DEF RefreshFails
    <2> QED
      BY <1>5, <2>1 DEF RefreshFails, CacheTyped, storeVars, redisVars, history
  <1>6. ASSUME NEW r \in Request, GiveUp(r) PROVE CacheTyped'
    BY <1>6 DEF GiveUp, Answer, CacheTyped, storeVars, redisVars, history
  <1>7. ASSUME CheckAnswered PROVE CacheTyped'
    <2>1. entry' \in Entry
      <3>1. [entry EXCEPT !.checking = FALSE] \in Entry
        BY <1>0, <1>0e, ZenonT(30) DEF Entry
      <3>2. [entry EXCEPT !.checking = FALSE, !.snapshot = NoVersion, !.age = TTL] \in Entry
        BY <1>0, <1>0e, ZenonT(30) DEF Entry
      <3> QED
        BY <1>7, <3>1, <3>2 DEF CheckAnswered
    <2>2. behind' \in BOOLEAN
      BY <1>7 DEF CheckAnswered
    <2> QED
      BY <1>7, <2>1, <2>2 DEF CheckAnswered, CacheTyped, storeVars, redisVars, request
  <1>8. ASSUME Invalidate PROVE CacheTyped'
    <2>1. entry' \in Entry
      BY <1>0, <1>0e, <1>8, ZenonT(30) DEF Invalidate, Invalidated, Entry
    <2>2. due' \in Version /\ due' <= world
      BY <1>8, SnapshotAssumption DEF Invalidate, CacheTyped, Version
    <2>3. behind' \in BOOLEAN /\ overtaken' \in BOOLEAN
      BY <1>8 DEF Invalidate
    <2> QED
      BY <1>8, <2>1, <2>2, <2>3 DEF Invalidate, CacheTyped, storeVars, redisVars, request
  <1>9. ASSUME Advance \/ Reorg PROVE CacheTyped'
    <2>1. world' \in Version /\ due' = due /\ due <= world'
      BY <1>9, SnapshotAssumption DEF Advance, Reorg, CacheTyped, Version, history
    <2>2. orphaned' \subseteq Version
      BY <1>9, SnapshotAssumption DEF Advance, Reorg, CacheTyped, Version
    <2>3. promised' \in [Request -> BOOLEAN]
      BY <1>9 DEF Advance, Reorg, CacheTyped, request
    <2> QED
      BY <1>9, <2>1, <2>2, <2>3 DEF Advance, Reorg, CacheTyped, redisVars, request, history
  <1>10. ASSUME Tick PROVE CacheTyped'
    BY <1>10, TickTyped DEF Tick, CacheTyped, storeVars, request
  <1>11. ASSUME RedisServes PROVE CacheTyped'
    BY <1>11, RepliesTyped DEF RedisServes, CacheTyped, storeVars, request, history
  <1>12. ASSUME RedisFails PROVE CacheTyped'
    <2>1. promised' \in [Request -> BOOLEAN]
      BY <1>12, Zenon DEF RedisFails, CacheTyped
    <2> QED
      BY <1>12, <2>1, RepliesTyped DEF RedisFails, CacheTyped, storeVars, history
  <1>13. ASSUME CacheRestarts PROVE CacheTyped'
    <2>1. EmptyEntry \in Entry
      BY <1>0 DEF EmptyEntry, Entry
    <2>2. pipe' \in Seq(Command) /\ replies' \in Seq(Reply)
      BY <1>13 DEF CacheRestarts
    <2>3. pc' \in [Request -> {"idle", "reading", "waiting"}]
      BY <1>13 DEF CacheRestarts
    <2>4. pending' \in {NoRefresh, Asking} \cup Version
      BY <1>13 DEF CacheRestarts
    <2> QED
      BY <1>0, <1>13, <2>1, <2>2, <2>3, <2>4 DEF CacheRestarts, CacheTyped, storeVars
  <1>14. ASSUME UNCHANGED cacheVars PROVE CacheTyped'
    BY <1>14 DEF CacheTyped, cacheVars, storeVars, redisVars, request, history
  <1> QED
    BY <1>1, <1>2, <1>3, <1>4, <1>5, <1>6, <1>7, <1>8, <1>9, <1>10, <1>11, <1>12, <1>13, <1>14
    DEF CacheNext

LEMMA CacheTypedFirst == CacheInit => CacheTyped
  <1> SUFFICES ASSUME CacheInit PROVE CacheTyped
    OBVIOUS
  <1>0. /\ TTL \in Ages /\ 0 \in Ages /\ 1 \in Version
    BY SnapshotAssumption DEF Ages, Version
  <1>1. EmptyEntry \in Entry
    BY <1>0 DEF EmptyEntry, Entry
  <1>2. stored \in Copy
    BY <1>0 DEF CacheInit, NoCopy, Copy
  <1> QED
    <2>1. kind \in [Request -> Calls] /\ promised \in [Request -> BOOLEAN]
      BY DEF CacheInit, Calls
    <2>2. pipe \in Seq(Command) /\ replies \in Seq(Reply)
      BY DEF CacheInit
    <2>3. /\ pc \in [Request -> {"idle", "reading", "waiting"}]
          /\ answer \in [Request -> {"none", "fresh", "stale", "failed"}]
      BY DEF CacheInit
    <2>4. /\ world \in Version /\ orphaned \subseteq Version
          /\ entry \in Entry /\ pending \in {NoRefresh, Asking} \cup Version
          /\ due \in Version /\ due <= world
          /\ behind \in BOOLEAN /\ overtaken \in BOOLEAN /\ since \in Ages
      <3>1. /\ world = 1 /\ orphaned = {} /\ entry = EmptyEntry /\ pending = NoRefresh
            /\ due = 1 /\ behind = FALSE /\ overtaken = FALSE /\ since = TTL
        BY DEF CacheInit
      <3>2. due <= world
        BY <3>1
      <3> QED
        BY <1>0, <1>1, <3>1, <3>2, Zenon
    <2> QED
      BY <1>2, <2>1, <2>2, <2>3, <2>4 DEF CacheTyped

LEMMA AlwaysTyped == CacheSpec => []CacheTyped
  BY CacheTypedFirst, CacheTypedKept, PTL DEF CacheSpec

-----------------------------------------------------------------------------
(* How often the cache refreshes. *)

\* The entry remembers the last attempt, unless a live event made it forget.
SpacedInv == ~overtaken => entry.attempt = since

\* What a request decides keeps the two together.
LEMMA DecideKeepsSpaced ==
    ASSUME CacheTyped, SpacedInv, NEW r \in Request, NEW k \in Calls, NEW e \in Entry,
           e.attempt = entry.attempt, Decide(r, k, e)
    PROVE  /\ SpacedInv'
           /\ RefreshBegins /\ Cache.cools => since >= ForceInterval \/ overtaken
  <1>1. \/ UNCHANGED <<pending, overtaken, since>> /\ entry'.attempt = e.attempt
        \/ /\ pending = NoRefresh /\ pending' = Asking /\ overtaken' = FALSE /\ since' = 0
           /\ entry'.attempt = 0
           /\ Cache.cools \/ e.snapshot # NoVersion => e.attempt >= ForceInterval
    BY DecideDoes
  <1> QED
    BY <1>1 DEF SpacedInv, RefreshBegins, NoRefresh, Asking

LEMMA SpacedKept ==
    ASSUME CacheTyped, SpacedInv, [CacheNext]_cacheVars
    PROVE  /\ SpacedInv'
           /\ RefreshBegins /\ Cache.cools => since >= ForceInterval \/ overtaken
  <1>1. ASSUME NEW r \in Request, NEW k \in Kinds, Begin(r, k)
        PROVE  /\ SpacedInv'
               /\ RefreshBegins /\ Cache.cools => since >= ForceInterval \/ overtaken
    <2>1. CASE entry' = [entry EXCEPT !.hydrated = TRUE] /\ UNCHANGED <<pending, overtaken, since>>
      BY <2>1 DEF SpacedInv, RefreshBegins, CacheTyped, Entry, NoRefresh, Asking
    <2>2. CASE UNCHANGED <<pipe, entry, pending, overtaken, since>>
      BY <2>2 DEF SpacedInv, RefreshBegins, NoRefresh, Asking
    <2>3. CASE Decide(r, k, entry)
      BY <1>1, <2>3, BeginDoes, DecideKeepsSpaced DEF CacheTyped
    <2> QED
      BY <1>1, <2>1, <2>2, <2>3, BeginDoes
  <1>2. ASSUME Adopt
        PROVE  /\ SpacedInv'
               /\ RefreshBegins /\ Cache.cools => since >= ForceInterval \/ overtaken
    <2> DEFINE r == Head(replies).by
               c == Head(replies).copy
    <2>1. /\ r \in Request /\ c \in Copy
          /\ \/ entry' = Adopted(c) /\ UNCHANGED <<pending, overtaken, since>>
             \/ Decide(r, kind[r], Adopted(c)) /\ kind[r] \in Calls
      BY <1>2, AdoptDoes
    <2> HIDE DEF r, c
    <2>2. Adopted(c) \in Entry /\ Adopted(c).attempt = entry.attempt
      BY <2>1, AdoptedEntry
    <2>3. CASE entry' = Adopted(c) /\ UNCHANGED <<pending, overtaken, since>>
      BY <2>2, <2>3 DEF SpacedInv, RefreshBegins, NoRefresh, Asking
    <2>4. CASE Decide(r, kind[r], Adopted(c)) /\ kind[r] \in Calls
      BY <2>1, <2>2, <2>4, DecideKeepsSpaced
    <2> QED
      BY <2>1, <2>3, <2>4
  <1>3. CASE UNCHANGED <<overtaken, since>> /\ entry'.attempt = entry.attempt /\ ~RefreshBegins
    BY <1>3 DEF SpacedInv
  <1>4. ASSUME Load \/ CompleteRefresh \/ RefreshFails \/ (\E r \in Request : GiveUp(r))
        PROVE  UNCHANGED <<overtaken, since>> /\ entry'.attempt = entry.attempt /\ ~RefreshBegins
    <2>1. UNCHANGED <<overtaken, since>>
      BY <1>4 DEF Load, CompleteRefresh, RefreshFails, GiveUp, history
    <2>2. pending # NoRefresh \/ UNCHANGED pending
      BY <1>4 DEF Load, CompleteRefresh, RefreshFails, GiveUp, NoRefresh, Asking, Version
    <2>3. entry' = entry \/ entry' = Refreshed(pending)
      BY <1>4 DEF Load, CompleteRefresh, RefreshFails, GiveUp
    <2>4. Refreshed(pending).attempt = entry.attempt
      BY DEF Refreshed, CacheTyped, Entry
    <2> QED
      BY <2>1, <2>2, <2>3, <2>4 DEF RefreshBegins, NoRefresh, Asking
  <1>5. ASSUME CheckAnswered \/ Advance \/ Reorg \/ RedisServes \/ RedisFails \/ UNCHANGED cacheVars
        PROVE  UNCHANGED <<overtaken, since>> /\ entry'.attempt = entry.attempt /\ ~RefreshBegins
    <2>1. UNCHANGED <<overtaken, since, pending>>
      BY <1>5 DEF CheckAnswered, Advance, Reorg, RedisServes, RedisFails, cacheVars, history
    <2>2. \/ entry' = entry
          \/ entry' = [entry EXCEPT !.checking = FALSE]
          \/ entry' = [entry EXCEPT !.checking = FALSE, !.snapshot = NoVersion, !.age = TTL]
      BY <1>5 DEF CheckAnswered, Advance, Reorg, RedisServes, RedisFails, cacheVars
    <2>3. entry'.attempt = entry.attempt
      BY <2>2 DEF CacheTyped, Entry
    <2> QED
      BY <2>1, <2>3 DEF RefreshBegins, NoRefresh, Asking
  <1>6. CASE Invalidate
    BY <1>6 DEF Invalidate, SpacedInv, RefreshBegins, NoRefresh, Asking
  <1>7. CASE Tick
    <2>1. entry'.attempt = Older(entry.attempt) /\ since' = Older(since) /\ UNCHANGED <<pending, overtaken>>
      BY <1>7 DEF Tick, CacheTyped, Entry
    <2> QED
      BY <2>1 DEF SpacedInv, RefreshBegins, NoRefresh, Asking
  <1>8. CASE CacheRestarts
    BY <1>8 DEF CacheRestarts, SpacedInv, RefreshBegins, NoRefresh, Asking, EmptyEntry
  <1> QED
    BY <1>1, <1>2, <1>3, <1>4, <1>5, <1>6, <1>7, <1>8 DEF CacheNext

\* Two refreshes of a cache with a cooldown (all but the protocol analytics)
\* begin FORCE_REFRESH_INTERVAL_MS apart, whatever is asked for, found in Redis
\* or failed in between, unless a live event came (refresh*Snapshot,
\* attemptedAt).
THEOREM RefreshesAreSpaced == ASSUME Cache.cools PROVE CacheSpec => RefreshesSpaced
  <1> DEFINE Spaced == RefreshBegins => since >= ForceInterval \/ overtaken
  <1>1. CacheInit => CacheTyped /\ SpacedInv
    BY CacheTypedFirst DEF CacheInit, SpacedInv, EmptyEntry
  <1>2. CacheTyped /\ SpacedInv /\ [CacheNext]_cacheVars => (CacheTyped /\ SpacedInv)'
    BY CacheTypedKept, SpacedKept
  <1>3. CacheTyped /\ SpacedInv /\ [CacheNext]_cacheVars => [Spaced]_cacheVars
    BY SpacedKept
  <1> QED
    BY <1>1, <1>2, <1>3, PTL DEF CacheSpec, RefreshesSpaced

-----------------------------------------------------------------------------
(* What the cache calls fresh. *)

\* A read of Redis is under way.
ReadUnderWay == (\E i \in DOMAIN pipe : pipe[i].op = "get") \/ replies # <<>>

\* An entry nobody has asked for holds nothing and waits for nothing.
UnusedInv == ~entry.hydrated => ~Cached /\ pending = NoRefresh /\ ~ReadUnderWay

\* A copy that may be called fresh later on, and what it holds.
Covers(c, v) == c.version = NoVersion \/ c.version >= v \/ c.age >= TTL

\* The refresh that was answered saw what had been announced.
LoadedCovers == pending \in Version /\ (~behind \/ ~overtaken) => pending >= due

\* Whatever a read may still bring into the entry is covered.
ReadsCover ==
    ~behind /\ (~Cached \/ ReadUnderWay) =>
        /\ Covers(stored, due)
        /\ \A i \in DOMAIN pipe : pipe[i].op = "set" => Covers(pipe[i].copy, due)
        /\ \A i \in DOMAIN replies : Covers(replies[i].copy, due)

FreshInv == CacheTyped /\ UnusedInv /\ FreshCovers /\ LoadedCovers /\ ReadsCover

LEMMA WhoReads == CacheTyped => (SomeoneReads <=> ReadUnderWay)
  <1> SUFFICES ASSUME CacheTyped PROVE SomeoneReads <=> ReadUnderWay
    OBVIOUS
  <1>1. pipe \in Seq(Command) /\ replies \in Seq(Reply)
    BY DEF CacheTyped
  <1>2. ASSUME SomeoneReads PROVE ReadUnderWay
    <2>1. PICK r \in Request : Get(r) \in Range(pipe) \/ \E i \in DOMAIN replies : replies[i].by = r
      BY <1>2 DEF SomeoneReads, Reading
    <2>2. CASE Get(r) \in Range(pipe)
      <3>1. PICK i \in DOMAIN pipe : pipe[i] = Get(r)
        BY <2>2 DEF Range
      <3> QED
        BY <3>1 DEF ReadUnderWay, Get
    <2>3. CASE \E i \in DOMAIN replies : replies[i].by = r
      BY <1>1, <2>3 DEF ReadUnderWay
    <2> QED
      BY <2>1, <2>2, <2>3
  <1>3. ASSUME ReadUnderWay PROVE SomeoneReads
    <2>1. CASE \E i \in DOMAIN pipe : pipe[i].op = "get"
      <3>1. PICK i \in DOMAIN pipe : pipe[i].op = "get"
        BY <2>1
      <3>2. pipe[i] \in Command
        BY <1>1, <3>1
      <3>3. pipe[i] \in [op : {"get"}, by : Request]
        BY <3>1, <3>2 DEF Command
      <3>4. pipe[i].by \in Request /\ pipe[i] = Get(pipe[i].by)
        BY <3>3 DEF Get
      <3> QED
        BY <3>1, <3>4 DEF SomeoneReads, Reading, Range
    <2>2. CASE replies # <<>>
      <3>1. 1 \in DOMAIN replies /\ replies[1] \in Reply
        BY <1>1, <2>2
      <3> QED
        BY <3>1 DEF SomeoneReads, Reading, Reply
    <2> QED
      BY <1>3, <2>1, <2>2 DEF ReadUnderWay
  <1> QED
    BY <1>2, <1>3

\* Steps that move neither the copies nor what they must hold.
LEMMA QuietStep ==
    ASSUME FreshInv, CacheTyped',
           UNCHANGED <<stored, pipe, replies, due, behind>>,
           entry'.snapshot = entry.snapshot, entry'.age = entry.age,
           entry'.hydrated = entry.hydrated,
           \/ UNCHANGED <<pending, overtaken>>
           \/ pending' = NoRefresh
           \/ pending' = Asking /\ entry.hydrated
    PROVE  FreshInv'
  <1>1. ReadUnderWay' = ReadUnderWay /\ Cached' = Cached
    BY DEF ReadUnderWay, Cached
  <1>2. UnusedInv'
    BY <1>1 DEF FreshInv, UnusedInv
  <1>3. FreshCovers'
    BY <1>1 DEF FreshInv, FreshCovers
  <1>4. LoadedCovers'
    BY DEF FreshInv, LoadedCovers, Version, NoRefresh, Asking
  <1>5. ReadsCover'
    BY <1>1 DEF FreshInv, ReadsCover, Covers
  <1> QED
    BY <1>2, <1>3, <1>4, <1>5 DEF FreshInv

LEMMA BeginKeepsFresh ==
    ASSUME FreshInv, CacheTyped', NEW r \in Request, NEW k \in Kinds, Begin(r, k)
    PROVE  FreshInv'
  <1>1. CacheTyped
    BY DEF FreshInv
  <1>2. k \in Calls /\ UNCHANGED <<world, orphaned, stored, replies, due, behind, faults>>
    BY <1>1, BeginDoes, RestOfBegin
  <1>3. CASE /\ Hydrates /\ pipe' = Append(pipe, Get(r))
             /\ entry' = [entry EXCEPT !.hydrated = TRUE]
             /\ UNCHANGED <<pending, overtaken, since>>
    <2>1. ~Cached
      BY <1>3 DEF Hydrates, FreshInv, UnusedInv
    <2>2. entry'.hydrated /\ entry'.snapshot = entry.snapshot /\ entry'.age = entry.age
      BY <1>1, <1>3 DEF CacheTyped, Entry
    <2>3. UnusedInv' /\ FreshCovers'
      BY <2>1, <2>2 DEF UnusedInv, FreshCovers, Cached
    <2>4. LoadedCovers'
      BY <1>2, <1>3 DEF FreshInv, LoadedCovers
    <2>5. \A i \in DOMAIN pipe' : pipe'[i].op = "set" => i \in DOMAIN pipe /\ pipe'[i] = pipe[i]
      <3>1. pipe \in Seq(Command)
        BY <1>1 DEF CacheTyped
      <3> QED
        BY <1>3, <3>1 DEF Get
    <2>6. ReadsCover'
      BY <1>2, <2>1, <2>5 DEF FreshInv, ReadsCover, Covers
    <2> QED
      BY <2>3, <2>4, <2>6 DEF FreshInv
  <1>4. CASE UNCHANGED <<pipe, entry, pending, overtaken, since>>
    BY <1>2, <1>4, QuietStep
  <1>5. CASE ~Hydrates /\ UNCHANGED pipe /\ Decide(r, k, entry)
    <2>1. entry.hydrated
      BY <1>5 DEF Hydrates, FreshInv, UnusedInv
    <2>2. entry \in Entry
      BY <1>1 DEF CacheTyped
    <2>3. /\ entry'.snapshot = entry.snapshot /\ entry'.age = entry.age
          /\ entry'.hydrated = entry.hydrated
          /\ UNCHANGED <<pending, overtaken>> \/ pending' = Asking
      BY <1>1, <1>2, <1>5, <2>2, DecideDoes
    <2> QED
      BY <1>2, <1>5, <2>1, <2>3, QuietStep
  <1> QED
    BY <1>1, <1>3, <1>4, <1>5, BeginDoes

LEMMA AdoptKeepsFresh == ASSUME FreshInv, CacheTyped', Adopt PROVE FreshInv'
  <1> DEFINE r == Head(replies).by
             c == Head(replies).copy
  <1>1. CacheTyped
    BY DEF FreshInv
  <1>2. /\ replies # <<>> /\ r \in Request /\ c \in Copy /\ replies' = Tail(replies)
        /\ \/ entry' = Adopted(c) /\ UNCHANGED <<pending, overtaken, since>>
           \/ Decide(r, kind[r], Adopted(c)) /\ kind[r] \in Calls
        /\ UNCHANGED <<stored, pipe, due, behind>>
    BY <1>1, AdoptDoes
  <1>3. c = replies[1].copy /\ 1 \in DOMAIN replies /\ replies \in Seq(Reply)
    BY <1>1, <1>2 DEF CacheTyped
  <1> HIDE DEF r, c
  <1>4. ReadUnderWay /\ entry.hydrated
    BY <1>2 DEF ReadUnderWay, FreshInv, UnusedInv
  <1>5. /\ entry'.hydrated
        /\ entry'.snapshot = IF c.version = NoVersion THEN entry.snapshot ELSE c.version
        /\ entry'.age = IF c.version = NoVersion THEN entry.age ELSE c.age
        /\ UNCHANGED <<pending, overtaken>> \/ pending' = Asking
    <2>1. /\ Adopted(c) \in Entry /\ Adopted(c).hydrated
          /\ Adopted(c).snapshot = IF c.version = NoVersion THEN entry.snapshot ELSE c.version
          /\ Adopted(c).age = IF c.version = NoVersion THEN entry.age ELSE c.age
      BY <1>1, <1>2, <1>4, AdoptedEntry
    <2>2. CASE entry' = Adopted(c) /\ UNCHANGED <<pending, overtaken, since>>
      BY <2>1, <2>2
    <2>3. CASE Decide(r, kind[r], Adopted(c)) /\ kind[r] \in Calls
      BY <1>1, <1>2, <2>1, <2>3, DecideDoes
    <2> QED
      BY <1>2, <2>2, <2>3
  <1>6. UnusedInv'
    BY <1>5 DEF UnusedInv
  <1>7. ~behind => Covers(c, due)
    BY <1>3, <1>4 DEF FreshInv, ReadsCover
  <1>8. FreshCovers'
    <2>1. CASE c.version = NoVersion
      BY <1>2, <1>5, <2>1 DEF FreshInv, FreshCovers, Cached
    <2>2. CASE c.version # NoVersion
      <3>1. c.age \in Nat /\ TTL \in Nat
        BY <1>2, SnapshotAssumption DEF Copy, Ages
      <3> QED
        BY <1>2, <1>5, <1>7, <2>2, <3>1 DEF FreshCovers, Covers
    <2> QED
      BY <2>1, <2>2
  <1>9. LoadedCovers'
    BY <1>2, <1>5 DEF FreshInv, LoadedCovers, Version, Asking
  <1>10. ReadsCover'
    <2>1. \A i \in DOMAIN replies' : i + 1 \in DOMAIN replies /\ replies'[i] = replies[i + 1]
      BY <1>2, <1>3
    <2> QED
      BY <1>2, <1>4, <2>1 DEF FreshInv, ReadsCover
  <1> QED
    BY <1>6, <1>8, <1>9, <1>10 DEF FreshInv

LEMMA CompleteKeepsFresh == ASSUME FreshInv, CacheTyped', CompleteRefresh PROVE FreshInv'
  <1>1. CacheTyped /\ pending \in Version
    BY DEF FreshInv, CompleteRefresh
  <1>2. PICK a \in Ages : pipe' = Append(pipe, Put([version |-> pending, age |-> a]))
    BY SnapshotAssumption DEF CompleteRefresh, Ages
  <1>3. /\ entry'.snapshot = pending /\ entry'.hydrated = entry.hydrated
        /\ pending' = NoRefresh /\ behind' = (behind /\ (overtaken \/ ReadUnderWay))
        /\ UNCHANGED <<stored, replies, due, overtaken>>
    BY <1>1, WhoReads DEF CompleteRefresh, Refreshed, CacheTyped, Entry
  <1>4. Cached' /\ pending \in Nat /\ due \in Nat
    BY <1>1, <1>3, SnapshotAssumption DEF Cached, Version, NoVersion, CacheTyped
  <1>5. ReadUnderWay' => ReadUnderWay
    <2>1. pipe \in Seq(Command)
      BY <1>1 DEF CacheTyped
    <2>2. \A i \in DOMAIN pipe' : pipe'[i].op = "get" => i \in DOMAIN pipe /\ pipe'[i] = pipe[i]
      BY <1>2, <2>1 DEF Put
    <2> QED
      BY <1>3, <2>2 DEF ReadUnderWay
  <1>6. ~behind' => pending >= due
    BY <1>1, <1>3 DEF FreshInv, LoadedCovers, ReadsCover, CacheTyped
  <1>6a. ~behind' /\ ReadUnderWay => ~behind
    BY <1>3
  <1>7. UnusedInv'
    BY <1>1, <1>3 DEF FreshInv, UnusedInv, Version, NoRefresh
  <1>8. FreshCovers'
    BY <1>3, <1>6 DEF FreshCovers
  <1>9. LoadedCovers'
    BY <1>3 DEF LoadedCovers, Version, NoRefresh
  <1>10. ReadsCover'
    <2>1. SUFFICES ASSUME ~behind', ReadUnderWay'
                   PROVE  /\ Covers(stored', due')
                          /\ \A i \in DOMAIN pipe' : pipe'[i].op = "set" => Covers(pipe'[i].copy, due')
                          /\ \A i \in DOMAIN replies' : Covers(replies'[i].copy, due')
      BY <1>4 DEF ReadsCover
    <2>2. due' = due
      BY <1>3
    <2>3. Covers([version |-> pending, age |-> a], due)
      BY <1>6, <2>1 DEF Covers
    <2>4. \A i \in DOMAIN pipe' : \/ i \in DOMAIN pipe /\ pipe'[i] = pipe[i]
                                  \/ pipe'[i].copy = [version |-> pending, age |-> a]
      <3>1. pipe \in Seq(Command)
        BY <1>1 DEF CacheTyped
      <3> QED
        BY <1>2, <3>1 DEF Put
    <2> QED
      BY <1>3, <1>5, <1>6a, <2>1, <2>2, <2>3, <2>4 DEF FreshInv, ReadsCover
  <1> QED
    BY <1>7, <1>8, <1>9, <1>10 DEF FreshInv

LEMMA TickKeepsFresh == ASSUME FreshInv, CacheTyped', Tick PROVE FreshInv'
  <1>1. CacheTyped
    BY DEF FreshInv
  <1>2. /\ pipe \in Seq(Command) /\ replies \in Seq(Reply) /\ stored \in Copy
        /\ entry.age \in Ages
    BY <1>1 DEF CacheTyped, Entry
  <1>3. /\ entry'.snapshot = entry.snapshot /\ entry'.hydrated = entry.hydrated
        /\ entry'.age = Older(entry.age)
        /\ UNCHANGED <<pending, due, behind, overtaken>>
    BY <1>1 DEF Tick, CacheTyped, Entry
  <1>4. stored'.version = stored.version /\ stored'.age = Older(stored.age)
    BY <1>2 DEF Tick, Copy
  <1>5. /\ DOMAIN pipe' = DOMAIN pipe
        /\ \A i \in DOMAIN pipe :
              /\ pipe'[i].op = pipe[i].op
              /\ pipe[i].op = "set" => /\ pipe'[i].copy.version = pipe[i].copy.version
                                       /\ pipe'[i].copy.age = Older(pipe[i].copy.age)
                                       /\ pipe[i].copy \in Copy
    <2>1. \A i \in DOMAIN pipe : pipe[i] \in Command
      BY <1>2
    <2> QED
      BY <2>1 DEF Tick, Command, Copy
  <1>6. /\ DOMAIN replies' = DOMAIN replies
        /\ \A i \in DOMAIN replies : /\ replies'[i].copy.version = replies[i].copy.version
                                     /\ replies'[i].copy.age = Older(replies[i].copy.age)
                                     /\ replies[i].copy \in Copy
    <2>1. \A i \in DOMAIN replies : replies[i] \in Reply
      BY <1>2
    <2> QED
      BY <2>1 DEF Tick, Reply, Copy
  <1>7. ReadUnderWay' = ReadUnderWay
    <2>1. replies' = <<>> <=> replies = <<>>
      BY <1>1, <1>6 DEF CacheTyped
    <2> QED
      BY <1>5, <2>1 DEF ReadUnderWay
  <1>8. ASSUME NEW c \in Copy, NEW d, d.version = c.version, d.age = Older(c.age), Covers(c, due)
        PROVE  Covers(d, due')
    <2>1. c.age \in Ages /\ Ages \subseteq Int /\ TTL \in Int
      BY SnapshotAssumption DEF Copy, Ages
    <2> QED
      BY <1>3, <1>8, <2>1, OlderAge DEF Covers, Ages
  <1>9. UnusedInv'
    BY <1>3, <1>7 DEF FreshInv, UnusedInv, Cached
  <1>10. FreshCovers'
    <2>1. entry'.age < TTL => entry.age < TTL
      BY <1>2, <1>3, OlderAge, SnapshotAssumption DEF Ages
    <2> QED
      BY <1>3, <2>1 DEF FreshInv, FreshCovers, Cached
  <1>11. LoadedCovers'
    BY <1>3 DEF FreshInv, LoadedCovers
  <1>12. ReadsCover'
    <2>1. SUFFICES ASSUME ~behind', ~Cached' \/ ReadUnderWay'
                   PROVE  /\ Covers(stored', due')
                          /\ \A i \in DOMAIN pipe' : pipe'[i].op = "set" => Covers(pipe'[i].copy, due')
                          /\ \A i \in DOMAIN replies' : Covers(replies'[i].copy, due')
      BY DEF ReadsCover
    <2>2. /\ Covers(stored, due)
          /\ \A i \in DOMAIN pipe : pipe[i].op = "set" => Covers(pipe[i].copy, due)
          /\ \A i \in DOMAIN replies : Covers(replies[i].copy, due)
      BY <1>3, <1>7, <2>1 DEF FreshInv, ReadsCover, Cached
    <2>3. Covers(stored', due')
      BY <1>2, <1>4, <1>8, <2>2
    <2>4. \A i \in DOMAIN pipe' : pipe'[i].op = "set" => Covers(pipe'[i].copy, due')
      BY <1>5, <1>8, <2>2
    <2>5. \A i \in DOMAIN replies' : Covers(replies'[i].copy, due')
      BY <1>6, <1>8, <2>2
    <2> QED
      BY <2>3, <2>4, <2>5
  <1> QED
    BY <1>9, <1>10, <1>11, <1>12 DEF FreshInv

LEMMA ServeKeepsFresh == ASSUME FreshInv, CacheTyped', RedisServes PROVE FreshInv'
  <1>1. CacheTyped
    BY DEF FreshInv
  <1>2. pipe \in Seq(Command) /\ replies \in Seq(Reply) /\ pipe # <<>> /\ pipe' = Tail(pipe)
    BY <1>1 DEF CacheTyped, RedisServes
  <1>3. UNCHANGED <<entry, pending, due, behind, overtaken>>
    BY DEF RedisServes, history
  <1>4. /\ Head(pipe) = pipe[1] /\ 1 \in DOMAIN pipe
        /\ \A i \in DOMAIN pipe' : i + 1 \in DOMAIN pipe /\ pipe'[i] = pipe[i + 1]
    BY <1>2
  <1>5. pipe[1] \in Command
    BY <1>2, <1>4
  <1>6. \/ pipe[1].op = "set" /\ stored' = pipe[1].copy /\ UNCHANGED replies
        \/ /\ pipe[1].op = "get" /\ UNCHANGED stored
           /\ replies' = Append(replies, [by |-> pipe[1].by, copy |-> stored])
    BY <1>4, <1>5 DEF RedisServes, Command
  <1>7. ReadUnderWay' => ReadUnderWay
    BY <1>4, <1>6 DEF ReadUnderWay
  <1>8. UnusedInv' /\ FreshCovers' /\ LoadedCovers'
    BY <1>3, <1>7 DEF FreshInv, UnusedInv, FreshCovers, LoadedCovers, Cached
  <1>9. ReadsCover'
    <2>1. SUFFICES ASSUME ~behind', ~Cached' \/ ReadUnderWay'
                   PROVE  /\ Covers(stored', due')
                          /\ \A i \in DOMAIN pipe' : pipe'[i].op = "set" => Covers(pipe'[i].copy, due')
                          /\ \A i \in DOMAIN replies' : Covers(replies'[i].copy, due')
      BY DEF ReadsCover
    <2>2. /\ Covers(stored, due)
          /\ \A i \in DOMAIN pipe : pipe[i].op = "set" => Covers(pipe[i].copy, due)
          /\ \A i \in DOMAIN replies : Covers(replies[i].copy, due)
      BY <1>3, <1>7, <2>1 DEF FreshInv, ReadsCover, Cached
    <2>3. due' = due
      BY <1>3
    <2>4. Covers(stored', due') /\ \A i \in DOMAIN pipe' : pipe'[i].op = "set" => Covers(pipe'[i].copy, due')
      BY <1>4, <1>6, <2>2, <2>3
    <2>5. \A i \in DOMAIN replies' : \/ i \in DOMAIN replies /\ replies'[i] = replies[i]
                                     \/ replies'[i].copy = stored
      <3>1. CASE UNCHANGED replies
        BY <3>1
      <3> DEFINE answered == [by |-> pipe[1].by, copy |-> stored]
      <3>2. answered.copy = stored
        OBVIOUS
      <3> HIDE DEF answered
      <3>3. CASE replies' = Append(replies, answered)
        BY <1>2, <3>2, <3>3
      <3> QED
        BY <1>6, <3>1, <3>3 DEF answered
    <2> QED
      BY <2>2, <2>3, <2>4, <2>5
  <1> QED
    BY <1>8, <1>9 DEF FreshInv

LEMMA FailKeepsFresh == ASSUME FreshInv, CacheTyped', RedisFails PROVE FreshInv'
  <1> DEFINE gets == Filtered(pipe, [op : {"get"}, by : Request])
             answers == [i \in DOMAIN gets |-> [by |-> gets[i].by, copy |-> NoCopy]]
  <1>1. CacheTyped
    BY DEF FreshInv
  <1>2. pipe \in Seq(Command) /\ replies \in Seq(Reply) /\ pipe # <<>>
    BY <1>1 DEF CacheTyped, RedisFails
  <1>3. UNCHANGED <<entry, stored, pending, due, behind, overtaken>>
    BY DEF RedisFails, history
  <1>4. pipe' = <<>> /\ replies' = replies \o answers
    BY DEF RedisFails
  <1>5. gets \in Seq(Command \cap [op : {"get"}, by : Request])
    BY <1>2, FilteredEntries
  <1>6. gets \in Seq(Range(pipe) \cap [op : {"get"}, by : Request])
    <2>1. pipe \in Seq(Range(pipe))
      BY <1>2 DEF Range
    <2> QED
      BY <2>1, FilteredEntries
  <1> HIDE DEF gets
  <1>7. DOMAIN answers = 1 .. Len(gets) /\ Len(gets) \in Nat
        /\ \A i \in DOMAIN answers : answers[i].copy = NoCopy
    BY <1>5
  <1>8. answers # <<>> => \E i \in DOMAIN pipe : pipe[i].op = "get"
    <2>1. SUFFICES ASSUME answers # <<>> PROVE \E i \in DOMAIN pipe : pipe[i].op = "get"
      OBVIOUS
    <2>2. 1 \in 1 .. Len(gets)
      BY <1>7, <2>1
    <2>3. gets[1] \in Range(pipe) /\ gets[1].op = "get"
      BY <1>6, <2>2
    <2> QED
      BY <2>3 DEF Range
  <1>9. answers \in Seq([by : {answers[i].by : i \in DOMAIN answers}, copy : {NoCopy}])
    BY <1>7
  <1> HIDE DEF answers
  <1>10. \A i \in DOMAIN replies' : \/ i \in DOMAIN replies /\ replies'[i] = replies[i]
                                    \/ replies'[i].copy = NoCopy
    BY <1>2, <1>4, <1>7, <1>9
  <1>11. ReadUnderWay' => ReadUnderWay
    BY <1>2, <1>4, <1>8, <1>9 DEF ReadUnderWay
  <1>12. UnusedInv' /\ FreshCovers' /\ LoadedCovers'
    BY <1>3, <1>11 DEF FreshInv, UnusedInv, FreshCovers, LoadedCovers, Cached
  <1>13. ReadsCover'
    BY <1>3, <1>4, <1>10, <1>11 DEF FreshInv, ReadsCover, Covers, NoCopy, Cached
  <1> QED
    BY <1>12, <1>13 DEF FreshInv

LEMMA FreshKept == ASSUME FreshInv, [CacheNext]_cacheVars PROVE FreshInv'
  <1>0. CacheTyped /\ CacheTyped'
    BY CacheTypedKept DEF FreshInv
  <1>1. CASE \E r \in Request, k \in Kinds : Begin(r, k)
    BY <1>0, <1>1, BeginKeepsFresh
  <1>2. CASE Adopt
    BY <1>0, <1>2, AdoptKeepsFresh
  <1>3. CASE Load
    <2>1. /\ pending = Asking /\ pending' = world
          /\ UNCHANGED <<entry, stored, pipe, replies, due, behind, overtaken>>
      BY <1>3 DEF Load, redisVars, history
    <2>2. due <= world
      BY <1>0 DEF CacheTyped
    <2>3. ReadUnderWay' = ReadUnderWay /\ Cached' = Cached
      BY <2>1 DEF ReadUnderWay, Cached
    <2>4. UnusedInv'
      BY <2>1, <2>3 DEF FreshInv, UnusedInv, NoRefresh, Asking
    <2>5. FreshCovers' /\ LoadedCovers'
      BY <2>1, <2>2, <2>3 DEF FreshInv, FreshCovers, LoadedCovers
    <2>6. ReadsCover'
      BY <2>1, <2>3 DEF FreshInv, ReadsCover, Covers
    <2> QED
      BY <1>0, <2>4, <2>5, <2>6 DEF FreshInv
  <1>4. CASE CompleteRefresh
    BY <1>0, <1>4, CompleteKeepsFresh
  <1>5. CASE RefreshFails \/ \E r \in Request : GiveUp(r)
    <2>1. /\ UNCHANGED <<stored, pipe, replies, due, behind, entry, overtaken>>
          /\ UNCHANGED pending \/ pending' = NoRefresh
      BY <1>5 DEF RefreshFails, GiveUp, redisVars, history
    <2> QED
      BY <1>0, <2>1, QuietStep
  <1>6. CASE Advance \/ Reorg \/ UNCHANGED cacheVars
    <2>1. UNCHANGED <<stored, pipe, replies, due, behind, entry, overtaken, pending>>
      BY <1>6 DEF Advance, Reorg, redisVars, history, cacheVars
    <2> QED
      BY <1>0, <2>1, QuietStep
  <1>7. CASE CheckAnswered
    <2>1. /\ UNCHANGED <<stored, pipe, replies, due, pending, overtaken>>
          /\ behind' = (behind \/ ~Canonical(entry.snapshot))
      BY <1>7 DEF CheckAnswered, redisVars
    <2>2. CASE Canonical(entry.snapshot)
      <3>1. entry' = [entry EXCEPT !.checking = FALSE]
        BY <1>7, <2>2 DEF CheckAnswered
      <3>2. /\ entry'.snapshot = entry.snapshot /\ entry'.age = entry.age
            /\ entry'.hydrated = entry.hydrated
        BY <1>0, <3>1 DEF CacheTyped, Entry
      <3>3. behind' = behind
        BY <1>0, <2>1, <2>2 DEF CacheTyped
      <3> QED
        BY <1>0, <2>1, <3>2, <3>3, QuietStep
    <2>3. CASE ~Canonical(entry.snapshot)
      <3>1. entry' = [entry EXCEPT !.checking = FALSE, !.snapshot = NoVersion, !.age = TTL]
        BY <1>7, <2>3 DEF CheckAnswered
      <3>2. entry'.snapshot = NoVersion /\ entry'.hydrated = entry.hydrated
        BY <1>0, <3>1 DEF CacheTyped, Entry
      <3>3. behind'
        BY <2>1, <2>3
      <3>4. UnusedInv'
        BY <2>1, <3>2 DEF FreshInv, UnusedInv, Cached, ReadUnderWay
      <3>5. FreshCovers' /\ LoadedCovers' /\ ReadsCover'
        BY <2>1, <3>2, <3>3 DEF FreshInv, FreshCovers, LoadedCovers, ReadsCover, Cached
      <3> QED
        BY <1>0, <3>4, <3>5 DEF FreshInv
    <2> QED
      BY <2>2, <2>3
  <1>8. CASE Invalidate
    <2>1. /\ UNCHANGED <<stored, pipe, replies, pending>> /\ overtaken'
          /\ behind' = (pending # NoRefresh \/ ~Cached \/ ReadUnderWay)
          /\ entry' = Invalidated(entry)
      BY <1>0, <1>8, WhoReads DEF Invalidate, redisVars
    <2>2. entry'.snapshot = entry.snapshot /\ entry'.age = TTL /\ entry'.hydrated = entry.hydrated
      BY <1>0, <2>1 DEF CacheTyped, Entry, Invalidated
    <2>3. ReadUnderWay' = ReadUnderWay /\ Cached' = Cached
      BY <2>1, <2>2 DEF ReadUnderWay, Cached
    <2>4. UnusedInv'
      BY <2>1, <2>2, <2>3 DEF FreshInv, UnusedInv
    <2>5. FreshCovers'
      BY <2>2, SnapshotAssumption DEF FreshCovers
    <2>6. LoadedCovers'
      <3>1. ~behind' \/ ~overtaken' => pending' = NoRefresh
        BY <2>1
      <3>2. NoRefresh \notin Version
        BY SnapshotAssumption DEF Version, NoRefresh
      <3> QED
        BY <3>1, <3>2 DEF LoadedCovers
    <2>7. ReadsCover'
      BY <2>1, <2>3 DEF ReadsCover
    <2> QED
      BY <1>0, <2>4, <2>5, <2>6, <2>7 DEF FreshInv
  <1>9. CASE Tick
    BY <1>0, <1>9, TickKeepsFresh
  <1>10. CASE RedisServes
    BY <1>0, <1>10, ServeKeepsFresh
  <1>11. CASE RedisFails
    BY <1>0, <1>11, FailKeepsFresh
  <1>12. CASE CacheRestarts
    <2>1. /\ entry' = EmptyEntry /\ pending' = NoRefresh /\ pipe' = <<>> /\ replies' = <<>>
          /\ behind'
      BY <1>12 DEF CacheRestarts
    <2>2. ~ReadUnderWay' /\ ~Cached' /\ ~entry'.hydrated
      BY <2>1 DEF ReadUnderWay, Cached, EmptyEntry
    <2>3. UnusedInv' /\ FreshCovers' /\ ReadsCover'
      BY <2>1, <2>2 DEF UnusedInv, FreshCovers, ReadsCover
    <2>4. LoadedCovers'
      BY <2>1, SnapshotAssumption DEF LoadedCovers, Version, NoRefresh
    <2> QED
      BY <1>0, <2>3, <2>4 DEF FreshInv
  <1> QED
    BY <1>1, <1>2, <1>3, <1>4, <1>5, <1>6, <1>7, <1>8, <1>9, <1>10, <1>11, <1>12 DEF CacheNext

\* What any of the caches calls fresh holds every change a live event announced
\* while nothing was under way that could overlook it: neither a copy from Redis
\* nor a refresh of before brings the old state back (invalidate*Snapshot).
THEOREM FreshIsCovered == CacheSpec => []FreshCovers
  <1>1. CacheInit => FreshInv
    <2> SUFFICES ASSUME CacheInit PROVE FreshInv
      OBVIOUS
    <2>1. CacheTyped
      BY CacheTypedFirst
    <2>2. /\ due = 1 /\ pipe = <<>> /\ replies = <<>> /\ pending = NoRefresh
          /\ entry = EmptyEntry
      BY DEF CacheInit
    <2>3. ~Cached /\ ~ReadUnderWay
      BY <2>2 DEF Cached, EmptyEntry, ReadUnderWay
    <2>4. UnusedInv /\ FreshCovers
      BY <2>2, <2>3 DEF UnusedInv, FreshCovers
    <2>5. LoadedCovers
      BY <2>2, SnapshotAssumption DEF LoadedCovers, Version, NoRefresh
    <2>6. Covers(stored, due)
      BY <2>1, <2>2 DEF Covers, CacheTyped, Copy, Version
    <2> QED
      BY <2>1, <2>2, <2>4, <2>5, <2>6 DEF FreshInv, ReadsCover
  <1>2. FreshInv /\ [CacheNext]_cacheVars => FreshInv'
    BY FreshKept
  <1>3. FreshInv => FreshCovers
    BY DEF FreshInv
  <1> QED
    BY <1>1, <1>2, <1>3, PTL DEF CacheSpec

-----------------------------------------------------------------------------
(* The reads of Redis under way. *)

\* A read under way is its request's only one, and the request waits for it.
FlightInv ==
    /\ \A i \in DOMAIN pipe : pipe[i].op = "get" => pc[pipe[i].by] = "reading"
    /\ \A i \in DOMAIN replies : pc[replies[i].by] = "reading"
    /\ \A i, j \in DOMAIN pipe : pipe[i].op = "get" /\ pipe[i] = pipe[j] => i = j
    /\ \A i, j \in DOMAIN replies : replies[i].by = replies[j].by => i = j
    /\ \A i \in DOMAIN pipe, j \in DOMAIN replies :
          pipe[i].op = "get" => pipe[i].by # replies[j].by

\* Whoever reads goes on reading, and no read is added.
LEMMA FlightsStay ==
    ASSUME CacheTyped, FlightInv, UNCHANGED replies,
           \A r \in Request : pc[r] = "reading" => pc'[r] = "reading",
           \A i \in DOMAIN pipe' : pipe'[i].op = "get" => i \in DOMAIN pipe /\ pipe[i] = pipe'[i]
    PROVE  FlightInv'
  <1>1. \A i \in DOMAIN pipe : pipe[i].op = "get" => pipe[i].by \in Request
    <2>1. \A i \in DOMAIN pipe : pipe[i] \in Command
      BY DEF CacheTyped
    <2> QED
      BY <2>1 DEF Command
  <1>2. \A i \in DOMAIN replies : replies[i].by \in Request
    <2>1. \A i \in DOMAIN replies : replies[i] \in Reply
      BY DEF CacheTyped
    <2> QED
      BY <2>1 DEF Reply
  <1>3. \A i \in DOMAIN pipe' : pipe'[i].op = "get" => pc'[pipe'[i].by] = "reading"
    BY <1>1 DEF FlightInv
  <1>4. \A i \in DOMAIN replies' : pc'[replies'[i].by] = "reading"
    BY <1>2 DEF FlightInv
  <1>5. \A i, j \in DOMAIN pipe' : pipe'[i].op = "get" /\ pipe'[i] = pipe'[j] => i = j
    BY DEF FlightInv
  <1>6. \A i \in DOMAIN pipe', j \in DOMAIN replies' :
          pipe'[i].op = "get" => pipe'[i].by # replies'[j].by
    BY DEF FlightInv
  <1>7. \A i, j \in DOMAIN replies' : replies'[i].by = replies'[j].by => i = j
    BY DEF FlightInv
  <1> QED
    BY <1>3, <1>4, <1>5, <1>6, <1>7 DEF FlightInv

LEMMA BeginKeepsFlights ==
    ASSUME CacheTyped, FlightInv, NEW r \in Request, NEW k \in Kinds, Begin(r, k)
    PROVE  FlightInv'
  <1>1. pc[r] = "idle" /\ k \in Calls /\ replies' = replies /\ pipe \in Seq(Command)
    BY BeginDoes, RestOfBegin DEF CacheTyped
  <1>2. CASE pipe' = Append(pipe, Get(r)) /\ pc' = [pc EXCEPT ![r] = "reading"]
    <2>1. \A i \in DOMAIN pipe' : \/ i \in DOMAIN pipe /\ pipe'[i] = pipe[i]
                                  \/ i = Len(pipe) + 1 /\ pipe'[i] = Get(r)
      BY <1>1, <1>2
    <2>2. /\ \A i \in DOMAIN pipe : pipe[i].op = "get" => pipe[i].by # r
          /\ \A i \in DOMAIN replies : replies[i].by # r
      BY <1>1 DEF FlightInv
    <2>3. Get(r).by = r /\ Get(r).op = "get"
      BY DEF Get
    <2>4. \A i \in DOMAIN pipe : pipe[i] # Get(r)
      BY <2>2, <2>3
    <2>5. \A q : pc[q] = "reading" /\ q # r => pc'[q] = pc[q]
      BY <1>2 DEF CacheTyped
    <2>6. pc'[r] = "reading"
      BY <1>2 DEF CacheTyped
    <2>7. \A i \in DOMAIN pipe' : pipe'[i].op = "get" => pc'[pipe'[i].by] = "reading"
      BY <2>1, <2>2, <2>3, <2>5, <2>6 DEF FlightInv
    <2>8. \A i \in DOMAIN replies' : pc'[replies'[i].by] = "reading"
      BY <1>1, <2>2, <2>5 DEF FlightInv
    <2>9. \A i, j \in DOMAIN pipe' : pipe'[i].op = "get" /\ pipe'[i] = pipe'[j] => i = j
      BY <2>1, <2>4 DEF FlightInv
    <2>10. \A i \in DOMAIN pipe', j \in DOMAIN replies' :
             pipe'[i].op = "get" => pipe'[i].by # replies'[j].by
      BY <1>1, <2>1, <2>2, <2>3 DEF FlightInv
    <2>11. \A i, j \in DOMAIN replies' : replies'[i].by = replies'[j].by => i = j
      BY <1>1 DEF FlightInv
    <2> QED
      BY <2>7, <2>8, <2>9, <2>10, <2>11 DEF FlightInv
  <1>3. CASE UNCHANGED pipe /\ \A q \in Request \ {r} : pc'[q] = pc[q]
    <2>1. \A q \in Request : pc[q] = "reading" => pc'[q] = "reading"
      BY <1>1, <1>3
    <2> QED
      BY <1>1, <1>3, <2>1, FlightsStay
  <1>4. CASE UNCHANGED pipe /\ Decide(r, k, entry)
    <2>1. entry \in Entry
      BY DEF CacheTyped
    <2>2. \A q \in Request \ {r} : pc'[q] = pc[q]
      BY <1>1, <1>4, <2>1, DecideDoes
    <2> QED
      BY <1>3, <1>4, <2>2
  <1>5. CASE UNCHANGED pipe /\ pc' = [pc EXCEPT ![r] = "idle"]
    BY <1>3, <1>5 DEF CacheTyped
  <1> QED
    BY <1>2, <1>4, <1>5, BeginDoes

LEMMA AdoptKeepsFlights == ASSUME CacheTyped, FlightInv, Adopt PROVE FlightInv'
  <1> DEFINE r == Head(replies).by
             c == Head(replies).copy
  <1>1. /\ replies # <<>> /\ r \in Request /\ c \in Copy /\ replies' = Tail(replies)
        /\ \/ pc' = [pc EXCEPT ![r] = "idle"]
           \/ Decide(r, kind[r], Adopted(c)) /\ kind[r] \in Calls
        /\ UNCHANGED pipe
    BY AdoptDoes
  <1>2. replies \in Seq(Reply) /\ r = replies[1].by
    BY <1>1 DEF CacheTyped
  <1> HIDE DEF r, c
  <1>3. \A i \in DOMAIN replies' : /\ i \in Nat /\ i + 1 \in DOMAIN replies
                                   /\ replies'[i] = replies[i + 1] /\ i + 1 # 1
    BY <1>1, <1>2
  <1>4. 1 \in DOMAIN replies
    BY <1>1, <1>2
  <1>5. \A q \in Request \ {r} : pc'[q] = pc[q]
    <2>1. Adopted(c) \in Entry
      BY <1>1, AdoptedEntry
    <2> QED
      BY <1>1, <2>1, DecideDoes DEF CacheTyped
  <1>6. /\ \A i \in DOMAIN pipe : pipe[i].op = "get" => pipe[i].by # r /\ pipe[i].by \in Request
        /\ \A i \in DOMAIN replies' : replies'[i].by # r /\ replies'[i].by \in Request
    <2>1. \A i \in DOMAIN pipe : pipe[i] \in Command
      BY DEF CacheTyped
    <2>2. \A i \in DOMAIN replies : replies[i] \in Reply
      BY <1>2
    <2> QED
      BY <1>2, <1>3, <1>4, <2>1, <2>2 DEF FlightInv, Command, Reply
  <1>7. \A i \in DOMAIN pipe' : pipe'[i].op = "get" => pc'[pipe'[i].by] = "reading"
    BY <1>1, <1>5, <1>6 DEF FlightInv
  <1>8. \A i \in DOMAIN replies' : pc'[replies'[i].by] = "reading"
    BY <1>3, <1>5, <1>6 DEF FlightInv
  <1>9. \A i, j \in DOMAIN pipe' : pipe'[i].op = "get" /\ pipe'[i] = pipe'[j] => i = j
    BY <1>1 DEF FlightInv
  <1>10. \A i \in DOMAIN pipe', j \in DOMAIN replies' :
          pipe'[i].op = "get" => pipe'[i].by # replies'[j].by
    BY <1>1, <1>3 DEF FlightInv
  <1>11. \A i, j \in DOMAIN replies' : replies'[i].by = replies'[j].by => i = j
    <2>1. \A i, j \in DOMAIN replies' : replies'[i].by = replies'[j].by => i + 1 = j + 1
      BY <1>3 DEF FlightInv
    <2> QED
      BY <1>3, <2>1
  <1> QED
    BY <1>7, <1>8, <1>9, <1>10, <1>11 DEF FlightInv

LEMMA ServeKeepsFlights == ASSUME CacheTyped, FlightInv, RedisServes PROVE FlightInv'
  <1>1. pipe \in Seq(Command) /\ replies \in Seq(Reply) /\ pipe # <<>> /\ pipe' = Tail(pipe)
        /\ pc' = pc
    BY DEF CacheTyped, RedisServes, request
  <1>2. /\ Head(pipe) = pipe[1] /\ 1 \in DOMAIN pipe /\ pipe[1] \in Command
        /\ \A i \in DOMAIN pipe' : /\ i \in Nat /\ i + 1 \in DOMAIN pipe /\ i + 1 # 1
                                   /\ pipe'[i] = pipe[i + 1]
    BY <1>1
  <1>3. /\ \A i \in DOMAIN pipe' : pipe'[i].op = "get" => pc'[pipe'[i].by] = "reading"
        /\ \A i, j \in DOMAIN pipe' : pipe'[i].op = "get" /\ pipe'[i] = pipe'[j] => i = j
    <2>1. \A i, j \in DOMAIN pipe' : pipe'[i].op = "get" /\ pipe'[i] = pipe'[j] => i + 1 = j + 1
      BY <1>2 DEF FlightInv
    <2> QED
      BY <1>1, <1>2, <2>1 DEF FlightInv
  <1>4. CASE UNCHANGED replies
    BY <1>1, <1>2, <1>3, <1>4 DEF FlightInv
  <1> DEFINE answered == [by |-> pipe[1].by, copy |-> stored]
  <1>5. answered.by = pipe[1].by
    OBVIOUS
  <1>6. Head(pipe).op # "set" => pipe[1].op = "get" /\ replies' = Append(replies, answered)
    BY <1>2 DEF RedisServes, Command
  <1>7. Head(pipe).op = "set" => UNCHANGED replies
    BY DEF RedisServes
  <1> HIDE DEF answered
  <1>8. CASE pipe[1].op = "get" /\ replies' = Append(replies, answered)
    <2>1. \A i \in DOMAIN replies' : \/ i \in DOMAIN replies /\ replies'[i] = replies[i]
                                     \/ i = Len(replies) + 1 /\ replies'[i] = answered
      BY <1>1, <1>8
    <2>2. \A i \in DOMAIN replies : replies[i].by # answered.by
      BY <1>2, <1>5, <1>8 DEF FlightInv
    <2>3. \A i \in DOMAIN pipe' : pipe'[i].op = "get" => pipe'[i].by # answered.by
      <3>1. SUFFICES ASSUME NEW i \in DOMAIN pipe', pipe'[i].op = "get", pipe'[i].by = pipe[1].by
                     PROVE  FALSE
        BY <1>5
      <3>2. pipe[i + 1] \in Command /\ pipe[i + 1].op = "get" /\ pipe[i + 1].by = pipe[1].by
        BY <1>1, <1>2, <3>1
      <3>3. pipe[i + 1] = pipe[1]
        BY <1>2, <1>8, <3>2 DEF Command
      <3> QED
        BY <1>2, <3>2, <3>3 DEF FlightInv
    <2>4. \A i \in DOMAIN replies' : pc'[replies'[i].by] = "reading"
      BY <1>1, <1>2, <1>5, <1>8, <2>1 DEF FlightInv
    <2>5. \A i, j \in DOMAIN replies' : replies'[i].by = replies'[j].by => i = j
      BY <2>1, <2>2 DEF FlightInv
    <2>6. \A i \in DOMAIN pipe', j \in DOMAIN replies' :
             pipe'[i].op = "get" => pipe'[i].by # replies'[j].by
      BY <1>2, <2>1, <2>3 DEF FlightInv
    <2> QED
      BY <1>3, <2>4, <2>5, <2>6 DEF FlightInv
  <1> QED
    BY <1>4, <1>6, <1>7, <1>8

\* The replies a failing connection produces are those of the reads on it.
LEMMA FailAnswers ==
    ASSUME CacheTyped, RedisFails
    PROVE  \E answers \in Seq(Reply) :
             /\ pipe' = <<>> /\ replies' = replies \o answers
             /\ \A i \in DOMAIN answers : \E j \in DOMAIN pipe : pipe[j] = Get(answers[i].by)
             /\ FlightInv => \A i, j \in DOMAIN answers : answers[i].by = answers[j].by => i = j
             /\ \A i \in DOMAIN answers : answers[i].copy = NoCopy /\ answers[i].by \in Request
  <1> DEFINE reads == [op : {"get"}, by : Request]
             gets == Filtered(pipe, reads)
             answers == [i \in DOMAIN gets |-> [by |-> gets[i].by, copy |-> NoCopy]]
  <1>1. pipe' = <<>> /\ replies' = replies \o answers
    BY DEF RedisFails
  <1>2. pipe \in Seq(Command) /\ pipe \in Seq(Range(pipe))
    BY DEF CacheTyped, Range
  <1> HIDE DEF reads
  <1>3. gets \in Seq(Command \cap reads) /\ gets \in Seq(Range(pipe) \cap reads)
    BY <1>2, FilteredEntries
  <1>4. FlightInv => \A i, j \in DOMAIN gets : gets[i] = gets[j] => i = j
    <2>1. SUFFICES ASSUME FlightInv PROVE \A i, j \in DOMAIN gets : gets[i] = gets[j] => i = j
      OBVIOUS
    <2>2. \A i, j \in 1 .. Len(pipe) : pipe[i] \in reads /\ pipe[i] = pipe[j] => i = j
      BY <1>2, <2>1 DEF FlightInv, reads
    <2> QED
      BY <1>2, <2>2, FilteredDistinct
  <1> HIDE DEF gets
  <1>5. \A i \in DOMAIN gets : /\ gets[i].by \in Request /\ gets[i] = Get(gets[i].by)
                               /\ gets[i] \in Range(pipe)
    <2>1. \A i \in DOMAIN gets : gets[i] \in reads /\ gets[i] \in Range(pipe)
      BY <1>3
    <2> QED
      BY <2>1 DEF Get, reads
  <1>6. /\ DOMAIN answers = DOMAIN gets
        /\ \A i \in DOMAIN gets : answers[i].by = gets[i].by /\ answers[i].copy = NoCopy
    OBVIOUS
  <1>7. answers \in Seq(Reply)
    <2>1. DOMAIN gets = 1 .. Len(gets) /\ Len(gets) \in Nat
      BY <1>3
    <2>2. NoCopy \in Copy
      BY SnapshotAssumption DEF NoCopy, Copy, Ages
    <2>3. \A i \in 1 .. Len(gets) : [by |-> gets[i].by, copy |-> NoCopy] \in Reply
      BY <1>5, <2>1, <2>2 DEF Reply
    <2>4. answers = [i \in 1 .. Len(gets) |-> [by |-> gets[i].by, copy |-> NoCopy]]
      BY <2>1
    <2> QED
      BY <2>1, <2>3, <2>4
  <1> HIDE DEF answers
  <1>8. \A i \in DOMAIN answers : \E j \in DOMAIN pipe : pipe[j] = Get(answers[i].by)
    BY <1>5, <1>6 DEF Range
  <1>9. FlightInv => \A i, j \in DOMAIN answers : answers[i].by = answers[j].by => i = j
    <2>1. SUFFICES ASSUME FlightInv, NEW i \in DOMAIN answers, NEW j \in DOMAIN answers,
                          answers[i].by = answers[j].by
                   PROVE  i = j
      OBVIOUS
    <2>2. gets[i] = gets[j]
      BY <1>5, <1>6, <2>1
    <2> QED
      BY <1>4, <1>6, <2>1, <2>2
  <1> QED
    BY <1>1, <1>5, <1>6, <1>7, <1>8, <1>9

LEMMA FailKeepsFlights == ASSUME CacheTyped, FlightInv, RedisFails PROVE FlightInv'
  <1>1. PICK answers \in Seq(Reply) :
          /\ pipe' = <<>> /\ replies' = replies \o answers
          /\ \A i \in DOMAIN answers : \E j \in DOMAIN pipe : pipe[j] = Get(answers[i].by)
          /\ \A i, j \in DOMAIN answers : answers[i].by = answers[j].by => i = j
    BY FailAnswers
  <1>2. replies \in Seq(Reply) /\ pc' = pc
    BY DEF CacheTyped, RedisFails
  <1>3. \A i \in DOMAIN replies' : \/ i \in DOMAIN replies /\ replies'[i] = replies[i]
                                   \/ /\ i - Len(replies) \in DOMAIN answers /\ i \in Int
                                      /\ replies'[i] = answers[i - Len(replies)]
    BY <1>1, <1>2
  <1>4. \A i \in DOMAIN answers : /\ pc[answers[i].by] = "reading"
                                  /\ \A j \in DOMAIN replies : replies[j].by # answers[i].by
    <2>1. TAKE i \in DOMAIN answers
    <2>2. PICK j \in DOMAIN pipe : pipe[j] = Get(answers[i].by)
      BY <1>1
    <2>3. pipe[j].op = "get" /\ pipe[j].by = answers[i].by
      BY <2>2 DEF Get
    <2> QED
      BY <2>3 DEF FlightInv
  <1>5. \A i \in DOMAIN replies' : pc'[replies'[i].by] = "reading"
    BY <1>2, <1>3, <1>4 DEF FlightInv
  <1>6. \A i, j \in DOMAIN replies' : replies'[i].by = replies'[j].by => i = j
    <2>1. SUFFICES ASSUME NEW i \in DOMAIN replies', NEW j \in DOMAIN replies',
                          replies'[i].by = replies'[j].by
                   PROVE  i = j
      OBVIOUS
    <2>2. CASE i \in DOMAIN replies /\ replies'[i] = replies[i]
      BY <1>3, <1>4, <2>1, <2>2 DEF FlightInv
    <2>3. CASE /\ i - Len(replies) \in DOMAIN answers /\ i \in Int
               /\ replies'[i] = answers[i - Len(replies)]
      <3>1. CASE j \in DOMAIN replies /\ replies'[j] = replies[j]
        BY <1>4, <2>1, <2>3, <3>1
      <3>2. CASE /\ j - Len(replies) \in DOMAIN answers /\ j \in Int
                 /\ replies'[j] = answers[j - Len(replies)]
        <4>1. i - Len(replies) = j - Len(replies)
          BY <1>1, <2>1, <2>3, <3>2
        <4>2. Len(replies) \in Nat
          BY <1>2
        <4> QED
          BY <2>3, <3>2, <4>1, <4>2
      <3> QED
        BY <1>3, <3>1, <3>2
    <2> QED
      BY <1>3, <2>2, <2>3
  <1> QED
    BY <1>1, <1>5, <1>6 DEF FlightInv

LEMMA FlightsKept == ASSUME CacheTyped, FlightInv, [CacheNext]_cacheVars PROVE FlightInv'
  <1>1. CASE \E r \in Request, k \in Kinds : Begin(r, k)
    BY <1>1, BeginKeepsFlights
  <1>2. CASE Adopt
    BY <1>2, AdoptKeepsFlights
  <1>3. CASE CompleteRefresh
    <2>1. PICK a : pipe' = Append(pipe, Put([version |-> pending, age |-> a]))
      BY <1>3 DEF CompleteRefresh
    <2>2. pipe \in Seq(Command)
      BY DEF CacheTyped
    <2>3. \A i \in DOMAIN pipe' : pipe'[i].op = "get" => i \in DOMAIN pipe /\ pipe[i] = pipe'[i]
      BY <2>1, <2>2 DEF Put
    <2>4. UNCHANGED replies /\ \A r \in Request : pc[r] = "reading" => pc'[r] = "reading"
      BY <1>3 DEF CompleteRefresh, AnswerWaiting, Waiting
    <2> QED
      BY <2>3, <2>4, FlightsStay
  <1>4. CASE Load \/ RefreshFails \/ (\E r \in Request : GiveUp(r)) \/ CheckAnswered \/ Invalidate
             \/ Advance \/ Reorg \/ UNCHANGED cacheVars
    <2>1. UNCHANGED <<pipe, replies>>
      BY <1>4 DEF Load, RefreshFails, GiveUp, CheckAnswered, Invalidate, Advance, Reorg, cacheVars,
         redisVars
    <2>2. \A r \in Request : pc[r] = "reading" => pc'[r] = "reading"
      <3>1. CASE RefreshFails
        BY <3>1 DEF RefreshFails, AnswerWaiting, Waiting
      <3>2. CASE \E r \in Request : GiveUp(r)
        BY <3>2 DEF GiveUp, Answer, CacheTyped
      <3>3. CASE Load \/ CheckAnswered \/ Invalidate \/ Advance \/ Reorg \/ UNCHANGED cacheVars
        BY <3>3 DEF Load, CheckAnswered, Invalidate, Advance, Reorg, cacheVars, request
      <3> QED
        BY <1>4, <3>1, <3>2, <3>3
    <2> QED
      BY <2>1, <2>2, FlightsStay
  <1>5. CASE Tick
    <2>1. /\ DOMAIN pipe' = DOMAIN pipe
          /\ \A i \in DOMAIN pipe : /\ pipe'[i].op = pipe[i].op
                                    /\ pipe[i].op = "get" => pipe'[i] = pipe[i]
      <3>1. \A i \in DOMAIN pipe : pipe[i] \in Command
        BY DEF CacheTyped
      <3> QED
        BY <1>5, <3>1 DEF Tick, Command
    <2>2. /\ DOMAIN replies' = DOMAIN replies
          /\ \A i \in DOMAIN replies : replies'[i].by = replies[i].by
      <3>1. \A i \in DOMAIN replies : replies[i] \in Reply
        BY DEF CacheTyped
      <3> QED
        BY <1>5, <3>1 DEF Tick, Reply
    <2>3. pc' = pc
      BY <1>5 DEF Tick, request
    <2> QED
      BY <2>1, <2>2, <2>3 DEF FlightInv
  <1>6. CASE RedisServes
    BY <1>6, ServeKeepsFlights
  <1>7. CASE RedisFails
    BY <1>7, FailKeepsFlights
  <1>8. CASE CacheRestarts
    BY <1>8 DEF CacheRestarts, FlightInv
  <1> QED
    BY <1>1, <1>2, <1>3, <1>4, <1>5, <1>6, <1>7, <1>8 DEF CacheNext

-----------------------------------------------------------------------------
(* Whom the cache refuses. *)

GoodIn(v, O) == v # NoVersion /\ v \notin O

\* The read at place i of the connection p, in front of a Redis that holds the
\* copy c, brings a version that is not in O.
BringsGood(p, c, i, O) ==
    /\ (\A j \in 1 .. (i - 1) : p[j].op # "set") => GoodIn(c.version, O)
    /\ \A j \in 1 .. (i - 1) :
          p[j].op = "set" /\ (\A l \in (j + 1) .. (i - 1) : p[l].op # "set") =>
              GoodIn(p[j].copy.version, O)

\* Whoever was promised a snapshot reads one from Redis, or has one to fall back on.
PromiseInv ==
    /\ Fallback
    /\ \A r \in Request : promised[r] /\ pc[r] = "waiting" => GoodIn(entry.snapshot, orphaned)
    /\ \A i \in DOMAIN replies :
          promised[replies[i].by] => GoodIn(replies[i].copy.version, orphaned)
    /\ \A i \in DOMAIN pipe :
          pipe[i].op = "get" /\ promised[pipe[i].by] => BringsGood(pipe, stored, i, orphaned)

LEMMA LaterCommand ==
    ASSUME NEW p \in Seq(Command), NEW x \in Command, NEW c, NEW i \in DOMAIN p, NEW O,
           BringsGood(p, c, i, O)
    PROVE  BringsGood(Append(p, x), c, i, O)
  <1>1. \A j \in 1 .. (i - 1) : Append(p, x)[j] = p[j]
    OBVIOUS
  <1> DEFINE q == Append(p, x)
  <1> HIDE DEF q
  <1>2. \A j \in 1 .. (i - 1) : q[j] = p[j]
    BY <1>1 DEF q
  <1>3. i \in Nat
    OBVIOUS
  <1>4. (\A j \in 1 .. (i - 1) : q[j].op # "set") => GoodIn(c.version, O)
    BY <1>2 DEF BringsGood
  <1>5. ASSUME NEW j \in 1 .. (i - 1), q[j].op = "set",
               \A l \in (j + 1) .. (i - 1) : q[l].op # "set"
        PROVE  GoodIn(q[j].copy.version, O)
    <2>1. \A l \in (j + 1) .. (i - 1) : l \in 1 .. (i - 1)
      BY <1>3
    <2>2. p[j].op = "set" /\ \A l \in (j + 1) .. (i - 1) : p[l].op # "set"
      BY <1>2, <1>5, <2>1
    <2> QED
      BY <1>2, <2>2 DEF BringsGood
  <1>6. BringsGood(q, c, i, O)
    BY <1>4, <1>5 DEF BringsGood
  <1> QED
    BY <1>6 DEF q

\* The read behind all commands brings the copy that is coming.
LEMMA LastCommand ==
    ASSUME CacheTyped, NEW x, GoodIn(Coming.version, orphaned)
    PROVE  BringsGood(Append(pipe, x), stored, Len(pipe) + 1, orphaned)
  <1>1. pipe \in Seq(Command)
    BY DEF CacheTyped
  <1>2. \A j \in 1 .. Len(pipe) : Append(pipe, x)[j] = pipe[j]
    BY <1>1
  <1> DEFINE q == Append(pipe, x)
  <1> HIDE DEF q
  <1>3. \A j \in 1 .. Len(pipe) : q[j] = pipe[j]
    BY <1>2 DEF q
  <1>4. Len(pipe) \in Nat /\ Len(pipe) + 1 - 1 = Len(pipe) /\ DOMAIN pipe = 1 .. Len(pipe)
    BY <1>1
  <1>5. (\A j \in 1 .. Len(pipe) : q[j].op # "set") => GoodIn(stored.version, orphaned)
    <2>1. SUFFICES ASSUME \A j \in 1 .. Len(pipe) : q[j].op # "set"
                   PROVE  GoodIn(stored.version, orphaned)
      OBVIOUS
    <2>2. Puts = {}
      BY <1>3, <1>4, <2>1 DEF Puts
    <2> QED
      BY <2>2 DEF Coming
  <1>6. ASSUME NEW j \in 1 .. Len(pipe), q[j].op = "set",
               \A l \in (j + 1) .. Len(pipe) : q[l].op # "set"
        PROVE  GoodIn(q[j].copy.version, orphaned)
    <2>1. j \in Puts /\ Puts \in SUBSET (1 .. Len(pipe))
      BY <1>3, <1>4, <1>6 DEF Puts
    <2>2. \A y \in Puts : j >= y
      <3>1. SUFFICES ASSUME NEW y \in Puts, y > j PROVE FALSE
        BY <2>1
      <3>2. y \in (j + 1) .. Len(pipe) /\ pipe[y].op = "set" /\ y \in 1 .. Len(pipe)
        BY <1>4, <2>1, <3>1 DEF Puts
      <3> QED
        BY <1>3, <1>6, <3>2
    <2>3. \A m \in Puts : (\A y \in Puts : m >= y) => m = j
      BY <2>1, <2>2
    <2>4. Max(Puts) = j
      BY <2>1, <2>2, <2>3 DEF Max
    <2>5. Coming = pipe[j].copy
      BY <2>1, <2>4 DEF Coming
    <2> QED
      BY <1>3, <2>5
  <1>7. BringsGood(q, stored, Len(pipe) + 1, orphaned)
    BY <1>4, <1>5, <1>6 DEF BringsGood
  <1> QED
    BY <1>7 DEF q

\* Redis serves the first command.
LEMMA FirstCommand ==
    ASSUME NEW p \in Seq(Command), p # <<>>, NEW c, NEW i \in DOMAIN Tail(p), NEW O,
           BringsGood(p, c, i + 1, O)
    PROVE  /\ p[1].op = "set" => BringsGood(Tail(p), p[1].copy, i, O)
           /\ p[1].op # "set" => BringsGood(Tail(p), c, i, O)
  <1> DEFINE q == Tail(p)
  <1>1. \A j \in DOMAIN q : j \in Nat /\ j + 1 \in DOMAIN p /\ q[j] = p[j + 1]
    OBVIOUS
  <1>2. i \in 1 .. Len(q) /\ Len(q) \in Nat /\ DOMAIN q = 1 .. Len(q)
    OBVIOUS
  <1> HIDE DEF q
  <1>3. \A j \in 1 .. (i - 1) : j \in DOMAIN q /\ j + 1 \in 1 .. i /\ q[j] = p[j + 1]
    BY <1>1, <1>2
  <1>4. \A j \in 2 .. i : j - 1 \in 1 .. (i - 1) /\ q[j - 1] = p[j]
    <2>1. \A j \in 2 .. i : j - 1 \in 1 .. (i - 1) /\ j - 1 + 1 = j
      BY <1>2
    <2> QED
      BY <1>3, <2>1
  <1>5. ASSUME NEW j \in 1 .. (i - 1), q[j].op = "set",
               \A l \in (j + 1) .. (i - 1) : q[l].op # "set"
        PROVE  GoodIn(q[j].copy.version, O)
    <2>1. j + 1 \in 1 .. (i + 1 - 1) /\ p[j + 1].op = "set"
      BY <1>2, <1>3, <1>5
    <2>2. \A l \in (j + 1 + 1) .. (i + 1 - 1) : p[l].op # "set"
      <3>1. SUFFICES ASSUME NEW l \in (j + 1 + 1) .. (i + 1 - 1) PROVE p[l].op # "set"
        OBVIOUS
      <3>2. l \in 2 .. i /\ l - 1 \in (j + 1) .. (i - 1)
        BY <1>2, <3>1
      <3> QED
        BY <1>4, <1>5, <3>2
    <2>3. GoodIn(p[j + 1].copy.version, O)
      BY <2>1, <2>2 DEF BringsGood
    <2> QED
      BY <1>3, <2>3
  <1>6. ASSUME p[1].op = "set", \A j \in 1 .. (i - 1) : q[j].op # "set"
        PROVE  GoodIn(p[1].copy.version, O)
    <2>1. \A l \in (1 + 1) .. (i + 1 - 1) : p[l].op # "set"
      BY <1>2, <1>4, <1>6
    <2>2. 1 \in 1 .. (i + 1 - 1)
      BY <1>2
    <2>3. \A j \in 1 .. (i + 1 - 1) :
             p[j].op = "set" /\ (\A l \in (j + 1) .. (i + 1 - 1) : p[l].op # "set") =>
                GoodIn(p[j].copy.version, O)
      BY DEF BringsGood
    <2>4. p[1].op = "set" /\ (\A l \in (1 + 1) .. (i + 1 - 1) : p[l].op # "set") =>
             GoodIn(p[1].copy.version, O)
      BY <2>2, <2>3, Zenon
    <2> QED
      BY <1>6, <2>1, <2>4
  <1>7. ASSUME p[1].op # "set", \A j \in 1 .. (i - 1) : q[j].op # "set"
        PROVE  GoodIn(c.version, O)
    <2>1. \A j \in 1 .. (i + 1 - 1) : j = 1 \/ j \in 2 .. i
      BY <1>2
    <2>2. \A j \in 1 .. (i + 1 - 1) : p[j].op # "set"
      BY <1>4, <1>7, <2>1
    <2> QED
      BY <2>2 DEF BringsGood
  <1>8. /\ p[1].op = "set" => BringsGood(q, p[1].copy, i, O)
        /\ p[1].op # "set" => BringsGood(q, c, i, O)
    BY <1>5, <1>6, <1>7 DEF BringsGood
  <1> QED
    BY <1>8 DEF q

\* Steps that leave Redis, the connection and what is canonical alone.
LEMMA PromiseStays ==
    ASSUME CacheTyped, PromiseInv,
           UNCHANGED <<stored, pipe, replies, orphaned>>,
           \A r \in Request : promised'[r] => promised[r],
           \A r \in Request : answer'[r] = "failed" => answer[r] = "failed" \/ ~promised[r],
           \A r \in Request : promised'[r] /\ pc'[r] = "waiting" =>
                                 GoodIn(entry'.snapshot, orphaned)
    PROVE  PromiseInv'
  <1>1. /\ \A i \in DOMAIN pipe : pipe[i].op = "get" => pipe[i].by \in Request
        /\ \A i \in DOMAIN replies : replies[i].by \in Request
    <2>1. \A i \in DOMAIN pipe : pipe[i] \in Command
      BY DEF CacheTyped
    <2>2. \A i \in DOMAIN replies : replies[i] \in Reply
      BY DEF CacheTyped
    <2> QED
      BY <2>1, <2>2 DEF Command, Reply
  <1>2. Fallback'
    BY DEF PromiseInv, Fallback
  <1>3. \A i \in DOMAIN replies :
          promised'[replies[i].by] => GoodIn(replies[i].copy.version, orphaned)
    BY <1>1 DEF PromiseInv
  <1>4. \A i \in DOMAIN pipe :
          pipe[i].op = "get" /\ promised'[pipe[i].by] => BringsGood(pipe, stored, i, orphaned)
    BY <1>1 DEF PromiseInv
  <1> QED
    BY <1>2, <1>3, <1>4 DEF PromiseInv

LEMMA BeginKeepsPromise ==
    ASSUME CacheTyped, FlightInv, PromiseInv, ~Cache.hydratesOnce,
           NEW r \in Request, NEW k \in Kinds, Begin(r, k)
    PROVE  PromiseInv'
  <1>1. /\ k \in Calls /\ UNCHANGED <<orphaned, stored, replies>> /\ pc[r] = "idle"
        /\ pipe \in Seq(Command) /\ promised \in [Request -> BOOLEAN]
    BY BeginDoes, RestOfBegin DEF CacheTyped
  <1>2. /\ \A q \in Request \ {r} : promised'[q] = promised[q]
        /\ promised'[r] = IF Cached THEN Canonical(entry.snapshot) ELSE Canonical(Coming.version)
    BY <1>1 DEF Begin
  <1>3. /\ \A i \in DOMAIN pipe : pipe[i].op = "get" => pipe[i].by \in Request \ {r}
        /\ \A i \in DOMAIN replies : replies[i].by \in Request \ {r}
    <2>1. \A i \in DOMAIN pipe : pipe[i] \in Command
      BY DEF CacheTyped
    <2>2. \A i \in DOMAIN replies : replies[i] \in Reply
      BY DEF CacheTyped
    <2> QED
      BY <1>1, <2>1, <2>2 DEF Command, Reply, FlightInv
  <1>4. \A i \in DOMAIN replies' :
          promised'[replies'[i].by] => GoodIn(replies'[i].copy.version, orphaned')
    BY <1>1, <1>2, <1>3 DEF PromiseInv
  <1>5. CASE /\ Hydrates /\ pipe' = Append(pipe, Get(r)) /\ pc' = [pc EXCEPT ![r] = "reading"]
             /\ answer' = [answer EXCEPT ![r] = "none"]
             /\ entry' = [entry EXCEPT !.hydrated = TRUE]
    <2>1. ~Cached
      BY <1>5 DEF Hydrates
    <2>2. promised'[r] => GoodIn(Coming.version, orphaned)
      BY <1>2, <2>1 DEF GoodIn, Canonical
    <2>3. /\ \A q \in Request \ {r} : pc'[q] = pc[q] /\ answer'[q] = answer[q]
          /\ pc'[r] = "reading" /\ answer'[r] = "none"
      BY <1>5 DEF CacheTyped
    <2>4. entry'.snapshot = entry.snapshot
      BY <1>5 DEF CacheTyped, Entry
    <2>5. Fallback'
      BY <1>2, <2>3 DEF PromiseInv, Fallback
    <2>6. \A q \in Request : promised'[q] /\ pc'[q] = "waiting" => GoodIn(entry'.snapshot, orphaned')
      BY <1>1, <1>2, <2>3, <2>4 DEF PromiseInv
    <2>7. ASSUME NEW i \in DOMAIN pipe', pipe'[i].op = "get", promised'[pipe'[i].by]
          PROVE  BringsGood(pipe', stored', i, orphaned')
      <3>1. CASE i \in DOMAIN pipe
        <4>1. pipe'[i] = pipe[i]
          BY <1>1, <1>5, <3>1
        <4>2. BringsGood(pipe, stored, i, orphaned)
          BY <1>2, <1>3, <2>7, <3>1, <4>1 DEF PromiseInv
        <4>3. Get(r) \in Command
          BY DEF Get, Command
        <4> QED
          BY <1>1, <1>5, <3>1, <4>2, <4>3, LaterCommand
      <3>2. CASE i \notin DOMAIN pipe
        <4>1. i = Len(pipe) + 1 /\ pipe'[i] = Get(r)
          BY <1>1, <1>5, <3>2
        <4>2. promised'[r]
          BY <2>7, <4>1 DEF Get
        <4> QED
          BY <1>1, <1>5, <2>2, <4>1, <4>2, LastCommand
      <3> QED
        BY <3>1, <3>2
    <2> QED
      BY <1>4, <2>5, <2>6, <2>7 DEF PromiseInv
  <1>6. CASE /\ ~Hydrates /\ UNCHANGED pipe /\ entry'.snapshot = entry.snapshot
             /\ answer'[r] # "failed"
             /\ \A q \in Request \ {r} : pc'[q] = pc[q] /\ answer'[q] = answer[q]
    <2>1. Cached
      BY <1>6 DEF Hydrates
    <2>2. promised'[r] => GoodIn(entry.snapshot, orphaned)
      BY <1>2, <2>1 DEF GoodIn, Canonical
    <2>3. Fallback'
      BY <1>2, <1>6 DEF PromiseInv, Fallback
    <2>4. \A q \in Request : promised'[q] /\ pc'[q] = "waiting" => GoodIn(entry'.snapshot, orphaned')
      BY <1>1, <1>2, <1>6, <2>2 DEF PromiseInv
    <2>5. \A i \in DOMAIN pipe' :
            pipe'[i].op = "get" /\ promised'[pipe'[i].by] => BringsGood(pipe', stored', i, orphaned')
      BY <1>1, <1>2, <1>3, <1>6 DEF PromiseInv
    <2> QED
      BY <1>4, <2>3, <2>4, <2>5 DEF PromiseInv
  <1>7. CASE ~Hydrates /\ UNCHANGED pipe /\ Decide(r, k, entry)
    <2>1. entry \in Entry /\ entry.snapshot # NoVersion
      BY <1>7 DEF CacheTyped, Hydrates, Cached
    <2> QED
      BY <1>1, <1>6, <1>7, <2>1, DecideDoes
  <1>8. CASE /\ ~Hydrates /\ UNCHANGED <<pipe, entry, pending, overtaken, since>>
             /\ answer' = [answer EXCEPT ![r] = "stale"] /\ pc' = [pc EXCEPT ![r] = "idle"]
    BY <1>6, <1>8 DEF CacheTyped
  <1> QED
    BY <1>5, <1>7, <1>8, BeginDoes

LEMMA AdoptKeepsPromise ==
    ASSUME CacheTyped, FlightInv, PromiseInv, Adopt
    PROVE  PromiseInv'
  <1> DEFINE r == Head(replies).by
             c == Head(replies).copy
  <1>1. /\ replies # <<>> /\ r \in Request /\ c \in Copy /\ replies' = Tail(replies)
        /\ \/ /\ entry' = Adopted(c) /\ pc' = [pc EXCEPT ![r] = "idle"]
              /\ answer' = [answer EXCEPT ![r] = IF c.version = NoVersion THEN "none" ELSE "stale"]
           \/ Decide(r, kind[r], Adopted(c)) /\ kind[r] \in Calls
        /\ UNCHANGED <<pipe, stored, orphaned>>
    BY AdoptDoes
  <1>2. \A q \in Request : promised'[q] = (promised[q] /\ ~(Cached /\ c.version \in orphaned))
    BY DEF Adopt
  <1>3. replies \in Seq(Reply) /\ replies[1].by = r /\ replies[1].copy = c /\ 1 \in DOMAIN replies
    BY <1>1 DEF CacheTyped
  <1> HIDE DEF r, c
  <1>4. \A i \in DOMAIN replies' : i + 1 \in DOMAIN replies /\ replies'[i] = replies[i + 1]
    BY <1>1, <1>3
  <1>5. /\ \A i \in DOMAIN pipe : pipe[i].op = "get" => pipe[i].by \in Request
        /\ \A i \in DOMAIN replies : replies[i].by \in Request
    <2>1. \A i \in DOMAIN pipe : pipe[i] \in Command
      BY DEF CacheTyped
    <2>2. \A i \in DOMAIN replies : replies[i] \in Reply
      BY <1>3
    <2> QED
      BY <2>1, <2>2 DEF Command, Reply
  <1>6. promised[r] => GoodIn(c.version, orphaned)
    BY <1>3 DEF PromiseInv
  <1>7. Adopted(c) \in Entry
        /\ Adopted(c).snapshot = IF c.version = NoVersion THEN entry.snapshot ELSE c.version
    BY <1>1, AdoptedEntry
  <1>8. /\ entry'.snapshot = IF c.version = NoVersion THEN entry.snapshot ELSE c.version
        /\ \A q \in Request \ {r} : pc'[q] = pc[q] /\ answer'[q] = answer[q]
        /\ answer'[r] = "failed" => c.version = NoVersion
    <2>1. CASE Decide(r, kind[r], Adopted(c)) /\ kind[r] \in Calls
      <3>1. /\ entry'.snapshot = Adopted(c).snapshot
            /\ \A q \in Request \ {r} : pc'[q] = pc[q] /\ answer'[q] = answer[q]
            /\ answer'[r] = "failed" => Adopted(c).snapshot = NoVersion
        BY <1>1, <1>7, <2>1, DecideDoes
      <3> QED
        BY <1>7, <3>1
    <2>2. CASE /\ entry' = Adopted(c) /\ pc' = [pc EXCEPT ![r] = "idle"]
               /\ answer' = [answer EXCEPT ![r] = IF c.version = NoVersion THEN "none" ELSE "stale"]
      BY <1>1, <1>7, <2>2 DEF CacheTyped
    <2> QED
      BY <1>1, <2>1, <2>2
  <1>9. Fallback'
    BY <1>2, <1>6, <1>8 DEF PromiseInv, Fallback, GoodIn
  <1>10. ASSUME NEW q \in Request, promised'[q], pc'[q] = "waiting"
         PROVE  GoodIn(entry'.snapshot, orphaned')
    <2>1. promised[q] /\ ~(Cached /\ c.version \in orphaned)
      BY <1>2, <1>10
    <2>2. CASE q = r
      BY <1>1, <1>6, <1>8, <2>1, <2>2 DEF GoodIn
    <2>3. CASE q # r
      <3>1. GoodIn(entry.snapshot, orphaned)
        BY <1>8, <1>10, <2>1, <2>3 DEF PromiseInv
      <3> QED
        BY <1>1, <1>8, <2>1, <3>1 DEF GoodIn, Cached
    <2> QED
      BY <2>2, <2>3
  <1>11. \A i \in DOMAIN replies' :
           promised'[replies'[i].by] => GoodIn(replies'[i].copy.version, orphaned')
    BY <1>1, <1>2, <1>4, <1>5 DEF PromiseInv
  <1>12. \A i \in DOMAIN pipe' :
           pipe'[i].op = "get" /\ promised'[pipe'[i].by] => BringsGood(pipe', stored', i, orphaned')
    BY <1>1, <1>2, <1>5 DEF PromiseInv
  <1> QED
    BY <1>9, <1>10, <1>11, <1>12 DEF PromiseInv

LEMMA ServeKeepsPromise == ASSUME CacheTyped, PromiseInv, RedisServes PROVE PromiseInv'
  <1>1. /\ pipe \in Seq(Command) /\ replies \in Seq(Reply) /\ pipe # <<>> /\ pipe' = Tail(pipe)
        /\ UNCHANGED <<pc, promised, answer, entry, orphaned>>
    BY DEF CacheTyped, RedisServes, request, storeVars
  <1>2. /\ Head(pipe) = pipe[1] /\ 1 \in DOMAIN pipe /\ pipe[1] \in Command
        /\ \A i \in DOMAIN pipe' : i + 1 \in DOMAIN pipe /\ pipe'[i] = pipe[i + 1]
    BY <1>1
  <1>3. Fallback' /\ \A r \in Request : promised'[r] /\ pc'[r] = "waiting" =>
                                           GoodIn(entry'.snapshot, orphaned')
    BY <1>1 DEF PromiseInv, Fallback
  <1>4. CASE pipe[1].op = "set" /\ stored' = pipe[1].copy /\ UNCHANGED replies
    <2>1. \A i \in DOMAIN replies' :
             promised'[replies'[i].by] => GoodIn(replies'[i].copy.version, orphaned')
      BY <1>1, <1>4 DEF PromiseInv
    <2>2. ASSUME NEW i \in DOMAIN pipe', pipe'[i].op = "get", promised'[pipe'[i].by]
          PROVE  BringsGood(pipe', stored', i, orphaned')
      <3>1. BringsGood(pipe, stored, i + 1, orphaned)
        BY <1>1, <1>2, <2>2 DEF PromiseInv
      <3> QED
        BY <1>1, <1>4, <3>1, FirstCommand
    <2> QED
      BY <1>3, <2>1, <2>2 DEF PromiseInv
  <1> DEFINE answered == [by |-> pipe[1].by, copy |-> stored]
  <1>5. answered.by = pipe[1].by /\ answered.copy = stored
    OBVIOUS
  <1>6. Head(pipe).op # "set" => /\ pipe[1].op = "get" /\ UNCHANGED stored
                                 /\ replies' = Append(replies, answered)
    BY <1>2 DEF RedisServes, Command
  <1>7. Head(pipe).op = "set" => stored' = pipe[1].copy /\ UNCHANGED replies
    BY <1>2 DEF RedisServes
  <1> HIDE DEF answered
  <1>8. CASE pipe[1].op = "get" /\ UNCHANGED stored /\ replies' = Append(replies, answered)
    <2>1. \A i \in DOMAIN replies' : \/ i \in DOMAIN replies /\ replies'[i] = replies[i]
                                     \/ replies'[i] = answered
      BY <1>1, <1>8
    <2>2. promised[answered.by] => GoodIn(stored.version, orphaned)
      <3>1. promised[answered.by] => BringsGood(pipe, stored, 1, orphaned)
        BY <1>2, <1>5, <1>8 DEF PromiseInv
      <3> QED
        BY <3>1 DEF BringsGood
    <2>3. \A i \in DOMAIN replies' :
             promised'[replies'[i].by] => GoodIn(replies'[i].copy.version, orphaned')
      BY <1>1, <1>5, <2>1, <2>2 DEF PromiseInv
    <2>4. ASSUME NEW i \in DOMAIN pipe', pipe'[i].op = "get", promised'[pipe'[i].by]
          PROVE  BringsGood(pipe', stored', i, orphaned')
      <3>1. BringsGood(pipe, stored, i + 1, orphaned)
        BY <1>1, <1>2, <2>4 DEF PromiseInv
      <3> QED
        BY <1>1, <1>8, <3>1, FirstCommand
    <2> QED
      BY <1>3, <2>3, <2>4 DEF PromiseInv
  <1> QED
    BY <1>2, <1>4, <1>6, <1>7, <1>8

LEMMA FailKeepsPromise ==
    ASSUME CacheTyped, FlightInv, PromiseInv, RedisFails
    PROVE  PromiseInv'
  <1>1. PICK answers \in Seq(Reply) :
          /\ pipe' = <<>> /\ replies' = replies \o answers
          /\ \A i \in DOMAIN answers : \E j \in DOMAIN pipe : pipe[j] = Get(answers[i].by)
          /\ \A i \in DOMAIN answers : answers[i].by \in Request
    BY FailAnswers
  <1>2. replies \in Seq(Reply) /\ UNCHANGED <<pc, answer, entry, orphaned>>
    BY DEF CacheTyped, RedisFails, storeVars
  <1>3. \A r \in Request : promised'[r] = (promised[r] /\ Get(r) \notin Range(pipe))
    BY DEF RedisFails
  <1>4. \A i \in DOMAIN replies' : \/ i \in DOMAIN replies /\ replies'[i] = replies[i]
                                   \/ \E j \in DOMAIN answers : replies'[i] = answers[j]
    <2>1. \A i \in DOMAIN replies' : \/ i \in DOMAIN replies /\ replies'[i] = replies[i]
                                     \/ /\ i - Len(replies) \in DOMAIN answers
                                        /\ replies'[i] = answers[i - Len(replies)]
      BY <1>1, <1>2
    <2> QED
      BY <2>1
  <1>5. \A j \in DOMAIN answers : ~promised'[answers[j].by]
    BY <1>1, <1>3 DEF Range
  <1>6. \A i \in DOMAIN replies : replies[i].by \in Request
    <2>1. \A i \in DOMAIN replies : replies[i] \in Reply
      BY <1>2
    <2> QED
      BY <2>1 DEF Reply
  <1>7. \A i \in DOMAIN replies' :
           promised'[replies'[i].by] => GoodIn(replies'[i].copy.version, orphaned')
    BY <1>2, <1>3, <1>4, <1>5, <1>6 DEF PromiseInv
  <1>8. Fallback'
    BY <1>2, <1>3 DEF PromiseInv, Fallback
  <1>9. \A r \in Request : promised'[r] /\ pc'[r] = "waiting" => GoodIn(entry'.snapshot, orphaned')
    BY <1>2, <1>3 DEF PromiseInv
  <1>10. \A i \in DOMAIN pipe' :
           pipe'[i].op = "get" /\ promised'[pipe'[i].by] => BringsGood(pipe', stored', i, orphaned')
    BY <1>1
  <1> QED
    BY <1>7, <1>8, <1>9, <1>10 DEF PromiseInv

LEMMA TickKeepsPromise == ASSUME CacheTyped, PromiseInv, Tick PROVE PromiseInv'
  <1>1. /\ pipe \in Seq(Command) /\ replies \in Seq(Reply) /\ stored \in Copy /\ entry \in Entry
        /\ UNCHANGED <<pc, promised, answer, orphaned>>
    BY DEF CacheTyped, Tick, request, storeVars
  <1>2. entry'.snapshot = entry.snapshot /\ stored'.version = stored.version
    BY <1>1 DEF Tick, Entry, Copy
  <1>3. /\ DOMAIN pipe' = DOMAIN pipe
        /\ \A i \in DOMAIN pipe :
              /\ pipe'[i].op = pipe[i].op
              /\ pipe[i].op = "set" => pipe'[i].copy.version = pipe[i].copy.version
              /\ pipe[i].op = "get" => pipe'[i] = pipe[i]
    <2>1. \A i \in DOMAIN pipe : pipe[i] \in Command
      BY <1>1
    <2> QED
      BY <2>1 DEF Tick, Command, Copy
  <1>4. /\ DOMAIN replies' = DOMAIN replies
        /\ \A i \in DOMAIN replies : /\ replies'[i].copy.version = replies[i].copy.version
                                     /\ replies'[i].by = replies[i].by
    <2>1. \A i \in DOMAIN replies : replies[i] \in Reply
      BY <1>1
    <2> QED
      BY <2>1 DEF Tick, Reply, Copy
  <1>5. ASSUME NEW i \in DOMAIN pipe, BringsGood(pipe, stored, i, orphaned)
        PROVE  BringsGood(pipe', stored', i, orphaned)
    <2>1. \A j \in 1 .. (i - 1) : j \in DOMAIN pipe
      BY <1>1
    <2>2. (\A j \in 1 .. (i - 1) : pipe'[j].op # "set") => GoodIn(stored'.version, orphaned)
      BY <1>2, <1>3, <1>5, <2>1 DEF BringsGood
    <2>3. ASSUME NEW j \in 1 .. (i - 1), pipe'[j].op = "set",
                 \A l \in (j + 1) .. (i - 1) : pipe'[l].op # "set"
          PROVE  GoodIn(pipe'[j].copy.version, orphaned)
      <3>1. \A l \in (j + 1) .. (i - 1) : l \in 1 .. (i - 1)
        BY <1>1
      <3>2. pipe[j].op = "set" /\ \A l \in (j + 1) .. (i - 1) : pipe[l].op # "set"
        BY <1>3, <2>1, <2>3, <3>1
      <3>3. GoodIn(pipe[j].copy.version, orphaned)
        BY <1>5, <3>2 DEF BringsGood
      <3> QED
        BY <1>3, <2>1, <3>2, <3>3
    <2> QED
      BY <2>2, <2>3 DEF BringsGood
  <1>6. Fallback' /\ \A r \in Request : promised'[r] /\ pc'[r] = "waiting" =>
                                           GoodIn(entry'.snapshot, orphaned')
    BY <1>1, <1>2 DEF PromiseInv, Fallback
  <1>7. \A i \in DOMAIN replies' :
           promised'[replies'[i].by] => GoodIn(replies'[i].copy.version, orphaned')
    BY <1>1, <1>4 DEF PromiseInv
  <1>8. \A i \in DOMAIN pipe' :
           pipe'[i].op = "get" /\ promised'[pipe'[i].by] => BringsGood(pipe', stored', i, orphaned')
    BY <1>1, <1>3, <1>5 DEF PromiseInv
  <1> QED
    BY <1>6, <1>7, <1>8 DEF PromiseInv

LEMMA PromiseKept ==
    ASSUME CacheTyped, FlightInv, PromiseInv, ~Cache.hydratesOnce, [CacheNext]_cacheVars
    PROVE  PromiseInv'
  <1>0. /\ pc \in [Request -> {"idle", "reading", "waiting"}]
        /\ answer \in [Request -> {"none", "fresh", "stale", "failed"}]
    BY DEF CacheTyped
  <1>1. CASE \E r \in Request, k \in Kinds : Begin(r, k)
    BY <1>1, BeginKeepsPromise
  <1>2. CASE Adopt
    BY <1>2, AdoptKeepsPromise
  <1>3. CASE Load \/ Invalidate \/ Advance \/ UNCHANGED cacheVars
    <2>1. /\ UNCHANGED <<stored, pipe, replies, orphaned, promised, pc, answer>>
          /\ entry'.snapshot = entry.snapshot
      <3>1. UNCHANGED <<stored, pipe, replies, orphaned, promised, pc, answer>>
        BY <1>3 DEF Load, Invalidate, Advance, cacheVars, redisVars, request, storeVars
      <3>2. entry' = entry \/ entry' = Invalidated(entry)
        BY <1>3 DEF Load, Invalidate, Advance, cacheVars
      <3>3. Invalidated(entry).snapshot = entry.snapshot
        BY DEF CacheTyped, Entry, Invalidated
      <3> QED
        BY <3>1, <3>2, <3>3
    <2> QED
      BY <2>1, PromiseStays DEF PromiseInv
  <1>4. CASE CheckAnswered
    <2>1. UNCHANGED <<stored, pipe, replies, orphaned, promised, pc, answer>>
      BY <1>4 DEF CheckAnswered, redisVars, request, storeVars
    <2>2. GoodIn(entry.snapshot, orphaned) => entry'.snapshot = entry.snapshot
      BY <1>4 DEF CheckAnswered, Canonical, GoodIn, CacheTyped, Entry
    <2>3. \A r \in Request : promised'[r] /\ pc'[r] = "waiting" => GoodIn(entry'.snapshot, orphaned)
      BY <2>1, <2>2 DEF PromiseInv
    <2> QED
      BY <2>1, <2>3, PromiseStays
  <1>5. CASE RefreshFails
    <2>1. UNCHANGED <<stored, pipe, replies, orphaned, promised, entry>>
      BY <1>5 DEF RefreshFails, redisVars, storeVars
    <2>2. \A r \in Request :
             /\ pc[r] = "waiting" => /\ pc'[r] = "idle"
                                     /\ answer'[r] = IF Cached THEN "stale" ELSE "failed"
             /\ pc[r] # "waiting" => pc'[r] = pc[r] /\ answer'[r] = answer[r]
      BY <1>5 DEF RefreshFails, AnswerWaiting, Waiting
    <2>3. \A r \in Request : answer'[r] = "failed" => answer[r] = "failed" \/ ~promised[r]
      BY <2>2 DEF PromiseInv, GoodIn, Cached
    <2>4. \A r \in Request : promised'[r] /\ pc'[r] = "waiting" => GoodIn(entry'.snapshot, orphaned)
      BY <2>1, <2>2 DEF PromiseInv
    <2> QED
      BY <2>1, <2>3, <2>4, PromiseStays
  <1>6. CASE \E r \in Request : GiveUp(r)
    <2>1. PICK q \in Request : GiveUp(q)
      BY <1>6
    <2>2. UNCHANGED <<stored, pipe, replies, orphaned, promised, entry>>
      BY <2>1 DEF GiveUp, redisVars, storeVars
    <2>3. /\ pc[q] = "waiting" /\ pc'[q] = "idle"
          /\ answer'[q] = IF Cached THEN "stale" ELSE "failed"
          /\ \A r \in Request \ {q} : pc'[r] = pc[r] /\ answer'[r] = answer[r]
      BY <1>0, <2>1 DEF GiveUp, Answer
    <2>4. \A r \in Request : answer'[r] = "failed" => answer[r] = "failed" \/ ~promised[r]
      BY <2>3 DEF PromiseInv, GoodIn, Cached
    <2>5. \A r \in Request : promised'[r] /\ pc'[r] = "waiting" => GoodIn(entry'.snapshot, orphaned)
      BY <2>2, <2>3 DEF PromiseInv
    <2> QED
      BY <2>2, <2>4, <2>5, PromiseStays
  <1>7. CASE CompleteRefresh
    <2>1. PICK a \in Ages : pipe' = Append(pipe, Put([version |-> pending, age |-> a]))
      BY <1>7, SnapshotAssumption DEF CompleteRefresh, Ages
    <2>2. /\ UNCHANGED <<stored, replies, orphaned, promised>> /\ pending \in Version
          /\ pipe \in Seq(Command)
      BY <1>7 DEF CompleteRefresh, storeVars, CacheTyped
    <2> DEFINE put == Put([version |-> pending, age |-> a])
    <2>3. put \in Command /\ put.op = "set"
      BY <2>2 DEF Put, Command, Copy
    <2> HIDE DEF put
    <2>4. \A r \in Request : /\ pc'[r] # "waiting"
                             /\ answer'[r] = "failed" => answer[r] = "failed"
      BY <1>7 DEF CompleteRefresh, AnswerWaiting, Waiting
    <2>5. Fallback'
      BY <2>2, <2>4 DEF PromiseInv, Fallback
    <2>6. ASSUME NEW i \in DOMAIN pipe', pipe'[i].op = "get", promised'[pipe'[i].by]
          PROVE  BringsGood(pipe', stored', i, orphaned')
      <3>1. pipe' = Append(pipe, put)
        BY <2>1 DEF put
      <3>2. i \in DOMAIN pipe /\ pipe'[i] = pipe[i]
        BY <2>2, <2>3, <2>6, <3>1
      <3>3. BringsGood(pipe, stored, i, orphaned)
        BY <2>2, <2>6, <3>2 DEF PromiseInv
      <3> QED
        BY <2>2, <2>3, <3>1, <3>2, <3>3, LaterCommand
    <2> QED
      BY <2>2, <2>4, <2>5, <2>6 DEF PromiseInv
  <1>8. CASE Reorg
    <2>1. \A r \in Request : ~promised'[r]
      BY <1>8 DEF Reorg
    <2>2. UNCHANGED <<pipe, replies>>
      BY <1>8 DEF Reorg, redisVars
    <2>3. /\ \A i \in DOMAIN pipe : pipe[i].op = "get" => pipe[i].by \in Request
          /\ \A i \in DOMAIN replies : replies[i].by \in Request
      <3>1. \A i \in DOMAIN pipe : pipe[i] \in Command
        BY DEF CacheTyped
      <3>2. \A i \in DOMAIN replies : replies[i] \in Reply
        BY DEF CacheTyped
      <3> QED
        BY <3>1, <3>2 DEF Command, Reply
    <2> QED
      BY <2>1, <2>2, <2>3 DEF PromiseInv, Fallback
  <1>9. CASE Tick
    BY <1>9, TickKeepsPromise
  <1>10. CASE RedisServes
    BY <1>10, ServeKeepsPromise
  <1>11. CASE RedisFails
    BY <1>11, FailKeepsPromise
  <1>12. CASE CacheRestarts
    BY <1>12 DEF CacheRestarts, PromiseInv, Fallback
  <1> QED
    BY <1>1, <1>2, <1>3, <1>4, <1>5, <1>6, <1>7, <1>8, <1>9, <1>10, <1>11, <1>12 DEF CacheNext

\* A cache that reads Redis whenever it holds nothing (all but the protocol
\* analytics, which reads it once) refuses nobody as long as there is a
\* canonical snapshot to answer with (get*Snapshot): a failing source stays
\* hidden, whatever is read, written, invalidated or timed out meanwhile.
THEOREM NobodyIsRefused == ASSUME ~Cache.hydratesOnce PROVE CacheSpec => []Fallback
  <1>1. CacheInit => CacheTyped /\ FlightInv /\ PromiseInv
    <2>1. CacheInit => FlightInv /\ PromiseInv
      BY DEF CacheInit, FlightInv, PromiseInv, Fallback
    <2> QED
      BY <2>1, CacheTypedFirst
  <1>2. CacheTyped /\ FlightInv /\ PromiseInv /\ [CacheNext]_cacheVars =>
          (CacheTyped /\ FlightInv /\ PromiseInv)'
    BY CacheTypedKept, FlightsKept, PromiseKept
  <1>3. PromiseInv => Fallback
    BY DEF PromiseInv
  <1> QED
    BY <1>1, <1>2, <1>3, PTL DEF CacheSpec

-----------------------------------------------------------------------------
(* Lists of payloads. *)

LEMMA TrimmedList ==
    ASSUME NEW X, NEW s \in Seq(X)
    PROVE  /\ Trimmed(s) \in Seq(X) /\ Len(Trimmed(s)) <= ReplayLimit
           /\ ToSet(Trimmed(s)) \subseteq ToSet(s)
           /\ Len(s) <= ReplayLimit => Trimmed(s) = s
           /\ Len(s) > ReplayLimit => Len(Trimmed(s)) = ReplayLimit
  <1> DEFINE n == IF Len(s) < ReplayLimit THEN Len(s) ELSE ReplayLimit
             t == SubSeq(s, 1, n)
  <1>1. n \in Nat /\ n <= Len(s) /\ n <= ReplayLimit /\ Len(s) \in Nat
        /\ (Len(s) <= ReplayLimit => n = Len(s)) /\ (Len(s) > ReplayLimit => n = ReplayLimit)
    BY LiveAssumption
  <1>2. Trimmed(s) = t
    BY DEF Trimmed
  <1> HIDE DEF n
  <1>3. t \in Seq(X) /\ Len(t) = n /\ \A i \in 1 .. n : t[i] = s[i]
    BY <1>1
  <1> HIDE DEF t
  <1>4. ToSet(t) \subseteq ToSet(s)
    BY <1>1, <1>3 DEF ToSet
  <1>5. Len(s) <= ReplayLimit => t = s
    BY <1>1, <1>3
  <1> QED
    BY <1>1, <1>2, <1>3, <1>4, <1>5

LEMMA ReversedList ==
    ASSUME NEW X, NEW s \in Seq(X)
    PROVE  Reverse(s) \in Seq(X) /\ Len(Reverse(s)) = Len(s) /\ ToSet(Reverse(s)) = ToSet(s)
  <1> DEFINE t == Reverse(s)
  <1>1. t \in Seq(X) /\ Len(t) = Len(s) /\ Len(s) \in Nat
    BY DEF Reverse
  <1>2. \A i \in 1 .. Len(s) : t[i] = s[Len(s) - i + 1] /\ Len(s) - i + 1 \in 1 .. Len(s)
    BY <1>1 DEF Reverse
  <1>3. \A i \in 1 .. Len(s) : t[Len(s) - i + 1] = s[i]
    <2>1. \A i \in 1 .. Len(s) : Len(s) - i + 1 \in 1 .. Len(s) /\ Len(s) - (Len(s) - i + 1) + 1 = i
      BY <1>1
    <2> QED
      BY <1>2, <2>1
  <1> HIDE DEF t
  <1>3a. /\ DOMAIN s = 1 .. Len(s) /\ DOMAIN t = 1 .. Len(s)
        /\ \A i \in 1 .. Len(s) : Len(s) - i + 1 \in 1 .. Len(s)
    BY <1>1
  <1>4. ToSet(t) = ToSet(s)
    <2>1. \A i \in DOMAIN s : \E k \in DOMAIN t : t[k] = s[i]
      BY <1>3, <1>3a
    <2>2. \A i \in DOMAIN t : \E k \in DOMAIN s : s[k] = t[i]
      BY <1>2, <1>3a
    <2> QED
      BY <2>1, <2>2 DEF ToSet
  <1> QED
    BY <1>1, <1>4 DEF t

LEMMA JoinedLists ==
    ASSUME NEW X, NEW s \in Seq(X), NEW t \in Seq(X)
    PROVE  /\ s \o t \in Seq(X) /\ Len(s \o t) = Len(s) + Len(t)
           /\ ToSet(s \o t) = ToSet(s) \cup ToSet(t)
  <1> DEFINE u == s \o t
  <1>1. u \in Seq(X) /\ Len(u) = Len(s) + Len(t) /\ Len(s) \in Nat /\ Len(t) \in Nat
    OBVIOUS
  <1>2. /\ \A i \in 1 .. Len(s) : i \in 1 .. Len(u) /\ u[i] = s[i]
        /\ \A i \in 1 .. Len(t) : Len(s) + i \in 1 .. Len(u) /\ u[Len(s) + i] = t[i]
        /\ \A i \in 1 .. Len(u) : \/ i \in 1 .. Len(s) /\ u[i] = s[i]
                                  \/ i - Len(s) \in 1 .. Len(t) /\ u[i] = t[i - Len(s)]
    OBVIOUS
  <1> HIDE DEF u
  <1>3. DOMAIN s = 1 .. Len(s) /\ DOMAIN t = 1 .. Len(t) /\ DOMAIN u = 1 .. Len(u)
    BY <1>1
  <1>4. ToSet(u) = ToSet(s) \cup ToSet(t)
    <2>1. \A i \in DOMAIN u : u[i] \in ToSet(s) \cup ToSet(t)
      BY <1>2, <1>3 DEF ToSet
    <2>2. /\ \A i \in DOMAIN s : \E k \in DOMAIN u : u[k] = s[i]
          /\ \A i \in DOMAIN t : \E k \in DOMAIN u : u[k] = t[i]
      BY <1>2, <1>3
    <2>3. ToSet(u) \subseteq ToSet(s) \cup ToSet(t)
      BY <2>1 DEF ToSet
    <2>4. ToSet(s) \subseteq ToSet(u) /\ ToSet(t) \subseteq ToSet(u)
      BY <2>2 DEF ToSet
    <2> QED
      BY <2>3, <2>4
  <1> QED
    BY <1>1, <1>4 DEF u

Once(s) == \A i, j \in DOMAIN s : s[i] = s[j] => i = j

\* A list without repetitions is not longer than one that holds all its entries.
LEMMA OnceIsShort ==
    ASSUME NEW X, NEW s \in Seq(X), NEW t \in Seq(X), Once(s), ToSet(s) \subseteq ToSet(t)
    PROVE  Len(s) <= Len(t)
  <1> DEFINE f == [i \in 1 .. Len(s) |-> CHOOSE k \in 1 .. Len(t) : t[k] = s[i]]
  <1>1. Len(s) \in Nat /\ Len(t) \in Nat
    OBVIOUS
  <1>2. \A i \in 1 .. Len(s) : \E k \in 1 .. Len(t) : t[k] = s[i]
    <2>1. DOMAIN s = 1 .. Len(s) /\ DOMAIN t = 1 .. Len(t)
      OBVIOUS
    <2>2. \A i \in DOMAIN s : s[i] \in ToSet(t)
      BY DEF ToSet
    <2> QED
      BY <2>1, <2>2 DEF ToSet
  <1>3. \A i \in 1 .. Len(s) : f[i] \in 1 .. Len(t) /\ t[f[i]] = s[i]
    BY <1>2
  <1>4. f \in [1 .. Len(s) -> 1 .. Len(t)]
    BY <1>3
  <1> HIDE DEF f
  <1>5. \A i, j \in 1 .. Len(s) : f[i] = f[j] => i = j
    BY <1>3 DEF Once
  <1>6. IsFiniteSet(1 .. Len(s)) /\ IsFiniteSet(1 .. Len(t))
    BY <1>1, FS_Interval
  <1>7. Cardinality(1 .. Len(s)) = Len(s) /\ Cardinality(1 .. Len(t)) = Len(t)
    <2>1. ASSUME NEW n \in Nat PROVE Cardinality(1 .. n) = n
      <3>1. Cardinality(1 .. n) = IF 1 > n THEN 0 ELSE n - 1 + 1
        BY FS_Interval
      <3> QED
        BY <3>1
    <2> QED
      BY <1>1, <2>1
  <1>8. ~(Cardinality(1 .. Len(t)) < Cardinality(1 .. Len(s)))
    <2> DEFINE S == 1 .. Len(s)
               T == 1 .. Len(t)
    <2>1. IsFiniteSet(S) /\ IsFiniteSet(T) /\ f \in [S -> T]
      BY <1>4, <1>6
    <2>2. \A i, j \in S : f[i] = f[j] => i = j
      BY <1>5
    <2> HIDE DEF S, T
    <2>3. ~(Cardinality(T) < Cardinality(S))
      BY <2>1, <2>2, FS_PigeonHole
    <2> QED
      BY <2>3 DEF S, T
  <1> QED
    BY <1>1, <1>7, <1>8

\* A set of a list: every entry is kept, and kept once.
LEMMA DistinctList ==
    ASSUME NEW X, NEW s \in Seq(X)
    PROVE  Distinct(s) \in Seq(X) /\ Once(Distinct(s)) /\ ToSet(Distinct(s)) = ToSet(s)
  <1> DEFINE New == {i \in DOMAIN s : \A j \in 1 .. (i - 1) : s[j] # s[i]}
             d == Picked(s, New)
  <1>0. PICK firsts : PickedAt(s, New, firsts)
    BY PickedPlaces
  <1>1. /\ firsts \in Seq(1 .. Len(s)) /\ \A k \in DOMAIN firsts : firsts[k] \in New
        /\ \A i \in 1 .. Len(s) : i \in New => \E k \in DOMAIN firsts : firsts[k] = i
        /\ \A k, l \in DOMAIN firsts : k < l => firsts[k] < firsts[l]
        /\ d \in Seq(X) /\ DOMAIN d = DOMAIN firsts
        /\ \A k \in DOMAIN firsts : d[k] = s[firsts[k]]
    <2> HIDE DEF New
    <2> QED
      BY <1>0, PickedPlaces DEF PickedAt, d
  <1>2. Distinct(s) = d
    BY DEF Distinct
  <1>3. /\ DOMAIN s = 1 .. Len(s) /\ Len(s) \in Nat
        /\ DOMAIN firsts = 1 .. Len(firsts) /\ Len(firsts) \in Nat
        /\ \A k \in DOMAIN firsts : firsts[k] \in 1 .. Len(s)
    BY <1>1
  <1> HIDE DEF d, New
  <1>4. Once(d)
    <2>1. SUFFICES ASSUME NEW k \in DOMAIN d, NEW l \in DOMAIN d, d[k] = d[l] PROVE k = l
      BY DEF Once
    <2>2. /\ firsts[k] \in 1 .. Len(s) /\ firsts[l] \in 1 .. Len(s)
          /\ s[firsts[k]] = s[firsts[l]] /\ firsts[k] \in New /\ firsts[l] \in New
      BY <1>1, <1>3, <2>1
    <2>3. /\ \A j \in 1 .. (firsts[k] - 1) : s[j] # s[firsts[k]]
          /\ \A j \in 1 .. (firsts[l] - 1) : s[j] # s[firsts[l]]
      BY <2>2 DEF New
    <2>4. ~(firsts[k] < firsts[l]) /\ ~(firsts[l] < firsts[k])
      BY <2>2, <2>3
    <2>5. ~(k < l) /\ ~(l < k)
      BY <1>1, <2>1, <2>4
    <2> QED
      BY <1>1, <1>3, <2>5
  <1>5. ASSUME NEW i \in 1 .. Len(s) PROVE \E k \in DOMAIN d : d[k] = s[i]
    <2> DEFINE T == {j \in 1 .. Len(s) : s[j] = s[i]}
    <2>1. PICK m \in T : \A j \in T : m <= j
      <3>1. T \in SUBSET Nat /\ i \in T
        OBVIOUS
      <3> QED
        BY <3>1, LeastNumber
    <2>2. m \in New
      <3>1. m \in 1 .. Len(s) /\ s[m] = s[i]
        BY <2>1
      <3>2. \A j \in 1 .. (m - 1) : j \in 1 .. Len(s) /\ ~(m <= j)
        BY <3>1
      <3>3. \A j \in 1 .. (m - 1) : s[j] # s[m]
        BY <2>1, <3>1, <3>2
      <3> QED
        BY <1>3, <3>1, <3>3 DEF New
    <2>3. PICK k \in DOMAIN firsts : firsts[k] = m
      BY <1>1, <2>1, <2>2
    <2> QED
      BY <1>1, <2>1, <2>3
  <1>6. ToSet(d) = ToSet(s)
    <2>1. ToSet(d) \subseteq ToSet(s)
      BY <1>1, <1>3 DEF ToSet
    <2>2. ToSet(s) \subseteq ToSet(d)
      BY <1>3, <1>5 DEF ToSet
    <2> QED
      BY <2>1, <2>2
  <1> QED
    BY <1>1, <1>2, <1>4, <1>6

-----------------------------------------------------------------------------
(* Types of the hub. *)

Phases == Connecting \union {"idle", "open"}

LiveTyped ==
    /\ list \in Seq(Payload) /\ wire \in Seq(Payload)
    /\ listed \in Seq(Payload) /\ recent \in Seq(Payload)
    /\ next \in Nat \ {0}
    /\ hub \in Phases /\ detached \in BOOLEAN /\ detachments \in Nat
    /\ conn \in [Page -> {"closed", "away", "waiting", "streaming", "refused"}]

\* A publication reaches the list, and the hub if it is attached.
LEMMA PushDoes ==
    ASSUME LiveTyped, NEW batch \in Seq(Payload), Push(batch)
    PROVE  /\ list' = Trimmed(Reverse(batch) \o list)
           /\ list' \in Seq(Payload) /\ wire' \in Seq(Payload)
           /\ Attached => wire' = wire \o batch
           /\ ~Attached => wire' = wire
  <1>1. list \in Seq(Payload) /\ wire \in Seq(Payload)
    BY DEF LiveTyped
  <1>2. Reverse(batch) \in Seq(Payload)
    BY ReversedList
  <1>3. Reverse(batch) \o list \in Seq(Payload)
    BY <1>1, <1>2
  <1>4. list' = Trimmed(Reverse(batch) \o list) /\ list' \in Seq(Payload)
    BY <1>3, TrimmedList DEF Push, Pushed
  <1>5. wire' = IF Attached THEN wire \o batch ELSE wire
    BY DEF Push
  <1>6. wire \o batch \in Seq(Payload)
    BY <1>1
  <1> QED
    BY <1>1, <1>4, <1>5, <1>6

\* What the publishers push: one launch, or the next events of a cycle.
LEMMA PublishersPush ==
    ASSUME LiveTyped, WorkerPublishes \/ \E e \in EventId : PushAnnouncement(e)
    PROVE  /\ \E batch \in Seq(Payload) : Push(batch)
           /\ next' \in Nat \ {0} /\ UNCHANGED <<hubState, conn, frames, bounds>>
  <1>1. CASE WorkerPublishes
    <2>1. PICK k \in 1 .. MaxBatch :
            /\ next + k <= Events + 1
            /\ Push([i \in 1 .. k |-> [id |-> next + i - 1, by |-> "worker"]])
            /\ next' = next + k
      BY <1>1 DEF WorkerPublishes
    <2>2. k \in Nat /\ next \in Nat \ {0} /\ Events \in Nat
      BY <2>1, LiveAssumption DEF LiveTyped
    <2>3. \A i \in 1 .. k : [id |-> next + i - 1, by |-> "worker"] \in Payload
      BY <2>1, <2>2 DEF Payload, EventId
    <2> DEFINE batch == [i \in 1 .. k |-> [id |-> next + i - 1, by |-> "worker"]]
    <2>4. batch \in Seq(Payload)
      BY <2>2, <2>3
    <2>5. Push(batch)
      BY <2>1
    <2> HIDE DEF batch
    <2>6. next' \in Nat \ {0}
      BY <2>1, <2>2
    <2>7. UNCHANGED <<hubState, conn, frames, bounds>>
      BY <1>1 DEF WorkerPublishes
    <2> QED
      BY <2>4, <2>5, <2>6, <2>7
  <1>2. CASE \E e \in EventId : PushAnnouncement(e)
    <2>1. PICK e \in EventId : PushAnnouncement(e)
      BY <1>2
    <2>2. [id |-> e, by |-> "route"] \in Payload
      BY DEF Payload
    <2>3. <<[id |-> e, by |-> "route"]>> \in Seq(Payload)
      BY <2>2
    <2> QED
      BY <2>1, <2>3 DEF PushAnnouncement, LiveTyped
  <1> QED
    BY <1>1, <1>2

\* The payload the channel delivers comes to the front of what the hub remembers.
LEMMA DeliverDoes ==
    ASSUME LiveTyped, Deliver
    PROVE  LET x == Head(wire)
               rest == Filtered(recent, Payload \ {x})
           IN  /\ wire # <<>> /\ x \in Payload /\ wire' = Tail(wire)
               /\ wire' \in Seq(Payload) /\ ToSet(wire) = {x} \cup ToSet(wire')
               /\ rest \in Seq(Payload) /\ recent' = Trimmed(<<x>> \o rest)
               /\ <<x>> \o rest \in Seq(Payload) /\ ToSet(<<x>> \o rest) = {x} \cup ToSet(recent)
               /\ Once(recent) => Once(<<x>> \o rest)
  <1> DEFINE x == Head(wire)
             rest == Filtered(recent, Payload \ {x})
             all == <<x>> \o rest
  <1>1. wire # <<>> /\ wire \in Seq(Payload) /\ wire' = Tail(wire) /\ recent \in Seq(Payload)
    BY DEF Deliver, LiveTyped
  <1>2. /\ x = wire[1] /\ x \in Payload /\ wire' \in Seq(Payload)
        /\ \A i \in DOMAIN wire' : i + 1 \in DOMAIN wire /\ wire'[i] = wire[i + 1]
        /\ \A i \in DOMAIN wire : i = 1 \/ (i - 1 \in DOMAIN wire' /\ wire'[i - 1] = wire[i])
        /\ 1 \in DOMAIN wire
    BY <1>1
  <1>3. recent' = Trimmed(all)
    BY DEF Deliver
  <1> HIDE DEF x
  <1>4. rest \in Seq(Payload \cap (Payload \ {x}))
    BY <1>1, FilteredEntries
  <1>5. ToSet(rest) = ToSet(recent) \ {x}
    <2>1. ToSet(rest) \subseteq ToSet(recent) \ {x}
      <3>1. recent \in Seq(ToSet(recent))
        BY <1>1 DEF ToSet
      <3>2. rest \in Seq(ToSet(recent) \cap (Payload \ {x}))
        BY <3>1, FilteredEntries
      <3> HIDE DEF rest
      <3>3. \A i \in DOMAIN rest : rest[i] \in ToSet(recent) \cap (Payload \ {x})
        BY <3>2
      <3> QED
        BY <3>3 DEF ToSet
    <2>2. ToSet(recent) \ {x} \subseteq ToSet(rest)
      <3>1. \A i \in 1 .. Len(recent) : recent[i] \in Payload \ {x} =>
               \E k \in DOMAIN rest : rest[k] = recent[i]
        BY <1>1, FilteredHasAll
      <3>2. DOMAIN recent = 1 .. Len(recent) /\ \A i \in DOMAIN recent : recent[i] \in Payload
        BY <1>1
      <3> HIDE DEF rest
      <3> QED
        BY <3>1, <3>2 DEF ToSet
    <2> QED
      BY <2>1, <2>2
  <1>6. Once(recent) => Once(rest)
    <2>1. SUFFICES ASSUME Once(recent) PROVE Once(rest)
      OBVIOUS
    <2>2. \A i, j \in 1 .. Len(recent) :
             recent[i] \in Payload \ {x} /\ recent[i] = recent[j] => i = j
      BY <1>1, <2>1 DEF Once
    <2> QED
      BY <1>1, <2>2, FilteredDistinct DEF Once
  <1> HIDE DEF rest
  <1>7. rest \in Seq(Payload)
    BY <1>4
  <1>8. /\ all \in Seq(Payload) /\ Len(all) = Len(rest) + 1 /\ all[1] = x
        /\ \A i \in 1 .. Len(rest) : all[i + 1] = rest[i]
        /\ \A i \in 1 .. Len(all) : \/ i = 1 /\ all[i] = x
                                    \/ i - 1 \in 1 .. Len(rest) /\ all[i] = rest[i - 1]
    BY <1>2, <1>7
  <1>9. <<x>> \in Seq(Payload) /\ ToSet(<<x>>) = {x}
    BY <1>2 DEF ToSet
  <1>10. ToSet(all) = {x} \cup ToSet(recent)
    <2>1. \A s, t \in Seq(Payload) : ToSet(s \o t) = ToSet(s) \cup ToSet(t)
      BY JoinedLists
    <2>2. ToSet(all) = ToSet(<<x>>) \cup ToSet(rest)
      BY <1>7, <1>9, <2>1, Zenon
    <2> QED
      BY <1>5, <1>9, <2>2
  <1> HIDE DEF all
  <1>11. ASSUME Once(recent) PROVE Once(all)
    <2>1. SUFFICES ASSUME NEW i \in 1 .. Len(all), NEW j \in 1 .. Len(all), all[i] = all[j]
                   PROVE  i = j
      BY <1>8 DEF Once
    <2>2. \A k \in 1 .. Len(rest) : rest[k] # x
      BY <1>4
    <2>3. CASE i = 1 \/ j = 1
      BY <1>8, <2>1, <2>2, <2>3
    <2>4. CASE i # 1 /\ j # 1
      <3>1. i - 1 \in 1 .. Len(rest) /\ j - 1 \in 1 .. Len(rest) /\ rest[i - 1] = rest[j - 1]
        BY <1>8, <2>1, <2>4
      <3>2. i - 1 = j - 1
        BY <1>6, <1>7, <1>11, <3>1 DEF Once
      <3> QED
        BY <1>8, <3>2
    <2> QED
      BY <2>3, <2>4
  <1>12. ToSet(wire) = {x} \cup ToSet(wire')
    <2>1. \A i \in DOMAIN wire : wire[i] = x \/ \E k \in DOMAIN wire' : wire'[k] = wire[i]
      BY <1>2
    <2>2. \A k \in DOMAIN wire' : \E i \in DOMAIN wire : wire[i] = wire'[k]
      BY <1>2
    <2>3. x \in ToSet(wire)
      BY <1>2 DEF ToSet
    <2> QED
      BY <2>1, <2>2, <2>3 DEF ToSet
  <1> QED
    BY <1>1, <1>2, <1>3, <1>7, <1>8, <1>10, <1>11, <1>12 DEF x, rest, all

LEMMA MergedDoes ==
    ASSUME LiveTyped
    PROVE  LET d == Distinct(listed \o recent)
           IN  /\ Merged = Trimmed(d) /\ d \in Seq(Payload) /\ Once(d)
               /\ ToSet(d) = ToSet(listed) \cup ToSet(recent) /\ Merged \in Seq(Payload)
  <1>1. listed \in Seq(Payload) /\ recent \in Seq(Payload)
    BY DEF LiveTyped
  <1>2. /\ listed \o recent \in Seq(Payload)
        /\ ToSet(listed \o recent) = ToSet(listed) \cup ToSet(recent)
    BY <1>1, JoinedLists
  <1> DEFINE d == Distinct(listed \o recent)
  <1>3. d \in Seq(Payload) /\ Once(d) /\ ToSet(d) = ToSet(listed) \cup ToSet(recent)
    BY <1>2, DistinctList
  <1>4. Merged = Trimmed(d)
    BY DEF Merged
  <1> HIDE DEF d
  <1>5. Trimmed(d) \in Seq(Payload)
    BY <1>3, TrimmedList
  <1> QED
    BY <1>3, <1>4, <1>5 DEF d

LEMMA LiveTypedKept == ASSUME LiveTyped, [LiveNext]_liveVars PROVE LiveTyped'
  <1>0. conn \in [Page -> {"closed", "away", "waiting", "streaming", "refused"}]
    BY DEF LiveTyped
  <1>0e. <<>> \in Seq(Payload)
    OBVIOUS
  <1>1. CASE WorkerPublishes \/ \E e \in EventId : PushAnnouncement(e)
    <2>1. PICK batch \in Seq(Payload) : Push(batch)
      BY <1>1, PublishersPush
    <2> QED
      BY <1>1, <2>1, PushDoes, PublishersPush DEF LiveTyped, hubState, bounds
  <1>2. CASE \E e \in EventId : ClaimAnnouncement(e) \/ LoseAnnouncement(e) \/ Age(e)
    BY <1>2 DEF ClaimAnnouncement, LoseAnnouncement, Age, LiveTyped, redis, hubState, streams, bounds
  <1>3. CASE Dialed \/ SubscribeChannel
    BY <1>3 DEF Dialed, SubscribeChannel, LiveTyped, redis, publishers, streams, bounds, Phases,
       Connecting
  <1>4. CASE ReadRecent
    BY <1>4 DEF ReadRecent, LiveTyped, redis, publishers, streams, bounds, Phases, Connecting
  <1>5. CASE FinishConnect
    <2>1. Merged \in Seq(Payload)
      BY MergedDoes
    <2>2. conn' \in [Page -> {"closed", "away", "waiting", "streaming", "refused"}]
      BY <1>0, <1>5 DEF FinishConnect, StreamsStart
    <2> QED
      BY <1>0e, <1>5, <2>1, <2>2 DEF FinishConnect, LiveTyped, redis, publishers, bounds, Phases
  <1>6. CASE Deliver
    <2>1. wire' \in Seq(Payload)
      BY <1>6, DeliverDoes
    <2>2. recent' \in Seq(Payload)
      <3> DEFINE all == <<Head(wire)>> \o Filtered(recent, Payload \ {Head(wire)})
      <3>1. all \in Seq(Payload) /\ recent' = Trimmed(all)
        BY <1>6, DeliverDoes
      <3> HIDE DEF all
      <3> QED
        BY <3>1, TrimmedList
    <2> QED
      BY <1>6, <2>1, <2>2 DEF Deliver, LiveTyped, publishers, bounds
  <1>7. CASE Reattach
    BY <1>7 DEF Reattach, LiveTyped, redis, publishers, streams, bounds
  <1>8. CASE ConnectFails
    <2>1. conn' \in [Page -> {"closed", "away", "waiting", "streaming", "refused"}]
      BY <1>0, <1>8 DEF ConnectFails
    <2> QED
      BY <1>0e, <1>8, <2>1 DEF ConnectFails, LiveTyped, publishers, Phases
  <1>9. CASE Detach
    BY <1>0e, <1>9 DEF Detach, LiveTyped, publishers, streams
  <1>10. CASE Restart
    <2>1. conn' \in [Page -> {"closed", "away", "waiting", "streaming", "refused"}]
      BY <1>0, <1>10 DEF Restart
    <2> QED
      BY <1>0e, <1>10, <2>1 DEF Restart, LiveTyped, Phases
  <1>11. CASE \E p \in Page : Subscribe(p)
    <2>1. PICK p \in Page : Subscribe(p)
      BY <1>11
    <2>2. conn' \in [Page -> {"closed", "away", "waiting", "streaming", "refused"}]
      BY <1>0, <2>1 DEF Subscribe, StreamsStart
    <2>3. hub' \in Phases
      BY <2>1 DEF Subscribe, LiveTyped, Phases, Connecting
    <2> QED
      BY <2>1, <2>2, <2>3 DEF Subscribe, LiveTyped, redis, publishers, bounds
  <1>12. CASE \E p \in Page : Receive(p)
    BY <1>12 DEF Receive, LiveTyped, redis, publishers, hubState, bounds
  <1>13. CASE \E p \in Page : Drop(p)
    <2>1. conn' \in [Page -> {"closed", "away", "waiting", "streaming", "refused"}]
      BY <1>0, <1>13 DEF Drop
    <2> QED
      BY <1>13, <2>1 DEF Drop, LiveTyped, redis, publishers, hubState
  <1>14. CASE UNCHANGED liveVars
    BY <1>14 DEF LiveTyped, liveVars, redis, publishers, hubState, streams, bounds
  <1> QED
    BY <1>1, <1>2, <1>3, <1>4, <1>5, <1>6, <1>7, <1>8, <1>9, <1>10, <1>11, <1>12, <1>13, <1>14
    DEF LiveNext, HubStep, HubFault

LEMMA LiveTypedFirst == ASSUME NEW phase \in {"idle", "open"}, LiveInitWith(phase) PROVE LiveTyped
  <1>1. <<>> \in Seq(Payload)
    OBVIOUS
  <1>2. conn \in [Page -> {"closed", "away", "waiting", "streaming", "refused"}]
    BY DEF LiveInitWith
  <1>3. list = <<>> /\ wire = <<>> /\ listed = <<>> /\ recent = <<>>
    BY DEF LiveInitWith
  <1>4. next \in Nat \ {0} /\ hub \in Phases /\ detached \in BOOLEAN /\ detachments \in Nat
    <2>1. next = 1 /\ hub = phase /\ detached = FALSE /\ detachments = 0
      BY DEF LiveInitWith
    <2>2. hub \in Phases
      BY <2>1, Zenon DEF Phases
    <2>3. next \in Nat \ {0} /\ detachments \in Nat
      BY <2>1
    <2> QED
      BY <2>1, <2>2, <2>3, Zenon
  <1> QED
    BY <1>1, <1>2, <1>3, <1>4 DEF LiveTyped

-----------------------------------------------------------------------------
(* Nobody is forgotten by a hub that starts. *)

LEMMA WaitingKept ==
    ASSUME LiveTyped, WaitingIsServed, [LiveNext]_liveVars
    PROVE  WaitingIsServed'
  <1>0. conn \in [Page -> {"closed", "away", "waiting", "streaming", "refused"}]
    BY DEF LiveTyped
  <1>1. CASE UNCHANGED <<conn, hub>>
    BY <1>1 DEF WaitingIsServed, Connecting
  <1>2. CASE Dialed \/ SubscribeChannel \/ ReadRecent
    BY <1>2 DEF Dialed, SubscribeChannel, ReadRecent, streams, WaitingIsServed, Connecting
  <1>3. CASE FinishConnect
    BY <1>0, <1>3 DEF FinishConnect, StreamsStart, Awaiting, WaitingIsServed
  <1>4. CASE ConnectFails
    BY <1>4 DEF ConnectFails, Awaiting, WaitingIsServed
  <1>5. CASE Restart
    BY <1>5 DEF Restart, Listeners, WaitingIsServed
  <1>6. CASE \E p \in Page : Subscribe(p)
    <2>1. PICK p \in Page : Subscribe(p)
      BY <1>6
    <2>2. CASE hub \in {"idle", "dialing"}
      BY <2>1, <2>2 DEF Subscribe, WaitingIsServed, Connecting
    <2>3. CASE hub \notin {"idle", "dialing"}
      BY <2>1, <2>3 DEF Subscribe, StreamsStart, WaitingIsServed
    <2> QED
      BY <2>2, <2>3
  <1>7. CASE \E p \in Page : Drop(p)
    BY <1>0, <1>7 DEF Drop, hubState, WaitingIsServed
  <1>8. CASE WorkerPublishes \/ \E e \in EventId : PushAnnouncement(e)
    BY <1>1, <1>8, PublishersPush DEF hubState
  <1>9. CASE \/ \E e \in EventId : ClaimAnnouncement(e) \/ LoseAnnouncement(e) \/ Age(e)
             \/ Deliver \/ Reattach \/ Detach \/ \E p \in Page : Receive(p)
             \/ UNCHANGED liveVars
    BY <1>1, <1>9 DEF ClaimAnnouncement, LoseAnnouncement, Age, Deliver, Reattach, Detach, Receive,
       liveVars, hubState, streams
  <1> QED
    BY <1>2, <1>3, <1>4, <1>5, <1>6, <1>7, <1>8, <1>9 DEF LiveNext, HubStep, HubFault

\* Whoever waits for the hub waits for a connection attempt that is under way
\* (connectHub, subscribeLiveEvents), in a process that starts cold and in one
\* that has been serving.
THEOREM WaitersAreServed == LiveSpec \/ WarmSpec => []WaitingIsServed
  <1>1. ASSUME NEW phase \in {"idle", "open"}
        PROVE  LiveInitWith(phase) => LiveTyped /\ WaitingIsServed
    BY LiveTypedFirst DEF LiveInitWith, WaitingIsServed
  <1>2. LiveInit \/ LiveInitWith("open") => LiveTyped /\ WaitingIsServed
    BY <1>1 DEF LiveInit
  <1>3. LiveTyped /\ WaitingIsServed /\ [LiveNext]_liveVars => (LiveTyped /\ WaitingIsServed)'
    BY LiveTypedKept, WaitingKept
  <1> QED
    BY <1>2, <1>3, PTL DEF LiveSpec, WarmSpec

-----------------------------------------------------------------------------
(* The start of the hub leaves no gap. *)

\* As long as nothing has been cut off the list, it holds whatever the hub has
\* seen; and what it holds has been seen, or will be.
StartInv ==
    /\ detached => detachments # 0
    /\ Len(list) < ReplayLimit =>
          /\ ToSet(wire) \subseteq ToSet(list)
          /\ ToSet(listed) \subseteq ToSet(list)
          /\ ToSet(recent) \subseteq ToSet(list)
          /\ Once(recent)
          /\ hub = "open" /\ detachments = 0 =>
                ToSet(list) \subseteq ToSet(recent) \cup ToSet(wire)
          /\ hub = "read" /\ detachments = 0 =>
                ToSet(list) \subseteq ToSet(listed) \cup ToSet(recent) \cup ToSet(wire)

\* Neither a delivery nor the merge cuts anything off.
LEMMA NothingCutOff ==
    ASSUME LiveTyped, Len(list) < ReplayLimit, NEW s \in Seq(Payload), Once(s),
           ToSet(s) \subseteq ToSet(list)
    PROVE  Trimmed(s) = s
  <1>1. list \in Seq(Payload)
    BY DEF LiveTyped
  <1>2. Len(s) <= Len(list)
    BY <1>1, OnceIsShort
  <1>3. Len(s) <= ReplayLimit
    BY <1>1, <1>2, LiveAssumption
  <1> QED
    BY <1>3, TrimmedList

LEMMA PushKeepsStart ==
    ASSUME LiveTyped, StartInv, NEW batch \in Seq(Payload), Push(batch),
           UNCHANGED <<hub, detached, listed, recent, detachments>>
    PROVE  StartInv'
  <1>1. /\ list \in Seq(Payload) /\ wire \in Seq(Payload) /\ Reverse(batch) \in Seq(Payload)
        /\ ToSet(Reverse(batch)) = ToSet(batch)
    BY ReversedList DEF LiveTyped
  <1> DEFINE all == Reverse(batch) \o list
  <1>2. all \in Seq(Payload) /\ Len(all) >= Len(list) /\ ToSet(all) = ToSet(batch) \cup ToSet(list)
    <2>1. Len(all) = Len(Reverse(batch)) + Len(list) /\ Len(Reverse(batch)) \in Nat /\ Len(list) \in Nat
      BY <1>1
    <2> QED
      BY <1>1, <2>1, JoinedLists
  <1>3. list' = Trimmed(all)
    BY PushDoes
  <1> HIDE DEF all
  <1>4. SUFFICES ASSUME Len(list') < ReplayLimit PROVE StartInv'
    BY DEF StartInv
  <1>5. Len(all) <= ReplayLimit
    <2>1. Len(all) > ReplayLimit => Len(list') = ReplayLimit
      BY <1>2, <1>3, TrimmedList
    <2>2. Len(all) \in Nat /\ ReplayLimit \in Nat
      BY <1>2, LiveAssumption
    <2> QED
      BY <1>4, <2>1, <2>2
  <1>6. list' = all /\ Len(list) < ReplayLimit
    BY <1>1, <1>2, <1>3, <1>4, <1>5, TrimmedList, LiveAssumption
  <1>7. ToSet(list') = ToSet(batch) \cup ToSet(list)
    BY <1>2, <1>6
  <1>8. /\ Attached => ToSet(wire') = ToSet(wire) \cup ToSet(batch)
        /\ ~Attached => wire' = wire
    <2>1. ToSet(wire \o batch) = ToSet(wire) \cup ToSet(batch)
      BY <1>1, JoinedLists
    <2>2. Attached => wire' = wire \o batch
      BY PushDoes
    <2>3. ~Attached => wire' = wire
      BY PushDoes
    <2> QED
      BY <2>1, <2>2, <2>3
  <1>9. ToSet(wire') \subseteq ToSet(list')
    BY <1>6, <1>7, <1>8 DEF StartInv
  <1>10. detachments = 0 /\ hub \in {"open", "read"} => Attached
    BY DEF StartInv, Attached, LiveTyped
  <1> QED
    BY <1>6, <1>7, <1>8, <1>9, <1>10 DEF StartInv

LEMMA DeliverKeepsStart == ASSUME LiveTyped, StartInv, Deliver PROVE StartInv'
  <1> DEFINE x == Head(wire)
             rest == Filtered(recent, Payload \ {x})
             all == <<x>> \o rest
  <1>1. /\ ToSet(wire) = {x} \cup ToSet(wire') /\ recent' = Trimmed(all)
        /\ all \in Seq(Payload) /\ ToSet(all) = {x} \cup ToSet(recent)
        /\ Once(recent) => Once(all)
    BY DeliverDoes
  <1> HIDE DEF x, rest, all
  <1>2. UNCHANGED <<list, hub, detached, listed, detachments>>
    BY DEF Deliver, bounds
  <1>3. SUFFICES ASSUME Len(list) < ReplayLimit PROVE StartInv'
    BY <1>2 DEF StartInv
  <1>4. Once(all) /\ ToSet(all) \subseteq ToSet(list)
    BY <1>1, <1>3 DEF StartInv
  <1>5. recent' = all
    BY <1>1, <1>3, <1>4, NothingCutOff
  <1>6. ToSet(recent') \cup ToSet(wire') = ToSet(recent) \cup ToSet(wire)
    BY <1>1, <1>5
  <1> QED
    BY <1>1, <1>2, <1>3, <1>4, <1>5, <1>6 DEF StartInv

LEMMA MergeKeepsStart == ASSUME LiveTyped, StartInv, FinishConnect PROVE StartInv'
  <1> DEFINE d == Distinct(listed \o recent)
  <1>1. /\ Merged = Trimmed(d) /\ d \in Seq(Payload) /\ Once(d)
        /\ ToSet(d) = ToSet(listed) \cup ToSet(recent)
    BY MergedDoes
  <1> HIDE DEF d
  <1>2. /\ UNCHANGED <<list, wire, detached, detachments>> /\ recent' = Merged /\ listed' = <<>>
        /\ hub = "read" /\ hub' = "open"
    BY DEF FinishConnect, redis, bounds
  <1>3. SUFFICES ASSUME Len(list) < ReplayLimit PROVE StartInv'
    BY <1>2 DEF StartInv
  <1>4. ToSet(d) \subseteq ToSet(list)
    BY <1>1, <1>3 DEF StartInv
  <1>5. recent' = d
    BY <1>1, <1>2, <1>3, <1>4, NothingCutOff
  <1>6. ToSet(listed') = {}
    BY <1>2 DEF ToSet
  <1>7. hub' = "open" /\ detachments' = 0 => ToSet(list') \subseteq ToSet(recent') \cup ToSet(wire')
    BY <1>1, <1>2, <1>3, <1>5 DEF StartInv
  <1> QED
    BY <1>1, <1>2, <1>3, <1>4, <1>5, <1>6, <1>7 DEF StartInv

LEMMA StartKept == ASSUME LiveTyped, StartInv, [LiveNext]_liveVars PROVE StartInv'
  <1>0. ToSet(<<>>) = {} /\ Once(<<>>)
    BY DEF ToSet, Once
  <1>1. CASE WorkerPublishes \/ \E e \in EventId : PushAnnouncement(e)
    BY <1>1, PublishersPush, PushKeepsStart DEF hubState, bounds
  <1>2. CASE UNCHANGED <<list, wire, hub, detached, listed, recent, detachments>>
    BY <1>2 DEF StartInv
  <1>3. CASE \E e \in EventId : ClaimAnnouncement(e) \/ LoseAnnouncement(e) \/ Age(e)
    BY <1>2, <1>3 DEF ClaimAnnouncement, LoseAnnouncement, Age, redis, hubState, bounds
  <1>4. CASE Dialed \/ SubscribeChannel
    BY <1>4 DEF Dialed, SubscribeChannel, redis, bounds, StartInv
  <1>5. CASE ReadRecent
    <2>1. /\ UNCHANGED <<list, wire, detached, recent, detachments>>
          /\ hub' = "read" /\ listed' = list
      BY <1>5 DEF ReadRecent, redis, bounds
    <2> QED
      BY <2>1 DEF StartInv
  <1>6. CASE FinishConnect
    BY <1>6, MergeKeepsStart
  <1>7. CASE Deliver
    BY <1>7, DeliverKeepsStart
  <1>8. CASE Reattach
    BY <1>8 DEF Reattach, redis, bounds, StartInv
  <1>9. CASE ConnectFails
    <2>1. /\ UNCHANGED <<list, detached, recent, detachments>>
          /\ hub' = "idle" /\ wire' = <<>> /\ listed' = <<>>
      BY <1>9 DEF ConnectFails
    <2> QED
      BY <1>0, <2>1 DEF StartInv
  <1>10. CASE Detach
    <2>1. /\ UNCHANGED <<list, recent, listed, hub>> /\ wire' = <<>>
          /\ detachments' = detachments + 1 /\ hub = "open"
      BY <1>10 DEF Detach
    <2>2. detachments' # 0
      BY <2>1 DEF LiveTyped
    <2> QED
      BY <1>0, <2>1, <2>2 DEF StartInv
  <1>11. CASE Restart
    <2>1. /\ UNCHANGED <<list, detachments>> /\ hub' = "idle" /\ detached' = FALSE
          /\ wire' = <<>> /\ listed' = <<>> /\ recent' = <<>>
      BY <1>11 DEF Restart
    <2> QED
      BY <1>0, <2>1 DEF StartInv
  <1>12. CASE \E p \in Page : Subscribe(p)
    <2>1. /\ UNCHANGED <<list, wire, detached, listed, recent, detachments>>
          /\ hub' = hub \/ hub' = "dialing"
      BY <1>12 DEF Subscribe, redis, bounds
    <2> QED
      BY <2>1 DEF StartInv
  <1>13. CASE \/ \E p \in Page : Receive(p) \/ Drop(p)
              \/ UNCHANGED liveVars
    BY <1>2, <1>13 DEF Receive, Drop, redis, hubState, bounds, liveVars
  <1> QED
    BY <1>1, <1>3, <1>4, <1>5, <1>6, <1>7, <1>8, <1>9, <1>10, <1>11, <1>12, <1>13
    DEF LiveNext, HubStep, HubFault

\* The comment in connectHub, "Subscribe before the initial read so an event
\* published during startup is observed either by pub/sub, the recent-event list,
\* or both", is true until the list is full, also after a restart and after failed
\* attempts.
THEOREM StartLeavesNoGap == LiveSpec => []StartupObserved
  <1>1. LiveInit => LiveTyped /\ StartInv
    <2> SUFFICES ASSUME LiveInit PROVE LiveTyped /\ StartInv
      OBVIOUS
    <2>1. LiveTyped
      BY LiveTypedFirst DEF LiveInit
    <2>2. /\ detached = FALSE /\ hub = "idle"
          /\ wire = <<>> /\ listed = <<>> /\ recent = <<>>
      BY DEF LiveInit, LiveInitWith
    <2>3. ToSet(<<>>) = {} /\ Once(<<>>)
      BY DEF ToSet, Once
    <2> QED
      BY <2>1, <2>2, <2>3 DEF StartInv
  <1>2. LiveTyped /\ StartInv /\ [LiveNext]_liveVars => (LiveTyped /\ StartInv)'
    BY LiveTypedKept, StartKept
  <1>3. StartInv => StartupObserved
    BY DEF StartInv, StartupObserved
  <1> QED
    BY <1>1, <1>2, <1>3, PTL DEF LiveSpec
-----------------------------------------------------------------------------
(* The pages: an event is dispatched once. *)

PageTyped ==
    /\ frames \in [Page -> Seq(Payload)]
    /\ lastId \in [Page -> EventId \union {NoId}]
    /\ seen \in [Page -> Seq(EventId)]
    /\ applied \in [Page -> [EventId -> Nat]]

\* The first place of an event in a list.
LEMMA FirstPlace ==
    ASSUME NEW r \in Seq(Payload), NEW at, at \subseteq DOMAIN r, at # {}
    PROVE  Min(at) \in at /\ Min(at) \in 1 .. Len(r) /\ \A i \in at : Min(at) <= i
  <1>1. at \in SUBSET Nat /\ at \subseteq 1 .. Len(r)
    OBVIOUS
  <1>2. \E i \in at : \A j \in at : i <= j
    BY <1>1, LeastNumber
  <1>3. Min(at) \in at /\ \A i \in at : Min(at) <= i
    BY <1>2 DEF Min
  <1> QED
    BY <1>1, <1>3

LEMMA ReplayTyped ==
    ASSUME NEW r \in Seq(Payload), NEW last
    PROVE  Replay(r, last) \in Seq(Payload)
  <1> DEFINE at == {i \in DOMAIN r : r[i].id = last}
             new == {i \in DOMAIN r : /\ r[i].id \in Launches \ aged
                                      /\ \A j \in 1 .. (i - 1) : r[j].id # r[i].id}
  <1>1. RecentLaunches(r) \in Seq(Payload)
    <2>1. RecentLaunches(r) = Reverse(Picked(r, new))
      BY DEF RecentLaunches
    <2> HIDE DEF new
    <2>2. Picked(r, new) \in Seq(Payload)
      BY PickedPlaces
    <2> QED
      BY <2>1, <2>2, ReversedList
  <1>2. ASSUME at # {} PROVE Reverse(SubSeq(r, 1, Min(at) - 1)) \in Seq(Payload)
    <2>1. at \subseteq DOMAIN r
      OBVIOUS
    <2> HIDE DEF at
    <2>2. Min(at) \in 1 .. Len(r) /\ Len(r) \in Nat
      BY <1>2, <2>1, FirstPlace
    <2>3. SubSeq(r, 1, Min(at) - 1) \in Seq(Payload)
      <3>1. \A i \in 1 .. (Min(at) - 1) : r[i] \in Payload
        BY <2>2
      <3> QED
        BY <2>2, <3>1
    <2> QED
      BY <2>3, ReversedList
  <1>3. <<>> \in Seq(Payload)
    OBVIOUS
  <1>4. Replay(r, last) = IF last = NoId THEN RecentLaunches(r)
                          ELSE IF at = {} THEN <<>> ELSE Reverse(SubSeq(r, 1, Min(at) - 1))
    BY DEF Replay
  <1> HIDE DEF at
  <1> QED
    BY <1>1, <1>2, <1>3, <1>4

\* What the streams that start put in front of their pages.
LEMMA StartsTyped ==
    ASSUME frames \in [Page -> Seq(Payload)], NEW S, NEW r \in Seq(Payload), StreamsStart(S, r)
    PROVE  frames' \in [Page -> Seq(Payload)]
  <1>1. \A p \in Page : Replay(r, lastId[p]) \in Seq(Payload)
    BY ReplayTyped
  <1>2. \A p \in Page : frames[p] \o Replay(r, lastId[p]) \in Seq(Payload)
    BY <1>1
  <1> QED
    BY <1>2 DEF StreamsStart

\* What a page does with the first frame of its stream.
LEMMA ReceiveDoes ==
    ASSUME PageTyped, NEW p \in Page, Receive(p)
    PROVE  \E e \in EventId :
              /\ e = Head(frames[p]).id /\ frames[p] # <<>>
              /\ lastId' = [lastId EXCEPT ![p] = e]
              /\ frames' = [frames EXCEPT ![p] = Tail(frames[p])] /\ Tail(frames[p]) \in Seq(Payload)
              /\ \/ e \in ToSet(seen[p]) /\ seen' = seen /\ applied' = applied
                 \/ /\ e \notin ToSet(seen[p])
                    /\ seen' = [seen EXCEPT ![p] = Remember(seen[p], e)]
                    /\ applied' = [applied EXCEPT ![p] = [applied[p] EXCEPT ![e] = @ + 1]]
  <1>1. frames[p] \in Seq(Payload) /\ frames[p] # <<>>
    BY DEF Receive, PageTyped
  <1>2. Head(frames[p]) \in Payload /\ Tail(frames[p]) \in Seq(Payload)
    BY <1>1
  <1>3. Head(frames[p]).id \in EventId
    BY <1>2 DEF Payload
  <1> QED
    BY <1>1, <1>2, <1>3 DEF Receive, AlreadySeen

\* What a page remembers after an event.
LEMMA RememberDoes ==
    ASSUME NEW s \in Seq(EventId), NEW e \in EventId
    PROVE  /\ Remember(s, e) \in Seq(EventId)
           /\ Len(Remember(s, e)) < DedupeLimit =>
                 Len(s) < DedupeLimit /\ ToSet(Remember(s, e)) = ToSet(s) \union {e}
  <1>1. DedupeLimit \in Nat \ {0} /\ Len(s) \in Nat /\ <<e>> \in Seq(EventId)
    BY LiveAssumption
  <1>2. CASE Len(s) >= DedupeLimit
    <2>1. Tail(s) \in Seq(EventId) /\ Len(Tail(s)) = Len(s) - 1
      BY <1>1, <1>2
    <2>2. Append(Tail(s), e) \in Seq(EventId) /\ Len(Append(Tail(s), e)) = Len(s)
      BY <1>1, <2>1
    <2> QED
      BY <1>1, <1>2, <2>2 DEF Remember
  <1>3. CASE ~(Len(s) >= DedupeLimit)
    <2>1. Remember(s, e) = s \o <<e>>
      BY <1>3 DEF Remember
    <2>2. s \o <<e>> \in Seq(EventId) /\ ToSet(s \o <<e>>) = ToSet(s) \union ToSet(<<e>>)
      BY <1>1, JoinedLists
    <2>3. ToSet(<<e>>) = {e}
      BY DEF ToSet
    <2> QED
      BY <1>1, <1>3, <2>1, <2>2, <2>3
  <1> QED
    BY <1>2, <1>3

LEMMA PageTypedKept == ASSUME LiveTyped, PageTyped, [LiveNext]_liveVars PROVE PageTyped'
  <1>0. frames \in [Page -> Seq(Payload)] /\ <<>> \in Seq(Payload) /\ recent \in Seq(Payload)
    BY DEF LiveTyped, PageTyped
  <1>1. CASE UNCHANGED <<page, frames>>
    BY <1>1 DEF PageTyped, page
  <1>2. CASE UNCHANGED page /\ frames' \in [Page -> Seq(Payload)]
    BY <1>2 DEF PageTyped, page
  <1>3. CASE \E p \in Page : Receive(p)
    <2>1. PICK p \in Page : Receive(p)
      BY <1>3
    <2>2. PICK e \in EventId :
            /\ lastId' = [lastId EXCEPT ![p] = e]
            /\ frames' = [frames EXCEPT ![p] = Tail(frames[p])] /\ Tail(frames[p]) \in Seq(Payload)
            /\ \/ seen' = seen /\ applied' = applied
               \/ /\ seen' = [seen EXCEPT ![p] = Remember(seen[p], e)]
                  /\ applied' = [applied EXCEPT ![p] = [applied[p] EXCEPT ![e] = @ + 1]]
      BY <2>1, ReceiveDoes
    <2>3. seen[p] \in Seq(EventId) /\ applied[p] \in [EventId -> Nat]
      BY DEF PageTyped
    <2>4. Remember(seen[p], e) \in Seq(EventId)
      BY <2>3, RememberDoes
    <2>5. seen' \in [Page -> Seq(EventId)]
      BY <2>2, <2>4 DEF PageTyped
    <2>6. applied' \in [Page -> [EventId -> Nat]]
      <3>1. [applied[p] EXCEPT ![e] = @ + 1] \in [EventId -> Nat]
        BY <2>3
      <3> QED
        BY <2>2, <3>1 DEF PageTyped
    <2>7. frames' \in [Page -> Seq(Payload)]
      BY <1>0, <2>2
    <2>8. lastId' \in [Page -> EventId \union {NoId}]
      BY <2>2 DEF PageTyped
    <2> QED
      BY <2>5, <2>6, <2>7, <2>8 DEF PageTyped
  <1>4. CASE WorkerPublishes \/ \E e \in EventId : PushAnnouncement(e)
    BY <1>1, <1>4 DEF WorkerPublishes, PushAnnouncement
  <1>5. CASE \E e \in EventId : ClaimAnnouncement(e) \/ LoseAnnouncement(e) \/ Age(e)
    BY <1>1, <1>5 DEF ClaimAnnouncement, LoseAnnouncement, Age, streams
  <1>6. CASE Dialed \/ SubscribeChannel \/ ReadRecent \/ Reattach \/ Detach \/ UNCHANGED liveVars
    BY <1>1, <1>6 DEF Dialed, SubscribeChannel, ReadRecent, Reattach, Detach, liveVars, streams
  <1>7. CASE FinishConnect
    <2>1. StreamsStart(Awaiting, Merged) /\ UNCHANGED page
      BY <1>7 DEF FinishConnect
    <2>2. Merged \in Seq(Payload)
      BY MergedDoes
    <2> QED
      BY <1>0, <1>2, <2>1, <2>2, StartsTyped
  <1>8. CASE \E p \in Page : Subscribe(p)
    <2>1. PICK p \in Page : Subscribe(p)
      BY <1>8
    <2>2. UNCHANGED page /\ (frames' = frames \/ StreamsStart({p}, recent))
      BY <2>1 DEF Subscribe
    <2> QED
      BY <1>0, <1>2, <2>2, StartsTyped
  <1>9. CASE Deliver
    <2>1. Head(wire) \in Payload
      BY <1>9, DeliverDoes
    <2>2. \A p \in Page : Append(frames[p], Head(wire)) \in Seq(Payload)
      BY <1>0, <2>1
    <2>3. frames' = [p \in Page |-> IF p \in Listeners THEN Append(frames[p], Head(wire))
                                    ELSE frames[p]]
      BY <1>9 DEF Deliver
    <2>4. frames' \in [Page -> Seq(Payload)]
      BY <1>0, <2>2, <2>3
    <2> QED
      BY <1>2, <1>9, <2>4 DEF Deliver
  <1>10. CASE ConnectFails \/ Restart \/ \E p \in Page : Drop(p)
    <2>1. frames' \in [Page -> Seq(Payload)]
      BY <1>0, <1>10 DEF ConnectFails, Restart, Drop
    <2> QED
      BY <1>2, <1>10, <2>1 DEF ConnectFails, Restart, Drop
  <1> QED
    BY <1>3, <1>4, <1>5, <1>6, <1>7, <1>8, <1>9, <1>10 DEF LiveNext, HubStep, HubFault

\* Until a page has to forget an id, it remembers every event it dispatched.
RemembersInv ==
    \A p \in Page : Len(seen[p]) < DedupeLimit =>
        \A e \in EventId : applied[p][e] <= 1 /\ (applied[p][e] # 0 => e \in ToSet(seen[p]))

LEMMA RemembersKept ==
    ASSUME LiveTyped, PageTyped, RemembersInv, [LiveNext]_liveVars PROVE RemembersInv'
  <1>1. CASE UNCHANGED page
    BY <1>1 DEF RemembersInv, page
  <1>2. CASE \E p \in Page : Receive(p)
    <2>1. PICK p \in Page : Receive(p)
      BY <1>2
    <2>2. PICK e \in EventId :
             \/ e \in ToSet(seen[p]) /\ seen' = seen /\ applied' = applied
             \/ /\ e \notin ToSet(seen[p])
                /\ seen' = [seen EXCEPT ![p] = Remember(seen[p], e)]
                /\ applied' = [applied EXCEPT ![p] = [applied[p] EXCEPT ![e] = @ + 1]]
      BY <2>1, ReceiveDoes
    <2>3. CASE seen' = seen /\ applied' = applied
      BY <2>3 DEF RemembersInv
    <2>4. CASE /\ e \notin ToSet(seen[p])
               /\ seen' = [seen EXCEPT ![p] = Remember(seen[p], e)]
               /\ applied' = [applied EXCEPT ![p] = [applied[p] EXCEPT ![e] = @ + 1]]
      <3>1. /\ seen[p] \in Seq(EventId) /\ applied[p] \in [EventId -> Nat]
            /\ seen \in [Page -> Seq(EventId)] /\ applied \in [Page -> [EventId -> Nat]]
        BY DEF PageTyped
      <3>2. /\ seen'[p] = Remember(seen[p], e)
            /\ applied'[p][e] = applied[p][e] + 1
            /\ \A x \in EventId : x # e => applied'[p][x] = applied[p][x]
            /\ \A q \in Page : q # p => seen'[q] = seen[q] /\ applied'[q] = applied[q]
        BY <2>4, <3>1
      <3>3. ASSUME Len(seen'[p]) < DedupeLimit
            PROVE  Len(seen[p]) < DedupeLimit /\ ToSet(seen'[p]) = ToSet(seen[p]) \union {e}
        BY <3>1, <3>2, <3>3, RememberDoes
      <3>4. ASSUME Len(seen'[p]) < DedupeLimit, NEW x \in EventId
            PROVE  applied'[p][x] <= 1 /\ (applied'[p][x] # 0 => x \in ToSet(seen'[p]))
        <4>1. applied[p][x] <= 1 /\ (applied[p][x] # 0 => x \in ToSet(seen[p]))
          BY <3>3, <3>4 DEF RemembersInv
        <4>2. CASE x = e
          BY <2>4, <3>1, <3>2, <3>3, <3>4, <4>1, <4>2
        <4>3. CASE x # e
          BY <3>2, <3>3, <3>4, <4>1, <4>3
        <4> QED
          BY <4>2, <4>3
      <3> QED
        BY <3>2, <3>4 DEF RemembersInv
    <2> QED
      BY <2>2, <2>3, <2>4
  <1>3. CASE WorkerPublishes \/ \E e \in EventId : ClaimAnnouncement(e) \/ PushAnnouncement(e)
    BY <1>1, <1>3 DEF WorkerPublishes, ClaimAnnouncement, PushAnnouncement
  <1>4. CASE \E e \in EventId : LoseAnnouncement(e) \/ Age(e)
    BY <1>1, <1>4 DEF LoseAnnouncement, Age
  <1>5. CASE HubStep \/ Reattach \/ UNCHANGED liveVars
    BY <1>1, <1>5 DEF HubStep, Dialed, SubscribeChannel, ReadRecent, FinishConnect, Reattach, liveVars
  <1>6. CASE HubFault \/ Deliver
    BY <1>1, <1>6 DEF HubFault, ConnectFails, Detach, Restart, Deliver
  <1>7. CASE \E p \in Page : Subscribe(p) \/ Drop(p)
    BY <1>1, <1>7 DEF Subscribe, Drop
  <1> QED
    BY <1>2, <1>3, <1>4, <1>5, <1>6, <1>7 DEF LiveNext

\* However the replays, the live deliveries and the two publishers overlap, the set
\* of remembered ids keeps a page from dispatching an event twice, as long as it has
\* not had to forget an id.
THEOREM DispatchedOnce == LiveSpec \/ WarmSpec => []AppliedOnce
  <1>1. ASSUME NEW phase \in {"idle", "open"}, LiveInitWith(phase)
        PROVE  PageTyped /\ RemembersInv
    <2>1. /\ lastId = [p \in Page |-> NoId] /\ seen = [p \in Page |-> <<>>]
          /\ applied = [p \in Page |-> [e \in EventId |-> 0]] /\ frames = [p \in Page |-> <<>>]
      BY <1>1 DEF LiveInitWith
    <2>2. <<>> \in Seq(Payload) /\ <<>> \in Seq(EventId)
      OBVIOUS
    <2>3. PageTyped
      BY <2>1, <2>2 DEF PageTyped
    <2>4. \A p \in Page, e \in EventId : applied[p][e] = 0
      BY <2>1
    <2> QED
      BY <2>3, <2>4 DEF RemembersInv
  <1>2. LiveInitWith("idle") \/ LiveInitWith("open") => LiveTyped /\ PageTyped /\ RemembersInv
    BY <1>1, LiveTypedFirst
  <1>3. LiveTyped /\ PageTyped /\ RemembersInv /\ [LiveNext]_liveVars
           => (LiveTyped /\ PageTyped /\ RemembersInv)'
    BY LiveTypedKept, PageTypedKept, RemembersKept
  <1>4. RemembersInv => AppliedOnce
    BY DEF RemembersInv, AppliedOnce
  <1> QED
    BY <1>2, <1>3, <1>4, PTL DEF LiveSpec, LiveInit, WarmSpec
-----------------------------------------------------------------------------
(* A hub that has been open since before the events: no page misses one. *)

LEMMA TrimmedEntries ==
    ASSUME NEW X, NEW s \in Seq(X)
    PROVE  /\ Len(Trimmed(s)) = IF Len(s) < ReplayLimit THEN Len(s) ELSE ReplayLimit
           /\ \A i \in 1 .. Len(Trimmed(s)) : Trimmed(s)[i] = s[i]
  <1> DEFINE n == IF Len(s) < ReplayLimit THEN Len(s) ELSE ReplayLimit
  <1>1. n \in Nat /\ n <= Len(s) /\ Len(s) \in Nat
    BY LiveAssumption
  <1>2. Trimmed(s) = SubSeq(s, 1, n)
    BY DEF Trimmed
  <1>3. Len(SubSeq(s, 1, n)) = n /\ \A i \in 1 .. n : SubSeq(s, 1, n)[i] = s[i]
    BY <1>1
  <1> QED
    BY <1>2, <1>3

LEMMA JoinedEntries ==
    ASSUME NEW X, NEW s \in Seq(X), NEW t \in Seq(X)
    PROVE  /\ s \o t \in Seq(X) /\ Len(s \o t) = Len(s) + Len(t)
           /\ \A i \in 1 .. Len(s) : (s \o t)[i] = s[i]
           /\ \A i \in 1 .. Len(t) : (s \o t)[Len(s) + i] = t[i]
  OBVIOUS

LEMMA ReversedEntries ==
    ASSUME NEW X, NEW s \in Seq(X)
    PROVE  /\ Reverse(s) \in Seq(X) /\ Len(Reverse(s)) = Len(s)
           /\ \A i \in 1 .. Len(s) : Reverse(s)[i] = s[Len(s) - i + 1]
  BY DEF Reverse

\* How many events the channel has delivered, and what a full list leaves of n.
Delivered == next - 1 - Len(wire)
Capped(n) == IF n < ReplayLimit THEN n ELSE ReplayLimit

\* The ids of a list of payloads rise, up to d.
Rising(s, d) == /\ \A i \in 1 .. Len(s) : s[i].id <= d
                /\ \A i, j \in 1 .. Len(s) : i < j => s[i].id < s[j].id

WarmHub ==
    /\ hub = "open" /\ detached = FALSE /\ detachments = 0 /\ restarts = 0
    /\ claimed = {} /\ announcing = {}
    /\ \A p \in Page : conn[p] \in {"closed", "away", "streaming"}

\* The three lists are stretches of what was published, newest first but the wire.
WarmLists ==
    /\ Len(wire) <= next - 1
    /\ \A i \in 1 .. Len(wire) : wire[i].id = Delivered + i
    /\ Len(list) = Capped(next - 1)
    /\ \A i \in 1 .. Len(list) : list[i].id = next - i
    /\ Len(recent) = Capped(Delivered)
    /\ \A i \in 1 .. Len(recent) : recent[i].id = Delivered + 1 - i

WarmFrames ==
    \A p \in Page : Rising(frames[p], Delivered) /\ (conn[p] # "streaming" => frames[p] = <<>>)

\* What a page must not miss and has not had is behind its cursor.
WarmCursor ==
    \A p \in Page :
        /\ lastId[p] <= Delivered
        /\ \A e \in EventId : e \in ToSet(seen[p]) => applied[p][e] # 0
        /\ owed[p] \subseteq EventId /\ \A e \in owed[p] : e < next
        /\ lastId[p] # NoId => \A e \in owed[p] : applied[p][e] = 0 => lastId[p] < e

WarmInv == LiveTyped /\ PageTyped /\ WarmHub /\ WarmLists /\ WarmFrames /\ WarmCursor /\ NothingMissed

LEMMA WarmNumbers ==
    ASSUME LiveTyped, WarmLists
    PROVE  /\ next \in Nat \ {0} /\ Len(wire) \in Nat /\ Delivered \in Nat /\ Delivered < next
           /\ next = Delivered + 1 + Len(wire) /\ Len(list) \in Nat /\ Len(recent) \in Nat
           /\ ReplayLimit \in Nat \ {0} /\ EventId \subseteq Nat \ {0} /\ NoId = 0
  <1>1. wire \in Seq(Payload) /\ list \in Seq(Payload) /\ recent \in Seq(Payload)
        /\ next \in Nat \ {0}
    BY DEF LiveTyped
  <1>2. Len(wire) \in Nat /\ Len(list) \in Nat /\ Len(recent) \in Nat
    BY <1>1
  <1>3. Delivered \in Nat /\ Delivered < next /\ next = Delivered + 1 + Len(wire)
    BY <1>1, <1>2 DEF WarmLists, Delivered
  <1> QED
    BY <1>1, <1>2, <1>3, LiveAssumption DEF EventId, NoId

\* What one cycle of the worker does to the lists: the next k events come on.
LEMMA CycleDoes ==
    ASSUME WarmInv, WorkerPublishes
    PROVE  \E k \in Nat \ {0} :
             /\ next' = next + k
             /\ Len(wire') = Len(wire) + k
             /\ \A i \in 1 .. Len(wire) : wire'[i] = wire[i]
             /\ \A i \in 1 .. k : wire'[Len(wire) + i].id = next + i - 1
             /\ Len(list') = Capped(k + Len(list))
             /\ \A i \in 1 .. Len(list') : list'[i].id = IF i <= k THEN next + k - i
                                                         ELSE list[i - k].id
             /\ owed' = [p \in Page |-> IF conn[p] = "streaming" \/ lastId[p] # NoId
                                        THEN owed[p] \union {e \in EventId : next <= e /\ e < next + k}
                                        ELSE owed[p]]
             /\ UNCHANGED <<hubState, page, conn, frames, bounds, claimed, announcing>>
  <1>1. PICK k \in 1 .. MaxBatch :
          /\ next + k <= Events + 1
          /\ Push([i \in 1 .. k |-> [id |-> next + i - 1, by |-> "worker"]])
          /\ next' = next + k
    BY DEF WorkerPublishes
  <1>2. /\ k \in Nat \ {0} /\ next \in Nat \ {0} /\ Events \in Nat
        /\ list \in Seq(Payload) /\ wire \in Seq(Payload) /\ Len(wire) \in Nat /\ Len(list) \in Nat
    <2>1. list \in Seq(Payload) /\ wire \in Seq(Payload) /\ next \in Nat \ {0}
      BY DEF WarmInv, LiveTyped
    <2> QED
      BY <1>1, <2>1, LiveAssumption
  <1> DEFINE batch == [i \in 1 .. k |-> [id |-> next + i - 1, by |-> "worker"]]
             all == Reverse(batch) \o list
  <1>3. \A i \in 1 .. k : next + i - 1 \in EventId
    BY <1>1, <1>2 DEF EventId
  <1>4. batch \in Seq(Payload) /\ Len(batch) = k /\ \A i \in 1 .. k : batch[i].id = next + i - 1
    <2>1. \A i \in 1 .. k : [id |-> next + i - 1, by |-> "worker"] \in Payload
      BY <1>3 DEF Payload
    <2>2. batch \in Seq(Payload)
      <3>1. batch \in [1 .. k -> Payload]
        BY <2>1
      <3>2. k \in Nat
        BY <1>2
      <3> HIDE DEF batch
      <3> QED
        BY <3>1, <3>2
    <2>3. DOMAIN batch = 1 .. k /\ \A i \in 1 .. k : batch[i].id = next + i - 1
      OBVIOUS
    <2> HIDE DEF batch
    <2> QED
      BY <1>2, <2>2, <2>3
  <1>5. Ids(batch) = {e \in EventId : next <= e /\ e < next + k}
    <2>1. ASSUME NEW e \in EventId, next <= e, e < next + k PROVE e \in Ids(batch)
      <3>1. e \in Nat
        BY <2>1, <1>2 DEF EventId
      <3>2. e - next + 1 \in 1 .. k /\ next + (e - next + 1) - 1 = e
        BY <1>2, <2>1, <3>1
      <3>3. DOMAIN batch = 1 .. k
        OBVIOUS
      <3> QED
        BY <1>4, <3>2, <3>3 DEF Ids
    <2>2. \A i \in 1 .. k : batch[i].id \in EventId /\ next <= batch[i].id /\ batch[i].id < next + k
      <3> HIDE DEF batch
      <3>1. \A i \in 1 .. k : next <= next + i - 1 /\ next + i - 1 < next + k
        BY <1>2
      <3> QED
        BY <1>3, <1>4, <3>1
    <2>3. DOMAIN batch = 1 .. k
      OBVIOUS
    <2> HIDE DEF batch
    <2> QED
      BY <2>1, <2>2, <2>3 DEF Ids
  <1>6. Push(batch)
    BY <1>1
  <1> HIDE DEF batch
  <1>7. Attached
    BY DEF WarmInv, WarmHub, Attached
  <1>8. wire' = wire \o batch /\ list' = Trimmed(all)
    BY <1>4, <1>6, <1>7, PushDoes DEF WarmInv
  <1>9. /\ Len(wire') = Len(wire) + k
        /\ \A i \in 1 .. Len(wire) : wire'[i] = wire[i]
        /\ \A i \in 1 .. k : wire'[Len(wire) + i] = batch[i]
    <2>1. /\ Len(wire \o batch) = Len(wire) + Len(batch)
          /\ \A i \in 1 .. Len(wire) : (wire \o batch)[i] = wire[i]
          /\ \A i \in 1 .. Len(batch) : (wire \o batch)[Len(wire) + i] = batch[i]
      <3>1. wire \in Seq(Payload) /\ batch \in Seq(Payload)
        BY <1>2, <1>4
      <3> QED
        BY <3>1, JoinedEntries
    <2> QED
      BY <1>4, <1>8, <2>1
  <1>10. /\ Reverse(batch) \in Seq(Payload) /\ Len(Reverse(batch)) = k
         /\ \A i \in 1 .. k : Reverse(batch)[i] = batch[k - i + 1]
    BY <1>4, ReversedEntries
  <1>11. /\ all \in Seq(Payload) /\ Len(all) = k + Len(list)
         /\ \A i \in 1 .. Len(all) : all[i].id = IF i <= k THEN next + k - i ELSE list[i - k].id
    <2>1. /\ all \in Seq(Payload) /\ Len(all) = k + Len(list)
          /\ \A i \in 1 .. k : all[i] = Reverse(batch)[i]
          /\ \A i \in 1 .. Len(list) : all[k + i] = list[i]
      BY <1>2, <1>10, JoinedEntries
    <2>2. \A i \in 1 .. k : k - i + 1 \in 1 .. k /\ next + (k - i + 1) - 1 = next + k - i
      BY <1>2
    <2>3. \A i \in 1 .. k : Reverse(batch)[i].id = next + k - i
      BY <1>4, <1>10, <2>2
    <2> HIDE DEF all
    <2>4. ASSUME NEW i \in 1 .. Len(all)
          PROVE  all[i].id = IF i <= k THEN next + k - i ELSE list[i - k].id
      <3>1. CASE i <= k
        BY <1>2, <2>1, <2>3, <3>1
      <3>2. CASE ~(i <= k)
        <4>1. i - k \in 1 .. Len(list) /\ k + (i - k) = i
          BY <1>2, <2>1, <3>2
        <4>2. all[i] = list[i - k]
          BY <2>1, <4>1
        <4> QED
          BY <3>2, <4>2
      <3> QED
        BY <3>1, <3>2
    <2> QED
      BY <2>1, <2>4
  <1> HIDE DEF all
  <1>12. /\ Len(list') = Capped(k + Len(list))
         /\ \A i \in 1 .. Len(list') : list'[i].id = IF i <= k THEN next + k - i ELSE list[i - k].id
    <2>1. /\ Len(list') = IF Len(all) < ReplayLimit THEN Len(all) ELSE ReplayLimit
          /\ \A i \in 1 .. Len(list') : list'[i] = all[i]
      BY <1>8, <1>11, TrimmedEntries
    <2>2. Len(list') <= Len(all) /\ Len(list') \in Nat
      BY <1>2, <1>11, <2>1, LiveAssumption
    <2> QED
      BY <1>2, <1>11, <2>1, <2>2 DEF Capped
  <1>13. owed' = [p \in Page |-> IF conn[p] = "streaming" \/ lastId[p] # NoId
                                 THEN owed[p] \union Ids(batch) ELSE owed[p]]
    BY <1>6 DEF Push
  <1>14. UNCHANGED <<hubState, page, conn, frames, bounds, claimed, announcing>>
    BY DEF WorkerPublishes
  <1>15. \A i \in 1 .. k : wire'[Len(wire) + i].id = next + i - 1
    BY <1>4, <1>9
  <1> QED
    BY <1>1, <1>2, <1>5, <1>9, <1>12, <1>13, <1>14, <1>15

LEMMA WarmPublishes ==
    ASSUME WarmInv, WorkerPublishes
    PROVE  (WarmHub /\ WarmLists /\ WarmFrames /\ WarmCursor /\ NothingMissed)'
  <1>1. PICK k \in Nat \ {0} :
          /\ next' = next + k
          /\ Len(wire') = Len(wire) + k
          /\ \A i \in 1 .. Len(wire) : wire'[i] = wire[i]
          /\ \A i \in 1 .. k : wire'[Len(wire) + i].id = next + i - 1
          /\ Len(list') = Capped(k + Len(list))
          /\ \A i \in 1 .. Len(list') : list'[i].id = IF i <= k THEN next + k - i
                                                      ELSE list[i - k].id
          /\ owed' = [p \in Page |-> IF conn[p] = "streaming" \/ lastId[p] # NoId
                                     THEN owed[p] \union {e \in EventId : next <= e /\ e < next + k}
                                     ELSE owed[p]]
          /\ UNCHANGED <<hubState, page, conn, frames, bounds, claimed, announcing>>
    BY CycleDoes
  <1>2. LiveTyped /\ PageTyped /\ WarmHub /\ WarmLists /\ WarmFrames /\ WarmCursor /\ NothingMissed
    BY DEF WarmInv
  <1>3. /\ next \in Nat \ {0} /\ Len(wire) \in Nat /\ Delivered \in Nat /\ Delivered < next
        /\ next = Delivered + 1 + Len(wire) /\ Len(list) \in Nat /\ Len(recent) \in Nat
        /\ ReplayLimit \in Nat \ {0} /\ EventId \subseteq Nat \ {0} /\ NoId = 0
    BY <1>2, WarmNumbers
  <1>4. Delivered' = Delivered
    <2>1. next' = next + k /\ Len(wire') = Len(wire) + k
      BY <1>1
    <2>2. next \in Nat /\ Len(wire) \in Nat
      BY <1>3
    <2>3. next' - 1 - Len(wire') = next - 1 - Len(wire)
      BY <2>1, <2>2
    <2> QED
      BY <2>3 DEF Delivered
  <1>5. WarmHub'
    BY <1>1, <1>2 DEF WarmHub, hubState, bounds
  <1>6. WarmLists'
    <2>1. Len(wire') <= next' - 1
      BY <1>1, <1>2, <1>3 DEF WarmLists
    <2>2. \A i \in 1 .. Len(wire') : wire'[i].id = Delivered' + i
      <3>1. TAKE i \in 1 .. Len(wire')
      <3>2. CASE i <= Len(wire)
        <4>1. i \in 1 .. Len(wire)
          BY <1>1, <1>3, <3>2
        <4>2. wire'[i] = wire[i] /\ wire[i].id = Delivered + i
          BY <1>1, <1>2, <4>1 DEF WarmLists
        <4> QED
          BY <1>4, <4>2
      <3>3. CASE i > Len(wire)
        <4>1. i - Len(wire) \in 1 .. k /\ Len(wire) + (i - Len(wire)) = i
          BY <1>1, <1>3, <3>3
        <4>2. wire'[i].id = next + (i - Len(wire)) - 1
          BY <1>1, <4>1
        <4> QED
          BY <1>3, <1>4, <4>2
      <3> QED
        BY <1>3, <3>2, <3>3
    <2>3. Len(list') = Capped(next' - 1)
      BY <1>1, <1>2, <1>3 DEF WarmLists, Capped
    <2>4. \A i \in 1 .. Len(list') : list'[i].id = next' - i
      <3>1. TAKE i \in 1 .. Len(list')
      <3>2. CASE i <= k
        BY <1>1, <1>3, <3>2
      <3>3. CASE i > k
        <4>1. Len(list') <= k + Len(list)
          BY <1>1, <1>3 DEF Capped
        <4>2. i - k \in 1 .. Len(list)
          BY <1>1, <1>3, <3>3, <4>1
        <4>3. list[i - k].id = next - (i - k)
          BY <1>2, <4>2 DEF WarmLists
        <4> QED
          BY <1>1, <1>3, <3>3, <4>3
      <3> QED
        BY <1>1, <3>2, <3>3
    <2>5. recent' = recent
      BY <1>1 DEF hubState
    <2> QED
      BY <1>2, <1>4, <2>1, <2>2, <2>3, <2>4, <2>5 DEF WarmLists, Capped
  <1>7. WarmFrames'
    BY <1>1, <1>2, <1>4 DEF WarmFrames, Rising
  <1>8. WarmCursor'
    <2>1. SUFFICES ASSUME NEW p \in Page
                   PROVE  /\ lastId[p] <= Delivered
                          /\ \A e \in EventId : e \in ToSet(seen[p]) => applied[p][e] # 0
                          /\ owed'[p] \subseteq EventId /\ \A e \in owed'[p] : e < next'
                          /\ lastId[p] # NoId =>
                                \A e \in owed'[p] : applied[p][e] = 0 => lastId[p] < e
      BY <1>1, <1>4 DEF WarmCursor, page
    <2>2. /\ lastId[p] <= Delivered /\ lastId[p] \in Nat
          /\ \A e \in EventId : e \in ToSet(seen[p]) => applied[p][e] # 0
          /\ owed[p] \subseteq EventId /\ \A e \in owed[p] : e < next
          /\ lastId[p] # NoId => \A e \in owed[p] : applied[p][e] = 0 => lastId[p] < e
      <3>1. lastId[p] \in EventId \union {NoId}
        BY <1>2 DEF PageTyped
      <3>2. lastId[p] \in Nat
        <4>1. EventId \subseteq Nat /\ NoId \in Nat
          BY <1>3
        <4> QED
          BY <3>1, <4>1
      <3>3. WarmCursor
        BY <1>2
      <3> QED
        BY <3>2, <3>3 DEF WarmCursor
    <2>3. /\ owed'[p] \subseteq EventId
          /\ \A e \in owed'[p] : e \in owed[p] \/ (next <= e /\ e < next + k)
      BY <1>1, <2>2
    <2>4. ASSUME NEW e \in owed'[p]
          PROVE  e < next' /\ (lastId[p] # NoId /\ applied[p][e] = 0 => lastId[p] < e)
      <3>1. e \in Nat
        BY <1>3, <2>3
      <3>2. CASE e \in owed[p]
        BY <1>1, <1>3, <2>2, <3>1, <3>2
      <3>3. CASE next <= e /\ e < next + k
        BY <1>1, <1>3, <2>2, <3>1, <3>3
      <3> QED
        BY <2>3, <3>2, <3>3
    <2> QED
      BY <2>2, <2>3, <2>4
  <1>9. NothingMissed'
    <2>1. SUFFICES ASSUME NEW p \in Page, conn[p] = "streaming", NEW e \in owed'[p]
                   PROVE  applied[p][e] > 0 \/ e \in Ids(frames[p]) \/ e \in Ids(wire')
      BY <1>1 DEF NothingMissed, page
    <2>2. wire \in Seq(Payload) /\ wire' \in Seq(Payload)
      BY <1>2, LiveTypedKept DEF LiveTyped, LiveNext
    <2>3. DOMAIN wire = 1 .. Len(wire) /\ DOMAIN wire' = 1 .. Len(wire')
      BY <2>2
    <2>4. Ids(wire) \subseteq Ids(wire')
      <3>1. \A i \in DOMAIN wire : i \in DOMAIN wire' /\ wire'[i] = wire[i]
        BY <1>1, <1>3, <2>3
      <3> QED
        BY <3>1 DEF Ids
    <2>5. CASE e \in owed[p]
      BY <1>2, <2>1, <2>4, <2>5 DEF NothingMissed
    <2>6. CASE e \in EventId /\ next <= e /\ e < next + k
      <3>1. e - next + 1 \in 1 .. k /\ next + (e - next + 1) - 1 = e
        <4>1. e \in Nat
          BY <1>3, <2>6
        <4> QED
          BY <1>1, <1>3, <2>6, <4>1
      <3>2. wire'[Len(wire) + (e - next + 1)].id = e
        BY <1>1, <3>1
      <3>3. Len(wire) + (e - next + 1) \in DOMAIN wire'
        <4>1. \A j \in 1 .. k : Len(wire) + j \in 1 .. Len(wire')
          BY <1>1, <1>3
        <4> QED
          BY <2>3, <3>1, <4>1
      <3> QED
        BY <3>2, <3>3 DEF Ids
    <2> QED
      BY <1>1, <2>1, <2>5, <2>6
  <1> QED
    BY <1>5, <1>6, <1>7, <1>8, <1>9

LEMMA WarmDelivers ==
    ASSUME WarmInv, Deliver
    PROVE  (WarmHub /\ WarmLists /\ WarmFrames /\ WarmCursor /\ NothingMissed)'
  <1> DEFINE x == Head(wire)
             all == <<x>> \o recent
  <1>1. LiveTyped /\ PageTyped /\ WarmHub /\ WarmLists /\ WarmFrames /\ WarmCursor /\ NothingMissed
    BY DEF WarmInv
  <1>2. /\ next \in Nat \ {0} /\ Len(wire) \in Nat /\ Delivered \in Nat /\ Delivered < next
        /\ next = Delivered + 1 + Len(wire) /\ Len(list) \in Nat /\ Len(recent) \in Nat
        /\ ReplayLimit \in Nat \ {0} /\ EventId \subseteq Nat \ {0} /\ NoId = 0
    BY <1>1, WarmNumbers
  <1>3. /\ wire \in Seq(Payload) /\ wire # <<>> /\ x \in Payload /\ wire' = Tail(wire)
        /\ recent' = Trimmed(<<x>> \o Filtered(recent, Payload \ {x}))
        /\ wire' \in Seq(Payload)
    <2>1. wire \in Seq(Payload)
      BY <1>1 DEF LiveTyped
    <2> QED
      BY <1>1, <2>1, DeliverDoes
  <1>4. /\ x = wire[1] /\ Len(wire) >= 1 /\ Len(wire') = Len(wire) - 1
        /\ \A i \in 1 .. Len(wire') : wire'[i] = wire[i + 1]
        /\ DOMAIN wire = 1 .. Len(wire) /\ DOMAIN wire' = 1 .. Len(wire')
    BY <1>3
  <1>5. UNCHANGED <<list, publishers, hub, detached, listed, page, conn, owed, bounds>>
    BY DEF Deliver
  <1>6. frames' = [p \in Page |-> IF p \in Listeners THEN Append(frames[p], x) ELSE frames[p]]
    BY DEF Deliver
  <1> HIDE DEF x
  <1>7. Delivered' = Delivered + 1 /\ next' = next
    BY <1>2, <1>4, <1>5 DEF Delivered, publishers
  <1>8. x.id = Delivered + 1
    BY <1>1, <1>2, <1>4 DEF WarmLists
  <1>9. recent \in Seq(Payload) /\ \A i \in 1 .. Len(recent) : recent[i] \in Payload \ {x}
    <2>1. recent \in Seq(Payload)
      BY <1>1 DEF LiveTyped
    <2>2. \A i \in 1 .. Len(recent) : recent[i] \in Payload
      BY <2>1
    <2>3. \A i \in 1 .. Len(recent) : recent[i].id # x.id
      BY <1>1, <1>2, <1>8 DEF WarmLists
    <2> QED
      BY <2>1, <2>2, <2>3
  <1>10. recent' = Trimmed(all)
    BY <1>3, <1>9, FilteredSame
  <1>11. /\ all \in Seq(Payload) /\ Len(all) = 1 + Len(recent) /\ all[1] = x
         /\ \A i \in 1 .. Len(recent) : all[1 + i] = recent[i]
    BY <1>2, <1>3, <1>9
  <1> HIDE DEF all
  <1>12. WarmHub'
    BY <1>1, <1>5 DEF WarmHub, publishers, bounds
  <1>13. WarmLists'
    <2>1. Len(wire') <= next' - 1
      BY <1>2, <1>4, <1>7
    <2>2. \A i \in 1 .. Len(wire') : wire'[i].id = Delivered' + i
      <3>1. TAKE i \in 1 .. Len(wire')
      <3>2. i + 1 \in 1 .. Len(wire) /\ wire'[i] = wire[i + 1]
        BY <1>2, <1>4
      <3>3. wire[i + 1].id = Delivered + (i + 1)
        BY <1>1, <3>2 DEF WarmLists
      <3> QED
        BY <1>2, <1>7, <3>2, <3>3
    <2>3. /\ Len(recent') = IF Len(all) < ReplayLimit THEN Len(all) ELSE ReplayLimit
          /\ \A i \in 1 .. Len(recent') : recent'[i] = all[i]
      BY <1>10, <1>11, TrimmedEntries
    <2>4. Len(recent') = Capped(Delivered') /\ Len(recent') <= Len(all)
      BY <1>1, <1>2, <1>7, <1>11, <2>3 DEF WarmLists, Capped
    <2>5. \A i \in 1 .. Len(recent') : recent'[i].id = Delivered' + 1 - i
      <3>1. TAKE i \in 1 .. Len(recent')
      <3>2. CASE i = 1
        BY <1>2, <1>7, <1>8, <1>11, <2>3, <3>2
      <3>3. CASE i # 1
        <4>1. i - 1 \in 1 .. Len(recent) /\ 1 + (i - 1) = i
          BY <1>2, <1>11, <2>4, <3>3
        <4>2. recent'[i] = recent[i - 1]
          BY <1>11, <2>3, <4>1
        <4>3. recent[i - 1].id = Delivered + 1 - (i - 1)
          BY <1>1, <4>1 DEF WarmLists
        <4> QED
          BY <1>2, <1>7, <4>2, <4>3
      <3> QED
        BY <3>2, <3>3
    <2>6. list' = list
      BY <1>5
    <2> QED
      BY <1>1, <1>7, <2>1, <2>2, <2>4, <2>5, <2>6 DEF WarmLists, Capped
  <1>14. WarmFrames'
    <2>1. SUFFICES ASSUME NEW p \in Page
                   PROVE  Rising(frames'[p], Delivered + 1) /\ (conn[p] # "streaming" => frames'[p] = <<>>)
      BY <1>5, <1>7 DEF WarmFrames
    <2>2. frames[p] \in Seq(Payload) /\ Rising(frames[p], Delivered)
          /\ (conn[p] # "streaming" => frames[p] = <<>>)
      BY <1>1 DEF WarmFrames, PageTyped
    <2>3. \A i \in 1 .. Len(frames[p]) : frames[p][i].id \in Nat
      <3>1. \A i \in 1 .. Len(frames[p]) : frames[p][i] \in Payload
        BY <2>2
      <3>2. \A y \in Payload : y.id \in Nat
        BY <1>2 DEF Payload
      <3> QED
        BY <3>1, <3>2
    <2>4. CASE p \notin Listeners
      <3>1. frames'[p] = frames[p]
        BY <1>6, <2>4
      <3> QED
        BY <1>2, <2>2, <2>3, <3>1 DEF Rising
    <2>5. CASE p \in Listeners
      <3>1. frames'[p] = Append(frames[p], x)
        BY <1>6, <2>5
      <3>2. conn[p] = "streaming"
        BY <1>1, <2>5 DEF Listeners, WarmHub
      <3>3. /\ Len(frames'[p]) = Len(frames[p]) + 1 /\ frames'[p][Len(frames[p]) + 1] = x
            /\ \A i \in 1 .. Len(frames[p]) : frames'[p][i] = frames[p][i]
            /\ Len(frames[p]) \in Nat
        BY <1>3, <2>2, <3>1
      <3>4. ASSUME NEW i \in 1 .. Len(frames'[p])
            PROVE  \/ i = Len(frames[p]) + 1 /\ frames'[p][i].id = Delivered + 1
                   \/ i \in 1 .. Len(frames[p]) /\ frames'[p][i] = frames[p][i]
        BY <1>8, <3>3
      <3>5. Rising(frames'[p], Delivered + 1)
        <4>1. ASSUME NEW i \in 1 .. Len(frames'[p]) PROVE frames'[p][i].id <= Delivered + 1
          <5>1. CASE i = Len(frames[p]) + 1 /\ frames'[p][i].id = Delivered + 1
            BY <1>2, <5>1
          <5>2. CASE i \in 1 .. Len(frames[p]) /\ frames'[p][i] = frames[p][i]
            BY <1>2, <2>2, <2>3, <5>2 DEF Rising
          <5> QED
            BY <3>4, <5>1, <5>2
        <4>2. ASSUME NEW i \in 1 .. Len(frames'[p]), NEW j \in 1 .. Len(frames'[p]), i < j
              PROVE  frames'[p][i].id < frames'[p][j].id
          <5>1. i \in 1 .. Len(frames[p]) /\ frames'[p][i] = frames[p][i]
            BY <3>3, <3>4, <4>2
          <5>2. CASE j = Len(frames[p]) + 1 /\ frames'[p][j].id = Delivered + 1
            BY <1>2, <2>2, <2>3, <5>1, <5>2 DEF Rising
          <5>3. CASE j \in 1 .. Len(frames[p]) /\ frames'[p][j] = frames[p][j]
            BY <2>2, <4>2, <5>1, <5>3 DEF Rising
          <5> QED
            BY <3>4, <5>2, <5>3
        <4> QED
          BY <4>1, <4>2 DEF Rising
      <3> QED
        BY <3>2, <3>5
    <2> QED
      BY <2>4, <2>5
  <1>15. WarmCursor'
    <2>1. \A p \in Page : lastId[p] <= Delivered => lastId[p] <= Delivered + 1
      <3>1. \A p \in Page : lastId[p] \in EventId \union {NoId}
        BY <1>1 DEF PageTyped
      <3>2. EventId \subseteq Nat /\ NoId \in Nat
        BY <1>2
      <3>3. \A p \in Page : lastId[p] \in Nat
        BY <3>1, <3>2
      <3> QED
        BY <1>2, <3>3
    <2> QED
      BY <1>1, <1>5, <1>7, <2>1 DEF WarmCursor, page
  <1>16. NothingMissed'
    <2>1. SUFFICES ASSUME NEW p \in Page, conn[p] = "streaming", NEW e \in owed[p]
                   PROVE  applied[p][e] > 0 \/ e \in Ids(frames'[p]) \/ e \in Ids(wire')
      BY <1>5 DEF NothingMissed, page
    <2>2. applied[p][e] > 0 \/ e \in Ids(frames[p]) \/ e \in Ids(wire)
      BY <1>1, <2>1 DEF NothingMissed
    <2>3. frames'[p] = Append(frames[p], x) /\ frames[p] \in Seq(Payload)
      BY <1>1, <1>6, <2>1 DEF Listeners, PageTyped
    <2>4. /\ \A i \in DOMAIN frames[p] : i \in DOMAIN frames'[p] /\ frames'[p][i] = frames[p][i]
          /\ Len(frames[p]) + 1 \in DOMAIN frames'[p] /\ frames'[p][Len(frames[p]) + 1] = x
      BY <1>3, <2>3
    <2>5. CASE e \in Ids(frames[p])
      BY <2>4, <2>5 DEF Ids
    <2>6. CASE e \in Ids(wire)
      <3>1. PICK i \in 1 .. Len(wire) : e = wire[i].id
        BY <1>4, <2>6 DEF Ids
      <3>2. CASE i = 1
        BY <1>4, <2>4, <3>1, <3>2 DEF Ids
      <3>3. CASE i # 1
        <4>1. i - 1 \in DOMAIN wire' /\ (i - 1) + 1 = i
          BY <1>2, <1>4, <3>3
        <4>2. wire'[i - 1] = wire[i]
          BY <1>4, <4>1
        <4> QED
          BY <3>1, <4>1, <4>2 DEF Ids
      <3> QED
        BY <3>2, <3>3
    <2> QED
      BY <2>2, <2>5, <2>6
  <1> QED
    BY <1>12, <1>13, <1>14, <1>15, <1>16

\* A list whose ids fall, turned round.
LEMMA FallingReversed ==
    ASSUME NEW s \in Seq(Payload), NEW d, \A i \in 1 .. Len(s) : s[i].id <= d,
           \A i, j \in 1 .. Len(s) : i < j => s[j].id < s[i].id
    PROVE  Rising(Reverse(s), d)
  <1> DEFINE t == Reverse(s)
  <1>1. Len(t) = Len(s) /\ \A i \in 1 .. Len(s) : t[i] = s[Len(s) - i + 1]
    BY ReversedEntries
  <1>2. Len(s) \in Nat /\ \A i \in 1 .. Len(s) : Len(s) - i + 1 \in 1 .. Len(s)
    OBVIOUS
  <1> HIDE DEF t
  <1>3. \A i \in 1 .. Len(t) : t[i].id <= d
    BY <1>1, <1>2
  <1>4. ASSUME NEW i \in 1 .. Len(t), NEW j \in 1 .. Len(t), i < j PROVE t[i].id < t[j].id
    <2>1. Len(s) - j + 1 < Len(s) - i + 1
      BY <1>1, <1>2, <1>4
    <2> QED
      BY <1>1, <1>2, <1>4, <2>1
  <1> QED
    BY <1>3, <1>4 DEF Rising, t

\* What a hub remembers, read as numbers.
LEMMA RecentNumbers ==
    ASSUME WarmInv
    PROVE  /\ recent \in Seq(Payload) /\ Len(recent) \in Nat /\ DOMAIN recent = 1 .. Len(recent)
           /\ \A i \in 1 .. Len(recent) : recent[i].id = Delivered + 1 - i
           /\ Len(recent) = Capped(Delivered) /\ Delivered \in Nat
  <1>1. LiveTyped /\ WarmLists
    BY DEF WarmInv
  <1>2. recent \in Seq(Payload)
    BY <1>1 DEF LiveTyped
  <1>3. Delivered \in Nat
    BY <1>1, WarmNumbers
  <1> QED
    BY <1>1, <1>2, <1>3 DEF WarmLists

\* A replay rises.
LEMMA ReplayRises ==
    ASSUME WarmInv, NEW last
    PROVE  Rising(Replay(recent, last), Delivered)
  <1>1. /\ recent \in Seq(Payload) /\ Len(recent) \in Nat /\ DOMAIN recent = 1 .. Len(recent)
        /\ \A i \in 1 .. Len(recent) : recent[i].id = Delivered + 1 - i
        /\ Len(recent) = Capped(Delivered) /\ Delivered \in Nat
    BY RecentNumbers
  <1> DEFINE at == {i \in DOMAIN recent : recent[i].id = last}
             new == {i \in DOMAIN recent : /\ recent[i].id \in Launches \ aged
                                           /\ \A j \in 1 .. (i - 1) : recent[j].id # recent[i].id}
  <1>2. Rising(<<>>, Delivered)
    BY DEF Rising
  <1>3. Rising(RecentLaunches(recent), Delivered)
    <2>1. RecentLaunches(recent) = Reverse(Picked(recent, new))
      BY DEF RecentLaunches
    <2> HIDE DEF new
    <2> DEFINE s == Picked(recent, new)
    <2>2. s \in Seq(Payload)
      BY <1>1, PickedPlaces
    <2>3. PICK places : PickedAt(recent, new, places)
      BY <1>1, PickedPlaces
    <2>4. /\ places \in Seq(1 .. Len(recent)) /\ DOMAIN s = DOMAIN places
          /\ \A k, l \in DOMAIN places : k < l => places[k] < places[l]
          /\ \A k \in DOMAIN places : s[k] = recent[places[k]]
      BY <2>3 DEF PickedAt
    <2> HIDE DEF s
    <2>5. /\ DOMAIN s = 1 .. Len(s) /\ \A k \in DOMAIN places : places[k] \in 1 .. Len(recent)
      BY <2>2, <2>4
    <2>6. \A k \in 1 .. Len(s) : s[k].id = Delivered + 1 - places[k] /\ places[k] \in 1 .. Len(recent)
      BY <1>1, <2>4, <2>5
    <2>7. \A k \in 1 .. Len(s) : s[k].id <= Delivered
      BY <1>1, <2>6
    <2>8. \A k, l \in 1 .. Len(s) : k < l => s[l].id < s[k].id
      <3>1. \A k, l \in 1 .. Len(s) : k < l => places[k] < places[l]
        BY <2>4, <2>5
      <3>2. Delivered \in Nat /\ Len(recent) \in Nat
        BY <1>1
      <3>3. SUFFICES ASSUME NEW k \in 1 .. Len(s), NEW l \in 1 .. Len(s), k < l
                     PROVE  s[l].id < s[k].id
        OBVIOUS
      <3>4. /\ s[k].id = Delivered + 1 - places[k] /\ places[k] \in 1 .. Len(recent)
            /\ s[l].id = Delivered + 1 - places[l] /\ places[l] \in 1 .. Len(recent)
            /\ places[k] < places[l]
        BY <2>6, <3>1, <3>3, Zenon
      <3> QED
        BY <3>2, <3>4
    <2>9. Rising(Reverse(s), Delivered)
      BY <2>2, <2>7, <2>8, FallingReversed
    <2> QED
      BY <2>1, <2>9 DEF s
  <1>4. ASSUME at # {} PROVE Rising(Reverse(SubSeq(recent, 1, Min(at) - 1)), Delivered)
    <2>1. at \subseteq DOMAIN recent
      OBVIOUS
    <2> HIDE DEF at
    <2>2. Min(at) \in 1 .. Len(recent)
      BY <1>1, <1>4, <2>1, FirstPlace
    <2> DEFINE s == SubSeq(recent, 1, Min(at) - 1)
    <2>3. /\ s \in Seq(Payload) /\ Len(s) = Min(at) - 1
          /\ \A i \in 1 .. Len(s) : i \in 1 .. Len(recent) /\ s[i] = recent[i]
      <3>1. \A i \in 1 .. (Min(at) - 1) : i \in 1 .. Len(recent) /\ recent[i] \in Payload
        BY <1>1, <2>2
      <3> QED
        BY <1>1, <2>2, <3>1
    <2> HIDE DEF s
    <2>4. \A i \in 1 .. Len(s) : s[i].id = Delivered + 1 - i
      BY <1>1, <2>3
    <2>5. Rising(Reverse(s), Delivered)
      <3>1. \A i \in 1 .. Len(s) : s[i].id <= Delivered
        BY <1>1, <2>4
      <3>2. \A i, j \in 1 .. Len(s) : i < j => s[j].id < s[i].id
        BY <1>1, <2>4
      <3> QED
        BY <2>3, <3>1, <3>2, FallingReversed
    <2> QED
      BY <2>5 DEF s
  <1>5. Replay(recent, last) = IF last = NoId THEN RecentLaunches(recent)
                               ELSE IF at = {} THEN <<>>
                               ELSE Reverse(SubSeq(recent, 1, Min(at) - 1))
    BY DEF Replay
  <1> HIDE DEF at
  <1> QED
    BY <1>2, <1>3, <1>4, <1>5

\* The replay from a cursor that Redis still lists has all that was delivered after it.
LEMMA ReplayCovers ==
    ASSUME WarmInv, NEW last \in EventId, last \in Ids(list), last <= Delivered,
           NEW e \in EventId, last < e, e <= Delivered
    PROVE  e \in Ids(Replay(recent, last))
  <1>1. /\ recent \in Seq(Payload) /\ Len(recent) \in Nat /\ DOMAIN recent = 1 .. Len(recent)
        /\ \A i \in 1 .. Len(recent) : recent[i].id = Delivered + 1 - i
        /\ Len(recent) = Capped(Delivered) /\ Delivered \in Nat
    BY RecentNumbers
  <1>2. /\ next \in Nat \ {0} /\ Delivered < next /\ Len(list) \in Nat
        /\ ReplayLimit \in Nat \ {0} /\ EventId \subseteq Nat \ {0} /\ NoId = 0
        /\ Len(list) = Capped(next - 1) /\ \A i \in 1 .. Len(list) : list[i].id = next - i
        /\ DOMAIN list = 1 .. Len(list)
    <2>1. LiveTyped /\ WarmLists
      BY DEF WarmInv
    <2>2. list \in Seq(Payload)
      BY <2>1 DEF LiveTyped
    <2> QED
      BY <2>1, <2>2, WarmNumbers DEF WarmLists
  <1>3. last \in Nat \ {0} /\ e \in Nat \ {0}
    BY <1>2
  <1> DEFINE at == {i \in DOMAIN recent : recent[i].id = last}
             m == Delivered + 1 - last
             j == Delivered + 1 - e
  <1>4. m \in 1 .. Len(recent)
    <2>1. PICK i \in 1 .. Len(list) : last = next - i
      BY <1>2 DEF Ids
    <2>2. i <= ReplayLimit /\ m <= i /\ m <= Delivered /\ m \in Nat /\ 1 <= m
      BY <1>1, <1>2, <1>3, <2>1 DEF Capped
    <2> HIDE DEF m
    <2> QED
      BY <1>1, <1>2, <2>2 DEF Capped
  <1>5. m \in at /\ at \subseteq DOMAIN recent
    BY <1>1, <1>3, <1>4
  <1>6. Min(at) = m
    <2>1. Min(at) \in at
      <3> HIDE DEF at
      <3> QED
        BY <1>1, <1>5, FirstPlace
    <2> QED
      BY <1>1, <1>3, <2>1
  <1>7. Replay(recent, last) = Reverse(SubSeq(recent, 1, m - 1))
    <2>1. last # NoId /\ at # {}
      BY <1>2, <1>3, <1>5
    <2> QED
      BY <1>6, <2>1 DEF Replay
  <1>8. j \in 1 .. (m - 1) /\ j \in 1 .. Len(recent)
    BY <1>1, <1>3, <1>4
  <1> HIDE DEF at, m
  <1> DEFINE s == SubSeq(recent, 1, m - 1)
  <1>9. s \in Seq(Payload) /\ Len(s) = m - 1 /\ \A i \in 1 .. (m - 1) : s[i] = recent[i]
    <2>1. \A i \in 1 .. (m - 1) : i \in 1 .. Len(recent) /\ recent[i] \in Payload
      BY <1>1, <1>4
    <2> QED
      BY <1>1, <1>4, <2>1
  <1>10. s[j].id = e
    BY <1>1, <1>3, <1>8, <1>9
  <1> HIDE DEF s, j
  <1>11. /\ Reverse(s) \in Seq(Payload) /\ Len(Reverse(s)) = Len(s)
         /\ \A i \in 1 .. Len(s) : Reverse(s)[i] = s[Len(s) - i + 1]
    BY <1>9, ReversedEntries
  <1>12. m - j \in 1 .. Len(s) /\ Len(s) - (m - j) + 1 = j
    BY <1>4, <1>8, <1>9
  <1>13. m - j \in DOMAIN Reverse(s) /\ Reverse(s)[m - j].id = e
    BY <1>10, <1>11, <1>12
  <1> QED
    BY <1>7, <1>13 DEF Ids, s

LEMMA WarmSubscribes ==
    ASSUME WarmInv, NEW p \in Page, Subscribe(p)
    PROVE  (WarmHub /\ WarmLists /\ WarmFrames /\ WarmCursor /\ NothingMissed)'
  <1>1. LiveTyped /\ PageTyped /\ WarmHub /\ WarmLists /\ WarmFrames /\ WarmCursor /\ NothingMissed
    BY DEF WarmInv
  <1>2. /\ next \in Nat \ {0} /\ Len(wire) \in Nat /\ Delivered \in Nat /\ Delivered < next
        /\ next = Delivered + 1 + Len(wire)
        /\ EventId \subseteq Nat \ {0} /\ NoId = 0
    BY <1>1, WarmNumbers
  <1>3. /\ conn[p] \in {"closed", "away"} /\ hub = "open"
        /\ StreamsStart({p}, recent) /\ hub' = hub
        /\ UNCHANGED <<redis, publishers, detached, listed, recent, page, bounds>>
    BY <1>1 DEF Subscribe, WarmHub
  <1> DEFINE replay == Replay(recent, lastId[p])
  <1>4. /\ conn' = [q \in Page |-> IF q \in {p} THEN "streaming" ELSE conn[q]]
        /\ frames' = [q \in Page |-> IF q \in {p} THEN frames[q] \o Replay(recent, lastId[q])
                                     ELSE frames[q]]
        /\ owed' = [q \in Page |-> IF q \in {p} /\ lastId[q] \notin Ids(list) THEN {} ELSE owed[q]]
    BY <1>3 DEF StreamsStart
  <1>5. replay \in Seq(Payload) /\ Rising(replay, Delivered)
    <2>1. recent \in Seq(Payload)
      BY <1>1 DEF LiveTyped
    <2> QED
      BY <2>1, ReplayTyped, ReplayRises
  <1>6. frames[p] = <<>>
    BY <1>1, <1>3 DEF WarmFrames
  <1>7. /\ conn'[p] = "streaming" /\ frames'[p] = replay
        /\ \A q \in Page : q # p => /\ conn'[q] = conn[q] /\ frames'[q] = frames[q]
                                    /\ owed'[q] = owed[q]
        /\ owed'[p] = IF lastId[p] \notin Ids(list) THEN {} ELSE owed[p]
    <2>1. <<>> \o replay = replay
      <3> HIDE DEF replay
      <3> QED
        BY <1>5
    <2> QED
      BY <1>4, <1>6, <2>1
  <1> HIDE DEF replay
  <1>8. Delivered' = Delivered /\ next' = next /\ list' = list /\ wire' = wire
    BY <1>3 DEF Delivered, redis, publishers
  <1>9. WarmHub'
    BY <1>1, <1>3, <1>7 DEF WarmHub, publishers, bounds
  <1>10. WarmLists'
    BY <1>1, <1>3, <1>8 DEF WarmLists, Capped
  <1>11. WarmFrames'
    BY <1>1, <1>5, <1>7, <1>8 DEF WarmFrames, Rising
  <1>12. WarmCursor'
    <2>1. \A q \in Page : owed'[q] \subseteq owed[q]
      BY <1>4
    <2> QED
      BY <1>1, <1>3, <1>8, <2>1 DEF WarmCursor, page
  <1>13. NothingMissed'
    <2>1. SUFFICES ASSUME NEW q \in Page, conn'[q] = "streaming", NEW e \in owed'[q]
                   PROVE  applied[q][e] > 0 \/ e \in Ids(frames'[q]) \/ e \in Ids(wire)
      BY <1>3, <1>8 DEF NothingMissed, page
    <2>2. CASE q # p
      BY <1>1, <1>7, <2>1, <2>2 DEF NothingMissed
    <2>3. CASE q = p
      <3>1. lastId[p] \in Ids(list) /\ e \in owed[p]
        BY <1>7, <2>1, <2>3
      <3>2. lastId[p] \in EventId
        <4>1. lastId[p] \in EventId \union {NoId} /\ list \in Seq(Payload)
          BY <1>1 DEF PageTyped, LiveTyped
        <4>2. \A i \in DOMAIN list : list[i] \in Payload
          BY <4>1
        <4>3. \A i \in DOMAIN list : list[i].id \in EventId
          BY <4>2 DEF Payload
        <4> QED
          BY <3>1, <4>3 DEF Ids
      <3>3. e \in EventId /\ e < next /\ (applied[p][e] = 0 => lastId[p] < e)
            /\ lastId[p] <= Delivered /\ lastId[p] # NoId
        BY <1>1, <1>2, <3>1, <3>2 DEF WarmCursor
      <3>4. applied[p][e] \in Nat /\ e \in Nat
        <4>1. applied[p] \in [EventId -> Nat]
          BY <1>1 DEF PageTyped
        <4> QED
          BY <1>2, <3>3, <4>1
      <3>5. CASE applied[p][e] # 0
        BY <2>3, <3>4, <3>5
      <3>6. CASE applied[p][e] = 0 /\ e <= Delivered
        BY <1>7, <2>3, <3>1, <3>2, <3>3, <3>6, ReplayCovers DEF replay
      <3>7. CASE ~(e <= Delivered)
        <4>1. e - Delivered \in 1 .. Len(wire) /\ Delivered + (e - Delivered) = e
          BY <1>2, <3>3, <3>4, <3>7
        <4>2. wire[e - Delivered].id = e
          BY <1>1, <4>1 DEF WarmLists
        <4>3. DOMAIN wire = 1 .. Len(wire)
          <5>1. wire \in Seq(Payload)
            BY <1>1 DEF LiveTyped
          <5> QED
            BY <5>1
        <4> QED
          BY <4>1, <4>2, <4>3 DEF Ids
      <3> QED
        BY <3>5, <3>6, <3>7
    <2> QED
      BY <2>2, <2>3
  <1> QED
    BY <1>9, <1>10, <1>11, <1>12, <1>13

\* What a page remembers beyond an event it remembered before.
LEMMA RememberAdds ==
    ASSUME NEW s \in Seq(EventId), NEW e \in EventId
    PROVE  ToSet(Remember(s, e)) \subseteq ToSet(s) \union {e}
  <1>1. DedupeLimit \in Nat \ {0} /\ Len(s) \in Nat /\ <<e>> \in Seq(EventId) /\ ToSet(<<e>>) = {e}
    BY LiveAssumption DEF ToSet
  <1>2. CASE Len(s) >= DedupeLimit
    <2>1. /\ Tail(s) \in Seq(EventId) /\ Remember(s, e) = Tail(s) \o <<e>>
          /\ \A i \in DOMAIN Tail(s) : i + 1 \in DOMAIN s /\ Tail(s)[i] = s[i + 1]
      BY <1>1, <1>2 DEF Remember
    <2>2. /\ Tail(s) \o <<e>> \in Seq(EventId)
          /\ ToSet(Tail(s) \o <<e>>) = ToSet(Tail(s)) \union ToSet(<<e>>)
      BY <1>1, <2>1, JoinedLists
    <2>3. ToSet(Tail(s)) \subseteq ToSet(s)
      BY <2>1 DEF ToSet
    <2> QED
      BY <1>1, <2>1, <2>2, <2>3
  <1>3. CASE ~(Len(s) >= DedupeLimit)
    <2>1. Remember(s, e) = s \o <<e>>
      BY <1>3 DEF Remember
    <2>2. s \o <<e>> \in Seq(EventId) /\ ToSet(s \o <<e>>) = ToSet(s) \union ToSet(<<e>>)
      BY <1>1, JoinedLists
    <2> QED
      BY <1>1, <2>1, <2>2
  <1> QED
    BY <1>2, <1>3

LEMMA WarmReceives ==
    ASSUME WarmInv, NEW p \in Page, Receive(p)
    PROVE  (WarmHub /\ WarmLists /\ WarmFrames /\ WarmCursor /\ NothingMissed)'
  <1>1. LiveTyped /\ PageTyped /\ WarmHub /\ WarmLists /\ WarmFrames /\ WarmCursor /\ NothingMissed
    BY DEF WarmInv
  <1>2. /\ Delivered \in Nat /\ EventId \subseteq Nat \ {0} /\ NoId = 0
        /\ next = Delivered + 1 + Len(wire) /\ Len(wire) \in Nat
    BY <1>1, WarmNumbers
  <1>3. PICK h \in EventId :
          /\ h = Head(frames[p]).id /\ frames[p] # <<>>
          /\ lastId' = [lastId EXCEPT ![p] = h]
          /\ frames' = [frames EXCEPT ![p] = Tail(frames[p])] /\ Tail(frames[p]) \in Seq(Payload)
          /\ \/ h \in ToSet(seen[p]) /\ seen' = seen /\ applied' = applied
             \/ /\ h \notin ToSet(seen[p])
                /\ seen' = [seen EXCEPT ![p] = Remember(seen[p], h)]
                /\ applied' = [applied EXCEPT ![p] = [applied[p] EXCEPT ![h] = @ + 1]]
    BY <1>1, ReceiveDoes
  <1>4. UNCHANGED <<redis, publishers, hubState, conn, owed, bounds>> /\ conn[p] = "streaming"
    BY DEF Receive
  <1>5. /\ frames \in [Page -> Seq(Payload)] /\ lastId \in [Page -> EventId \union {NoId}]
        /\ seen \in [Page -> Seq(EventId)] /\ applied \in [Page -> [EventId -> Nat]]
    BY <1>1 DEF PageTyped
  <1>6. /\ frames[p] \in Seq(Payload) /\ Len(frames[p]) >= 1 /\ frames[p][1].id = h
        /\ frames'[p] = Tail(frames[p]) /\ frames'[p] \in Seq(Payload)
        /\ Len(frames'[p]) = Len(frames[p]) - 1 /\ Len(frames[p]) \in Nat
        /\ \A i \in 1 .. Len(frames'[p]) : i + 1 \in 1 .. Len(frames[p])
                                           /\ frames'[p][i] = frames[p][i + 1]
    <2>1. frames[p] \in Seq(Payload) /\ frames'[p] = Tail(frames[p])
      BY <1>3, <1>5
    <2>2. /\ Len(frames[p]) \in Nat /\ Len(frames[p]) >= 1 /\ Head(frames[p]) = frames[p][1]
          /\ Tail(frames[p]) \in Seq(Payload) /\ Len(Tail(frames[p])) = Len(frames[p]) - 1
          /\ \A i \in 1 .. Len(Tail(frames[p])) : i + 1 \in 1 .. Len(frames[p])
                                                 /\ Tail(frames[p])[i] = frames[p][i + 1]
      BY <1>3, <2>1
    <2>3. frames[p][1].id = h
      BY <1>3, <2>2
    <2> QED
      BY <2>1, <2>2, <2>3
  <1>7. /\ lastId'[p] = h
        /\ \A q \in Page : q # p => /\ lastId'[q] = lastId[q] /\ frames'[q] = frames[q]
                                    /\ seen'[q] = seen[q] /\ applied'[q] = applied[q]
    BY <1>3, <1>5
  <1>8. /\ \A e \in EventId : e \in ToSet(seen'[p]) => e \in ToSet(seen[p]) \union {h}
        /\ \A e \in EventId : applied'[p][e] \in Nat /\ (applied[p][e] # 0 => applied'[p][e] # 0)
        /\ applied'[p][h] # 0
    <2>0. seen[p] \in Seq(EventId) /\ applied[p] \in [EventId -> Nat]
      BY <1>5
    <2>1. CASE h \in ToSet(seen[p]) /\ seen' = seen /\ applied' = applied
      BY <1>1, <2>0, <2>1 DEF WarmCursor
    <2>2. CASE /\ seen' = [seen EXCEPT ![p] = Remember(seen[p], h)]
               /\ applied' = [applied EXCEPT ![p] = [applied[p] EXCEPT ![h] = @ + 1]]
      <3>1. seen'[p] = Remember(seen[p], h) /\ applied'[p] = [applied[p] EXCEPT ![h] = @ + 1]
        BY <1>5, <2>2
      <3>2. ToSet(seen'[p]) \subseteq ToSet(seen[p]) \union {h}
        BY <2>0, <3>1, RememberAdds
      <3> QED
        BY <2>0, <3>1, <3>2
    <2> QED
      BY <1>3, <2>1, <2>2
  <1>9. /\ \A i \in 1 .. Len(frames[p]) : frames[p][i].id <= Delivered /\ frames[p][i].id \in Nat
        /\ \A i, j \in 1 .. Len(frames[p]) : i < j => frames[p][i].id < frames[p][j].id
    <2>1. \A i \in 1 .. Len(frames[p]) : frames[p][i] \in Payload
      BY <1>6
    <2>2. \A y \in Payload : y.id \in Nat
      BY <1>2 DEF Payload
    <2> QED
      BY <1>1, <2>1, <2>2 DEF WarmFrames, Rising
  <1>10. Delivered' = Delivered /\ next' = next /\ wire' = wire /\ list' = list
    BY <1>4 DEF Delivered, redis, publishers
  <1>11. WarmHub'
    BY <1>1, <1>4 DEF WarmHub, hubState, publishers, bounds
  <1>12. WarmLists'
    BY <1>1, <1>4, <1>10 DEF WarmLists, hubState, Capped
  <1>13. WarmFrames'
    <2>1. Rising(frames'[p], Delivered)
      <3>1. \A i \in 1 .. Len(frames'[p]) : frames'[p][i].id <= Delivered
        BY <1>6, <1>9
      <3>2. ASSUME NEW i \in 1 .. Len(frames'[p]), NEW j \in 1 .. Len(frames'[p]), i < j
            PROVE  frames'[p][i].id < frames'[p][j].id
        <4>1. i + 1 \in 1 .. Len(frames[p]) /\ j + 1 \in 1 .. Len(frames[p]) /\ i + 1 < j + 1
          BY <1>6, <3>2
        <4> QED
          BY <1>6, <1>9, <4>1
      <3> QED
        BY <3>1, <3>2 DEF Rising
    <2> QED
      BY <1>1, <1>4, <1>7, <1>10, <2>1 DEF WarmFrames
  <1>14. h <= Delivered
    BY <1>6, <1>9
  <1>15. WarmCursor'
    <2>1. SUFFICES ASSUME NEW q \in Page
                   PROVE  /\ lastId'[q] <= Delivered
                          /\ \A e \in EventId : e \in ToSet(seen'[q]) => applied'[q][e] # 0
                          /\ owed[q] \subseteq EventId /\ \A e \in owed[q] : e < next
                          /\ lastId'[q] # NoId =>
                                \A e \in owed[q] : applied'[q][e] = 0 => lastId'[q] < e
      BY <1>4, <1>10 DEF WarmCursor
    <2>2. CASE q # p
      BY <1>1, <1>7, <2>2 DEF WarmCursor
    <2>3. CASE q = p
      <3>1. \A e \in EventId : e \in ToSet(seen'[p]) => applied'[p][e] # 0
        BY <1>1, <1>8 DEF WarmCursor
      <3>2. owed[p] \subseteq EventId /\ \A e \in owed[p] : e < next
        BY <1>1 DEF WarmCursor
      <3>3. ASSUME NEW e \in owed[p], applied'[p][e] = 0 PROVE h < e
        <4>1. e \in EventId /\ e \in Nat /\ applied[p][e] = 0
          BY <1>2, <1>8, <3>2, <3>3
        <4>2. e \in Ids(frames[p]) \/ e \in Ids(wire)
          BY <1>1, <1>4, <4>1 DEF NothingMissed
        <4>3. CASE e \in Ids(frames[p])
          <5>1. PICK i \in 1 .. Len(frames[p]) : frames[p][i].id = e
            <6>1. DOMAIN frames[p] = 1 .. Len(frames[p])
              BY <1>6
            <6> QED
              BY <4>3, <6>1 DEF Ids
          <5>2. i # 1
            BY <1>6, <1>8, <3>3, <5>1
          <5>3. 1 \in 1 .. Len(frames[p]) /\ 1 < i
            BY <1>6, <5>2
          <5> QED
            BY <1>6, <1>9, <5>1, <5>3
        <4>4. CASE e \in Ids(wire)
          <5>1. PICK i \in 1 .. Len(wire) : wire[i].id = e
            <6>1. wire \in Seq(Payload)
              BY <1>1 DEF LiveTyped
            <6>2. DOMAIN wire = 1 .. Len(wire)
              BY <6>1
            <6> QED
              BY <4>4, <6>2 DEF Ids
          <5>2. e = Delivered + i
            BY <1>1, <5>1 DEF WarmLists
          <5>3. h \in Nat
            BY <1>2
          <5> QED
            BY <1>2, <1>14, <5>1, <5>2, <5>3
        <4> QED
          BY <4>2, <4>3, <4>4
      <3> QED
        BY <1>7, <1>14, <2>3, <3>1, <3>2, <3>3
    <2> QED
      BY <2>2, <2>3
  <1>16. NothingMissed'
    <2>1. SUFFICES ASSUME NEW q \in Page, conn[q] = "streaming", NEW e \in owed[q]
                   PROVE  applied'[q][e] > 0 \/ e \in Ids(frames'[q]) \/ e \in Ids(wire)
      BY <1>4, <1>10 DEF NothingMissed
    <2>2. applied[q][e] > 0 \/ e \in Ids(frames[q]) \/ e \in Ids(wire)
      BY <1>1, <2>1 DEF NothingMissed
    <2>3. CASE q # p
      BY <1>7, <2>2, <2>3
    <2>4. CASE q = p
      <3>1. e \in EventId /\ applied[p][e] \in Nat /\ applied'[p][e] \in Nat
        <4>1. e \in EventId
          BY <1>1, <2>1 DEF WarmCursor
        <4>2. applied[p] \in [EventId -> Nat]
          BY <1>5
        <4> QED
          BY <1>8, <4>1, <4>2
      <3>2. CASE applied[p][e] > 0
        BY <1>8, <2>4, <3>1, <3>2
      <3>3. CASE e \in Ids(frames[p])
        <4>1. PICK i \in 1 .. Len(frames[p]) : frames[p][i].id = e
          <5>1. DOMAIN frames[p] = 1 .. Len(frames[p])
            BY <1>6
          <5> QED
            BY <3>3, <5>1 DEF Ids
        <4>2. CASE i = 1
          BY <1>6, <1>8, <2>4, <3>1, <4>1, <4>2
        <4>3. CASE i # 1
          <5>1. i - 1 \in 1 .. Len(frames'[p]) /\ (i - 1) + 1 = i
            BY <1>6, <4>3
          <5>2. frames'[p][i - 1].id = e
            BY <1>6, <4>1, <5>1
          <5>3. DOMAIN frames'[p] = 1 .. Len(frames'[p])
            BY <1>6
          <5> QED
            BY <2>4, <5>1, <5>2, <5>3 DEF Ids
        <4> QED
          BY <4>2, <4>3
      <3> QED
        BY <2>2, <2>4, <3>2, <3>3
    <2> QED
      BY <2>3, <2>4
  <1> QED
    BY <1>11, <1>12, <1>13, <1>15, <1>16

LEMMA WarmKept ==
    ASSUME Announced = {}, MaxRestarts = 0, MaxDetachments = 0, WarmInv, [LiveNext]_liveVars
    PROVE  WarmInv'
  <1>1. LiveTyped /\ PageTyped /\ WarmHub /\ WarmLists /\ WarmFrames /\ WarmCursor /\ NothingMissed
    BY DEF WarmInv
  <1>2. LiveTyped' /\ PageTyped'
    BY <1>1, LiveTypedKept, PageTypedKept
  <1>3. CASE WorkerPublishes
    BY <1>2, <1>3, WarmPublishes DEF WarmInv
  <1>4. CASE Deliver
    BY <1>2, <1>4, WarmDelivers DEF WarmInv
  <1>5. CASE \E p \in Page : Subscribe(p)
    BY <1>2, <1>5, WarmSubscribes DEF WarmInv
  <1>6. CASE \E p \in Page : Receive(p)
    BY <1>2, <1>6, WarmReceives DEF WarmInv
  <1>7. CASE \E p \in Page : Drop(p)
    <2>1. PICK p \in Page : Drop(p)
      BY <1>7
    <2>2. /\ conn' = [conn EXCEPT ![p] = "away"] /\ frames' = [frames EXCEPT ![p] = <<>>]
          /\ UNCHANGED <<redis, publishers, hubState, page, owed, failures, detachments, restarts>>
      BY <2>1 DEF Drop
    <2>3. /\ conn'[p] = "away" /\ frames'[p] = <<>>
          /\ \A q \in Page : q # p => conn'[q] = conn[q] /\ frames'[q] = frames[q]
      BY <1>1, <2>2 DEF LiveTyped, PageTyped
    <2>4. Delivered' = Delivered
      BY <2>2 DEF Delivered, redis, publishers
    <2>5. WarmHub'
      BY <1>1, <2>2, <2>3 DEF WarmHub, hubState, publishers
    <2>6. WarmLists'
      BY <1>1, <2>2, <2>4 DEF WarmLists, redis, publishers, hubState, Capped
    <2>7. WarmFrames'
      <3>1. Rising(<<>>, Delivered)
        BY DEF Rising
      <3> QED
        BY <1>1, <2>3, <2>4, <3>1 DEF WarmFrames
    <2>8. WarmCursor'
      BY <1>1, <2>2, <2>4 DEF WarmCursor, page, publishers
    <2>9. NothingMissed'
      BY <1>1, <2>2, <2>3 DEF NothingMissed, page, redis
    <2> QED
      BY <1>2, <2>5, <2>6, <2>7, <2>8, <2>9 DEF WarmInv
  <1>8. CASE (\E e \in EventId : Age(e)) \/ UNCHANGED liveVars
    <2>1. UNCHANGED <<redis, next, claimed, announcing, hubState, page, streams, bounds>>
      BY <1>8 DEF Age, liveVars, publishers
    <2>2. Delivered' = Delivered
      BY <2>1 DEF Delivered, redis
    <2>3. WarmHub' /\ WarmLists'
      BY <1>1, <2>1, <2>2 DEF WarmHub, WarmLists, Capped, redis, hubState, streams, bounds
    <2>4. WarmFrames' /\ WarmCursor' /\ NothingMissed'
      BY <1>1, <2>1, <2>2 DEF WarmFrames, Rising, WarmCursor, NothingMissed, page, streams, redis
    <2> QED
      BY <1>2, <2>3, <2>4 DEF WarmInv
  <1>9. ~\E e \in EventId : ClaimAnnouncement(e) \/ PushAnnouncement(e) \/ LoseAnnouncement(e)
    BY <1>1 DEF WarmHub, ClaimAnnouncement, PushAnnouncement, LoseAnnouncement
  <1>10. ~HubStep /\ ~Reattach /\ ~HubFault
    <2>1. ~HubStep /\ ~Reattach /\ ~ConnectFails
      BY <1>1 DEF WarmHub, HubStep, Dialed, SubscribeChannel, ReadRecent, FinishConnect, Reattach,
         ConnectFails, Connecting
    <2>2. ~Detach /\ ~Restart
      BY <1>1 DEF WarmHub, Detach, Restart
    <2> QED
      BY <2>1, <2>2 DEF HubFault
  <1> QED
    BY <1>3, <1>4, <1>5, <1>6, <1>7, <1>8, <1>9, <1>10 DEF LiveNext

\* The comment of replay, "Only reconnects with a known Last-Event-ID receive the
\* events they actually missed", as a guarantee: while the worker is the only
\* publisher and the hub neither restarts nor loses its own connection, a page that
\* streams has had, has in its stream, or will get over the hub's connection every
\* event published since it has a cursor, whatever the caps and however often its
\* stream broke.
THEOREM NoEventMissed ==
    ASSUME Announced = {}, MaxRestarts = 0, MaxDetachments = 0
    PROVE  WarmSpec => []NothingMissed
  <1>1. LiveInitWith("open") => WarmInv
    <2> SUFFICES ASSUME LiveInitWith("open") PROVE WarmInv
      OBVIOUS
    <2>1. LiveTyped
      BY LiveTypedFirst
    <2>2. /\ list = <<>> /\ wire = <<>> /\ recent = <<>> /\ next = 1
          /\ claimed = {} /\ announcing = {} /\ hub = "open" /\ detached = FALSE
          /\ conn = [p \in Page |-> "closed"] /\ lastId = [p \in Page |-> NoId]
          /\ seen = [p \in Page |-> <<>>] /\ applied = [p \in Page |-> [e \in EventId |-> 0]]
          /\ frames = [p \in Page |-> <<>>] /\ owed = [p \in Page |-> {}]
          /\ detachments = 0 /\ restarts = 0
      BY DEF LiveInitWith
    <2>3. <<>> \in Seq(Payload) /\ <<>> \in Seq(EventId) /\ Len(<<>>) = 0 /\ ToSet(<<>>) = {}
      BY DEF ToSet
    <2>4. PageTyped
      BY <2>2, <2>3 DEF PageTyped
    <2>5. WarmHub
      BY <2>2 DEF WarmHub
    <2>6. Delivered = 0
      <3>1. Len(wire) = 0 /\ next = 1
        BY <2>2
      <3> QED
        BY <3>1 DEF Delivered
    <2>7. WarmLists
      <3>1. Len(wire) = 0 /\ Len(list) = 0 /\ Len(recent) = 0
        BY <2>2, <2>3
      <3>2. Capped(0) = 0
        BY LiveAssumption DEF Capped
      <3> QED
        BY <2>2, <2>6, <3>1, <3>2 DEF WarmLists
    <2>8. WarmFrames
      BY <2>2, <2>3 DEF WarmFrames, Rising
    <2>9. WarmCursor
      BY <2>2, <2>3, <2>6 DEF WarmCursor, NoId
    <2>10. NothingMissed
      BY <2>2 DEF NothingMissed
    <2> QED
      BY <2>1, <2>4, <2>5, <2>7, <2>8, <2>9, <2>10 DEF WarmInv
  <1>2. WarmInv /\ [LiveNext]_liveVars => WarmInv'
    BY WarmKept
  <1>3. WarmInv => NothingMissed
    BY DEF WarmInv
  <1> QED
    BY <1>1, <1>2, <1>3, PTL DEF WarmSpec
=============================================================================
