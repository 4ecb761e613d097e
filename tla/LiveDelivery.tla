---------------------------- MODULE LiveDelivery ----------------------------
(***************************************************************************)
(* Live events on their way from Redis to the browsers' pages.  Publishers *)
(* (the event worker, and the route a browser announces its confirmed      *)
(* launch to) push each payload to a capped list, newest first, and        *)
(* publish it.  One hub per web process subscribes to the channel, keeps   *)
(* its own copy of the list and serves the SSE streams; a page reconnects  *)
(* with the id of the last event it received and gets a replay.            *)
(*                                                                         *)
(* Events are numbered in the order the worker publishes them.  The steps  *)
(* of the hub are the stretches of its code between two awaits; `wire' is  *)
(* the subscriber connection, on which Redis keeps the order.  What the    *)
(* Redis client and the browser's EventSource do by themselves is external.*)
(***************************************************************************)
EXTENDS Integers, Sequences, FiniteSets, FiniteSetsExt, SequencesExt, Lists

CONSTANTS
    Page,           \* the pages open in browsers
    Events,         \* bound: how many events the worker publishes
    Launches,       \* those of them that are launches
    Announced,      \* the launches whose creator's browser calls the announce route
    ReplayLimit,    \* REPLAY_LIMIT of the hub, and the worker's lTrim
    DedupeLimit,    \* DEDUPE_LIMIT of the page
    MaxBatch,       \* bound: how many events one worker cycle publishes
    MaxDrops,       \* bound: how many streams break
    MaxFailures,    \* bound: how many Redis commands of the web process fail
    MaxDetachments, \* bound: how often an open subscriber loses its connection
    MaxRestarts     \* bound: how often the web process restarts

EventId == 1..Events
NoId == 0
Payload == [id : EventId, by : {"worker", "route"}]

ASSUME LiveAssumption ==
    /\ Events \in Nat
    /\ Launches \subseteq EventId /\ Announced \subseteq Launches
    /\ ReplayLimit \in Nat \ {0} /\ DedupeLimit \in Nat \ {0}
    /\ MaxBatch \in Nat /\ MaxDrops \in Nat /\ MaxFailures \in Nat
    /\ MaxDetachments \in Nat /\ MaxRestarts \in Nat

VARIABLES
    list,       \* arcorigin:mainnet:indexer:recent-events, newest first
    wire,       \* payloads on the hub's subscriber connection
    next,       \* the next event the worker publishes
    claimed,    \* the launches whose dedupe key is set
    announcing, \* the announcements between the claim and the push
    aged,       \* the launches older than five minutes
    hub,        \* how far connectHub is
    detached,   \* the subscriber of an open hub is reconnecting to Redis
    listed,    \* the answer of lRange, until it is merged
    recent,     \* state.recent of the hub
    conn,       \* the state of a page's EventSource
    lastId,     \* its last event ID
    frames,     \* the frames of its stream that it has not received
    seen,       \* the ids the page remembers, oldest first
    applied,    \* history: how often a page dispatched an event
    owed,       \* history: the events a page must not miss
    drops, failures, detachments, restarts    \* bounds

redis == <<list, wire>>
publishers == <<next, claimed, announcing, aged>>
hubState == <<hub, detached, listed, recent>>
page == <<lastId, seen, applied>>
streams == <<conn, frames, owed>>
bounds == <<drops, failures, detachments, restarts>>
liveVars == <<redis, publishers, hubState, page, streams, bounds>>

Connecting == {"dialing", "opened", "subscribed", "read"}
Ids(s) == {s[i].id : i \in DOMAIN s}
Trimmed(s) == SubSeq(s, 1, IF Len(s) < ReplayLimit THEN Len(s) ELSE ReplayLimit)
\* new Set([...]): the first of several equal members is kept.
Distinct(s) == Picked(s, {i \in DOMAIN s : \A j \in 1..(i - 1) : s[j] # s[i]})
-----------------------------------------------------------------------------
(* Publishing. *)

\* The channel delivers while the hub's subscription stands.
Attached == hub \in {"subscribed", "read", "open"} /\ ~detached

Pushed(batch) == Trimmed(Reverse(batch) \o list)

\* One MULTI: nothing comes between the pushes and the publications.
Push(batch) ==
    /\ list' = Pushed(batch)
    /\ wire' = IF Attached THEN wire \o batch ELSE wire
    /\ owed' = [p \in Page |->
                  IF conn[p] = "streaming" \/ lastId[p] # NoId
                  THEN owed[p] \union Ids(batch) ELSE owed[p]]

WorkerPublishes ==
    /\ \E k \in 1..MaxBatch :
          /\ next + k <= Events + 1
          /\ Push([i \in 1..k |-> [id |-> next + i - 1, by |-> "worker"]])
          /\ next' = next + k
    /\ UNCHANGED <<claimed, announcing, aged, hubState, page, conn, frames, bounds>>

\* SET NX on the dedupe key: the first announcement of a launch goes on.
ClaimAnnouncement(e) ==
    /\ e \in Announced \ claimed
    /\ claimed' = claimed \union {e}
    /\ announcing' = announcing \union {e}
    /\ UNCHANGED <<redis, next, aged, hubState, page, streams, bounds>>

PushAnnouncement(e) ==
    /\ e \in announcing
    /\ announcing' = announcing \ {e}
    /\ Push(<<[id |-> e, by |-> "route"]>>)
    /\ UNCHANGED <<next, claimed, aged, hubState, page, conn, frames, bounds>>

\* The push fails; the key stays claimed.
LoseAnnouncement(e) ==
    /\ e \in announcing /\ failures < MaxFailures
    /\ announcing' = announcing \ {e}
    /\ failures' = failures + 1
    /\ UNCHANGED <<redis, next, claimed, aged, hubState, page, streams,
                   drops, detachments, restarts>>

\* Five minutes pass since a launch.
Age(e) ==
    /\ e \in Launches \ aged
    /\ aged' = aged \union {e}
    /\ UNCHANGED <<redis, next, claimed, announcing, hubState, page, streams, bounds>>
-----------------------------------------------------------------------------
(* The replay a new stream starts with. *)

\* A page without a last event ID gets the launches of the last five minutes.
RecentLaunches(r) ==
    Reverse(Picked(r, {i \in DOMAIN r : /\ r[i].id \in Launches \ aged
                                        /\ \A j \in 1..(i - 1) : r[j].id # r[i].id}))

\* Slip: the event next to the cursor is skipped.
ReplaySkippingOne(r, last) ==
    LET at == {i \in DOMAIN r : r[i].id = last}
    IN  IF last = NoId THEN RecentLaunches(r)
        ELSE IF at = {} THEN <<>>
        ELSE Reverse(SubSeq(r, 1, Min(at) - 2))
Replay(r, last) ==
    LET at == {i \in DOMAIN r : r[i].id = last}
    IN  IF last = NoId THEN RecentLaunches(r)
        ELSE IF at = {} THEN <<>>
        ELSE Reverse(SubSeq(r, 1, Min(at) - 1))

\* The streams of the pages in S start from r: what was delivered while they
\* waited is in front of the replay.  A page that has no cursor, or whose cursor
\* Redis has evicted, starts from a snapshot instead.
StreamsStart(S, r) ==
    /\ conn' = [p \in Page |-> IF p \in S THEN "streaming" ELSE conn[p]]
    /\ frames' = [p \in Page |->
                    IF p \in S THEN frames[p] \o Replay(r, lastId[p]) ELSE frames[p]]
    /\ owed' = [p \in Page |->
                  IF p \in S /\ lastId[p] \notin Ids(list) THEN {} ELSE owed[p]]

\* Slip: only one of the requests that share the connection attempt is answered.
OneWaiting == LET W == {p \in Page : conn[p] = "waiting"}
              IN  IF W = {} THEN {} ELSE {CHOOSE p \in W : TRUE}
Awaiting == {p \in Page : conn[p] = "waiting"}
-----------------------------------------------------------------------------
(* The hub. *)

\* A request subscribes: its listener is registered, and it goes on at once when
\* client and subscriber are open, which they are before the list is read.
Subscribe(p) ==
    /\ conn[p] \in {"closed", "away"}
    /\ IF hub \in {"idle", "dialing"}
       THEN /\ conn' = [conn EXCEPT ![p] = "waiting"]
            /\ hub' = "dialing"
            /\ UNCHANGED <<frames, owed>>
       ELSE StreamsStart({p}, recent) /\ UNCHANGED hub
    /\ UNCHANGED <<redis, publishers, detached, listed, recent, page, bounds>>

Dialed ==
    /\ hub = "dialing"
    /\ hub' = "opened"
    /\ UNCHANGED <<redis, publishers, detached, listed, recent, page, streams, bounds>>

SubscribeChannel ==
    /\ hub = "opened"
    /\ hub' = "subscribed"
    /\ UNCHANGED <<redis, publishers, detached, listed, recent, page, streams, bounds>>

ReadRecent ==
    /\ hub = "subscribed"
    /\ hub' = "read"
    /\ listed' = list
    /\ UNCHANGED <<redis, publishers, detached, recent, page, streams, bounds>>

\* Slip: what the channel delivered during the read is overwritten.
MergedFetchedOnly == Trimmed(Distinct(listed))
Merged == Trimmed(Distinct(listed \o recent))

FinishConnect ==
    /\ hub = "read"
    /\ hub' = "open"
    /\ listed' = <<>>
    /\ recent' = Merged
    /\ StreamsStart(Awaiting, Merged)
    /\ UNCHANGED <<redis, publishers, detached, page, bounds>>

\* A command of the attempt fails: both clients are disconnected and every request
\* that waited for the attempt is answered 503, on which an EventSource gives up.
ConnectFails ==
    /\ hub \in Connecting /\ failures < MaxFailures
    /\ hub' = "idle"
    /\ wire' = <<>> /\ listed' = <<>>
    /\ conn' = [p \in Page |-> IF p \in Awaiting THEN "refused" ELSE conn[p]]
    /\ frames' = [p \in Page |-> IF p \in Awaiting THEN <<>> ELSE frames[p]]
    /\ failures' = failures + 1
    /\ UNCHANGED <<list, publishers, detached, recent, page, owed,
                   drops, detachments, restarts>>

\* The subscriber's connection breaks; the client stays open, reconnects and
\* subscribes again by itself, and what was published meanwhile does not reach it.
Detach ==
    /\ hub = "open" /\ ~detached /\ detachments < MaxDetachments
    /\ detached' = TRUE
    /\ wire' = <<>>
    /\ detachments' = detachments + 1
    /\ UNCHANGED <<list, publishers, hub, listed, recent, page, streams,
                   drops, failures, restarts>>

Reattach ==
    /\ detached
    /\ detached' = FALSE
    /\ UNCHANGED <<redis, publishers, hub, listed, recent, page, streams, bounds>>

\* Slip: requests that still wait for the hub get nothing.
StreamingOnly == {p \in Page : conn[p] = "refused"}
Listeners == {p \in Page : conn[p] \in {"waiting", "streaming"}}

\* The subscription callback: remember the payload and call every listener.
Deliver ==
    /\ wire # <<>>
    /\ LET payload == Head(wire)
       IN  /\ recent' = Trimmed(<<payload>> \o Filtered(recent, Payload \ {payload}))
           /\ frames' = [p \in Page |-> IF p \in Listeners THEN Append(frames[p], payload)
                                        ELSE frames[p]]
    /\ wire' = Tail(wire)
    /\ UNCHANGED <<list, publishers, hub, detached, listed, page, conn, owed, bounds>>

\* The web process restarts: hub and streams are gone, claims stay.
Restart ==
    /\ restarts < MaxRestarts
    /\ restarts' = restarts + 1
    /\ hub' = "idle" /\ detached' = FALSE
    /\ wire' = <<>> /\ listed' = <<>> /\ recent' = <<>>
    /\ announcing' = {}
    /\ conn' = [p \in Page |-> IF p \in Listeners THEN "away" ELSE conn[p]]
    /\ frames' = [p \in Page |-> <<>>]
    /\ UNCHANGED <<list, next, claimed, aged, page, owed, drops, failures, detachments>>
-----------------------------------------------------------------------------
(* The page. *)

Remember(s, e) == IF Len(s) >= DedupeLimit THEN Append(Tail(s), e) ELSE Append(s, e)

\* Slip: only an immediate repetition is recognised.
SameAsLast(p, e) == lastId[p] = e
AlreadySeen(p, e) == e \in ToSet(seen[p])

Receive(p) ==
    /\ conn[p] = "streaming" /\ frames[p] # <<>>
    /\ LET e == Head(frames[p]).id
       IN  /\ lastId' = [lastId EXCEPT ![p] = e]
           /\ IF AlreadySeen(p, e) THEN UNCHANGED <<seen, applied>>
              ELSE /\ seen' = [seen EXCEPT ![p] = Remember(@, e)]
                   /\ applied' = [applied EXCEPT ![p][e] = @ + 1]
    /\ frames' = [frames EXCEPT ![p] = Tail(@)]
    /\ UNCHANGED <<redis, publishers, hubState, conn, owed, bounds>>

\* The stream breaks: the frames under way are lost and the request is aborted.
Drop(p) ==
    /\ conn[p] \in {"waiting", "streaming"} /\ drops < MaxDrops
    /\ conn' = [conn EXCEPT ![p] = "away"]
    /\ frames' = [frames EXCEPT ![p] = <<>>]
    /\ drops' = drops + 1
    /\ UNCHANGED <<redis, publishers, hubState, page, owed,
                   failures, detachments, restarts>>
-----------------------------------------------------------------------------
LiveInitWith(phase) ==
    /\ list = <<>> /\ wire = <<>>
    /\ next = 1 /\ claimed = {} /\ announcing = {} /\ aged = {}
    /\ hub = phase /\ detached = FALSE /\ listed = <<>> /\ recent = <<>>
    /\ conn = [p \in Page |-> "closed"]
    /\ lastId = [p \in Page |-> NoId]
    /\ seen = [p \in Page |-> <<>>]
    /\ applied = [p \in Page |-> [e \in EventId |-> 0]]
    /\ frames = [p \in Page |-> <<>>]
    /\ owed = [p \in Page |-> {}]
    /\ drops = 0 /\ failures = 0 /\ detachments = 0 /\ restarts = 0

LiveInit == LiveInitWith("idle")

HubStep == Dialed \/ SubscribeChannel \/ ReadRecent \/ FinishConnect
HubFault == ConnectFails \/ Detach \/ Restart

LiveNext ==
    \/ WorkerPublishes
    \/ \E e \in EventId : ClaimAnnouncement(e) \/ PushAnnouncement(e) \/ LoseAnnouncement(e)
    \/ \E e \in EventId : Age(e)
    \/ HubStep \/ Deliver \/ Reattach
    \/ HubFault
    \/ \E p \in Page : Subscribe(p) \/ Receive(p) \/ Drop(p)

\* The event loop and Redis go on, and an EventSource that lost its stream
\* reconnects; nothing has to be published, fail or break.
LiveFairness ==
    /\ WF_liveVars(HubStep) /\ WF_liveVars(Deliver) /\ WF_liveVars(Reattach)
    /\ \A p \in Page : WF_liveVars(Receive(p)) /\ WF_liveVars(conn[p] = "away" /\ Subscribe(p))

LiveSpec == LiveInit /\ [][LiveNext]_liveVars

\* The hub of a process that has been serving streams since before the events.
WarmSpec == LiveInitWith("open") /\ [][LiveNext]_liveVars
FairWarmSpec == WarmSpec /\ LiveFairness
-----------------------------------------------------------------------------
(* Properties. *)

\* Types, and the caps on the three lists that would otherwise grow for ever.
LiveTypeOK ==
    /\ list \in Seq(Payload) /\ Len(list) <= ReplayLimit
    /\ wire \in Seq(Payload)
    /\ next \in 1..(Events + 1)
    /\ announcing \subseteq claimed /\ claimed \subseteq Announced
    /\ aged \subseteq Launches
    /\ hub \in Connecting \union {"idle", "open"} /\ detached \in BOOLEAN
    /\ listed \in Seq(Payload)
    /\ recent \in Seq(Payload) /\ Len(recent) <= ReplayLimit
    /\ conn \in [Page -> {"closed", "away", "waiting", "streaming", "refused"}]
    /\ lastId \in [Page -> EventId \union {NoId}]
    /\ frames \in [Page -> Seq(Payload)]
    /\ seen \in [Page -> Seq(EventId)]
    /\ \A p \in Page : Len(seen[p]) <= DedupeLimit
    /\ applied \in [Page -> [EventId -> Nat]]
    /\ owed \in [Page -> SUBSET EventId]

\* A page that streams has, or will get from its stream, every event published
\* since it has a cursor, however often it reconnected: the replay starts where
\* the last stream ended ("Only reconnects with a known Last-Event-ID receive the
\* events they actually missed").
NothingMissed ==
    \A p \in Page : conn[p] = "streaming" =>
        \A e \in owed[p] : applied[p][e] > 0 \/ e \in Ids(frames[p]) \/ e \in Ids(wire)

\* A page dispatches an event at most once, although replays, live delivery and
\* the two publishers overlap, until it has to forget one of the ids it remembers.
AppliedOnce ==
    \A p \in Page, e \in EventId : Len(seen[p]) < DedupeLimit => applied[p][e] <= 1

\* An open hub has, or will get, whatever the list in Redis holds, until the list
\* is full: subscribing before the list is read leaves no gap in which a payload is
\* observed by neither.  (A subscriber that lost its connection later may have a
\* gap, and with a full list the merge cuts off the newest payload.)
StartupObserved ==
    hub = "open" /\ detachments = 0 /\ Len(list) < ReplayLimit =>
        ToSet(list) \subseteq ToSet(recent) \union ToSet(wire)

\* No request is forgotten: whoever waits for the hub waits for a connection attempt
\* that is still under way, so that its end, good or bad, answers everyone.
WaitingIsServed == \A p \in Page : conn[p] = "waiting" => hub \in Connecting

\* What a page must not miss it gets in the end, unless it must start from a
\* snapshot again.
EventuallyApplied ==
    \A p \in Page, e \in EventId : e \in owed[p] ~> (applied[p][e] > 0 \/ e \notin owed[p])
=============================================================================
