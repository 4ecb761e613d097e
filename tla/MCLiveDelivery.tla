-------------------------- MODULE MCLiveDelivery ---------------------------
(* Instances of LiveDelivery: pages are interchangeable where no liveness is checked. *)
EXTENDS LiveDelivery, TLC

PageSymmetry == Permutations(Page)

\* The web process has restarted: event 1 had reached every page, event 2 was
\* published while the process was down, and the pages reconnect.
InitRestarted ==
    /\ list = <<[id |-> 2, by |-> "worker"], [id |-> 1, by |-> "worker"]>>
    /\ wire = <<>> /\ next = 3 /\ claimed = {} /\ announcing = {} /\ aged = {}
    /\ hub = "idle" /\ detached = FALSE /\ listed = <<>> /\ recent = <<>>
    /\ conn = [p \in Page |-> "away"]
    /\ lastId = [p \in Page |-> 1]
    /\ seen = [p \in Page |-> <<1>>]
    /\ applied = [p \in Page |-> [e \in EventId |-> IF e = 1 THEN 1 ELSE 0]]
    /\ frames = [p \in Page |-> <<>>]
    /\ owed = [p \in Page |-> {1, 2}]
    /\ drops = 0 /\ failures = 0 /\ detachments = 0 /\ restarts = MaxRestarts
RestartedSpec == InitRestarted /\ [][LiveNext]_liveVars
=============================================================================
