----------------------------- MODULE MCDelivery ------------------------------
(***************************************************************************)
(* What a live event comes to in the web process: the hub that delivers it *)
(* and a snapshot cache it invalidates. `part` says which of the two runs, *)
(* the other one rests.                                                    *)
(***************************************************************************)
EXTENDS MCLiveDelivery, SnapshotCache

VARIABLE part

deliveryVars == <<part, liveVars, cacheVars>>

DeliveryInit ==
    /\ part \in {"hub", "cache"}
    /\ LiveInit /\ CacheInit
    /\ part # "cache" => stored = NoCopy

OfHub(A) == part = "hub" /\ A /\ UNCHANGED <<part, cacheVars>>
OfCache(A) == part = "cache" /\ A /\ UNCHANGED <<part, liveVars>>

DeliveryNext == OfHub(LiveNext) \/ OfCache(CacheNext)

DeliverySpec == DeliveryInit /\ [][DeliveryNext]_deliveryVars

DeliverySymmetry == PageSymmetry \union Permutations(Request)
=============================================================================
