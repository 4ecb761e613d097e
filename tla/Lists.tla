-------------------------------- MODULE Lists --------------------------------
(***************************************************************************)
(* The operations on lists that the components share.                      *)
(***************************************************************************)
EXTENDS Naturals, Sequences

\* filter of JavaScript's arrays: the entries that are in S, in their order.
Filtered(list, S) ==
    LET kept[i \in 0 .. Len(list)] ==
            IF i = 0 THEN <<>>
            ELSE IF list[i] \in S THEN Append(kept[i - 1], list[i]) ELSE kept[i - 1]
    IN  kept[Len(list)]

\* The entries at the places in P, in their order.
Picked(list, P) ==
    LET places == Filtered([i \in 1 .. Len(list) |-> i], P)
    IN  [k \in DOMAIN places |-> list[places[k]]]
=============================================================================
