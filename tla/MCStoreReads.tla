----------------------------- MODULE MCStoreReads -----------------------------
(* Two chains that fork above the first block; the launch is in the second. *)
EXTENDS StoreReads

CONSTANTS g, a, b

MCHash == {<< >>, <<g>>, <<g, a>>, <<g, a, a>>, <<g, b>>}
=============================================================================
