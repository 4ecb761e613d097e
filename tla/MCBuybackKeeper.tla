-------------------------- MODULE MCBuybackKeeper ---------------------------
(* Two tokens, one on each side of the quote token; shares in tenths.      *)
EXTENDS BuybackKeeper

CONSTANTS t1, t2

MCInitialTick == [first \in BOOLEAN |-> IF first THEN -7 ELSE 7]
MCTradeFees == {[quote |-> 5, token |-> 1], [quote |-> 3, token |-> 0]}
=============================================================================
