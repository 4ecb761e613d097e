--------------------------- MODULE MCEventIndexer ---------------------------
(***************************************************************************)
(* Three chains for EventIndexer: A, and B and D that fork from each other *)
(* above block 2.  Token t1 is launched in the first block of each, under  *)
(* another position; the position it has on A is t2's on B; tx2 is         *)
(* included on A and, one block higher, again on B.                        *)
(***************************************************************************)
EXTENDS EventIndexer

CONSTANTS a1, a2, a3, a4, b1, b2, b3, b4, d3, d4, t1, t2, h1, h2

MCBlock == {a1, a2, a3, a4, b1, b2, b3, b4, d3, d4}
Tips == {<<a1, a2, a3, a4>>, <<b1, b2, b3, b4>>, <<b1, b2, d3, d4>>}
MCChains == {SubSeq(c, 1, n) : c \in Tips, n \in 1..4}
MCToken == {t1, t2}
MCHolder == {h1, h2}

LaunchLogs(tx, first, t, p, on) ==
    {[tx |-> tx, index |-> first, kind |-> Launch, token |-> t, position |-> p],
     [tx |-> tx, index |-> first + 1, kind |-> Config, token |-> t, enabled |-> on],
     [tx |-> tx, index |-> first + 2, kind |-> "Transfer", token |-> t,
      from |-> Zero, to |-> h1, value |-> 3]}
Moves(tx, index, t, source, target, n) ==
    [tx |-> tx, index |-> index, kind |-> "Transfer", token |-> t,
     from |-> source, to |-> target, value |-> n]
Buys(tx, t, n) ==
    {[tx |-> tx, index |-> 0, kind |-> "Swap", token |-> t], Moves(tx, 1, t, h1, h2, n)}
Buyback(tx, index, t, p) ==
    {[tx |-> tx, index |-> index, kind |-> "BuybackExecuted", token |-> t, position |-> p],
     Moves(tx, index + 1, t, h1, Zero, 1)}

MCLogs == [b \in MCBlock |->
    CASE b = a1 -> LaunchLogs("tx1", 0, t1, 2, TRUE)
      [] b = a2 -> Buys("tx2", t1, 1)
      [] b = a3 -> Buyback("tx5", 0, t1, 2)
      [] b = b1 -> LaunchLogs("tx1", 0, t1, 1, FALSE)
      [] b = b2 -> LaunchLogs("tx4", 3, t2, 2, TRUE)
      [] b = b3 -> Buys("tx2", t1, 2) \union Buyback("tx6", 2, t2, 2)
      [] b = d3 -> Buys("tx7", t1, 2)
      [] OTHER -> {}]
=============================================================================
