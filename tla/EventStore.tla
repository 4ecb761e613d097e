------------------------------ MODULE EventStore ------------------------------
(***************************************************************************)
(* What the readers of the event store are promised: it holds facts about  *)
(* blocks up to its head; it only ever grows above its head, or shrinks to *)
(* exactly what it held up to an earlier block.                            *)
(***************************************************************************)
EXTENDS Naturals

VARIABLES
    facts,   \* what is stored, each fact with the height of its block
    head     \* the checkpoint: [lastBlock, ...]

Empty == facts = {} /\ head.lastBlock = 0

\* A range is stored: it lies above the old head, and up to the new one.
Advance ==
    /\ head'.lastBlock > head.lastBlock
    /\ facts \subseteq facts'
    /\ \A f \in facts' \ facts : f.block \in (head.lastBlock + 1)..head'.lastBlock

\* Orphaned blocks are removed, and nothing below them.
Retreat ==
    /\ head'.lastBlock <= head.lastBlock
    /\ facts' = {f \in facts : f.block <= head'.lastBlock}

StoreSpec == Empty /\ [][Advance \/ Retreat]_<<facts, head>>
=============================================================================
