------------------------------ MODULE MC_TxHints ------------------------------
(* Model-checking instance of TxHints: two competing blocks at each of two *)
(* heights.  Two of the three hashes share a 4-byte prefix (a bucket        *)
(* collision); the third has a bucket of its own.                          *)
EXTENDS TxHints

CONSTANTS t1, t2, t3

MCTxs == {t1, t2, t3}
\* t1 and t2 collide in bucket 1.
MCPrefixCollide == [t \in MCTxs |-> IF t = t3 THEN 2 ELSE 1]
MCHeights == 1..2
MCDups == 0..1
=============================================================================
