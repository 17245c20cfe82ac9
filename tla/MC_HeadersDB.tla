----------------------------- MODULE MC_HeadersDB -----------------------------
(* Model-checking instance of HeadersDB: one header at height 0 and three  *)
(* competing headers at height 1, so that a height holds a fresh dupID, a  *)
(* collision and a reorg between branch tips.  A second network's genesis *)
(* header t0 competes at height 0 if a store ever mixed networks.         *)
EXTENDS HeadersDB

CONSTANTS g0, a1, b1, c1, t0, Main, Test

MCHashes == {g0, a1, b1, c1, t0}
MCHeightOf == (t0 :> 0) @@ (g0 :> 0) @@ (a1 :> 1) @@ (b1 :> 1) @@ (c1 :> 1)
\* Enough dupIDs for every header of a height.
MCDupMod == 3
MCNets == {Main, Test}
MCNetOf == [x \in MCHashes |-> IF x = t0 THEN Test ELSE Main]
=============================================================================
