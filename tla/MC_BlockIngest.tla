---------------------------- MODULE MC_BlockIngest ----------------------------
(* Model-checking instance of BlockIngest: three blocks, so that a crash   *)
(* can leave a block half committed with blocks before and after it, and   *)
(* two crashes, so that a block re-ingested after a crash can be cut short *)
(* again.  Two addresses: block 1 pays both, block 2 spends A's output and *)
(* pays A again, block 3 spends the rest and pays B.                       *)
EXTENDS BlockIngest, TLC

CONSTANTS A, B, o1, o2, o3, o4

MCMaxHeight == 3
MCMaxCrashes == 2
MCMaxResets == 1
MCAddrs == {A, B}
MCOwnerOf == (o1 :> A) @@ (o2 :> B) @@ (o3 :> A) @@ (o4 :> B)
MCValueOf == (o1 :> 2) @@ (o2 :> 1) @@ (o3 :> 1) @@ (o4 :> 3)
MCCreates == (1 :> {o1, o2}) @@ (2 :> {o3}) @@ (3 :> {o4})
MCSpends == (1 :> {}) @@ (2 :> {o1}) @@ (3 :> {o2, o3})
=============================================================================
