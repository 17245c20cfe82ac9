------------------------------ MODULE MC_SSHRange ------------------------------
(* Model-checking instance of SSHRange with two-valued bytes: shards at    *)
(* heights 0..3 with both dupIDs, every subset of them, every start height *)
(* and every end height up to the default UINT32_MAX.                      *)
EXTENDS SSHRange

MCBase == 2
MCMaxHeight == 3
=============================================================================
