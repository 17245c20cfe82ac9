------------------------------ MODULE MC_LDBIter ------------------------------
(* Model-checking instance of LDBIter: two prefixes of two keys each, and  *)
(* every snapshot of those four keys, so that seeks fall before the first, *)
(* between, on and past the last key, and scans cross a prefix boundary.   *)
EXTENDS LDBIter

MCNumPrefixes == 2
MCNumTails == 2
=============================================================================
