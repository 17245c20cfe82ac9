----------------------------- MODULE MC_KeyCodec -----------------------------
(* Model-checking instance of KeyCodec with two-valued bytes: every height *)
(* that fits the 24-bit field (0..7 is three bytes here), indices that     *)
(* carry into their second byte, and both dupID values.                    *)
EXTENDS KeyCodec

MCBase == 2
MCMaxHeight == 7
MCMaxIndex == 3
=============================================================================
