---------------------------- MODULE MC_BDMInject ----------------------------
(* Model-checking instance of BDMInject: two caller threads and a bound of *)
(* three notify() calls, enough for two coalesced notifies, a notify that  *)
(* arrives while run() is executing, and a third after it.                 *)
EXTENDS BDMInject

CONSTANTS c1, c2

MCCallers == {c1, c2}
MCMaxNotify == 3
=============================================================================
