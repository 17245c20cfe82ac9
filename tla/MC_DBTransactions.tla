-------------------------- MODULE MC_DBTransactions --------------------------
(* Model-checking instance of DBTransactions: three levels of nesting let  *)
(* a transaction on one environment be nested inside one on another and    *)
(* inside one on itself; two serials per environment tell the current      *)
(* transaction from the previous one.                                      *)
EXTENDS DBTransactions

\* HISTORY stands for every sub-database Supernode folds into BLKDATA.
MCDBs == {"HEADERS", "BLKDATA", "HISTORY"}
MCMaxDepth == 3
MCMaxCalls == 4
MCMaxTxn == 2
=============================================================================
