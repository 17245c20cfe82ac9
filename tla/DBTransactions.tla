---------------------------- MODULE DBTransactions ----------------------------
(***************************************************************************)
(* Environment routing and nested write transactions of                    *)
(* LMDBBlockDatabase, src/cppForSwig/lmdb_wrapper.h.                       *)
(*                                                                         *)
(* The logical sub-databases (DB_SELECT) live in LMDB environments.  In    *)
(* the Fullnode layout (openDatabases) each one has its own environment;   *)
(* in the Supernode layout (openDatabasesSupernode) HEADERS keeps its own  *)
(* and the others are folded into the BLKDATA one.  Two inline routines    *)
(* route a DB_SELECT: getDbSelect() picks the database a put or get goes   *)
(* to, beginDBTransaction() picks the environment a transaction is opened  *)
(* on.  A write needs a write transaction of the writer thread on the      *)
(* environment of the database it goes to, or it throws.                   *)
(*                                                                         *)
(* Transactions of one thread on one environment nest: only the outermost  *)
(* commit writes (NOTE 2 of the header).  Transactions are RAII objects,   *)
(* so they end in the reverse order of their beginning.                    *)
(***************************************************************************)
EXTENDS Naturals, Sequences, FiniteSets, SequencesExt

CONSTANTS
    DBs,        \* the DB_SELECTs in play: HEADERS, BLKDATA and some of HISTORY, TXHINTS
    Mode,       \* armoryDbType_: "FULL" or "SUPER"
    MaxDepth,   \* bound on the nesting depth of the writer's transactions
    MaxCalls,   \* bound on the transactions one top-level operation begins
    MaxTxn      \* number of transaction serials per environment (reused cyclically)

ASSUME {"HEADERS", "BLKDATA"} \subseteq DBs
ASSUME DBs \subseteq {"HEADERS", "BLKDATA", "HISTORY", "TXHINTS"}
ASSUME Mode \in {"FULL", "SUPER"} /\ MaxDepth \in Nat \ {0} /\ MaxCalls \in Nat \ {0}
       /\ MaxTxn \in Nat \ {0}

\* armoryDbType_ == ARMORY_DB_SUPER: the Supernode layout is in use.
IsSuper == Mode = "SUPER"

\* Mutant: the Supernode folding applied whatever the mode.
GetDbSelectAlwaysFolds(dbs) ==
    IF dbs = "HEADERS" THEN "HEADERS" ELSE "BLKDATA"

\* getDbSelect(dbs): HEADERS stays HEADERS; in Supernode everything else is
\* BLKDATA.
GetDbSelect(dbs) ==
    IF dbs = "HEADERS" THEN "HEADERS"
    ELSE IF IsSuper THEN "BLKDATA"
    ELSE dbs

\* The environment holding database dbs_[db] once the databases are open.
EnvOf(db) ==
    IF IsSuper THEN (IF db = "HEADERS" THEN "HEADERS" ELSE "BLKDATA")
    ELSE db

\* beginDBTransaction(&tx, db, mode): the environment the transaction is on.
BeginEnv(db) == IF IsSuper THEN "BLKDATA" ELSE db

Envs == {EnvOf(db) : db \in DBs}

VARIABLES
    frames,    \* the writer's open transactions, innermost last: [sel, env]
    depth,     \* depth[e]: nesting count of the writer's transaction on e
    txnId,     \* txnId[e]: serial of the writer's current/last outermost txn on e
               \* (a serial is reused once MaxTxn later ones have begun; the
               \* model then forgets its old writes)
    pending,   \* pending[d]: txn serials with uncommitted writes to dbs_[d]
    store,     \* store[d]: txn serials whose writes to dbs_[d] are committed
    thrown,    \* DB_SELECTs whose put threw for want of a transaction
    calls      \* transactions begun by the current top-level operation

vars == <<frames, depth, txnId, pending, store, thrown, calls>>

TypeOK ==
    /\ frames \in Seq([sel : DBs, env : Envs])
    /\ Len(frames) <= MaxDepth
    /\ depth \in [Envs -> 0..MaxDepth]
    /\ \A e \in Envs : depth[e] = Cardinality({i \in 1..Len(frames) : frames[i].env = e})
    /\ txnId \in [Envs -> 0..MaxTxn]
    /\ pending \in [DBs -> SUBSET (1..MaxTxn)]
    /\ store \in [DBs -> SUBSET (1..MaxTxn)]
    /\ thrown \subseteq DBs
    /\ calls \in 0..MaxCalls

Init ==
    /\ frames = <<>>
    /\ depth = [e \in Envs |-> 0]
    /\ txnId = [e \in Envs |-> 0]
    /\ pending = [d \in DBs |-> {}]
    /\ store = [d \in DBs |-> {}]
    /\ thrown = {}
    /\ calls = 0

-----------------------------------------------------------------------------

\* The serial of the next outermost transaction on e.
NextTxn(e) == (txnId[e] % MaxTxn) + 1

\* Mutant: a nested begin on an environment does not count: the nesting
\* count stays at 1.
BeginDBTransactionFlat(db) ==
    LET e == BeginEnv(db)
        t == NextTxn(e)
        here == {d \in DBs : EnvOf(d) = e}
    IN
    /\ Len(frames) < MaxDepth
    /\ calls < MaxCalls
    /\ calls' = calls + 1
    /\ frames' = Append(frames, [sel |-> db, env |-> e])
    /\ depth' = [depth EXCEPT ![e] = 1]
    /\ IF depth[e] = 0
         THEN /\ txnId' = [txnId EXCEPT ![e] = t]
              /\ store' = [d \in DBs |-> IF d \in here THEN store[d] \ {t} ELSE store[d]]
         ELSE UNCHANGED <<txnId, store>>
    /\ UNCHANGED <<pending, thrown>>

\* beginDBTransaction(&tx, db, ReadWrite) by the writer: opens a transaction
\* on BeginEnv(db), nested in one the thread already holds on that env.
BeginDBTransaction(db) ==
    LET e == BeginEnv(db)
        t == NextTxn(e)
        here == {d \in DBs : EnvOf(d) = e}
    IN
    /\ Len(frames) < MaxDepth
    /\ calls < MaxCalls
    /\ calls' = calls + 1
    /\ frames' = Append(frames, [sel |-> db, env |-> e])
    /\ depth' = [depth EXCEPT ![e] = @ + 1]
    /\ IF depth[e] = 0
         THEN /\ txnId' = [txnId EXCEPT ![e] = t]
              /\ store' = [d \in DBs |-> IF d \in here THEN store[d] \ {t} ELSE store[d]]
         ELSE UNCHANGED <<txnId, store>>
    /\ UNCHANGED <<pending, thrown>>

\* putValue(db, key, value), or deleteValue(db, key), which routes the same
\* way, within a transaction begun for db: the write goes
\* to dbs_[getDbSelect(db)]; it joins the writer's transaction on that
\* database's environment, or throws when the writer holds none there.
PutValue(db) ==
    LET d == GetDbSelect(db)
        e == EnvOf(d)
    IN /\ \E i \in 1..Len(frames) : frames[i].sel = db
       /\ IF depth[e] > 0
            THEN /\ pending' = [pending EXCEPT ![d] = @ \cup {txnId[e]}]
                 /\ UNCHANGED thrown
            ELSE /\ thrown' = thrown \cup {db}
                 /\ UNCHANGED pending
       /\ UNCHANGED <<frames, depth, txnId, store, calls>>

\* Mutant: the commit is keyed to the thread's outermost transaction rather
\* than to the outermost one on the environment.
CommitDBTransactionThreadLevel ==
    /\ frames # <<>>
    /\ calls' = IF Len(frames) = 1 THEN 0 ELSE calls
    /\ LET e == Last(frames).env
           here == {d \in DBs : EnvOf(d) = e}
       IN /\ frames' = Front(frames)
          /\ depth' = [depth EXCEPT ![e] = @ - 1]
          /\ IF Len(frames) = 1
               THEN /\ store' = [d \in DBs |-> IF d \in here THEN store[d] \cup pending[d] ELSE store[d]]
                    /\ pending' = [d \in DBs |-> IF d \in here THEN {} ELSE pending[d]]
               ELSE UNCHANGED <<store, pending>>
    /\ UNCHANGED <<txnId, thrown>>

\* The innermost transaction object ends: its commit is a no-op unless it
\* is the outermost one on its environment, which commits every pending
\* write to the databases of that environment.  Closing the last one ends the
\* top-level operation.
CommitDBTransaction ==
    /\ frames # <<>>
    /\ calls' = IF Len(frames) = 1 THEN 0 ELSE calls
    /\ LET e == Last(frames).env
           here == {d \in DBs : EnvOf(d) = e}
       IN /\ frames' = Front(frames)
          /\ depth' = [depth EXCEPT ![e] = @ - 1]
          /\ IF depth[e] = 1
               THEN /\ store' = [d \in DBs |-> IF d \in here THEN store[d] \cup pending[d] ELSE store[d]]
                    /\ pending' = [d \in DBs |-> IF d \in here THEN {} ELSE pending[d]]
               ELSE UNCHANGED <<store, pending>>
    /\ UNCHANGED <<txnId, thrown>>

Next ==
    \/ \E db \in DBs : BeginDBTransaction(db) \/ PutValue(db)
    \/ CommitDBTransaction

\* Every transaction object the writer creates is destroyed (RAII).
Spec == Init /\ [][Next]_vars /\ WF_vars(CommitDBTransaction)

-----------------------------------------------------------------------------
(* Properties                                                              *)

\* A put made inside a transaction begun for the same DB_SELECT never finds
\* its environment without a transaction: beginDBTransaction() and
\* getDbSelect() route every DB_SELECT to the same environment.
NoUncoveredPut == thrown = {}

\* Every write the writer makes is eventually committed.
WritesEventuallyCommitted ==
    \A d \in DBs : \A t \in 1..MaxTxn : t \in pending[d] ~> t \in store[d]

=============================================================================
