----------------------------- MODULE BlockIngest -----------------------------
(***************************************************************************)
(* Block ingest by the indexer across the environments of                  *)
(* LMDBBlockDatabase, src/cppForSwig/lmdb_wrapper.h.                       *)
(*                                                                         *)
(* A block writes its header to HEADERS (putBareHeader), its block, tx and *)
(* txout records and the DBInfo top to BLKDATA (putRawBlockData,           *)
(* putStoredTx, putStoredTxOut, putStoredDBInfo), and its script histories *)
(* to HISTORY (putStoredScriptHistory) and its tx hints to TXHINTS       *)
(* (putStoredTxHints).  A write goes to dbs_[getDbSelect(db)], in the      *)
(* environment holding that database, and                                  *)
(* joins the writer's transaction there.  beginDBTransaction() opens a     *)
(* transaction on a single environment, so a block touching several        *)
(* environments commits in several transactions.  Transactions are RAII    *)
(* objects: the one opened first (the outermost) ends last.  Following     *)
(* spec.md 5, the DBInfo top is the last thing a block updates; its        *)
(* environment's transaction is the outermost.                             *)
(*                                                                         *)
(* The process may crash at any point; what an environment has not         *)
(* committed is lost.  On restart the writer resumes after the top read    *)
(* back from BLKDATA's DBInfo (spec.md 4.4, Init).  The bodies of the put  *)
(* methods are not in the repository; the routing is DBTransactions'.      *)
(*                                                                         *)
(* A block creates txouts and spends earlier ones.  In BLKDATA each txout  *)
(* is a StoredTxOut whose spentness is updated in place when the spending  *)
(* tx is stored.  In HISTORY each script address has a StoredScriptHistory *)
(* summary (totalUnspent, totalTxioCount, alreadyScannedUpToBlk) that the  *)
(* block updates; a summary already scanned past the block is left alone,  *)
(* so a block redone after a crash is not counted twice.                   *)
(***************************************************************************)
EXTENDS Integers, FiniteSetsExt

CONSTANTS
    Mode,        \* armoryDbType_: "FULL" or "SUPER"
    MaxHeight,   \* blocks 1..MaxHeight arrive from the raw block stream
    MaxCrashes,  \* bound on the crashes in a behaviour
    MaxResets,   \* bound on destroyAndResetDatabases() calls
    Addrs,       \* script addresses
    OwnerOf,     \* OwnerOf[o]: the script address txout o pays
    ValueOf,     \* ValueOf[o]: its value
    Creates,     \* Creates[h]: the txouts block h creates
    Spends       \* Spends[h]: the txouts block h spends

ASSUME Mode \in {"FULL", "SUPER"} /\ MaxHeight \in Nat \ {0} /\ MaxCrashes \in Nat
\* A block spends only txouts created by earlier blocks, each once.
ASSUME \A h \in 1..MaxHeight : \A o \in Spends[h] :
         /\ \E g \in 1..(h - 1) : o \in Creates[g]
         /\ \A g \in 1..MaxHeight : g # h => o \notin Spends[g]

\* The databases a block writes.
DBs == {"HEADERS", "BLKDATA", "HISTORY", "TXHINTS"}
Heights == 1..MaxHeight

DT == INSTANCE DBTransactions WITH
        MaxDepth <- 1, MaxCalls <- 1, MaxTxn <- 1,
        frames <- <<>>, depth <- 0, txnId <- 0, pending <- 0, store <- 0,
        thrown <- {}, calls <- 0

\* The environment a put to db lands in: dbs_[getDbSelect(db)]'s.
WriteEnv(db) == DT!EnvOf(DT!GetDbSelect(db))
Envs == {WriteEnv(db) : db \in DBs}
\* The environment of the DBInfo record that carries the top block.
TopEnv == WriteEnv("BLKDATA")
HistEnv == WriteEnv("HISTORY")

\* The txouts stored Unspent in BLKDATA once blocks bs are in it:
\* putStoredTxOut of every created txout, spentness set by later spends.
UTXOs(bs) == UNION {Creates[h] : h \in bs} \ UNION {Spends[h] : h \in bs}

\* The txios of block h for address a: its receipts and its spends.
Txios(a, h) == {o \in Creates[h] \cup Spends[h] : OwnerOf[o] = a}
Received(a, h) == MapThenSumSet(LAMBDA o : ValueOf[o], {o \in Creates[h] : OwnerOf[o] = a})
Paid(a, h) == MapThenSumSet(LAMBDA o : ValueOf[o], {o \in Spends[h] : OwnerOf[o] = a})

\* The empty summary of an address not yet scanned.
NoSSH == [scanned |-> 0, unspent |-> 0, txio |-> 0]

VARIABLES
    stored,   \* stored[db]: blocks whose records are committed in db
    top,      \* the DBInfo top block committed in BLKDATA (0: none)
    cur,      \* the block being ingested, 0 when the writer is between blocks
    open,     \* environments holding the block's uncommitted transaction
    crashes,  \* crashes so far
    resets,   \* destroyAndResetDatabases() calls so far
    ssh       \* ssh[a]: the StoredScriptHistory summary of a committed in HISTORY

vars == <<stored, top, cur, open, crashes, resets, ssh>>

TypeOK ==
    /\ stored \in [DBs -> SUBSET Heights]
    /\ top \in 0..MaxHeight /\ cur \in 0..MaxHeight
    /\ open \subseteq Envs /\ (open = {} <=> cur = 0)
    /\ crashes \in 0..MaxCrashes /\ resets \in 0..MaxResets
    /\ ssh \in [Addrs -> [scanned : 0..MaxHeight, unspent : Int, txio : Nat]]

Init ==
    /\ stored = [db \in DBs |-> {}]
    /\ top = 0 /\ cur = 0 /\ open = {}
    /\ crashes = 0 /\ resets = 0
    /\ ssh = [a \in Addrs |-> NoSSH]

-----------------------------------------------------------------------------

\* getTopBlockHeight(BLKDATA): the top block of the committed DBInfo.
GetTopBlockHeight == top

\* Mutant: a block whose header HEADERS already holds is taken as ingested
\* and not written again.
BeginBlockSkipsKnown ==
    /\ cur = 0 /\ top < MaxHeight
    /\ top + 1 \notin stored["HEADERS"]
    /\ cur' = top + 1
    /\ open' = Envs
    /\ UNCHANGED <<stored, top, crashes, resets, ssh>>

\* The writer takes the block after getTopBlockHeight(BLKDATA) and writes
\* all its records, each in the transaction of its environment; nothing is
\* visible before that transaction commits.
BeginBlock ==
    /\ cur = 0 /\ GetTopBlockHeight < MaxHeight
    /\ cur' = GetTopBlockHeight + 1
    /\ open' = Envs
    /\ UNCHANGED <<stored, top, crashes, resets, ssh>>

\* Mutant: the summary is updated whatever block it was scanned up to.
UpdateSSHNoScanCheck(s, a, h) ==
    [scanned |-> h, unspent |-> s.unspent + Received(a, h) - Paid(a, h),
     txio |-> s.txio + Cardinality(Txios(a, h))]

\* The summary of a after block h is put (putStoredScriptHistory): a
\* summary already scanned up to h is kept, otherwise the block's receipts
\* and spends are added and it is marked scanned up to h.
UpdateSSH(s, a, h) ==
    IF s.scanned >= h THEN s
    ELSE [scanned |-> h, unspent |-> s.unspent + Received(a, h) - Paid(a, h),
          txio |-> s.txio + Cardinality(Txios(a, h))]

\* HISTORY's summaries after the transaction on environment e commits.
CommitSSH(e) ==
    ssh' = IF e = HistEnv THEN [a \in Addrs |-> UpdateSSH(ssh[a], a, cur)] ELSE ssh

\* Mutant: the environments commit in any order.
CommitEnvAnyOrder(e) ==
    /\ e \in open
    /\ stored' = [db \in DBs |-> IF WriteEnv(db) = e THEN stored[db] \cup {cur} ELSE stored[db]]
    /\ top' = IF e = TopEnv THEN cur ELSE top
    /\ open' = open \ {e}
    /\ cur' = IF open' = {} THEN 0 ELSE cur
    /\ CommitSSH(e)
    /\ UNCHANGED <<crashes, resets>>

\* Mutant: the last commit of a block leaves the writer on that block.
CommitEnvKeepsBlock(e) ==
    /\ e \in open
    /\ e = TopEnv => open = {TopEnv}
    /\ stored' = [db \in DBs |-> IF WriteEnv(db) = e THEN stored[db] \cup {cur} ELSE stored[db]]
    /\ top' = IF e = TopEnv THEN cur ELSE top
    /\ open' = open \ {e}
    /\ UNCHANGED cur
    /\ CommitSSH(e)
    /\ UNCHANGED <<crashes, resets>>

\* The outermost transaction on e commits its records (and, on BLKDATA's
\* environment, the DBInfo top); inner ones end first, in any order the
\* call path gives, and the DBInfo environment's ends last.
CommitEnv(e) ==
    /\ e \in open
    /\ e = TopEnv => open = {TopEnv}
    /\ stored' = [db \in DBs |-> IF WriteEnv(db) = e THEN stored[db] \cup {cur} ELSE stored[db]]
    /\ top' = IF e = TopEnv THEN cur ELSE top
    /\ open' = open \ {e}
    /\ cur' = IF open' = {} THEN 0 ELSE cur
    /\ CommitSSH(e)
    /\ UNCHANGED <<crashes, resets>>

\* The process dies: the open transactions are lost, the committed data
\* stays, and the writer restarts between blocks.
Crash ==
    /\ cur # 0 /\ crashes < MaxCrashes
    /\ cur' = 0 /\ open' = {}
    /\ crashes' = crashes + 1
    /\ UNCHANGED <<stored, top, resets, ssh>>

\* destroyAndResetDatabases(), between blocks: every database is emptied
\* for a rebuild from the first block.
DestroyAndResetDatabases ==
    /\ cur = 0 /\ resets < MaxResets
    /\ stored' = [db \in DBs |-> {}]
    /\ top' = 0
    /\ ssh' = [a \in Addrs |-> NoSSH]
    /\ resets' = resets + 1
    /\ UNCHANGED <<cur, open, crashes>>

Writer == BeginBlock \/ \E e \in Envs : CommitEnv(e)

Next == Writer \/ Crash \/ DestroyAndResetDatabases

\* The indexer is a dedicated thread; crashes are not forced.
Spec == Init /\ [][Next]_vars /\ WF_vars(Writer)

\* getStoredScriptHistorySummary(ssh, scrAddr): the summary record of an
\* address, without its sub-histories (spec.md 3).
GetStoredScriptHistorySummary(a) == ssh[a]

\* getBalanceForScrAddr(scrAddr) with withMulti = false: the summary's
\* totalUnspent.
GetBalanceForScrAddr(a) == GetStoredScriptHistorySummary(a).unspent

-----------------------------------------------------------------------------
(* Properties                                                              *)

\* The DBInfo top is the readers' linearization point (spec.md 5): a reader
\* that sees top h sees the header, block and history records of every
\* block up to h, whatever order the inner transactions end in and however
\* the process crashed.
TopLinearizes == \A db \in DBs : 1..top \subseteq stored[db]

\* Every block of the stream is eventually in every database, crashes
\* between the commits of its environments included.
BlocksEventuallyComplete == <>[](\A db \in DBs : stored[db] = Heights)

\* Each address's summary in HISTORY counts exactly the blocks HISTORY
\* holds, each once, however often a block was redone after a crash that
\* came between its HISTORY commit and its DBInfo commit: totalUnspent is
\* the value of its unspent txouts and totalTxioCount its txios, so the
\* balance a wallet reads is that of the blocks HISTORY holds.
HistoryMatchesBlocks ==
    \A a \in Addrs :
        /\ GetBalanceForScrAddr(a) =
             MapThenSumSet(LAMBDA o : ValueOf[o],
                           {o \in UTXOs(stored["HISTORY"]) : OwnerOf[o] = a})
        /\ GetStoredScriptHistorySummary(a).txio = MapThenSumSet(LAMBDA h : Cardinality(Txios(a, h)), stored["HISTORY"])

=============================================================================
