# TLA+ models of the Armory block database and indexer thread

These modules model the C++ block database of `src/cppForSwig/` with the
TLC model checker:

- `lmdb_wrapper.h`: the LMDB multiplexer, its key schema and the iterator wrapper.
- `BDM_mainthread.h`: the indexer thread and its rendezvous object.
- `BlockDataManagerConfig.h`: the database type.

The repository holds only these headers. Where a method's body is not there,
its behaviour is taken from `spec.md`, and `PROJECT.json` marks those
definitions `spec_modelled`. Every other definition is mapped to the header
lines it translates.

## The system

| Part | Code | What it does |
|---|---|---|
| Indexer thread | `BlockDataManagerThread` | The single writer. It walks its start-up phases (Init, ScanHeaders, ScanBlocks, BuildHistory) and then serves requests in Ready, calling `run()` of the inject object. It stops on failure or on `requestShutdown()`. |
| Rendezvous | `BDM_Inject` | Callers `notify()` the worker and block in `waitRun()` until a `run()` that follows their notify has completed. `setFailureFlag()` makes waiting callers throw `BDMFailure`. |
| Callback | `BDM_CallBack` | The UI's sink for the worker's events, including the final one after a shutdown. |
| Configuration | `BlockDataManagerConfig` | Holds `armoryDbType` (Fullnode = `ARMORY_DB_FULL`, Supernode = `ARMORY_DB_SUPER`), the prune type and the network constants (magic bytes, genesis hashes) that `selectNetwork` sets. `BlockDataManagerThread::setConfig` hands a config to the indexer, and `openDatabases` receives its magic. |
| Database multiplexer | `LMDBBlockDatabase` | Sub-databases HEADERS, BLKDATA, HISTORY and TXHINTS. In Fullnode each has its own LMDB environment. In Supernode everything except HEADERS is folded into BLKDATA. `beginDBTransaction` and `getDbSelect` route a `DB_SELECT`. Nested transactions commit at the outermost level (NOTE 2). |
| Duplicate-ID table | `validDupByHeight_` | `putBareHeader` assigns a dupID to each competing header at a height. `markBlockHeaderValid` selects the valid one. The in-memory table mirrors HEADHGT and is consulted first by `getValidDupIDForHeight`. |
| Key schema | hgtx, DBKey6, DBKey8 | Keys are big-endian: height in 24 bits, dupID, then txIndex and txOutIndex in 16 bits each, so that the byte order of LMDB is block order. |
| Iterator | `LDBIter` | A cursor over one read transaction, with seeks, steps, prefix scans and a lazily materialised key and value (`isDirty_`). |
| Script histories | `getStoredScriptHistory`, `StoredScriptHistory` | A range query over SUBSSH shards keyed by hgtX, and a per-address summary (balance, txio count, `alreadyScannedUpToBlk`) updated as blocks are written. |
| Block ingest | `putBareHeader`, `putRawBlockData`, `putStoredTx`, `putStoredDBInfo` | The indexer writes a block's records to HEADERS, BLKDATA, HISTORY and TXHINTS, each through the transaction on its environment. The DBInfo top block in BLKDATA is the last thing a block updates (spec.md 5). |
| Tx hints | `putStoredTxHints`, `updatePreferredTxHint`, `getStoredTx_byHash`, `markTxEntryValid` | TXHINTS maps the 4-byte prefix of a tx hash to the DBKey6 list of every stored tx with that prefix, plus a preferred index. A lookup tries the preferred key first, then the others, and compares full hashes. A reorg marks the new branch's tx entries valid, which moves the preferred key. |

How the parts interact:

- The indexer writes every database through the multiplexer, inside write
  transactions.
- Wallet queries on other threads open read transactions and iterators, and
  resolve valid dupIDs through the shared table.
- The UI thread talks to the indexer only through `BDM_Inject` and the
  callback.

## Modules

| Module | Models | State | Actions |
|---|---|---|---|
| `BDMInject` | `BDM_Inject`, `BlockDataManagerThread`, `BDM_CallBack` | The notify counter and the run-complete mark (`notifyCount`, `servedCount`, `runSnap`), the failure flag, the worker phase, each caller's pc and snapshot, and the shutdown requester. | `Notify`, `WaitRun`/`WaitRunReturn`/`WaitRunThrow` (waitRun), `StartupStep`, `StartupFail`, `BeginRun`/`EndRun` (wait + run), `RunFail` and `SetFailureFlag`, `ObserveShutdown` (the worker exits once no notify is pending), `RequestShutdown`, `ReceiveFinalCallback`. |
| `HeadersDB` | HEADERS, `validDupByHeight_`, the writer's transaction | The committed and working database (height lists, valid dups, hash index), the table, `dbIsOpen_`, the failure flag, the magic recorded in the store's `StoredDBInfo`, and the configured magic. | `SetConfig(n)` (a config for network n, while closed), `OpenDatabases` (writes `StoredDBInfo` on a fresh store, loads the table), `OpenDatabasesRefused` (the store is of another network), `CloseDatabases`, `BeginDBTransaction`, `PutBareHeader(x, updateDupID)`, `MarkBlockHeaderValid`, `CommitDBTransaction`, `AbortDBTransaction`, `NukeHeadersDB`, `Crash`. |
| `DBTransactions` | `beginDBTransaction`, `getDbSelect`, `putValue`, outermost commit (spec.md 4.3.2) | The writer's stack of transaction objects, the nesting depth and serial per environment, pending and committed writes per database, and the puts that threw. | `BeginDBTransaction(db)`, `PutValue(db)`, `CommitDBTransaction` (RAII end of the innermost transaction). |
| `KeyCodec` | the BE/LE rule, `heightAndDupToHgtx`, `hgtxToHeight`, DBKey6/8 | Two ranks, which enumerate every pair of coordinates. | `NextPair`. The encoders are operators, with `BE` recursive. |
| `LDBIter` | `LDBIter` | The snapshot, the cursor, `isDirty_`, `currKey_`, and the last call with its result. | `NewIter`, `SeekTo`, `SeekToFirst`, `SeekToExact`, `SeekToStartsWith`, `SeekToBefore`, `Advance`, `AdvanceAndRead`, `Retreat`, `AdvancePrefix`, `ReadIterData`, `GetKey`, `CheckKeyExact`, `CheckKeyStartsWith`. |
| `SSHRange` | `getStoredScriptHistory` | The stored shards, the bounds, the cursor and the shards merged so far. | `Seek`, `Collect`, `Finish`. |
| `BlockIngest` | a block's puts across environments, `getTopBlockHeight`, the per-address `StoredScriptHistory` summary, `destroyAndResetDatabases`, a process crash | The blocks committed per database, the DBInfo top, the block being written, the environments whose transaction is still open, each address's summary (`alreadyScannedUpToBlk_`, unspent total, txio count), and the crashes and resets so far. Each block creates and spends a fixed set of txouts, each with an owner and a value. | `BeginBlock` (takes the block after `getTopBlockHeight`), `CommitEnv(e)` (the outermost transaction on environment e ends; the HISTORY commit folds the block into every summary unless `alreadyScannedUpToBlk_` already covers it), `Crash`, `DestroyAndResetDatabases`. The readers `getStoredScriptHistorySummary` and `getBalanceForScrAddr` are operators that the ledger property is stated through. |
| `TxHints` | TXDATA and TXHINTS, `getStoredTx_byHash` | The tx at each (height, dupID) slot, each bucket's hint list and preferred index, the valid dupID per height, and the last lookup's result. | `PutStoredTx(t, s)`, `UpdatePreferred(t, s)` (updatePreferredTxHint of a stored copy), `Reorg(c)` (markBlockHeaderValid of a stored branch), `GetStoredTxByHash(t)`. |
| `Rendezvous` | what `BDM_Inject` promises (header comments; spec.md 4.4) | Each caller's stage, the callers served since their notify, the callers the current run began for, and the worker's stage. | `ANotify`, `AWait`, `AReturn`, `AThrow`, `AStart`, `ABegin`, `AEnd`, `AFail`, `ARequestShutdown`, `AShutdown`. |
| `ValidChain` | what HEADERS promises a reader | The known headers and the valid header per height. | `CUpdate` (one commit), `CErase` (nukeHeadersDB). |

Compositions:

- `SSHRange` instantiates `KeyCodec` (`KC == INSTANCE KeyCodec`) to build and
  compare its keys.
- Its cursor steps are the seek and advance semantics of `LDBIter`.
- `BlockIngest` instantiates `DBTransactions` only for its routing
  operators (`GetDbSelect`, `EnvOf`), so a block's puts land in the same
  environments the transaction model uses.

Refinements, each checked as a `PROPERTY` of the detailed module's run:

- **`BDMInject` implements `Rendezvous` (`RendezvousSpec`).** The mapping
  reads the counters as sets.
  - A caller is served when a run began after its notify and completed.
    The history variable `ranAfter` records this.
  - The captured callers are those whose notify the running run's snapshot
    (`seenByRun`) covers.
  - The worker's phase maps to starting, ready, running, failed or
    shutdown.
  - The abstract fairness is part of the property, so liveness is
    refined too.
  - A shutdown drains pending notifies before the worker exits (spec.md
    4.4), in both modules.
  - `Rendezvous` promises a served waiter nothing once the worker has shut
    down. `waitRun()` compares the run-complete mark with the notify count
    it read on entry, and that count can include other callers' later
    notifies. So a caller can stay blocked although its own request was
    run.
- **`HeadersDB` implements `ValidChain` (`ValidChainSpec`).** The committed
  database maps to the known headers and to the header at each height's
  valid dupID. Commits, aborts, crashes and nukes are all allowed steps of
  the abstract chain.

Each `MC_*` module gives the constants their values, and the `.cfg` files
select the properties.

## Runs

Every property is stated in a comment above its definition.

| Run (cfg) | Expect | Checks | Bounds | States |
|---|---|---|---|---|
| `BDMInject.cfg` | pass | `TypeOK`. `RendezvousSpec`: the refinement above (a waitRun returns only after a run begun after its notify has completed). `CoalescedRunServesWaiters`. `WaitRunReturns` (liveness): a waitRun() entered before the worker exited returns, normally or by BDMFailure. `ShutdownAnswerHonoured`: a "wait" answer is followed by the final callback. | 2 callers, 3 notifies | 6908 |
| `HeadersDB.cfg` | pass | `TypeOK`. `HeaderIndexesAgree`: HEADHGT and HEADHASH agree, and dupIDs are unique per height. `ValidDupResolves`: until a failure, the table agrees with the writer's view and names a stored header. `StoreHoldsOneNetwork`: HEADERS only holds headers of the network its `StoredDBInfo` names, whatever network each restarted process was configured for. `ValidChainSpec`: the refinement above. | Genesis plus 3 competing headers at height 1; 3 dupIDs; 2 networks, the second with its own genesis | 5242 |
| `DBTransactions.cfg` | pass | `TypeOK` (with the depth of each environment equal to its open frames). `NoUncoveredPut`: a put finds a transaction on the environment it writes to. `WritesEventuallyCommitted` (liveness). | Fullnode; HEADERS, BLKDATA, HISTORY; depth 3; 4 transactions per top-level operation; 2 serials | 55473 |
| `DBTransactions_super.cfg` | violation | `NoUncoveredPut` | Supernode | |
| `KeyCodec.cfg` | pass | `KeyOrderMatchesCoordOrder` | 2-valued bytes; heights 0..7 (all of the 3-byte field); dupIDs 0..1; indices 0..3 (carrying into the second byte) | 65536 pairs |
| `LDBIter.cfg` | pass | `TypeOK`. `SeekToBeforeFindsFloor`. `GetKeyIsCurrent`: the lazily read key is the cursor's. | 2 prefixes × 2 keys, every snapshot | 2973 |
| `SSHRange.cfg` | pass | `TypeOK`. `SSHRangeExact`: exactly the shards in [start, end], inclusive, in order. | Heights 0..3 × 2 dupIDs, every subset, every start, every end up to UINT32_MAX | 23040 |
| `BlockIngest.cfg` | pass | `TypeOK`. `TopLinearizes`: every block up to the DBInfo top is in every database. `HistoryMatchesBlocks`: each address's summary equals the unspent value and txio count of the blocks in HISTORY, across crashes, redone blocks and a reset. `BlocksEventuallyComplete` (liveness): every block reaches every database. | Fullnode; 3 blocks; 2 crashes; 1 reset; 2 addresses; 4 txouts | 480 |
| `TxHints.cfg` | pass | `TypeOK`. `ByHashFindsTx`: a lookup finds a tx exactly when one is stored, and never the colliding tx, whichever tx the shared preferred key names. | 3 hashes, 2 of them in one bucket; heights 1..2 × dupIDs 0..1 | 66964 |

Why these bounds are enough:

- **BDMInject:** two callers make coalescing and a notify arriving during a
  run possible. Three notifies cover one notify before a run, one during it
  and one after it.
- **HeadersDB:** three headers at one height give a fresh dupID, a
  collision and a change of the valid tip. A height that nothing competes
  for (genesis) is present as well. A second network with its own genesis
  header lets a restart under the other network's config meet a store
  that already holds the first network's genesis.
- **DBTransactions:** depth 3 nests a transaction on one environment inside
  one on another and inside one on itself.
- **KeyCodec:** scaling bytes to base 2 keeps every carry between bytes,
  which is where byte order matters. Heights of 2^24 or more (block 16.7M)
  are outside the 24-bit field; the hazard is listed, and the run covers
  the whole field.
- **BlockIngest:** in Fullnode, HEADERS, BLKDATA, HISTORY and TXHINTS
  each have an environment, so a block has four commits. Three blocks with
  two crashes put a crash between any two of them and a crash after a
  restart. A crash between the HISTORY commit and the DBInfo commit makes
  the restarted writer redo a block HISTORY already holds. Block 2 spends
  an output of block 1 and block 3 spends two, one of each address, so
  both summaries go up and down. One reset may happen between any two
  blocks, after which the writer starts again from block 1.
- **TxHints:** two heights with two competing blocks each allow a tx to be
  copied on both branches and a reorg in either direction. Two hashes in
  one bucket make the preferred key shared, so either can point it at its
  own copy before a lookup of the other, and the third has its own
  bucket.

Each passing property has a mutant in `PROJECT.json`. A mutant is an operator
defined just before the definition it replaces, mirroring a plausible bug.
TLC finds the property violated under the run's own cfg.

## Findings

- **Supernode routing (code bug).**
  - In Supernode, `beginDBTransaction` always opens its transaction on
    `dbEnv_[BLKDATA]` (lmdb_wrapper.h:264).
  - `getDbSelect` keeps HEADERS, which has its own environment.
  - A put to HEADERS inside a transaction begun for HEADERS therefore has
    no transaction to join (`DBTransactions_super.cfg`).

Observations that the passing runs confirm rather than refute:

- In Fullnode a block is committed in one transaction per environment,
  not in one transaction as spec.md 4.4 says. A crash between them can
  leave HEADERS holding a block that BLKDATA lacks.
  - Because the DBInfo environment's transaction is outermost and ends
    last, the top never runs ahead of any database (`TopLinearizes`).
  - The restarted writer redoes the block (`BlocksEventuallyComplete`).
- The in-memory `validDupByHeight_` is updated inside the writer's
  uncommitted transaction. `ValidDupResolves` holds for the writer's
  view. spec.md 5 requires readers to go through a read/write lock or an
  immutable snapshot, and the class declares no mutex; see "Not modelled".
- A shutdown requested while callers wait drains their notifies first
  (spec.md 4.4), so every `waitRun()` entered before the worker exits
  returns (`WaitRunReturns`).

## Fairness

- **BDMInject:** the worker thread is weakly fair. It is a dedicated thread
  that loops in `wait(ms)` with a timeout. Each caller's wake-up from
  `waitRun` and the requester's receipt of the final callback are weakly
  fair, because a condition-variable broadcast wakes every waiter whose
  condition holds.
  - Notifies, failures and shutdown requests are never forced. The
    worker serves pending notifies before it exits, so its fairness is
    enough for every waiter to return.
- **DBTransactions:** only `CommitDBTransaction` is weakly fair. Transaction
  objects are RAII, so every one that is created is destroyed.
  - Each top-level operation begins a bounded number of transactions
    (`MaxCalls`), which is what a single call path of the code does.
- **BlockIngest:** the writer (`BeginBlock`, `CommitEnv`) is weakly fair.
  The indexer is a dedicated thread, and RAII ends every transaction it
  opens. Crashes are bounded and never forced.
- **Refinements:** `Rendezvous` has weak fairness on the worker and on
  each waiter's return. `BDMInject`'s own fairness implies it.
  `ValidChain` is safety only.
- **Other modules:** `HeadersDB` (apart from the refinement), `LDBIter`,
  `SSHRange` and `TxHints` check safety only.

Deadlock checking is off in three places only:

- **BDMInject:** the worker exits once a shutdown has drained the
  pending notifies, and notify is bounded.
- **SSHRange:** one behaviour is one call, and the call returns.
- **BlockIngest:** the block stream is finite, so the writer stops after
  the last block.

## Not modelled

- **Not modelled at all:**
  - the logging helpers and debug dumps, which are pure I/O;
  - byte-level serialisation of the `Stored*` objects;
  - `progress()` callbacks;
  - the values held by iterators, which follow the key exactly.
- **Undo data.** The header (lmdb_wrapper.h:556-558) says none of the SUD
  methods are implemented, and `computeUndoData*` has no body in the
  repository, so there is no undo application to model. The validity
  flips of a reorg are modelled: `MarkBlockHeaderValid` in `HeadersDB` and
  `Reorg` in `TxHints`.
- **The ZC path and `updateStoredTx`.** Only their names are in the
  header, and spec.md says no more about them. Spentness of stored txouts
  is modelled only as far as the script-history summary needs it
  (`BlockIngest`).
- **`fetchStoredSubHistory`, `addRegisteredScript` and `registeredSSHs_`.**
  The header says that `scannedUpToBlk = UINT32_MAX` marks a new address
  that needs no rescan. No body and no part of spec.md says how that value
  then interacts with `alreadyScannedUpToBlk`, so registering an address
  during the block stream is not modelled. Every address in `BlockIngest`
  is registered before the first block.
- **The prune type, the file locations and the genesis hashes.** No
  modelled operation reads the prune type or the file locations. The
  genesis hashes are set by `selectNetwork` together with the magic, and
  the network stands for all three.
- **The other readers** (`getTxRef`, `getFullTxCopy`,
  `getTxHashForHeightAndIndex`, `readStored*AtIter`, `readAllHeaders`,
  `getHashForDBKey`). They read records whose placement `KeyCodec`,
  `LDBIter`, `HeadersDB` and `TxHints` already check. Each read is a
  lookup with no state of its own.
- **Readers of HEADERS and `validDupByHeight_` (lmdb_wrapper.h:678).**
  spec.md 5 requires the table to be protected by a read/write lock or an
  immutable snapshot; the class declares no mutex. A read concurrent with
  the writer's insert is a data race whose outcomes the C++ build does
  not bound, so reader lookups (`getBareHeader`, `getStoredHeader`) are
  not modelled. `ValidDupResolves` checks the table at every writer step.
- **`getIterator`.** It opens an iterator on `dbs_[db]` and neither reads
  nor writes on its own; the iterator itself is `LDBIter`.
- **`markTxEntryValid`.** Only its name is in the header, and spec.md
  says no more than that a reorg marks entries valid; the order in which
  a reorg would mark them and move preferred hints is not known, so
  `TxHints` lets any stored copy become preferred at any time.
- **Data inside a phase.** The header scan, block scan and history build
  are reduced to a step of `BDMInject` that can succeed or fail.
