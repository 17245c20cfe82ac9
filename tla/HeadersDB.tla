------------------------------ MODULE HeadersDB ------------------------------
(***************************************************************************)
(* The HEADERS sub-database of LMDBBlockDatabase and its duplicate-ID      *)
(* table, src/cppForSwig/lmdb_wrapper.h.                                   *)
(*                                                                         *)
(* Every header is stored under two keys: HEADHGT|height holds the         *)
(* StoredHeadHgtList (all (dupID, hash) pairs seen at that height and the  *)
(* one valid dupID), and HEADHASH|hash holds the header's (height, dupID). *)
(* The writer keeps an in-memory copy of the valid dupIDs,                 *)
(* validDupByHeight_ (a plain map, no lock), which                         *)
(* getValidDupIDForHeight() consults before the database.                  *)
(*                                                                         *)
(* The single writer (the indexer thread) works inside one write           *)
(* transaction at a time; the database state is kept twice: `committed`,   *)
(* what a reader's new read transaction sees, and `working`, what the      *)
(* writer's open transaction sees.  An error aborts the transaction and    *)
(* sets the failure flag (spec.md 7).  A crash loses the open transaction  *)
(* and the in-memory table; opening the databases reloads the table.       *)
(*                                                                         *)
(* The store records the network magic it was created for (StoredDBInfo).  *)
(* openDatabases() writes it on first creation and refuses a store whose   *)
(* magic differs from the configured one (spec.md 4.3.1).  The             *)
(* configuration is chosen while the databases are closed (setConfig,      *)
(* selectNetwork), and the indexer only meets headers of the configured    *)
(* network: they come from the block files of that network.               *)
(***************************************************************************)
EXTENDS Integers, FiniteSets, FiniteSetsExt, TLC

CONSTANTS
    Hashes,     \* header hashes (model values)
    HeightOf,   \* HeightOf[x]: the height of the header with hash x
    DupMod,     \* number of dupIDs below the valid bit (0x80 in the byte: 128)
    Nets,       \* networks, by their magic bytes (model values)
    NetOf       \* NetOf[x]: the network whose block files hold header x

ASSUME HeightOf \in [Hashes -> Nat] /\ DupMod \in Nat \ {0}
ASSUME NetOf \in [Hashes -> Nets]

NoNet == "none"                      \* no StoredDBInfo yet: a fresh store

Heights == {HeightOf[x] : x \in Hashes}
Dups == 0..(DupMod - 1)
NoDup == -1                          \* no entry / no valid dupID
Entry == [dup : Dups, hash : Hashes] \* one (dupID, hash) pair of a StoredHeadHgtList

\* The contents of the HEADERS sub-database.
\*   list[h]  : the (dupID, hash) pairs of StoredHeadHgtList(h)
\*   valid[h] : the dupID StoredHeadHgtList(h) marks valid
\*   byHash[x]: the dupID stored under HEADHASH|x (its height is HeightOf[x])
DBState == [list : [Heights -> SUBSET Entry],
            valid : [Heights -> Dups \cup {NoDup}],
            byHash : [Hashes -> Dups \cup {NoDup}]]

EmptyDB == [list |-> [h \in Heights |-> {}],
            valid |-> [h \in Heights |-> NoDup],
            byHash |-> [x \in Hashes |-> NoDup]]

VARIABLES
    committed,  \* HEADERS as of the last commit
    working,    \* HEADERS as seen inside the writer's open transaction
    txOpen,     \* the writer has a write transaction open
    cache,      \* validDupByHeight_
    isOpen,     \* dbIsOpen_
    failed,     \* the worker aborted a transaction and set its failure flag
    dbMagic,    \* the magic of the store's StoredDBInfo, or NoNet
    cfgMagic    \* BlockDataManagerConfig::magicBytes of the running process

vars == <<committed, working, txOpen, cache, isOpen, failed, dbMagic, cfgMagic>>

TypeOK ==
    /\ committed \in DBState
    /\ working \in DBState
    /\ txOpen \in BOOLEAN
    /\ cache \in [Heights -> Dups \cup {NoDup}]
    /\ isOpen \in BOOLEAN
    /\ failed \in BOOLEAN
    /\ dbMagic \in Nets \cup {NoNet}
    /\ cfgMagic \in Nets

\* The dupIDs marked valid in a database state: what loading the table reads.
LoadValidDups(db) == [h \in Heights |-> db.valid[h]]

Init ==
    /\ committed = EmptyDB
    /\ working = EmptyDB
    /\ txOpen = FALSE
    /\ cache = [h \in Heights |-> NoDup]
    /\ isOpen = FALSE
    /\ failed = FALSE
    /\ dbMagic = NoNet
    /\ cfgMagic \in Nets

-----------------------------------------------------------------------------
(* Helpers                                                                 *)

\* databasesAreOpen(): dbIsOpen_.
DatabasesAreOpen == isOpen

\* setValidDupIDForHeight(h, d, overwrite): update the in-memory table; with
\* overwrite = FALSE an existing value is kept.
SetValidDupIDForHeight(tbl, h, d, overwrite) ==
    IF ~overwrite /\ tbl[h] # NoDup THEN tbl ELSE [tbl EXCEPT ![h] = d]

\* getValidDupIDForHeight(h): the in-memory value, else the database's.
GetValidDupIDForHeight(h, db) == IF cache[h] # NoDup THEN cache[h] ELSE db.valid[h]

\* getDupForBlockHash(hash): the dupID stored under HEADHASH|hash.
GetDupForBlockHash(x, db) == db.byHash[x]

\* Mutant: a header already listed gets back its stored byte, valid bit
\* (0x80) included, instead of the dupID.
AssignDupWithValidBit(db, x) ==
    LET L == db.list[HeightOf[x]]
        mine == {e \in L : e.hash = x}
    IN IF mine # {} THEN (CHOOSE e \in mine : TRUE).dup + DupMod
       ELSE IF L = {} THEN 0
       ELSE (Max({e.dup : e \in L}) + 1) % DupMod

\* Mutant: a colliding header takes the largest dupID instead of the next one.
AssignDupReusesMax(db, x) ==
    LET L == db.list[HeightOf[x]]
        mine == {e \in L : e.hash = x}
    IN IF mine # {} THEN (CHOOSE e \in mine : TRUE).dup
       ELSE IF L = {} THEN 0
       ELSE Max({e.dup : e \in L}) % DupMod

\* The dupID putBareHeader() assigns to x: its existing one when x is
\* already listed, 0 on a fresh height, otherwise one past the largest dupID
\* of the height (a uint8_t below the valid bit, so it wraps).
AssignDup(db, x) ==
    LET L == db.list[HeightOf[x]]
        mine == {e \in L : e.hash = x}
    IN IF mine # {} THEN (CHOOSE e \in mine : TRUE).dup
       ELSE IF L = {} THEN 0
       ELSE (Max({e.dup : e \in L}) + 1) % DupMod

-----------------------------------------------------------------------------
(* Writer operations                                                       *)

\* Mutant: openDatabases() without the magic check on reopen.
OpenDatabasesNoMagicCheck ==
    /\ ~isOpen
    /\ dbMagic' = IF dbMagic = NoNet THEN cfgMagic ELSE dbMagic
    /\ isOpen' = TRUE
    /\ cache' = LoadValidDups(committed)
    /\ working' = committed
    /\ UNCHANGED <<committed, txOpen, failed, cfgMagic>>

\* openDatabases(..., magic, ...): a fresh store gets StoredDBInfo with the
\* configured magic; a store of the configured network is opened; then
\* validDupByHeight_ is loaded from HEADERS.
OpenDatabases ==
    /\ ~isOpen
    /\ dbMagic \in {NoNet, cfgMagic}
    /\ dbMagic' = cfgMagic
    /\ isOpen' = TRUE
    /\ cache' = LoadValidDups(committed)
    /\ working' = committed
    /\ UNCHANGED <<committed, txOpen, failed, cfgMagic>>

\* openDatabases() on a store of another network: refused, fatally.
OpenDatabasesRefused ==
    /\ ~isOpen /\ ~failed
    /\ dbMagic \notin {NoNet, cfgMagic}
    /\ failed' = TRUE
    /\ UNCHANGED <<committed, working, txOpen, cache, isOpen, dbMagic, cfgMagic>>

\* setConfig(config) with a config whose selectNetwork() chose network n
\* (magic bytes and genesis hashes), while the databases are closed.
SetConfig(n) ==
    /\ ~isOpen
    /\ cfgMagic' = n
    /\ UNCHANGED <<committed, working, txOpen, cache, isOpen, failed,
                   dbMagic>>

\* closeDatabases(): idempotent; refused while the writer holds a transaction.
CloseDatabases ==
    /\ ~txOpen
    /\ isOpen' = FALSE
    /\ UNCHANGED <<committed, working, txOpen, cache, failed, dbMagic, cfgMagic>>

\* beginDBTransaction(&tx, HEADERS, ReadWrite) by the writer.
BeginDBTransaction ==
    /\ DatabasesAreOpen /\ ~txOpen /\ ~failed
    /\ txOpen' = TRUE
    /\ working' = committed
    /\ UNCHANGED <<committed, cache, isOpen, failed, dbMagic, cfgMagic>>

\* putBareHeader(sbh, updateDupID): list the header at its height with its
\* assigned dupID, index it by hash, and with updateDupID mark it valid in
\* the height list and in the in-memory table.
PutBareHeader(x, updateDupID) ==
    /\ txOpen /\ NetOf[x] = cfgMagic
    /\ LET h == HeightOf[x]
           d == AssignDup(working, x)
       IN /\ working' = [working EXCEPT
                            !.list[h] = @ \cup {[dup |-> d, hash |-> x]},
                            !.byHash[x] = d,
                            !.valid[h] = IF updateDupID THEN d ELSE @]
          /\ cache' = IF updateDupID THEN SetValidDupIDForHeight(cache, h, d, TRUE)
                                     ELSE cache
    /\ UNCHANGED <<committed, txOpen, isOpen, failed, dbMagic, cfgMagic>>

\* Mutant: markBlockHeaderValid() without the check that the hash is stored.
MarkBlockHeaderValidUnchecked(x) ==
    /\ txOpen
    /\ LET h == HeightOf[x]
           d == GetDupForBlockHash(x, working)
       IN /\ working' = [working EXCEPT !.valid[h] = d]
          /\ cache' = SetValidDupIDForHeight(cache, h, d, TRUE)
    /\ UNCHANGED <<committed, txOpen, isOpen, failed, dbMagic, cfgMagic>>

\* markBlockHeaderValid(headHash): make a stored header's dupID the valid one
\* of its height; a hash that is not stored is refused.
MarkBlockHeaderValid(x) ==
    /\ txOpen
    /\ GetDupForBlockHash(x, working) # NoDup
    /\ LET h == HeightOf[x]
           d == GetDupForBlockHash(x, working)
       IN /\ working' = [working EXCEPT !.valid[h] = d]
          /\ cache' = SetValidDupIDForHeight(cache, h, d, TRUE)
    /\ UNCHANGED <<committed, txOpen, isOpen, failed, dbMagic, cfgMagic>>

\* The outermost commit makes the transaction's writes visible.
CommitDBTransaction ==
    /\ txOpen
    /\ committed' = working
    /\ txOpen' = FALSE
    /\ UNCHANGED <<working, cache, isOpen, failed, dbMagic, cfgMagic>>

\* An error inside the transaction: abort it and set the failure flag.
\* The in-memory table is not part of the transaction.
AbortDBTransaction ==
    /\ txOpen
    /\ working' = committed
    /\ txOpen' = FALSE
    /\ failed' = TRUE
    /\ UNCHANGED <<committed, cache, isOpen, dbMagic, cfgMagic>>

\* Mutant: nukeHeadersDB() leaves validDupByHeight_ as it was.
NukeHeadersDBKeepsTable ==
    /\ DatabasesAreOpen /\ ~txOpen
    /\ committed' = EmptyDB
    /\ working' = EmptyDB
    /\ UNCHANGED <<cache, txOpen, isOpen, failed, dbMagic, cfgMagic>>

\* nukeHeadersDB(): erase HEADERS for a rebuild, with the table mirroring it.
NukeHeadersDB ==
    /\ DatabasesAreOpen /\ ~txOpen
    /\ committed' = EmptyDB
    /\ working' = EmptyDB
    /\ cache' = [h \in Heights |-> NoDup]
    /\ UNCHANGED <<txOpen, isOpen, failed, dbMagic, cfgMagic>>

\* The process dies: the open transaction and the in-memory table are lost;
\* the restarted process has not opened the databases yet.
Crash ==
    /\ working' = committed
    /\ txOpen' = FALSE
    /\ cache' = [h \in Heights |-> NoDup]
    /\ isOpen' = FALSE
    /\ failed' = FALSE
    /\ UNCHANGED <<committed, dbMagic, cfgMagic>>

Next ==
    \/ OpenDatabases \/ OpenDatabasesRefused \/ CloseDatabases
    \/ \E n \in Nets : SetConfig(n)
    \/ BeginDBTransaction \/ CommitDBTransaction \/ AbortDBTransaction
    \/ \E x \in Hashes : \/ \E u \in BOOLEAN : PutBareHeader(x, u)
                         \/ MarkBlockHeaderValid(x)
    \/ NukeHeadersDB \/ Crash

Spec == Init /\ [][Next]_vars

-----------------------------------------------------------------------------
(* Properties                                                              *)

\* The two header indices agree in the writer's view: each listed header has
\* one dupID, no two headers of a height share a dupID, and HEADHASH|x names
\* exactly the dupID HEADHGT lists for x.  Two headers with one dupID would
\* share every block-data key of that (height, dupID).
HeaderIndexesAgree ==
    \A h \in Heights : \A e, f \in working.list[h] :
        /\ (e.dup = f.dup) <=> (e.hash = f.hash)
        /\ working.byHash[e.hash] = e.dup

\* While the worker has not failed, getValidDupIDForHeight() (table first,
\* then database) names, for every height, a header stored at that height,
\* and the in-memory table agrees with the valid dupID of the database the
\* writer sees.
ValidDupResolves ==
    ~failed =>
        \A h \in Heights :
            /\ cache[h] \in {NoDup, working.valid[h]}
            /\ LET d == GetValidDupIDForHeight(h, working)
               IN d # NoDup => \E e \in working.list[h] : e.dup = d

\* HEADERS only ever holds headers of the network its StoredDBInfo names,
\* in what readers see and in the writer's transaction, whatever networks
\* the processes that opened it since were configured for: the magic check
\* of openDatabases() is what keeps a restart under another network's
\* config from writing its headers into this store.
StoreHoldsOneNetwork ==
    \A x \in Hashes :
        (committed.byHash[x] # NoDup \/ working.byHash[x] # NoDup) => NetOf[x] = dbMagic

-----------------------------------------------------------------------------
(* Refinement of the abstract header chain                                 *)

\* The header a (height, dupID) of a database state names, or "none".
HeaderAt(db, h, d) ==
    IF \E e \in db.list[h] : e.dup = d THEN (CHOOSE e \in db.list[h] : e.dup = d).hash
    ELSE "none"

VC == INSTANCE ValidChain WITH
        known <- {x \in Hashes : committed.byHash[x] # NoDup},
        valid <- [h \in Heights |-> HeaderAt(committed, h, committed.valid[h])]

\* What readers see of HEADERS implements the abstract header chain: the
\* known headers only grow (until nukeHeadersDB), every committed valid
\* dupID names a stored header of its height, and no commit, abort or
\* crash leaves a height that had a valid header without one.
ValidChainSpec == VC!CSpec

=============================================================================
