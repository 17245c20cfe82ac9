------------------------------- MODULE TxHints -------------------------------
(***************************************************************************)
(* Transaction lookup by hash through the TXHINTS sub-database of          *)
(* LMDBBlockDatabase, src/cppForSwig/lmdb_wrapper.h.                       *)
(*                                                                         *)
(* A stored tx lives at its DBKey6 (height, dupID, txIndex).  TXHINTS maps *)
(* the first 4 bytes of a tx hash to a StoredTxHints: the list of DBKey6s  *)
(* of every stored tx with that prefix, and a preferred index into it.     *)
(* getStoredTx_byHash() reads the bucket, walks the candidates (the        *)
(* preferred one first), fetches each tx and compares the full hash; the   *)
(* first match wins.  The same tx can be stored at two DBKey6s, in         *)
(* competing blocks, and markBlockHeaderValid() switches which one is on   *)
(* the valid branch.  updatePreferredTxHint() moves a bucket's preferred   *)
(* pointer to a given key (appending the key when it is new).              *)
(*                                                                         *)
(* Only the declarations are in the repository; the bodies follow         *)
(* spec.md 3.3 and 4.3.4.  A hash is a model value, its 4-byte prefix the  *)
(* value of Prefix; a DBKey6 is a (height, dupID) slot with one tx index.  *)
(***************************************************************************)
EXTENDS Integers, Sequences, SequencesExt

CONSTANTS
    Txs,      \* tx hashes
    Prefix,   \* Prefix[t]: the 4-byte hash prefix, a bucket of TXHINTS
    Heights,
    Dups

Slots == Heights \X Dups
NoTx == "none"
NoSlot == <<0, 0>>
NoDup == -1
\* No lookup since the last change of the database.
NoLookup == [tx |-> NoTx, slot |-> NoSlot]
Buckets == {Prefix[t] : t \in Txs}

VARIABLES
    txAt,       \* txAt[s]: the tx stored at DBKey6 s (TXDATA), or NoTx
    hints,      \* hints[p]: the DBKey6 list of bucket p
    preferred,  \* preferred[p]: the preferred index into hints[p] (0: empty)
    validDup,   \* validDup[h]: the dupID marked valid at height h, or NoDup
    found       \* a getStoredTx_byHash since the last change: [tx, slot]
                \* (slot NoSlot: it returned false)

vars == <<txAt, hints, preferred, validDup, found>>

TypeOK ==
    /\ txAt \in [Slots -> Txs \cup {NoTx}]
    /\ \A p \in Buckets : hints[p] \in Seq(Slots) /\ preferred[p] \in 0..Len(hints[p])
    /\ validDup \in [Heights -> Dups \cup {NoDup}]
    /\ found \in [tx : Txs \cup {NoTx}, slot : Slots \cup {NoSlot}]

Init ==
    /\ txAt = [s \in Slots |-> NoTx]
    /\ hints = [p \in Buckets |-> <<>>]
    /\ preferred = [p \in Buckets |-> 0]
    /\ validDup = [h \in Heights |-> NoDup]
    /\ found = NoLookup

-----------------------------------------------------------------------------

\* putStoredTx(stx) with its hint: the tx is written at its DBKey6 and the
\* key is added to its bucket (putStoredTxHints); the first key of a bucket
\* is its preferred one.
PutStoredTx(t, s) ==
    /\ txAt[s] = NoTx
    /\ txAt' = [txAt EXCEPT ![s] = t]
    /\ LET p == Prefix[t]
       IN /\ hints' = [hints EXCEPT ![p] = Append(@, s)]
          /\ preferred' = [preferred EXCEPT ![p] = IF @ = 0 THEN 1 ELSE @]
    /\ found' = NoLookup
    /\ UNCHANGED validDup

\* Mutant: the index of a key already in the bucket is taken one past it.
UpdatePreferredOffByOne(hs, pr, p, s) ==
    IF \E i \in 1..Len(hs[p]) : hs[p][i] = s
    THEN <<hs[p], (CHOOSE i \in 1..Len(hs[p]) : hs[p][i] = s) + 1>>
    ELSE <<Append(hs[p], s), Len(hs[p]) + 1>>

\* updatePreferredTxHint(hashOrPrefix, preferKey) on buckets hs with
\* preferred indices pr: bucket p and its preferred index after moving the
\* pointer to preferKey s, appended when new.
UpdatePreferredTxHint(hs, pr, p, s) ==
    IF \E i \in 1..Len(hs[p]) : hs[p][i] = s
    THEN <<hs[p], CHOOSE i \in 1..Len(hs[p]) : hs[p][i] = s>>
    ELSE <<Append(hs[p], s), Len(hs[p]) + 1>>

\* updatePreferredTxHint(txHash, preferKey) with preferKey a DBKey6 at
\* which that tx is stored.
UpdatePreferred(t, s) ==
    LET p == Prefix[t]
        u == UpdatePreferredTxHint(hints, preferred, p, s)
    IN /\ txAt[s] = t
       /\ hints' = [hints EXCEPT ![p] = u[1]]
       /\ preferred' = [preferred EXCEPT ![p] = u[2]]
       /\ found' = NoLookup
       /\ UNCHANGED <<txAt, validDup>>

\* markBlockHeaderValid() for chain c (a dupID per height): the valid
\* dupIDs change; TXDATA and TXHINTS are left as they are.  Every block of
\* c is stored.
Reorg(c) ==
    /\ c # validDup
    /\ \A h \in Heights : txAt[<<h, c[h]>>] # NoTx
    /\ validDup' = c
    /\ found' = NoLookup
    /\ UNCHANGED <<txAt, hints, preferred>>

\* Mutant: a candidate is accepted on its 4-byte prefix alone.
MatchesPrefixOnly(s, t) == txAt[s] # NoTx /\ Prefix[txAt[s]] = Prefix[t]

\* The full hash of the tx fetched at candidate s equals the one looked up.
Matches(s, t) == txAt[s] = t

\* The candidates of bucket p in the order getStoredTx_byHash() walks them:
\* the preferred key first, then the list in order.
Candidates(p) ==
    IF preferred[p] = 0 THEN hints[p]
    ELSE <<hints[p][preferred[p]]>> \o RemoveAt(hints[p], preferred[p])

\* getStoredTx_byHash(txHash): the first candidate whose tx has the hash.
GetStoredTxByHash(t) ==
    LET c == Candidates(Prefix[t])
        hits == {i \in 1..Len(c) : Matches(c[i], t)}
        first == IF hits = {} THEN NoSlot
                 ELSE c[CHOOSE i \in hits : \A j \in hits : i <= j]
    IN /\ found' = [tx |-> t, slot |-> first]
       /\ UNCHANGED <<txAt, hints, preferred, validDup>>

Next ==
    \/ \E t \in Txs, s \in Slots : PutStoredTx(t, s)
    \/ \E t \in Txs, s \in Slots : UpdatePreferred(t, s)
    \/ \E c \in [Heights -> Dups] : Reorg(c)
    \/ \E t \in Txs : GetStoredTxByHash(t)

Spec == Init /\ [][Next]_vars

-----------------------------------------------------------------------------
(* Properties                                                              *)

\* getStoredTx_byHash() finds a tx exactly when one with that hash is
\* stored, and what it returns is that tx, never another tx of the same
\* 4-byte bucket, whatever order the colliding hints were written in.
ByHashFindsTx ==
    found # NoLookup =>
    /\ found.slot = NoSlot <=> \A s \in Slots : txAt[s] # found.tx
    /\ found.slot # NoSlot => txAt[found.slot] = found.tx

=============================================================================
