------------------------------- MODULE LDBIter -------------------------------
(***************************************************************************)
(* The iterator wrapper LDBIter of src/cppForSwig/lmdb_wrapper.h: a cursor *)
(* over the keys of one read transaction's snapshot, with the key and      *)
(* value materialised lazily (isDirty_) into currKey_/currValue_.          *)
(*                                                                         *)
(* The header declares the operations; their bodies are not in the        *)
(* repository, so what each does beyond its declaration is taken from      *)
(* spec.md 4.2.  Keys are abstracted to their rank in the store's byte     *)
(* order (KeyCodec checks that this order is the coordinate order); a key  *)
(* is NumTails consecutive ranks under each DB_PREFIX byte.  The value is  *)
(* left out: it is read and cached exactly as the key is.                  *)
(***************************************************************************)
EXTENDS Naturals, FiniteSets, FiniteSetsExt

CONSTANTS
    NumPrefixes,  \* DB_PREFIX values in play
    NumTails      \* keys under each prefix

ASSUME NumPrefixes \in Nat \ {0} /\ NumTails \in Nat \ {0}

Prefixes == 0..(NumPrefixes - 1)
Keys == 0..(NumPrefixes * NumTails - 1)
NoKey == NumPrefixes * NumTails          \* the cursor is past the end / invalid
KeyPrefix(k) == k \div NumTails
FirstOf(p) == p * NumTails               \* the bare prefix, as a seek key

Ops == {"new", "seekTo", "exact", "startsWith", "before", "advance",
        "advancePrefix", "retreat", "getKey", "checkExact", "checkStartsWith",
        "first", "advanceAndRead"}

VARIABLES
    snap,     \* the keys of the iterator's read transaction
    cur,      \* iter_: the key the native cursor is on, or NoKey
    isDirty,  \* isDirty_: currKey_ does not reflect the cursor yet
    currKey,  \* currKey_: the key last materialised
    last      \* the last call: its name, argument, returned bool and key

vars == <<snap, cur, isDirty, currKey, last>>

TypeOK ==
    /\ snap \subseteq Keys
    /\ cur \in snap \cup {NoKey}
    /\ isDirty \in BOOLEAN
    /\ currKey \in Keys \cup {NoKey}
    /\ last \in [op : Ops, arg : Keys \cup {NoKey}, res : BOOLEAN, val : Keys \cup {NoKey}]

Record(op, arg, res) == [op |-> op, arg |-> arg, res |-> res, val |-> NoKey]

Init ==
    /\ snap \in SUBSET Keys
    /\ cur = NoKey
    /\ isDirty = TRUE
    /\ currKey = NoKey
    /\ last = Record("new", NoKey, FALSE)

-----------------------------------------------------------------------------
(* The native cursor over the snapshot                                     *)

\* The smallest key >= k, or NoKey.
Ceil(S, k) == IF \E j \in S : j >= k THEN Min({j \in S : j >= k}) ELSE NoKey
\* The key after / before k, or NoKey.
After(S, k) == IF \E j \in S : j > k THEN Min({j \in S : j > k}) ELSE NoKey
Before(S, k) == IF \E j \in S : j < k THEN Max({j \in S : j < k}) ELSE NoKey
LastKey(S) == IF S = {} THEN NoKey ELSE Max(S)

\* isValid(): the native cursor is on an entry.
IsValid == cur # NoKey

\* Every move leaves currKey_ stale until the next read.
MoveTo(k, op, arg, res) ==
    /\ cur' = k
    /\ isDirty' = TRUE
    /\ last' = Record(op, arg, res)
    /\ UNCHANGED <<snap, currKey>>

-----------------------------------------------------------------------------
(* Operations                                                              *)

\* Mutant: operator=(LMDB::Iterator&&) keeps the old cursor position.
NewIterKeepsCursor ==
    /\ \E S \in SUBSET Keys : snap' = S
    /\ isDirty' = TRUE
    /\ last' = Record("new", NoKey, FALSE)
    /\ UNCHANGED <<currKey, cur>>

\* LDBIter(): a fresh iterator over a new read transaction, marked dirty.
NewIter ==
    /\ \E S \in SUBSET Keys : snap' = S
    /\ cur' = NoKey
    /\ isDirty' = TRUE
    /\ last' = Record("new", NoKey, FALSE)
    /\ UNCHANGED currKey

\* seekTo(key): the smallest key >= key; true when there is one.
SeekTo(k) == LET c == Ceil(snap, k) IN MoveTo(c, "seekTo", k, c # NoKey)

\* seekToExact(key): the same move; true only on the key itself.
SeekToExact(k) == LET c == Ceil(snap, k) IN MoveTo(c, "exact", k, c = k)

\* seekToStartsWith(prefix): the same move to the bare prefix; true when the
\* key reached carries the prefix.
SeekToStartsWith(p) ==
    LET c == Ceil(snap, FirstOf(p))
    IN MoveTo(c, "startsWith", FirstOf(p), c # NoKey /\ KeyPrefix(c) = p)

\* Mutant: a seek past the last key is left there.
SeekToBeforeNoPastEnd(k) ==
    LET c == Ceil(snap, k)
        d == IF c = NoKey \/ c = k THEN c ELSE Before(snap, c)
    IN MoveTo(d, "before", k, d # NoKey)

\* seekToBefore(key): the largest key <= key, synthesised from seekTo: a
\* seek past the end goes to the last key, an inexact hit steps back.
SeekToBefore(k) ==
    LET c == Ceil(snap, k)
        d == IF c = NoKey THEN LastKey(snap)
             ELSE IF c = k THEN c ELSE Before(snap, c)
    IN MoveTo(d, "before", k, d # NoKey)

\* Mutant: advance() moves the cursor but keeps the materialised key clean.
AdvanceKeepsClean ==
    /\ IsValid
    /\ cur' = After(snap, cur)
    /\ last' = Record("advance", NoKey, After(snap, cur) # NoKey)
    /\ UNCHANGED <<snap, currKey, isDirty>>

\* advance() and retreat(): one step; true while the cursor is valid.
Advance ==
    /\ IsValid
    /\ LET c == After(snap, cur) IN MoveTo(c, "advance", NoKey, c # NoKey)

Retreat ==
    /\ IsValid
    /\ LET c == Before(snap, cur) IN MoveTo(c, "retreat", NoKey, c # NoKey)

\* seekToFirst(): the first key of the snapshot; true when there is one.
SeekToFirst == LET c == Ceil(snap, 0) IN MoveTo(c, "first", NoKey, c # NoKey)

\* advanceAndRead(): advance(), then readIterData() when the step landed on
\* an entry; the key is materialised and clean.
AdvanceAndRead ==
    /\ IsValid
    /\ LET c == After(snap, cur)
       IN /\ cur' = c
          /\ currKey' = IF c # NoKey THEN c ELSE currKey
          /\ isDirty' = (c = NoKey)
          /\ last' = Record("advanceAndRead", NoKey, c # NoKey)
    /\ UNCHANGED snap

\* advance(prefix): one step; false once the key left the prefix.
AdvancePrefix(p) ==
    /\ IsValid
    /\ LET c == After(snap, cur)
       IN MoveTo(c, "advancePrefix", FirstOf(p), c # NoKey /\ KeyPrefix(c) = p)

\* readIterData(): materialise the cursor's key; false on an invalid cursor.
ReadIterData ==
    /\ IsValid
    /\ currKey' = cur
    /\ isDirty' = FALSE
    /\ UNCHANGED <<snap, cur, last>>

\* getKey(): currKey_, read from the cursor first when it is dirty.
GetKey ==
    /\ IsValid
    /\ LET k == IF isDirty THEN cur ELSE currKey
       IN /\ currKey' = k
          /\ last' = [op |-> "getKey", arg |-> NoKey, res |-> TRUE, val |-> k]
    /\ isDirty' = FALSE
    /\ UNCHANGED <<snap, cur>>

\* checkKeyExact(key) and checkKeyStartsWith(prefix) (verifyPrefix(prefix)
\* is the latter on the prefix byte): predicates on the key the cursor is
\* on, read (lazily) without moving; false when invalid.
CheckKey(op, arg, res) ==
    /\ currKey' = IF cur # NoKey /\ isDirty THEN cur ELSE currKey
    /\ isDirty' = (isDirty /\ cur = NoKey)
    /\ last' = Record(op, arg, res)
    /\ UNCHANGED <<snap, cur>>

CheckKeyExact(k) ==
    LET key == IF isDirty THEN cur ELSE currKey
    IN CheckKey("checkExact", k, cur # NoKey /\ key = k)

CheckKeyStartsWith(p) ==
    LET key == IF isDirty THEN cur ELSE currKey
    IN CheckKey("checkStartsWith", FirstOf(p), cur # NoKey /\ KeyPrefix(key) = p)

Next ==
    \/ NewIter \/ Advance \/ Retreat \/ ReadIterData \/ GetKey
    \/ SeekToFirst \/ AdvanceAndRead
    \/ \E k \in Keys : SeekTo(k) \/ SeekToExact(k) \/ SeekToBefore(k) \/ CheckKeyExact(k)
    \/ \E p \in Prefixes : SeekToStartsWith(p) \/ AdvancePrefix(p) \/ CheckKeyStartsWith(p)

Spec == Init /\ [][Next]_vars

-----------------------------------------------------------------------------
(* Properties                                                              *)

\* seekToBefore(key), synthesised from seekTo and a step back, lands on the
\* largest key <= key (none below: invalid) and says whether it found one,
\* past the last key and on an empty snapshot included.
SeekToBeforeFindsFloor ==
    last.op = "before" =>
        LET below == {j \in snap : j <= last.arg}
        IN /\ cur = (IF below = {} THEN NoKey ELSE Max(below))
           /\ last.res = (cur # NoKey)

\* The lazily materialised key getKey() returns is the key the cursor is on,
\* whatever moves and reads came before it.
GetKeyIsCurrent == last.op = "getKey" => last.val = cur

=============================================================================
