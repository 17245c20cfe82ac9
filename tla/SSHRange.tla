------------------------------ MODULE SSHRange ------------------------------
(***************************************************************************)
(* The range query of getStoredScriptHistory(ssh, scrAddr, startBlock,    *)
(* endBlock), src/cppForSwig/lmdb_wrapper.h: the sub-histories of a script *)
(* are stored under SUBSSH|scrAddr|hgtX, one shard per (height, dupID);    *)
(* the query seeks to hgtX(startBlock, 0) and collects shards while their  *)
(* height is at most endBlock (spec.md 4.3.4: truncation at either bound   *)
(* is inclusive).  endBlock defaults to UINT32_MAX.                        *)
(*                                                                         *)
(* The body of the query is not in the repository; its steps follow       *)
(* spec.md.  Keys are built and compared with KeyCodec's big-endian        *)
(* encoding; the cursor moves as LDBIter's seekTo/advance do.  One         *)
(* behaviour is one call, with the stored shards and the bounds chosen in  *)
(* the initial state.                                                      *)
(***************************************************************************)
EXTENDS Naturals, Sequences, SequencesExt

CONSTANTS
    Base,       \* values of one byte
    MaxHeight   \* largest height of a stored shard

KC == INSTANCE KeyCodec WITH MaxIndex <- 0, m <- 0, n <- 0

\* The largest uint32_t, in bytes of Base values: the default endBlock.
Uint32Max == Base ^ 4 - 1

Shards == [h : 0..MaxHeight, d : 0..(Base - 1)]
NoShard == [h |-> Uint32Max, d |-> Base]
Starts == 0..MaxHeight
Ends == (0..MaxHeight) \cup {Uint32Max}

\* The tail of a shard's key after SUBSSH|scrAddr.
ShardKey(sh) == KC!HeightAndDupToHgtx(sh.h, sh.d)

\* The first shard of S whose key is >= key (LMDB seek), or NoShard.
SeekShard(S, key) ==
    LET after == {sh \in S : ~KC!KeyLess(ShardKey(sh), key)}
    IN IF after = {} THEN NoShard
       ELSE CHOOSE sh \in after : \A o \in after : ~KC!KeyLess(ShardKey(o), ShardKey(sh))

\* The shard of S after sh in key order (advance), or NoShard.
NextShard(S, sh) ==
    LET after == {o \in S : KC!KeyLess(ShardKey(sh), ShardKey(o))}
    IN IF after = {} THEN NoShard
       ELSE CHOOSE o \in after : \A p \in after : ~KC!KeyLess(ShardKey(p), ShardKey(o))

VARIABLES
    store,      \* the shards stored for the script
    startBlock,
    endBlock,
    cur,        \* the shard the cursor is on, or NoShard
    result,     \* the shards merged into ssh so far, in order
    pc          \* "seek", "scan" or "done"

vars == <<store, startBlock, endBlock, cur, result, pc>>

TypeOK ==
    /\ store \subseteq Shards
    /\ startBlock \in Starts /\ endBlock \in Ends
    /\ cur \in store \cup {NoShard}
    /\ result \in Seq(Shards)
    /\ pc \in {"seek", "scan", "done"}

Init ==
    /\ store \in SUBSET Shards
    /\ startBlock \in Starts
    /\ endBlock \in Ends
    /\ cur = NoShard
    /\ result = <<>>
    /\ pc = "seek"

\* Seek to SUBSSH|scrAddr|hgtX(startBlock, 0).
Seek ==
    /\ pc = "seek"
    /\ cur' = SeekShard(store, KC!HeightAndDupToHgtx(startBlock, 0))
    /\ pc' = "scan"
    /\ UNCHANGED <<store, startBlock, endBlock, result>>

\* Mutant: the end bound is tested on whatever key the cursor holds,
\* without first checking that the cursor is on an entry.
InRangeUnguarded(sh) == KC!HgtxToHeight(ShardKey(sh)) <= endBlock

\* Mutant: the end bound is exclusive.
InRangeExclusive(sh) == sh # NoShard /\ KC!HgtxToHeight(ShardKey(sh)) < endBlock

\* The cursor is on a shard of the script whose height is within endBlock.
InRange(sh) == sh # NoShard /\ KC!HgtxToHeight(ShardKey(sh)) <= endBlock

\* Merge the shard under the cursor (getStoredSubHistoryAtHgtX) and advance.
Collect ==
    /\ pc = "scan"
    /\ InRange(cur)
    /\ result' = Append(result, cur)
    /\ cur' = NextShard(store, cur)
    /\ UNCHANGED <<store, startBlock, endBlock, pc>>

\* The cursor left the script's shards or passed endBlock: the query returns.
Finish ==
    /\ pc = "scan"
    /\ ~InRange(cur)
    /\ pc' = "done"
    /\ UNCHANGED <<store, startBlock, endBlock, cur, result>>

Next == Seek \/ Collect \/ Finish

Spec == Init /\ [][Next]_vars

-----------------------------------------------------------------------------
(* Properties                                                              *)

\* The natural order of shards: height, then dupID.
ShardLess(a, b) == a.h < b.h \/ (a.h = b.h /\ a.d < b.d)

\* The shards of S in that order: the reference listing.
RECURSIVE SortedShards(_)
SortedShards(S) ==
    IF S = {} THEN <<>>
    ELSE LET first == CHOOSE a \in S : \A b \in S : ~ShardLess(b, a)
         IN <<first>> \o SortedShards(S \ {first})

\* SSH range correctness (spec.md 8.7): a returned query has merged exactly
\* the shards whose height lies in [startBlock, endBlock], both bounds
\* included, in height order, whichever dupIDs they carry.
SSHRangeExact ==
    pc = "done" =>
        result = SortedShards({sh \in store : startBlock <= sh.h /\ sh.h <= endBlock})

=============================================================================
