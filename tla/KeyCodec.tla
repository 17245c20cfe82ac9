------------------------------ MODULE KeyCodec ------------------------------
(***************************************************************************)
(* The database key encoding of LMDBBlockDatabase, as the big comment at   *)
(* the head of src/cppForSwig/lmdb_wrapper.h lays it down: integers in     *)
(* database keys are big-endian so that the store's byte order (memcmp,    *)
(* then length) lists blocks in height order; integers in values are       *)
(* little-endian.                                                          *)
(*                                                                         *)
(*   hgtx   = height (24 bits, BE) | dupID (8 bits)   heightAndDupToHgtx   *)
(*   DBKey6 = hgtx | txIndex (16 bits, BE)                                 *)
(*   DBKey8 = DBKey6 | txOutIndex (16 bits, BE)                            *)
(*                                                                         *)
(* A byte is a digit in base Base (256 in the code; smaller to check).     *)
(* Heights, dupIDs and indices range over bounded sets; the model's state  *)
(* is a pair of output coordinates, and the steps visit every pair.        *)
(***************************************************************************)
EXTENDS Naturals, Sequences, SequencesExt

CONSTANTS
    Base,       \* values of one byte
    MaxHeight,  \* largest block height enumerated
    MaxIndex    \* largest txIndex / txOutIndex enumerated

ASSUME Base \in Nat \ {0, 1} /\ MaxHeight \in Nat /\ MaxIndex \in Nat

\* The width, in bytes, of each field of a key.
HeightBytes == 3
DupBytes == 1
IndexBytes == 2

-----------------------------------------------------------------------------
(* Encoding                                                                *)

\* put_uintX_t(n, BIGENDIAN): the low w bytes of n, most significant first.
RECURSIVE BE(_, _)
BE(n, w) == IF w = 0 THEN <<>> ELSE BE(n \div Base, w - 1) \o <<n % Base>>

\* put_uintX_t(n, LITTLEENDIAN): the same bytes, least significant first.
LE(n, w) == Reverse(BE(n, w))

\* get_uintX_t(BIGENDIAN): the number a big-endian byte string stands for.
FromBE(s) == FoldLeft(LAMBDA acc, byte : acc * Base + byte, 0, s)

\* heightAndDupToHgtx(height, dup): 24 bits of height, then the dupID byte.
HeightAndDupToHgtx(h, d) == BE(h, HeightBytes) \o BE(d, DupBytes)

\* hgtxToHeight(hgtx): the 24-bit height field.
HgtxToHeight(hgtx) == FromBE(SubSeq(hgtx, 1, HeightBytes))

\* Mutant: txIndex written little-endian, as values are.
DBKey6LE(h, d, i) == HeightAndDupToHgtx(h, d) \o LE(i, IndexBytes)

\* The 6- and 8-byte keys of a transaction slot and of an output slot.
DBKey6(h, d, i) == HeightAndDupToHgtx(h, d) \o BE(i, IndexBytes)
DBKey8(h, d, i, o) == DBKey6(h, d, i) \o BE(o, IndexBytes)

\* The store's key order: bytewise, a proper prefix first.
RECURSIVE KeyLess(_, _)
KeyLess(a, b) ==
    IF a = <<>> THEN b # <<>>
    ELSE IF b = <<>> THEN FALSE
    ELSE IF Head(a) # Head(b) THEN Head(a) < Head(b)
    ELSE KeyLess(Tail(a), Tail(b))

-----------------------------------------------------------------------------
(* Coordinates                                                             *)

Coord == [h : 0..MaxHeight, d : 0..(Base - 1), i : 0..MaxIndex, o : 0..MaxIndex]

\* The natural order of outputs: height, then dupID, txIndex, txOutIndex.
CoordLess(a, b) ==
    \/ a.h < b.h
    \/ a.h = b.h /\ a.d < b.d
    \/ a.h = b.h /\ a.d = b.d /\ a.i < b.i
    \/ a.h = b.h /\ a.d = b.d /\ a.i = b.i /\ a.o < b.o

KeyOf(c) == DBKey8(c.h, c.d, c.i, c.o)

\* Coordinates are enumerated through their rank in CoordLess order.
NumCoords == (MaxHeight + 1) * Base * (MaxIndex + 1) * (MaxIndex + 1)
CoordAt(n) ==
    LET w == MaxIndex + 1
    IN [h |-> n \div (Base * w * w), d |-> (n \div (w * w)) % Base,
        i |-> (n \div w) % w, o |-> n % w]

VARIABLES m, n   \* ranks of the two coordinates compared
vars == <<m, n>>

x == CoordAt(m)
y == CoordAt(n)

Init == m = 0 /\ n = 0

\* Move on to the next pair of ranks, round and round.
NextPair ==
    /\ n' = (n + 1) % NumCoords
    /\ m' = IF n = NumCoords - 1 THEN (m + 1) % NumCoords ELSE m

Spec == Init /\ [][NextPair]_vars

-----------------------------------------------------------------------------
(* Properties                                                              *)

\* Key ordering (spec.md 8.2): a range scan over DBKey8 keys visits outputs
\* in height, dupID, txIndex, txOutIndex order.
KeyOrderMatchesCoordOrder == KeyLess(KeyOf(x), KeyOf(y)) <=> CoordLess(x, y)

=============================================================================
