------------------------------- MODULE Bitmap -------------------------------
(***************************************************************************)
(* The bitmaps of lib/kernel/bitmap.c: an array of words of ElemBits bits. *)
(* marked is what the bitmap should hold, as a set of bit numbers; file is *)
(* the file it is kept in, words too, found with any content.              *)
(***************************************************************************)
EXTENDS Integers, Sequences, FiniteSets, FiniteSetsExt

CONSTANTS ElemBits,       \* ELEM_BITS
    BitCounts             \* sizes of bitmaps to try

ASSUME BitmapAssumption == ElemBits \in Nat \ {0} /\ BitCounts \subseteq Nat

VARIABLES bits, bit_cnt, marked, onDisk
bmVars == <<bits, bit_cnt, marked, onDisk>>

BITMAP_ERROR == -1
elem_idx(i) == (i \div ElemBits) + 1
bit_mask(i) == 2^(i % ElemBits)
WordsFor(cnt) == (cnt + ElemBits - 1) \div ElemBits      \* elem_cnt
HasBit(w, k) == (w \div k) % 2 = 1
last_mask(cnt) == IF cnt % ElemBits = 0 THEN 2^ElemBits - 1 ELSE 2^(cnt % ElemBits) - 1
BitAnd(v, mask) == v % (mask + 1)     \* for masks 2^k - 1

\* bitmap_create: all bits false.
bitmap_create(cnt) ==
    /\ bit_cnt' = cnt /\ bits' = [i \in 1 .. WordsFor(cnt) |-> 0] /\ marked' = {}
    /\ onDisk' \in [1 .. WordsFor(cnt) -> 0 .. 2^ElemBits - 1]

BmInit == bit_cnt = 0 /\ bits = <<>> /\ marked = {} /\ onDisk = <<>>

-----------------------------------------------------------------------------
\* bitmap_mark, bitmap_reset and bitmap_flip: an or, an and, an exclusive or.
bitmap_mark(b, i) == [b EXCEPT ![elem_idx(i)] = IF HasBit(@, bit_mask(i)) THEN @ ELSE @ + bit_mask(i)]
bitmap_reset(b, i) == [b EXCEPT ![elem_idx(i)] = IF HasBit(@, bit_mask(i)) THEN @ - bit_mask(i) ELSE @]
bitmap_set(b, i, v) == IF v THEN bitmap_mark(b, i) ELSE bitmap_reset(b, i)
bitmap_test(b, i) == HasBit(b[elem_idx(i)], bit_mask(i))
bitmap_flip(b, i) == bitmap_set(b, i, ~bitmap_test(b, i))

RECURSIVE bitmap_set_multiple(_, _, _, _)
bitmap_set_multiple(b, start, cnt, v) ==
    IF cnt = 0 THEN b ELSE bitmap_set_multiple(bitmap_set(b, start, v), start + 1, cnt - 1, v)

bitmap_contains(b, start, cnt, v) == \E i \in start .. start + cnt - 1 : bitmap_test(b, i) = v
bitmap_count(b, start, cnt, v) == Cardinality({i \in start .. start + cnt - 1 : bitmap_test(b, i) = v})

RECURSIVE bitmap_scan(_, _, _, _)
bitmap_scan(b, i, cnt, v) ==
    IF cnt > bit_cnt \/ i > bit_cnt - cnt THEN BITMAP_ERROR
    ELSE IF ~bitmap_contains(b, i, cnt, ~v) THEN i ELSE bitmap_scan(b, i + 1, cnt, v)

SetBits(start, cnt, v) ==
    /\ bits' = bitmap_set_multiple(bits, start, cnt, v)
    /\ marked' = IF v THEN marked \cup start .. start + cnt - 1 ELSE marked \ (start .. start + cnt - 1)
    /\ UNCHANGED <<bit_cnt, onDisk>>

FlipBit(i) ==
    /\ bits' = bitmap_flip(bits, i)
    /\ marked' = IF i \in marked THEN marked \ {i} ELSE marked \cup {i}
    /\ UNCHANGED <<bit_cnt, onDisk>>

bitmap_scan_and_flip(start, cnt, v) ==
    LET idx == bitmap_scan(bits, start, cnt, v)
    IN  idx # BITMAP_ERROR /\ SetBits(idx, cnt, ~v)

\* Mutant of bitmap_read: the last word as it is in the file.
ReadRaw ==
    /\ bit_cnt > 0 /\ bits' = onDisk
    /\ marked' = {i \in 0 .. bit_cnt - 1 : bitmap_test(onDisk, i)} /\ UNCHANGED <<bit_cnt, onDisk>>

bitmap_read ==
    /\ bit_cnt > 0
    /\ bits' = [onDisk EXCEPT ![Len(onDisk)] = BitAnd(@, last_mask(bit_cnt))]
    /\ marked' = {i \in 0 .. bit_cnt - 1 : bitmap_test(onDisk, i)} /\ UNCHANGED <<bit_cnt, onDisk>>
bitmap_write == onDisk' = bits /\ UNCHANGED <<bits, bit_cnt, marked>>

BmNext ==
    \/ \E cnt \in BitCounts : bitmap_create(cnt)
    \/ \E start \in 0 .. bit_cnt : \E cnt \in 0 .. bit_cnt - start : \E v \in BOOLEAN :
         SetBits(start, cnt, v) \/ bitmap_scan_and_flip(start, cnt, v)
    \/ \E i \in 0 .. bit_cnt - 1 : FlipBit(i)
    \/ bitmap_read \/ bitmap_write

-----------------------------------------------------------------------------
\* The words hold exactly the marked bits and nothing past bit_cnt, whatever
\* was in the file: a bitmap written and read back is the same bitmap, and
\* whole words compare equal.
BitsMatch ==
    /\ Len(bits) = WordsFor(bit_cnt)
    /\ \A i \in 0 .. Len(bits) * ElemBits - 1 : bitmap_test(bits, i) <=> i \in marked
    /\ marked \subseteq 0 .. bit_cnt - 1

\* bitmap_scan finds the first group of the size wanted, one at the very end
\* too, and none exactly when there is none; bitmap_count agrees.
ScanRight ==
    \A start \in 0 .. bit_cnt : \A cnt \in 1 .. bit_cnt + 1 : \A v \in BOOLEAN :
      LET groups == {i \in start .. bit_cnt - cnt : \A j \in i .. i + cnt - 1 : (j \in marked) = v}
      IN  /\ bitmap_scan(bits, start, cnt, v) = (IF groups = {} THEN BITMAP_ERROR ELSE Min(groups))
          /\ start + cnt <= bit_cnt => (bitmap_count(bits, start, cnt, v) = cnt) = (start \in groups)

\* The words of bitmap.c hold the set, and a scan finds the first group.
BitmapRight == BitsMatch /\ ScanRight
=============================================================================
