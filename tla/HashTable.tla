----------------------------- MODULE HashTable -----------------------------
(***************************************************************************)
(* The hash table of lib/kernel/hash.c.  A bucket is a sequence (its list  *)
(* is module List's); an element is <<key, copy>>, elements with the same  *)
(* key are equal by the table's less function.  table is what the hash     *)
(* should hold, as a set of elements.                                      *)
(***************************************************************************)
EXTENDS Integers, Sequences, FiniteSets, SequencesExt

CONSTANTS HashKey, ElemCopy,
    HashOf,                 \* hash value of a key
    MinBuckets, BestElems   \* 4 and BEST_ELEMS_PER_BUCKET of the code

VARIABLES buckets, bucket_cnt, elem_cnt, table
hashVars == <<buckets, bucket_cnt, elem_cnt, table>>
None == <<>>

ASSUME HashAssumption ==
    HashOf \in [HashKey -> Nat] /\ MinBuckets \in {2^i : i \in 0 .. 4} /\ BestElems \in Nat \ {0}

HashElem == HashKey \X ElemCopy
EmptyBuckets(n) == [i \in 1 .. n |-> <<>>]
HashInit ==
    /\ bucket_cnt = MinBuckets /\ buckets = EmptyBuckets(MinBuckets) /\ elem_cnt = 0 /\ table = {}

-----------------------------------------------------------------------------
\* find_bucket: the low bits of the hash value.
find_bucket(e, cnt) == (HashOf[e[1]] % cnt) + 1

find_elem(bucket, e) ==
    LET hits == {i \in DOMAIN bucket : bucket[i][1] = e[1]}
    IN  IF hits = {} THEN None ELSE bucket[CHOOSE i \in hits : \A j \in hits : i <= j]

\* new_bucket_cnt of rehash: the largest power of two in elem_cnt /
\* BEST_ELEMS_PER_BUCKET, at least the minimum.
IdealBuckets(cnt) ==
    LET n == IF cnt \div BestElems < MinBuckets THEN MinBuckets ELSE cnt \div BestElems
    IN  CHOOSE p \in {2^i : i \in 0 .. 8} : p <= n /\ n < 2 * p

\* Mutant of Moved: an element goes to the bucket it had.
MovedSame(old, n) ==
    [b \in 1 .. n |-> Reverse(SelectSeq(FlattenSeq(old), LAMBDA e : find_bucket(e, Len(old)) = b))]

\* Every element of the old buckets, in turn, to the front of its new one.
Moved(old, n) ==
    [b \in 1 .. n |-> Reverse(SelectSeq(FlattenSeq(old), LAMBDA e : find_bucket(e, n) = b))]

\* rehash; without memory the table stays as it is.
rehash(bs, cnt) ==
    LET n == IdealBuckets(cnt)
    IN  /\ elem_cnt' = cnt
        /\ \/ n # Len(bs) /\ buckets' = Moved(bs, n) /\ bucket_cnt' = n
           \/ buckets' = bs /\ UNCHANGED bucket_cnt

insert_elem(bs, e) == [bs EXCEPT ![find_bucket(e, bucket_cnt)] = <<e>> \o @]
remove_elem(bs, e) == [bs EXCEPT ![find_bucket(e, bucket_cnt)] = SelectSeq(@, LAMBDA x : x # e)]
Found(e) == find_elem(buckets[find_bucket(e, bucket_cnt)], e)

hash_insert(e) ==
    IF Found(e) = None
      THEN rehash(insert_elem(buckets, e), elem_cnt + 1) /\ table' = table \cup {e}
    ELSE rehash(buckets, elem_cnt) /\ UNCHANGED table

hash_replace(e) ==
    LET old == Found(e)
    IN  /\ table' = {x \in table : x[1] # e[1]} \cup {e}
        /\ IF old = None THEN rehash(insert_elem(buckets, e), elem_cnt + 1)
           ELSE rehash(insert_elem(remove_elem(buckets, old), e), elem_cnt)

hash_delete(e) ==
    /\ table' = {x \in table : x[1] # e[1]}
    /\ IF Found(e) = None THEN UNCHANGED <<buckets, bucket_cnt, elem_cnt>>
       ELSE rehash(remove_elem(buckets, Found(e)), elem_cnt - 1)

hash_clear ==
    /\ buckets' = EmptyBuckets(bucket_cnt) /\ elem_cnt' = 0 /\ table' = {} /\ UNCHANGED bucket_cnt

HashNext ==
    \/ hash_clear
    \/ \E e \in HashElem : ~(e \in table) /\ (hash_insert(e) \/ hash_replace(e))
    \/ \E e \in HashElem : hash_delete(e)

\* The elements hash_next returns after position at of bucket b.
RECURSIVE Iterated(_, _)
Iterated(b, at) ==
    IF at < Len(buckets[b]) THEN <<buckets[b][at + 1]>> \o Iterated(b, at + 1)
    ELSE IF b = bucket_cnt THEN <<>> ELSE Iterated(b + 1, 0)
hash_first == Iterated(1, 0)

-----------------------------------------------------------------------------
\* The buckets hold the elements of the table, each in the bucket its hash
\* selects now, and elem_cnt counts them: growing, shrinking and a rehash
\* that got no memory leave every element findable.
BucketsMatch ==
    /\ Len(buckets) = bucket_cnt /\ \E i \in 0 .. 8 : bucket_cnt = 2^i
    /\ elem_cnt = Cardinality(table)
    /\ \A e \in HashElem : Found(e) = (IF \E x \in table : x[1] = e[1]
                                       THEN CHOOSE x \in table : x[1] = e[1] ELSE None)

\* The iteration of hash_first and hash_next meets every element once.
IterationComplete ==
    ToSet(hash_first) = table /\ Len(hash_first) = Cardinality(table)

\* The buckets of hash.c hold the table, also when rehash gets no memory, and
\* an iteration meets every element once.
HashRight == BucketsMatch /\ IterationComplete
=============================================================================
