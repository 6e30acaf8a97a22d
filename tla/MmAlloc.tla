------------------------------ MODULE MmAlloc ------------------------------
(***************************************************************************)
(* The allocator of homeworks/hw3: mm_malloc, mm_realloc and mm_free over  *)
(* a list of blocks in the memory that sbrk hands out.                     *)
(*                                                                         *)
(* The heap is a record: the block headers by address, head, end, the      *)
(* break, and the bytes.  An operator takes a heap and returns one, with   *)
(* the address it returns (0 is NULL) and how the call went:               *)
(*   "ok"    it returned                                                   *)
(*   "hung"  it walks the list for ever                                    *)
(*   "wild"  it wrote over a header, or past the break: from there on the  *)
(*           program's behaviour is not defined, and the model stops       *)
(* The caller fills each block it is given with a tag of its own.          *)
(***************************************************************************)
EXTENDS Integers, FiniteSets, FiniteSetsExt

CONSTANTS
    META_SIZE,      \* bytes of a header
    PointerSize,    \* actual_memory is an array of pointers of this size
    HeapMax,        \* sbrk fails past this address
    NegativeFrom,   \* addresses from here on are negative as an int
    SizeWrap,       \* size_t is modulo this
    ReqSize,        \* sizes asked for
    MaxMmCalls

ASSUME MmAssumption ==
    /\ {META_SIZE, PointerSize} \subseteq Nat \ {0}
    /\ {HeapMax, NegativeFrom, MaxMmCalls, SizeWrap} \subseteq Nat
    /\ SizeWrap > HeapMax + (2 * META_SIZE) /\ ReqSize \subseteq 0 .. HeapMax

VARIABLES
    mmHeap,
    live,       \* what the caller holds: records of address, size and bytes
    ended,    \* "ok", "hung" or "wild"
    past,       \* what has happened: "split", "moved", "failed"
    mmCalls

mmVars == <<mmHeap, live, ended, past, mmCalls>>

Bytes(a, n) == a .. (a + n - 1)
Headers(h) == UNION {Bytes(a, META_SIZE) : a \in DOMAIN h.block}

MmInit ==
    /\ mmHeap = [block |-> [a \in {} |-> 0], head |-> 0, end |-> 0, brk |-> 1,
               byte |-> [a \in Bytes(1, HeapMax) |-> 0]]
    /\ live = {} /\ ended = "ok" /\ past = {} /\ mmCalls = 0

\* Stores VALUE(a) in N bytes from address A: wild if they are not all plain
\* bytes below the break.
Store(h, a, n, Value(_)) ==
    IF Bytes(a, n) \cap Headers(h) = {} /\ a + n <= h.brk
    THEN [h |-> [h EXCEPT !.byte = [b \in DOMAIN @ |->
                    IF b \in Bytes(a, n) THEN Value(b) ELSE @[b]]],
          how |-> "ok"]
    ELSE [h |-> h, how |-> "wild"]

-----------------------------------------------------------------------------
Result(h, ret, how, did) == [h |-> h, ret |-> ret, how |-> how, did |-> did]

\* The new block at the end of the list, after the old break.
Appended(h, n) ==
    LET new == h.brk
        header == [size |-> n, next |-> 0, prev |-> h.end, free |-> FALSE]
        linked == [a \in DOMAIN h.block \cup {new} |->
                     IF a = new THEN header
                     ELSE IF a = h.end THEN [h.block[a] EXCEPT !.next = new]
                     ELSE h.block[a]]
    IN  [h EXCEPT !.block = linked, !.brk = new + META_SIZE + n, !.end = new,
                  !.head = IF @ = 0 THEN new ELSE @]

\* increase_mem: the old break, cast to int, is taken for an error when it is
\* negative, and the memory granted is lost.
increase_mem(h, n) ==
    IF h.brk + META_SIZE + n > HeapMax + 1 THEN Result(h, 0, "ok", {})
    ELSE IF h.brk >= NegativeFrom
    THEN Result([h EXCEPT !.brk = @ + META_SIZE + n], 0, "ok", {})
    ELSE Result(Appended(h, n), h.brk, "ok", {})

\* split: the rest starts PointerSize * s bytes on, start is cut down to s
\* before the rest's size is taken from it, start stays free, and neither end
\* nor the next block's prev is set.
split(h, start, s) ==
    LET old == h.block[start]
        middle == start + META_SIZE + (PointerSize * s)
        plain == Bytes(middle, META_SIZE) \cap Headers(h) = {} /\ middle + META_SIZE <= h.brk
        rest == [next |-> old.next, prev |-> start, free |-> TRUE,
                 size |-> (s - s - (2 * META_SIZE)) % SizeWrap]
        cut == [a \in DOMAIN h.block \cup {middle} |->
                  IF a = middle THEN rest
                  ELSE IF a = start THEN [old EXCEPT !.size = s, !.next = middle]
                  ELSE h.block[a]]
    IN  IF plain THEN Result([h EXCEPT !.block = cut], start, "ok", {"split"})
        ELSE Result(h, start, "wild", {"split"})

\* The first block of the list that is free and holds N bytes, 0 if there is
\* none, -1 if the walk comes to no end.
FirstFit(h, n) ==
    LET steps == 0 .. Cardinality(DOMAIN h.block)
        at[k \in steps] == IF k = 0 THEN h.head
                           ELSE IF at[k - 1] = 0 THEN 0
                           ELSE h.block[at[k - 1]].next
        stops == {k \in steps : at[k] = 0 \/ (/\ h.block[at[k]].free
                                              /\ h.block[at[k]].size >= n)}
    IN  IF stops = {} THEN -1 ELSE at[Min(stops)]

\* Mutant of TakeWhole: the block is left free.
TakeFree(h, a) == Result(h, a, "ok", {})

\* The whole block is taken.
TakeWhole(h, a) == Result([h EXCEPT !.block[a].free = FALSE], a, "ok", {})

\* mm_malloc, returning the block's header.
mm_malloc(h, n) ==
    LET a == FirstFit(h, n) IN
    IF n = 0 THEN Result(h, 0, "ok", {})
    ELSE IF a = -1 THEN Result(h, 0, "hung", {})
    ELSE IF a = 0 THEN increase_mem(h, n)
    ELSE IF h.block[a].size > n + (2 * META_SIZE) THEN split(h, a, n)
    ELSE TakeWhole(h, a)

\* The block's bytes are cleared.
Zero(h, a) == LET None(b) == 0 IN Store(h, a + META_SIZE, h.block[a].size, None)

\* mm_free.
mm_free(h, a) == Zero([h EXCEPT !.block[a].free = TRUE], a)

\* mm_realloc puts the new block into the old one's place in the list, from
\* wherever in the list it was.
Relink(h, old, new) ==
    LET o == h.block[old]
        b1 == [h.block EXCEPT ![new].prev = o.prev, ![new].next = o.next]
        b2 == IF b1[old].prev = 0 THEN b1
              ELSE [b1 EXCEPT ![b1[old].prev].next = new]
        b3 == IF b2[old].next = 0 THEN b2
              ELSE [b2 EXCEPT ![b2[old].next].prev = new]
    IN  [h EXCEPT !.block = b3]

\* The bytes of OLD copied to NEW, which was cleared.
CopyBytes(h, old, new, n) ==
    LET size == Min({h.block[old].size, h.block[new].size})
        None(b) == 0
        cleared == Store(h, new + META_SIZE, n, None)
        Old(b) == cleared.h.byte[old + META_SIZE + (b - (new + META_SIZE))]
        readable == Bytes(old + META_SIZE, size) \subseteq DOMAIN h.byte
    IN  IF cleared.how = "wild" \/ ~readable
        THEN [h |-> h, how |-> "wild"]
        ELSE Store(cleared.h, new + META_SIZE, size, Old)

\* mm_realloc of a block to a size other than 0.
mm_realloc(h, old, n) ==
    LET got == mm_malloc([h EXCEPT !.block[old].free = TRUE], n)
        new == got.ret
        copied == CopyBytes(Relink(got.h, old, new), old, new, n)
        zeroed == Zero(copied.h, old)
    IN  IF got.how # "ok" THEN got
        ELSE IF new = 0 THEN Result(got.h, 0, "ok", got.did \cup {"failed"})
        ELSE IF copied.how = "wild" THEN Result(got.h, new, "wild", got.did)
        ELSE Result(zeroed.h, new, zeroed.how,
                    got.did \cup (IF new = old THEN {} ELSE {"moved"}))

-----------------------------------------------------------------------------
Ready == ended = "ok" /\ mmCalls < MaxMmCalls

\* The call returned R; the caller holds HELD.
Returned(r, h, how, held) ==
    /\ mmHeap' = h /\ ended' = how /\ live' = held
    /\ past' = past \cup r.did
    /\ mmCalls' = mmCalls + 1

\* The caller's own writes to a block it was given.
Fill(h, a, n) == LET Tag(b) == mmCalls + 1 IN Store(h, a + META_SIZE, n, Tag)

\* mm_malloc, and the caller fills the block.
CallMalloc ==
    /\ Ready
    /\ \E n \in ReqSize :
         LET r == mm_malloc(mmHeap, n)
             f == Fill(r.h, r.ret, n)
             mine == [at |-> r.ret, size |-> n,
                      byte |-> [i \in 0 .. (n - 1) |-> mmCalls + 1]]
         IN  IF r.how # "ok" \/ r.ret = 0 THEN Returned(r, r.h, r.how, live)
             ELSE Returned(r, f.h, f.how, live \cup {mine})

\* mm_free, or mm_realloc to size 0.
CallFree ==
    /\ Ready
    /\ \E l \in live :
         LET f == mm_free(mmHeap, l.at) IN
         Returned(Result(f.h, 0, f.how, {}), f.h, f.how, live \ {l})

\* mm_realloc of NULL: what mm_malloc returned is lost, and what the function
\* returns is not defined; the caller does not use it.
CallReallocNull ==
    /\ Ready
    /\ \E n \in ReqSize \ {0} :
         LET r == mm_malloc(mmHeap, n) IN Returned(r, r.h, r.how, live)

\* What the caller expects of a block of N bytes made from L: the bytes it
\* knew, as far as they fit.  A block that was not moved has lost them, and
\* the caller of the model knows.
Expected(l, n, r) ==
    [at |-> r.ret, size |-> n,
     byte |-> [i \in DOMAIN l.byte \cap 0 .. (n - 1) |->
                 IF r.ret # l.at THEN l.byte[i] ELSE 0]]

\* mm_realloc of a block.  When it fails the caller keeps the old one.
CallRealloc ==
    /\ Ready
    /\ \E l \in live, n \in ReqSize \ {0} :
         LET r == mm_realloc(mmHeap, l.at, n) IN
         Returned(r, r.h, r.how, IF r.how # "ok" \/ r.ret = 0 THEN live
                               ELSE (live \ {l}) \cup {Expected(l, n, r)})

MmNext == CallMalloc \/ CallFree \/ CallReallocNull \/ CallRealloc

MmSpec == MmInit /\ [][MmNext]_mmVars

-----------------------------------------------------------------------------
Span(l) == Bytes(l.at + META_SIZE, l.size)

\* No byte is handed out twice and no block reaches into a header, through
\* every reuse and every relinking by mm_realloc, until a block is split
\* (split leaves it free) or mm_realloc fails (it leaves the old block free).
HandedOnce ==
    past \cap {"split", "failed"} = {} =>
        /\ ended # "wild"
        /\ \A l \in live : /\ Span(l) \cap Headers(mmHeap) = {}
                           /\ Span(l) \subseteq 1 .. (mmHeap.brk - 1)
        /\ \A l, m \in live : l = m \/ Span(l) \cap Span(m) = {}

\* Until then every block holds what its caller put there, over mm_free and
\* mm_realloc of the others and over its own mm_realloc to another place.
BytesHeld ==
    past \cap {"split", "failed"} = {} =>
        \A l \in live : \A i \in DOMAIN l.byte :
            mmHeap.byte[l.at + META_SIZE + i] = l.byte[i]

\* The list becomes a ring, and mm_malloc hangs, only by mm_realloc's
\* relinking of a block that moved.
HangCause == ended = "hung" => "moved" \in past

\* The allocator of hw3 until its first split or failed mm_realloc: no byte is
\* handed out twice and every block keeps its bytes; the list becomes a ring
\* only by the relinking of mm_realloc.
HeapSound == HandedOnce /\ BytesHeld /\ HangCause
=============================================================================
