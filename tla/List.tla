-------------------------------- MODULE List --------------------------------
(***************************************************************************)
(* The doubly linked lists of lib/kernel/list.c, pointer by pointer: two   *)
(* lists ("a", "b") that share a set of elements.  order[l] is what the    *)
(* list should be, as a sequence, by the meaning of each operation.        *)
(* An element is a number, its sort key is Key[element].  The pointers of  *)
(* an element in no list are never read before they are written: Null.     *)
(***************************************************************************)
EXTENDS Integers, Sequences, FiniteSets, SequencesExt

CONSTANTS ListElem, Key

Null == 0
Lists == {"a", "b"}
list_head(l) == IF l = "a" THEN -1 ELSE -2
list_tail(l) == IF l = "a" THEN -3 ELSE -4

VARIABLES heap,      \* by node: [prev, next]
    order
listVars == <<heap, order>>

ASSUME ListAssumption == ListElem \subseteq Nat \ {0} /\ Key \in [ListElem -> Nat]

ListInit ==
    /\ heap = [n \in ListElem \cup {-1, -2, -3, -4} |->
                 [prev |-> IF n = -3 THEN -1 ELSE IF n = -4 THEN -2 ELSE Null,
                  next |-> IF n = -1 THEN -3 ELSE IF n = -2 THEN -4 ELSE Null]]
    /\ order = [l \in Lists |-> <<>>]

-----------------------------------------------------------------------------
\* The operations on pointers.
list_begin(h, l) == h[list_head(l)].next
list_empty(h, l) == list_begin(h, l) = list_tail(l)
less(a, b) == Key[a] < Key[b]

list_insert(h, before, e) ==
    LET p == h[before].prev
    IN  [h EXCEPT ![e] = [prev |-> p, next |-> before], ![p].next = e, ![before].prev = e]

Unlink(h, e) == [h EXCEPT ![h[e].prev].next = h[e].next, ![h[e].next].prev = h[e].prev]

\* list_remove, and the element's pointers are no longer of interest.
list_remove(h, e) == [Unlink(h, e) EXCEPT ![e] = [prev |-> Null, next |-> Null]]

\* Mutant of list_splice: the gap's right neighbour keeps its prev pointer.
SpliceHalf(h, before, first, end) ==
    IF first = end THEN h
    ELSE LET last == h[end].prev
             g == [h EXCEPT ![h[first].prev].next = h[last].next]
             p == g[before].prev
         IN  [g EXCEPT ![first].prev = p, ![last].next = before, ![p].next = first, ![before].prev = last]

list_splice(h, before, first, end) ==
    IF first = end THEN h
    ELSE LET last == h[end].prev
             g == [h EXCEPT ![h[first].prev].next = h[last].next, ![h[last].next].prev = h[first].prev]
             p == g[before].prev
         IN  [g EXCEPT ![first].prev = p, ![last].next = before, ![p].next = first, ![before].prev = last]

Swap(h, n) == [h EXCEPT ![n] = [prev |-> h[n].next, next |-> h[n].prev]]

RECURSIVE SwapFrom(_, _, _)
SwapFrom(h, e, tail) == IF e = tail THEN h ELSE SwapFrom(Swap(h, e), h[e].next, tail)

list_reverse(h, l) ==
    IF list_empty(h, l) THEN h
    ELSE LET hd == list_head(l)
             tl == list_tail(l)
             g == SwapFrom(h, list_begin(h, l), tl)
             k == [g EXCEPT ![hd].next = g[tl].prev, ![tl].prev = g[hd].next]
             first == k[hd].next
             last == k[tl].prev
         IN  [k EXCEPT ![first].prev = k[last].next, ![last].next = k[first].prev]

\* find_end_of_run.
RECURSIVE RunEnd(_, _, _)
RunEnd(h, a, b) ==
    LET n == h[a].next
    IN  IF n = b THEN n ELSE IF less(n, a) THEN n ELSE RunEnd(h, n, b)

RECURSIVE inplace_merge(_, _, _, _)
inplace_merge(h, a0, a1b0, b1) ==
    IF a0 = a1b0 \/ a1b0 = b1 THEN h
    ELSE IF ~less(a1b0, a0) THEN inplace_merge(h, h[a0].next, a1b0, b1)
    ELSE LET n == h[a1b0].next IN inplace_merge(list_splice(h, a0, a1b0, n), a0, n, b1)

\* One pass of list_sort over the runs from a0 on.
RECURSIVE SortPass(_, _, _, _)
SortPass(h, l, a0, cnt) ==
    IF a0 = list_tail(l) THEN [h |-> h, cnt |-> cnt]
    ELSE LET a1b0 == RunEnd(h, a0, list_tail(l))
         IN  IF a1b0 = list_tail(l) THEN [h |-> h, cnt |-> cnt + 1]
             ELSE LET b1 == RunEnd(h, a1b0, list_tail(l))
                  IN  SortPass(inplace_merge(h, a0, a1b0, b1), l, b1, cnt + 1)

RECURSIVE list_sort(_, _)
list_sort(h, l) ==
    LET p == SortPass(h, l, list_begin(h, l), 0)
    IN  IF p.cnt > 1 THEN list_sort(p.h, l) ELSE p.h

\* The place of list_insert_ordered.
RECURSIVE OrderedPlace(_, _, _, _)
OrderedPlace(h, l, e, at) ==
    IF at = list_tail(l) THEN at ELSE IF less(e, at) THEN at ELSE OrderedPlace(h, l, e, h[at].next)

\* list_unique from e on, duplicates to the end of the other list.
RECURSIVE Unique(_, _, _, _)
Unique(h, l, to, e) ==
    LET n == h[e].next
    IN  IF n = list_tail(l) THEN h
        ELSE IF ~less(e, n) /\ ~less(n, e) THEN Unique(list_insert(Unlink(h, n), list_tail(to), n), l, to, e)
        ELSE Unique(h, l, to, n)
list_unique(h, l, to) == IF list_empty(h, l) THEN h ELSE Unique(h, l, to, list_begin(h, l))

list_max(h, l) ==
    LET F[e \in DOMAIN h, m \in DOMAIN h] ==
          IF e = list_tail(l) THEN m ELSE F[h[e].next, IF less(m, e) THEN e ELSE m]
    IN  IF list_empty(h, l) THEN list_tail(l) ELSE F[h[list_begin(h, l)].next, list_begin(h, l)]
list_min(h, l) ==
    LET F[e \in DOMAIN h, m \in DOMAIN h] ==
          IF e = list_tail(l) THEN m ELSE F[h[e].next, IF less(e, m) THEN e ELSE m]
    IN  IF list_empty(h, l) THEN list_tail(l) ELSE F[h[list_begin(h, l)].next, list_begin(h, l)]

-----------------------------------------------------------------------------
\* What the operations mean for the sequence.
InSome(e) == \E l \in Lists : e \in ToSet(order[l])
Stable(s) ==
    LET Before(i, j) == Key[s[i]] < Key[s[j]] \/ (Key[s[i]] = Key[s[j]] /\ i < j)
        Rank(i) == Cardinality({j \in DOMAIN s : Before(j, i)}) + 1
    IN  [r \in DOMAIN s |-> s[CHOOSE i \in DOMAIN s : Rank(i) = r]]
OrderedAfter(s, e) ==       \* the longest prefix without a larger element
    LET n == CHOOSE k \in 0 .. Len(s) :
               /\ \A i \in 1 .. k : ~less(e, s[i])
               /\ k = Len(s) \/ less(e, s[k + 1])
    IN  SubSeq(s, 1, n) \o <<e>> \o SubSeq(s, n + 1, Len(s))
FirstOfRun(s, i) == i = 1 \/ Key[s[i]] # Key[s[i - 1]]
Pick(s, T(_)) == LET I == {i \in DOMAIN s : T(i)}
                 IN  [k \in 1 .. Cardinality(I) |-> s[CHOOSE i \in I : Cardinality({j \in I : j <= i}) = k]]

PushFront(l, e) == /\ ~InSome(e) /\ heap' = list_insert(heap, list_begin(heap, l), e)
                   /\ order' = [order EXCEPT ![l] = <<e>> \o @]
PushBack(l, e) == /\ ~InSome(e) /\ heap' = list_insert(heap, list_tail(l), e)
                  /\ order' = [order EXCEPT ![l] = Append(@, e)]
InsertOrdered(l, e) == /\ ~InSome(e)
                       /\ heap' = list_insert(heap, OrderedPlace(heap, l, e, list_begin(heap, l)), e)
                       /\ order' = [order EXCEPT ![l] = OrderedAfter(@, e)]
RemoveElem(l, i) == /\ heap' = list_remove(heap, order[l][i])
                    /\ order' = [order EXCEPT ![l] = SubSeq(@, 1, i - 1) \o SubSeq(@, i + 1, Len(@))]
\* list_splice of elements i .. j - 1 of l to the end of the other list.
SpliceOut(l, to, i, j) ==
    /\ heap' = list_splice(heap, list_tail(to), order[l][i],
                           IF j > Len(order[l]) THEN list_tail(l) ELSE order[l][j])
    /\ order' = [order EXCEPT ![l] = SubSeq(@, 1, i - 1) \o SubSeq(@, j, Len(@)),
                              ![to] = @ \o SubSeq(order[l], i, j - 1)]
ReverseList(l) == heap' = list_reverse(heap, l) /\ order' = [order EXCEPT ![l] = Reverse(@)]
SortList(l) == heap' = list_sort(heap, l) /\ order' = [order EXCEPT ![l] = Stable(@)]
UniqueList(l, to) ==
    /\ heap' = list_unique(heap, l, to)
    /\ order' = [order EXCEPT ![l] = Pick(@, LAMBDA i : FirstOfRun(order[l], i)),
                              ![to] = @ \o Pick(order[l], LAMBDA i : ~FirstOfRun(order[l], i))]

ListNext ==
    \E l, to \in Lists :
      \/ \E e \in ListElem : PushFront(l, e) \/ PushBack(l, e) \/ InsertOrdered(l, e)
      \/ \E i \in DOMAIN order[l] : RemoveElem(l, i) \/ \E j \in i .. Len(order[l]) + 1 : l # to /\ SpliceOut(l, to, i, j)
      \/ ReverseList(l) \/ SortList(l) \/ (l # to /\ UniqueList(l, to))

-----------------------------------------------------------------------------
\* Every list reads the same through next from the head and through prev from
\* the tail, and it is what the operations mean, after any of them: also a
\* sort that relinks in place is a stable sort, and elements move between
\* lists whole.
ListsMatch ==
    \A l \in Lists :
      LET s == <<list_head(l)>> \o order[l] \o <<list_tail(l)>>
      IN  /\ \A i \in 1 .. Len(s) - 1 : heap[s[i]].next = s[i + 1] /\ heap[s[i + 1]].prev = s[i]
          /\ heap[list_head(l)].prev = Null /\ heap[list_tail(l)].next = Null

\* list_max and list_min return the first extreme element; the tail when
\* there is none.
ExtremesRight ==
    \A l \in Lists :
      LET s == order[l]
          First(B(_, _)) == s[CHOOSE i \in DOMAIN s : \A j \in DOMAIN s :
                                 ~B(s[i], s[j]) /\ (j < i => B(s[j], s[i]))]
      IN  IF s = <<>> THEN {list_max(heap, l), list_min(heap, l)} = {list_tail(l)}
          ELSE /\ list_max(heap, l) = First(LAMBDA x, y : less(x, y))
               /\ list_min(heap, l) = First(LAMBDA x, y : less(y, x))

\* Pointers of list.c give the sequences they stand for, and the extremes.
ListRight == ListsMatch /\ ExtremesRight
=============================================================================
