----------------------------- MODULE SeqLemmas ------------------------------
(***************************************************************************)
(* What the operations on queues of threads do to the set of the queued    *)
(* and to the absence of repetitions: Append (list_push_back), RemoveAt    *)
(* (list_remove), InsertAt (list_insert) and SubSeq (list_pop_front).  And *)
(* what the proofs use for induction: least elements and upper bounds.     *)
(***************************************************************************)
EXTENDS Integers, Sequences, SequencesExt, SequenceTheorems,
        WellFoundedInduction, TLAPS

\* A sequence, by its elements.
LEMMA SeqElements ==
    ASSUME NEW S, NEW s \in Seq(S)
    PROVE  /\ Len(s) \in Nat /\ DOMAIN s = 1 .. Len(s)
           /\ ToSet(s) = {s[i] : i \in 1 .. Len(s)}
           /\ ToSet(s) \subseteq S
           /\ s = <<>> <=> ToSet(s) = {}
<1>1. Len(s) \in Nat /\ DOMAIN s = 1 .. Len(s)
  OBVIOUS
<1>2. ToSet(s) = {s[i] : i \in 1 .. Len(s)}
  BY <1>1 DEF ToSet
<1>3. ToSet(s) \subseteq S
  BY <1>2
<1>4. s = <<>> => ToSet(s) = {}
  BY <1>1 DEF ToSet
<1>5. ASSUME s # <<>> PROVE ToSet(s) # {}
  <2>1. 1 \in DOMAIN s
    BY <1>1, <1>5
  <2> QED BY <2>1 DEF ToSet
<1> QED BY <1>1, <1>2, <1>3, <1>4, <1>5

\* The empty sequence.
LEMMA EmptyProperties == ToSet(<<>>) = {} /\ IsInjective(<<>>)
  BY DEF ToSet, IsInjective

\* Append adds one element, at the end.
LEMMA AppendElements ==
    ASSUME NEW S, NEW s \in Seq(S), NEW e \in S
    PROVE  /\ Append(s, e) \in Seq(S)
           /\ Append(s, e) # <<>>
           /\ Len(Append(s, e)) = Len(s) + 1
           /\ \A j \in 1 .. Len(s) + 1 :
                Append(s, e)[j] = IF j <= Len(s) THEN s[j] ELSE e
           /\ ToSet(Append(s, e)) = ToSet(s) \cup {e}
           /\ IsInjective(s) /\ e \notin ToSet(s) => IsInjective(Append(s, e))
<1> DEFINE a == Append(s, e)
<1>1. /\ a \in Seq(S) /\ a # <<>> /\ Len(a) = Len(s) + 1 /\ Len(s) \in Nat
      /\ DOMAIN a = 1 .. Len(s) + 1 /\ DOMAIN s = 1 .. Len(s)
      /\ \A j \in 1 .. Len(s) + 1 : a[j] = IF j <= Len(s) THEN s[j] ELSE e
  OBVIOUS
<1> HIDE DEF a
<1>2. ToSet(a) = ToSet(s) \cup {e}
  <2>1. \A j \in 1 .. Len(s) : a[j] = s[j] /\ j \in 1 .. Len(s) + 1
    BY <1>1
  <2>2. a[Len(s) + 1] = e /\ Len(s) + 1 \in DOMAIN a
    BY <1>1
  <2>3. \A j \in DOMAIN a : j \in 1 .. Len(s) \/ j = Len(s) + 1
    BY <1>1
  <2> QED BY <1>1, <2>1, <2>2, <2>3 DEF ToSet
<1>3. ASSUME IsInjective(s), e \notin ToSet(s) PROVE IsInjective(a)
  <2> SUFFICES ASSUME NEW i \in DOMAIN a, NEW j \in DOMAIN a, a[i] = a[j]
               PROVE  i = j
    BY DEF IsInjective
  <2>1. \A k \in 1 .. Len(s) : s[k] # e
    BY <1>1, <1>3 DEF ToSet
  <2> QED BY <1>1, <1>3, <2>1 DEF IsInjective
<1> QED BY <1>1, <1>2, <1>3 DEF a

\* RemoveAt takes one element out; those behind it move up.
LEMMA RemoveAtElements ==
    ASSUME NEW S, NEW s \in Seq(S), NEW i \in 1 .. Len(s)
    PROVE  /\ RemoveAt(s, i) \in Seq(S)
           /\ Len(RemoveAt(s, i)) = Len(s) - 1
           /\ \A j \in 1 .. Len(s) - 1 :
                RemoveAt(s, i)[j] = IF j < i THEN s[j] ELSE s[j + 1]
           /\ ToSet(s) = ToSet(RemoveAt(s, i)) \cup {s[i]}
           /\ IsInjective(s) => /\ IsInjective(RemoveAt(s, i))
                                /\ ToSet(RemoveAt(s, i)) = ToSet(s) \ {s[i]}
<1> DEFINE a == SubSeq(s, 1, i - 1)
           b == SubSeq(s, i + 1, Len(s))
           c == a \o b
<1>1. a \in Seq(S) /\ Len(a) = i - 1 /\ \A j \in 1 .. i - 1 : a[j] = s[j]
  OBVIOUS
<1>2. /\ b \in Seq(S) /\ Len(b) = Len(s) - i
      /\ \A j \in 1 .. Len(s) - i : b[j] = s[j + i]
  OBVIOUS
<1> HIDE DEF a, b
<1>3. /\ c \in Seq(S) /\ Len(c) = Len(a) + Len(b)
      /\ \A j \in 1 .. Len(a) + Len(b) :
           c[j] = IF j <= Len(a) THEN a[j] ELSE b[j - Len(a)]
  BY <1>1, <1>2, ConcatProperties
<1> HIDE DEF c
<1>4. RemoveAt(s, i) = c
  BY DEF RemoveAt, a, b, c
<1>5. Len(s) \in Nat /\ DOMAIN s = 1 .. Len(s)
  OBVIOUS
<1>6. Len(c) = Len(s) - 1 /\ DOMAIN c = 1 .. Len(s) - 1
  BY <1>1, <1>2, <1>3, <1>5
<1>7. ASSUME NEW j \in 1 .. Len(s) - 1
      PROVE  c[j] = IF j < i THEN s[j] ELSE s[j + 1]
  <2>1. j \in 1 .. Len(a) + Len(b)
    BY <1>1, <1>2
  <2>2. CASE j < i
    BY <1>1, <1>3, <2>1, <2>2
  <2>3. CASE ~(j < i)
    <3>1. j - (i - 1) \in 1 .. Len(s) - i /\ ~(j <= Len(a))
      BY <1>1, <2>3
    <3>2. c[j] = b[j - (i - 1)]
      BY <1>1, <1>3, <2>1, <3>1
    <3>3. b[j - (i - 1)] = s[(j - (i - 1)) + i]
      BY <1>2, <3>1
    <3>4. (j - (i - 1)) + i = j + 1
      BY <1>5
    <3> QED BY <3>2, <3>3, <3>4, <2>3
  <2> QED BY <2>2, <2>3
<1>8. \A k \in 1 .. Len(s) :
        k = i \/ \E j \in 1 .. Len(s) - 1 : c[j] = s[k] /\ (j = k \/ j = k - 1)
  <2> TAKE k \in 1 .. Len(s)
  <2>1. CASE k < i
    BY <1>5, <1>7, <2>1
  <2>2. CASE k > i
    <3>1. k - 1 \in 1 .. Len(s) - 1 /\ ~(k - 1 < i) /\ (k - 1) + 1 = k
      BY <1>5, <2>2
    <3> QED BY <1>7, <3>1
  <2> QED BY <2>1, <2>2, <1>5
<1>9. \A j \in 1 .. Len(s) - 1 : \E k \in 1 .. Len(s) : k # i /\ c[j] = s[k]
  BY <1>5, <1>7
<1>10. ToSet(s) = ToSet(c) \cup {s[i]}
  <2>1. ASSUME NEW x \in ToSet(s) PROVE x \in ToSet(c) \cup {s[i]}
    <3>1. PICK k \in 1 .. Len(s) : x = s[k]
      BY <1>5 DEF ToSet
    <3> QED BY <1>6, <1>8, <3>1 DEF ToSet
  <2>2. ASSUME NEW x \in ToSet(c) PROVE x \in ToSet(s)
    <3>1. PICK j \in 1 .. Len(s) - 1 : x = c[j]
      BY <1>6 DEF ToSet
    <3> QED BY <1>5, <1>9, <3>1 DEF ToSet
  <2>3. s[i] \in ToSet(s)
    BY <1>5 DEF ToSet
  <2> QED BY <2>1, <2>2, <2>3
<1>11. ASSUME IsInjective(s)
       PROVE  IsInjective(c) /\ ToSet(c) = ToSet(s) \ {s[i]}
  <2>1. \A x, y \in 1 .. Len(s) : s[x] = s[y] => x = y
    BY <1>5, <1>11 DEF IsInjective
  <2>2. \A x, y \in 1 .. Len(s) - 1 : c[x] = c[y] => x = y
    BY <1>5, <1>7, <2>1
  <2>3. s[i] \notin ToSet(c)
    BY <1>6, <1>9, <2>1 DEF ToSet
  <2> QED BY <1>6, <1>10, <2>2, <2>3 DEF IsInjective
<1> QED BY <1>3, <1>4, <1>6, <1>7, <1>10, <1>11

\* InsertAt puts one element in; those behind it move down.
LEMMA InsertAtElements ==
    ASSUME NEW S, NEW s \in Seq(S), NEW i \in 1 .. Len(s) + 1, NEW e \in S
    PROVE  /\ InsertAt(s, i, e) \in Seq(S)
           /\ Len(InsertAt(s, i, e)) = Len(s) + 1
           /\ \A j \in 1 .. Len(s) + 1 :
                InsertAt(s, i, e)[j] = IF j < i THEN s[j]
                                       ELSE IF j = i THEN e ELSE s[j - 1]
           /\ ToSet(InsertAt(s, i, e)) = ToSet(s) \cup {e}
           /\ IsInjective(s) /\ e \notin ToSet(s) => IsInjective(InsertAt(s, i, e))
<1> DEFINE a == SubSeq(s, 1, i - 1)
           b == SubSeq(s, i, Len(s))
           m == a \o <<e>>
           c == m \o b
<1>1. a \in Seq(S) /\ Len(a) = i - 1 /\ \A j \in 1 .. i - 1 : a[j] = s[j]
  OBVIOUS
<1>2. /\ b \in Seq(S) /\ Len(b) = (Len(s) - i) + 1
      /\ \A j \in 1 .. (Len(s) - i) + 1 : b[j] = s[(j + i) - 1]
  OBVIOUS
<1> HIDE DEF a, b
<1>3. /\ m \in Seq(S) /\ Len(m) = i
      /\ \A j \in 1 .. i : m[j] = IF j < i THEN s[j] ELSE e
  <2>1. <<e>> \in Seq(S) /\ Len(<<e>>) = 1 /\ <<e>>[1] = e
    OBVIOUS
  <2>2. /\ m \in Seq(S) /\ Len(m) = Len(a) + 1
        /\ \A j \in 1 .. Len(a) + 1 :
             m[j] = IF j <= Len(a) THEN a[j] ELSE <<e>>[j - Len(a)]
    BY <1>1, <2>1, ConcatProperties
  <2> HIDE DEF m
  <2>3. ASSUME NEW j \in 1 .. i PROVE m[j] = IF j < i THEN s[j] ELSE e
    <3>1. CASE j < i
      BY <1>1, <2>2, <3>1
    <3>2. CASE j = i
      <4>1. i \in 1 .. Len(a) + 1 /\ ~(i <= Len(a)) /\ i - Len(a) = 1
        BY <1>1
      <4>2. m[i] = <<e>>[1]
        BY <2>2, <4>1
      <4> QED BY <2>1, <3>2, <4>2
    <3> QED BY <3>1, <3>2
  <2> QED BY <1>1, <2>2, <2>3
<1> HIDE DEF m
<1>4. /\ c \in Seq(S) /\ Len(c) = Len(m) + Len(b)
      /\ \A j \in 1 .. Len(m) + Len(b) :
           c[j] = IF j <= Len(m) THEN m[j] ELSE b[j - Len(m)]
  <2>1. m \in Seq(S) /\ b \in Seq(S)
    BY <1>2, <1>3
  <2> QED BY <2>1, ConcatProperties
<1> HIDE DEF c
<1>5. InsertAt(s, i, e) = c
  BY DEF InsertAt, a, b, m, c
<1>6. /\ Len(s) \in Nat /\ DOMAIN s = 1 .. Len(s)
      /\ Len(c) = Len(s) + 1 /\ DOMAIN c = 1 .. Len(s) + 1
  BY <1>2, <1>3, <1>4
<1>7. ASSUME NEW j \in 1 .. Len(s) + 1
      PROVE  c[j] = IF j < i THEN s[j] ELSE IF j = i THEN e ELSE s[j - 1]
  <2>1. j \in 1 .. Len(m) + Len(b)
    BY <1>2, <1>3
  <2>2. CASE j <= i
    <3>1. c[j] = m[j]
      BY <1>3, <1>4, <2>1, <2>2
    <3> QED BY <1>3, <1>6, <2>2, <3>1
  <2>3. CASE j > i
    <3>1. j - i \in 1 .. (Len(s) - i) + 1 /\ ~(j <= Len(m))
      BY <1>3, <2>3
    <3>2. c[j] = b[j - i]
      BY <1>3, <1>4, <2>1, <3>1
    <3>3. b[j - i] = s[((j - i) + i) - 1]
      BY <1>2, <3>1
    <3>4. ((j - i) + i) - 1 = j - 1
      BY <1>6
    <3> QED BY <3>2, <3>3, <3>4, <2>3
  <2> QED BY <2>2, <2>3
<1>8. ToSet(c) = ToSet(s) \cup {e}
  <2>1. ASSUME NEW x \in ToSet(c) PROVE x \in ToSet(s) \cup {e}
    <3>1. PICK j \in 1 .. Len(s) + 1 : x = c[j]
      BY <1>6 DEF ToSet
    <3>2. CASE j < i
      BY <1>6, <1>7, <3>1, <3>2 DEF ToSet
    <3>3. CASE j = i
      BY <1>7, <3>1, <3>3
    <3>4. CASE j > i
      <4>1. x = s[j - 1] /\ j - 1 \in 1 .. Len(s)
        BY <1>6, <1>7, <3>1, <3>4
      <4> QED BY <1>6, <4>1 DEF ToSet
    <3> QED BY <3>2, <3>3, <3>4
  <2>2. ASSUME NEW x \in ToSet(s) PROVE x \in ToSet(c)
    <3>1. PICK k \in 1 .. Len(s) : x = s[k]
      BY <1>6 DEF ToSet
    <3>2. CASE k < i
      BY <1>6, <1>7, <3>1, <3>2 DEF ToSet
    <3>3. CASE k >= i
      <4>1. /\ k + 1 \in 1 .. Len(s) + 1 /\ ~(k + 1 < i) /\ k + 1 # i
            /\ (k + 1) - 1 = k
        BY <1>6, <3>3
      <4>2. c[k + 1] = s[k]
        BY <1>7, <4>1
      <4> QED BY <1>6, <3>1, <4>1, <4>2 DEF ToSet
    <3> QED BY <3>2, <3>3
  <2>3. e \in ToSet(c)
    <3>1. c[i] = e
      BY <1>7
    <3> QED BY <1>6, <3>1 DEF ToSet
  <2> QED BY <2>1, <2>2, <2>3
<1>9. ASSUME IsInjective(s), e \notin ToSet(s) PROVE IsInjective(c)
  <2>1. \A x, y \in 1 .. Len(s) : s[x] = s[y] => x = y
    BY <1>6, <1>9 DEF IsInjective
  <2>2. \A x \in 1 .. Len(s) : s[x] # e
    BY <1>6, <1>9 DEF ToSet
  <2>3. \A x, y \in 1 .. Len(s) + 1 : c[x] = c[y] => x = y
    BY <1>6, <1>7, <2>1, <2>2
  <2> QED BY <1>6, <2>3 DEF IsInjective
<1> QED BY <1>4, <1>5, <1>6, <1>7, <1>8, <1>9

\* A non-empty set of naturals has a least element.  This is what stands for
\* induction in the proofs: the least counterexample.
LEMMA LeastNatural ==
    ASSUME NEW T, T \subseteq Nat, T # {}
    PROVE  \E x \in T : \A y \in T : x <= y
<1> DEFINE R == OpToRel(<, Nat)
<1>1. \A x, y \in Nat : <<y, x>> \in R <=> y < x
  BY DEF OpToRel
<1>2. IsWellFoundedOn(R, Nat)
  BY NatLessThanWellFounded
<1> HIDE DEF R
<1>3. PICK x \in T : \A y \in T : ~ (<<y, x>> \in R)
  BY <1>2, WFMin
<1>4. \A y \in T : x \in Nat /\ y \in Nat /\ ~ (y < x)
  BY <1>1, <1>3
<1>5. \A y \in T : x <= y
  BY <1>4
<1> QED BY <1>5

\* A finite set of integers has an upper bound.
LEMMA FiniteBounded ==
    ASSUME NEW T, T \subseteq Int, IsFiniteSet(T)
    PROVE  \E b \in Int : \A x \in T : x <= b
<1>1. PICK q \in Seq(T) : \A x \in T : \E i \in 1 .. Len(q) : q[i] = x
  BY DEF IsFiniteSet
<1>2. \A i \in 1 .. Len(q) : q[i] \in Int
  <2> TAKE i \in 1 .. Len(q)
  <2>1. q[i] \in T
    OBVIOUS
  <2> QED BY <2>1
<1>3. Len(q) \in Nat
  OBVIOUS
<1> DEFINE Bounded(n) == \E b \in Int : \A i \in 1 .. n : i <= Len(q) => q[i] <= b
           Bad == {n \in Nat : ~Bounded(n)}
<1>4. \A n \in Nat : Bounded(n) => Bounded(n + 1)
  <2> SUFFICES ASSUME NEW n \in Nat, Bounded(n) PROVE Bounded(n + 1)
    OBVIOUS
  <2>1. PICK b \in Int : \A i \in 1 .. n : i <= Len(q) => q[i] <= b
    OBVIOUS
  <2>2. \A i \in 1 .. n + 1 : i \in 1 .. n \/ i = n + 1
    OBVIOUS
  <2>3. CASE n + 1 <= Len(q)
    <3>1. n + 1 \in 1 .. Len(q)
      BY <1>3, <2>3
    <3>2. q[n + 1] \in Int
      BY <1>2, <3>1
    <3>3. PICK c \in Int : b <= c /\ q[n + 1] <= c
      <4>1. CASE b <= q[n + 1]
        <5>1. q[n + 1] <= q[n + 1]
          BY <3>2
        <5> QED BY <3>2, <4>1, <5>1
      <4>2. CASE q[n + 1] <= b
        <5>1. b <= b
          OBVIOUS
        <5> QED BY <4>2, <5>1
      <4> QED BY <3>2, <4>1, <4>2
    <3>4. ASSUME NEW i \in 1 .. n + 1, i <= Len(q)
          PROVE  q[i] <= c
      <4>1. CASE i = n + 1
        BY <3>3, <4>1
      <4>2. CASE i \in 1 .. n
        <5>1. q[i] <= b
          BY <2>1, <3>4, <4>2
        <5>2. i \in 1 .. Len(q)
          BY <3>4
        <5>3. q[i] \in Int
          BY <1>2, <5>2
        <5> QED BY <3>3, <5>1, <5>3
      <4> QED BY <2>2, <4>1, <4>2
    <3> QED BY <3>4
  <2>4. CASE ~ (n + 1 <= Len(q))
    <3>1. ASSUME NEW i \in 1 .. n + 1, i <= Len(q)
          PROVE  q[i] <= b
      <4>1. i \in 1 .. n
        BY <2>2, <2>4, <3>1
      <4> QED BY <2>1, <3>1, <4>1
    <3> QED BY <3>1
  <2> QED BY <2>3, <2>4
<1>5. Bounded(0)
  <2>1. \A i \in 1 .. 0 : i <= Len(q) => q[i] <= 0
    OBVIOUS
  <2> QED BY <2>1
<1>6. Bad \subseteq Nat /\ \A n \in Nat : n \notin Bad <=> Bounded(n)
  OBVIOUS
<1> HIDE DEF Bounded, Bad
<1>7. Bad = {}
  <2> SUFFICES ASSUME Bad # {} PROVE FALSE
    OBVIOUS
  <2>1. PICK n \in Bad : \A m \in Bad : n <= m
    BY <1>6, LeastNatural
  <2>2. n \in Nat /\ ~Bounded(n)
    BY <1>6, <2>1
  <2>3. n # 0
    BY <1>5, <2>2
  <2>4. n - 1 \in Nat /\ ~ (n <= n - 1) /\ (n - 1) + 1 = n
    BY <2>2, <2>3
  <2>5. n - 1 \notin Bad
    BY <2>1, <2>4
  <2>6. Bounded(n - 1)
    BY <1>6, <2>4, <2>5
  <2>7. Bounded((n - 1) + 1)
    BY <1>4, <2>4, <2>6
  <2> QED BY <2>2, <2>4, <2>7
<1>8. Bounded(Len(q))
  BY <1>3, <1>6, <1>7
<1>9. PICK b \in Int : \A i \in 1 .. Len(q) : i <= Len(q) => q[i] <= b
  BY <1>8 DEF Bounded
<1>10. \A i \in 1 .. Len(q) : q[i] <= b
  BY <1>3, <1>9
<1> QED BY <1>1, <1>10

\* What is left of a queue when its first n elements are taken off.
LEMMA SuffixElements ==
    ASSUME NEW S, NEW s \in Seq(S), NEW n \in 0 .. Len(s)
    PROVE  /\ SubSeq(s, n + 1, Len(s)) \in Seq(S)
           /\ Len(SubSeq(s, n + 1, Len(s))) = Len(s) - n
           /\ \A j \in 1 .. Len(s) - n : SubSeq(s, n + 1, Len(s))[j] = s[j + n]
<1> DEFINE r == SubSeq(s, n + 1, Len(s))
<1>1. r \in Seq(S) /\ Len(r) = Len(s) - n
  OBVIOUS
<1>2. \A j \in 1 .. Len(s) - n : r[j] = s[j + n]
  OBVIOUS
<1> QED BY <1>1, <1>2

\* list_push_front.
LEMMA PrependElements ==
    ASSUME NEW S, NEW s \in Seq(S), NEW e \in S
    PROVE  /\ <<e>> \o s \in Seq(S)
           /\ Len(<<e>> \o s) = Len(s) + 1
           /\ (<<e>> \o s)[1] = e
           /\ \A j \in 1 .. Len(s) : (<<e>> \o s)[j + 1] = s[j]
           /\ ToSet(<<e>> \o s) = ToSet(s) \cup {e}
           /\ IsInjective(s) /\ e \notin ToSet(s) => IsInjective(<<e>> \o s)
<1> DEFINE a == <<e>>
           c == a \o s
<1>1. a \in Seq(S) /\ Len(a) = 1 /\ a[1] = e
  OBVIOUS
<1> HIDE DEF a
<1>2. /\ c \in Seq(S) /\ Len(c) = 1 + Len(s)
      /\ \A j \in 1 .. 1 + Len(s) : c[j] = IF j <= 1 THEN a[j] ELSE s[j - 1]
  <2>1. /\ c \in Seq(S) /\ Len(c) = Len(a) + Len(s)
        /\ \A j \in 1 .. Len(a) + Len(s) :
             c[j] = IF j <= Len(a) THEN a[j] ELSE s[j - Len(a)]
    BY <1>1, ConcatProperties
  <2> HIDE DEF c
  <2> QED BY <1>1, <2>1
<1> HIDE DEF c
<1>3. Len(s) \in Nat /\ DOMAIN s = 1 .. Len(s) /\ DOMAIN c = 1 .. Len(s) + 1
  BY <1>2
<1>4. c[1] = e /\ 1 \in DOMAIN c
  BY <1>1, <1>2, <1>3
<1>5. ASSUME NEW j \in 1 .. Len(s) PROVE c[j + 1] = s[j] /\ j + 1 \in DOMAIN c
  <2>1. j + 1 \in 1 .. 1 + Len(s) /\ ~ (j + 1 <= 1) /\ (j + 1) - 1 = j
    BY <1>3
  <2> QED BY <1>2, <1>3, <2>1
<1>6. ASSUME NEW j \in DOMAIN c PROVE j = 1 \/ \E i \in 1 .. Len(s) : j = i + 1
  <2>1. j = 1 \/ (j - 1 \in 1 .. Len(s) /\ j = (j - 1) + 1)
    BY <1>3
  <2> QED BY <2>1
<1>7. ToSet(c) = ToSet(s) \cup {e}
  <2>1. ASSUME NEW x \in ToSet(c) PROVE x \in ToSet(s) \cup {e}
    <3>1. PICK j \in DOMAIN c : x = c[j]
      BY DEF ToSet
    <3> QED BY <1>3, <1>4, <1>5, <1>6, <3>1 DEF ToSet
  <2>2. ASSUME NEW x \in ToSet(s) \cup {e} PROVE x \in ToSet(c)
    <3>1. CASE x = e
      BY <1>4, <3>1 DEF ToSet
    <3>2. CASE x \in ToSet(s)
      <4>1. PICK i \in 1 .. Len(s) : x = s[i]
        BY <1>3, <3>2 DEF ToSet
      <4> QED BY <1>5, <4>1 DEF ToSet
    <3> QED BY <3>1, <3>2
  <2> QED BY <2>1, <2>2
<1>8. ASSUME IsInjective(s), e \notin ToSet(s) PROVE IsInjective(c)
  <2> SUFFICES ASSUME NEW i \in DOMAIN c, NEW j \in DOMAIN c, c[i] = c[j]
               PROVE  i = j
    BY DEF IsInjective
  <2>1. \A k \in 1 .. Len(s) : s[k] # e
    BY <1>3, <1>8 DEF ToSet
  <2>2. \A k, l \in 1 .. Len(s) : s[k] = s[l] => k = l
    BY <1>3, <1>8 DEF IsInjective
  <2> QED BY <1>4, <1>5, <1>6, <2>1, <2>2
<1>9. Len(c) = Len(s) + 1
  BY <1>2, <1>3
<1> QED BY <1>2, <1>4, <1>5, <1>7, <1>8, <1>9 DEF a, c

\* Tail takes the first element off, and off the set of a sequence without
\* repetitions.
LEMMA TailElements ==
    ASSUME NEW S, NEW s \in Seq(S), s # <<>>
    PROVE  /\ Head(s) \in S /\ Head(s) \in ToSet(s)
           /\ Tail(s) \in Seq(S)
           /\ Len(Tail(s)) = Len(s) - 1
           /\ IsInjective(s) => /\ IsInjective(Tail(s))
                                /\ ToSet(Tail(s)) = ToSet(s) \ {Head(s)}
<1>1. Len(s) \in Nat /\ Len(s) # 0 /\ s \in [1 .. Len(s) -> S] /\ DOMAIN s = 1 .. Len(s)
  OBVIOUS
<1>2. 1 \in 1 .. Len(s) /\ Head(s) = s[1]
  BY <1>1
<1>3. Tail(s) \in Seq(S) /\ Len(Tail(s)) = Len(s) - 1
  BY <1>1
<1>4. DOMAIN Tail(s) = 1 .. Len(s) - 1
  BY <1>3
<1>5. \A j \in 1 .. Len(s) - 1 : Tail(s)[j] = s[j + 1] /\ j + 1 \in 1 .. Len(s) /\ j + 1 # 1
  BY <1>1
<1>6. \A i \in 1 .. Len(s) : i # 1 => i - 1 \in 1 .. Len(s) - 1 /\ (i - 1) + 1 = i
  BY <1>1
<1>7. ToSet(s) = {s[i] : i \in 1 .. Len(s)}
  BY SeqElements
<1>8. ToSet(Tail(s)) = {Tail(s)[i] : i \in 1 .. Len(s) - 1}
  BY <1>4 DEF ToSet
<1>9. ASSUME IsInjective(s)
      PROVE  IsInjective(Tail(s)) /\ ToSet(Tail(s)) = ToSet(s) \ {Head(s)}
  <2>1. \A i, j \in 1 .. Len(s) : s[i] = s[j] => i = j
    BY <1>1, <1>9 DEF IsInjective
  <2>2. \A i, j \in 1 .. Len(s) - 1 : Tail(s)[i] = Tail(s)[j] => i + 1 = j + 1
    BY <1>5, <2>1
  <2>3. \A i, j \in 1 .. Len(s) - 1 : i + 1 = j + 1 => i = j
    BY <1>1
  <2>4. IsInjective(Tail(s))
    BY <1>4, <2>2, <2>3 DEF IsInjective
  <2>5. ToSet(Tail(s)) \subseteq ToSet(s) \ {Head(s)}
    BY <1>2, <1>5, <1>7, <1>8, <2>1
  <2>6. ASSUME NEW x \in ToSet(s), x # Head(s) PROVE x \in ToSet(Tail(s))
    <3>1. PICK i \in 1 .. Len(s) : x = s[i]
      BY <1>7
    <3>2. i # 1
      BY <1>2, <2>6, <3>1
    <3>3. Tail(s)[i - 1] = s[i]
      BY <1>5, <1>6, <3>2
    <3> QED BY <1>6, <1>8, <3>1, <3>2, <3>3
  <2> QED BY <2>4, <2>5, <2>6
<1> QED BY <1>1, <1>2, <1>3, <1>7, <1>9
=============================================================================
