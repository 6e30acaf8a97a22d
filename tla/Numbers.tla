------------------------------ MODULE Numbers ------------------------------
(***************************************************************************)
(* The arithmetic, sorting and searching of lib/arithmetic.c and           *)
(* lib/stdlib.c, and timer_calibrate of devices/timer.c.  A machine word   *)
(* has W bits, a double word 2 W.  Each step picks an input: a divisor, an *)
(* array, a number as text, a speed of the machine.                        *)
(***************************************************************************)
EXTENDS Integers, Sequences, FiniteSets, FiniteSetsExt

CONSTANTS W,                 \* 32, the bits of a word: a power of two
    ArrayLen, ArrayVals,     \* arrays to sort
    MinInt, MaxInt,          \* range of an int, for atoi
    FirstLoops, RefineBits   \* 1 << 10 and 10 of timer_calibrate

VARIABLES input
numVars == <<input>>
B == 2^W

ASSUME NumbersAssumption == W \in {2, 4, 8} /\ ArrayLen \in Nat /\ FirstLoops \in Nat \ {0} /\ RefineBits \in Nat

-----------------------------------------------------------------------------
\* divl; -1 when the processor traps.
divl(n, d) == IF n \div d < B THEN n \div d ELSE -1

\* nlz by halving.
RECURSIVE NlzStep(_, _)
NlzStep(x, step) ==
    IF step = 0 THEN 0
    ELSE IF x < 2^(W - step) THEN step + NlzStep(x * 2^step, step \div 2) ELSE NlzStep(x, step \div 2)
nlz(x) == NlzStep(x, W \div 2)

\* Mutant of udiv64: the estimate is not corrected.
UdivEstimate(n, d) ==
    IF d < B THEN LET q == divl(B * ((n \div B) % d) + (n % B), d) IN IF q < 0 THEN -1 ELSE q + B * ((n \div B) \div d)
    ELSE IF n < d THEN 0
    ELSE LET s == nlz(d \div B) IN divl(n \div 2, ((d * 2^s) % (B * B)) \div B) \div 2^(W - 1 - s)

udiv64(n, d) ==
    IF d < B THEN LET q == divl(B * ((n \div B) % d) + (n % B), d) IN IF q < 0 THEN -1 ELSE q + B * ((n \div B) \div d)
    ELSE IF n < d THEN 0
    ELSE LET s == nlz(d \div B)
             t == divl(n \div 2, ((d * 2^s) % (B * B)) \div B)
             q == t \div 2^(W - 1 - s)
         IN  IF t < 0 THEN -1 ELSE IF (n - (q - 1) * d) % (B * B) < d THEN q - 1 ELSE q

\* umod64 returns one word of the remainder.
umod64(n, d) == ((n - d * udiv64(n, d)) % (B * B)) % B

\* Double words as signed numbers.
Signed(u) == IF u >= (B * B) \div 2 THEN u - B * B ELSE u
Neg(u) == (B * B - u) % (B * B)
\* sdiv64 of two's complement double words.
sdiv64(n, d) ==
    LET n_abs == IF Signed(n) >= 0 THEN n ELSE Neg(n)
        d_abs == IF Signed(d) >= 0 THEN d ELSE Neg(d)
        q_abs == udiv64(n_abs, d_abs)
    IN  IF (Signed(n) < 0) = (Signed(d) < 0) THEN q_abs ELSE Neg(q_abs)

-----------------------------------------------------------------------------
SwapAt(a, i, j) == [a EXCEPT ![i] = a[j], ![j] = a[i]]

RECURSIVE heapify(_, _, _)
heapify(a, i, cnt) ==
    LET l == 2 * i
        r == 2 * i + 1
        m1 == IF l <= cnt THEN (IF a[l] > a[i] THEN l ELSE i) ELSE i
        max == IF r <= cnt THEN (IF a[r] > a[m1] THEN r ELSE m1) ELSE m1
    IN  IF max = i THEN a ELSE heapify(SwapAt(a, i, max), max, cnt)

RECURSIVE BuildHeap(_, _)
BuildHeap(a, i) == IF i = 0 THEN a ELSE BuildHeap(heapify(a, i, Len(a)), i - 1)
RECURSIVE SortHeap(_, _)
SortHeap(a, i) == IF i <= 1 THEN a ELSE SortHeap(heapify(SwapAt(a, 1, i), 1, i - 1), i - 1)
sort(a) == SortHeap(BuildHeap(a, Len(a) \div 2), Len(a))

\* binary_search in a from first up to last; -1 is a null pointer.
RECURSIVE binary_search(_, _, _, _)
binary_search(key, a, first, last) ==
    IF first >= last THEN -1
    ELSE LET middle == first + (last - first) \div 2
         IN  IF key < a[middle] THEN binary_search(key, a, first, middle)
             ELSE IF key > a[middle] THEN binary_search(key, a, middle + 1, last) ELSE middle

-----------------------------------------------------------------------------
\* atoi on digits: v is the value so far; Overflow when it leaves the range
\* of an int.
Overflow == MaxInt + 1
InRange(v) == v \in MinInt .. MaxInt

RECURSIVE AtoiDown(_, _)
AtoiDown(s, v) == IF s = <<>> THEN v ELSE IF ~InRange(v * 10 - Head(s)) THEN Overflow ELSE AtoiDown(Tail(s), v * 10 - Head(s))
atoi(negative, s) == LET v == AtoiDown(s, 0) IN IF v = Overflow THEN v ELSE IF negative THEN v ELSE -v

RECURSIVE Decimal(_)
Decimal(n) == IF n < 10 THEN <<n>> ELSE Decimal(n \div 10) \o <<n % 10>>
AbsVal(n) == IF n < 0 THEN -n ELSE n

-----------------------------------------------------------------------------
\* too_many_loops on a machine that makes speed loops in a tick.
too_many_loops(loops, speed) == loops > speed

RECURSIVE Doubled(_, _)
Doubled(loops, speed) == IF too_many_loops(2 * loops, speed) THEN loops ELSE Doubled(2 * loops, speed)

\* timer_calibrate.  A bit is tried with the high bit alone.
timer_calibrate(speed) ==
    LET high == Doubled(FirstLoops, speed)
    IN  high + MapThenSumSet(LAMBDA k : IF too_many_loops(high + high \div 2^k, speed) THEN 0 ELSE high \div 2^k,
                             1 .. RefineBits - 1)

-----------------------------------------------------------------------------
NumInit == input = [kind |-> "none", d |-> 1, a |-> <<>>]
Divisor(d) == input.kind = "none" /\ input' = [kind |-> "divisor", d |-> d, a |-> <<>>]
Array(a) == input.kind = "none" /\ input' = [kind |-> "array", d |-> 1, a |-> a]
Speed(s) == input.kind = "none" /\ input' = [kind |-> "speed", d |-> s, a |-> <<>>]
NumText(n) == input.kind = "none" /\ input' = [kind |-> "text", d |-> n, a |-> Decimal(AbsVal(n))]
NumNext ==
    \/ \E d \in 1 .. B * B - 1 : Divisor(d)
    \/ \E n \in 0 .. ArrayLen : \E a \in [1 .. n -> ArrayVals] : Array(a)
    \/ \E s \in 0 .. 40 : Speed(FirstLoops + s)
    \/ \E n \in MinInt .. MaxInt : NumText(n)

\* Unsigned and signed division are exact and the processor never traps, the
\* remainder is right whenever it fits the word that umod64 returns.
DivisionRight ==
    input.kind = "divisor" => \A n \in 0 .. B * B - 1 :
      LET d == input.d
          TruncDiv(x, y) == IF (x < 0) = (y < 0) THEN AbsVal(x) \div AbsVal(y) ELSE -(AbsVal(x) \div AbsVal(y))
      IN  /\ udiv64(n, d) = n \div d
          /\ n % d < B => umod64(n, d) = n % d
          /\ sdiv64(n, d) = TruncDiv(Signed(n), Signed(d)) % (B * B)

\* sort puts any array in order and loses no element.
SortRight ==
    input.kind = "array" =>
      LET s == sort(input.a)
      IN  /\ \A i \in 1 .. Len(s) - 1 : s[i] <= s[i + 1]
          /\ \A v \in ArrayVals : Cardinality({i \in DOMAIN s : s[i] = v})
                                  = Cardinality({i \in DOMAIN s : input.a[i] = v})

\* binary_search in a sorted array finds a key exactly when it is there.
SearchFinds ==
    input.kind = "array" =>
      LET s == sort(input.a)
      IN  \A k \in ArrayVals :
            LET at == binary_search(k, s, 1, Len(s) + 1)
            IN  IF \E i \in DOMAIN s : s[i] = k THEN at \in DOMAIN s /\ s[at] = k ELSE at = -1

\* Every int, the smallest too, is read without an intermediate overflow.
AtoiExact == input.kind = "text" => atoi(input.d < 0, input.a) = input.d

\* The calibrated loop count is within a factor of two of a tick, so a brief
\* delay is neither half nor twice as long as asked for.
CalibrationBound ==
    input.kind = "speed" => LET lp == timer_calibrate(input.d)
                            IN  lp > input.d \div 2 - 1 /\ lp < 2 * input.d

\* Division of double words from single ones (arithmetic.c), heap sort, binary
\* search and atoi (stdlib.c) compute what their definitions say for every
\* input of the instance, the ends of the ranges included, and
\* timer_calibrate is right within a factor of two.
NumbersRight ==
    /\ DivisionRight
    /\ SortRight
    /\ SearchFinds
    /\ AtoiExact
    /\ CalibrationBound
=============================================================================
