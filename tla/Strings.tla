------------------------------ MODULE Strings ------------------------------
(***************************************************************************)
(* The memory and string functions of lib/string.c on a memory of MemSize  *)
(* bytes.  Byte 0 ends a string, Delim separates tokens.  call is the last *)
(* call with its arguments and its result; a result -1 is a null pointer.  *)
(***************************************************************************)
EXTENDS Integers, Sequences, FiniteSets, FiniteSetsExt

CONSTANTS MemSize, Byte, Delim

ASSUME StringsAssumption == 0 \in Byte /\ Delim \in Byte \ {0} /\ MemSize \in Nat \ {0}

VARIABLES mem, call,
    save_ptr,       \* strtok_r's position, -1 before the first call
    strTokens          \* the tokens it returned, as strings

strVars == <<mem, call, save_ptr, strTokens>>
NullPtr == -1
At0(m, i) == IF i < MemSize THEN m[i] ELSE 0     \* what follows is zero

StrInit ==
    /\ mem = [i \in 0 .. MemSize - 1 |-> 0]
    /\ call = [name |-> "fresh", dst |-> 0, src |-> 0, size |-> 0, ret |-> 0]
    /\ save_ptr = NullPtr /\ strTokens = <<>>

-----------------------------------------------------------------------------
strlen(m, p) == Min({i \in 0 .. MemSize : At0(m, p + i) = 0})
Text(m, p) == [i \in 1 .. strlen(m, p) |-> m[p + i - 1]]

RECURSIVE memcpy(_, _, _, _)
memcpy(m, dst, src, size) ==
    IF size = 0 THEN m ELSE memcpy([m EXCEPT ![dst] = m[src]], dst + 1, src + 1, size - 1)

\* The loop of memmove that starts from the end.
RECURSIVE CopyDown(_, _, _, _)
CopyDown(m, dst, src, size) ==
    IF size = 0 THEN m
    ELSE CopyDown([m EXCEPT ![dst + size - 1] = m[src + size - 1]], dst, src, size - 1)

\* Mutant of memmove: always upwards.
MoveUp(m, dst, src, size) == memcpy(m, dst, src, size)
memmove(m, dst, src, size) ==
    IF dst < src THEN memcpy(m, dst, src, size) ELSE CopyDown(m, dst, src, size)

memset(m, dst, value, size) == [i \in DOMAIN m |-> IF i \in dst .. dst + size - 1 THEN value ELSE m[i]]

strlcpy(m, dst, src, size) ==
    IF size = 0 THEN m
    ELSE LET n == IF strlen(m, src) < size - 1 THEN strlen(m, src) ELSE size - 1
         IN  memset(memcpy(m, dst, src, n), dst + n, 0, 1)

strlcat(m, dst, src, size) ==
    LET have == strlen(m, dst)
        room == size - have - 1
        n == IF strlen(m, src) < room THEN strlen(m, src) ELSE room
    IN  IF have < size THEN memset(memcpy(m, dst + have, src, n), dst + have + n, 0, 1) ELSE m

\* The searches, as the loops find them: the first byte that ends the loop.
FirstAt(S) == IF S = {} THEN NullPtr ELSE Min(S)
memchr(m, p, c, size) == FirstAt({i \in p .. p + size - 1 : m[i] = c})
strchr(m, p, c) ==
    LET end == FirstAt({i \in p .. MemSize : At0(m, i) \in {c, 0}})
    IN  IF At0(m, end) = c THEN end ELSE NullPtr
RECURSIVE Spanned(_, _, _)
Spanned(m, p, S) == IF At0(m, p) # 0 /\ At0(m, p) \in S THEN 1 + Spanned(m, p + 1, S) ELSE 0
strspn(m, p, S) == Spanned(m, p, S)
strcspn(m, p, S) == Spanned(m, p, Byte \ S)
strpbrk(m, p, S) == IF At0(m, p + strcspn(m, p, S)) = 0 THEN NullPtr ELSE p + strcspn(m, p, S)
RECURSIVE LastIn(_, _, _, _)
LastIn(m, p, c, found) ==
    IF At0(m, p) = 0 THEN found ELSE LastIn(m, p + 1, c, IF m[p] = c THEN p ELSE found)
strrchr(m, p, c) == LastIn(m, p, c, NullPtr)
RECURSIVE memcmp(_, _, _, _)
memcmp(m, a, b, size) ==
    IF size = 0 THEN 0
    ELSE IF At0(m, a) # At0(m, b) THEN (IF At0(m, a) > At0(m, b) THEN 1 ELSE -1)
    ELSE memcmp(m, a + 1, b + 1, size - 1)
RECURSIVE strcmp(_, _, _)
strcmp(m, a, b) ==
    IF At0(m, a) # 0 /\ At0(m, a) = At0(m, b) THEN strcmp(m, a + 1, b + 1)
    ELSE IF At0(m, a) < At0(m, b) THEN -1 ELSE IF At0(m, a) > At0(m, b) THEN 1 ELSE 0

strstr(m, h, n) ==
    FirstAt({h + i : i \in {j \in 0 .. strlen(m, h) - strlen(m, n) : memcmp(m, h + j, n, strlen(m, n)) = 0}})

-----------------------------------------------------------------------------
StrReturns(name, dst, src, size, ret) ==
    call' = [name |-> name, dst |-> dst, src |-> src, size |-> size, ret |-> ret]

\* Fresh memory gets some content.
Load == /\ call.name = "fresh" /\ mem' \in [0 .. MemSize - 1 -> Byte] /\ StrReturns("none", 0, 0, 0, 0)
        /\ save_ptr' = NullPtr /\ strTokens' = <<>>

Apart(a, n, b, k) == a + n <= b \/ b + k <= a

\* The result of memmove is where its pointer ended up.
Memmove(dst, src, size) ==
    /\ mem' = memmove(mem, dst, src, size)
    /\ StrReturns("memmove", dst, src, size, IF dst < src THEN dst + size ELSE dst)
Memset(dst, size) == mem' = memset(mem, dst, Delim, size) /\ StrReturns("memset", dst, 0, size, dst)
Strlcpy(dst, src, size) ==
    /\ src + strlen(mem, src) < MemSize /\ Apart(dst, size, src, strlen(mem, src) + 1)
    /\ mem' = strlcpy(mem, dst, src, size) /\ StrReturns("strlcpy", dst, src, size, strlen(mem, src))
Strlcat(dst, src, size) ==
    /\ src + strlen(mem, src) < MemSize /\ dst + strlen(mem, dst) < MemSize
    /\ Apart(dst, size, src, strlen(mem, src) + 1)
    /\ mem' = strlcat(mem, dst, src, size)
    /\ StrReturns("strlcat", dst, src, size, strlen(mem, src) + strlen(mem, dst))

\* One call of strtok_r on the string at 0.
Strtok ==
    LET s == IF save_ptr = NullPtr THEN 0 ELSE save_ptr
        token == s + strspn(mem, s, {Delim})
        end == token + strcspn(mem, token, {Delim})
    IN  /\ call.name \in {"none", "strtok"} /\ At0(mem, MemSize - 1) = 0
        /\ IF At0(mem, token) = 0
             THEN save_ptr' = token /\ UNCHANGED <<mem, strTokens>> /\ StrReturns("strtok", 0, 0, 0, NullPtr)
           ELSE /\ mem' = IF mem[end] # 0 THEN [mem EXCEPT ![end] = 0] ELSE mem
                /\ save_ptr' = IF mem[end] # 0 THEN end + 1 ELSE end
                /\ strTokens' = Append(strTokens, Text(mem', token)) /\ StrReturns("strtok", 0, 0, 0, token)

Blocks3 == {b \in (0 .. MemSize) \X (0 .. MemSize) \X (0 .. MemSize) : b[1] + b[3] <= MemSize}
StrNext ==
    \/ Load \/ Strtok
    \/ /\ call.name = "none" /\ UNCHANGED <<save_ptr, strTokens>>
       /\ \E b \in Blocks3 :
            \/ b[2] + b[3] <= MemSize /\ Memmove(b[1], b[2], b[3])
            \/ b[2] = 0 /\ Memset(b[1], b[3])
            \/ Strlcpy(b[1], b[2], b[3]) \/ Strlcat(b[1], b[2], b[3])

-----------------------------------------------------------------------------
Changed == {i \in DOMAIN mem : mem[i] # mem'[i]}

\* Blocks that overlap in either direction arrive whole, and nothing outside
\* the destination changes.
MemmoveExact ==
    [][call'.name = "memmove" =>
         /\ \A i \in 0 .. call'.size - 1 : mem'[call'.dst + i] = mem[call'.src + i]
         /\ Changed \subseteq call'.dst .. call'.dst + call'.size - 1]_strVars

\* strlcpy and strlcat stay inside the size they are given, always leave a
\* terminated string there, the longest prefix that fits, and tell from the
\* result whether it was cut.
CopiesBounded ==
    [][call'.name \in {"strlcpy", "strlcat"} /\ call'.size > 0 =>
         LET d == call'.dst
             full == (IF call'.name = "strlcat" THEN Text(mem, d) ELSE <<>>) \o Text(mem, call'.src)
         IN  /\ Changed \subseteq d .. d + call'.size - 1
             /\ call'.ret = Len(full)
             /\ (call'.name = "strlcpy" \/ strlen(mem, d) < call'.size) =>
                  /\ strlen(mem', d) = Min({Len(full), call'.size - 1})
                  /\ Text(mem', d) = SubSeq(full, 1, strlen(mem', d))]_strVars

\* The calls of strtok_r together return the words of the string, none
\* empty, none twice: a call reads what earlier calls left of the string.
TokensWhole ==
    [][call'.name = "strtok" =>
         LET p == IF save_ptr = NullPtr THEN 0 ELSE save_ptr
             words == {w \in (p .. MemSize) \X (p .. MemSize) :
                         /\ w[1] < w[2] /\ w[2] <= p + strlen(mem, p)
                         /\ \A i \in w[1] .. w[2] - 1 : mem[i] # Delim
                         /\ w[1] = p \/ mem[w[1] - 1] = Delim
                         /\ At0(mem, w[2]) \in {0, Delim}}
         IN  IF words = {} THEN call'.ret = NullPtr
             ELSE LET first == CHOOSE w \in words : \A v \in words : w[1] <= v[1]
                  IN  /\ call'.ret = first[1]
                      /\ strTokens' = Append(strTokens, [i \in 1 .. first[2] - first[1] |-> mem[first[1] + i - 1]])
                      /\ \A v \in words \ {first} : v[1] >= save_ptr' /\ v[2] <= save_ptr' + strlen(mem', save_ptr')
                      /\ save_ptr' = Min({first[2] + 1, p + strlen(mem, p)})]_strVars

\* The searches find what the string contains.
SearchesRight ==
    call.name = "none" => \A p, q \in DOMAIN mem :
      LET t == Text(mem, p)
          u == Text(mem, q)
          Hits(c) == {i \in DOMAIN t : t[i] = c}
          matches == {i \in 1 .. Len(t) + 1 : i + Len(u) - 1 <= Len(t) /\ SubSeq(t, i, i + Len(u) - 1) = u}
      IN  /\ strstr(mem, p, q) = (IF matches = {} THEN NullPtr ELSE p + Min(matches) - 1)
          /\ (strcmp(mem, p, q) = 0) = (t = u) /\ strcmp(mem, p, q) = -strcmp(mem, q, p)
          /\ \A c \in Byte \ {0} :
               /\ strchr(mem, p, c) = (IF Hits(c) = {} THEN NullPtr ELSE p + Min(Hits(c)) - 1)
               /\ strrchr(mem, p, c) = (IF Hits(c) = {} THEN NullPtr ELSE p + Max(Hits(c)) - 1)
               /\ strpbrk(mem, p, {c}) = strchr(mem, p, c)
               /\ memchr(mem, p, c, strlen(mem, p)) = strchr(mem, p, c)

\* string.c: moves of overlapping blocks, bounded copies, tokens and searches.
StringsRight ==
    /\ []SearchesRight
    /\ MemmoveExact
    /\ CopiesBounded
    /\ TokensWhole
=============================================================================
