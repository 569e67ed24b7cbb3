----------------------------- MODULE NaiveProofs -----------------------------
(***************************************************************************)
(* Proofs about the string functions that the memory checker puts in the   *)
(* place of the C library's, for strings of any length over any alphabet.  *)
(***************************************************************************)
EXTENDS MemCheck, WellFoundedInduction, TLAPS

\* A string ends with its only terminator.
LEMMA StringFacts ==
  ASSUME NEW s \in Strings
  PROVE  /\ s \in Seq(Nat) /\ Len(s) \in Nat /\ Len(s) >= 1 /\ s[Len(s)] = 0
         /\ \A k \in 1..Len(s) : s[k] \in Nat
         /\ \A k \in 1..(Len(s) - 1) : s[k] # 0
<1>0. PICK k \in 0..MaxString : \E f \in [1..k -> Char \ {0}] : s = Append(f, 0)
  BY Zenon DEF Strings
<1>1. PICK f \in [1..k -> Char \ {0}] : s = Append(f, 0)
  BY <1>0, Zenon
<1>a. k \in Nat
  BY MemCheckAssumption
<1>b. \A c \in Char : c \in Nat
  BY MemCheckAssumption, Zenon
<1>c. \A j \in 1..k : f[j] \in Nat /\ f[j] # 0
  BY <1>b, Zenon
<1>d. f \in [1..k -> Nat]
  BY <1>c
<1>2. f \in Seq(Nat) /\ Len(f) = k /\ k \in Nat
  BY ONLY <1>a, <1>d
<1>3. /\ s \in Seq(Nat) /\ Len(s) = k + 1 /\ s[k + 1] = 0
      /\ \A j \in 1..k : s[j] = f[j]
  BY ONLY <1>1, <1>2
<1> QED BY <1>2, <1>3, <1>c

\* The same, with the characters counted from 0.
LEMMA StringEnd ==
  ASSUME NEW s \in Strings
  PROVE  \E e \in Nat : /\ Len(s) = e + 1 /\ s[e + 1] = 0
                        /\ \A k \in 0..(e - 1) : s[k + 1] \in Nat /\ s[k + 1] # 0
<1>1. PICK n \in Nat : n = Len(s) /\ n >= 1 /\ s[n] = 0
  BY StringFacts, Zenon
<1>2. PICK e \in Nat : n = e + 1
  BY <1>1
<1>3. \A k \in 0..(e - 1) : k + 1 \in 1..(n - 1) /\ k + 1 \in 1..n
  BY <1>2
<1>4. \A k \in 0..(e - 1) : s[k + 1] \in Nat /\ s[k + 1] # 0
  BY <1>1, <1>3, StringFacts, Zenon
<1> QED BY <1>1, <1>2, <1>4, Zenon

\* A loop that stops at the first index of S, or at n.
LEMMA LoopStops ==
  ASSUME NEW n \in Nat, NEW S
  PROVE  \E i \in 0..n : (i = n \/ i \in S) /\ \A j \in 0..(i - 1) : j \notin S
<1> DEFINE T == {i \in 0..n : i = n \/ i \in S}
<1>1. T \subseteq Nat /\ n \in T
  OBVIOUS
<1> HIDE DEF T
<1>2. PICK x \in T : \A y \in T : ~(<<y, x>> \in OpToRel(<, Nat))
  BY <1>1, NatLessThanWellFounded, WFMin, Zenon
<1>3. \A y \in T : ~(y < x)
  BY <1>1, <1>2, Zenon DEF OpToRel
<1>4. x \in 0..n /\ (x = n \/ x \in S)
  BY DEF T
<1>5. \A j \in 0..(x - 1) : j \in 0..n /\ j < x
  BY <1>4
<1>6. \A j \in 0..(x - 1) : j \notin S
  BY <1>3, <1>5, Zenon DEF T
<1> QED BY <1>4, <1>6, Zenon

\* The least and the greatest element of a set of integers.
LEMMA MinIs ==
  ASSUME NEW S \in SUBSET Int, NEW m \in S, \A y \in S : m <= y
  PROVE  Min(S) = m
<1>1. Min(S) \in S /\ \A y \in S : Min(S) <= y
  BY Zenon DEF Min
<1>2. PICK x : x = Min(S)
  BY ONLY Zenon
<1>3. x \in Int /\ m \in Int /\ x <= m /\ m <= x
  BY <1>1, <1>2, Zenon
<1>4. x = m
  BY ONLY <1>3
<1> QED BY ONLY <1>2, <1>4, Zenon

LEMMA MaxIs ==
  ASSUME NEW S \in SUBSET Int, NEW m \in S, \A y \in S : y <= m
  PROVE  Max(S) = m
<1>1. Max(S) \in S /\ \A y \in S : Max(S) >= y
  BY Zenon DEF Max
<1>2. PICK x : x = Max(S)
  BY ONLY Zenon
<1>3. x \in Int /\ m \in Int /\ x >= m /\ x <= m
  BY <1>1, <1>2, Zenon
<1>4. x = m
  BY ONLY <1>3
<1> QED BY ONLY <1>2, <1>4, Zenon

\* The loop that looks for the terminator.
LEMMA EndLoop ==
  ASSUME NEW s \in Strings
  PROVE  \E i \in 0..Len(s) : (i = Len(s) \/ s[i + 1] = 0) /\ \A j \in 0..(i - 1) : ~(s[j + 1] = 0)
<1> DEFINE S == {k \in Nat : s[k + 1] = 0}
<1>1. Len(s) \in Nat
  BY StringFacts, Zenon
<1>2. PICK x \in 0..Len(s) : (x = Len(s) \/ x \in S) /\ \A j \in 0..(x - 1) : j \notin S
  BY <1>1, LoopStops, Zenon
<1>3. x \in Nat /\ \A j \in 0..(x - 1) : j \in Nat
  BY <1>1, <1>2
<1>4. (x = Len(s) \/ s[x + 1] = 0) /\ \A j \in 0..(x - 1) : ~(s[j + 1] = 0)
  BY <1>2, <1>3, Zenon
<1> QED BY <1>2, <1>4, Zenon

\* The loop of memcheck_strnlen().
LEMMA StrnlenLoop ==
  ASSUME NEW s \in Strings, NEW n \in Nat
  PROVE  \E i \in 0..n : (i = n \/ s[i + 1] = 0) /\ \A j \in 0..(i - 1) : ~(s[j + 1] = 0)
<1> DEFINE S == {k \in Nat : s[k + 1] = 0}
<1>1. n \in Nat
  OBVIOUS
<1>2. PICK x \in 0..n : (x = n \/ x \in S) /\ \A j \in 0..(x - 1) : j \notin S
  BY <1>1, LoopStops, Zenon
<1>3. x \in Nat /\ \A j \in 0..(x - 1) : j \in Nat
  BY <1>1, <1>2
<1>4. (x = n \/ s[x + 1] = 0) /\ \A j \in 0..(x - 1) : ~(s[j + 1] = 0)
  BY <1>2, <1>3, Zenon
<1> QED BY <1>2, <1>4, Zenon

\* The loop of memcheck_strcmp().
LEMMA StrcmpLoop ==
  ASSUME NEW s1 \in Strings, NEW s2 \in Strings
  PROVE  \E i \in 0..Len(s1) : (i = Len(s1) \/ ~(s1[i + 1] = s2[i + 1] /\ s1[i + 1] # 0)) /\ \A j \in 0..(i - 1) : ~(~(s1[j + 1] = s2[j + 1] /\ s1[j + 1] # 0))
<1> DEFINE S == {k \in Nat : ~(s1[k + 1] = s2[k + 1] /\ s1[k + 1] # 0)}
<1>1. Len(s1) \in Nat
  BY StringFacts, Zenon
<1>2. PICK x \in 0..Len(s1) : (x = Len(s1) \/ x \in S) /\ \A j \in 0..(x - 1) : j \notin S
  BY <1>1, LoopStops, Zenon
<1>3. x \in Nat /\ \A j \in 0..(x - 1) : j \in Nat
  BY <1>1, <1>2
<1>4. (x = Len(s1) \/ ~(s1[x + 1] = s2[x + 1] /\ s1[x + 1] # 0)) /\ \A j \in 0..(x - 1) : ~(~(s1[j + 1] = s2[j + 1] /\ s1[j + 1] # 0))
  BY <1>2, <1>3, Zenon
<1> QED BY <1>2, <1>4, Zenon

\* The loop of memcheck_strncmp().
LEMMA StrncmpLoop ==
  ASSUME NEW s1 \in Strings, NEW s2 \in Strings, NEW n \in Nat
  PROVE  \E i \in 0..Len(s1) : (i = Len(s1) \/ ~(s1[i + 1] = s2[i + 1] /\ s1[i + 1] # 0 /\ i + 1 < n)) /\ \A j \in 0..(i - 1) : ~(~(s1[j + 1] = s2[j + 1] /\ s1[j + 1] # 0 /\ j + 1 < n))
<1> DEFINE S == {k \in Nat : ~(s1[k + 1] = s2[k + 1] /\ s1[k + 1] # 0 /\ k + 1 < n)}
<1>1. Len(s1) \in Nat
  BY StringFacts, Zenon
<1>2. PICK x \in 0..Len(s1) : (x = Len(s1) \/ x \in S) /\ \A j \in 0..(x - 1) : j \notin S
  BY <1>1, LoopStops, Zenon
<1>3. x \in Nat /\ \A j \in 0..(x - 1) : j \in Nat
  BY <1>1, <1>2
<1>4. (x = Len(s1) \/ ~(s1[x + 1] = s2[x + 1] /\ s1[x + 1] # 0 /\ x + 1 < n)) /\ \A j \in 0..(x - 1) : ~(~(s1[j + 1] = s2[j + 1] /\ s1[j + 1] # 0 /\ j + 1 < n))
  BY <1>2, <1>3, Zenon
<1> QED BY <1>2, <1>4, Zenon

\* The loop of memcheck_index().
LEMMA IndexLoop ==
  ASSUME NEW s \in Strings, NEW c \in Nat
  PROVE  \E i \in 0..Len(s) : (i = Len(s) \/ s[i + 1] = 0 \/ s[i + 1] = c) /\ \A j \in 0..(i - 1) : ~(s[j + 1] = 0 \/ s[j + 1] = c)
<1> DEFINE S == {k \in Nat : s[k + 1] = 0 \/ s[k + 1] = c}
<1>1. Len(s) \in Nat
  BY StringFacts, Zenon
<1>2. PICK x \in 0..Len(s) : (x = Len(s) \/ x \in S) /\ \A j \in 0..(x - 1) : j \notin S
  BY <1>1, LoopStops, Zenon
<1>3. x \in Nat /\ \A j \in 0..(x - 1) : j \in Nat
  BY <1>1, <1>2
<1>4. (x = Len(s) \/ s[x + 1] = 0 \/ s[x + 1] = c) /\ \A j \in 0..(x - 1) : ~(s[j + 1] = 0 \/ s[j + 1] = c)
  BY <1>2, <1>3, Zenon
<1> QED BY <1>2, <1>4, Zenon

\* The loop of memcheck_strchrnul().
LEMMA ChrnulLoop ==
  ASSUME NEW s \in Strings, NEW c \in Nat
  PROVE  \E i \in 0..Len(s) : (i = Len(s) \/ s[i + 1] = c \/ s[i + 1] = 0) /\ \A j \in 0..(i - 1) : ~(s[j + 1] = c \/ s[j + 1] = 0)
<1> DEFINE S == {k \in Nat : s[k + 1] = c \/ s[k + 1] = 0}
<1>1. Len(s) \in Nat
  BY StringFacts, Zenon
<1>2. PICK x \in 0..Len(s) : (x = Len(s) \/ x \in S) /\ \A j \in 0..(x - 1) : j \notin S
  BY <1>1, LoopStops, Zenon
<1>3. x \in Nat /\ \A j \in 0..(x - 1) : j \in Nat
  BY <1>1, <1>2
<1>4. (x = Len(s) \/ s[x + 1] = c \/ s[x + 1] = 0) /\ \A j \in 0..(x - 1) : ~(s[j + 1] = c \/ s[j + 1] = 0)
  BY <1>2, <1>3, Zenon
<1> QED BY <1>2, <1>4, Zenon

\* The loop of memcheck_memchr() and memcheck_rawmemchr().
LEMMA MemchrLoop ==
  ASSUME NEW s \in Strings, NEW c \in Nat, NEW n \in Nat
  PROVE  \E i \in 0..n : (i = n \/ s[i + 1] = c) /\ \A j \in 0..(i - 1) : ~(s[j + 1] = c)
<1> DEFINE S == {k \in Nat : s[k + 1] = c}
<1>1. n \in Nat
  OBVIOUS
<1>2. PICK x \in 0..n : (x = n \/ x \in S) /\ \A j \in 0..(x - 1) : j \notin S
  BY <1>1, LoopStops, Zenon
<1>3. x \in Nat /\ \A j \in 0..(x - 1) : j \in Nat
  BY <1>1, <1>2
<1>4. (x = n \/ s[x + 1] = c) /\ \A j \in 0..(x - 1) : ~(s[j + 1] = c)
  BY <1>2, <1>3, Zenon
<1> QED BY <1>2, <1>4, Zenon

\* The loop of memcheck_bcmp().
LEMMA BcmpLoop ==
  ASSUME NEW s1 \in Strings, NEW s2 \in Strings, NEW n \in Nat
  PROVE  \E i \in 0..n : (i = n \/ s1[i + 1] # s2[i + 1]) /\ \A j \in 0..(i - 1) : ~(s1[j + 1] # s2[j + 1])
<1> DEFINE S == {k \in Nat : s1[k + 1] # s2[k + 1]}
<1>1. n \in Nat
  OBVIOUS
<1>2. PICK x \in 0..n : (x = n \/ x \in S) /\ \A j \in 0..(x - 1) : j \notin S
  BY <1>1, LoopStops, Zenon
<1>3. x \in Nat /\ \A j \in 0..(x - 1) : j \in Nat
  BY <1>1, <1>2
<1>4. (x = n \/ s1[x + 1] # s2[x + 1]) /\ \A j \in 0..(x - 1) : ~(s1[j + 1] # s2[j + 1])
  BY <1>2, <1>3, Zenon
<1> QED BY <1>2, <1>4, Zenon

\* The loop of memcheck_strspn().
LEMMA StrspnLoop ==
  ASSUME NEW s \in Strings, NEW C
  PROVE  \E i \in 0..Len(s) : (i = Len(s) \/ s[i + 1] = 0 \/ s[i + 1] \notin C) /\ \A j \in 0..(i - 1) : ~(s[j + 1] = 0 \/ s[j + 1] \notin C)
<1> DEFINE S == {k \in Nat : s[k + 1] = 0 \/ s[k + 1] \notin C}
<1>1. Len(s) \in Nat
  BY StringFacts, Zenon
<1>2. PICK x \in 0..Len(s) : (x = Len(s) \/ x \in S) /\ \A j \in 0..(x - 1) : j \notin S
  BY <1>1, LoopStops, Zenon
<1>3. x \in Nat /\ \A j \in 0..(x - 1) : j \in Nat
  BY <1>1, <1>2
<1>4. (x = Len(s) \/ s[x + 1] = 0 \/ s[x + 1] \notin C) /\ \A j \in 0..(x - 1) : ~(s[j + 1] = 0 \/ s[j + 1] \notin C)
  BY <1>2, <1>3, Zenon
<1> QED BY <1>2, <1>4, Zenon

\* The loop of memcheck_strcspn().
LEMMA StrcspnLoop ==
  ASSUME NEW s \in Strings, NEW C
  PROVE  \E i \in 0..Len(s) : (i = Len(s) \/ s[i + 1] = 0 \/ s[i + 1] \in C) /\ \A j \in 0..(i - 1) : ~(s[j + 1] = 0 \/ s[j + 1] \in C)
<1> DEFINE S == {k \in Nat : s[k + 1] = 0 \/ s[k + 1] \in C}
<1>1. Len(s) \in Nat
  BY StringFacts, Zenon
<1>2. PICK x \in 0..Len(s) : (x = Len(s) \/ x \in S) /\ \A j \in 0..(x - 1) : j \notin S
  BY <1>1, LoopStops, Zenon
<1>3. x \in Nat /\ \A j \in 0..(x - 1) : j \in Nat
  BY <1>1, <1>2
<1>4. (x = Len(s) \/ s[x + 1] = 0 \/ s[x + 1] \in C) /\ \A j \in 0..(x - 1) : ~(s[j + 1] = 0 \/ s[j + 1] \in C)
  BY <1>2, <1>3, Zenon
<1> QED BY <1>2, <1>4, Zenon

-----------------------------------------------------------------------------
\* The parts of a result.
LEMMA ResultParts ==
  ASSUME NEW r, NEW a, NEW b
  PROVE  Result(r, <<a, b>>).ret = r /\ Result(r, <<a, b>>).reads[1] = a /\ Result(r, <<a, b>>).reads[2] = b
BY DEF Result

\* The least of two numbers.
LEMMA LeastOfTwo ==
  ASSUME NEW a \in Nat, NEW b \in Nat
  PROVE  /\ Min({a, b}) \in Nat /\ Min({a, b}) <= a /\ Min({a, b}) <= b
         /\ Min({a, b}) = a \/ Min({a, b}) = b
<1>1. CASE a <= b
  <2>1. Min({a, b}) = a
    BY <1>1, MinIs
  <2> QED BY <1>1, <2>1
<1>2. CASE b <= a
  <2>1. Min({a, b}) = b
    BY <1>2, MinIs
  <2> QED BY <1>2, <2>1
<1> QED BY <1>1, <1>2

\* The least of three numbers.
LEMMA LeastOfThree ==
  ASSUME NEW a \in Nat, NEW b \in Nat, NEW c \in Nat
  PROVE  /\ Min({a, b, c}) \in Nat
         /\ Min({a, b, c}) <= a /\ Min({a, b, c}) <= b /\ Min({a, b, c}) <= c
<1>1. CASE a <= b /\ a <= c
  <2>1. Min({a, b, c}) = a
    BY <1>1, MinIs
  <2> QED BY <1>1, <2>1
<1>2. CASE b <= a /\ b <= c
  <2>1. Min({a, b, c}) = b
    BY <1>2, MinIs
  <2> QED BY <1>2, <2>1
<1>3. CASE c <= a /\ c <= b
  <2>1. Min({a, b, c}) = c
    BY <1>3, MinIs
  <2> QED BY <1>3, <2>1
<1> QED BY <1>1, <1>2, <1>3

\* Where a character occurs, counted from 0.
LEMMA OccurrencesAre ==
  ASSUME NEW s \in Strings, NEW c
  PROVE  /\ Occurrences(s, c) \subseteq Nat
         /\ \A k : k \in Occurrences(s, c) <=> k \in 0..(Len(s) - 1) /\ s[k + 1] = c
<1>1. Len(s) \in Nat
  BY StringFacts, Zenon
<1>2. \A k \in Occurrences(s, c) : k \in 0..(Len(s) - 1) /\ s[k + 1] = c
  <2> SUFFICES ASSUME NEW k \in Occurrences(s, c) PROVE k \in 0..(Len(s) - 1) /\ s[k + 1] = c
    OBVIOUS
  <2>1. PICK i \in 1..Len(s) : s[i] = c /\ k = i - 1
    BY Zenon DEF Occurrences
  <2>2. k \in 0..(Len(s) - 1) /\ k + 1 = i
    BY <1>1, <2>1
  <2> QED BY <2>1, <2>2, Zenon
<1>3. ASSUME NEW k \in 0..(Len(s) - 1), s[k + 1] = c
      PROVE  k \in Occurrences(s, c)
  <2>1. PICK i : i = k + 1
    BY ONLY Zenon
  <2>2. i \in 1..Len(s) /\ i - 1 = k
    BY <1>1, <2>1
  <2>3. i \in {x \in 1..Len(s) : s[x] = c}
    BY <1>3, <2>1, <2>2, Zenon
  <2> QED BY <2>2, <2>3, Zenon DEF Occurrences
<1>4. \A k \in 0..(Len(s) - 1) : k \in Nat
  BY <1>1
<1> QED BY <1>2, <1>3, <1>4, Zenon

\* The first element of a set, if there is one.
LEMMA FirstOrIs ==
  ASSUME NEW S \in SUBSET Int, NEW m \in S, \A y \in S : m <= y, NEW x
  PROVE  FirstOr(S, x) = m
<1>1. S # {} /\ Min(S) = m
  BY MinIs, Zenon
<1> QED BY <1>1, Zenon DEF FirstOr

LEMMA FirstOrNone ==
  ASSUME NEW S, S = {}, NEW x
  PROVE  FirstOr(S, x) = x
BY Zenon DEF FirstOr

-----------------------------------------------------------------------------
\* What memcheck_strlen() returns and reads.
LEMMA StrlenExact ==
  ASSUME NEW s \in Strings
  PROVE  /\ Strlen(s).ret = Len(s) - 1
         /\ Strlen(s).reads[1] <= Len(s) /\ Strlen(s).reads[2] = 0
<1>0. \E i \in 0..Len(s) : (i = Len(s) \/ s[i + 1] = 0) /\ \A j \in 0..(i - 1) : ~(s[j + 1] = 0)
  BY EndLoop, Zenon
<1>1. PICK i : i = FirstThat(Len(s), LAMBDA k : s[k + 1] = 0)
  BY ONLY Zenon
<1>2. i \in 0..Len(s) /\ (i = Len(s) \/ s[i + 1] = 0) /\ \A j \in 0..(i - 1) : ~(s[j + 1] = 0)
  BY ONLY <1>0, <1>1, Zenon DEF FirstThat
<1>a. PICK e \in Nat : /\ Len(s) = e + 1 /\ s[e + 1] = 0
                       /\ \A k \in 0..(e - 1) : s[k + 1] \in Nat /\ s[k + 1] # 0
  BY StringEnd, Zenon
<1>3. i = Len(s) - 1
  <2>1. ~(e < i) /\ ~(i < e)
    BY <1>2, <1>a
  <2> QED BY <1>2, <1>a, <2>1
<1>4. Strlen(s) = Result(i, <<i + 1, 0>>)
  BY ONLY <1>1, Zenon DEF Strlen
<1> QED BY <1>3, <1>4, ResultParts, StringFacts

\* What memcheck_strnlen() returns and reads.
LEMMA StrnlenExact ==
  ASSUME NEW s \in Strings, NEW n \in Nat
  PROVE  /\ Strnlen(s, n).ret = Min({n, Len(s) - 1})
         /\ Strnlen(s, n).reads[1] <= Len(s) /\ Strnlen(s, n).reads[1] <= n
         /\ Strnlen(s, n).reads[2] = 0
<1>0. \E i \in 0..n : (i = n \/ s[i + 1] = 0) /\ \A j \in 0..(i - 1) : ~(s[j + 1] = 0)
  BY StrnlenLoop, Zenon
<1>1. PICK i : i = FirstThat(n, LAMBDA k : s[k + 1] = 0)
  BY ONLY Zenon
<1>2. i \in 0..n /\ (i = n \/ s[i + 1] = 0) /\ \A j \in 0..(i - 1) : ~(s[j + 1] = 0)
  BY ONLY <1>0, <1>1, Zenon DEF FirstThat
<1>a. PICK e \in Nat : /\ Len(s) = e + 1 /\ s[e + 1] = 0
                       /\ \A k \in 0..(e - 1) : s[k + 1] \in Nat /\ s[k + 1] # 0
  BY StringEnd, Zenon
<1>3. i <= e /\ (i = n \/ i = e)
  <2>1. ~(e < i)
    BY <1>2, <1>a
  <2>2. ~(i < e /\ i # n)
    BY <1>2, <1>a
  <2> QED BY <1>2, <2>1, <2>2
<1>4. Strnlen(s, n) = Result(i, <<IF i = n THEN n ELSE i + 1, 0>>)
  BY ONLY <1>1, Zenon DEF Strnlen
<1>5. Len(s) - 1 = e
  BY <1>a
<1>6. Min({n, e}) = i
  BY <1>2, <1>3, LeastOfTwo
<1> QED BY <1>2, <1>3, <1>4, <1>5, <1>6, <1>a, ResultParts

\* What memcheck_index() returns and reads.
LEMMA IndexExact ==
  ASSUME NEW s \in Strings, NEW c \in Nat
  PROVE  /\ IndexOf(s, c).ret = FirstOr(Occurrences(s, c), NoPtr)
         /\ IndexOf(s, c).reads[1] <= Len(s) /\ IndexOf(s, c).reads[2] = 0
<1>0. \E i \in 0..Len(s) : /\ (i = Len(s) \/ s[i + 1] = 0 \/ s[i + 1] = c)
                           /\ \A j \in 0..(i - 1) : ~(s[j + 1] = 0 \/ s[j + 1] = c)
  BY IndexLoop, Zenon
<1>1. PICK i : i = FirstThat(Len(s), LAMBDA k : s[k + 1] = 0 \/ s[k + 1] = c)
  BY ONLY Zenon
<1>2. /\ i \in 0..Len(s) /\ (i = Len(s) \/ s[i + 1] = 0 \/ s[i + 1] = c)
      /\ \A j \in 0..(i - 1) : ~(s[j + 1] = 0 \/ s[j + 1] = c)
  BY ONLY <1>0, <1>1, Zenon DEF FirstThat
<1>3. i \in 0..(Len(s) - 1) /\ (s[i + 1] = 0 => i = Len(s) - 1)
  BY <1>2, StringFacts
<1>4. IndexOf(s, c) = Result(IF s[i + 1] # 0 \/ c = 0 THEN i ELSE NoPtr, <<i + 1, 0>>)
  BY ONLY <1>1, Zenon DEF IndexOf
<1>5. CASE s[i + 1] # 0 \/ c = 0
  <2>1. s[i + 1] = c
    BY <1>2, <1>3, <1>5, StringFacts
  <2>2. i \in Occurrences(s, c)
    BY <1>3, <2>1, OccurrencesAre, Zenon
  <2>3. \A k \in Occurrences(s, c) : i <= k
    BY <1>2, <1>3, OccurrencesAre
  <2>4. FirstOr(Occurrences(s, c), NoPtr) = i
    BY <2>2, <2>3, OccurrencesAre, FirstOrIs
  <2> QED BY <1>3, <1>4, <1>5, <2>4, ResultParts, StringFacts
<1>6. CASE s[i + 1] = 0 /\ c # 0
  <2>1. ASSUME NEW k \in Occurrences(s, c) PROVE FALSE
    <3>1. k \in 0..(Len(s) - 1) /\ s[k + 1] = c
      BY OccurrencesAre, Zenon
    <3> QED BY <1>2, <1>3, <1>6, <3>1, StringFacts
  <2>2. FirstOr(Occurrences(s, c), NoPtr) = NoPtr
    BY <2>1, FirstOrNone
  <2> QED BY <1>3, <1>4, <1>6, <2>2, ResultParts, StringFacts
<1> QED BY <1>5, <1>6, Zenon

\* What memcheck_strchrnul() returns and reads.
LEMMA StrchrnulExact ==
  ASSUME NEW s \in Strings, NEW c \in Nat
  PROVE  /\ Strchrnul(s, c).ret = FirstOr(Occurrences(s, c), Len(s) - 1)
         /\ Strchrnul(s, c).reads[1] <= Len(s) /\ Strchrnul(s, c).reads[2] = 0
<1>0. \E i \in 0..Len(s) : /\ (i = Len(s) \/ s[i + 1] = c \/ s[i + 1] = 0)
                           /\ \A j \in 0..(i - 1) : ~(s[j + 1] = c \/ s[j + 1] = 0)
  BY ChrnulLoop, Zenon
<1>1. PICK i : i = FirstThat(Len(s), LAMBDA k : s[k + 1] = c \/ s[k + 1] = 0)
  BY ONLY Zenon
<1>2. /\ i \in 0..Len(s) /\ (i = Len(s) \/ s[i + 1] = c \/ s[i + 1] = 0)
      /\ \A j \in 0..(i - 1) : ~(s[j + 1] = c \/ s[j + 1] = 0)
  BY ONLY <1>0, <1>1, Zenon DEF FirstThat
<1>3. i \in 0..(Len(s) - 1) /\ (s[i + 1] = 0 => i = Len(s) - 1)
  BY <1>2, StringFacts
<1>4. Strchrnul(s, c) = Result(i, <<i + 1, 0>>)
  BY ONLY <1>1, Zenon DEF Strchrnul
<1>5. CASE s[i + 1] = c
  <2>2. i \in Occurrences(s, c)
    BY <1>3, <1>5, OccurrencesAre, Zenon
  <2>3. \A k \in Occurrences(s, c) : i <= k
    BY <1>2, <1>3, OccurrencesAre
  <2>4. FirstOr(Occurrences(s, c), Len(s) - 1) = i
    BY <2>2, <2>3, OccurrencesAre, FirstOrIs
  <2> QED BY <1>3, <1>4, <2>4, ResultParts, StringFacts
<1>6. CASE s[i + 1] # c
  <2>1. ASSUME NEW k \in Occurrences(s, c) PROVE FALSE
    <3>1. k \in 0..(Len(s) - 1) /\ s[k + 1] = c
      BY OccurrencesAre, Zenon
    <3> QED BY <1>2, <1>3, <1>6, <3>1, StringFacts
  <2>2. FirstOr(Occurrences(s, c), Len(s) - 1) = Len(s) - 1
    BY <2>1, FirstOrNone
  <2> QED BY <1>2, <1>3, <1>4, <1>6, <2>2, ResultParts, StringFacts
<1> QED BY <1>5, <1>6, Zenon

\* What memcheck_memchr() returns and reads, in the first m characters.
LEMMA MemchrExact ==
  ASSUME NEW s \in Strings, NEW c \in Nat, NEW m \in Nat, m <= Len(s)
  PROVE  /\ Memchr(s, c, m).ret = FirstOr({k \in Occurrences(s, c) : k < m}, NoPtr)
         /\ Memchr(s, c, m).reads[1] \in Nat /\ Memchr(s, c, m).reads[1] <= m /\ Memchr(s, c, m).reads[2] = 0
<1> DEFINE Occ == {k \in Occurrences(s, c) : k < m}
<1>0. \E i \in 0..m : (i = m \/ s[i + 1] = c) /\ \A j \in 0..(i - 1) : ~(s[j + 1] = c)
  BY MemchrLoop, Zenon
<1>1. PICK i : i = FirstThat(m, LAMBDA k : s[k + 1] = c)
  BY ONLY Zenon
<1>2. i \in 0..m /\ (i = m \/ s[i + 1] = c) /\ \A j \in 0..(i - 1) : ~(s[j + 1] = c)
  BY ONLY <1>0, <1>1, Zenon DEF FirstThat
<1>3. Memchr(s, c, m) = IF i = m THEN Result(NoPtr, <<m, 0>>) ELSE Result(i, <<i + 1, 0>>)
  BY ONLY <1>1, Zenon DEF Memchr
<1>4. Occ \subseteq Int /\ \A k \in Occ : k \in 0..(m - 1) /\ s[k + 1] = c
  BY OccurrencesAre
<1>5. \A k \in Occ : i <= k
  BY <1>2, <1>4
<1>6. CASE i = m
  <2>1. Occ = {}
    BY <1>4, <1>5, <1>6
  <2>2. FirstOr(Occ, NoPtr) = NoPtr
    BY <2>1, FirstOrNone, Zenon
  <2> QED BY <1>3, <1>6, <2>2, ResultParts
<1>7. CASE i # m
  <2>1. i \in 0..(Len(s) - 1) /\ s[i + 1] = c /\ i < m
    BY <1>2, <1>7, StringFacts
  <2>2. i \in Occ
    BY <2>1, OccurrencesAre, Zenon
  <2>3. FirstOr(Occ, NoPtr) = i
    BY <1>4, <1>5, <2>2, FirstOrIs, Zenon
  <2> QED BY <1>3, <1>7, <2>1, <2>3, ResultParts
<1> QED BY <1>6, <1>7, Zenon

\* The loop that looks for the terminator ends at it.
LEMMA EndOf ==
  ASSUME NEW s \in Strings
  PROVE  FirstThat(Len(s), LAMBDA k : s[k + 1] = 0) = Len(s) - 1
<1>1. Strlen(s).ret = FirstThat(Len(s), LAMBDA k : s[k + 1] = 0)
  BY Zenon DEF Strlen, Result
<1> QED BY <1>1, StrlenExact, Zenon

\* What memcheck_rindex() returns and reads.
LEMMA RindexExact ==
  ASSUME NEW s \in Strings, NEW c \in Nat
  PROVE  /\ Rindex(s, c).ret = Max(Occurrences(s, c) \union {NoPtr})
         /\ Rindex(s, c).reads[1] <= Len(s) /\ Rindex(s, c).reads[2] = 0
<1>a. PICK e \in Nat : /\ Len(s) = e + 1 /\ s[e + 1] = 0
                       /\ \A k \in 0..(e - 1) : s[k + 1] \in Nat /\ s[k + 1] # 0
  BY StringEnd, Zenon
<1>1. FirstThat(Len(s), LAMBDA k : s[k + 1] = 0) = e
  <2>1. Len(s) - 1 = e
    BY <1>a
  <2> QED BY <2>1, EndOf, Zenon
<1>2. Rindex(s, c) = Result(IF c = 0 THEN e ELSE Max({NoPtr} \union {k \in 0..(e - 1) : s[k + 1] = c}),
                            <<e + 1, 0>>)
  BY ONLY <1>1, Zenon DEF Rindex
<1>3. CASE c = 0
  <2>1. \A k \in Occurrences(s, c) \union {NoPtr} : k \in Int /\ k <= e
    BY <1>a, OccurrencesAre DEF NoPtr
  <2>2. e \in Occurrences(s, c)
    <3>1. e \in 0..(Len(s) - 1)
      BY <1>a
    <3> QED BY <1>3, <1>a, <3>1, OccurrencesAre, Zenon
  <2>3. Max(Occurrences(s, c) \union {NoPtr}) = e
    BY <2>1, <2>2, MaxIs
  <2> QED BY <1>2, <1>3, <1>a, <2>3, ResultParts
<1>4. CASE c # 0
  <2>1. \A k : k \in Occurrences(s, c) <=> k \in 0..e /\ s[k + 1] = c
    <3>1. Len(s) - 1 = e
      BY <1>a
    <3> QED BY <3>1, OccurrencesAre, Zenon
  <2>2. \A k : k \in 0..e /\ s[k + 1] = c <=> k \in 0..(e - 1) /\ s[k + 1] = c
    BY <1>4, <1>a
  <2>3. Occurrences(s, c) \union {NoPtr} = {NoPtr} \union {k \in 0..(e - 1) : s[k + 1] = c}
    BY <2>1, <2>2, Zenon
  <2>4. Rindex(s, c) = Result(Max(Occurrences(s, c) \union {NoPtr}), <<e + 1, 0>>)
    BY <1>2, <1>4, <2>3, Zenon
  <2>5. e + 1 <= Len(s)
    BY <1>a
  <2> QED BY ONLY <2>4, <2>5 DEF Result
<1> QED BY <1>3, <1>4, Zenon

\* What memcheck_bcmp() returns and reads, in the first m characters.
LEMMA BcmpExact ==
  ASSUME NEW s1 \in Strings, NEW s2 \in Strings, NEW m \in Nat
  PROVE  /\ Bcmp(s1, s2, m).ret = 0 <=> \A k \in 1..m : s1[k] = s2[k]
         /\ Bcmp(s1, s2, m).reads[1] \in Nat /\ Bcmp(s1, s2, m).reads[1] <= m
         /\ Bcmp(s1, s2, m).reads[2] \in Nat /\ Bcmp(s1, s2, m).reads[2] <= m
<1>0. \E i \in 0..m : (i = m \/ s1[i + 1] # s2[i + 1]) /\ \A j \in 0..(i - 1) : ~(s1[j + 1] # s2[j + 1])
  BY BcmpLoop, Zenon
<1>1. PICK i : i = FirstThat(m, LAMBDA k : s1[k + 1] # s2[k + 1])
  BY ONLY Zenon
<1>2. i \in 0..m /\ (i = m \/ s1[i + 1] # s2[i + 1]) /\ \A j \in 0..(i - 1) : ~(s1[j + 1] # s2[j + 1])
  BY ONLY <1>0, <1>1, Zenon DEF FirstThat
<1>3. Bcmp(s1, s2, m) = IF i = m THEN Result(0, <<m, m>>) ELSE Result(-1, <<i + 1, i + 1>>)
  BY ONLY <1>1, Zenon DEF Bcmp
<1>4. CASE i = m
  <2>1. \A k \in 1..m : s1[k] = s2[k]
    <3> SUFFICES ASSUME NEW k \in 1..m PROVE s1[k] = s2[k]
      BY Zenon
    <3>1. PICK j \in 0..(i - 1) : j + 1 = k
      BY <1>4
    <3> QED BY <1>2, <3>1, Zenon
  <2> QED BY <1>3, <1>4, <2>1, ResultParts
<1>5. CASE i # m
  <2>1. s1[i + 1] # s2[i + 1] /\ i + 1 \in 1..m
    BY <1>2, <1>5
  <2>2. ~(\A k \in 1..m : s1[k] = s2[k])
    BY <2>1, Zenon
  <2> QED BY <1>2, <1>3, <1>5, <2>1, <2>2, ResultParts
<1> QED BY <1>4, <1>5, Zenon

\* The characters of a string do not include its terminator.
LEMMA CharsAre ==
  ASSUME NEW s \in Strings
  PROVE  0 \notin Chars(s)
BY StringFacts, Zenon DEF Chars

\* What memcheck_strspn() returns and reads.
LEMMA StrspnExact ==
  ASSUME NEW s \in Strings, NEW s2 \in Strings
  PROVE  /\ \A k \in 1..Strspn(s, s2).ret : s[k] \in Chars(s2)
         /\ s[Strspn(s, s2).ret + 1] \notin Chars(s2)
         /\ Strspn(s, s2).reads[1] <= Len(s) /\ Strspn(s, s2).reads[2] <= Len(s2)
<1>a. PICK e \in Nat : /\ Len(s) = e + 1 /\ s[e + 1] = 0
                       /\ \A k \in 0..(e - 1) : s[k + 1] \in Nat /\ s[k + 1] # 0
  BY StringEnd, Zenon
<1>0. \E i \in 0..Len(s) : /\ i = Len(s) \/ s[i + 1] = 0 \/ s[i + 1] \notin Chars(s2)
                           /\ \A j \in 0..(i - 1) : ~(s[j + 1] = 0 \/ s[j + 1] \notin Chars(s2))
  BY StrspnLoop, Zenon
<1>1. PICK i : i = FirstThat(Len(s), LAMBDA k : s[k + 1] = 0 \/ s[k + 1] \notin Chars(s2))
  BY ONLY Zenon
<1>2. /\ i \in 0..Len(s) /\ (i = Len(s) \/ s[i + 1] = 0 \/ s[i + 1] \notin Chars(s2))
      /\ \A j \in 0..(i - 1) : ~(s[j + 1] = 0 \/ s[j + 1] \notin Chars(s2))
  BY ONLY <1>0, <1>1, Zenon DEF FirstThat
<1>3. i \in 0..e
  <2>1. ~(e < i)
    BY <1>2, <1>a
  <2> QED BY <1>2, <1>a, <2>1
<1>4. s[i + 1] \notin Chars(s2)
  <2>1. i # Len(s)
    BY <1>3, <1>a
  <2> QED BY <1>2, <2>1, CharsAre, Zenon
<1>5. \A k \in 1..i : s[k] \in Chars(s2)
  <2> SUFFICES ASSUME NEW k \in 1..i PROVE s[k] \in Chars(s2)
    BY Zenon
  <2>1. PICK j \in 0..(i - 1) : j + 1 = k
    BY <1>3
  <2> QED BY <1>2, <2>1, Zenon
<1>6. Strspn(s, s2) = Result(i, <<i + 1, Len(s2)>>)
  BY ONLY <1>1, Zenon DEF Strspn
<1>7. i + 1 <= Len(s) /\ Len(s2) <= Len(s2)
  BY <1>3, <1>a, StringFacts
<1>8. Strspn(s, s2).ret = i /\ Strspn(s, s2).reads[1] = i + 1 /\ Strspn(s, s2).reads[2] = Len(s2)
  BY ONLY <1>6 DEF Result
<1> QED BY ONLY <1>4, <1>5, <1>7, <1>8, Zenon

\* What memcheck_strcspn() returns and reads.
LEMMA StrcspnExact ==
  ASSUME NEW s \in Strings, NEW s2 \in Strings
  PROVE  /\ \A k \in 1..Strcspn(s, s2).ret : s[k] \notin Chars(s2)
         /\ s[Strcspn(s, s2).ret + 1] \in Chars(s2) \union {0}
         /\ Strcspn(s, s2).reads[1] <= Len(s) /\ Strcspn(s, s2).reads[2] <= Len(s2)
<1>a. PICK e \in Nat : /\ Len(s) = e + 1 /\ s[e + 1] = 0
                       /\ \A k \in 0..(e - 1) : s[k + 1] \in Nat /\ s[k + 1] # 0
  BY StringEnd, Zenon
<1>0. \E i \in 0..Len(s) : /\ i = Len(s) \/ s[i + 1] = 0 \/ s[i + 1] \in Chars(s2)
                           /\ \A j \in 0..(i - 1) : ~(s[j + 1] = 0 \/ s[j + 1] \in Chars(s2))
  BY StrcspnLoop, Zenon
<1>1. PICK i : i = FirstThat(Len(s), LAMBDA k : s[k + 1] = 0 \/ s[k + 1] \in Chars(s2))
  BY ONLY Zenon
<1>2. /\ i \in 0..Len(s) /\ (i = Len(s) \/ s[i + 1] = 0 \/ s[i + 1] \in Chars(s2))
      /\ \A j \in 0..(i - 1) : ~(s[j + 1] = 0 \/ s[j + 1] \in Chars(s2))
  BY ONLY <1>0, <1>1, Zenon DEF FirstThat
<1>3. i \in 0..e
  <2>1. ~(e < i)
    BY <1>2, <1>a
  <2> QED BY <1>2, <1>a, <2>1
<1>4. s[i + 1] \in Chars(s2) \union {0}
  <2>1. i # Len(s)
    BY <1>3, <1>a
  <2> QED BY <1>2, <2>1, Zenon
<1>5. \A k \in 1..i : s[k] \notin Chars(s2)
  <2> SUFFICES ASSUME NEW k \in 1..i PROVE s[k] \notin Chars(s2)
    BY Zenon
  <2>1. PICK j \in 0..(i - 1) : j + 1 = k
    BY <1>3
  <2> QED BY <1>2, <2>1, Zenon
<1>6. Strcspn(s, s2) = Result(i, <<i + 1, Len(s2)>>)
  BY ONLY <1>1, Zenon DEF Strcspn
<1>7. i + 1 <= Len(s) /\ Len(s2) <= Len(s2)
  BY <1>3, <1>a, StringFacts
<1>8. Strcspn(s, s2).ret = i /\ Strcspn(s, s2).reads[1] = i + 1 /\ Strcspn(s, s2).reads[2] = Len(s2)
  BY ONLY <1>6 DEF Result
<1> QED BY ONLY <1>4, <1>5, <1>7, <1>8, Zenon

\* A sequence is the first Len(s) elements of itself.
LEMMA WholeSeq ==
  ASSUME NEW s \in Seq(Nat)
  PROVE  SubSeq(s, 1, Len(s)) = s
OBVIOUS

\* What memcheck_strcpy() and memcheck_stpcpy() write, return and read.
LEMMA StrcpyExact ==
  ASSUME NEW s \in Strings
  PROVE  /\ Strcpy(s).ret = [wrote |-> s, at |-> 0] /\ Stpcpy(s).ret = [wrote |-> s, at |-> Len(s) - 1]
         /\ Strcpy(s).reads[1] <= Len(s) /\ Strcpy(s).reads[2] = 0
         /\ Stpcpy(s).reads[1] <= Len(s) /\ Stpcpy(s).reads[2] = 0
<1>1. FirstThat(Len(s), LAMBDA k : s[k + 1] = 0) = Len(s) - 1
  BY EndOf, Zenon
<1>2. Len(s) \in Nat /\ (Len(s) - 1) + 1 = Len(s) /\ s \in Seq(Nat)
  BY StringFacts
<1>3. SubSeq(s, 1, (Len(s) - 1) + 1) = s
  BY <1>2, WholeSeq
<1>4. Strcpy(s) = Result([wrote |-> s, at |-> 0], <<Len(s), 0>>)
  BY ONLY <1>1, <1>3, Zenon DEF Strcpy
<1>5. Stpcpy(s) = Result([wrote |-> s, at |-> Len(s) - 1], <<(Len(s) - 1) + 1, 0>>)
  BY ONLY <1>1, <1>3, Zenon DEF Stpcpy
<1>6. Len(s) <= Len(s)
  BY <1>2
<1>7. Strcpy(s).ret = [wrote |-> s, at |-> 0] /\ Strcpy(s).reads[1] = Len(s) /\ Strcpy(s).reads[2] = 0
  BY ONLY <1>4 DEF Result
<1>8. /\ Stpcpy(s).ret = [wrote |-> s, at |-> Len(s) - 1]
      /\ Stpcpy(s).reads[1] = (Len(s) - 1) + 1 /\ Stpcpy(s).reads[2] = 0
  BY ONLY <1>5 DEF Result
<1> QED BY ONLY <1>2, <1>6, <1>7, <1>8, Zenon

-----------------------------------------------------------------------------
\* Two sequences compare as their first different elements do.
LEMMA LexDiffer ==
  ASSUME NEW a \in Seq(Nat), NEW b \in Seq(Nat), NEW m \in Nat, 1 <= m, m <= Len(a), m <= Len(b),
         a[m] # b[m], \A k \in 1..(m - 1) : a[k] = b[k]
  PROVE  LexSign(a, b) = Sign(a[m], b[m])
<1> DEFINE diff == {k \in 1..Min({Len(a), Len(b)}) : a[k] # b[k]}
<1>1. Len(a) \in Nat /\ Len(b) \in Nat
  OBVIOUS
<1>a. PICK l \in Nat : l = Min({Len(a), Len(b)}) /\ (l = Len(a) \/ l = Len(b))
  BY <1>1, LeastOfTwo, Zenon
<1>2. l = Min({Len(a), Len(b)}) /\ m <= l
  BY ONLY <1>a, m <= Len(a), m <= Len(b)
<1>b. m \in 1..l /\ \A k \in 1..l : k \in Int /\ (k \in 1..(m - 1) \/ m <= k)
  BY ONLY <1>2, l \in Nat, m \in Nat, 1 <= m
<1>3. \A k \in diff : k \in Int /\ m <= k
  BY <1>2, <1>b, Zenon
<1>4. m \in diff
  BY <1>2, <1>b, Zenon
<1>5. Min(diff) = m
  BY <1>3, <1>4, MinIs, Zenon
<1>6. diff # {}
  BY <1>4, Zenon
<1> QED BY ONLY <1>5, <1>6, Zenon DEF LexSign

\* A sequence and one that it starts with compare as their lengths do.
LEMMA LexPrefix ==
  ASSUME NEW a \in Seq(Nat), NEW b \in Seq(Nat),
         \A k \in Nat : 1 <= k /\ k <= Len(a) /\ k <= Len(b) => a[k] = b[k]
  PROVE  LexSign(a, b) = Sign(Len(a), Len(b))
<1>1. Len(a) \in Nat /\ Len(b) \in Nat
  OBVIOUS
<1>2. PICK l \in Nat : l = Min({Len(a), Len(b)}) /\ l <= Len(a) /\ l <= Len(b)
  BY <1>1, LeastOfTwo, Zenon
<1>a. \A k \in 1..l : k \in Nat /\ 1 <= k /\ k <= Len(a) /\ k <= Len(b)
  BY ONLY <1>1, <1>2
<1>3. {k \in 1..l : a[k] # b[k]} = {}
  BY <1>a, Zenon
<1> QED BY ONLY <1>2, <1>3, Zenon DEF LexSign

\* The first l characters of a string.
LEMMA PrefixParts ==
  ASSUME NEW s \in Seq(Nat), NEW l \in Nat, l <= Len(s)
  PROVE  /\ SubSeq(s, 1, l) \in Seq(Nat) /\ Len(SubSeq(s, 1, l)) = l
         /\ \A k \in 1..l : SubSeq(s, 1, l)[k] = s[k]
OBVIOUS

\* Where the comparison of sequences of lengths l and m stops, at i: two
\* characters differ, or one sequence ends, or both do.
Decided(i, l, m, x, y) ==
  \/ i < l /\ i < m /\ x # y
  \/ i = l /\ i < m /\ x = 0 /\ y # 0
  \/ i < l /\ i = m /\ x # 0 /\ y = 0
  \/ l = m /\ l <= i + 1 /\ x = y

\* The sequence a starts the string s; two strings agree before i.
Starts(a, s) == \A k \in 1..Len(a) : a[k] = s[k]
AgreeBefore(s1, s2, i) == \A j \in 0..(i - 1) : s1[j + 1] = s2[j + 1]

\* The comparison of the sequences a and b, which start s1 and s2, ends at i.
Compared(s1, s2, a, b, i) ==
  /\ a \in Seq(Nat) /\ Starts(a, s1) /\ i + 1 \in 1..Len(s1)
  /\ b \in Seq(Nat) /\ Starts(b, s2) /\ i + 1 \in 1..Len(s2)
  /\ AgreeBefore(s1, s2, i)
  /\ Decided(i, Len(a), Len(b), s1[i + 1], s2[i + 1])

\* Where it ends decides the order of a and b.
LEMMA ComparePrefixes ==
  ASSUME NEW s1 \in Strings, NEW s2 \in Strings, NEW a, NEW b, NEW i \in Nat,
         Compared(s1, s2, a, b, i)
  PROVE  LexSign(a, b) = Sign(s1[i + 1], s2[i + 1])
<1>0. /\ a \in Seq(Nat) /\ Starts(a, s1) /\ i + 1 \in 1..Len(s1)
      /\ b \in Seq(Nat) /\ Starts(b, s2) /\ i + 1 \in 1..Len(s2)
      /\ AgreeBefore(s1, s2, i)
      /\ Decided(i, Len(a), Len(b), s1[i + 1], s2[i + 1])
  BY Zenon DEF Compared
<1>1. i + 1 \in 1..Len(s1) /\ i + 1 \in 1..Len(s2) /\ Len(a) \in Nat /\ Len(b) \in Nat
  BY <1>0
<1>2. s1[i + 1] \in Nat /\ s2[i + 1] \in Nat
  BY <1>1, StringFacts, Zenon
<1>3. \A k \in 1..i : s1[k] = s2[k]
  <2> SUFFICES ASSUME NEW k \in 1..i PROVE s1[k] = s2[k]
    BY Zenon
  <2>1. PICK j \in 0..(i - 1) : j + 1 = k
    OBVIOUS
  <2> QED BY <2>1, <1>0, Zenon DEF AgreeBefore
<1>4. CASE i < Len(a) /\ i < Len(b) /\ s1[i + 1] # s2[i + 1]
  <2>a. i + 1 \in 1..Len(a) /\ i + 1 \in 1..Len(b)
    BY <1>1, <1>4
  <2>1. a[i + 1] = s1[i + 1] /\ b[i + 1] = s2[i + 1]
    BY <2>a, <1>0, Zenon DEF Starts
  <2>2. \A k \in 1..i : k \in 1..Len(a) /\ k \in 1..Len(b)
    BY <1>1, <1>4
  <2>3. \A k \in 1..i : a[k] = b[k]
    BY <1>3, <2>2, <1>0, Zenon DEF Starts
  <2>4. PICK m \in Nat : m = i + 1 /\ 1 <= m /\ m <= Len(a) /\ m <= Len(b) /\ m - 1 = i
    BY <1>1, <1>4
  <2>5. LexSign(a, b) = Sign(a[m], b[m])
    <3>1. a[m] # b[m] /\ \A k \in 1..(m - 1) : a[k] = b[k]
      BY <1>4, <2>1, <2>3, <2>4, Zenon
    <3> QED BY ONLY <1>0, <2>4, <3>1, m \in Nat, LexDiffer, Zenon
  <2> QED BY ONLY <2>1, <2>4, <2>5, Zenon
<1>5. CASE ~(i < Len(a) /\ i < Len(b) /\ s1[i + 1] # s2[i + 1])
  <2>a. PICK x \in Nat : x = s1[i + 1]
    BY <1>2, Zenon
  <2>b. PICK y \in Nat : y = s2[i + 1]
    BY <1>2, Zenon
  <2>c. PICK l \in Nat : l = Len(a)
    BY <1>1, Zenon
  <2>d. PICK m \in Nat : m = Len(b)
    BY <1>1, Zenon
  <2>e. \/ i = l /\ i < m /\ x = 0 /\ y # 0
        \/ i < l /\ i = m /\ x # 0 /\ y = 0
        \/ l = m /\ l <= i + 1 /\ x = y
    BY <1>5, <2>a, <2>b, <2>c, <2>d, <1>0, Zenon DEF Decided
  <2>1. \A k \in Nat : 1 <= k /\ k <= l /\ k <= m =>
          k \in 1..l /\ k \in 1..m /\ (k \in 1..i \/ (k = i + 1 /\ x = y))
    BY ONLY <2>e, i \in Nat, l \in Nat, m \in Nat
  <2>2. \A k \in Nat : 1 <= k /\ k <= Len(a) /\ k <= Len(b) => a[k] = b[k]
    BY <1>3, <2>1, <2>a, <2>b, <2>c, <2>d, <1>0, Zenon DEF Starts
  <2>3. LexSign(a, b) = Sign(Len(a), Len(b))
    BY <1>0, <2>2, LexPrefix, Zenon
  <2>4. \/ x = y /\ l = m
        \/ x = 0 /\ y # 0 /\ l < m
        \/ x # 0 /\ y = 0 /\ m < l
    BY ONLY <2>e, Zenon
  <2>5. Sign(x, y) = Sign(l, m)
    BY ONLY <2>4, x \in Nat, y \in Nat, l \in Nat, m \in Nat DEF Sign
  <2> QED BY <2>3, <2>5, <2>a, <2>b, <2>c, <2>d, Zenon
<1> QED BY <1>4, <1>5, Zenon

\* What memcheck_strcmp() returns and reads.
LEMMA StrcmpExact ==
  ASSUME NEW s1 \in Strings, NEW s2 \in Strings
  PROVE  /\ Strcmp(s1, s2).ret = LexSign(AllButLast(s1), AllButLast(s2))
         /\ Strcmp(s1, s2).reads[1] <= Len(s1) /\ Strcmp(s1, s2).reads[2] <= Len(s2)
<1>a. PICK e1 \in Nat : /\ Len(s1) = e1 + 1 /\ s1[e1 + 1] = 0
                        /\ \A k \in 0..(e1 - 1) : s1[k + 1] \in Nat /\ s1[k + 1] # 0
  BY StringEnd, Zenon
<1>b. PICK e2 \in Nat : /\ Len(s2) = e2 + 1 /\ s2[e2 + 1] = 0
                        /\ \A k \in 0..(e2 - 1) : s2[k + 1] \in Nat /\ s2[k + 1] # 0
  BY StringEnd, Zenon
<1>0. \E i \in 0..Len(s1) : /\ i = Len(s1) \/ ~(s1[i + 1] = s2[i + 1] /\ s1[i + 1] # 0)
                            /\ \A j \in 0..(i - 1) : ~(~(s1[j + 1] = s2[j + 1] /\ s1[j + 1] # 0))
  BY StrcmpLoop, Zenon
<1>1. PICK i : i = FirstThat(Len(s1), LAMBDA k : ~(s1[k + 1] = s2[k + 1] /\ s1[k + 1] # 0))
  BY ONLY Zenon
<1>2. /\ i \in 0..Len(s1) /\ (i = Len(s1) \/ ~(s1[i + 1] = s2[i + 1] /\ s1[i + 1] # 0))
      /\ \A j \in 0..(i - 1) : ~(~(s1[j + 1] = s2[j + 1] /\ s1[j + 1] # 0))
  BY ONLY <1>0, <1>1, Zenon DEF FirstThat
<1>3. i \in Nat /\ i <= e1 /\ i <= e2
  <2>1. ~(e1 < i)
    BY <1>2, <1>a
  <2>2. ~(e2 < i)
    BY <1>2, <1>b
  <2> QED BY <1>2, <2>1, <2>2
<1>4. PICK a : a = AllButLast(s1)
  BY ONLY Zenon
<1>5. PICK b : b = AllButLast(s2)
  BY ONLY Zenon
<1>6. a \in Seq(Nat) /\ Len(a) = e1 /\ Starts(a, s1)
  <2>1. Len(s1) - 1 = e1 /\ e1 <= Len(s1) /\ s1 \in Seq(Nat)
    BY <1>a, StringFacts
  <2> QED BY <1>4, <2>1, PrefixParts DEF AllButLast, Starts
<1>7. b \in Seq(Nat) /\ Len(b) = e2 /\ Starts(b, s2)
  <2>1. Len(s2) - 1 = e2 /\ e2 <= Len(s2) /\ s2 \in Seq(Nat)
    BY <1>b, StringFacts
  <2> QED BY <1>5, <2>1, PrefixParts DEF AllButLast, Starts
<1>8. Decided(i, e1, e2, s1[i + 1], s2[i + 1])
  <2>1. (i < e1 => s1[i + 1] # 0) /\ (i < e2 => s2[i + 1] # 0)
    BY <1>3, <1>a, <1>b
  <2>2. (i = e1 => s1[i + 1] = 0) /\ (i = e2 => s2[i + 1] = 0)
    BY <1>a, <1>b
  <2>3. ~(s1[i + 1] = s2[i + 1] /\ s1[i + 1] # 0)
    <3>1. i # Len(s1)
      BY <1>3, <1>a
    <3> QED BY <1>2, <3>1, Zenon
  <2> QED BY <1>3, <2>1, <2>2, <2>3 DEF Decided
<1>9. LexSign(a, b) = Sign(s1[i + 1], s2[i + 1])
  <2>1. AgreeBefore(s1, s2, i)
    BY <1>2, Zenon DEF AgreeBefore
  <2>2. i + 1 \in 1..Len(s1) /\ i + 1 \in 1..Len(s2)
    BY <1>3, <1>a, <1>b
  <2>3. Decided(i, Len(a), Len(b), s1[i + 1], s2[i + 1])
    BY <1>6, <1>7, <1>8, Zenon
  <2>4. Compared(s1, s2, a, b, i)
    BY ONLY <1>6, <1>7, <2>1, <2>2, <2>3, Zenon DEF Compared
  <2> QED BY ONLY <1>3, <2>4, ComparePrefixes, s1 \in Strings, s2 \in Strings
<1>10. Strcmp(s1, s2) = Result(Sign(s1[i + 1], s2[i + 1]), <<i + 1, i + 1>>)
  BY ONLY <1>1, Zenon DEF Strcmp
<1>11. i + 1 <= Len(s1) /\ i + 1 <= Len(s2)
  BY <1>3, <1>a, <1>b
<1>12. Strcmp(s1, s2).ret = Sign(s1[i + 1], s2[i + 1]) /\ Strcmp(s1, s2).reads[1] = i + 1 /\ Strcmp(s1, s2).reads[2] = i + 1
  BY ONLY <1>10 DEF Result
<1> QED BY ONLY <1>4, <1>5, <1>9, <1>11, <1>12, Zenon

\* The first n characters of a string, without its terminator.
LEMMA UpToParts ==
  ASSUME NEW s \in Strings, NEW n \in Nat, NEW e \in Nat, Len(s) = e + 1
  PROVE  /\ UpTo(s, n) \in Seq(Nat) /\ Starts(UpTo(s, n), s)
         /\ Len(UpTo(s, n)) \in Nat /\ Len(UpTo(s, n)) <= n /\ Len(UpTo(s, n)) <= e
         /\ Len(UpTo(s, n)) = n \/ Len(UpTo(s, n)) = e
<1>1. s \in Seq(Nat) /\ Len(s) - 1 = e /\ e <= Len(s)
  BY StringFacts
<1>2. PICK t : t = SubSeq(s, 1, e)
  BY ONLY Zenon
<1>3. t \in Seq(Nat) /\ Len(t) = e /\ \A k \in 1..e : t[k] = s[k]
  BY <1>1, <1>2, PrefixParts, Zenon
<1>4. PICK l \in Nat : l = Min({n, e}) /\ l <= n /\ l <= e /\ (l = n \/ l = e)
  BY LeastOfTwo, Zenon
<1>5. PICK u : u = SubSeq(t, 1, l)
  BY ONLY Zenon
<1>6. u \in Seq(Nat) /\ Len(u) = l /\ \A k \in 1..l : u[k] = t[k]
  BY <1>3, <1>4, <1>5, PrefixParts, Zenon
<1>7. UpTo(s, n) = u
  BY ONLY <1>1, <1>2, <1>4, <1>5, Zenon DEF UpTo, AllButLast
<1>8. \A k \in 1..l : k \in 1..e
  BY ONLY <1>4, l \in Nat, e \in Nat
<1>9. Starts(u, s)
  BY ONLY <1>3, <1>6, <1>8, Zenon DEF Starts
<1> QED BY ONLY <1>4, <1>6, <1>7, <1>9, Zenon

\* What memcheck_strncmp() returns and reads.
LEMMA StrncmpExact ==
  ASSUME NEW s1 \in Strings, NEW s2 \in Strings, NEW n \in Nat
  PROVE  /\ Strncmp(s1, s2, n).ret = LexSign(UpTo(s1, n), UpTo(s2, n))
         /\ Strncmp(s1, s2, n).reads[1] <= Len(s1) /\ Strncmp(s1, s2, n).reads[2] <= Len(s2)
         /\ Strncmp(s1, s2, n).reads[1] <= n /\ Strncmp(s1, s2, n).reads[2] <= n
<1>a. PICK e1 \in Nat : /\ Len(s1) = e1 + 1 /\ s1[e1 + 1] = 0
                        /\ \A k \in 0..(e1 - 1) : s1[k + 1] \in Nat /\ s1[k + 1] # 0
  BY StringEnd, Zenon
<1>b. PICK e2 \in Nat : /\ Len(s2) = e2 + 1 /\ s2[e2 + 1] = 0
                        /\ \A k \in 0..(e2 - 1) : s2[k + 1] \in Nat /\ s2[k + 1] # 0
  BY StringEnd, Zenon
<1>0. \E i \in 0..Len(s1) : /\ i = Len(s1) \/ ~(s1[i + 1] = s2[i + 1] /\ s1[i + 1] # 0 /\ i + 1 < n)
                            /\ \A j \in 0..(i - 1) : ~(~(s1[j + 1] = s2[j + 1] /\ s1[j + 1] # 0 /\ j + 1 < n))
  BY StrncmpLoop, Zenon
<1>1. PICK i : i = FirstThat(Len(s1), LAMBDA k : ~(s1[k + 1] = s2[k + 1] /\ s1[k + 1] # 0 /\ k + 1 < n))
  BY ONLY Zenon
<1>2. /\ i \in 0..Len(s1) /\ (i = Len(s1) \/ ~(s1[i + 1] = s2[i + 1] /\ s1[i + 1] # 0 /\ i + 1 < n))
      /\ \A j \in 0..(i - 1) : ~(~(s1[j + 1] = s2[j + 1] /\ s1[j + 1] # 0 /\ j + 1 < n))
  BY ONLY <1>0, <1>1, Zenon DEF FirstThat
<1>3. PICK a : a = UpTo(s1, n)
  BY ONLY Zenon
<1>4. PICK b : b = UpTo(s2, n)
  BY ONLY Zenon
<1>5. PICK l1 \in Nat : l1 = Len(a) /\ l1 <= n /\ l1 <= e1 /\ (l1 = n \/ l1 = e1)
  <2>1. /\ Len(UpTo(s1, n)) \in Nat /\ Len(UpTo(s1, n)) <= n /\ Len(UpTo(s1, n)) <= e1
        /\ Len(UpTo(s1, n)) = n \/ Len(UpTo(s1, n)) = e1
    BY ONLY <1>a, s1 \in Strings, n \in Nat, e1 \in Nat, UpToParts, Zenon
  <2> QED BY ONLY <1>3, <2>1, Zenon
<1>6. PICK l2 \in Nat : l2 = Len(b) /\ l2 <= n /\ l2 <= e2 /\ (l2 = n \/ l2 = e2)
  <2>1. /\ Len(UpTo(s2, n)) \in Nat /\ Len(UpTo(s2, n)) <= n /\ Len(UpTo(s2, n)) <= e2
        /\ Len(UpTo(s2, n)) = n \/ Len(UpTo(s2, n)) = e2
    BY ONLY <1>b, s2 \in Strings, n \in Nat, e2 \in Nat, UpToParts, Zenon
  <2> QED BY ONLY <1>4, <2>1, Zenon
<1>7. a \in Seq(Nat) /\ Starts(a, s1) /\ b \in Seq(Nat) /\ Starts(b, s2)
  BY <1>3, <1>4, <1>a, <1>b, UpToParts, Zenon
<1>8. Strncmp(s1, s2, n) = IF n = 0 THEN Result(0, <<0, 0>>)
                           ELSE Result(Sign(s1[i + 1], s2[i + 1]), <<i + 1, i + 1>>)
  BY ONLY <1>1, Zenon DEF Strncmp
<1>9. CASE n = 0
  <2>1. l1 = 0 /\ l2 = 0
    BY ONLY <1>5, <1>6, <1>9, l1 \in Nat, l2 \in Nat
  <2>2. \A k \in Nat : 1 <= k /\ k <= Len(a) /\ k <= Len(b) => a[k] = b[k]
    BY ONLY <1>5, <1>6, <2>1
  <2>3. LexSign(a, b) = Sign(Len(a), Len(b))
    BY <1>7, <2>2, LexPrefix, Zenon
  <2>4. Sign(0, 0) = 0
    BY ONLY TRUE DEF Sign
  <2>5. LexSign(a, b) = 0
    BY ONLY <1>5, <1>6, <2>1, <2>3, <2>4, Zenon
  <2>6. Strncmp(s1, s2, n) = Result(0, <<0, 0>>)
    BY ONLY <1>8, <1>9, Zenon
  <2>7. Strncmp(s1, s2, n).ret = 0 /\ Strncmp(s1, s2, n).reads[1] = 0 /\ Strncmp(s1, s2, n).reads[2] = 0
    BY ONLY <2>6 DEF Result
  <2>8. 0 <= Len(s1) /\ 0 <= Len(s2) /\ 0 <= n
    BY ONLY <1>a, <1>b, <1>9, e1 \in Nat, e2 \in Nat
  <2> QED BY ONLY <1>3, <1>4, <2>5, <2>7, <2>8, Zenon
<1>10. CASE n # 0
  <2>1. i \in Nat /\ i <= e1 /\ i <= e2 /\ i + 1 <= n
    <3>1. ~(e1 < i)
      BY <1>2, <1>a
    <3>2. ~(e2 < i)
      BY <1>2, <1>b
    <3>3. ~(n - 1 < i)
      BY <1>2, <1>10
    <3> QED BY <1>2, <3>1, <3>2, <3>3
  <2>2. (i < e1 => s1[i + 1] # 0) /\ (i < e2 => s2[i + 1] # 0)
    BY <2>1, <1>a, <1>b
  <2>3. (i = e1 => s1[i + 1] = 0) /\ (i = e2 => s2[i + 1] = 0)
    BY <1>a, <1>b
  <2>4. ~(s1[i + 1] = s2[i + 1] /\ s1[i + 1] # 0 /\ i + 1 < n)
    <3>1. i # Len(s1)
      BY <2>1, <1>a
    <3> QED BY <1>2, <3>1, Zenon
  <2>5. Decided(i, l1, l2, s1[i + 1], s2[i + 1])
    BY <1>5, <1>6, <2>1, <2>2, <2>3, <2>4 DEF Decided
  <2>6. AgreeBefore(s1, s2, i)
    BY <1>2, Zenon DEF AgreeBefore
  <2>7. i + 1 \in 1..Len(s1) /\ i + 1 \in 1..Len(s2)
    BY <2>1, <1>a, <1>b
  <2>8. Compared(s1, s2, a, b, i)
    BY ONLY <1>5, <1>6, <1>7, <2>5, <2>6, <2>7, Zenon DEF Compared
  <2>9. LexSign(a, b) = Sign(s1[i + 1], s2[i + 1])
    BY ONLY <2>1, <2>8, ComparePrefixes, s1 \in Strings, s2 \in Strings
  <2>10. Strncmp(s1, s2, n) = Result(Sign(s1[i + 1], s2[i + 1]), <<i + 1, i + 1>>)
    BY ONLY <1>8, <1>10, Zenon
  <2>11. /\ Strncmp(s1, s2, n).ret = Sign(s1[i + 1], s2[i + 1])
         /\ Strncmp(s1, s2, n).reads[1] = i + 1 /\ Strncmp(s1, s2, n).reads[2] = i + 1
    BY ONLY <2>10 DEF Result
  <2>12. i + 1 <= Len(s1) /\ i + 1 <= Len(s2)
    BY <2>7, <1>a, <1>b
  <2> QED BY ONLY <1>3, <1>4, <2>1, <2>9, <2>11, <2>12, Zenon
<1> QED BY <1>9, <1>10, Zenon

\* memcheck_memchr() with the bound n, in a string that is long enough or not.
LEMMA MemchrBounded ==
  ASSUME NEW s \in Strings, NEW c \in Nat, NEW n \in Nat
  PROVE  LET r == Memchr(s, c, Min({n, Len(s)}))
         IN /\ r.ret = FirstOr({k \in Occurrences(s, c) : k < n}, NoPtr)
            /\ r.reads[1] <= Len(s) /\ r.reads[1] <= n /\ r.reads[2] = 0
<1>1. Len(s) \in Nat
  BY StringFacts, Zenon
<1>2. PICK m \in Nat : m = Min({n, Len(s)}) /\ m <= n /\ m <= Len(s) /\ (m = n \/ m = Len(s))
  BY <1>1, LeastOfTwo, Zenon
<1>3. \A k \in Occurrences(s, c) : k < n <=> k < m
  BY <1>1, <1>2, OccurrencesAre
<1>4. {k \in Occurrences(s, c) : k < n} = {k \in Occurrences(s, c) : k < m}
  BY <1>3, Zenon
<1>5. PICK r : r = Memchr(s, c, m)
  BY ONLY Zenon
<1>6. PICK x \in Nat : x = r.reads[1] /\ x <= m
  BY <1>2, <1>5, MemchrExact, Zenon
<1>7. x <= n /\ x <= Len(s)
  BY ONLY <1>1, <1>2, <1>6, n \in Nat
<1>8. r.ret = FirstOr({k \in Occurrences(s, c) : k < m}, NoPtr) /\ r.reads[2] = 0
  BY <1>2, <1>5, MemchrExact, Zenon
<1> QED BY ONLY <1>2, <1>4, <1>5, <1>6, <1>7, <1>8, Zenon

\* memcheck_rawmemchr().
LEMMA RawmemchrExact ==
  ASSUME NEW s \in Strings, NEW c \in Nat
  PROVE  /\ Rawmemchr(s, c).ret = FirstOr(Occurrences(s, c), NoPtr)
         /\ Rawmemchr(s, c).reads[1] <= Len(s) /\ Rawmemchr(s, c).reads[2] = 0
<1>1. Len(s) \in Nat /\ Len(s) <= Len(s)
  BY StringFacts
<1>2. \A k \in Occurrences(s, c) : k < Len(s)
  BY <1>1, OccurrencesAre
<1>3. {k \in Occurrences(s, c) : k < Len(s)} = Occurrences(s, c)
  BY <1>2, Zenon
<1> QED BY <1>1, <1>3, MemchrExact, Zenon DEF Rawmemchr

\* memcheck_bcmp() with the bound n, in strings that are long enough or not.
LEMMA BcmpBounded ==
  ASSUME NEW s1 \in Strings, NEW s2 \in Strings, NEW n \in Nat
  PROVE  LET m == Min({n, Len(s1), Len(s2)})
             r == Bcmp(s1, s2, m)
         IN /\ r.ret = 0 <=> \A k \in 1..m : s1[k] = s2[k]
            /\ r.reads[1] <= Len(s1) /\ r.reads[2] <= Len(s2) /\ r.reads[1] <= n /\ r.reads[2] <= n
<1>1. Len(s1) \in Nat /\ Len(s2) \in Nat
  BY StringFacts, Zenon
<1>2. PICK m \in Nat : m = Min({n, Len(s1), Len(s2)}) /\ m <= n /\ m <= Len(s1) /\ m <= Len(s2)
  BY <1>1, LeastOfThree, Zenon
<1>3. PICK r : r = Bcmp(s1, s2, m)
  BY ONLY Zenon
<1>4. r.ret = 0 <=> \A k \in 1..m : s1[k] = s2[k]
  BY <1>3, BcmpExact, Zenon
<1>5. PICK x \in Nat : x = r.reads[1] /\ x <= m
  BY <1>3, BcmpExact, Zenon
<1>6. PICK y \in Nat : y = r.reads[2] /\ y <= m
  BY <1>3, BcmpExact, Zenon
<1>7. x <= n /\ x <= Len(s1) /\ y <= n /\ y <= Len(s2)
  BY ONLY <1>1, <1>2, <1>5, <1>6, n \in Nat
<1> QED BY ONLY <1>2, <1>3, <1>4, <1>5, <1>6, <1>7, Zenon

-----------------------------------------------------------------------------
\* One call of a replaced function returns what the library documents and
\* reads no more than it may: NaiveExact of the call that CallLib() records.
LEMMA CallIsExact ==
  ASSUME NEW fn \in LibFns, NEW s1 \in Strings, NEW s2 \in Strings, NEW c \in Char,
         NEW n \in 0..(MaxString + 1), CallLib(fn, s1, s2, c, n)
  PROVE  NaiveExact'
<1>1. /\ lib'.fn = fn /\ lib'.s1 = s1 /\ lib'.s2 = s2 /\ lib'.c = c /\ lib'.n = n
      /\ lib'.result = Naive(fn, s1, s2, c, n)
  BY DEF CallLib
<1>2. c \in Nat /\ n \in Nat /\ 0 <= n /\ 0 <= Len(s1) /\ 0 <= Len(s2)
  BY MemCheckAssumption, StringFacts
<1>3. PICK R : R = Naive(fn, s1, s2, c, n)
  BY ONLY Zenon
<1>4. PICK ret : ret = R.ret
  BY ONLY Zenon
<1>5. CASE fn = "strlen"
  <2>1. R = Strlen(s1)
    BY ONLY <1>3, <1>5 DEF Naive
  <2>2. /\ ret = Len(s1) - 1
        /\ R.reads[1] <= Len(s1) /\ R.reads[2] <= Len(s2)
    BY <1>2, <1>4, <2>1, StrlenExact
  <2> QED BY ONLY <1>1, <1>3, <1>4, <1>5, <2>2 DEF NaiveExact, NaiveMatchesReference, NaiveReadsInBounds
<1>6. CASE fn = "strnlen"
  <2>1. R = Strnlen(s1, n)
    BY ONLY <1>3, <1>6 DEF Naive
  <2>2. /\ ret = Min({n, Len(s1) - 1})
        /\ R.reads[1] <= Len(s1) /\ R.reads[2] <= Len(s2)
        /\ R.reads[1] <= n /\ R.reads[2] <= n
    BY <1>2, <1>4, <2>1, StrnlenExact, Zenon
  <2> QED BY ONLY <1>1, <1>3, <1>4, <1>6, <2>2 DEF NaiveExact, NaiveMatchesReference, NaiveReadsInBounds
<1>7. CASE fn = "strcmp"
  <2>1. R = Strcmp(s1, s2)
    BY ONLY <1>3, <1>7 DEF Naive
  <2>2. /\ ret = LexSign(AllButLast(s1), AllButLast(s2))
        /\ R.reads[1] <= Len(s1) /\ R.reads[2] <= Len(s2)
    BY <1>2, <1>4, <2>1, StrcmpExact
  <2> QED BY ONLY <1>1, <1>3, <1>4, <1>7, <2>2 DEF NaiveExact, NaiveMatchesReference, NaiveReadsInBounds
<1>8. CASE fn = "strncmp"
  <2>1. R = Strncmp(s1, s2, n)
    BY ONLY <1>3, <1>8 DEF Naive
  <2>2. /\ ret = LexSign(UpTo(s1, n), UpTo(s2, n))
        /\ R.reads[1] <= Len(s1) /\ R.reads[2] <= Len(s2)
        /\ R.reads[1] <= n /\ R.reads[2] <= n
    BY <1>2, <1>4, <2>1, StrncmpExact
  <2> QED BY ONLY <1>1, <1>3, <1>4, <1>8, <2>2 DEF NaiveExact, NaiveMatchesReference, NaiveReadsInBounds
<1>9. CASE fn = "index"
  <2>1. R = IndexOf(s1, c)
    BY ONLY <1>3, <1>9 DEF Naive
  <2>2. /\ ret = FirstOr(Occurrences(s1, c), NoPtr)
        /\ R.reads[1] <= Len(s1) /\ R.reads[2] <= Len(s2)
    BY <1>2, <1>4, <2>1, IndexExact
  <2> QED BY ONLY <1>1, <1>3, <1>4, <1>9, <2>2 DEF NaiveExact, NaiveMatchesReference, NaiveReadsInBounds
<1>10. CASE fn = "rindex"
  <2>1. R = Rindex(s1, c)
    BY ONLY <1>3, <1>10 DEF Naive
  <2>2. /\ ret = Max(Occurrences(s1, c) \union {NoPtr})
        /\ R.reads[1] <= Len(s1) /\ R.reads[2] <= Len(s2)
    BY <1>2, <1>4, <2>1, RindexExact
  <2> QED BY ONLY <1>1, <1>3, <1>4, <1>10, <2>2 DEF NaiveExact, NaiveMatchesReference, NaiveReadsInBounds
<1>11. CASE fn = "memchr"
  <2>1. R = Memchr(s1, c, Min({n, Len(s1)}))
    BY ONLY <1>3, <1>11 DEF Naive
  <2>2. /\ ret = FirstOr({k \in Occurrences(s1, c) : k < n}, NoPtr)
        /\ R.reads[1] <= Len(s1) /\ R.reads[2] <= Len(s2)
        /\ R.reads[1] <= n /\ R.reads[2] <= n
    BY <1>2, <1>4, <2>1, MemchrBounded, Zenon
  <2> QED BY ONLY <1>1, <1>3, <1>4, <1>11, <2>2 DEF NaiveExact, NaiveMatchesReference, NaiveReadsInBounds
<1>12. CASE fn = "rawmemchr"
  <2>1. R = Rawmemchr(s1, c)
    BY ONLY <1>3, <1>12 DEF Naive
  <2>2. /\ ret = FirstOr(Occurrences(s1, c), NoPtr)
        /\ R.reads[1] <= Len(s1) /\ R.reads[2] <= Len(s2)
    BY <1>2, <1>4, <2>1, RawmemchrExact
  <2> QED BY ONLY <1>1, <1>3, <1>4, <1>12, <2>2 DEF NaiveExact, NaiveMatchesReference, NaiveReadsInBounds
<1>13. CASE fn = "strchrnul"
  <2>1. R = Strchrnul(s1, c)
    BY ONLY <1>3, <1>13 DEF Naive
  <2>2. /\ ret = FirstOr(Occurrences(s1, c), Len(s1) - 1)
        /\ R.reads[1] <= Len(s1) /\ R.reads[2] <= Len(s2)
    BY <1>2, <1>4, <2>1, StrchrnulExact
  <2> QED BY ONLY <1>1, <1>3, <1>4, <1>13, <2>2 DEF NaiveExact, NaiveMatchesReference, NaiveReadsInBounds
<1>14. CASE fn = "bcmp"
  <2>1. R = Bcmp(s1, s2, Min({n, Len(s1), Len(s2)}))
    BY ONLY <1>3, <1>14 DEF Naive
  <2>2. /\ (ret = 0 <=> \A k \in 1..Min({n, Len(s1), Len(s2)}) : s1[k] = s2[k])
        /\ R.reads[1] <= Len(s1) /\ R.reads[2] <= Len(s2)
        /\ R.reads[1] <= n /\ R.reads[2] <= n
    BY <1>2, <1>4, <2>1, BcmpBounded, Zenon
  <2> QED BY ONLY <1>1, <1>3, <1>4, <1>14, <2>2 DEF NaiveExact, NaiveMatchesReference, NaiveReadsInBounds, Zenon
<1>15. CASE fn = "strspn"
  <2>1. R = Strspn(s1, s2)
    BY ONLY <1>3, <1>15 DEF Naive
  <2>2. /\ (\A k \in 1..ret : s1[k] \in Chars(s2)) /\ s1[ret + 1] \notin Chars(s2)
        /\ R.reads[1] <= Len(s1) /\ R.reads[2] <= Len(s2)
    BY <1>2, <1>4, <2>1, StrspnExact, Zenon
  <2> QED BY ONLY <1>1, <1>3, <1>4, <1>15, <2>2 DEF NaiveExact, NaiveMatchesReference, NaiveReadsInBounds
<1>16. CASE fn = "strcspn"
  <2>1. R = Strcspn(s1, s2)
    BY ONLY <1>3, <1>16 DEF Naive
  <2>2. /\ (\A k \in 1..ret : s1[k] \notin Chars(s2)) /\ s1[ret + 1] \in Chars(s2) \union {0}
        /\ R.reads[1] <= Len(s1) /\ R.reads[2] <= Len(s2)
    BY <1>2, <1>4, <2>1, StrcspnExact, Zenon
  <2> QED BY ONLY <1>1, <1>3, <1>4, <1>16, <2>2 DEF NaiveExact, NaiveMatchesReference, NaiveReadsInBounds
<1>17. CASE fn = "strcpy"
  <2>1. R = Strcpy(s1)
    BY ONLY <1>3, <1>17 DEF Naive
  <2>2. /\ ret = [wrote |-> s1, at |-> 0]
        /\ R.reads[1] <= Len(s1) /\ R.reads[2] <= Len(s2)
    BY <1>2, <1>4, <2>1, StrcpyExact, Zenon
  <2> QED BY ONLY <1>1, <1>3, <1>4, <1>17, <2>2 DEF NaiveExact, NaiveMatchesReference, NaiveReadsInBounds
<1>18. CASE fn = "stpcpy"
  <2>1. R = Stpcpy(s1)
    BY ONLY <1>3, <1>18 DEF Naive
  <2>2. /\ ret = [wrote |-> s1, at |-> Len(s1) - 1]
        /\ R.reads[1] <= Len(s1) /\ R.reads[2] <= Len(s2)
    BY <1>2, <1>4, <2>1, StrcpyExact, Zenon
  <2> QED BY ONLY <1>1, <1>3, <1>4, <1>18, <2>2 DEF NaiveExact, NaiveMatchesReference, NaiveReadsInBounds
<1> QED BY <1>5, <1>6, <1>7, <1>8, <1>9, <1>10, <1>11, <1>12, <1>13, <1>14, <1>15, <1>16, <1>17, <1>18, Zenon DEF LibFns

\* NaiveExact: whatever replaced function the program calls, and with
\* whatever strings, characters and bounds, the replacement returns what the
\* C library documents and reads no character after a terminator or a bound.
THEOREM NaiveIsExact == MemCheckSpec => []NaiveExact
<1>1. MemCheckInit => NaiveExact
  BY Zenon DEF MemCheckInit, NaiveExact, NaiveMatchesReference, NaiveReadsInBounds
<1>2. NaiveExact /\ [HeapNext \/ LibNext]_memcheckVars => NaiveExact'
  <2> SUFFICES ASSUME NaiveExact, [HeapNext \/ LibNext]_memcheckVars PROVE NaiveExact'
    OBVIOUS
  <2>1. CASE UNCHANGED lib
    BY <2>1, Zenon DEF NaiveExact, NaiveMatchesReference, NaiveReadsInBounds
  <2>2. CASE HeapNext
    <3>1. UNCHANGED lib
      BY <2>2, Zenon DEF HeapNext, CallAlloc, CallFree, CallIgnored, AllocatorAllocates, MallocPost,
                         FreePost, VmMap, VmUnmap
    <3> QED BY <2>1, <3>1, Zenon
  <2>3. CASE LibNext
    BY <2>3, CallIsExact, Zenon DEF LibNext
  <2>4. CASE UNCHANGED memcheckVars
    <3>1. UNCHANGED lib
      BY <2>4 DEF memcheckVars
    <3> QED BY <2>1, <3>1, Zenon
  <2> QED BY <2>2, <2>3, <2>4, Zenon
<1> QED BY <1>1, <1>2, PTL DEF MemCheckSpec
=============================================================================
