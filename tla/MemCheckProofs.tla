--------------------------- MODULE MemCheckProofs ----------------------------
(***************************************************************************)
(* Proofs about the shadow memory of the memory checker, for any threads   *)
(* and blocks, and calls nested to any depth.                              *)
(***************************************************************************)
EXTENDS MemCheck, SequenceTheorems, TLAPS

FrameType ==
  [fn : {"malloc", "realloc", "free", "ignored"}, ptr : SUBSET Block, size : AllocSize \cup {0},
   owned : BOOLEAN, at : {"in", "out"}]

MemTypes ==
  /\ shadow \in [{b \div 8 : b \in MemBytes} -> SUBSET (0..7)]
  /\ allocs \in [Block -> Int]
  /\ in_malloc \in [MThread -> Nat]
  /\ calls = [t \in MThread |-> calls[t]]
  /\ heap \in [Block -> AllocSize \cup {0}]
  /\ mapped \in [Page -> {"none", "app", "heap"}]
  /\ lost \subseteq Block

\* The block that the innermost call of a stack is about.
HeldOf(s) == IF s = <<>> THEN {} ELSE LastOf(s).ptr
Held(t) == HeldOf(calls[t])

\* Only the innermost call holds a block: those around it are of ignored
\* functions, which hold none.
GoodStack(s) ==
  /\ s \in Seq(FrameType)
  /\ \A k \in 1..Len(s) : s[k].fn = "ignored" => s[k].ptr = {}
  /\ \A k \in 1..Len(s) : k < Len(s) => s[k].fn = "ignored"

\* in_malloc counts the calls that a thread is in.
StackInv == \A t \in MThread : GoodStack(calls[t]) /\ in_malloc[t] = Len(calls[t])

\* What is known of the innermost call from its frame.
FrameGood(f, h, l) ==
  /\ f.fn \in {"malloc", "realloc"} => f.size \in AllocSize
  /\ f.fn = "malloc" /\ f.at = "in" => f.ptr = {}
  /\ f.fn \in {"free", "realloc"} /\ f.at = "in" =>
       \E b \in Block : f.ptr = {b} /\ (f.owned <=> h[b] > 0)
  /\ f.at = "out" => \A b \in f.ptr : f.fn # "free" /\ h[b] = f.size /\ b \notin l
  /\ \A b, c \in f.ptr : b = c
FrameOk(f) == FrameGood(f, heap, lost)

HeldInv ==
  /\ \A t \in MThread : calls[t] # <<>> => FrameOk(Top(t))
  /\ \A t, u \in MThread : t # u => Held(t) \cap Held(u) = {}

\* A block in use is in memory of the allocator.
HeapInv ==
  /\ \A b \in lost : heap[b] > 0
  /\ \A b \in Page : heap[b] > 0 => mapped[b] = "heap"

\* The blocks whose bytes the program may access.
Ours(b) == Owned(b) /\ b \notin lost

TableInv ==
  \A b \in Block : IF Ours(b) THEN allocs[b] = heap[b] ELSE allocs[b] \in {NotInTable, Freed}

ShadowInv ==
  \A b \in Block : \A x \in Bytes(b, BlockSize) :
    Valid(shadow, x) <=> (b \in Page /\ mapped[b] = "app") \/ (Ours(b) /\ x < b + heap[b])

VerdictInv == verdicts \in Seq(BOOLEAN \X BOOLEAN) /\ FreeReportsExact

MemInv == MemTypes /\ StackInv /\ HeldInv /\ HeapInv /\ TableInv /\ ShadowInv /\ VerdictInv

-----------------------------------------------------------------------------
(* The shadow memory *)

\* Division by 8.
LEMMA ByEight ==
  ASSUME NEW x \in Nat
  PROVE  /\ x \div 8 \in Nat /\ x % 8 \in 0..7 /\ x = 8 * (x \div 8) + (x % 8)
<1>1. x \div 8 \in Nat
  OBVIOUS
<1>2. x % 8 \in 0..7
  OBVIOUS
<1>3. x = 8 * (x \div 8) + (x % 8)
  OBVIOUS
<1> QED BY <1>1, <1>2, <1>3, Zenon

\* The group of eight and the bit of a byte.
LEMMA ByEightIs ==
  ASSUME NEW q \in Nat, NEW r \in 0..7
  PROVE  (8 * q + r) \div 8 = q /\ (8 * q + r) % 8 = r
OBVIOUS

\* memcheck_mark() sets the bits of exactly the bytes it is given.
LEMMA MarkExact ==
  ASSUME NEW G, NEW s \in [G -> SUBSET (0..7)], NEW start \in Nat, start % 8 = 0,
         NEW size \in Nat, NEW v \in BOOLEAN
  PROVE  /\ Mark(s, start, size, v) \in [G -> SUBSET (0..7)]
         /\ \A x \in Nat : x \div 8 \in G =>
              (Valid(Mark(s, start, size, v), x) <=>
                 IF x \in Bytes(start, size) THEN v ELSE Valid(s, x))
<1> DEFINE S == start \div 8
           W == size \div 8
           R == size % 8
           end == start + size
           whole == (size - (end % 8)) \div 8
<1>1. S \in Nat /\ W \in Nat /\ R \in 0..7 /\ start = 8 * S /\ size = 8 * W + R
  BY ByEight
<1>2. end = 8 * (S + W) + R /\ S + W \in Nat
  BY <1>1
<1>3. end \div 8 = S + W /\ end % 8 = R
  <2> HIDE DEF S, W, R, end
  <2> QED BY <1>1, <1>2, ByEightIs
<1>4. whole = W
  <2>1. size - (end % 8) = 8 * W + 0
    <3> HIDE DEF S, W, R, end
    <3> QED BY <1>1, <1>3
  <2>2. (8 * W + 0) \div 8 = W
    <3> HIDE DEF W
    <3> QED BY <1>1, ByEightIs
  <2> QED BY <2>1, <2>2
<1> DEFINE last == [g \in DOMAIN s |->
                 IF g = S + W /\ R # 0
                 THEN IF v THEN s[g] \union LowBits(R) ELSE s[g] \ LowBits(R)
                 ELSE s[g]]
           M == [g \in DOMAIN s |-> IF g \in S..(S + W - 1)
                         THEN IF v THEN 0..7 ELSE {} ELSE last[g]]
<1>5. Mark(s, start, size, v) = M
  <2> HIDE DEF S, W, R
  <2>1. start \div 8 = S
    BY DEF S
  <2>2. Mark(s, start, size, v) =
          [g \in DOMAIN s |-> IF g \in S..(S + whole - 1)
                         THEN IF v THEN 0..7 ELSE {} ELSE
            [h \in DOMAIN s |->
                 IF h = end \div 8 /\ end % 8 # 0
                 THEN IF v THEN s[h] \union LowBits(end % 8) ELSE s[h] \ LowBits(end % 8)
                 ELSE s[h]][g]]
    BY <2>1, Zenon DEF Mark
  <2> HIDE DEF end, whole
  <2> QED BY <2>2, <1>3, <1>4, Zenon
<1> HIDE DEF S, W, R, end, whole
<1>6. DOMAIN s = G
  OBVIOUS
<1>7. ASSUME NEW g \in G
      PROVE  /\ g \in S..(S + W - 1) => M[g] = IF v THEN 0..7 ELSE {}
             /\ g \notin S..(S + W - 1) /\ ~(g = S + W /\ R # 0) => M[g] = s[g]
             /\ g \notin S..(S + W - 1) /\ g = S + W /\ R # 0 =>
                  M[g] = IF v THEN s[g] \union LowBits(R) ELSE s[g] \ LowBits(R)
             /\ M[g] \in SUBSET (0..7)
  <2>1. s[g] \in SUBSET (0..7) /\ LowBits(R) \subseteq 0..7
    BY DEF LowBits
  <2>2. M[g] = IF g \in S..(S + W - 1) THEN IF v THEN 0..7 ELSE {} ELSE last[g]
    BY <1>6
  <2>3. last[g] = IF g = S + W /\ R # 0
                 THEN IF v THEN s[g] \union LowBits(R) ELSE s[g] \ LowBits(R)
                 ELSE s[g]
    BY <1>6
  <2> HIDE DEF M, last
  <2> QED BY <2>1, <2>2, <2>3
<1>8. M \in [G -> SUBSET (0..7)]
  <2>1. M = [g \in G |-> M[g]]
    BY <1>6
  <2> HIDE DEF M
  <2> QED BY <1>7, <2>1, Zenon
<1>9. ASSUME NEW x \in Nat, x \div 8 \in G
      PROVE  Valid(M, x) <=> IF x \in Bytes(start, size) THEN v ELSE Valid(s, x)
  <2> DEFINE q == x \div 8
             r == x % 8
  <2>1. q \in Nat /\ r \in 0..7 /\ x = 8 * q + r
    BY ByEight
  <2>2. x \in Bytes(start, size) <=> q \in S..(S + W - 1) \/ (q = S + W /\ r < R)
    <3> HIDE DEF q, r
    <3> QED BY <2>1, <1>1 DEF Bytes
  <2>3. q \in S..(S + W - 1) => q # S + W
    <3> HIDE DEF q
    <3> QED BY <2>1, <1>1
  <2>4. r < R <=> r \in LowBits(R)
    BY <2>1 DEF LowBits
  <2>5. r < R => R # 0
    BY <2>1, <1>1
  <2>6. s[q] \subseteq 0..7
    BY <1>9
  <2>7. (Valid(M, x) <=> r \in M[q]) /\ (Valid(s, x) <=> r \in s[q])
    BY Zenon DEF Valid
  <2>8. q \in G
    BY <1>9
  <2> HIDE DEF q, r, M
  <2>9. CASE q \in S..(S + W - 1)
    <3>1. M[q] = IF v THEN 0..7 ELSE {}
      BY <2>8, <2>9, <1>7, Zenon
    <3>2. r \in 0..7
      BY <2>1
    <3> QED BY ONLY <3>1, <3>2, <2>2, <2>7, <2>9, Zenon
  <2>10. CASE q \notin S..(S + W - 1) /\ q = S + W /\ R # 0
    <3>1. M[q] = IF v THEN s[q] \union LowBits(R) ELSE s[q] \ LowBits(R)
      BY <2>8, <2>10, <1>7, Zenon
    <3> QED BY ONLY <3>1, <2>2, <2>4, <2>7, <2>10, Zenon
  <2>11. CASE q \notin S..(S + W - 1) /\ ~(q = S + W /\ R # 0)
    <3>1. M[q] = s[q]
      BY <2>8, <2>11, <1>7, Zenon
    <3> QED BY ONLY <3>1, <2>2, <2>5, <2>7, <2>11, Zenon
  <2> QED BY <2>9, <2>10, <2>11, Zenon
<1> HIDE DEF M
<1> QED BY <1>5, <1>8, <1>9, Zenon

\* The code before an access tests the shadow bits of exactly the bytes that it
\* accesses.
LEMMA CheckTestsTheBytes ==
  ASSUME NEW s, NEW x \in Nat, NEW n \in Nat
  PROVE  (Check(s, x, n) = {}) <=> \A y \in Bytes(x, n) : Valid(s, y)
<1> DEFINE offset == x % 8
           x3 == {k + offset : k \in 0..(n - 1)}
<1>1. Check(s, x, n) = {k \in x3 : k % 8 \notin s[(x \div 8) + (k \div 8)]}
  BY Zenon DEF Check
<1>2. ASSUME NEW j \in 0..(n - 1)
      PROVE  (j + offset) % 8 = (x + j) % 8 /\ (x \div 8) + ((j + offset) \div 8) = (x + j) \div 8
  <2> DEFINE q == x \div 8
  <2>1. q \in Nat /\ offset \in 0..7 /\ x = 8 * q + offset
    BY ByEight
  <2>2. j + offset \in Nat
    BY <2>1
  <2> DEFINE p == (j + offset) \div 8
             r == (j + offset) % 8
  <2>3. p \in Nat /\ r \in 0..7 /\ j + offset = 8 * p + r
    <3> HIDE DEF offset
    <3> QED BY <2>2, ByEight, Zenon
  <2>4. x + j = 8 * (q + p) + r /\ q + p \in Nat
    <3> HIDE DEF offset, q, p, r
    <3> QED BY <2>1, <2>3
  <2>5. (x + j) \div 8 = q + p /\ (x + j) % 8 = r
    <3> HIDE DEF offset, q, p, r
    <3> QED BY <2>3, <2>4, ByEightIs
  <2> QED BY <2>5, Zenon
<1>3. ASSUME NEW j \in 0..(n - 1)
      PROVE  (j + offset) % 8 \notin s[(x \div 8) + ((j + offset) \div 8)] <=> ~Valid(s, x + j)
  BY <1>2, Zenon DEF Valid
<1>4. ASSUME Check(s, x, n) = {}, NEW y \in Bytes(x, n)
      PROVE  Valid(s, y)
  <2>1. y - x \in 0..(n - 1) /\ x + (y - x) = y
    BY DEF Bytes
  <2>2. (y - x) + offset \in x3
    BY <2>1, Zenon
  <2> HIDE DEF x3, offset
  <2> QED BY <1>1, <1>3, <1>4, <2>1, <2>2, Zenon
<1>5. ASSUME \A y \in Bytes(x, n) : Valid(s, y), NEW k \in x3
      PROVE  ~(k % 8 \notin s[(x \div 8) + (k \div 8)])
  <2>1. PICK j \in 0..(n - 1) : k = j + offset
    BY <1>5, Zenon
  <2>2. x + j \in Bytes(x, n)
    BY DEF Bytes
  <2> HIDE DEF x3, offset
  <2> QED BY <2>1, <2>2, <1>3, <1>5, Zenon
<1> HIDE DEF x3, offset
<1> QED BY <1>1, <1>4, <1>5, Zenon

-----------------------------------------------------------------------------
(* The stacks of calls *)

\* Append() and AllButLast(), for sequences of any set.
LEMMA AppendedTo ==
  ASSUME NEW S, NEW s \in Seq(S), NEW f \in S
  PROVE  /\ Append(s, f) \in Seq(S) /\ Append(s, f) # <<>> /\ Len(Append(s, f)) = Len(s) + 1
         /\ \A i \in 1..Len(s) : Append(s, f)[i] = s[i]
         /\ Append(s, f)[Len(s) + 1] = f
BY AppendProperties

\* AllButLast(s) is s without its last element.
LEMMA FrontOf ==
  ASSUME NEW S, NEW s \in Seq(S), s # <<>>
  PROVE  /\ AllButLast(s) \in Seq(S) /\ Len(AllButLast(s)) = Len(s) - 1
         /\ \A i \in 1..(Len(s) - 1) : AllButLast(s)[i] = s[i]
<1>1. Len(s) \in Nat \ {0} /\ \A i \in 1..(Len(s) - 1) : s[i] \in S
  OBVIOUS
<1>2. 1 \in Int /\ Len(s) - 1 \in Int
  BY <1>1
<1>3. /\ AllButLast(s) \in Seq(S) /\ Len(AllButLast(s)) = IF 1 <= Len(s) - 1 THEN (Len(s) - 1) - 1 + 1 ELSE 0
      /\ \A i \in 1..((Len(s) - 1) - 1 + 1) : AllButLast(s)[i] = s[1 + i - 1]
  BY <1>1, <1>2, SubSeqProperties DEF AllButLast
<1>4. ASSUME NEW l \in Nat \ {0}
      PROVE  /\ (l - 1) - 1 + 1 = l - 1
             /\ (IF 1 <= l - 1 THEN (l - 1) - 1 + 1 ELSE 0) = l - 1
             /\ \A i \in 1..(l - 1) : 1 + i - 1 = i
  OBVIOUS
<1> QED BY <1>1, <1>3, <1>4, Zenon

\* A call is pushed on an empty stack or on that of an ignored function.
LEMMA PushKeepsStack ==
  ASSUME NEW s, GoodStack(s), s # <<>> => LastOf(s).fn = "ignored",
         NEW f \in FrameType, f.fn = "ignored" => f.ptr = {}
  PROVE  /\ GoodStack(Append(s, f)) /\ Append(s, f) # <<>> /\ LastOf(Append(s, f)) = f
         /\ Len(Append(s, f)) = Len(s) + 1 /\ HeldOf(s) = {} /\ HeldOf(Append(s, f)) = f.ptr
<1> DEFINE a == Append(s, f)
<1>1. s \in Seq(FrameType) /\ Len(s) \in Nat
  BY DEF GoodStack
<1>2. /\ a \in Seq(FrameType) /\ a # <<>> /\ Len(a) = Len(s) + 1
      /\ \A i \in 1..Len(s) : a[i] = s[i]
      /\ a[Len(s) + 1] = f
  BY ONLY <1>1, f \in FrameType, AppendedTo, Zenon
<1>3. \A k \in 1..Len(s) : s[k].fn = "ignored"
  <2> SUFFICES ASSUME NEW k \in 1..Len(s) PROVE s[k].fn = "ignored"
    OBVIOUS
  <2>1. CASE k < Len(s)
    BY <2>1, Zenon DEF GoodStack
  <2>2. CASE k = Len(s)
    BY <2>2, <1>1 DEF LastOf
  <2> QED BY <2>1, <2>2, <1>1
<1>4. LastOf(a) = f
  BY <1>2, Zenon DEF LastOf
<1>5. HeldOf(s) = {}
  <2>1. s # <<>> => Len(s) \in 1..Len(s)
    BY <1>1
  <2> QED BY <2>1, <1>3, Zenon DEF HeldOf, LastOf, GoodStack
<1>6. \A k \in 1..Len(a) : k \in 1..Len(s) \/ k = Len(s) + 1
  <2> HIDE DEF a
  <2> QED BY <1>1, <1>2
<1>7. \A k \in 1..Len(a) : k < Len(a) => k \in 1..Len(s)
  <2> HIDE DEF a
  <2> QED BY <1>1, <1>2
<1> HIDE DEF a
<1>8. GoodStack(a)
  BY <1>2, <1>3, <1>6, <1>7, Zenon DEF GoodStack
<1>9. HeldOf(a) = f.ptr
  BY <1>2, <1>4, Zenon DEF HeldOf
<1> QED BY <1>2, <1>4, <1>5, <1>8, <1>9, Zenon DEF a

\* What is left when the innermost call is removed.
LEMMA FrontOfStack ==
  ASSUME NEW s, GoodStack(s), s # <<>>
  PROVE  /\ GoodStack(AllButLast(s)) /\ Len(AllButLast(s)) = Len(s) - 1
         /\ \A k \in 1..Len(AllButLast(s)) : AllButLast(s)[k].fn = "ignored"
         /\ HeldOf(AllButLast(s)) = {}
         /\ AllButLast(s) # <<>> => LastOf(AllButLast(s)).fn = "ignored" /\ LastOf(AllButLast(s)).ptr = {}
                               /\ LastOf(AllButLast(s)) \in FrameType
<1> DEFINE a == AllButLast(s)
<1>1. s \in Seq(FrameType) /\ Len(s) \in Nat \ {0}
  BY DEF GoodStack
<1>4. /\ a \in Seq(FrameType) /\ Len(a) = Len(s) - 1
      /\ \A i \in 1..(Len(s) - 1) : a[i] = s[i]
  BY <1>1, FrontOf, Zenon
<1> HIDE DEF a
<1>5. Len(a) = Len(s) - 1
  BY <1>4
<1>6. ASSUME NEW k \in 1..Len(a)
      PROVE  k \in 1..Len(s) /\ k < Len(s) /\ a[k] = s[k]
  <2>1. k \in 1..(Len(s) - 1) /\ k \in 1..Len(s) /\ k < Len(s)
    BY <1>5, <1>1
  <2> QED BY <2>1, <1>4, Zenon
<1>7. \A k \in 1..Len(a) : a[k].fn = "ignored" /\ a[k].ptr = {}
  BY <1>6, Zenon DEF GoodStack
<1>8. GoodStack(a)
  BY <1>4, <1>7, Zenon DEF GoodStack
<1>9. a # <<>> => Len(a) \in 1..Len(a) /\ a[Len(a)] \in FrameType
  BY <1>4
<1>10. HeldOf(a) = {} /\ (a # <<>> => LastOf(a).fn = "ignored" /\ LastOf(a).ptr = {} /\ LastOf(a) \in FrameType)
  BY <1>7, <1>9, Zenon DEF HeldOf, LastOf
<1> QED BY <1>5, <1>7, <1>8, <1>10, Zenon DEF a

\* The frame of the innermost call is replaced.
LEMMA ReplaceKeepsStack ==
  ASSUME NEW s, GoodStack(s), s # <<>>, NEW f \in FrameType, f.fn = "ignored" => f.ptr = {}
  PROVE  LET a == Append(AllButLast(s), f)
         IN GoodStack(a) /\ a # <<>> /\ LastOf(a) = f /\ Len(a) = Len(s) /\ HeldOf(a) = f.ptr
<1>1. /\ GoodStack(AllButLast(s)) /\ Len(AllButLast(s)) = Len(s) - 1
      /\ AllButLast(s) # <<>> => LastOf(AllButLast(s)).fn = "ignored"
  BY FrontOfStack, Zenon
<1>2. Len(s) \in Nat
  BY DEF GoodStack
<1>3. (Len(s) - 1) + 1 = Len(s)
  BY <1>2
<1> QED BY <1>1, <1>3, PushKeepsStack, Zenon

\* The frame on top of a stack.
LEMMA TopOfStack ==
  ASSUME NEW s, GoodStack(s), s # <<>>
  PROVE  LastOf(s) \in FrameType /\ (LastOf(s).fn = "ignored" => LastOf(s).ptr = {})
<1>1. s \in Seq(FrameType) /\ Len(s) \in 1..Len(s)
  BY DEF GoodStack
<1>2. s[Len(s)] \in FrameType
  BY <1>1
<1> QED BY <1>1, <1>2, Zenon DEF LastOf, GoodStack

\* A block is in some call of a stack exactly when it is in the innermost one.
LEMMA StackHolds ==
  ASSUME NEW s, GoodStack(s), NEW b
  PROVE  (\E k \in 1..Len(s) : b \in s[k].ptr) <=> b \in HeldOf(s)
<1>1. s \in Seq(FrameType) /\ Len(s) \in Nat /\ (s = <<>> => Len(s) = 0)
      /\ (s # <<>> => Len(s) \in 1..Len(s))
  BY DEF GoodStack
<1>2. ASSUME NEW k \in 1..Len(s), b \in s[k].ptr
      PROVE  b \in HeldOf(s)
  <2>1. ~(k < Len(s))
    BY <1>2, Zenon DEF GoodStack
  <2>2. k = Len(s) /\ s # <<>>
    BY <2>1, <1>1
  <2> QED BY <2>2, <1>2, Zenon DEF HeldOf, LastOf
<1>3. ASSUME b \in HeldOf(s)
      PROVE  \E k \in 1..Len(s) : b \in s[k].ptr
  <2>1. s # <<>>
    BY <1>3, Zenon DEF HeldOf
  <2> QED BY <1>1, <1>3, <2>1, Zenon DEF HeldOf, LastOf
<1> QED BY <1>2, <1>3, Zenon

-----------------------------------------------------------------------------
(* Steps of a thread on its stack *)

\* InCall from the innermost calls.
LEMMA InCallHeld ==
  ASSUME NEW c, \A t \in MThread : GoodStack(c[t]), NEW b \in Block
  PROVE  b \in {a \in Block : \E t \in MThread : \E k \in 1..Len(c[t]) : a \in c[t][k].ptr}
           <=> \E t \in MThread : b \in HeldOf(c[t])
BY StackHolds, Zenon

\* Thread t has changed its stack and no other.
Moved(t) ==
  /\ StackInv'
  /\ calls' = [u \in MThread |-> calls'[u]]
  /\ in_malloc' \in [MThread -> Nat]
  /\ \A u \in MThread \ {t} : calls'[u] = calls[u]

\* EXCEPT changes the value for one thread.
LEMMA ReplaceOne ==
  ASSUME NEW c, NEW t \in MThread, NEW x, c = [u \in MThread |-> c[u]]
  PROVE  /\ [c EXCEPT ![t] = x] = [u \in MThread |-> [c EXCEPT ![t] = x][u]]
         /\ [c EXCEPT ![t] = x][t] = x
         /\ \A u \in MThread \ {t} : [c EXCEPT ![t] = x][u] = c[u]
OBVIOUS

\* A step that gives one thread a good stack of calls, with its depth in in_malloc.
LEMMA MovedBy ==
  ASSUME MemTypes, StackInv, NEW t \in MThread, NEW s, GoodStack(s),
         calls' = [calls EXCEPT ![t] = s], in_malloc' = [in_malloc EXCEPT ![t] = Len(s)]
  PROVE  Moved(t) /\ calls'[t] = s
<1>1. /\ calls' = [u \in MThread |-> calls'[u]] /\ calls'[t] = s
      /\ \A u \in MThread \ {t} : calls'[u] = calls[u]
  BY ReplaceOne, Zenon DEF MemTypes
<1>2. Len(s) \in Nat
  BY DEF GoodStack
<1>3. in_malloc' \in [MThread -> Nat] /\ in_malloc'[t] = Len(s)
      /\ \A u \in MThread \ {t} : in_malloc'[u] = in_malloc[u]
  BY <1>2 DEF MemTypes
<1>4. StackInv'
  BY <1>1, <1>3, Zenon DEF StackInv
<1> QED BY <1>1, <1>3, <1>4, Zenon DEF Moved

\* A call of a hooked function.
LEMMA EnterMoves ==
  ASSUME MemTypes, StackInv, NEW t \in MThread, NEW f \in FrameType, f.fn = "ignored" => f.ptr = {},
         CanCall(t), Enter(t, f)
  PROVE  Moved(t) /\ Held(t) = {} /\ Held(t)' = f.ptr /\ calls'[t] # <<>> /\ Top(t)' = f
<1> DEFINE s == Append(calls[t], f)
<1>1. GoodStack(calls[t]) /\ in_malloc[t] = Len(calls[t])
  BY Zenon DEF StackInv
<1>2. GoodStack(s) /\ s # <<>> /\ LastOf(s) = f /\ Len(s) = Len(calls[t]) + 1
      /\ HeldOf(calls[t]) = {} /\ HeldOf(s) = f.ptr
  BY <1>1, PushKeepsStack, Zenon DEF CanCall, Top
<1> HIDE DEF s
<1>3. calls' = [calls EXCEPT ![t] = s] /\ in_malloc' = [in_malloc EXCEPT ![t] = Len(s)]
  BY <1>1, <1>2, Zenon DEF Enter, s
<1>4. Moved(t) /\ calls'[t] = s
  BY <1>2, <1>3, MovedBy, Zenon
<1> QED BY <1>2, <1>4, Zenon DEF Held, Top

\* The allocator has done its part of the innermost call.
LEMMA SetTopMoves ==
  ASSUME MemTypes, StackInv, NEW t \in MThread, calls[t] # <<>>,
         NEW f \in FrameType, f.fn = "ignored" => f.ptr = {},
         calls' = SetTop(t, f), in_malloc' = in_malloc
  PROVE  Moved(t) /\ Held(t)' = f.ptr /\ calls'[t] # <<>> /\ Top(t)' = f
<1> DEFINE s == Append(AllButLast(calls[t]), f)
<1>1. GoodStack(calls[t]) /\ in_malloc[t] = Len(calls[t])
  BY Zenon DEF StackInv
<1>2. GoodStack(s) /\ s # <<>> /\ LastOf(s) = f /\ Len(s) = Len(calls[t]) /\ HeldOf(s) = f.ptr
  BY <1>1, ReplaceKeepsStack, Zenon
<1> HIDE DEF s
<1>3. calls' = [calls EXCEPT ![t] = s]
  BY Zenon DEF SetTop, s
<1>4. in_malloc' = [in_malloc EXCEPT ![t] = Len(s)]
  BY <1>1, <1>2 DEF MemTypes
<1>5. Moved(t) /\ calls'[t] = s
  BY <1>2, <1>3, <1>4, MovedBy, Zenon
<1> QED BY <1>2, <1>5, Zenon DEF Held, Top

\* The innermost call returns.
LEMMA LeaveMoves ==
  ASSUME MemTypes, StackInv, NEW t \in MThread, calls[t] # <<>>, Leave(t)
  PROVE  /\ Moved(t) /\ Held(t)' = {}
         /\ calls'[t] # <<>> => Top(t)'.fn = "ignored" /\ Top(t)'.ptr = {}
<1> DEFINE s == AllButLast(calls[t])
<1>1. GoodStack(calls[t]) /\ in_malloc[t] = Len(calls[t])
  BY Zenon DEF StackInv
<1>2. /\ GoodStack(s) /\ Len(s) = Len(calls[t]) - 1 /\ HeldOf(s) = {}
      /\ s # <<>> => LastOf(s).fn = "ignored" /\ LastOf(s).ptr = {}
  BY <1>1, FrontOfStack, Zenon
<1> HIDE DEF s
<1>3. calls' = [calls EXCEPT ![t] = s] /\ in_malloc' = [in_malloc EXCEPT ![t] = Len(s)]
  BY <1>1, <1>2, Zenon DEF Leave, s
<1>4. Moved(t) /\ calls'[t] = s
  BY <1>2, <1>3, MovedBy, Zenon
<1> QED BY <1>2, <1>4, Zenon DEF Held, Top

\* What that does to InCall.
LEMMA InCallMoves ==
  ASSUME StackInv, HeldInv, NEW t \in MThread, Moved(t), NEW b \in Block
  PROVE  /\ b \in InCall' <=> b \in Held(t)' \/ (b \in InCall /\ b \notin Held(t))
         /\ b \in InCall <=> \E u \in MThread : b \in Held(u)
<1>1. b \in InCall <=> \E u \in MThread : b \in Held(u)
  BY InCallHeld, Zenon DEF StackInv, InCall, Held
<1>2. b \in InCall' <=> \E u \in MThread : b \in HeldOf(calls'[u])
  BY InCallHeld, Zenon DEF Moved, StackInv, InCall
<1>3. \A u \in MThread \ {t} : HeldOf(calls'[u]) = Held(u) /\ ~(b \in Held(u) /\ b \in Held(t))
  BY Zenon DEF Moved, HeldInv, Held
<1>4. Held(t)' = HeldOf(calls'[t])
  BY Zenon DEF Held
<1> QED BY <1>1, <1>2, <1>3, <1>4, Zenon

\* What is known of a call holds as long as its own blocks do not change.
LEMMA SameFrame ==
  ASSUME NEW f, NEW h, NEW l, NEW h2, NEW l2, FrameGood(f, h, l),
         \A b \in f.ptr : h2[b] = h[b] /\ (b \in l2 <=> b \in l)
  PROVE  FrameGood(f, h2, l2)
<1>1. f.fn \in {"free", "realloc"} /\ f.at = "in" =>
       \E b \in Block : f.ptr = {b} /\ (f.owned <=> h2[b] > 0)
  BY Zenon DEF FrameGood
<1>2. f.at = "out" => \A b \in f.ptr : f.fn # "free" /\ h2[b] = f.size /\ b \notin l2
  BY Zenon DEF FrameGood
<1> QED BY <1>1, <1>2, Zenon DEF FrameGood

\* The frames of the other threads stay good.
LEMMA HeldMoves ==
  ASSUME HeldInv, NEW t \in MThread, Moved(t),
         calls'[t] # <<>> => FrameOk(Top(t))',
         \A u \in MThread \ {t} : Held(t)' \cap Held(u) = {},
         \A u \in MThread \ {t} : \A b \in Held(u) : heap'[b] = heap[b] /\ (b \in lost' <=> b \in lost)
  PROVE  HeldInv'
<1>1. ASSUME NEW u \in MThread \ {t}
      PROVE  calls'[u] = calls[u] /\ Held(u)' = Held(u) /\ Top(u)' = Top(u)
  BY <1>1, Zenon DEF Moved, Held, Top
<1>2. ASSUME NEW u \in MThread \ {t}, calls[u] # <<>>
      PROVE  FrameOk(Top(u))'
  <2>1. FrameOk(Top(u)) /\ Held(u) = Top(u).ptr
    BY <1>2, Zenon DEF HeldInv, Held, HeldOf, Top
  <2> DEFINE f == Top(u)
  <2>2. \A b \in f.ptr : heap'[b] = heap[b] /\ (b \in lost' <=> b \in lost)
    BY <2>1, Zenon
  <2>3. Top(u)' = f
    BY <1>1, Zenon
  <2>4. FrameOk(f)
    BY <2>1
  <2> HIDE DEF f
  <2>5. FrameGood(f, heap', lost')
    BY <2>2, <2>4, SameFrame, Zenon DEF FrameOk
  <2> QED BY <2>3, <2>5, Zenon DEF FrameOk
<1>3. \A u \in MThread : calls'[u] # <<>> => FrameOk(Top(u))'
  BY <1>1, <1>2, Zenon
<1>4. ASSUME NEW u \in MThread, NEW w \in MThread, u # w
      PROVE  Held(u)' \cap Held(w)' = {}
  <2>1. CASE u = t
    BY <2>1, <1>1, <1>4, Zenon
  <2>2. CASE w = t
    <3>1. Held(t)' \cap Held(u) = {} /\ Held(u)' = Held(u)
      BY <2>2, <1>1, <1>4, Zenon
    <3> QED BY ONLY <3>1, <2>2
  <2>3. CASE u # t /\ w # t
    BY <2>3, <1>1, <1>4, Zenon DEF HeldInv
  <2> QED BY <2>1, <2>2, <2>3, Zenon
<1> QED BY <1>3, <1>4, Zenon DEF HeldInv

\* A step that leaves the shadow memory alone, and the blocks that are the
\* program's.
LEMMA SameShadow ==
  ASSUME TableInv, ShadowInv, shadow' = shadow, allocs' = allocs,
         \A b \in Block : (Ours(b)' <=> Ours(b)) /\ (Ours(b) => heap'[b] = heap[b]),
         \A b \in Page : mapped'[b] = "app" <=> mapped[b] = "app"
  PROVE  TableInv' /\ ShadowInv'
<1>1. TableInv'
  <2> SUFFICES ASSUME NEW b \in Block
               PROVE  IF Ours(b)' THEN allocs'[b] = heap'[b] ELSE allocs'[b] \in {NotInTable, Freed}
    BY Zenon DEF TableInv, NotInTable, Freed
  <2>1. IF Ours(b) THEN allocs[b] = heap[b] ELSE allocs[b] \in {NotInTable, Freed}
    BY Zenon DEF TableInv
  <2> QED BY <2>1, Zenon
<1>2. ShadowInv'
  <2> SUFFICES ASSUME NEW b \in Block, NEW x \in Bytes(b, BlockSize)
               PROVE  Valid(shadow', x) <=>
                        (b \in Page /\ mapped'[b] = "app") \/ (Ours(b)' /\ x < b + heap'[b])
    BY Zenon DEF ShadowInv, Valid, Bytes
  <2>1. Valid(shadow, x) <=> (b \in Page /\ mapped[b] = "app") \/ (Ours(b) /\ x < b + heap[b])
    BY Zenon DEF ShadowInv
  <2> QED BY <2>1, Zenon
<1> QED BY <1>1, <1>2

\* memcheck_mark() for bytes of block b changes the shadow of no other block.
LEMMA MarkBlock ==
  ASSUME MemTypes, NEW b \in Block, NEW size \in Nat, size <= BlockSize, NEW v \in BOOLEAN
  PROVE  /\ Mark(shadow, b, size, v) \in [{x \div 8 : x \in MemBytes} -> SUBSET (0..7)]
         /\ \A c \in Block : \A x \in Bytes(c, BlockSize) : c # b =>
              (Valid(Mark(shadow, b, size, v), x) <=> Valid(shadow, x))
         /\ \A x \in Bytes(b, BlockSize) :
              Valid(Mark(shadow, b, size, v), x) <=> IF x < b + size THEN v ELSE Valid(shadow, x)
<1> DEFINE M == Mark(shadow, b, size, v)
<1>1. b \in Nat /\ b % 8 = 0 /\ BlockSize \in Nat
  BY MemCheckAssumption DEF Block
<1>2. ASSUME NEW c \in Block, NEW x \in Bytes(c, BlockSize)
      PROVE  x \in Nat /\ x \div 8 \in {y \div 8 : y \in MemBytes}
  <2>1. c \in Nat
    BY MemCheckAssumption, Zenon DEF Block
  <2>2. x \in Nat
    BY <1>1, <2>1 DEF Bytes
  <2>3. x \in MemBytes
    BY Zenon DEF MemBytes
  <2> QED BY <2>2, <2>3, Zenon
<1>3. shadow \in [{x \div 8 : x \in MemBytes} -> SUBSET (0..7)]
  BY Zenon DEF MemTypes
<1>4. /\ M \in [{x \div 8 : x \in MemBytes} -> SUBSET (0..7)]
      /\ \A x \in Nat : x \div 8 \in {y \div 8 : y \in MemBytes} =>
              (Valid(M, x) <=> IF x \in Bytes(b, size) THEN v ELSE Valid(shadow, x))
  BY <1>1, <1>3, MarkExact, Zenon
<1> HIDE DEF M
<1>5. ASSUME NEW c \in Block, NEW x \in Bytes(c, BlockSize)
      PROVE  Valid(M, x) <=> IF x \in Bytes(b, size) THEN v ELSE Valid(shadow, x)
  BY <1>2, <1>4, Zenon
<1>6. ASSUME NEW c \in Block, NEW x \in Bytes(c, BlockSize), c # b
      PROVE  x \notin Bytes(b, size)
  <2>1. c \in Nat /\ (b + BlockSize <= c \/ c + BlockSize <= b)
    BY <1>6, MemCheckAssumption DEF Block
  <2> QED BY <1>1, <2>1 DEF Bytes
<1>7. ASSUME NEW x \in Bytes(b, BlockSize)
      PROVE  x \in Bytes(b, size) <=> x < b + size
  BY <1>1 DEF Bytes
<1> QED BY <1>4, <1>5, <1>6, <1>7, Zenon DEF M

-----------------------------------------------------------------------------
(* The actions *)

\* Sizes are those of blocks that the allocator can give out.
LEMMA Sizes ==
  ASSUME MemTypes
  PROVE  /\ \A n \in AllocSize : n \in Nat /\ n > 0 /\ n <= BlockSize
         /\ \A b \in Block : heap[b] \in Nat /\ heap[b] <= BlockSize /\ (heap[b] > 0 => heap[b] \in AllocSize)
<1>1. \A n \in AllocSize : n \in Nat /\ n > 0 /\ n <= BlockSize
  BY MemCheckAssumption
<1>2. ASSUME NEW b \in Block
      PROVE  heap[b] \in Nat /\ heap[b] <= BlockSize /\ (heap[b] > 0 => heap[b] \in AllocSize)
  <2>1. heap[b] \in AllocSize \/ heap[b] = 0
    BY Zenon DEF MemTypes
  <2>2. BlockSize \in Nat
    BY MemCheckAssumption, Zenon
  <2>3. CASE heap[b] \in AllocSize
    BY <1>1, <2>3, Zenon
  <2>4. CASE heap[b] = 0
    BY ONLY <2>2, <2>4
  <2> QED BY <2>1, <2>3, <2>4, Zenon
<1> QED BY <1>1, <1>2

\* Nothing is asked of a call that is ignored.
LEMMA IgnoredFrame ==
  ASSUME NEW f, NEW h, NEW l, f.fn = "ignored", f.ptr = {}
  PROVE  FrameGood(f, h, l)
BY Zenon DEF FrameGood

\* A call that holds no block, of a function that allocates or is ignored.
LEMMA QuietCall ==
  ASSUME MemInv, NEW t \in MThread, NEW f \in FrameType, f.ptr = {}, FrameOk(f), CanCall(t), Enter(t, f),
         UNCHANGED <<shadow, allocs, heap, mapped, lost, verdicts, lib>>
  PROVE  MemInv'
<1> USE DEF MemInv
<1>1. Moved(t) /\ Held(t) = {} /\ Held(t)' = {} /\ calls'[t] # <<>> /\ Top(t)' = f
  BY EnterMoves, Zenon
<1>2. \A b \in Block : b \in InCall' <=> b \in InCall
  BY <1>1, InCallMoves, Zenon
<1>3. MemTypes' /\ StackInv'
  BY <1>1, Zenon DEF MemTypes, Moved, MemBytes, Bytes, Block
<1>4. FrameOk(Top(t))'
  BY <1>1, Zenon DEF FrameOk
<1>5. HeldInv'
  BY <1>1, <1>4, HeldMoves
<1>6. HeapInv' /\ VerdictInv'
  BY Zenon DEF HeapInv, VerdictInv, FreeReportsExact
<1>7. \A b \in Block : Ours(b)' <=> Ours(b)
  BY <1>2, Zenon DEF Ours, Owned
<1>8. TableInv' /\ ShadowInv'
  BY <1>7, SameShadow, Zenon
<1> QED BY <1>3, <1>5, <1>6, <1>8, Zenon

\* malloc() is called.
LEMMA CallAllocStep ==
  ASSUME MemInv, NEW t \in MThread, NEW size \in AllocSize, CallAlloc(t, size)
  PROVE  MemInv'
<1>1. PICK f : f = Frame("malloc", {}, size, FALSE)
  BY Zenon
<1>2. f \in FrameType
  BY <1>1, Zenon DEF Frame, FrameType
<1>3. f.ptr = {} /\ FrameOk(f)
  <2>1. f.fn = "malloc" /\ f.ptr = {} /\ f.size = size /\ f.at = "in"
    BY ONLY <1>1 DEF Frame
  <2> QED BY ONLY <2>1, size \in AllocSize, Zenon DEF FrameOk, FrameGood
<1> QED BY <1>1, <1>2, <1>3, QuietCall, Zenon DEF CallAlloc

\* A function that MAMBO does not hook for this is called inside the library.
LEMMA CallIgnoredStep ==
  ASSUME MemInv, NEW t \in MThread, CallIgnored(t)
  PROVE  MemInv'
<1>1. PICK f : f = Frame("ignored", {}, 0, FALSE)
  BY Zenon
<1>2. f \in FrameType
  BY <1>1, Zenon DEF Frame, FrameType
<1>3. f.ptr = {} /\ FrameOk(f)
  <2>1. f.fn = "ignored" /\ f.ptr = {} /\ f.size = 0 /\ f.at = "in"
    BY ONLY <1>1 DEF Frame
  <2> QED BY ONLY <2>1, Zenon DEF FrameOk, FrameGood
<1> QED BY <1>1, <1>2, <1>3, QuietCall, Zenon DEF CallIgnored

\* memcheck_free_hook(): the entry in allocs tells the blocks of the program.
LEMMA FreeHookExact ==
  ASSUME MemInv, NEW b \in Block, FreeHook(b, Ours(b))
  PROVE  /\ Ours(b) => /\ allocs' = [allocs EXCEPT ![b] = Freed]
                       /\ shadow' = Mark(shadow, b, heap[b], FALSE)
                       /\ verdicts' = Append(verdicts, <<FALSE, FALSE>>)
         /\ ~Ours(b) => /\ allocs' = allocs /\ shadow' = shadow
                        /\ verdicts' = Append(verdicts, <<TRUE, TRUE>>)
<1> USE DEF MemInv
<1>1. Ours(b) => allocs[b] = heap[b] /\ allocs[b] \notin {NotInTable, Freed}
  <2>1. heap[b] \in Nat
    BY Sizes, Zenon
  <2>2. heap[b] \notin {NotInTable, Freed}
    BY <2>1 DEF NotInTable, Freed
  <2> QED BY <2>2, Zenon DEF TableInv
<1>2. ~Ours(b) => allocs[b] \in {NotInTable, Freed}
  BY Zenon DEF TableInv
<1>3. CASE Ours(b)
  <2>1. (~Ours(b)) = FALSE
    BY <1>3, Zenon
  <2> QED BY <1>1, <1>3, <2>1, Zenon DEF FreeHook
<1>4. CASE ~Ours(b)
  <2>1. (~Ours(b)) = TRUE
    BY <1>4, Zenon
  <2> QED BY <1>2, <1>4, <2>1, Zenon DEF FreeHook
<1> QED BY <1>3, <1>4, Zenon

\* A verdict that is right is added.
LEMMA OneMoreVerdict ==
  ASSUME VerdictInv, NEW v \in BOOLEAN, verdicts' = Append(verdicts, <<v, v>>)
  PROVE  VerdictInv'
<1>1. verdicts \in Seq(BOOLEAN \X BOOLEAN) /\ <<v, v>> \in BOOLEAN \X BOOLEAN /\ Len(verdicts) \in Nat
  BY DEF VerdictInv
<1>2. /\ verdicts' \in Seq(BOOLEAN \X BOOLEAN) /\ Len(verdicts') = Len(verdicts) + 1
      /\ \A i \in 1..Len(verdicts) : verdicts'[i] = verdicts[i]
      /\ verdicts'[Len(verdicts) + 1] = <<v, v>>
  <2>1. LET a == Append(verdicts, <<v, v>>)
        IN /\ a \in Seq(BOOLEAN \X BOOLEAN) /\ Len(a) = Len(verdicts) + 1
           /\ \A i \in 1..Len(verdicts) : a[i] = verdicts[i]
           /\ a[Len(verdicts) + 1] = <<v, v>>
    BY ONLY <1>1, AppendedTo
  <2> QED BY <2>1, Zenon
<1>3. \A k \in 1..Len(verdicts') : k \in 1..Len(verdicts) \/ k = Len(verdicts) + 1
  BY ONLY <1>1, <1>2
<1>4. <<v, v>>[1] = <<v, v>>[2]
  OBVIOUS
<1>5. \A k \in 1..Len(verdicts) : verdicts[k][1] = verdicts[k][2]
  BY Zenon DEF VerdictInv, FreeReportsExact
<1>6. ASSUME NEW k \in 1..Len(verdicts')
      PROVE  verdicts'[k][1] = verdicts'[k][2]
  BY ONLY <1>2, <1>3, <1>4, <1>5, <1>6, Zenon
<1> QED BY <1>2, <1>6, Zenon DEF VerdictInv, FreeReportsExact

\* free() or realloc() is called on a block: what is reported is exact.
LEMMA CallFreeStep ==
  ASSUME MemInv, NEW t \in MThread, NEW fn \in {"free", "realloc"}, NEW b \in Block,
         NEW size \in AllocSize \cup {0}, fn = "realloc" => size \in AllocSize,
         CallFree(t, fn, b, size)
  PROVE  MemInv'
<1> USE DEF MemInv
<1>1. PICK f : f = Frame(fn, {b}, size, Owned(b))
  BY Zenon
<1>2. f.fn = fn /\ f.ptr = {b} /\ f.size = size /\ f.owned = Owned(b) /\ f.at = "in"
  BY ONLY <1>1 DEF Frame
<1>3. f \in FrameType
  <2>1. {b} \in SUBSET Block /\ Owned(b) \in BOOLEAN /\ fn \in {"malloc", "realloc", "free", "ignored"}
    BY Zenon DEF Owned
  <2> QED BY <1>1, <2>1, Zenon DEF Frame, FrameType
<1>4. f.fn # "ignored"
  BY <1>2, Zenon
<1>5. CanCall(t) /\ Enter(t, f) /\ b \notin InCall /\ FreeHook(b, Ours(b))
      /\ heap' = heap /\ mapped' = mapped /\ lost' = lost
  BY <1>1, Zenon DEF CallFree, Ours
<1>6. Moved(t) /\ Held(t) = {} /\ Held(t)' = {b} /\ calls'[t] # <<>> /\ Top(t)' = f
  BY <1>2, <1>3, <1>4, <1>5, EnterMoves, Zenon
<1>7. \A c \in Block : c \in InCall' <=> c = b \/ c \in InCall
  BY <1>6, InCallMoves, Zenon
<1>8. \A u \in MThread : b \notin Held(u)
  BY <1>5, <1>6, InCallMoves, Zenon
<1>9. FrameOk(f)
  <2>1. f.owned <=> heap[b] > 0
    BY <1>2, <1>5, Zenon DEF Owned
  <2> QED BY <1>2, <2>1, Zenon DEF FrameOk, FrameGood
<1>10. HeldInv'
  <2>1. FrameOk(Top(t))'
    BY <1>5, <1>6, <1>9, Zenon DEF FrameOk
  <2>2. \A u \in MThread \ {t} : Held(t)' \cap Held(u) = {}
    BY <1>6, <1>8
  <2> QED BY <1>5, <1>6, <2>1, <2>2, HeldMoves
<1>11. HeapInv'
  BY <1>5, Zenon DEF HeapInv
<1>12. ~Ours(b)' /\ \A c \in Block : c # b => (Ours(c)' <=> Ours(c))
  BY <1>5, <1>7, Zenon DEF Ours, Owned
<1>13. CASE ~Ours(b)
  <2>1. allocs' = allocs /\ shadow' = shadow /\ verdicts' = Append(verdicts, <<TRUE, TRUE>>)
    BY <1>5, <1>13, FreeHookExact, Zenon
  <2>2. VerdictInv'
    BY <2>1, OneMoreVerdict, Zenon
  <2>3. TableInv' /\ ShadowInv'
    BY <1>5, <1>12, <1>13, <2>1, SameShadow, Zenon
  <2>4. MemTypes' /\ StackInv'
    BY <1>5, <1>6, <2>1, Zenon DEF MemTypes, Moved, MemBytes, Bytes, Block
  <2> QED BY <1>10, <1>11, <2>2, <2>3, <2>4, Zenon
<1>14. CASE Ours(b)
  <2>1. /\ allocs' = [allocs EXCEPT ![b] = Freed] /\ shadow' = Mark(shadow, b, heap[b], FALSE)
        /\ verdicts' = Append(verdicts, <<FALSE, FALSE>>)
    BY <1>5, <1>14, FreeHookExact, Zenon
  <2>2. VerdictInv'
    BY <2>1, OneMoreVerdict, Zenon
  <2>3. heap[b] \in Nat /\ heap[b] <= BlockSize /\ heap[b] > 0
    BY <1>14, Sizes, Zenon DEF Ours, Owned
  <2>4. /\ shadow' \in [{x \div 8 : x \in MemBytes} -> SUBSET (0..7)]
        /\ \A c \in Block : \A x \in Bytes(c, BlockSize) : c # b => (Valid(shadow', x) <=> Valid(shadow, x))
        /\ \A x \in Bytes(b, BlockSize) :
             Valid(shadow', x) <=> IF x < b + heap[b] THEN FALSE ELSE Valid(shadow, x)
    BY <2>1, <2>3, MarkBlock, Zenon
  <2>5. ~(b \in Page /\ mapped[b] = "app")
    BY <2>3, Zenon DEF HeapInv
  <2>6. ASSUME NEW c \in Block, NEW x \in Bytes(c, BlockSize)
        PROVE  Valid(shadow', x) <=>
                 (c \in Page /\ mapped'[c] = "app") \/ (Ours(c)' /\ x < c + heap'[c])
    <3>1. Valid(shadow, x) <=> (c \in Page /\ mapped[c] = "app") \/ (Ours(c) /\ x < c + heap[c])
      BY Zenon DEF ShadowInv
    <3>2. CASE c = b
      BY <3>1, <3>2, <2>4, <2>5, <2>6, <1>5, <1>12, <1>14, Zenon
    <3>3. CASE c # b
      BY <3>1, <3>3, <2>4, <1>5, <1>12, Zenon
    <3> QED BY <3>2, <3>3, Zenon
  <2>7. ShadowInv'
    BY <2>6, Zenon DEF ShadowInv, Valid, Bytes
  <2>8. allocs' \in [Block -> Int] /\ allocs'[b] = Freed /\ \A c \in Block : c # b => allocs'[c] = allocs[c]
    BY <2>1 DEF MemTypes, Freed
  <2>9. TableInv'
    BY <2>8, <1>5, <1>12, Zenon DEF TableInv, NotInTable, Freed
  <2>10. MemTypes' /\ StackInv'
    BY <1>5, <1>6, <2>4, <2>8, Zenon DEF MemTypes, Moved, MemBytes, Bytes, Block
  <2> QED BY <1>10, <1>11, <2>2, <2>7, <2>9, <2>10, Zenon
<1> QED BY <1>13, <1>14, Zenon

\* memcheck_free_post().
LEMMA FreePostStep ==
  ASSUME MemInv, NEW t \in MThread, FreePost(t)
  PROVE  MemInv'
<1> USE DEF MemInv
<1>1. /\ calls[t] # <<>> /\ Leave(t)
      /\ Top(t).fn = "ignored" \/ (Top(t).fn = "free" /\ Top(t).at = "out")
      /\ UNCHANGED <<shadow, allocs, heap, mapped, lost, verdicts>>
  BY Zenon DEF FreePost
<1>2. Held(t) = {}
  <2>1. GoodStack(calls[t]) /\ FrameOk(Top(t)) /\ Held(t) = Top(t).ptr
    BY <1>1, Zenon DEF StackInv, HeldInv, Held, HeldOf, Top
  <2>2. Top(t).fn = "ignored" => Top(t).ptr = {}
    BY <1>1, <2>1, TopOfStack, Zenon DEF Top
  <2>3. Top(t).fn = "free" /\ Top(t).at = "out" => \A b : b \notin Top(t).ptr
    BY <2>1, Zenon DEF FrameOk, FrameGood
  <2> QED BY <1>1, <2>1, <2>2, <2>3, Zenon
<1>3. /\ Moved(t) /\ Held(t)' = {}
      /\ calls'[t] # <<>> => Top(t)'.fn = "ignored" /\ Top(t)'.ptr = {}
  BY <1>1, LeaveMoves, Zenon
<1>4. calls'[t] # <<>> => FrameOk(Top(t))'
  BY <1>3, IgnoredFrame, Zenon DEF FrameOk
<1>5. \A b \in Block : b \in InCall' <=> b \in InCall
  BY <1>2, <1>3, InCallMoves, Zenon
<1>6. HeldInv'
  BY <1>1, <1>3, <1>4, HeldMoves
<1>7. MemTypes' /\ StackInv'
  BY <1>1, <1>3, Zenon DEF MemTypes, Moved, MemBytes, Bytes, Block
<1>8. HeapInv' /\ VerdictInv'
  BY <1>1, Zenon DEF HeapInv, VerdictInv, FreeReportsExact
<1>9. \A b \in Block : (Ours(b)' <=> Ours(b)) /\ heap'[b] = heap[b]
  BY <1>1, <1>5, Zenon DEF Ours, Owned
<1>10. TableInv' /\ ShadowInv'
  BY <1>1, <1>9, SameShadow, Zenon
<1> QED BY <1>6, <1>7, <1>8, <1>10, Zenon

\* memcheck_malloc_post().
LEMMA MallocPostStep ==
  ASSUME MemInv, NEW t \in MThread, MallocPost(t)
  PROVE  MemInv'
<1> USE DEF MemInv
<1>1. /\ calls[t] # <<>> /\ Leave(t)
      /\ Top(t).fn \in {"malloc", "realloc"} /\ Top(t).at = "out"
      /\ heap' = heap /\ mapped' = mapped /\ lost' = lost /\ verdicts' = verdicts
      /\ \/ Top(t).ptr = {} /\ allocs' = allocs /\ shadow' = shadow
         \/ \E b \in Top(t).ptr : AllocHook(b, Top(t).size)
  BY Zenon DEF MallocPost
<1>2. GoodStack(calls[t]) /\ FrameOk(Top(t)) /\ Held(t) = Top(t).ptr
  BY <1>1, Zenon DEF StackInv, HeldInv, Held, HeldOf, Top
<1>3. /\ Moved(t) /\ Held(t)' = {}
      /\ calls'[t] # <<>> => Top(t)'.fn = "ignored" /\ Top(t)'.ptr = {}
  BY <1>1, LeaveMoves, Zenon
<1>4. calls'[t] # <<>> => FrameOk(Top(t))'
  BY <1>3, IgnoredFrame, Zenon DEF FrameOk
<1>5. HeldInv'
  BY <1>1, <1>3, <1>4, HeldMoves
<1>6. HeapInv' /\ VerdictInv'
  BY <1>1, Zenon DEF HeapInv, VerdictInv, FreeReportsExact
<1>7. CASE Top(t).ptr = {} /\ allocs' = allocs /\ shadow' = shadow
  <2>0. Held(t) = {}
    BY ONLY <1>2, <1>7, Zenon
  <2>1. \A b \in Block : b \in InCall' <=> b \in InCall
    BY ONLY MemInv, t \in MThread, <1>3, <2>0, InCallMoves, Zenon DEF MemInv
  <2>2. MemTypes' /\ StackInv'
    BY <1>1, <1>3, <1>7, Zenon DEF MemTypes, Moved, MemBytes, Bytes, Block
  <2>3. \A b \in Block : (Ours(b)' <=> Ours(b)) /\ heap'[b] = heap[b]
    BY <1>1, <2>1, Zenon DEF Ours, Owned
  <2>4. TableInv' /\ ShadowInv'
    BY <1>1, <1>7, <2>3, SameShadow, Zenon
  <2> QED BY <1>5, <1>6, <2>2, <2>4, Zenon
<1>8. CASE \E b \in Top(t).ptr : AllocHook(b, Top(t).size)
  <2>1. PICK b \in Top(t).ptr : AllocHook(b, Top(t).size)
    BY <1>8
  <2>2. b \in Block /\ Top(t).ptr \subseteq Block
    <3>1. LastOf(calls[t]) \in FrameType
      BY <1>1, <1>2, TopOfStack, Zenon
    <3>2. LastOf(calls[t]).ptr \subseteq Block
      BY <3>1 DEF FrameType
    <3> QED BY <3>2, Zenon DEF Top
  <2>3. heap[b] = Top(t).size /\ b \notin lost /\ Top(t).size \in AllocSize /\ \A c \in Top(t).ptr : c = b
    BY <1>1, <1>2, Zenon DEF FrameOk, FrameGood
  <2>4. heap[b] \in Nat /\ heap[b] > 0 /\ heap[b] <= BlockSize
    BY <2>3, Sizes, Zenon
  <2>5. allocs' = [allocs EXCEPT ![b] = heap[b]] /\ shadow' = Mark(shadow, b, heap[b], TRUE)
    BY <2>1, <2>3, Zenon DEF AllocHook
  <2>6. b \in InCall /\ \A c \in Block : c \in InCall' <=> c \in InCall /\ c # b
    <3>1. b \in Held(t) /\ \A c \in Held(t) : c = b
      BY ONLY <1>2, <2>1, <2>3, Zenon
    <3>2. ASSUME NEW c \in Block
          PROVE  /\ c \in InCall' <=> c \in Held(t)' \/ (c \in InCall /\ c \notin Held(t))
                 /\ c \in InCall <=> \E u \in MThread : c \in Held(u)
      BY ONLY <3>2, MemInv, t \in MThread, <1>3, InCallMoves, Zenon DEF MemInv
    <3> QED BY ONLY <3>1, <3>2, <1>3, <2>2, t \in MThread, Zenon
  <2>7. Ours(b)' /\ ~Ours(b) /\ \A c \in Block : c # b => (Ours(c)' <=> Ours(c))
    BY <1>1, <2>2, <2>3, <2>4, <2>6, Zenon DEF Ours, Owned
  <2>8. /\ shadow' \in [{x \div 8 : x \in MemBytes} -> SUBSET (0..7)]
        /\ \A c \in Block : \A x \in Bytes(c, BlockSize) : c # b => (Valid(shadow', x) <=> Valid(shadow, x))
        /\ \A x \in Bytes(b, BlockSize) :
             Valid(shadow', x) <=> IF x < b + heap[b] THEN TRUE ELSE Valid(shadow, x)
    BY <2>2, <2>4, <2>5, MarkBlock, Zenon
  <2>9. ~(b \in Page /\ mapped[b] = "app")
    BY <2>4, Zenon DEF HeapInv
  <2>10. ASSUME NEW c \in Block, NEW x \in Bytes(c, BlockSize)
        PROVE  Valid(shadow', x) <=>
                 (c \in Page /\ mapped'[c] = "app") \/ (Ours(c)' /\ x < c + heap'[c])
    <3>1. Valid(shadow, x) <=> (c \in Page /\ mapped[c] = "app") \/ (Ours(c) /\ x < c + heap[c])
      BY Zenon DEF ShadowInv
    <3>2. CASE c = b
      BY <3>1, <3>2, <2>7, <2>8, <2>9, <2>10, <1>1, Zenon
    <3>3. CASE c # b
      BY <3>1, <3>3, <2>7, <2>8, <1>1, Zenon
    <3> QED BY <3>2, <3>3, Zenon
  <2>11. ShadowInv'
    BY <2>10, Zenon DEF ShadowInv, Valid, Bytes
  <2>12. allocs' \in [Block -> Int] /\ allocs'[b] = heap[b] /\ \A c \in Block : c # b => allocs'[c] = allocs[c]
    BY <2>2, <2>4, <2>5 DEF MemTypes
  <2>13. TableInv'
    BY <1>1, <2>7, <2>12, Zenon DEF TableInv, NotInTable, Freed
  <2>14. MemTypes' /\ StackInv'
    BY <1>1, <1>3, <2>8, <2>12, Zenon DEF MemTypes, Moved, MemBytes, Bytes, Block
  <2> QED BY <1>5, <1>6, <2>11, <2>13, <2>14, Zenon
<1> QED BY <1>1, <1>7, <1>8, Zenon

\* mmap() and munmap(), of a page with no block in use: for the program the
\* callback marks it, for the allocator it does not.
LEMMA VmStep ==
  ASSUME MemInv, NEW t \in MThread, NEW b \in Page, NEW v \in BOOLEAN, NEW w \in {"none", "app", "heap"},
         heap[b] = 0,
         v => w = (IF calls[t] = <<>> THEN "app" ELSE "heap"),
         ~v => w = "none",
         calls[t] # <<>> => mapped[b] # "app",
         mapped' = [mapped EXCEPT ![b] = w], shadow' = VmOpMark(t, b, v),
         UNCHANGED <<allocs, in_malloc, calls, heap, lost, verdicts, mcalls, lib>>
  PROVE  MemInv'
<1> USE DEF MemInv
<1>1. mapped' \in [Page -> {"none", "app", "heap"}] /\ mapped'[b] = w
      /\ \A c \in Page : c # b => mapped'[c] = mapped[c]
  BY DEF MemTypes
<1>2. b \in Block /\ BlockSize \in Nat /\ BlockSize <= BlockSize
  BY MemCheckAssumption DEF Block
<1>3. in_malloc[t] = 0 <=> calls[t] = <<>>
  <2>1. in_malloc[t] = Len(calls[t]) /\ calls[t] \in Seq(FrameType)
    BY Zenon DEF StackInv, GoodStack
  <2> QED BY <2>1
<1>4. ~(heap[b] > 0)
  OBVIOUS
<1>5. HeapInv' /\ VerdictInv' /\ StackInv' /\ HeldInv'
  <2>1. HeapInv'
    BY <1>1, <1>4, Zenon DEF HeapInv
  <2>2. VerdictInv' /\ StackInv'
    BY Zenon DEF VerdictInv, FreeReportsExact, StackInv, GoodStack, FrameType, Block
  <2>3. HeldInv'
    BY Zenon DEF HeldInv, FrameOk, Top, Held
  <2> QED BY <2>1, <2>2, <2>3
<1>6. \A c \in Block : (Ours(c)' <=> Ours(c)) /\ heap'[c] = heap[c]
  BY Zenon DEF Ours, Owned, InCall
<1>7. ~Ours(b)
  BY <1>4, Zenon DEF Ours, Owned
<1>8. CASE calls[t] = <<>>
  <2>1. shadow' = Mark(shadow, b, BlockSize, v)
    BY <1>3, <1>8, Zenon DEF VmOpMark
  <2>2. /\ shadow' \in [{x \div 8 : x \in MemBytes} -> SUBSET (0..7)]
        /\ \A c \in Block : \A x \in Bytes(c, BlockSize) : c # b => (Valid(shadow', x) <=> Valid(shadow, x))
        /\ \A x \in Bytes(b, BlockSize) :
             Valid(shadow', x) <=> IF x < b + BlockSize THEN v ELSE Valid(shadow, x)
    BY ONLY MemTypes, v \in BOOLEAN, <1>2, <2>1, MarkBlock, Zenon
  <2>3. \A x \in Bytes(b, BlockSize) : x < b + BlockSize
    BY <1>2, MemCheckAssumption DEF Bytes, Block
  <2>4. v <=> mapped'[b] = "app"
    BY <1>1, <1>8, Zenon
  <2>5. ASSUME NEW c \in Block, NEW x \in Bytes(c, BlockSize)
        PROVE  Valid(shadow', x) <=>
                 (c \in Page /\ mapped'[c] = "app") \/ (Ours(c)' /\ x < c + heap'[c])
    <3>1. Valid(shadow, x) <=> (c \in Page /\ mapped[c] = "app") \/ (Ours(c) /\ x < c + heap[c])
      BY Zenon DEF ShadowInv
    <3>2. CASE c = b
      BY <3>2, <2>2, <2>3, <2>4, <2>5, <1>6, <1>7, Zenon
    <3>3. CASE c # b
      BY <3>1, <3>3, <2>2, <1>1, <1>6, Zenon
    <3> QED BY <3>2, <3>3, Zenon
  <2>6. ShadowInv'
    BY <2>5, Zenon DEF ShadowInv, Valid, Bytes
  <2>7. TableInv'
    BY <1>6, Zenon DEF TableInv, NotInTable, Freed
  <2>8. MemTypes'
    BY <1>1, <2>2, Zenon DEF MemTypes, MemBytes, Bytes, Block
  <2> QED BY <1>5, <2>6, <2>7, <2>8, Zenon
<1>9. CASE calls[t] # <<>>
  <2>1. shadow' = shadow
    BY <1>3, <1>9, Zenon DEF VmOpMark
  <2>2. \A c \in Page : mapped'[c] = "app" <=> mapped[c] = "app"
    BY <1>1, <1>9, Zenon
  <2>3. TableInv' /\ ShadowInv'
    BY <1>6, <2>1, <2>2, SameShadow, Zenon
  <2>4. MemTypes'
    BY <1>1, <2>1, Zenon DEF MemTypes, MemBytes, Bytes, Block
  <2> QED BY <1>5, <2>3, <2>4, Zenon
<1> QED BY <1>8, <1>9

\* A page is mapped, by the application or by the allocator.
LEMMA VmMapStep ==
  ASSUME MemInv, NEW t \in MThread, NEW b \in Page, VmMap(t, b)
  PROVE  MemInv'
<1>1. heap[b] = 0
  <2>1. ~(heap[b] > 0)
    BY Zenon DEF MemInv, HeapInv, VmMap
  <2>2. heap[b] \in Nat
    BY Sizes, Zenon DEF MemInv, Block
  <2> QED BY <2>1, <2>2
<1>2. PICK w : w = IF calls[t] = <<>> THEN "app" ELSE "heap"
  BY Zenon
<1>3. w \in {"none", "app", "heap"} /\ mapped[b] # "app" /\ mapped' = [mapped EXCEPT ![b] = w]
  BY <1>2, Zenon DEF VmMap
<1> QED BY <1>1, <1>2, <1>3, VmStep, Zenon DEF VmMap

\* A page is unmapped.
LEMMA VmUnmapStep ==
  ASSUME MemInv, NEW t \in MThread, NEW b \in Page, VmUnmap(t, b)
  PROVE  MemInv'
<1>1. heap[b] = 0
  <2>1. heap[b] \in Nat
    BY Sizes, Zenon DEF MemInv, Block
  <2>2. heap[b] > 0 => mapped[b] = "heap"
    BY Zenon DEF MemInv, HeapInv
  <2>3. mapped[b] = "app" \/ heap[b] = 0
    BY Zenon DEF VmUnmap
  <2> QED BY <2>1, <2>2, <2>3
<1>2. calls[t] # <<>> => mapped[b] # "app"
  BY Zenon DEF VmUnmap
<1> QED BY <1>1, <1>2, VmStep, Zenon DEF VmUnmap

\* The frame of a call that the allocator has done its part of.
LEMMA OutFrame ==
  ASSUME NEW f \in FrameType, NEW P \in SUBSET Block
  PROVE  /\ [f EXCEPT !.ptr = P, !.at = "out"] \in FrameType
         /\ [f EXCEPT !.ptr = P, !.at = "out"].fn = f.fn
         /\ [f EXCEPT !.ptr = P, !.at = "out"].size = f.size
         /\ [f EXCEPT !.ptr = P, !.at = "out"].ptr = P
         /\ [f EXCEPT !.ptr = P, !.at = "out"].at = "out"
BY Zenon DEF FrameType

\* The call returns what it was given.
LEMMA OutFrameSame ==
  ASSUME NEW f \in FrameType
  PROVE  /\ [f EXCEPT !.at = "out"] \in FrameType
         /\ [f EXCEPT !.at = "out"].fn = f.fn
         /\ [f EXCEPT !.at = "out"].size = f.size
         /\ [f EXCEPT !.at = "out"].ptr = f.ptr
         /\ [f EXCEPT !.at = "out"].at = "out"
BY DEF FrameType

\* The allocator takes the blocks of the call, and then the call has the blocks
\* of ptr: those that are new in it were free, those that have left it are free
\* or lost, and nothing else changes.
Handover(t, ptr) ==
  /\ \A b \in Block : b \notin Held(t) /\ b \notin ptr =>
                            heap'[b] = heap[b] /\ (b \in lost' <=> b \in lost)
  /\ \A b \in Held(t) : b \notin ptr => heap'[b] = 0 \/ b \in lost'
  /\ \A b \in ptr : b \notin Held(t) => heap[b] = 0 /\ b \notin InCall

\* What every outcome of the allocator has in common: the blocks that it takes
\* were free and those that it gives up are not the program's, so the shadow
\* memory needs no change until the call returns.
LEMMA AllocatorStep ==
  ASSUME MemInv, NEW t \in MThread, calls[t] # <<>>, NEW g \in FrameType, g.fn # "ignored",
         calls' = SetTop(t, g), heap' \in [Block -> AllocSize \cup {0}], lost' \subseteq Block,
         FrameGood(g, heap', lost'), HeapInv',
         Handover(t, g.ptr),
         UNCHANGED <<shadow, allocs, in_malloc, mapped, verdicts, mcalls, lib>>
  PROVE  MemInv'
<1> USE DEF MemInv
<1>0. /\ \A b \in Block : b \notin Held(t) /\ b \notin g.ptr =>
                            heap'[b] = heap[b] /\ (b \in lost' <=> b \in lost)
      /\ \A b \in Held(t) : b \notin g.ptr => heap'[b] = 0 \/ b \in lost'
      /\ \A b \in g.ptr : b \notin Held(t) => heap[b] = 0 /\ b \notin InCall
  BY Zenon DEF Handover
<1>1. Moved(t) /\ Held(t)' = g.ptr /\ calls'[t] # <<>> /\ Top(t)' = g
  BY SetTopMoves, Zenon
<1>2. ASSUME NEW b \in Block
      PROVE  /\ b \in InCall' <=> b \in g.ptr \/ (b \in InCall /\ b \notin Held(t))
             /\ b \in InCall <=> \E u \in MThread : b \in Held(u)
  <2>1. Moved(t) /\ Held(t)' = g.ptr
    BY <1>1
  <2>2. /\ b \in InCall' <=> b \in Held(t)' \/ (b \in InCall /\ b \notin Held(t))
        /\ b \in InCall <=> \E u \in MThread : b \in Held(u)
    BY ONLY <2>1, <1>2, MemInv, t \in MThread, InCallMoves, Zenon DEF MemInv
  <2> QED BY ONLY <2>1, <2>2, Zenon
<1>3. \A u \in MThread : Held(u) \subseteq Block
  <2> SUFFICES ASSUME NEW u \in MThread, calls[u] # <<>> PROVE Top(u).ptr \subseteq Block
    BY Zenon DEF Held, HeldOf, Top
  <2>1. LastOf(calls[u]) \in FrameType
    BY TopOfStack, Zenon DEF StackInv
  <2> QED BY <2>1 DEF FrameType, Top
<1>4. ASSUME NEW u \in MThread \ {t}, NEW b \in Held(u)
      PROVE  b \in Block /\ b \notin Held(t) /\ b \notin g.ptr
  <2>1. b \in Block /\ b \in InCall
    BY <1>2, <1>3, <1>4, Zenon
  <2>2. b \notin Held(t)
    BY <1>4, Zenon DEF HeldInv
  <2> QED BY <1>0, <2>1, <2>2, Zenon
<1>5. HeldInv'
  <2>1. FrameOk(Top(t))'
    BY <1>1, Zenon DEF FrameOk
  <2>2. \A u \in MThread \ {t} : Held(t)' \cap Held(u) = {}
    BY <1>1, <1>4, Zenon
  <2>3. \A u \in MThread \ {t} : \A b \in Held(u) : heap'[b] = heap[b] /\ (b \in lost' <=> b \in lost)
    BY <1>0, <1>4, Zenon
  <2> QED BY <1>1, <2>1, <2>2, <2>3, HeldMoves, Zenon
<1>6. ASSUME NEW b \in Block
      PROVE  (Ours(b)' <=> Ours(b)) /\ (Ours(b) => heap'[b] = heap[b])
  <2>1. CASE b \in g.ptr
    <3>1. ~Ours(b)'
      BY <1>2, <2>1, Zenon DEF Ours, Owned
    <3>2. b \in Held(t) => ~Ours(b)
      BY <1>2, Zenon DEF Ours, Owned
    <3>3. b \notin Held(t) => ~(heap[b] > 0)
      BY ONLY <1>0, <2>1
    <3> QED BY <3>1, <3>2, <3>3, Zenon DEF Ours, Owned
  <2>2. CASE b \notin g.ptr /\ b \in Held(t)
    <3>1. ~Ours(b)
      BY <1>2, <2>2, Zenon DEF Ours, Owned
    <3>2. ~(heap'[b] > 0) \/ b \in lost'
      BY ONLY <1>0, <2>2
    <3> QED BY <3>1, <3>2, Zenon DEF Ours, Owned
  <2>3. CASE b \notin g.ptr /\ b \notin Held(t)
    BY <1>0, <1>2, <2>3, Zenon DEF Ours, Owned
  <2> QED BY <2>1, <2>2, <2>3, Zenon
<1>7. TableInv' /\ ShadowInv'
  BY <1>6, SameShadow, Zenon
<1>8. MemTypes' /\ StackInv'
  BY <1>1, Zenon DEF MemTypes, Moved, MemBytes, Bytes, Block
<1>9. VerdictInv'
  BY Zenon DEF VerdictInv, FreeReportsExact
<1> QED BY <1>5, <1>7, <1>8, <1>9, Zenon

\* The allocator is done with a malloc(), with or without a block.
LEMMA AllocatorAllocatesStep ==
  ASSUME MemInv, NEW t \in MThread, AllocatorAllocates(t)
  PROVE  MemInv'
<1> USE DEF MemInv
<1> DEFINE f == Top(t)
<1>1. calls[t] # <<>> /\ f.at = "in" /\ UNCHANGED <<shadow, allocs, in_malloc, mapped, verdicts, mcalls, lib>>
  BY Zenon DEF AllocatorAllocates
<1>2. f \in FrameType /\ f.size \in AllocSize \cup {0}
  <2>1. f \in FrameType
    BY <1>1, TopOfStack, Zenon DEF StackInv, Top
  <2> QED BY <2>1 DEF FrameType
<1>3. FrameGood(f, heap, lost) /\ Held(t) = f.ptr
  BY <1>1, Zenon DEF HeldInv, FrameOk, Held, HeldOf, Top
<1>4. heap \in [Block -> AllocSize \cup {0}] /\ lost \subseteq Block
  BY Zenon DEF MemTypes
<1> HIDE DEF f
<1>5. ASSUME f.fn = "malloc", NEW b \in Block, UsableBytes(b), heap' = [heap EXCEPT ![b] = f.size],
             calls' = SetTop(t, [f EXCEPT !.ptr = {b}, !.at = "out"]), lost' = lost
      PROVE  MemInv'
  <2>1. PICK g : g = [f EXCEPT !.ptr = {b}, !.at = "out"]
    BY ONLY Zenon
  <2>2. g \in FrameType /\ g.fn = "malloc" /\ g.size = f.size /\ g.ptr = {b} /\ g.at = "out"
    <3>1. f \in FrameType /\ {b} \in SUBSET Block
      BY <1>2, Zenon
    <3>2. f.fn = "malloc"
      BY <1>5
    <3> QED BY ONLY <3>1, <3>2, <2>1, OutFrame, Zenon
  <2>3. f.ptr = {} /\ f.size \in AllocSize
    BY <1>1, <1>3, <1>5, Zenon DEF FrameGood
  <2>4. /\ heap' \in [Block -> AllocSize \cup {0}] /\ heap'[b] = f.size
        /\ \A c \in Block : c # b => heap'[c] = heap[c]
    BY <1>2, <1>4, <1>5
  <2>5. heap[b] = 0 /\ b \notin InCall /\ (b \in Page => mapped[b] = "heap") /\ ~(heap[b] > 0)
    BY <1>5 DEF UsableBytes
  <2>6. b \notin lost
    BY <2>5, Zenon DEF HeapInv
  <2>7. FrameGood(g, heap', lost')
    BY <1>5, <2>2, <2>3, <2>4, <2>6, Zenon DEF FrameGood
  <2>8. HeapInv'
    BY <1>1, <1>4, <1>5, <2>4, <2>5, <2>6, Zenon DEF HeapInv, Block
  <2>20. Handover(t, g.ptr)
    <3>1. Held(t) = {} /\ g.ptr = {b} /\ lost' = lost /\ heap[b] = 0 /\ b \notin InCall
      BY ONLY <1>3, <1>5, <2>2, <2>3, <2>5
    <3> QED BY ONLY <2>4, <3>1, Zenon DEF Handover
  <2>21. calls' = SetTop(t, g) /\ calls[t] # <<>> /\ g.fn # "ignored" /\ lost' \subseteq Block
         /\ heap' \in [Block -> AllocSize \cup {0}]
         /\ UNCHANGED <<shadow, allocs, in_malloc, mapped, verdicts, mcalls, lib>>
    BY <1>1, <1>4, <1>5, <2>1, <2>2, <2>4, Zenon
  <2> QED BY ONLY MemInv, t \in MThread, <2>2, <2>7, <2>8, <2>20, <2>21, AllocatorStep, Zenon
<1>6. ASSUME f.fn = "malloc", heap' = heap, calls' = SetTop(t, [f EXCEPT !.at = "out"]), lost' = lost
      PROVE  MemInv'
  <2>1. PICK g : g = [f EXCEPT !.at = "out"]
    BY ONLY Zenon
  <2>2. f.ptr = {} /\ f.size \in AllocSize
    BY <1>1, <1>3, <1>6, Zenon DEF FrameGood
  <2>3. g \in FrameType /\ g.fn = "malloc" /\ g.size = f.size /\ g.ptr = {} /\ g.at = "out"
    <3>1. f \in FrameType /\ {} \in SUBSET Block
      BY <1>2, Zenon
    <3>2. f.fn = "malloc"
      BY <1>6
    <3> QED BY ONLY <3>1, <3>2, <2>1, <2>2, OutFrameSame, Zenon
  <2>4. FrameGood(g, heap', lost')
    BY <2>2, <2>3, Zenon DEF FrameGood
  <2>5. HeapInv'
    BY <1>1, <1>6, Zenon DEF HeapInv
  <2>20. Handover(t, g.ptr)
    BY ONLY <1>3, <1>6, <2>2, <2>3, Zenon DEF Handover
  <2>21. calls' = SetTop(t, g) /\ calls[t] # <<>> /\ g.fn # "ignored" /\ lost' \subseteq Block
         /\ heap' \in [Block -> AllocSize \cup {0}]
         /\ UNCHANGED <<shadow, allocs, in_malloc, mapped, verdicts, mcalls, lib>>
    BY <1>1, <1>4, <1>6, <2>1, <2>3, Zenon
  <2> QED BY ONLY MemInv, t \in MThread, <2>3, <2>4, <2>5, <2>20, <2>21, AllocatorStep, Zenon
<1>7. ASSUME f.fn \in {"free", "realloc"}
      PROVE  \E old \in Block : f.ptr = {old} /\ (f.owned <=> heap[old] > 0)
  BY <1>1, <1>3, <1>7, Zenon DEF FrameGood
<1>8. ASSUME f.fn = "realloc", f.owned, NEW old \in Block, f.ptr = {old}, NEW b \in Block,
             b = old \/ UsableBytes(b), heap' = [heap EXCEPT ![old] = 0, ![b] = f.size],
             calls' = SetTop(t, [f EXCEPT !.ptr = {b}, !.at = "out"]), lost' = lost \ {old}
      PROVE  MemInv'
  <2>1. PICK g : g = [f EXCEPT !.ptr = {b}, !.at = "out"]
    BY ONLY Zenon
  <2>2. g \in FrameType /\ g.fn = "realloc" /\ g.size = f.size /\ g.ptr = {b} /\ g.at = "out"
    <3>1. f \in FrameType /\ {b} \in SUBSET Block
      BY <1>2, Zenon
    <3>2. f.fn = "realloc"
      BY <1>8
    <3> QED BY ONLY <3>1, <3>2, <2>1, OutFrame, Zenon
  <2>3. f.size \in AllocSize /\ heap[old] > 0
    <3>1. f.size \in AllocSize
      BY <1>3, <1>8, Zenon DEF FrameGood
    <3>2. \A a \in Block : f.ptr = {a} => a = old
      BY <1>8
    <3> QED BY <1>7, <1>8, <3>1, <3>2, Zenon
  <2>4. /\ heap' \in [Block -> AllocSize \cup {0}] /\ heap'[b] = f.size
        /\ \A c \in Block : c # b /\ c # old => heap'[c] = heap[c]
        /\ old # b => heap'[old] = 0
    BY <1>2, <1>4, <1>8
  <2>5. b # old => heap[b] = 0 /\ b \notin InCall /\ (b \in Page => mapped[b] = "heap") /\ ~(heap[b] > 0)
    BY <1>8 DEF UsableBytes
  <2>6. b \notin lost'
    BY <1>8, <2>5, Zenon DEF HeapInv
  <2>7. FrameGood(g, heap', lost')
    BY <2>2, <2>3, <2>4, <2>6, Zenon DEF FrameGood
  <2>8. HeapInv'
    <3>1. \A c \in lost' : heap'[c] > 0
      BY <1>4, <1>8, <2>4, <2>6, Zenon DEF HeapInv
    <3>2. ASSUME NEW c \in Page, heap'[c] > 0
          PROVE  mapped[c] = "heap"
      <4>1. CASE c = b
        BY <4>1, <2>3, <2>5, <3>2, Zenon DEF HeapInv
      <4>2. CASE c # b /\ c = old
        BY <4>2, <2>3, <3>2, Zenon DEF HeapInv
      <4>3. CASE c # b /\ c # old
        BY <4>3, <2>4, <3>2, Zenon DEF HeapInv, Block
      <4> QED BY <4>1, <4>2, <4>3, Zenon
    <3> QED BY <1>1, <3>1, <3>2, Zenon DEF HeapInv
  <2>9. lost' \subseteq Block /\ \A c \in Block : c # old => (c \in lost' <=> c \in lost)
    BY <1>4, <1>8
  <2>10. Held(t) = {old}
    BY <1>3, <1>8, Zenon
  <2>20. Handover(t, g.ptr)
    BY ONLY <2>2, <2>4, <2>5, <2>9, <2>10, Zenon DEF Handover
  <2>21. calls' = SetTop(t, g) /\ calls[t] # <<>> /\ g.fn # "ignored" /\ lost' \subseteq Block
         /\ heap' \in [Block -> AllocSize \cup {0}]
         /\ UNCHANGED <<shadow, allocs, in_malloc, mapped, verdicts, mcalls, lib>>
    BY <1>1, <1>8, <2>1, <2>2, <2>4, <2>9, Zenon
  <2> QED BY ONLY MemInv, t \in MThread, <2>2, <2>7, <2>8, <2>20, <2>21, AllocatorStep, Zenon
<1>9. ASSUME f.fn = "realloc", f.owned, NEW old \in Block, f.ptr = {old}, heap' = heap,
             calls' = SetTop(t, [f EXCEPT !.ptr = {}, !.at = "out"]), lost' = lost \union {old}
      PROVE  MemInv'
  <2>1. PICK g : g = [f EXCEPT !.ptr = {}, !.at = "out"]
    BY ONLY Zenon
  <2>2. g \in FrameType /\ g.fn = "realloc" /\ g.size = f.size /\ g.ptr = {} /\ g.at = "out"
    <3>1. f \in FrameType /\ {} \in SUBSET Block
      BY <1>2, Zenon
    <3>2. f.fn = "realloc"
      BY <1>9
    <3> QED BY ONLY <3>1, <3>2, <2>1, OutFrame, Zenon
  <2>3. f.size \in AllocSize /\ heap[old] > 0
    <3>1. f.size \in AllocSize
      BY <1>3, <1>9, Zenon DEF FrameGood
    <3>2. \A a \in Block : f.ptr = {a} => a = old
      BY <1>9
    <3> QED BY <1>7, <1>9, <3>1, <3>2, Zenon
  <2>4. FrameGood(g, heap', lost')
    BY <2>2, <2>3, Zenon DEF FrameGood
  <2>5. HeapInv'
    BY <1>1, <1>9, <2>3, Zenon DEF HeapInv
  <2>6. lost' \subseteq Block /\ old \in lost' /\ \A c \in Block : c # old => (c \in lost' <=> c \in lost)
    BY <1>4, <1>9
  <2>7. Held(t) = {old}
    BY <1>3, <1>9, Zenon
  <2>20. Handover(t, g.ptr)
    BY ONLY <1>9, <2>2, <2>6, <2>7, Zenon DEF Handover
  <2>21. calls' = SetTop(t, g) /\ calls[t] # <<>> /\ g.fn # "ignored" /\ lost' \subseteq Block
         /\ heap' \in [Block -> AllocSize \cup {0}]
         /\ UNCHANGED <<shadow, allocs, in_malloc, mapped, verdicts, mcalls, lib>>
    BY <1>1, <1>4, <1>9, <2>1, <2>2, <2>6, Zenon
  <2> QED BY ONLY MemInv, t \in MThread, <2>2, <2>4, <2>5, <2>20, <2>21, AllocatorStep, Zenon
<1>10. ASSUME f.fn \in {"realloc", "free"}, f.owned => f.fn = "free",
              heap' = [b \in Block |-> IF f.owned /\ b \in f.ptr THEN 0 ELSE heap[b]],
              lost' = IF f.owned THEN lost \ f.ptr ELSE lost,
              calls' = SetTop(t, [f EXCEPT !.ptr = {}, !.at = "out"])
       PROVE  MemInv'
  <2>1. PICK g : g = [f EXCEPT !.ptr = {}, !.at = "out"]
    BY ONLY Zenon
  <2>2. g \in FrameType /\ g.fn = f.fn /\ g.size = f.size /\ g.ptr = {} /\ g.at = "out"
    <3>1. f \in FrameType /\ {} \in SUBSET Block
      BY <1>2, Zenon
    <3> QED BY ONLY <3>1, <2>1, OutFrame, Zenon
  <2>3. PICK old \in Block : f.ptr = {old} /\ (f.owned <=> heap[old] > 0)
    BY <1>7, <1>10, Zenon
  <2>4. heap[old] \in Nat /\ heap[old] > 0 => heap[old] # 0
    OBVIOUS
  <2>5. /\ heap' \in [Block -> AllocSize \cup {0}] /\ heap'[old] = 0
        /\ \A c \in Block : c # old => heap'[c] = heap[c]
    <3>1. ~f.owned => heap[old] = 0
      <4>1. heap[old] \in Nat
        BY Sizes, Zenon
      <4> QED BY <2>3, <4>1
    <3> QED BY <1>4, <1>10, <2>3, <3>1
  <2>6. lost' \subseteq Block /\ \A c \in Block : c # old => (c \in lost' <=> c \in lost)
    BY <1>4, <1>10, <2>3
  <2>7. old \notin lost' /\ ~(heap'[old] > 0)
    <3>1. ~f.owned => old \notin lost
      BY <2>3, Zenon DEF HeapInv
    <3> QED BY <1>10, <2>3, <2>5, <3>1
  <2>8. FrameGood(g, heap', lost')
    <3>1. f.fn = "realloc" => f.size \in AllocSize
      BY <1>3, Zenon DEF FrameGood
    <3> QED BY <1>10, <2>2, <3>1, Zenon DEF FrameGood
  <2>9. HeapInv'
    BY <1>1, <2>5, <2>6, <2>7, Zenon DEF HeapInv, Block
  <2>10. Held(t) = {old}
    BY <1>3, <2>3, Zenon
  <2>11. g.fn # "ignored"
    BY <1>10, <2>2, Zenon
  <2>20. Handover(t, g.ptr)
    BY ONLY <2>2, <2>5, <2>6, <2>10, Zenon DEF Handover
  <2>21. calls' = SetTop(t, g) /\ calls[t] # <<>> /\ g.fn # "ignored" /\ lost' \subseteq Block
         /\ heap' \in [Block -> AllocSize \cup {0}]
         /\ UNCHANGED <<shadow, allocs, in_malloc, mapped, verdicts, mcalls, lib>>
    BY <1>1, <1>10, <2>1, <2>2, <2>5, <2>6, <2>11, Zenon
  <2> QED BY ONLY MemInv, t \in MThread, <2>2, <2>8, <2>9, <2>20, <2>21, AllocatorStep, Zenon
<1>11. CASE f.fn = "malloc"
  <2>1. \/ \E b \in Block : /\ UsableBytes(b) /\ heap' = [heap EXCEPT ![b] = f.size]
                            /\ calls' = SetTop(t, [f EXCEPT !.ptr = {b}, !.at = "out"]) /\ lost' = lost
        \/ heap' = heap /\ calls' = SetTop(t, [f EXCEPT !.at = "out"]) /\ lost' = lost
    BY <1>11, Zenon DEF AllocatorAllocates, f
  <2> QED BY <1>5, <1>6, <1>11, <2>1, Zenon
<1>12. CASE f.fn = "realloc" /\ f.owned
  <2>1. PICK old \in Block : f.ptr = {old}
    BY <1>7, <1>12, Zenon
  <2>2. (CHOOSE b \in f.ptr : TRUE) = old
    BY <2>1
  <2>3. \/ \E b \in Block :
             /\ b = old \/ UsableBytes(b)
             /\ heap' = [heap EXCEPT ![old] = 0, ![b] = f.size]
             /\ calls' = SetTop(t, [f EXCEPT !.ptr = {b}, !.at = "out"])
             /\ lost' = lost \ {old}
        \/ /\ heap' = heap /\ lost' = lost \union {old}
           /\ calls' = SetTop(t, [f EXCEPT !.ptr = {}, !.at = "out"])
    BY <1>12, <2>2, Zenon DEF AllocatorAllocates, f
  <2> QED BY <1>8, <1>9, <1>12, <2>1, <2>3, Zenon
<1>13. CASE f.fn \in {"realloc", "free"} /\ (f.owned => f.fn = "free")
  <2>1. /\ heap' = [b \in Block |-> IF f.owned /\ b \in f.ptr THEN 0 ELSE heap[b]]
        /\ lost' = IF f.owned THEN lost \ f.ptr ELSE lost
        /\ calls' = SetTop(t, [f EXCEPT !.ptr = {}, !.at = "out"])
    BY <1>13, Zenon DEF AllocatorAllocates, f
  <2> QED BY <1>10, <1>13, <2>1, Zenon
<1> QED BY <1>11, <1>12, <1>13, Zenon DEF AllocatorAllocates, f

-----------------------------------------------------------------------------

\* The invariant holds at the start.
LEMMA MemInit ==
  ASSUME MemCheckInit
  PROVE  MemInv
<1>1. MemTypes
  BY DEF MemCheckInit, MemTypes, NotInTable
<1>2. GoodStack(<<>>) /\ Len(<<>>) = 0 /\ HeldOf(<<>>) = {}
  BY DEF GoodStack, HeldOf
<1>3. \A t \in MThread : calls[t] = <<>> /\ in_malloc[t] = 0
  BY Zenon DEF MemCheckInit
<1>4. StackInv /\ HeldInv
  BY <1>2, <1>3, Zenon DEF StackInv, HeldInv, Held
<1>5. \A b \in Block : heap[b] = 0 /\ ~(heap[b] > 0) /\ allocs[b] = NotInTable
  BY DEF MemCheckInit
<1>6. \A b \in Page : mapped[b] = "none" /\ b \in Block
  BY Zenon DEF MemCheckInit, Block
<1>7. HeapInv /\ TableInv
  BY <1>5, <1>6, Zenon DEF HeapInv, TableInv, Ours, Owned, MemCheckInit
<1>8. ASSUME NEW b \in Block, NEW x \in Bytes(b, BlockSize)
      PROVE  ~Valid(shadow, x)
  <2>1. x \div 8 \in {y \div 8 : y \in MemBytes}
    BY Zenon DEF MemBytes
  <2>2. shadow[x \div 8] = {}
    BY <2>1, Zenon DEF MemCheckInit
  <2> QED BY <2>2, Zenon DEF Valid
<1>9. ShadowInv
  BY <1>5, <1>6, <1>8, Zenon DEF ShadowInv, Ours, Owned
<1>10. VerdictInv
  BY DEF VerdictInv, FreeReportsExact, MemCheckInit
<1> QED BY <1>1, <1>4, <1>7, <1>9, <1>10, Zenon DEF MemInv

\* Every step of the program, the library and the checker keeps the invariant.
LEMMA MemNext ==
  ASSUME MemInv, [HeapNext \/ LibNext]_memcheckVars
  PROVE  MemInv'
<1>1. ASSUME UNCHANGED <<shadow, allocs, in_malloc, calls, heap, mapped, lost, verdicts>>
      PROVE  MemInv'
  BY <1>1, Zenon DEF MemInv, MemTypes, StackInv, HeldInv, Held, Top, FrameOk, HeapInv, TableInv, Ours, Owned, InCall,
                     ShadowInv, VerdictInv, FreeReportsExact
<1>2. CASE LibNext
  BY <1>1, <1>2, Zenon DEF LibNext, CallLib
<1>3. CASE UNCHANGED memcheckVars
  BY <1>1, <1>3, Zenon DEF memcheckVars
<1>4. CASE HeapNext
  <2>1. PICK t \in MThread :
    \/ \E size \in AllocSize : CallAlloc(t, size)
    \/ \E b \in Block : CallFree(t, "free", b, 0) \/ \E size \in AllocSize : CallFree(t, "realloc", b, size)
    \/ CallIgnored(t) \/ AllocatorAllocates(t) \/ MallocPost(t) \/ FreePost(t)
    \/ \E b \in Page : VmMap(t, b) \/ VmUnmap(t, b)
    BY <1>4, Zenon DEF HeapNext
  <2>2. ASSUME NEW b \in Block, CallFree(t, "free", b, 0)
        PROVE  MemInv'
    BY <2>2, CallFreeStep, Zenon
  <2>3. ASSUME NEW b \in Block, NEW size \in AllocSize, CallFree(t, "realloc", b, size)
        PROVE  MemInv'
    BY <2>3, CallFreeStep, Zenon
  <2> QED BY <2>1, <2>2, <2>3, CallAllocStep, CallIgnoredStep, AllocatorAllocatesStep, MallocPostStep, FreePostStep,
             VmMapStep, VmUnmapStep, Zenon
<1> QED BY <1>2, <1>3, <1>4, Zenon

\* The shadow memory is exact.
THEOREM ShadowIsExact == MemCheckSpec => []ShadowExact
<1>1. MemInv => ShadowExact
  <2> SUFFICES ASSUME MemInv PROVE ShadowExact
    OBVIOUS
  <2> USE DEF MemInv
  <2>1. ASSUME NEW b \in Block, Ours(b), NEW x \in Bytes(b, heap[b])
        PROVE  Valid(shadow, x)
    <3>1. heap[b] \in Nat /\ heap[b] <= BlockSize /\ b \in Nat /\ BlockSize \in Nat
      BY Sizes, MemCheckAssumption, Zenon DEF Block
    <3>2. x \in Bytes(b, BlockSize) /\ x < b + heap[b]
      BY <3>1, <2>1 DEF Bytes
    <3> QED BY <3>2, <2>1, Zenon DEF ShadowInv
  <2>2. OwnedBytesValid
    BY <2>1, Zenon DEF OwnedBytesValid, Ours
  <2>3. UnownedBytesInvalid
    BY Zenon DEF UnownedBytesInvalid, ShadowInv, Ours, Owned
  <2>4. FreeReportsExact
    BY Zenon DEF VerdictInv
  <2>5. CheckExact
    <3>1. ASSUME NEW b \in Block, NEW x \in Bytes(b, 8), NEW n \in {1, 2, 4, 8}
          PROVE  x \in Nat /\ n \in Nat
      BY MemCheckAssumption DEF Bytes, Block
    <3> QED BY <3>1, CheckTestsTheBytes, Zenon DEF CheckExact
  <2> QED BY <2>2, <2>3, <2>4, <2>5, Zenon DEF ShadowExact
<1> QED BY <1>1, MemInit, MemNext, PTL DEF MemCheckSpec
=============================================================================
