------------------------- MODULE AddressSpaceProofs -------------------------
(***************************************************************************)
(* Proofs about the address space that MAMBO keeps for the application:    *)
(*                                                                         *)
(*   - emulate_brk() (Brk), for any number of threads, whatever breaks they*)
(*     ask for, any page size and any initial break;                       *)
(*   - the interval map of executable allocations (AddressSpace), for any  *)
(*     pages, any number of slots and descriptors, and any mmap(), shmat(),*)
(*     mprotect() and munmap().                                            *)
(***************************************************************************)
EXTENDS AddressSpace, WellFoundedInduction, TLAPS

-----------------------------------------------------------------------------
(* emulate_brk() *)

Inside == {"return", "lock", "assign", "unlock"}
BrkRecord == [pc : Inside \cup {"idle", "done"}, arg : Nat, seen : SUBSET Nat]

BrkTypes ==
  /\ brk \in Nat /\ brk >= InitialBrk
  /\ brkOwner \subseteq BrkThread
  /\ brkCall \in [BrkThread -> BrkRecord]

\* brk_mutex has at most one holder, the thread in the critical section.
BrkMutex ==
  /\ brkOwner = {} \/ \E t \in BrkThread : brkOwner = {t}
  /\ \A t \in BrkThread : brkCall[t].pc \in {"assign", "unlock"} <=> t \in brkOwner

\* The kernel's pages and what plugins know are those of the break b.
AgreesWith(b) == brkPages = PagesOf(BrkSize(b)) /\ brkView = InitialBrk .. b - 1

\* They are those of global_data.brk, except between mremap and the assignment,
\* where they are already those of the break asked for.
BrkAgrees ==
  /\ \A t \in BrkThread : brkCall[t].pc = "assign" =>
       brkCall[t].arg >= InitialBrk /\ AgreesWith(brkCall[t].arg)
  /\ (\A t \in BrkThread : brkCall[t].pc # "assign") => AgreesWith(brk)

\* A call that runs has seen the current break.
BrkSeen ==
  \A t \in BrkThread :
    /\ brkCall[t].pc \in Inside => brk \in brkCall[t].seen
    /\ brkCall[t].pc = "done" => brkCall[t].arg \in brkCall[t].seen

BrkInv == BrkTypes /\ BrkMutex /\ BrkAgrees /\ BrkSeen
-----------------------------------------------------------------------------
\* One page is mapped for the heap that is still empty.
LEMMA FirstPage == PagesOf(BrkSize(InitialBrk)) = 1
<1>1. InitialBrk \in Nat /\ BrkPage \in Nat /\ BrkPage > 0
  BY BrkAssumption
<1>2. BrkSize(InitialBrk) = BrkPage
  BY <1>1 DEF BrkSize, Most
<1>3. \A p \in Nat : p > 0 => (p + p - 1) \div p = 1
  OBVIOUS
<1> QED
  BY <1>1, <1>2, <1>3, Zenon DEF PagesOf

\* The invariant holds when the program starts.
LEMMA BrkInvInit == BrkInit => BrkInv
<1> SUFFICES ASSUME BrkInit PROVE BrkInv
  BY Zenon
<1>1. BrkTypes
  BY BrkAssumption DEF BrkInit, BrkTypes, BrkRecord, IdleCall, Inside
<1>2. BrkMutex
  BY Zenon DEF BrkInit, BrkMutex, IdleCall
<1>3. BrkAgrees
  <2>1. AgreesWith(brk)
    BY FirstPage, BrkAssumption DEF BrkInit, AgreesWith
  <2> QED
    BY <2>1, Zenon DEF BrkInit, BrkAgrees, IdleCall
<1>4. BrkSeen
  BY Zenon DEF BrkInit, BrkSeen, IdleCall, Inside
<1> QED
  BY <1>1, <1>2, <1>3, <1>4, Zenon DEF BrkInv

\* A call enters emulate_brk(), or takes the fast path.
LEMMA BrkCallStep ==
  ASSUME BrkInv, NEW t \in BrkThread, BrkCall(t)
  PROVE  BrkInv'
<1> USE DEF BrkInv
<1>1. PICK a \in BrkArg : brkCall' = [brkCall EXCEPT ![t] =
         [pc |-> IF a = 0 \/ a = brk THEN "return" ELSE "lock", arg |-> a, seen |-> {brk}]]
  BY Zenon DEF BrkCall
<1>2. UNCHANGED <<brk, brkPages, brkView, brkOwner>> /\ brkCall[t].pc = "idle"
  BY Zenon DEF BrkCall
<1>3. BrkTypes'
  BY <1>1, <1>2, BrkAssumption, Zenon DEF BrkTypes, BrkRecord, Inside
<1>4. /\ brkCall'[t].pc \in {"return", "lock"} /\ brkCall'[t].seen = {brk}
      /\ \A u \in BrkThread \ {t} : brkCall'[u] = brkCall[u]
  BY <1>1, Zenon DEF BrkTypes
<1>5. BrkMutex'
  BY <1>2, <1>4, Zenon DEF BrkMutex
<1>6. BrkAgrees'
  BY <1>2, <1>4, Zenon DEF BrkAgrees, AgreesWith
<1>7. BrkSeen'
  BY <1>2, <1>4, Zenon DEF BrkSeen, Inside
<1> QED
  BY <1>3, <1>5, <1>6, <1>7, Zenon

\* Growing or shrinking the range that plugins know by the difference of two
\* breaks gives the range of the new one.
LEMMA ViewMoves ==
  ASSUME NEW i \in Nat, NEW b \in Nat, NEW a \in Nat, b >= i, a >= i
  PROVE  /\ a < b => (i .. a - 1) = (i .. b - 1) \ (a .. b - 1)
         /\ ~(a < b) => (i .. a - 1) = (i .. b - 1) \cup (b .. a - 1)
<1>1. CASE a < b
  <2>1. \A x : x \in (i .. a - 1) <=> x \in (i .. b - 1) /\ x \notin (a .. b - 1)
    BY <1>1
  <2> QED
    BY <1>1, <2>1, Zenon
<1>2. CASE ~(a < b)
  <2>1. \A x : x \in (i .. a - 1) <=> x \in (i .. b - 1) \/ x \in (b .. a - 1)
    BY <1>2
  <2> QED
    BY <1>2, <2>1, Zenon
<1> QED
  BY <1>1, <1>2, Zenon

\* The locked part up to the assignment.
LEMMA BrkRemapStep ==
  ASSUME BrkInv, NEW t \in BrkThread, BrkRemap(t)
  PROVE  BrkInv'
<1> USE DEF BrkInv
<1>1. /\ brkCall[t].pc = "lock" /\ brkOwner = {} /\ brkOwner' = {t} /\ brk' = brk
  BY Zenon DEF BrkRemap, BrkFree
<1>2. \A u \in BrkThread : brkCall[u].pc \notin {"assign", "unlock"}
  BY <1>1, Zenon DEF BrkMutex
<1>3. AgreesWith(brk)
  BY <1>2, Zenon DEF BrkAgrees
<1>4. \E p \in {"assign", "unlock"} : brkCall' = [brkCall EXCEPT ![t].pc = p]
  BY Zenon DEF BrkRemap
<1>5. BrkTypes'
  BY <1>1, <1>4, ZenonT(40) DEF BrkTypes, BrkRecord, Inside
<1>6. /\ brkCall'[t].pc \in {"assign", "unlock"}
      /\ brkCall'[t].arg = brkCall[t].arg /\ brkCall'[t].seen = brkCall[t].seen
      /\ \A u \in BrkThread \ {t} : brkCall'[u] = brkCall[u]
  BY <1>4 DEF BrkTypes, BrkRecord
<1>7. BrkMutex'
  BY <1>1, <1>2, <1>6, Zenon DEF BrkMutex
<1>8. BrkSeen'
  BY <1>1, <1>6, Zenon DEF BrkSeen, Inside
<1>9. BrkAgrees'
  <2>1. CASE brkCall'[t].pc = "unlock"
    <3>1. brkCall' # [brkCall EXCEPT ![t].pc = "assign"]
      BY <2>1, Zenon DEF BrkTypes, BrkRecord
    <3>2. UNCHANGED <<brkPages, brkView>>
      BY <3>1, Zenon DEF BrkRemap
    <3> QED
      BY <1>1, <1>2, <1>3, <1>6, <2>1, <3>2, SMTT(30) DEF BrkAgrees, AgreesWith
  <2>2. CASE brkCall'[t].pc = "assign"
    <3> DEFINE a == brkCall[t].arg
    <3>0. brkCall' # [brkCall EXCEPT ![t].pc = "unlock"] /\ a \in Nat
      BY <2>2, Zenon DEF BrkTypes, BrkRecord
    <3>1. /\ a >= InitialBrk
          /\ brkPages' \in Mremap(BrkSize(brk), BrkSize(a)) /\ brkPages' # 0
          /\ brkView' = IF a < brk THEN brkView \ (a .. brk - 1)
                        ELSE brkView \union (brk .. a - 1)
      BY <3>0, BrkAssumption DEF BrkRemap
    <3>2. brkPages' = PagesOf(BrkSize(a))
      BY <3>1, Zenon DEF Mremap
    <3>3. brkView' = InitialBrk .. a - 1
      <4>1. brkView = InitialBrk .. brk - 1
        BY <1>3, Zenon DEF AgreesWith
      <4>2. brk \in Nat /\ brk >= InitialBrk /\ InitialBrk \in Nat
        BY BrkAssumption, Zenon DEF BrkTypes
      <4>3. a \in Nat /\ a >= InitialBrk
        BY <3>0, <3>1, Zenon
      <4> HIDE DEF a
      <4>4. /\ a < brk => (InitialBrk .. a - 1) = (InitialBrk .. brk - 1) \ (a .. brk - 1)
            /\ ~(a < brk) => (InitialBrk .. a - 1) = (InitialBrk .. brk - 1) \cup (brk .. a - 1)
        BY ONLY <4>2, <4>3, ViewMoves, SMTT(30)
      <4> QED
        BY ONLY <3>1, <4>1, <4>4, Zenon
    <3> QED
      BY <1>2, <1>6, <2>2, <3>1, <3>2, <3>3, ZenonT(40) DEF BrkAgrees, AgreesWith
  <2> QED
    BY <1>6, <2>1, <2>2, Zenon
<1> QED
  BY <1>5, <1>7, <1>8, <1>9, Zenon

\* global_data.brk = addr
LEMMA BrkAssignStep ==
  ASSUME BrkInv, NEW t \in BrkThread, BrkAssign(t)
  PROVE  BrkInv'
<1> USE DEF BrkInv
<1>1. /\ brkCall[t].pc = "assign" /\ brk' = brkCall[t].arg
      /\ UNCHANGED <<brkPages, brkView, brkOwner>>
  BY Zenon DEF BrkAssign
<1>2. /\ brkOwner = {t}
      /\ \A u \in BrkThread \ {t} : brkCall[u].pc \notin {"assign", "unlock"}
  BY <1>1, Zenon DEF BrkMutex
<1>3. /\ DOMAIN brkCall' = BrkThread
      /\ brkCall' = [u \in BrkThread |-> brkCall'[u]]
      /\ \A u \in BrkThread : brkCall'[u] =
           [brkCall[u] EXCEPT !.seen = IF brkCall[u].pc \in {"idle", "done"} THEN @
                                       ELSE @ \union {brk'},
                              !.pc = IF u = t THEN "unlock" ELSE @]
  BY Zenon DEF BrkAssign
<1>4. brk' \in Nat /\ brk' >= InitialBrk
  BY <1>1, Zenon DEF BrkTypes, BrkRecord, BrkAgrees
<1>5. \A u \in BrkThread :
        /\ brkCall'[u] \in BrkRecord
        /\ brkCall'[u].pc = IF u = t THEN "unlock" ELSE brkCall[u].pc
        /\ brkCall'[u].arg = brkCall[u].arg
        /\ brkCall'[u].seen = IF brkCall[u].pc \in {"idle", "done"} THEN brkCall[u].seen
                              ELSE brkCall[u].seen \union {brk'}
  <2> TAKE u \in BrkThread
  <2>1. brkCall[u] \in BrkRecord
    BY Zenon DEF BrkTypes
  <2> QED
    <3> DEFINE seen == IF brkCall[u].pc \in {"idle", "done"} THEN brkCall[u].seen
                       ELSE brkCall[u].seen \union {brk'}
               pc == IF u = t THEN "unlock" ELSE brkCall[u].pc
    <3>1. brkCall'[u] = [brkCall[u] EXCEPT !.seen = seen, !.pc = pc]
      BY <1>3, Zenon
    <3>2. seen \in SUBSET Nat /\ pc \in Inside \cup {"idle", "done"}
      BY <1>4, <2>1, Zenon DEF BrkRecord, Inside
    <3> HIDE DEF seen, pc
    <3>3. /\ brkCall'[u] \in BrkRecord /\ brkCall'[u].pc = pc
          /\ brkCall'[u].arg = brkCall[u].arg /\ brkCall'[u].seen = seen
      BY <2>1, <3>1, <3>2, Zenon DEF BrkRecord
    <3> QED
      BY <3>3, Zenon DEF seen, pc
<1>6. BrkTypes'
  BY <1>1, <1>3, <1>4, <1>5, Zenon DEF BrkTypes
<1>7. BrkMutex'
  BY <1>1, <1>2, <1>5, Zenon DEF BrkMutex
<1>8. BrkAgrees'
  <2>1. AgreesWith(brk)'
    BY <1>1, Zenon DEF BrkAgrees, AgreesWith
  <2> QED
    BY <1>2, <1>5, <2>1, Zenon DEF BrkAgrees
<1>9. BrkSeen'
  BY <1>1, <1>5, Zenon DEF BrkSeen, Inside
<1> QED
  BY <1>6, <1>7, <1>8, <1>9, Zenon

\* pthread_mutex_unlock(&global_data.brk_mutex)
LEMMA BrkUnlockStep ==
  ASSUME BrkInv, NEW t \in BrkThread, BrkUnlock(t)
  PROVE  BrkInv'
<1> USE DEF BrkInv
<1>1. /\ brkCall[t].pc = "unlock" /\ brkOwner' = brkOwner \ {t}
      /\ UNCHANGED <<brk, brkPages, brkView>>
  BY Zenon DEF BrkUnlock
<1>2. /\ brkOwner = {t} /\ brkOwner' = {}
      /\ \A u \in BrkThread \ {t} : brkCall[u].pc \notin {"assign", "unlock"}
  BY <1>1, Zenon DEF BrkMutex
<1>3. BrkTypes'
  BY <1>1, Zenon DEF BrkTypes, BrkRecord, Inside, BrkUnlock
<1>4. /\ brkCall'[t].pc = "return"
      /\ brkCall'[t].arg = brkCall[t].arg /\ brkCall'[t].seen = brkCall[t].seen
      /\ \A u \in BrkThread \ {t} : brkCall'[u] = brkCall[u]
  BY Zenon DEF BrkUnlock, BrkTypes, BrkRecord
<1>5. BrkMutex'
  BY <1>2, <1>4, Zenon DEF BrkMutex
<1>6. BrkAgrees'
  BY <1>1, <1>2, <1>4, Zenon DEF BrkAgrees, AgreesWith
<1>7. BrkSeen'
  BY <1>1, <1>4, Zenon DEF BrkSeen, Inside
<1> QED
  BY <1>3, <1>5, <1>6, <1>7, Zenon

\* The break is read once more and returned; the program may call again.
LEMMA BrkReturnStep ==
  ASSUME BrkInv, NEW t \in BrkThread, BrkReturn(t) \/ BrkDone(t)
  PROVE  BrkInv'
<1> USE DEF BrkInv
<1>1. UNCHANGED <<brk, brkPages, brkView, brkOwner>> /\ brkCall[t].pc \in {"return", "done"}
  BY Zenon DEF BrkReturn, BrkDone
<1>2. /\ brkCall'[t] \in BrkRecord /\ brkCall'[t].pc \in {"done", "idle"}
      /\ brkCall'[t].pc = "done" => /\ brkCall[t].pc = "return"
                                   /\ brkCall'[t].arg = brk
                                   /\ brkCall'[t].seen = brkCall[t].seen
      /\ \A u \in BrkThread \ {t} : brkCall'[u] = brkCall[u]
      /\ DOMAIN brkCall' = BrkThread /\ brkCall' = [u \in BrkThread |-> brkCall'[u]]
  <2>1. CASE BrkReturn(t)
    <3>1. brkCall[t] \in BrkRecord
      BY Zenon DEF BrkTypes
    <3> DEFINE r == [brkCall[t] EXCEPT !.pc = "done", !.arg = brk]
    <3>2. brkCall' = [brkCall EXCEPT ![t] = r] /\ brkCall[t].pc = "return"
      BY <2>1, Zenon DEF BrkReturn, BrkResult
    <3>3. r \in BrkRecord /\ r.pc = "done" /\ r.arg = brk /\ r.seen = brkCall[t].seen
      BY <3>1, Zenon DEF BrkRecord, BrkTypes
    <3> HIDE DEF r
    <3> QED
      BY <3>2, <3>3, Zenon DEF BrkTypes
  <2>2. CASE BrkDone(t)
    <3>1. IdleCall \in BrkRecord /\ IdleCall.pc = "idle"
      BY Zenon DEF IdleCall, BrkRecord
    <3> QED
      BY <2>2, <3>1, Zenon DEF BrkDone, BrkTypes
  <2> QED
    BY <2>1, <2>2, Zenon
<1>3. BrkTypes'
  BY <1>1, <1>2, Zenon DEF BrkTypes
<1>4. BrkMutex'
  BY <1>1, <1>2, Zenon DEF BrkMutex
<1>5. BrkAgrees'
  BY <1>1, <1>2, Zenon DEF BrkAgrees, AgreesWith
<1>6. BrkSeen'
  BY <1>1, <1>2 DEF BrkSeen, Inside
<1> QED
  BY <1>3, <1>4, <1>5, <1>6, Zenon
-----------------------------------------------------------------------------
\* emulate_brk() is exact for any threads and arguments: outside its critical
\* section the kernel's pages and the range announced to plugins are those of
\* global_data.brk, and every call returns a break that was current while it
\* ran, though it reads global_data.brk twice without the mutex.
THEOREM BrkIsExact == BrkSpec => []BrkExact
<1>1. BrkInit => BrkInv
  BY BrkInvInit, Zenon
<1>2. BrkInv /\ [BrkNext]_brkVars => BrkInv'
  <2> SUFFICES ASSUME BrkInv, [BrkNext]_brkVars PROVE BrkInv'
    OBVIOUS
  <2>1. CASE UNCHANGED brkVars
    BY <2>1, Zenon DEF brkVars, BrkInv, BrkTypes, BrkMutex, BrkAgrees, AgreesWith, BrkSeen
  <2>2. CASE BrkNext
    BY <2>2, BrkCallStep, BrkRemapStep, BrkAssignStep, BrkUnlockStep, BrkReturnStep, ZenonT(40) DEF BrkNext
  <2> QED
    BY <2>1, <2>2, Zenon
<1>3. BrkInv => BrkExact
  <2> SUFFICES ASSUME BrkInv PROVE BrkExact
    OBVIOUS
  <2>1. BrkConsistent
    BY Zenon DEF BrkInv, BrkConsistent, BrkMutex, BrkAgrees, AgreesWith, BrkSize
  <2>2. BrkResultCurrent
    BY Zenon DEF BrkInv, BrkResultCurrent, BrkSeen
  <2> QED
    BY <2>1, <2>2, Zenon DEF BrkExact
<1> QED
  BY <1>1, <1>2, <1>3, PTL DEF BrkSpec

-----------------------------------------------------------------------------
(* The interval map *)

\* An address is in the range of an entry.
In(e, p) == e.start <= p /\ p < e.end
\* An entry of the array.  Its range may be empty.
Entry == [start : Int, end : Int, fd : Int]
\* Two entries have no address in common.
Apart(e, f) == \A p \in Int : ~(In(e, p) /\ In(f, p))
\* Some entry has the address.
Covers(es, p) == \E j \in 1..Len(es) : In(es[j], p)
\* No two entries have an address in common.
AllApart(es) == \A i, j \in 1..Len(es) : i # j => Apart(es[i], es[j])
\* The open descriptors are those of the entries, each of one entry.
Owned(es, open) ==
  /\ \A i \in 1..Len(es) : es[i].fd = NoFd \/ es[i].fd \in open
  /\ \A d \in open : \E i \in 1..Len(es) : es[i].fd = d
  /\ \A i, j \in 1..Len(es) : es[i].fd # NoFd /\ es[i].fd = es[j].fd => i = j
\* Descriptors are positive, and there are finitely many.
Descriptors(open) == open \subseteq (Nat \ {0}) /\ \E b \in Nat : \A d \in open : d <= b
\* What holds of the map between operations.
GoodMap(es, open) == es \in Seq(Entry) /\ AllApart(es) /\ Owned(es, open) /\ Descriptors(open)

\* The least element of a set of natural numbers.
LEMMA LeastOf ==
  ASSUME NEW T \in SUBSET Nat, NEW n \in T
  PROVE  \E x \in T : \A y \in T : x <= y
<1>1. PICK x \in T : \A y \in T : ~(<<y, x>> \in OpToRel(<, Nat))
  BY NatLessThanWellFounded, WFMin, Zenon
<1>2. \A y \in T : ~(y < x)
  BY <1>1, Zenon DEF OpToRel
<1>3. \A y \in T : y \in Nat
  BY Zenon
<1>4. \A y \in T : x <= y
  BY <1>2, <1>3
<1> QED BY <1>4, Zenon

\* There is always a lowest free descriptor.
LEMMA LowestFreeIs ==
  ASSUME NEW open, Descriptors(open)
  PROVE  LowestFree(open) \in Nat \ {0} /\ LowestFree(open) \notin open /\ Descriptors(open \union {LowestFree(open)})
<1>1. PICK b \in Nat : \A d \in open : d <= b
  BY Zenon DEF Descriptors
<1>2. \A d \in open : d \in Nat /\ d # 0
  BY Zenon DEF Descriptors
<1> DEFINE T == {k \in Nat : k # 0 /\ k \notin open}
<1>3. b + 1 \in T
  BY <1>1, <1>2
<1>4. PICK x \in T : \A y \in T : x <= y
  <2>1. T \in SUBSET Nat
    BY Zenon
  <2> HIDE DEF T
  <2> QED BY <1>3, <2>1, LeastOf, Zenon
<1>5. x \in Nat /\ x # 0 /\ x \notin open
  BY <1>4, Zenon
<1>6. \A k \in 1..(x - 1) : k \in Nat /\ k # 0 /\ ~(x <= k)
  BY <1>5
<1>7. \A k \in 1..(x - 1) : k \in open
  BY <1>4, <1>6, Zenon
<1>8. x \in {1} \union {k + 1 : k \in open}
  <2>1. CASE x = 1
    BY <2>1, Zenon
  <2>2. CASE x # 1
    <3>1. x - 1 \in 1..(x - 1) /\ (x - 1) + 1 = x
      BY <1>5, <2>2
    <3> QED BY <1>7, <3>1, Zenon
  <2> QED BY <2>1, <2>2, Zenon
<1>9. PICK f : f = LowestFree(open)
  BY ONLY Zenon
<1>10. f \in {1} \union {k + 1 : k \in open} /\ f \notin open
  BY ONLY <1>5, <1>7, <1>8, <1>9, Zenon DEF LowestFree
<1>11. f \in Nat /\ f # 0
  BY ONLY <1>2, <1>10
<1>12. PICK c \in Nat : b <= c /\ f <= c
  <2>1. CASE b <= f
    BY <1>11, <2>1
  <2>2. CASE f <= b
    BY <1>11, <2>2
  <2> QED BY <1>11, <2>1, <2>2
<1>13. \A d \in open \union {f} : d \in Nat /\ d # 0 /\ d <= c
  BY <1>1, <1>2, <1>11, <1>12
<1>14. Descriptors(open \union {f})
  BY <1>13, Zenon DEF Descriptors
<1> QED BY ONLY <1>9, <1>10, <1>11, <1>14, Zenon

-----------------------------------------------------------------------------
(* The operations on the array *)

\* What an operation works on.
MapRec == [es : Seq(Entry), open : SUBSET Int, bad : BOOLEAN]

\* The array without entry i: the last entry takes its place.
LEMMA Taken ==
  ASSUME NEW es \in Seq(Entry), NEW i \in 1..Len(es), NEW fs,
         fs = SubSeq([es EXCEPT ![i] = es[Len(es)]], 1, Len(es) - 1)
  PROVE  /\ fs \in Seq(Entry) /\ Len(fs) = Len(es) - 1
         /\ \A j \in 1..(Len(es) - 1) : fs[j] = IF j = i THEN es[Len(es)] ELSE es[j]
<1>1. PICK n \in Nat : n = Len(es) /\ n >= 1
  OBVIOUS
<1>2. PICK g : g = [es EXCEPT ![i] = es[n]]
  BY ONLY Zenon
<1>3. es[n] \in Entry
  BY <1>1
<1>4. g \in Seq(Entry) /\ Len(g) = n /\ \A j \in 1..n : g[j] = IF j = i THEN es[n] ELSE es[j]
  BY <1>1, <1>2, <1>3
<1>5. fs = SubSeq(g, 1, n - 1)
  BY <1>1, <1>2, Zenon
<1>6. n - 1 \in Nat /\ n - 1 <= Len(g)
  BY <1>1, <1>4
<1>7. fs \in Seq(Entry) /\ Len(fs) = n - 1 /\ \A j \in 1..(n - 1) : fs[j] = g[j]
  BY ONLY <1>4, <1>5, <1>6, <1>1
<1>8. \A j \in 1..(n - 1) : j \in 1..n
  BY ONLY <1>1, n \in Nat
<1> QED BY ONLY <1>1, <1>4, <1>7, <1>8, Zenon

\* r is m without entry i.
Removed(m, i, r) ==
  /\ r \in MapRec /\ r.open = m.open \ {m.es[i].fd} /\ Len(r.es) = Len(m.es) - 1
  /\ \A j \in 1..(Len(m.es) - 1) : r.es[j] = IF j = i THEN m.es[Len(m.es)] ELSE m.es[j]

\* interval_map_delete_entry().
LEMMA DeleteEntryIs ==
  ASSUME NEW m \in MapRec, NEW i \in 1..Len(m.es), NEW r, r = DeleteEntry(m, i)
  PROVE  Removed(m, i, r)
<1>1. m.es \in Seq(Entry) /\ m.open \in SUBSET Int /\ m.bad \in BOOLEAN
  BY DEF MapRec
<1>2. PICK fs : fs = SubSeq([m.es EXCEPT ![i] = m.es[Len(m.es)]], 1, Len(m.es) - 1)
  BY ONLY Zenon
<1>3. /\ fs \in Seq(Entry) /\ Len(fs) = Len(m.es) - 1
      /\ \A j \in 1..(Len(m.es) - 1) : fs[j] = IF j = i THEN m.es[Len(m.es)] ELSE m.es[j]
  BY ONLY <1>1, <1>2, i \in 1..Len(m.es), Taken
<1>4. PICK o \in SUBSET Int : o = m.open \ {m.es[i].fd}
  BY ONLY <1>1, Zenon
<1>5. r = [m EXCEPT !.open = o, !.es = fs]
  BY ONLY <1>2, <1>4, r = DeleteEntry(m, i), Zenon DEF DeleteEntry
<1>6. r.es = fs /\ r.open = m.open \ {m.es[i].fd} /\ r \in MapRec
  BY ONLY <1>3, <1>4, <1>5, m \in MapRec, o \in SUBSET Int, Zenon DEF MapRec
<1> QED BY ONLY <1>3, <1>6, Zenon DEF Removed

\* The array with another entry at i.
LEMMA Replaced ==
  ASSUME NEW es \in Seq(Entry), NEW i \in 1..Len(es), NEW e \in Entry, NEW fs, fs = [es EXCEPT ![i] = e]
  PROVE  /\ fs \in Seq(Entry) /\ Len(fs) = Len(es) /\ fs[i] = e
         /\ \A j \in 1..Len(es) : j # i => fs[j] = es[j]
OBVIOUS

\* r is m with one more entry.
Added(m, lo, hi, fd, r) ==
  /\ lo < hi /\ r \in MapRec /\ r.open = m.open /\ Len(r.es) = Len(m.es) + 1
  /\ \A j \in 1..Len(m.es) : r.es[j] = m.es[j]
  /\ r.es[Len(m.es) + 1] = [start |-> lo, end |-> hi, fd |-> fd]

\* interval_map_add_entry(), when its assertion holds.
LEMMA AddEntryIs ==
  ASSUME NEW m \in MapRec, NEW lo \in Int, NEW hi \in Int, NEW fd \in Int,
         NEW r, r = AddEntry(m, lo, hi, fd), ~r.bad
  PROVE  Added(m, lo, hi, fd, r)
<1>1. m.es \in Seq(Entry) /\ m.open \in SUBSET Int /\ m.bad \in BOOLEAN
  BY DEF MapRec
<1>2. ~(Len(m.es) >= MemSize \/ lo >= hi)
  <2>1. ASSUME Len(m.es) >= MemSize \/ lo >= hi PROVE FALSE
    <3>1. AddEntry(m, lo, hi, fd) = [m EXCEPT !.bad = TRUE]
      BY ONLY <2>1, Zenon DEF AddEntry
    <3>2. [m EXCEPT !.bad = TRUE].bad = TRUE
      BY ONLY m \in MapRec DEF MapRec
    <3> QED BY ONLY <3>1, <3>2, r = AddEntry(m, lo, hi, fd), ~r.bad, Zenon
  <2> QED BY <2>1, Zenon
<1>3. PICK e : e = [start |-> lo, end |-> hi, fd |-> fd]
  BY ONLY Zenon
<1>4. e \in Entry
  BY ONLY <1>3, lo \in Int, hi \in Int, fd \in Int DEF Entry
<1>5. AddEntry(m, lo, hi, fd) = [m EXCEPT !.es = Append(@, e)]
  BY ONLY <1>2, <1>3, Zenon DEF AddEntry
<1>6. [m EXCEPT !.es = Append(@, e)] = [es |-> Append(m.es, e), open |-> m.open, bad |-> m.bad]
  BY ONLY m \in MapRec, SMTT(30) DEF MapRec
<1>7. /\ Append(m.es, e) \in Seq(Entry) /\ Len(Append(m.es, e)) = Len(m.es) + 1
      /\ \A j \in 1..Len(m.es) : Append(m.es, e)[j] = m.es[j]
      /\ Append(m.es, e)[Len(m.es) + 1] = e
  BY ONLY <1>1, <1>4
<1>8. r = [es |-> Append(m.es, e), open |-> m.open, bad |-> m.bad]
  BY ONLY <1>5, <1>6, r = AddEntry(m, lo, hi, fd), Zenon
<1>9. r.es = Append(m.es, e) /\ r.open = m.open /\ r.bad = m.bad /\ r \in MapRec
  BY ONLY <1>1, <1>7, <1>8 DEF MapRec
<1>10. lo < hi
  BY ONLY <1>2, lo \in Int, hi \in Int
<1> QED BY ONLY <1>3, <1>7, <1>9, <1>10, Zenon DEF Added

\* dup() opens a descriptor that was closed, and nothing without a file.
LEMMA DupIs ==
  ASSUME NEW m \in MapRec, NEW fd \in Int, Descriptors(m.open)
  PROVE  /\ Dup(m, fd).map \in MapRec /\ Dup(m, fd).map.es = m.es /\ Dup(m, fd).map.bad = m.bad
         /\ Descriptors(Dup(m, fd).map.open) /\ Dup(m, fd).fd \in Int
         /\ fd = NoFd => Dup(m, fd).fd = NoFd /\ Dup(m, fd).map = m
         /\ fd # NoFd => /\ Dup(m, fd).fd \in Nat /\ Dup(m, fd).fd # 0 /\ Dup(m, fd).fd \notin m.open
                         /\ Dup(m, fd).map.open = m.open \union {Dup(m, fd).fd}
<1>1. m.es \in Seq(Entry) /\ m.open \in SUBSET Int /\ m.bad \in BOOLEAN
  BY DEF MapRec
<1>2. CASE fd = NoFd
  <2>1. Dup(m, fd) = [map |-> m, fd |-> NoFd]
    BY ONLY <1>2, Zenon DEF Dup
  <2>2. NoFd \in Int
    BY ONLY TRUE DEF NoFd
  <2> QED BY <1>1, <1>2, <2>1, <2>2
<1>3. CASE fd # NoFd
  <2>1. PICK f : f = LowestFree(m.open)
    BY ONLY Zenon
  <2>2. f \in Nat /\ f # 0 /\ f \notin m.open /\ Descriptors(m.open \union {f})
    BY <2>1, LowestFreeIs, Zenon
  <2>3. Dup(m, fd) = [map |-> [m EXCEPT !.open = @ \union {f}], fd |-> f]
    BY ONLY <1>3, <2>1, Zenon DEF Dup
  <2>4. PICK o : o = m.open \union {f}
    BY ONLY Zenon
  <2>5. o \in SUBSET Int
    BY ONLY <1>1, <2>2, <2>4
  <2>6. Dup(m, fd) = [map |-> [m EXCEPT !.open = o], fd |-> f]
    BY ONLY <2>3, <2>4, Zenon
  <2>7. [m EXCEPT !.open = o] = [es |-> m.es, open |-> o, bad |-> m.bad]
    BY ONLY m \in MapRec DEF MapRec
  <2>8. Dup(m, fd).fd = f /\ Dup(m, fd).map = [es |-> m.es, open |-> o, bad |-> m.bad]
    BY ONLY <2>6, <2>7
  <2>9. [es |-> m.es, open |-> o, bad |-> m.bad] \in MapRec
    BY ONLY <1>1, <2>5 DEF MapRec
  <2> QED BY ONLY <1>3, <2>2, <2>4, <2>8, <2>9
<1> QED BY <1>2, <1>3, Zenon

\* The parts of an entry.
LEMMA EntryIs ==
  ASSUME NEW es \in Seq(Entry), NEW i \in 1..Len(es)
  PROVE  es[i] \in Entry /\ es[i].start \in Int /\ es[i].end \in Int /\ es[i].fd \in Int
<1>1. es[i] \in Entry
  OBVIOUS
<1> QED BY ONLY <1>1 DEF Entry

\* Where the entries of fs come from, when they are those of es without entry i
\* and those below i have not moved.
From(es, fs, i, src) ==
  /\ src \in [1..Len(fs) -> 1..Len(es)]
  /\ \A j \in 1..Len(fs) : fs[j] = es[src[j]] /\ src[j] # i /\ (j # i => src[j] = j) /\ (i <= j => i < src[j])
  /\ \A j, k \in 1..Len(fs) : src[j] = src[k] => j = k
  /\ \A k \in 1..Len(es) : k # i => \E j \in 1..Len(fs) : src[j] = k

\* The last entry in the place of entry i leaves the entries below i where they were.
LEMMA TakenFrom ==
  ASSUME NEW es \in Seq(Entry), NEW i \in 1..Len(es), NEW fs, Len(fs) = Len(es) - 1,
         \A j \in 1..(Len(es) - 1) : fs[j] = IF j = i THEN es[Len(es)] ELSE es[j]
  PROVE  \E src : From(es, fs, i, src)
<1>1. PICK n \in Nat : n = Len(es) /\ n >= 1
  OBVIOUS
<1>2. PICK l \in Nat : l = Len(fs) /\ l = n - 1
  BY <1>1
<1>3. PICK src : src = [j \in 1..l |-> IF j = i THEN n ELSE j]
  BY ONLY Zenon
<1>4. i \in 1..n /\ \A j \in 1..l : fs[j] = IF j = i THEN es[n] ELSE es[j]
  BY <1>1, <1>2, Zenon
<1>5. src \in [1..l -> 1..n]
  BY ONLY <1>1, <1>2, <1>3, l \in Nat, n \in Nat
<1>6. \A j \in 1..l : src[j] # i /\ (j # i => src[j] = j) /\ (i <= j => i < src[j])
  BY ONLY <1>1, <1>2, <1>3, <1>4, l \in Nat, n \in Nat
<1>7. \A j \in 1..l : fs[j] = es[src[j]]
  BY ONLY <1>3, <1>4, Zenon
<1>8. \A j, k \in 1..l : src[j] = src[k] => j = k
  BY ONLY <1>1, <1>2, <1>3, l \in Nat, n \in Nat
<1>9. ASSUME NEW k \in 1..n, k # i
      PROVE  \E j \in 1..l : src[j] = k
  <2>1. CASE k = n
    <3>1. i \in 1..l /\ src[i] = n
      BY ONLY <1>2, <1>3, <1>4, <1>9, <2>1, l \in Nat, n \in Nat
    <3> QED BY <2>1, <3>1, Zenon
  <2>2. CASE k # n
    <3>1. k \in 1..l /\ src[k] = k
      BY ONLY <1>2, <1>3, <1>9, <2>2, l \in Nat, n \in Nat, k \in 1..n
    <3> QED BY <3>1, Zenon
  <2> QED BY <2>1, <2>2, Zenon
<1>10. From(es, fs, i, src)
  BY ONLY <1>1, <1>2, <1>5, <1>6, <1>7, <1>8, <1>9, Zenon DEF From
<1> QED BY <1>10, Zenon

\* Without one of its entries the map still owns its descriptors, if the
\* entry's is closed.
LEMMA TakenOwned ==
  ASSUME NEW es, NEW open, Owned(es, open), Descriptors(open), NEW i \in 1..Len(es),
         NEW fs, NEW src, From(es, fs, i, src)
  PROVE  Owned(fs, open \ {es[i].fd}) /\ Descriptors(open \ {es[i].fd})
<1>1. /\ \A j \in 1..Len(fs) : src[j] \in 1..Len(es) /\ fs[j] = es[src[j]] /\ src[j] # i
      /\ \A j, k \in 1..Len(fs) : src[j] = src[k] => j = k
      /\ \A k \in 1..Len(es) : k # i => \E j \in 1..Len(fs) : src[j] = k
  BY Zenon DEF From
<1>3. Descriptors(open \ {es[i].fd})
  BY Zenon DEF Descriptors
<1>4. /\ \A k \in 1..Len(es) : es[k].fd = NoFd \/ es[k].fd \in open
      /\ \A d \in open : \E k \in 1..Len(es) : es[k].fd = d
      /\ \A k, j \in 1..Len(es) : es[k].fd # NoFd /\ es[k].fd = es[j].fd => k = j
  BY Zenon DEF Owned
<1>5. ASSUME NEW j \in 1..Len(fs) PROVE fs[j].fd = NoFd \/ fs[j].fd \in open \ {es[i].fd}
  <2>1. PICK k \in 1..Len(es) : fs[j] = es[k] /\ k # i
    BY <1>1, Zenon
  <2>2. es[k].fd = NoFd \/ (es[k].fd \in open /\ es[k].fd # es[i].fd)
    BY <1>4, <2>1, Zenon
  <2> QED BY ONLY <2>1, <2>2, Zenon
<1>6. \A d \in open \ {es[i].fd} : \E j \in 1..Len(fs) : fs[j].fd = d
  <2> SUFFICES ASSUME NEW d \in open, d # es[i].fd PROVE \E j \in 1..Len(fs) : fs[j].fd = d
    BY Zenon
  <2>1. PICK k \in 1..Len(es) : es[k].fd = d
    BY <1>4, Zenon
  <2>2. PICK j \in 1..Len(fs) : src[j] = k
    BY <1>1, <2>1, Zenon
  <2> QED BY <1>1, <2>1, <2>2, Zenon
<1>7. ASSUME NEW k \in 1..Len(fs), NEW j \in 1..Len(fs), fs[k].fd # NoFd, fs[k].fd = fs[j].fd PROVE k = j
  <2>1. src[j] \in 1..Len(es) /\ src[k] \in 1..Len(es) /\ fs[j] = es[src[j]] /\ fs[k] = es[src[k]]
    BY <1>1, Zenon
  <2>2. es[src[k]].fd # NoFd /\ es[src[k]].fd = es[src[j]].fd
    BY ONLY <1>7, <2>1, Zenon
  <2>3. src[k] = src[j]
    BY <1>4, <2>1, <2>2, Zenon
  <2> QED BY <1>1, <2>3, Zenon
<1>8. Owned(fs, open \ {es[i].fd})
  BY ONLY <1>5, <1>6, <1>7, Zenon DEF Owned
<1> QED BY <1>3, <1>8, Zenon

\* And it is still good.
LEMMA TakenGood ==
  ASSUME NEW es, NEW open, GoodMap(es, open), NEW i \in 1..Len(es),
         NEW fs \in Seq(Entry), NEW src, From(es, fs, i, src)
  PROVE  AllApart(fs) /\ Owned(fs, open \ {es[i].fd}) /\ Descriptors(open \ {es[i].fd})
<1>1. /\ \A j \in 1..Len(fs) : src[j] \in 1..Len(es) /\ fs[j] = es[src[j]] /\ src[j] # i
      /\ \A j, k \in 1..Len(fs) : src[j] = src[k] => j = k
      /\ \A k \in 1..Len(es) : k # i => \E j \in 1..Len(fs) : src[j] = k
  BY Zenon DEF From
<1>2. AllApart(fs)
  <2>1. \A k, j \in 1..Len(es) : k # j => Apart(es[k], es[j])
    BY Zenon DEF AllApart, GoodMap
  <2>2. ASSUME NEW j \in 1..Len(fs), NEW k \in 1..Len(fs), j # k PROVE Apart(fs[j], fs[k])
    <3>1. src[j] \in 1..Len(es) /\ src[k] \in 1..Len(es) /\ src[j] # src[k] /\ fs[j] = es[src[j]] /\ fs[k] = es[src[k]]
      BY <1>1, <2>2, Zenon
    <3>2. Apart(es[src[j]], es[src[k]])
      BY <2>1, <3>1, Zenon
    <3> QED BY ONLY <3>1, <3>2, Zenon
  <2> QED BY <2>2, Zenon DEF AllApart
<1>3. Owned(es, open) /\ Descriptors(open)
  BY Zenon DEF GoodMap
<1> QED BY <1>2, <1>3, TakenOwned, Zenon

-----------------------------------------------------------------------------
(* interval_map_delete() *)

\* The entries after i have no address of the range.
Cleared(es, i, lo, hi) ==
  \A j \in 1..Len(es) : i < j => \A p \in Int : lo <= p /\ p < hi => ~In(es[j], p)
\* Only addresses of the range have gone from es0.
OnlyRange(es, es0, lo, hi) ==
  \A p \in Int : /\ Covers(es, p) => Covers(es0, p)
                 /\ Covers(es0, p) /\ ~(lo <= p /\ p < hi) => Covers(es, p)
\* What holds when the scan has looked at the entries after i.
DeleteOk(m, i, es0, lo, hi) ==
  /\ m \in MapRec /\ GoodMap(m.es, m.open) /\ i <= Len(m.es)
  /\ Cleared(m.es, i, lo, hi) /\ OnlyRange(m.es, es0, lo, hi)

\* An entry without an address of the range is left alone.
LEMMA DeleteMiss ==
  ASSUME NEW es \in Seq(Entry), NEW i \in 1..Len(es), NEW lo \in Int, NEW hi \in Int,
         Cleared(es, i, lo, hi), ~Overlap(es[i], lo, hi)
  PROVE  Cleared(es, i - 1, lo, hi)
<1>1. es[i].start \in Int /\ es[i].end \in Int
  BY EntryIs, Zenon
<1>2. \A p \in Int : lo <= p /\ p < hi => ~In(es[i], p)
  BY <1>1 DEF Overlap, In
<1>3. \A j \in 1..Len(es) : i - 1 < j => i < j \/ j = i
  OBVIOUS
<1> QED BY <1>2, <1>3, Zenon DEF Cleared

\* An entry in the range is removed.
LEMMA DeleteWhole ==
  ASSUME NEW es, NEW open, GoodMap(es, open), NEW i \in 1..Len(es), NEW es0, NEW lo \in Int, NEW hi \in Int,
         Cleared(es, i, lo, hi), OnlyRange(es, es0, lo, hi), lo <= es[i].start, hi >= es[i].end,
         NEW fs \in Seq(Entry), NEW src, From(es, fs, i, src)
  PROVE  Cleared(fs, i - 1, lo, hi) /\ OnlyRange(fs, es0, lo, hi)
<1>0. es \in Seq(Entry)
  BY Zenon DEF GoodMap
<1>1. /\ \A j \in 1..Len(fs) : src[j] \in 1..Len(es) /\ fs[j] = es[src[j]] /\ (i <= j => i < src[j])
      /\ \A k \in 1..Len(es) : k # i => \E j \in 1..Len(fs) : src[j] = k
  BY Zenon DEF From
<1>2. \A j \in 1..Len(fs) : i - 1 < j => i <= j
  BY <1>0
<1>3. Cleared(fs, i - 1, lo, hi)
  BY <1>1, <1>2, Zenon DEF Cleared
<1>4. es[i].start \in Int /\ es[i].end \in Int
  BY <1>0, EntryIs, Zenon
<1>5. \A p \in Int : In(es[i], p) => lo <= p /\ p < hi
  BY <1>4 DEF In
<1>6. \A p \in Int : Covers(fs, p) => Covers(es, p)
  BY <1>1, Zenon DEF Covers
<1>7. ASSUME NEW p \in Int, Covers(es, p), ~(lo <= p /\ p < hi) PROVE Covers(fs, p)
  <2>1. PICK k \in 1..Len(es) : In(es[k], p)
    BY <1>7, Zenon DEF Covers
  <2>2. PICK j \in 1..Len(fs) : src[j] = k
    BY <1>1, <1>5, <1>7, <2>1, Zenon
  <2> QED BY <1>1, <2>1, <2>2, Zenon DEF Covers
<1>8. OnlyRange(fs, es0, lo, hi)
  BY <1>6, <1>7, Zenon DEF OnlyRange
<1> QED BY <1>3, <1>8, Zenon

\* fs is es but for the addresses of entry i, of which it keeps those outside the range.
Trims(es, fs, i, lo, hi) ==
  /\ Len(fs) = Len(es) /\ fs[i].fd = es[i].fd
  /\ \A j \in 1..Len(es) : j # i => fs[j] = es[j]
  /\ \A p \in Int : In(fs[i], p) <=> In(es[i], p) /\ ~(lo <= p /\ p < hi)

\* Trimming an entry: the map stays good, and loses addresses of the range only.
LEMMA DeleteTrim ==
  ASSUME NEW es, NEW open, GoodMap(es, open), NEW i \in 1..Len(es), NEW es0, NEW lo \in Int, NEW hi \in Int,
         Cleared(es, i, lo, hi), OnlyRange(es, es0, lo, hi),
         NEW fs \in Seq(Entry), Trims(es, fs, i, lo, hi)
  PROVE  GoodMap(fs, open) /\ Cleared(fs, i - 1, lo, hi) /\ OnlyRange(fs, es0, lo, hi)
<1>1. /\ es \in Seq(Entry) /\ Descriptors(open)
      /\ \A k, j \in 1..Len(es) : k # j => Apart(es[k], es[j])
      /\ \A k \in 1..Len(es) : es[k].fd = NoFd \/ es[k].fd \in open
      /\ \A d \in open : \E k \in 1..Len(es) : es[k].fd = d
      /\ \A k, j \in 1..Len(es) : es[k].fd # NoFd /\ es[k].fd = es[j].fd => k = j
  BY Zenon DEF GoodMap, Owned, AllApart
<1>2. /\ Len(fs) = Len(es) /\ fs[i].fd = es[i].fd
      /\ \A j \in 1..Len(es) : j # i => fs[j] = es[j]
      /\ \A p \in Int : In(fs[i], p) <=> In(es[i], p) /\ ~(lo <= p /\ p < hi)
  BY Zenon DEF Trims
<1>3. \A j \in 1..Len(es) : fs[j].fd = es[j].fd
  BY ONLY <1>2, Zenon
<1>4. \A j \in 1..Len(es) : \A p \in Int : In(fs[j], p) => In(es[j], p)
  BY ONLY <1>2, Zenon
<1>5. AllApart(fs)
  BY ONLY <1>1, <1>2, <1>4, Zenon DEF AllApart, Apart
<1>6. Owned(fs, open)
  <2>1. \A k \in 1..Len(fs) : fs[k].fd = NoFd \/ fs[k].fd \in open
    BY ONLY <1>1, <1>2, <1>3, ZenonT(40)
  <2>2. \A d \in open : \E k \in 1..Len(fs) : fs[k].fd = d
    BY ONLY <1>1, <1>2, <1>3, ZenonT(40)
  <2>3. \A k, j \in 1..Len(fs) : fs[k].fd # NoFd /\ fs[k].fd = fs[j].fd => k = j
    BY ONLY <1>1, <1>2, <1>3, ZenonT(40)
  <2> QED BY ONLY <2>1, <2>2, <2>3, Zenon DEF Owned
<1>7. \A j \in 1..Len(es) : i - 1 < j => i < j \/ j = i
  BY <1>1
<1>8. Cleared(fs, i - 1, lo, hi)
  BY <1>2, <1>4, <1>7, Zenon DEF Cleared
<1>9. \A p \in Int : Covers(fs, p) => Covers(es, p)
  BY ONLY <1>2, <1>4, Zenon DEF Covers
<1>10. \A p \in Int : Covers(es, p) /\ ~(lo <= p /\ p < hi) => Covers(fs, p)
  BY ONLY <1>2, Zenon DEF Covers
<1>11. OnlyRange(fs, es0, lo, hi)
  BY <1>9, <1>10, Zenon DEF OnlyRange
<1> QED BY <1>1, <1>5, <1>6, <1>8, <1>11, Zenon DEF GoodMap

\* fs is es but for entry i, which keeps its addresses below the range, and for
\* a last entry with those above it, with a descriptor of its own.
Splits(es, open, fs, open2, i, lo, hi) ==
  /\ Len(fs) = Len(es) + 1 /\ fs[i].fd = es[i].fd
  /\ \A j \in 1..Len(es) : j # i => fs[j] = es[j]
  /\ \A p \in Int : In(fs[i], p) <=> In(es[i], p) /\ p < lo
  /\ \A p \in Int : In(fs[Len(es) + 1], p) <=> In(es[i], p) /\ hi <= p
  /\ es[i].fd = NoFd => fs[Len(es) + 1].fd = NoFd /\ open2 = open
  /\ es[i].fd # NoFd => /\ fs[Len(es) + 1].fd \notin open /\ fs[Len(es) + 1].fd # NoFd
                        /\ open2 = open \union {fs[Len(es) + 1].fd}

\* Splitting an entry: the same.
LEMMA DeleteSplit ==
  ASSUME NEW es, NEW open, GoodMap(es, open), NEW i \in 1..Len(es), NEW es0, NEW lo \in Int, NEW hi \in Int,
         lo < hi, Cleared(es, i, lo, hi), OnlyRange(es, es0, lo, hi),
         NEW fs \in Seq(Entry), NEW open2, Descriptors(open2), Splits(es, open, fs, open2, i, lo, hi)
  PROVE  GoodMap(fs, open2) /\ Cleared(fs, i - 1, lo, hi) /\ OnlyRange(fs, es0, lo, hi)
<1>1. /\ es \in Seq(Entry)
      /\ \A k, j \in 1..Len(es) : k # j => Apart(es[k], es[j])
      /\ \A k \in 1..Len(es) : es[k].fd = NoFd \/ es[k].fd \in open
      /\ \A d \in open : \E k \in 1..Len(es) : es[k].fd = d
      /\ \A k, j \in 1..Len(es) : es[k].fd # NoFd /\ es[k].fd = es[j].fd => k = j
  BY Zenon DEF GoodMap, Owned, AllApart
<1>2. PICK n \in Nat : n = Len(es)
  BY <1>1
<1>3. PICK x : x = n + 1
  BY ONLY Zenon
<1>4. /\ Len(fs) = x /\ fs[i].fd = es[i].fd
      /\ \A j \in 1..n : j # i => fs[j] = es[j]
      /\ \A p \in Int : In(fs[i], p) <=> In(es[i], p) /\ p < lo
      /\ \A p \in Int : In(fs[x], p) <=> In(es[i], p) /\ hi <= p
      /\ es[i].fd = NoFd => fs[x].fd = NoFd /\ open2 = open
      /\ es[i].fd # NoFd => fs[x].fd \notin open /\ fs[x].fd # NoFd /\ open2 = open \union {fs[x].fd}
  BY <1>2, <1>3, Zenon DEF Splits
<1>5. /\ \A j \in 1..x : j \in 1..n \/ j = x
      /\ \A j \in 1..n : j \in 1..x /\ j # x
      /\ x \in 1..x /\ i \in 1..n
  BY ONLY <1>2, <1>3, n \in Nat, i \in 1..Len(es)
<1>6. \A p \in Int : ~(p < lo /\ hi <= p) /\ ((p < lo \/ hi <= p) <=> ~(lo <= p /\ p < hi))
  BY ONLY lo \in Int, hi \in Int, lo < hi
<1>7. \A j \in 1..n : fs[j].fd = es[j].fd
  BY ONLY <1>4, Zenon
<1>8. \A j \in 1..n : \A p \in Int : In(fs[j], p) => In(es[j], p)
  BY ONLY <1>4, Zenon
<1>9. AllApart(fs)
  <2>1. \A j, k \in 1..n : j # k => Apart(fs[j], fs[k])
    BY ONLY <1>1, <1>2, <1>8, Zenon DEF Apart
  <2>2. \A j \in 1..n : Apart(fs[j], fs[x]) /\ Apart(fs[x], fs[j])
    BY ONLY <1>1, <1>2, <1>4, <1>5, <1>6, Zenon DEF Apart
  <2> QED BY <1>4, <1>5, <2>1, <2>2, Zenon DEF AllApart
<1>10. Owned(fs, open2)
  <2>1. \A k \in 1..Len(fs) : fs[k].fd = NoFd \/ fs[k].fd \in open2
    BY ONLY <1>1, <1>2, <1>4, <1>5, <1>7
  <2>2. \A d \in open2 : \E k \in 1..Len(fs) : fs[k].fd = d
    BY ONLY <1>1, <1>2, <1>4, <1>5, <1>7
  <2>3. \A k, j \in 1..Len(fs) : fs[k].fd # NoFd /\ fs[k].fd = fs[j].fd => k = j
    <3>1. \A k, j \in 1..n : fs[k].fd # NoFd /\ fs[k].fd = fs[j].fd => k = j
      BY ONLY <1>1, <1>2, <1>7, Zenon
    <3>2. \A k \in 1..n : fs[k].fd # NoFd => fs[k].fd # fs[x].fd
      BY ONLY <1>1, <1>2, <1>4, <1>7
    <3>3. \A k \in 1..n : fs[x].fd # NoFd => fs[k].fd # fs[x].fd
      BY ONLY <1>1, <1>2, <1>4, <1>7
    <3> QED BY ONLY <1>4, <1>5, <3>1, <3>2, <3>3, Zenon
  <2> QED BY ONLY <2>1, <2>2, <2>3, Zenon DEF Owned
<1>11. \A j \in 1..n : i - 1 < j => i < j \/ j = i
  BY ONLY n \in Nat, <1>5
<1>12. Cleared(fs, i - 1, lo, hi)
  <2>1. \A j \in 1..n : i < j => \A p \in Int : lo <= p /\ p < hi => ~In(es[j], p)
    BY <1>2, Zenon DEF Cleared
  <2>2. \A j \in 1..n : i - 1 < j => \A p \in Int : lo <= p /\ p < hi => ~In(fs[j], p)
    BY ONLY <1>4, <1>6, <1>8, <1>11, <2>1, Zenon
  <2>3. \A p \in Int : lo <= p /\ p < hi => ~In(fs[x], p)
    BY ONLY <1>4, <1>6, Zenon
  <2> QED BY ONLY <1>4, <1>5, <2>2, <2>3, Zenon DEF Cleared
<1>13. \A p \in Int : Covers(fs, p) => Covers(es, p)
  BY ONLY <1>2, <1>4, <1>5, <1>8, Zenon DEF Covers
<1>14. \A p \in Int : Covers(es, p) /\ ~(lo <= p /\ p < hi) => Covers(fs, p)
  BY ONLY <1>2, <1>4, <1>5, <1>6, Zenon DEF Covers
<1>15. OnlyRange(fs, es0, lo, hi)
  BY <1>13, <1>14, Zenon DEF OnlyRange
<1> QED BY <1>9, <1>10, <1>12, <1>15, Zenon DEF GoodMap

\* r is m with e for its entry i.
Changed(m, i, e, r) ==
  /\ r \in MapRec /\ r.open = m.open /\ r.bad = m.bad
  /\ Len(r.es) = Len(m.es) /\ r.es[i] = e
  /\ \A j \in 1..Len(m.es) : j # i => r.es[j] = m.es[j]

\* The map with another end, or another start, of entry i.
LEMMA EndIs ==
  ASSUME NEW m \in MapRec, NEW i \in 1..Len(m.es), NEW x \in Int, NEW r, r = [m EXCEPT !.es[i].end = x]
  PROVE  Changed(m, i, [start |-> m.es[i].start, end |-> x, fd |-> m.es[i].fd], r)
<1>1. m.es \in Seq(Entry)
  BY DEF MapRec
<1>2. m.es[i] \in Entry
  BY <1>1, EntryIs, Zenon
<1>3. PICK e : e = [m.es[i] EXCEPT !.end = x]
  BY ONLY Zenon
<1>4. e \in Entry /\ e = [start |-> m.es[i].start, end |-> x, fd |-> m.es[i].fd]
  BY ONLY <1>2, <1>3, x \in Int DEF Entry
<1>5. PICK fs : fs = [m.es EXCEPT ![i] = e]
  BY ONLY Zenon
<1>6. fs \in Seq(Entry) /\ Len(fs) = Len(m.es) /\ fs[i] = e /\ \A j \in 1..Len(m.es) : j # i => fs[j] = m.es[j]
  <2>1. PICK es : es = m.es
    BY ONLY Zenon
  <2>2. es \in Seq(Entry) /\ i \in 1..Len(es) /\ fs = [es EXCEPT ![i] = e]
    BY ONLY <1>1, <1>5, <2>1, i \in 1..Len(m.es), Zenon
  <2>3. fs \in Seq(Entry) /\ Len(fs) = Len(es) /\ fs[i] = e /\ \A j \in 1..Len(es) : j # i => fs[j] = es[j]
    BY ONLY <1>4, <2>2, Replaced
  <2> QED BY ONLY <2>1, <2>3, Zenon
<1>7. r = [m EXCEPT !.es = fs]
  BY ONLY <1>3, <1>5, r = [m EXCEPT !.es[i].end = x], Zenon
<1>8. r.es = fs /\ r.open = m.open /\ r.bad = m.bad /\ r \in MapRec
  BY ONLY <1>6, <1>7, m \in MapRec, Zenon DEF MapRec
<1> QED BY ONLY <1>4, <1>6, <1>8, Zenon DEF Changed

\* A new start.
LEMMA StartIs ==
  ASSUME NEW m \in MapRec, NEW i \in 1..Len(m.es), NEW x \in Int, NEW r, r = [m EXCEPT !.es[i].start = x]
  PROVE  Changed(m, i, [start |-> x, end |-> m.es[i].end, fd |-> m.es[i].fd], r)
<1>1. m.es \in Seq(Entry)
  BY DEF MapRec
<1>2. m.es[i] \in Entry
  BY <1>1, EntryIs, Zenon
<1>3. PICK e : e = [m.es[i] EXCEPT !.start = x]
  BY ONLY Zenon
<1>4. e \in Entry /\ e = [start |-> x, end |-> m.es[i].end, fd |-> m.es[i].fd]
  BY ONLY <1>2, <1>3, x \in Int DEF Entry
<1>5. PICK fs : fs = [m.es EXCEPT ![i] = e]
  BY ONLY Zenon
<1>6. fs \in Seq(Entry) /\ Len(fs) = Len(m.es) /\ fs[i] = e /\ \A j \in 1..Len(m.es) : j # i => fs[j] = m.es[j]
  <2>1. PICK es : es = m.es
    BY ONLY Zenon
  <2>2. es \in Seq(Entry) /\ i \in 1..Len(es) /\ fs = [es EXCEPT ![i] = e]
    BY ONLY <1>1, <1>5, <2>1, i \in 1..Len(m.es), Zenon
  <2>3. fs \in Seq(Entry) /\ Len(fs) = Len(es) /\ fs[i] = e /\ \A j \in 1..Len(es) : j # i => fs[j] = es[j]
    BY ONLY <1>4, <2>2, Replaced
  <2> QED BY ONLY <2>1, <2>3, Zenon
<1>7. r = [m EXCEPT !.es = fs]
  BY ONLY <1>3, <1>5, r = [m EXCEPT !.es[i].start = x], Zenon
<1>8. r.es = fs /\ r.open = m.open /\ r.bad = m.bad /\ r \in MapRec
  BY ONLY <1>6, <1>7, m \in MapRec, Zenon DEF MapRec
<1> QED BY ONLY <1>4, <1>6, <1>8, Zenon DEF Changed

\* The split of an entry.
LEMMA SplitIs ==
  ASSUME NEW m \in MapRec, GoodMap(m.es, m.open), NEW i \in 1..Len(m.es), NEW lo \in Int, NEW hi \in Int,
         Overlap(m.es[i], lo, hi), ~SplitEntry(m, i, lo, hi).bad
  PROVE  /\ SplitEntry(m, i, lo, hi) \in MapRec /\ Descriptors(SplitEntry(m, i, lo, hi).open)
         /\ Splits(m.es, m.open, SplitEntry(m, i, lo, hi).es, SplitEntry(m, i, lo, hi).open, i, lo, hi)
<1>1. m.es \in Seq(Entry) /\ m.open \in SUBSET Int /\ m.bad \in BOOLEAN
  BY DEF MapRec
<1>2. PICK s \in Int, t \in Int, d \in Int : s = m.es[i].start /\ t = m.es[i].end /\ d = m.es[i].fd
  BY <1>1, EntryIs, Zenon
<1>3. lo < t /\ hi > s
  BY <1>2, Zenon DEF Overlap
<1>4. PICK m1 : m1 = [m EXCEPT !.es[i].end = lo]
  BY ONLY Zenon
<1>5. Changed(m, i, [start |-> m.es[i].start, end |-> lo, fd |-> m.es[i].fd], m1)
  BY <1>4, EndIs, Zenon
<1>6. PICK fs \in Seq(Entry) :
         /\ m1 \in MapRec /\ m1.es = fs /\ m1.open = m.open
         /\ Len(fs) = Len(m.es) /\ fs[i] = [start |-> s, end |-> lo, fd |-> d]
         /\ \A j \in 1..Len(m.es) : j # i => fs[j] = m.es[j]
  <2>1. m1 \in MapRec => m1.es \in Seq(Entry)
    BY ONLY TRUE DEF MapRec
  <2> QED BY ONLY <1>2, <1>5, <2>1, Zenon DEF Changed
<1>7. Descriptors(m1.open)
  BY <1>6, Zenon DEF GoodMap
<1>8. PICK u : u = Dup(m1, d)
  BY ONLY Zenon
<1>9. /\ u.map \in MapRec /\ u.map.es = fs /\ Descriptors(u.map.open) /\ u.fd \in Int
      /\ d = NoFd => u.fd = NoFd /\ u.map = m1
      /\ d # NoFd => u.fd \in Nat /\ u.fd \notin m.open /\ u.map.open = m.open \union {u.fd}
  <2>1. /\ Dup(m1, d).map \in MapRec /\ Dup(m1, d).map.es = m1.es /\ Descriptors(Dup(m1, d).map.open)
        /\ Dup(m1, d).fd \in Int
        /\ d = NoFd => Dup(m1, d).fd = NoFd /\ Dup(m1, d).map = m1
        /\ d # NoFd => /\ Dup(m1, d).fd \in Nat /\ Dup(m1, d).fd \notin m1.open
                       /\ Dup(m1, d).map.open = m1.open \union {Dup(m1, d).fd}
    BY ONLY <1>6, <1>7, d \in Int, DupIs
  <2> QED BY ONLY <1>6, <1>8, <2>1, Zenon
<1>10. PICK r : r = AddEntry(u.map, hi, t, u.fd)
  BY ONLY Zenon
<1>11. r = SplitEntry(m, i, lo, hi)
  BY ONLY <1>2, <1>4, <1>8, <1>10, Zenon DEF SplitEntry
<1>12. PICK n \in Nat : n = Len(m.es)
  BY <1>1
<1>13. /\ r \in MapRec /\ r.open = u.map.open /\ Len(r.es) = n + 1
       /\ \A j \in 1..n : r.es[j] = fs[j]
       /\ r.es[n + 1] = [start |-> hi, end |-> t, fd |-> u.fd]
  <2>1. ~AddEntry(u.map, hi, t, u.fd).bad
    BY <1>10, <1>11, Zenon
  <2>2. PICK v : v = u.map
    BY ONLY Zenon
  <2>3. v \in MapRec /\ v.es = fs /\ Len(v.es) = n /\ v.open = u.map.open /\ r = AddEntry(v, hi, t, u.fd)
    BY ONLY <1>6, <1>9, <1>10, <1>12, <2>2, Zenon
  <2>4. Added(v, hi, t, u.fd, r)
    BY ONLY <1>9, <1>10, <2>1, <2>2, <2>3, hi \in Int, t \in Int, AddEntryIs, Zenon
  <2> QED BY ONLY <2>3, <2>4, Zenon DEF Added
<1>14. PICK a, b : a = r.es[i] /\ b = r.es[n + 1]
  BY ONLY Zenon
<1>15. a.start = s /\ a.end = lo /\ a.fd = d /\ b.start = hi /\ b.end = t /\ b.fd = u.fd
  <2>1. a = [start |-> s, end |-> lo, fd |-> d] /\ b = [start |-> hi, end |-> t, fd |-> u.fd]
    BY ONLY <1>2, <1>6, <1>12, <1>13, <1>14, i \in 1..Len(m.es), Zenon
  <2> QED BY ONLY <2>1
<1>16. \A p \in Int : In(a, p) <=> In(m.es[i], p) /\ p < lo
  BY ONLY <1>2, <1>3, <1>15, lo \in Int, hi \in Int, s \in Int, t \in Int DEF In
<1>17. \A p \in Int : In(b, p) <=> In(m.es[i], p) /\ hi <= p
  BY ONLY <1>2, <1>3, <1>15, lo \in Int, hi \in Int, s \in Int, t \in Int DEF In
<1>18. d # NoFd => u.fd # NoFd
  BY ONLY <1>9 DEF NoFd
<1>19. Splits(m.es, m.open, r.es, r.open, i, lo, hi)
  <2>1. \A j \in 1..n : j # i => r.es[j] = m.es[j]
    BY ONLY <1>6, <1>12, <1>13, Zenon
  <2>2. d = NoFd => r.open = m.open
    BY ONLY <1>6, <1>9, <1>13, Zenon
  <2>3. d # NoFd => b.fd \notin m.open /\ b.fd # NoFd /\ r.open = m.open \union {b.fd}
    BY ONLY <1>9, <1>13, <1>15, <1>18, Zenon
  <2> QED BY ONLY <1>2, <1>9, <1>12, <1>13, <1>14, <1>15, <1>16, <1>17, <2>1, <2>2, <2>3, Zenon DEF Splits
<1> QED BY ONLY <1>9, <1>11, <1>13, <1>19, Zenon

\* One turn of the scan.
LEMMA DeleteScanOk ==
  ASSUME NEW m, NEW i \in Nat \ {0}, NEW es0, NEW lo \in Int, NEW hi \in Int, lo < hi,
         DeleteOk(m, i, es0, lo, hi), NEW r, r = DeleteScan(m, lo, hi, i), ~r.bad
  PROVE  DeleteOk(r, i - 1, es0, lo, hi)
<1>1. m \in MapRec /\ GoodMap(m.es, m.open) /\ Cleared(m.es, i, lo, hi) /\ OnlyRange(m.es, es0, lo, hi)
  BY Zenon DEF DeleteOk
<1>2. PICK es \in Seq(Entry) : es = m.es
  BY <1>1, Zenon DEF GoodMap
<1>3. i \in 1..Len(es) /\ i - 1 <= Len(es) - 1 /\ ~(i > Len(es))
  <2>1. i <= Len(es)
    BY <1>2, Zenon DEF DeleteOk
  <2> QED BY <2>1
<1>4. PICK s \in Int, t \in Int, d \in Int : s = es[i].start /\ t = es[i].end /\ d = es[i].fd
  BY <1>3, EntryIs, Zenon
<1>5. GoodMap(es, m.open) /\ Cleared(es, i, lo, hi) /\ OnlyRange(es, es0, lo, hi)
  BY <1>1, <1>2, Zenon
<1>6. CASE m.bad \/ ~Overlap(es[i], lo, hi)
  <2>1. r = m /\ ~Overlap(es[i], lo, hi)
    BY <1>2, <1>6, Zenon DEF DeleteScan
  <2>2. Cleared(es, i - 1, lo, hi)
    BY <1>3, <1>5, <2>1, DeleteMiss, Zenon
  <2>3. i - 1 <= Len(es)
    BY <1>3
  <2> QED BY ONLY <1>1, <1>2, <1>5, <2>1, <2>2, <2>3, Zenon DEF DeleteOk
<1>7. CASE ~(m.bad \/ ~Overlap(es[i], lo, hi)) /\ lo <= s /\ hi >= t
  <2>1. r = DeleteEntry(m, i)
    BY ONLY <1>2, <1>3, <1>4, <1>7, r = DeleteScan(m, lo, hi, i), Zenon DEF DeleteScan
  <2>2. /\ r \in MapRec /\ r.open = m.open \ {es[i].fd} /\ Len(r.es) = Len(es) - 1
        /\ \A j \in 1..(Len(es) - 1) : r.es[j] = IF j = i THEN es[Len(es)] ELSE es[j]
    <3>1. Removed(m, i, r)
      BY ONLY <1>1, <1>2, <1>3, <2>1, DeleteEntryIs, Zenon
    <3> QED BY ONLY <1>2, <3>1, Zenon DEF Removed
  <2>3. PICK fs \in Seq(Entry) : fs = r.es
    BY ONLY <2>2 DEF MapRec
  <2>4. PICK src : From(es, fs, i, src)
    BY ONLY <1>3, <2>2, <2>3, es \in Seq(Entry), TakenFrom, Zenon
  <2>5. AllApart(fs) /\ Owned(fs, r.open) /\ Descriptors(r.open)
    <3>1. AllApart(fs) /\ Owned(fs, m.open \ {es[i].fd}) /\ Descriptors(m.open \ {es[i].fd})
      BY ONLY <1>3, <1>5, <2>3, <2>4, TakenGood, Zenon
    <3> QED BY ONLY <2>2, <3>1, Zenon
  <2>6. Cleared(fs, i - 1, lo, hi) /\ OnlyRange(fs, es0, lo, hi)
    BY ONLY <1>3, <1>4, <1>5, <1>7, <2>3, <2>4, lo \in Int, hi \in Int, DeleteWhole, Zenon
  <2>7. i - 1 <= Len(fs)
    BY ONLY <1>3, <2>2, <2>3, Zenon
  <2> QED BY ONLY <2>2, <2>3, <2>5, <2>6, <2>7, Zenon DEF DeleteOk, GoodMap
<1>8. CASE ~(m.bad \/ ~Overlap(es[i], lo, hi)) /\ ~(lo <= s /\ hi >= t) /\ lo = s /\ hi < t
  <2>1. r = [m EXCEPT !.es[i].start = hi]
    BY ONLY <1>2, <1>3, <1>4, <1>8, r = DeleteScan(m, lo, hi, i), Zenon DEF DeleteScan
  <2>2. Changed(m, i, [start |-> hi, end |-> m.es[i].end, fd |-> m.es[i].fd], r)
    BY ONLY <1>1, <1>2, <1>3, <2>1, hi \in Int, StartIs, Zenon
  <2>3. PICK fs : fs = r.es
    BY ONLY Zenon
  <2>4. r \in MapRec /\ r.open = m.open /\ Len(fs) = Len(es) /\ fs[i] = [start |-> hi, end |-> t, fd |-> d]
        /\ \A j \in 1..Len(es) : j # i => fs[j] = es[j]
    BY ONLY <1>2, <1>4, <2>2, <2>3, Zenon DEF Changed
  <2>5. fs \in Seq(Entry) /\ fs[i].start = hi /\ fs[i].end = t /\ fs[i].fd = d
    BY ONLY <2>3, <2>4 DEF MapRec
  <2>6. \A p \in Int : In(fs[i], p) <=> In(es[i], p) /\ ~(lo <= p /\ p < hi)
    BY ONLY <1>4, <1>8, <2>5, lo \in Int, hi \in Int, lo < hi, s \in Int, t \in Int DEF In
  <2>7. Trims(es, fs, i, lo, hi)
    BY ONLY <1>4, <2>4, <2>5, <2>6, Zenon DEF Trims
  <2>8. GoodMap(fs, r.open) /\ Cleared(fs, i - 1, lo, hi) /\ OnlyRange(fs, es0, lo, hi)
    BY ONLY <1>3, <1>5, <2>4, <2>5, <2>7, lo \in Int, hi \in Int, DeleteTrim, Zenon
  <2>9. i - 1 <= Len(fs)
    BY ONLY <1>3, <2>4, es \in Seq(Entry)
  <2> QED BY ONLY <2>3, <2>4, <2>8, <2>9, Zenon DEF DeleteOk
<1>9. CASE /\ ~(m.bad \/ ~Overlap(es[i], lo, hi)) /\ ~(lo <= s /\ hi >= t) /\ ~(lo = s /\ hi < t)
           /\ hi = t /\ lo > s
  <2>1. r = [m EXCEPT !.es[i].end = lo]
    BY ONLY <1>2, <1>3, <1>4, <1>9, r = DeleteScan(m, lo, hi, i), Zenon DEF DeleteScan
  <2>2. Changed(m, i, [start |-> m.es[i].start, end |-> lo, fd |-> m.es[i].fd], r)
    BY ONLY <1>1, <1>2, <1>3, <2>1, lo \in Int, EndIs, Zenon
  <2>3. PICK fs : fs = r.es
    BY ONLY Zenon
  <2>4. r \in MapRec /\ r.open = m.open /\ Len(fs) = Len(es) /\ fs[i] = [start |-> s, end |-> lo, fd |-> d]
        /\ \A j \in 1..Len(es) : j # i => fs[j] = es[j]
    BY ONLY <1>2, <1>4, <2>2, <2>3, Zenon DEF Changed
  <2>5. fs \in Seq(Entry) /\ fs[i].start = s /\ fs[i].end = lo /\ fs[i].fd = d
    BY ONLY <2>3, <2>4 DEF MapRec
  <2>6. \A p \in Int : In(fs[i], p) <=> In(es[i], p) /\ ~(lo <= p /\ p < hi)
    BY ONLY <1>4, <1>9, <2>5, lo \in Int, hi \in Int, lo < hi, s \in Int, t \in Int DEF In
  <2>7. Trims(es, fs, i, lo, hi)
    BY ONLY <1>4, <2>4, <2>5, <2>6, Zenon DEF Trims
  <2>8. GoodMap(fs, r.open) /\ Cleared(fs, i - 1, lo, hi) /\ OnlyRange(fs, es0, lo, hi)
    BY ONLY <1>3, <1>5, <2>4, <2>5, <2>7, lo \in Int, hi \in Int, DeleteTrim, Zenon
  <2>9. i - 1 <= Len(fs)
    BY ONLY <1>3, <2>4, es \in Seq(Entry)
  <2> QED BY ONLY <2>3, <2>4, <2>8, <2>9, Zenon DEF DeleteOk
<1>10. CASE /\ ~(m.bad \/ ~Overlap(es[i], lo, hi)) /\ ~(lo <= s /\ hi >= t) /\ ~(lo = s /\ hi < t)
            /\ ~(hi = t /\ lo > s)
  <2>1. r = SplitEntry(m, i, lo, hi)
    BY ONLY <1>2, <1>3, <1>4, <1>10, r = DeleteScan(m, lo, hi, i), Zenon DEF DeleteScan
  <2>2. r \in MapRec /\ Descriptors(r.open) /\ Splits(m.es, m.open, r.es, r.open, i, lo, hi)
    BY ONLY <1>1, <1>2, <1>3, <1>10, <2>1, ~r.bad, lo \in Int, hi \in Int, SplitIs, Zenon
  <2>3. PICK fs \in Seq(Entry) : fs = r.es
    BY ONLY <2>2 DEF MapRec
  <2>4. GoodMap(fs, r.open) /\ Cleared(fs, i - 1, lo, hi) /\ OnlyRange(fs, es0, lo, hi)
    BY ONLY <1>2, <1>3, <1>5, <2>2, <2>3, lo \in Int, hi \in Int, lo < hi, DeleteSplit, Zenon
  <2>5. Len(fs) = Len(es) + 1
    BY ONLY <1>2, <2>2, <2>3, Zenon DEF Splits
  <2>6. i - 1 <= Len(fs)
    BY ONLY <1>3, <2>5, es \in Seq(Entry)
  <2> QED BY ONLY <2>2, <2>3, <2>4, <2>6, Zenon DEF DeleteOk
<1> QED BY <1>6, <1>7, <1>8, <1>9, <1>10, Zenon

\* A turn of the scan does not clear a failed assertion.
LEMMA DeleteScanBad ==
  ASSUME NEW m, NEW i, NEW lo, NEW hi, m.bad
  PROVE  DeleteScan(m, lo, hi, i) = m
BY Zenon DEF DeleteScan

\* f holds the map after each of the first j turns of the scan over n entries.
DeleteTurns(f, m, n, j, lo, hi) ==
  f = [k \in 0..j |-> IF k = 0 THEN m ELSE DeleteScan(f[k - 1], lo, hi, ScanTurn(n, k))]

\* The scan is a function of its turns.
LEMMA DeleteTurnsExist ==
  ASSUME NEW m, NEW n, NEW lo, NEW hi, NEW j \in Nat
  PROVE  \E f : DeleteTurns(f, m, n, j, lo, hi)
<1> DEFINE T == {k \in Nat : ~\E f : DeleteTurns(f, m, n, k, lo, hi)}
<1>1. T \in SUBSET Nat
  BY Zenon
<1>2. ASSUME NEW x \in T, \A y \in T : x <= y PROVE FALSE
  <2>1. x \in Nat /\ ~\E f : DeleteTurns(f, m, n, x, lo, hi)
    BY Zenon
  <2>2. CASE x = 0
    <3>1. PICK f : f = [k \in 0..x |-> m]
      BY ONLY Zenon
    <3>2. \A k \in 0..x : k = 0
      BY ONLY <2>2
    <3>3. f = [k \in 0..x |-> IF k = 0 THEN m ELSE DeleteScan(f[k - 1], lo, hi, ScanTurn(n, k))]
      BY ONLY <3>1, <3>2, Zenon
    <3> QED BY ONLY <2>1, <3>3, Zenon DEF DeleteTurns
  <2>3. CASE x # 0
    <3>1. PICK y \in Nat : y = x - 1 /\ ~(x <= y) /\ y \in 0..x /\ y # x
      BY ONLY <2>1, <2>3
    <3>2. y \notin T
      BY <1>2, <3>1, Zenon
    <3>3. PICK f : DeleteTurns(f, m, n, y, lo, hi)
      BY <3>2, Zenon
    <3>4. PICK g : g = [k \in 0..x |-> IF k = x THEN DeleteScan(f[y], lo, hi, ScanTurn(n, x)) ELSE f[k]]
      BY ONLY Zenon
    <3>5. \A k \in 0..x : k # x => k \in 0..y /\ (k # 0 => k - 1 \in 0..x /\ k - 1 # x)
      BY ONLY <2>1, <3>1, y \in Nat
    <3>6. \A k \in 0..y : f[k] = IF k = 0 THEN m ELSE DeleteScan(f[k - 1], lo, hi, ScanTurn(n, k))
      BY ONLY <3>3, Zenon DEF DeleteTurns
    <3>7. ASSUME NEW k \in 0..x PROVE g[k] = IF k = 0 THEN m ELSE DeleteScan(g[k - 1], lo, hi, ScanTurn(n, k))
      <4>1. CASE k = x
        <5>1. g[k] = DeleteScan(f[y], lo, hi, ScanTurn(n, x)) /\ g[y] = f[y] /\ k - 1 = y
          BY ONLY <3>1, <3>4, <4>1, k \in 0..x, Zenon
        <5> QED BY ONLY <2>3, <4>1, <5>1, Zenon
      <4>2. CASE k # x /\ k = 0
        <5>1. g[k] = f[k] /\ f[k] = m
          BY ONLY <3>4, <3>5, <3>6, <4>2, k \in 0..x, Zenon
        <5> QED BY ONLY <4>2, <5>1, Zenon
      <4>3. CASE k # x /\ k # 0
        <5>1. g[k] = f[k] /\ f[k] = DeleteScan(f[k - 1], lo, hi, ScanTurn(n, k)) /\ g[k - 1] = f[k - 1]
          BY ONLY <3>4, <3>5, <3>6, <4>3, k \in 0..x, Zenon
        <5> QED BY ONLY <4>3, <5>1, Zenon
      <4> QED BY ONLY <4>1, <4>2, <4>3, Zenon
    <3>8. g = [k \in 0..x |-> IF k = 0 THEN m ELSE DeleteScan(g[k - 1], lo, hi, ScanTurn(n, k))]
      BY ONLY <3>4, <3>7, Zenon
    <3> QED BY ONLY <2>1, <3>8, Zenon DEF DeleteTurns
  <2> QED BY <2>2, <2>3, Zenon
<1>3. j \notin T
  <2> HIDE DEF T
  <2> QED BY <1>1, <1>2, LeastOf, Zenon
<1> QED BY <1>3, Zenon

\* What the scan leaves: no address of the range, and every other one.
LEMMA DeleteIs ==
  ASSUME NEW m \in MapRec, GoodMap(m.es, m.open), NEW lo \in Int, NEW hi \in Int, lo < hi,
         NEW r, r = IntervalMapDelete(m, lo, hi), ~r.bad
  PROVE  DeleteOk(r, 0, m.es, lo, hi)
<1>1. PICK n \in Nat : n = Len(m.es)
  BY DEF MapRec
<1>2. PICK f : /\ DeleteTurns(f, m, n, n, lo, hi) /\ r = f[n]
  <2>1. PICK f : f = CHOOSE g : DeleteTurns(g, m, n, n, lo, hi)
    BY ONLY Zenon
  <2>2. DeleteTurns(f, m, n, n, lo, hi)
    BY ONLY <2>1, n \in Nat, DeleteTurnsExist, Zenon
  <2>3. r = f[n]
    BY ONLY <1>1, <2>1, r = IntervalMapDelete(m, lo, hi), Zenon DEF IntervalMapDelete, DeleteTurns
  <2> QED BY <2>2, <2>3, Zenon
<1>3. \A k \in 0..n : f[k] = IF k = 0 THEN m ELSE DeleteScan(f[k - 1], lo, hi, ScanTurn(n, k))
  BY ONLY <1>2, Zenon DEF DeleteTurns
<1> DEFINE T == {k \in Nat : k <= n /\ ~f[k].bad /\ ~DeleteOk(f[k], n - k, m.es, lo, hi)}
<1>4. T \in SUBSET Nat
  BY Zenon
<1>5. ASSUME NEW x \in T, \A y \in T : x <= y PROVE FALSE
  <2>1. x \in Nat /\ x <= n /\ ~f[x].bad /\ ~DeleteOk(f[x], n - x, m.es, lo, hi)
    BY Zenon
  <2>2. CASE x = 0
    <3>1. f[x] = m
      BY ONLY <1>3, <2>1, <2>2, n \in Nat
    <3>2. n - x = n /\ n <= Len(m.es)
      BY ONLY <1>1, <2>2, n \in Nat
    <3>3. \A k \in 1..Len(m.es) : ~(n < k)
      BY ONLY <1>1, n \in Nat
    <3>4. Cleared(m.es, n, lo, hi) /\ OnlyRange(m.es, m.es, lo, hi)
      BY ONLY <3>3, Zenon DEF Cleared, OnlyRange
    <3> QED BY <2>1, <3>1, <3>2, <3>4, Zenon DEF DeleteOk
  <2>3. CASE x # 0
    <3>1. PICK y \in Nat : y = x - 1 /\ ~(x <= y) /\ y <= n
      BY ONLY <2>1, <2>3, n \in Nat
    <3>2. f[x] = DeleteScan(f[y], lo, hi, ScanTurn(n, x))
      BY ONLY <1>3, <2>1, <2>3, <3>1, n \in Nat
    <3>3. ~f[y].bad
      BY ONLY <2>1, <3>2, DeleteScanBad, Zenon
    <3>4. DeleteOk(f[y], n - y, m.es, lo, hi)
      BY <1>5, <3>1, <3>3, Zenon
    <3>5. ScanTurn(n, x) = n - y /\ n - y \in Nat \ {0} /\ (n - y) - 1 = n - x
      BY ONLY <2>1, <3>1, n \in Nat DEF ScanTurn
    <3>6. DeleteOk(f[x], (n - y) - 1, m.es, lo, hi)
      BY ONLY <2>1, <3>2, <3>4, <3>5, lo \in Int, hi \in Int, lo < hi, DeleteScanOk, Zenon
    <3> QED BY ONLY <2>1, <3>5, <3>6, Zenon
  <2> QED BY <2>2, <2>3, Zenon
<1>6. n \notin T
  <2> HIDE DEF T
  <2> QED BY <1>4, <1>5, LeastOf, Zenon
<1>7. n <= n /\ n - n = 0
  BY ONLY n \in Nat
<1> QED BY <1>2, <1>6, <1>7, Zenon

-----------------------------------------------------------------------------
(* interval_map_add() *)

\* The entries of the two sides of i, at being the entry that is widened to
\* [lo, hi): those of a side are apart, and where an entry that was seen meets
\* one that was not, the scan will find the latter to overlap the range.
Scanned(es, i, at, lo, hi) ==
  /\ \A j, k \in 1..Len(es) : i < j /\ i < k /\ j # k => Apart(es[j], es[k])
  /\ \A j, k \in 1..Len(es) : j <= i /\ k <= i /\ j # k => Apart(es[j], es[k])
  /\ \A j, k \in 1..Len(es) : i < j /\ k <= i /\ ~Apart(es[j], es[k]) =>
       Overlap(es[k], lo, hi) /\ (at <= Len(es) => j = at)
\* es has the addresses of es0 and of the range, or some of them when the
\* entry that is widened was moved.
Grown(es, es0, lo, hi, moved) ==
  /\ \A p \in Int : Covers(es, p) => Covers(es0, p) \/ (lo <= p /\ p < hi)
  /\ ~moved => \A p \in Int : Covers(es0, p) \/ (lo <= p /\ p < hi) => Covers(es, p)

\* Two indices of the array are on the same side of i or not.
LEMMA Sides ==
  ASSUME NEW n \in Nat, NEW i \in 1..n
  PROVE  \A j \in 1..n : /\ (i - 1 < j <=> i < j \/ j = i) /\ (j <= i <=> j <= i - 1 \/ j = i)
                         /\ ~(j <= i /\ i < j) /\ (j <= i \/ i < j) /\ ~(j <= i - 1 /\ j = i)
OBVIOUS

\* Which of two entries is named first does not matter.
LEMMA ApartSym ==
  ASSUME NEW e, NEW f, Apart(e, f)
  PROVE  Apart(f, e)
BY Zenon DEF Apart

\* An entry that shares an address with the range overlaps it.
LEMMA MeetsOverlaps ==
  ASSUME NEW e \in Entry, NEW lo \in Int, NEW hi \in Int, NEW p \in Int, In(e, p), lo <= p, p < hi
  PROVE  Overlap(e, lo, hi)
<1>1. e.start \in Int /\ e.end \in Int
  BY DEF Entry
<1> QED BY <1>1 DEF In, Overlap

\* A wider range overlaps what the narrower one did.
LEMMA OverlapsWider ==
  ASSUME NEW e \in Entry, NEW lo \in Int, NEW hi \in Int, NEW l \in Int, NEW h \in Int, l <= lo, hi <= h,
         Overlap(e, lo, hi)
  PROVE  Overlap(e, l, h)
<1>1. e.start \in Int /\ e.end \in Int
  BY DEF Entry
<1> QED BY <1>1 DEF Overlap

\* fs is es with entry i widened to the range.
Widened(es, i, lo, hi, fs) ==
  /\ fs \in Seq(Entry) /\ Len(fs) = Len(es)
  /\ fs[i].start = Least(es[i].start, lo) /\ fs[i].end = Most(es[i].end, hi) /\ fs[i].fd = es[i].fd
  /\ \A j \in 1..Len(es) : j # i => fs[j] = es[j]

\* Widening an entry of the array.
LEMMA WidenIs ==
  ASSUME NEW es \in Seq(Entry), NEW i \in 1..Len(es), NEW lo \in Int, NEW hi \in Int,
         NEW fs, fs = Widen(es, i, lo, hi)
  PROVE  Widened(es, i, lo, hi, fs)
<1>1. ~(i > Len(es))
  OBVIOUS
<1>2. es[i] \in Entry /\ es[i].start \in Int /\ es[i].end \in Int /\ es[i].fd \in Int
  BY EntryIs, Zenon
<1>3. PICK l \in Int, h \in Int : l = Least(es[i].start, lo) /\ h = Most(es[i].end, hi)
  BY ONLY <1>2, lo \in Int, hi \in Int DEF Least, Most
<1>4. PICK e : e = [start |-> l, end |-> h, fd |-> es[i].fd]
  BY ONLY Zenon
<1>5. e \in Entry
  BY ONLY <1>2, <1>3, <1>4, l \in Int, h \in Int DEF Entry
<1>6. fs = [es EXCEPT ![i].start = Least(@, lo), ![i].end = Most(@, hi)]
  BY ONLY <1>1, fs = Widen(es, i, lo, hi), Zenon DEF Widen
<1>7. fs = [es EXCEPT ![i] = e]
  <2>1. [es EXCEPT ![i].start = Least(@, lo)] = [es EXCEPT ![i] = [es[i] EXCEPT !.start = l]]
    BY ONLY <1>3, Zenon
  <2>2. PICK a : a = [es[i] EXCEPT !.start = l]
    BY ONLY Zenon
  <2>a. PICK b \in Entry : b = es[i]
    BY ONLY <1>2, Zenon
  <2>b. a = [start |-> l, end |-> b.end, fd |-> b.fd]
    <3>1. b \in Entry /\ a = [b EXCEPT !.start = l]
      BY ONLY <2>2, <2>a, Zenon
    <3>2. a \in Entry /\ a = [start |-> l, end |-> b.end, fd |-> b.fd]
      BY ONLY <3>1, l \in Int, ZenonT(40) DEF Entry
    <3> QED BY ONLY <3>2, Zenon
  <2>3. a.end = es[i].end /\ a \in Entry /\ [a EXCEPT !.end = h] = e
    <3>1. b.end \in Int /\ b.fd \in Int
      BY ONLY b \in Entry DEF Entry
    <3>2. a.end = b.end /\ a \in Entry
      BY ONLY <2>b, <3>1, l \in Int DEF Entry
    <3>3. [a EXCEPT !.end = h] = [start |-> l, end |-> h, fd |-> b.fd]
      BY ONLY <2>b
    <3> QED BY ONLY <1>4, <2>a, <3>2, <3>3, Zenon
  <2>4. PICK g : g = [es EXCEPT ![i] = a]
    BY ONLY Zenon
  <2>5. g[i] = a /\ [g EXCEPT ![i] = e] = [es EXCEPT ![i] = e]
    <3>1. i \in DOMAIN es
      OBVIOUS
    <3>2. g = [k \in DOMAIN es |-> IF k = i THEN a ELSE es[k]]
      BY ONLY <2>4, Zenon
    <3>3. [g EXCEPT ![i] = e] = [k \in DOMAIN es |-> IF k = i THEN e ELSE es[k]]
      BY ONLY <3>2
    <3>4. [es EXCEPT ![i] = e] = [k \in DOMAIN es |-> IF k = i THEN e ELSE es[k]]
      BY ONLY Zenon
    <3> QED BY ONLY <3>1, <3>2, <3>3, <3>4, Zenon
  <2>6. fs = [g EXCEPT ![i].end = Most(@, hi)]
    BY ONLY <1>6, <2>1, <2>2, <2>4, ZenonT(40)
  <2>7. [g EXCEPT ![i].end = Most(@, hi)] = [g EXCEPT ![i] = [a EXCEPT !.end = h]]
    BY ONLY <1>3, <2>3, <2>5, Zenon
  <2> QED BY ONLY <2>3, <2>5, <2>6, <2>7, Zenon
<1>8. fs \in Seq(Entry) /\ Len(fs) = Len(es) /\ fs[i] = e /\ \A j \in 1..Len(es) : j # i => fs[j] = es[j]
  BY ONLY <1>5, <1>7, es \in Seq(Entry), i \in 1..Len(es), Replaced
<1>9. e.start = l /\ e.end = h /\ e.fd = es[i].fd
  BY ONLY <1>4
<1> QED BY ONLY <1>3, <1>8, <1>9, Zenon DEF Widened

\* The first overlapping entry is widened.
LEMMA AddFirst ==
  ASSUME NEW es \in Seq(Entry), AllApart(es), NEW i \in 1..Len(es), NEW lo \in Int, NEW hi \in Int, lo < hi,
         \A j \in 1..Len(es) : i < j => ~Overlap(es[j], lo, hi), Overlap(es[i], lo, hi),
         NEW fs, fs = Widen(es, i, lo, hi)
  PROVE  Scanned(fs, i - 1, i, lo, hi) /\ Grown(fs, es, lo, hi, FALSE)
<1>1. PICK n \in Nat : n = Len(es)
  OBVIOUS
<1>2. /\ fs \in Seq(Entry) /\ Len(fs) = n
      /\ fs[i].start = Least(es[i].start, lo) /\ fs[i].end = Most(es[i].end, hi) /\ fs[i].fd = es[i].fd
      /\ \A j \in 1..n : j # i => fs[j] = es[j]
  <2>1. Widened(es, i, lo, hi, fs)
    BY WidenIs, Zenon
  <2> QED BY ONLY <1>1, <2>1, Zenon DEF Widened
<1>3. i \in 1..n /\ \A j \in 1..n : es[j] \in Entry
  BY <1>1
<1>4. \A p \in Int : In(fs[i], p) <=> In(es[i], p) \/ (lo <= p /\ p < hi)
  <2>1. es[i].start \in Int /\ es[i].end \in Int
    BY EntryIs, Zenon
  <2>2. lo < es[i].end /\ hi > es[i].start
    BY Zenon DEF Overlap
  <2>3. \A p \in Int : (Least(es[i].start, lo) <= p /\ p < Most(es[i].end, hi))
                       <=> ((es[i].start <= p /\ p < es[i].end) \/ (lo <= p /\ p < hi))
    <3>1. PICK a \in Int, b \in Int : a = es[i].start /\ b = es[i].end
      BY ONLY <2>1, Zenon
    <3>2. lo < b /\ hi > a
      BY ONLY <2>2, <3>1, Zenon
    <3>3. \A p \in Int : (Least(a, lo) <= p /\ p < Most(b, hi)) <=> ((a <= p /\ p < b) \/ (lo <= p /\ p < hi))
      BY ONLY <3>2, a \in Int, b \in Int, lo \in Int, hi \in Int, lo < hi DEF Least, Most
    <3> QED BY ONLY <3>1, <3>3, Zenon
  <2> QED BY ONLY <1>2, <2>3, Zenon DEF In
<1>5. \A j, k \in 1..n : j # k => Apart(es[j], es[k])
  BY <1>1, Zenon DEF AllApart
<1>6. \A k \in 1..n : k # i => Apart(fs[i], fs[k]) \/ Overlap(fs[k], lo, hi)
  BY ONLY <1>2, <1>3, <1>4, <1>5, lo \in Int, hi \in Int, MeetsOverlaps, Zenon DEF Apart
<1>7. \A k \in 1..n : i < k => ~Overlap(fs[k], lo, hi) /\ k # i
  BY <1>1, <1>2, <1>3
<1>8. \A j \in 1..n : /\ (i - 1 < j <=> i < j \/ j = i) /\ (j <= i <=> j <= i - 1 \/ j = i)
                      /\ ~(j <= i /\ i < j) /\ ~(j <= i - 1 /\ j = i)
  BY ONLY n \in Nat, <1>3, Sides, Zenon
<1>9. \A j, k \in 1..n : j # k /\ j # i /\ k # i => Apart(fs[j], fs[k])
  BY ONLY <1>2, <1>5, Zenon
<1>10. \A j, k \in 1..n : i - 1 < j /\ i - 1 < k /\ j # k => Apart(fs[j], fs[k])
  BY ONLY <1>3, <1>6, <1>7, <1>8, <1>9, ApartSym, Zenon
<1>11. \A j, k \in 1..n : j <= i - 1 /\ k <= i - 1 /\ j # k => Apart(fs[j], fs[k])
  BY ONLY <1>8, <1>9, Zenon
<1>12. \A j, k \in 1..n : i - 1 < j /\ k <= i - 1 /\ ~Apart(fs[j], fs[k]) => Overlap(fs[k], lo, hi) /\ j = i
  BY ONLY <1>6, <1>8, <1>9, Zenon
<1>13. Scanned(fs, i - 1, i, lo, hi)
  BY ONLY <1>2, <1>10, <1>11, <1>12, Zenon DEF Scanned
<1>14. Grown(fs, es, lo, hi, FALSE)
  <2>1. \A p \in Int : Covers(fs, p) => Covers(es, p) \/ (lo <= p /\ p < hi)
    BY ONLY <1>1, <1>2, <1>4, Zenon DEF Covers
  <2>2. \A p \in Int : Covers(es, p) \/ (lo <= p /\ p < hi) => Covers(fs, p)
    BY ONLY <1>1, <1>2, <1>3, <1>4, Zenon DEF Covers
  <2> QED BY ONLY <2>1, <2>2, Zenon DEF Grown
<1> QED BY <1>13, <1>14, Zenon

\* An entry that does not overlap is left alone.
LEMMA AddMiss ==
  ASSUME NEW es \in Seq(Entry), NEW i \in 1..Len(es), NEW at, NEW lo, NEW hi,
         Scanned(es, i, at, lo, hi), ~Overlap(es[i], lo, hi)
  PROVE  Scanned(es, i - 1, at, lo, hi)
<1>1. PICK n \in Nat : n = Len(es) /\ i \in 1..n
  OBVIOUS
<1>2. /\ \A j, k \in 1..n : i < j /\ i < k /\ j # k => Apart(es[j], es[k])
      /\ \A j, k \in 1..n : j <= i /\ k <= i /\ j # k => Apart(es[j], es[k])
      /\ \A j, k \in 1..n : i < j /\ k <= i /\ ~Apart(es[j], es[k]) => Overlap(es[k], lo, hi) /\ (at <= n => j = at)
  BY <1>1, Zenon DEF Scanned
<1>3. \A j \in 1..n : /\ (i - 1 < j <=> i < j \/ j = i) /\ (j <= i <=> j <= i - 1 \/ j = i)
                      /\ ~(j <= i /\ i < j) /\ ~(j <= i - 1 /\ j = i)
  BY ONLY n \in Nat, <1>1, Sides, Zenon
<1>4. \A j \in 1..n : i < j => Apart(es[j], es[i]) /\ Apart(es[i], es[j])
  BY <1>1, <1>2, <1>3, ApartSym, Zenon
<1>5. \A j, k \in 1..n : i - 1 < j /\ i - 1 < k /\ j # k => Apart(es[j], es[k])
  BY ONLY <1>1, <1>2, <1>3, <1>4, Zenon
<1>6. \A j, k \in 1..n : j <= i - 1 /\ k <= i - 1 /\ j # k => Apart(es[j], es[k])
  BY ONLY <1>1, <1>2, <1>3, Zenon
<1>7. \A j, k \in 1..n : i - 1 < j /\ k <= i - 1 /\ ~Apart(es[j], es[k]) =>
        Overlap(es[k], lo, hi) /\ (at <= n => j = at)
  BY ONLY <1>1, <1>2, <1>3, Zenon
<1> QED BY ONLY <1>1, <1>5, <1>6, <1>7, Zenon DEF Scanned

\* fs is es without entry i, whose addresses went to entry at if that one was not moved.
Absorbed(es, i, at, src, fs) ==
  /\ \A j \in 1..Len(fs) : src[j] \in 1..Len(es) /\ src[j] # i /\ (j # i => src[j] = j) /\ (i <= j => i < src[j])
  /\ \A j, k \in 1..Len(fs) : src[j] = src[k] => j = k
  /\ \A k \in 1..Len(es) : k # i => \E j \in 1..Len(fs) : src[j] = k
  /\ \A j \in 1..Len(fs) : j # at => fs[j] = es[src[j]]
  /\ at \in 1..Len(fs) =>
       src[at] = at /\ \A p \in Int : In(fs[at], p) <=> In(es[at], p) \/ In(es[i], p)

\* The turn of the scan from es and [lo, hi) to fs and [l, h).
Turn(es, i, at, lo, hi, fs, src, l, h) ==
  /\ es \in Seq(Entry) /\ i \in 1..Len(es) /\ at \in Nat /\ i < at /\ lo \in Int /\ hi \in Int
  /\ Scanned(es, i, at, lo, hi) /\ l \in Int /\ h \in Int /\ l <= lo /\ hi <= h
  /\ fs \in Seq(Entry) /\ Len(fs) = Len(es) - 1 /\ Absorbed(es, i, at, src, fs)

\* A further overlapping entry is removed and its range goes to the first one.
LEMMA AddAbsorb ==
  ASSUME NEW es, NEW i, NEW at, NEW lo, NEW hi, NEW fs, NEW src, NEW l, NEW h, Turn(es, i, at, lo, hi, fs, src, l, h)
  PROVE  /\ Scanned(fs, i - 1, at, l, h) /\ \A p \in Int : Covers(fs, p) => Covers(es, p)
         /\ ~(at >= Len(es)) => \A p \in Int : Covers(es, p) => Covers(fs, p)
<1>0. /\ es \in Seq(Entry) /\ i \in 1..Len(es) /\ at \in Nat /\ i < at /\ lo \in Int /\ hi \in Int
      /\ Scanned(es, i, at, lo, hi) /\ l \in Int /\ h \in Int /\ l <= lo /\ hi <= h
      /\ fs \in Seq(Entry) /\ Len(fs) = Len(es) - 1 /\ Absorbed(es, i, at, src, fs)
  BY Zenon DEF Turn
<1>1. PICK n \in Nat : n = Len(es) /\ i \in 1..n
  BY ONLY <1>0
<1>2. PICK x \in Nat : x = Len(fs) /\ x = n - 1
  BY ONLY <1>0, <1>1, n \in Nat
<1>3. /\ \A j, k \in 1..n : i < j /\ i < k /\ j # k => Apart(es[j], es[k])
      /\ \A j, k \in 1..n : j <= i /\ k <= i /\ j # k => Apart(es[j], es[k])
      /\ \A j, k \in 1..n : i < j /\ k <= i /\ ~Apart(es[j], es[k]) => Overlap(es[k], lo, hi) /\ (at <= n => j = at)
  BY <1>0, <1>1, Zenon DEF Scanned
<1>4. /\ \A j \in 1..x : src[j] \in 1..n /\ src[j] # i /\ (j # i => src[j] = j) /\ (i <= j => i < src[j])
      /\ \A j, k \in 1..x : src[j] = src[k] => j = k
      /\ \A k \in 1..n : k # i => \E j \in 1..x : src[j] = k
      /\ \A j \in 1..x : j # at => fs[j] = es[src[j]]
      /\ at \in 1..x => src[at] = at /\ \A p \in Int : In(fs[at], p) <=> In(es[at], p) \/ In(es[i], p)
  BY <1>0, <1>1, <1>2, Zenon DEF Absorbed
<1>5. \A j \in 1..x : /\ j \in 1..n /\ (i - 1 < j => i <= j /\ i < src[j]) /\ (at <= x => at <= n)
                      /\ (j <= i - 1 => j < i /\ src[j] = j /\ j <= i /\ j # i /\ j # at)
  <2>1. i \in Nat /\ at \in Nat /\ i < at
    BY ONLY <1>0, <1>1, n \in Nat
  <2>2. \A j \in 1..x : /\ j \in 1..n /\ (i - 1 < j => i <= j) /\ (at <= x => at <= n)
                        /\ (j <= i - 1 => j < i /\ j <= i /\ j # i /\ j # at)
    BY ONLY <1>2, <2>1, n \in Nat, x \in Nat
  <2>3. \A j \in 1..x : (i <= j => i < src[j]) /\ (j # i => src[j] = j)
    BY ONLY <1>4, Zenon
  <2> QED BY ONLY <2>2, <2>3, Zenon
<1>6. i <= i
  BY ONLY <1>1, n \in Nat
<1>7. \A k \in 1..n : es[k] \in Entry
  BY ONLY <1>0, <1>1
<1>8. ASSUME NEW j \in 1..x, NEW k \in 1..x, i - 1 < j, i - 1 < k, j # k, k # at PROVE Apart(fs[j], fs[k])
  <2>1. i < src[j] /\ i < src[k] /\ src[j] # src[k] /\ src[j] \in 1..n /\ src[k] \in 1..n /\ fs[k] = es[src[k]]
    BY ONLY <1>4, <1>5, <1>8, j \in 1..x, k \in 1..x, Zenon
  <2>2. Apart(es[src[j]], es[src[k]])
    BY ONLY <1>3, <2>1, Zenon
  <2>3. CASE j # at
    BY ONLY <1>4, <2>1, <2>2, <2>3, j \in 1..x, Zenon
  <2>4. CASE j = at
    <3>1. src[at] = at /\ at <= n /\ src[k] # at /\ \A p \in Int : In(fs[at], p) <=> In(es[at], p) \/ In(es[i], p)
      <4>1. at \in 1..x /\ at <= n
        BY ONLY <1>2, <2>4, j \in 1..x, n \in Nat, x \in Nat
      <4> QED BY ONLY <1>4, <2>1, <2>4, <4>1, Zenon
    <3>2. Apart(es[src[k]], es[i])
      BY ONLY <1>1, <1>3, <1>6, <2>1, <3>1, Zenon
    <3> QED BY ONLY <2>1, <2>2, <2>4, <3>1, <3>2, Zenon DEF Apart
  <2> QED BY <2>3, <2>4, Zenon
<1>9. \A j, k \in 1..x : i - 1 < j /\ i - 1 < k /\ j # k => Apart(fs[j], fs[k])
  BY ONLY <1>8, ApartSym, Zenon
<1>10. \A j, k \in 1..x : j <= i - 1 /\ k <= i - 1 /\ j # k => Apart(fs[j], fs[k])
  <2>1. \A j \in 1..x : j <= i - 1 => fs[j] = es[j] /\ j \in 1..n /\ j <= i
    BY ONLY <1>4, <1>5, Zenon
  <2> QED BY ONLY <1>3, <2>1, Zenon
<1>11. ASSUME NEW j \in 1..x, NEW k \in 1..x, i - 1 < j, k <= i - 1, ~Apart(fs[j], fs[k])
       PROVE  Overlap(fs[k], l, h) /\ (at <= x => j = at)
  <2>1. fs[k] = es[k] /\ k \in 1..n /\ k <= i /\ k # i /\ src[j] \in 1..n /\ i < src[j] /\ fs[k] \in Entry
    BY ONLY <1>4, <1>5, <1>7, <1>11, j \in 1..x, k \in 1..x, ZenonT(40)
  <2>2. Overlap(es[k], lo, hi) => Overlap(fs[k], l, h)
    BY ONLY <2>1, <1>0, OverlapsWider, Zenon
  <2>3. CASE j # at
    <3>1. ~Apart(es[src[j]], es[k])
      BY ONLY <1>4, <1>11, <2>1, <2>3, j \in 1..x, Zenon
    <3>2. Overlap(es[k], lo, hi) /\ (at <= n => src[j] = at)
      BY ONLY <1>3, <2>1, <3>1, Zenon
    <3>3. ~(at <= x)
      <4>1. ASSUME at <= x PROVE at \in 1..x
        BY ONLY <4>1, <1>1, <1>0, x \in Nat
      <4>2. ASSUME at \in 1..x PROVE src[at] = at /\ at <= n
        BY ONLY <4>2, <1>2, <1>4, n \in Nat, x \in Nat
      <4>3. ASSUME at <= x PROVE src[at] = src[j] /\ at \in 1..x
        BY ONLY <3>2, <4>1, <4>2, <4>3, Zenon
      <4> QED BY ONLY <1>4, <2>3, <4>3, j \in 1..x, Zenon
    <3> QED BY ONLY <2>2, <3>2, <3>3, Zenon
  <2>4. CASE j = at
    <3>1. src[at] = at /\ \A p \in Int : In(fs[at], p) <=> In(es[at], p) \/ In(es[i], p)
      BY ONLY <1>4, <2>4, j \in 1..x, Zenon
    <3>2. Apart(es[i], es[k])
      BY ONLY <1>1, <1>3, <1>6, <2>1, Zenon
    <3>3. ~Apart(es[at], es[k])
      BY ONLY <1>11, <2>1, <2>4, <3>1, <3>2, Zenon DEF Apart
    <3>4. Overlap(es[k], lo, hi)
      BY ONLY <1>3, <2>1, <2>4, <3>1, <3>3, Zenon
    <3> QED BY ONLY <2>2, <2>4, <3>4, Zenon
  <2> QED BY <2>3, <2>4, Zenon
<1>12. Scanned(fs, i - 1, at, l, h)
  BY ONLY <1>2, <1>9, <1>10, <1>11, Zenon DEF Scanned
<1>13. ASSUME NEW p \in Int, Covers(fs, p) PROVE Covers(es, p)
  <2>1. PICK j \in 1..x : In(fs[j], p)
    BY ONLY <1>2, <1>13, Zenon DEF Covers
  <2>2. CASE j # at
    BY ONLY <1>1, <1>4, <2>1, <2>2, j \in 1..x, Zenon DEF Covers
  <2>3. CASE j = at
    BY ONLY <1>1, <1>4, <1>5, <2>1, <2>3, j \in 1..x, p \in Int, Zenon DEF Covers
  <2> QED BY <2>2, <2>3, Zenon
<1>14. ASSUME ~(at >= Len(es)), NEW p \in Int, Covers(es, p) PROVE Covers(fs, p)
  <2>1. PICK k \in 1..n : In(es[k], p)
    BY ONLY <1>1, <1>14, Zenon DEF Covers
  <2>2. at \in 1..x
    BY ONLY <1>1, <1>2, <1>14, <1>0, n \in Nat, x \in Nat
  <2>3. CASE k = i \/ k = at
    BY ONLY <1>2, <1>4, <2>1, <2>2, <2>3, p \in Int, Zenon DEF Covers
  <2>4. CASE ~(k = i \/ k = at)
    <3>1. PICK j \in 1..x : src[j] = k
      BY ONLY <1>4, <2>4, k \in 1..n, Zenon
    <3>2. j # at /\ fs[j] = es[k]
      BY ONLY <1>4, <2>2, <2>4, <3>1, j \in 1..x, Zenon
    <3> QED BY ONLY <1>2, <2>1, <3>2, j \in 1..x, Zenon DEF Covers
  <2> QED BY <2>3, <2>4, Zenon
<1> QED BY <1>12, <1>13, <1>14, Zenon

\* What the scan works on.
ScanRec == [map : MapRec, fd : Int, lo : Int, hi : Int, at : Nat, moved : BOOLEAN]

\* The descriptor that was duplicated for the range is the only one without an entry.
Opened(s, es, open) ==
  /\ Owned(es, open)
  /\ s.fd = NoFd => s.map.open = open
  /\ s.fd # NoFd => s.fd \notin open /\ s.map.open = open \union {s.fd}
\* What the scan starts from.
Started(s, es0, lo0, hi0) ==
  /\ s \in ScanRec /\ s.at = 0 /\ s.moved = FALSE /\ s.lo = lo0 /\ s.hi = hi0 /\ lo0 < hi0
  /\ s.map.es = es0 /\ AllApart(es0) /\ Descriptors(s.map.open)
  /\ \E open : Opened(s, es0, open)
\* What holds when the scan has looked at the entries after i, and none overlapped;
NoneFound(s, i, es0, lo0, hi0) ==
  /\ Started(s, es0, lo0, hi0) /\ i <= Len(es0)
  /\ \A j \in 1..Len(es0) : i < j => ~Overlap(es0[j], lo0, hi0)
\* and when some did.
Merging(s, i, es0, lo0, hi0) ==
  /\ s \in ScanRec /\ s.fd = NoFd /\ Owned(s.map.es, s.map.open) /\ Descriptors(s.map.open)
  /\ i <= Len(s.map.es) /\ i < s.at /\ s.lo < s.hi
  /\ Scanned(s.map.es, i, s.at, s.lo, s.hi) /\ Grown(s.map.es, es0, lo0, hi0, s.moved)
  /\ s.at <= Len(s.map.es) => s.map.es[s.at].start <= s.lo /\ s.hi <= s.map.es[s.at].end
  /\ ~s.moved => s.at <= Len(s.map.es)
AddOk(s, i, es0, lo0, hi0) == NoneFound(s, i, es0, lo0, hi0) \/ Merging(s, i, es0, lo0, hi0)

\* The parts of what the scan works on.
LEMMA ScanRecIs ==
  ASSUME NEW s \in ScanRec
  PROVE  /\ s.map \in MapRec /\ s.map.es \in Seq(Entry) /\ s.map.open \in SUBSET Int /\ s.map.bad \in BOOLEAN
         /\ s.fd \in Int /\ s.lo \in Int /\ s.hi \in Int /\ s.at \in Nat /\ s.moved \in BOOLEAN
<1>1. s.map \in MapRec
  BY ONLY s \in ScanRec DEF ScanRec
<1>2. s.fd \in Int /\ s.lo \in Int /\ s.hi \in Int /\ s.at \in Nat /\ s.moved \in BOOLEAN
  BY ONLY s \in ScanRec DEF ScanRec
<1>3. s.map.es \in Seq(Entry) /\ s.map.open \in SUBSET Int /\ s.map.bad \in BOOLEAN
  BY ONLY <1>1 DEF MapRec
<1> QED BY <1>1, <1>2, <1>3, Zenon

\* Entries with the same descriptors own the same.
LEMMA SameFds ==
  ASSUME NEW es, NEW open, Owned(es, open), NEW fs, Len(fs) = Len(es), \A j \in 1..Len(es) : fs[j].fd = es[j].fd
  PROVE  Owned(fs, open)
<1>1. \A k \in 1..Len(fs) : fs[k].fd = NoFd \/ fs[k].fd \in open
  BY Zenon DEF Owned
<1>2. \A d \in open : \E k \in 1..Len(fs) : fs[k].fd = d
  BY Zenon DEF Owned
<1>3. \A k, j \in 1..Len(fs) : fs[k].fd # NoFd /\ fs[k].fd = fs[j].fd => k = j
  BY Zenon DEF Owned
<1> QED BY ONLY <1>1, <1>2, <1>3, Zenon DEF Owned

\* A turn that finds the first overlap.
LEMMA AddScanFirstOk ==
  ASSUME NEW s, NEW i \in Nat \ {0}, NEW es0, NEW lo0, NEW hi0, NoneFound(s, i, es0, lo0, hi0),
         Overlap(es0[i], lo0, hi0), s.fd = NoFd, es0[i].fd = NoFd,
         NEW r, r = [s EXCEPT !.at = i, !.map.es = Widen(@, i, s.lo, s.hi)]
  PROVE  Merging(r, i - 1, es0, lo0, hi0)
<1>1. /\ s \in ScanRec /\ s.moved = FALSE /\ s.lo = lo0 /\ s.hi = hi0 /\ lo0 < hi0
      /\ s.map.es = es0 /\ AllApart(es0) /\ Descriptors(s.map.open) /\ (\E open : Opened(s, es0, open))
      /\ i <= Len(es0) /\ \A j \in 1..Len(es0) : i < j => ~Overlap(es0[j], lo0, hi0)
  BY Zenon DEF NoneFound, Started
<1>2. es0 \in Seq(Entry) /\ lo0 \in Int /\ hi0 \in Int /\ s.map \in MapRec
  BY ONLY <1>1, ScanRecIs, Zenon
<1>3. i \in 1..Len(es0) /\ i - 1 < i /\ i - 1 <= Len(es0) /\ i \in Nat
  BY ONLY <1>1, <1>2, i \in Nat \ {0}
<1>4. PICK fs : fs = Widen(es0, i, lo0, hi0)
  BY ONLY Zenon
<1>5. Widened(es0, i, lo0, hi0, fs)
  BY ONLY <1>2, <1>3, <1>4, WidenIs, Zenon
<1>6. fs \in Seq(Entry) /\ Len(fs) = Len(es0) /\ \A j \in 1..Len(es0) : fs[j].fd = es0[j].fd
  BY ONLY <1>5, Zenon DEF Widened
<1>7. fs[i].start <= lo0 /\ hi0 <= fs[i].end
  <2>1. PICK a \in Int, b \in Int : a = es0[i].start /\ b = es0[i].end
    BY ONLY <1>2, <1>3, EntryIs, Zenon
  <2>2. fs[i].start = Least(a, lo0) /\ fs[i].end = Most(b, hi0)
    BY ONLY <1>5, <2>1, Zenon DEF Widened
  <2> QED BY ONLY <1>2, <2>2, a \in Int, b \in Int DEF Least, Most
<1>8. Scanned(fs, i - 1, i, lo0, hi0) /\ Grown(fs, es0, lo0, hi0, FALSE)
  BY ONLY <1>1, <1>2, <1>3, <1>4, Overlap(es0[i], lo0, hi0), AddFirst, Zenon
<1>9. Owned(fs, s.map.open)
  <2>1. Owned(es0, s.map.open)
    BY ONLY <1>1, s.fd = NoFd, Zenon DEF Opened
  <2> QED BY ONLY <1>6, <2>1, SameFds, Zenon
<1>10. r = [s EXCEPT !.at = i, !.map.es = fs]
  BY ONLY <1>1, <1>4, r = [s EXCEPT !.at = i, !.map.es = Widen(@, i, s.lo, s.hi)]
<1>11. PICK m : m = [s.map EXCEPT !.es = fs]
  BY ONLY Zenon
<1>12. m \in MapRec /\ m.es = fs /\ m.open = s.map.open
  BY ONLY <1>2, <1>6, <1>11, Zenon DEF MapRec
<1>13. r = [s EXCEPT !.at = i, !.map = m]
  BY ONLY <1>1, <1>10, <1>11
<1>14. /\ r \in ScanRec /\ r.fd = s.fd /\ r.lo = s.lo /\ r.hi = s.hi /\ r.moved = s.moved
       /\ r.at = i /\ r.map = m
  BY ONLY <1>1, <1>3, <1>12, <1>13, Zenon DEF ScanRec
<1>15. i <= Len(fs)
  BY ONLY <1>3, <1>6, <1>2
<1> QED BY ONLY <1>1, <1>3, <1>6, <1>7, <1>8, <1>9, <1>12, <1>14, <1>15, s.fd = NoFd, Zenon DEF Merging

\* A turn that finds a further overlap.
Absorbs(s, i, l, h, m, r) ==
  /\ l = Least(s.map.es[i].start, s.lo) /\ h = Most(s.map.es[i].end, s.hi) /\ m = DeleteEntry(s.map, i)
  /\ r = [s EXCEPT !.lo = l, !.hi = h, !.moved = @ \/ s.at = Len(s.map.es),
                   !.map = [m EXCEPT !.es = Widen(@, s.at, l, h)]]

\* Such a turn keeps what holds of the scan.
LEMMA AddScanMoreOk ==
  ASSUME NEW s, NEW i \in Nat \ {0}, NEW es0, NEW lo0, NEW hi0, Merging(s, i, es0, lo0, hi0),
         Overlap(s.map.es[i], s.lo, s.hi), s.map.es[i].fd = NoFd,
         NEW l, NEW h, NEW m, NEW r, Absorbs(s, i, l, h, m, r)
  PROVE  Merging(r, i - 1, es0, lo0, hi0)
<1>0. /\ l = Least(s.map.es[i].start, s.lo) /\ h = Most(s.map.es[i].end, s.hi) /\ m = DeleteEntry(s.map, i)
      /\ r = [s EXCEPT !.lo = l, !.hi = h, !.moved = @ \/ s.at = Len(s.map.es),
                       !.map = [m EXCEPT !.es = Widen(@, s.at, l, h)]]
  BY Zenon DEF Absorbs
<1>1. /\ s \in ScanRec /\ s.fd = NoFd /\ Owned(s.map.es, s.map.open) /\ Descriptors(s.map.open)
      /\ i <= Len(s.map.es) /\ i < s.at /\ s.lo < s.hi
      /\ Scanned(s.map.es, i, s.at, s.lo, s.hi) /\ Grown(s.map.es, es0, lo0, hi0, s.moved)
      /\ s.at <= Len(s.map.es) => s.map.es[s.at].start <= s.lo /\ s.hi <= s.map.es[s.at].end
      /\ ~s.moved => s.at <= Len(s.map.es)
  BY Zenon DEF Merging
<1>2. PICK es \in Seq(Entry), lo \in Int, hi \in Int, at \in Nat, open \in SUBSET Int :
        es = s.map.es /\ lo = s.lo /\ hi = s.hi /\ at = s.at /\ open = s.map.open
  BY ONLY <1>1, ScanRecIs, Zenon
<1>3. PICK n \in Nat : n = Len(es)
  BY ONLY es \in Seq(Entry)
<1>4. /\ Owned(es, open) /\ Descriptors(open) /\ i <= n /\ i < at /\ lo < hi
      /\ Scanned(es, i, at, lo, hi) /\ Grown(es, es0, lo0, hi0, s.moved)
      /\ at <= n => es[at].start <= lo /\ hi <= es[at].end
      /\ ~s.moved => at <= n
      /\ Overlap(es[i], lo, hi) /\ es[i].fd = NoFd
  BY ONLY <1>1, <1>2, <1>3, Overlap(s.map.es[i], s.lo, s.hi), s.map.es[i].fd = NoFd, Zenon
<1>5. i \in 1..n /\ i \in 1..Len(es) /\ i - 1 <= n - 1 /\ i - 1 < at
  BY ONLY <1>3, <1>4, i \in Nat \ {0}, n \in Nat, at \in Nat
<1>6. PICK a \in Int, b \in Int : a = es[i].start /\ b = es[i].end
  BY ONLY <1>5, es \in Seq(Entry), EntryIs, Zenon
<1>7. lo < b /\ hi > a
  BY ONLY <1>4, <1>6, Zenon DEF Overlap
<1>8. l = Least(a, lo) /\ h = Most(b, hi)
  BY ONLY <1>0, <1>2, <1>6, Zenon
<1>9. l \in Int /\ h \in Int /\ l <= lo /\ hi <= h /\ l < h /\ l <= a /\ b <= h
  BY ONLY <1>4, <1>8, a \in Int, b \in Int, lo \in Int, hi \in Int DEF Least, Most
<1>10. /\ m \in MapRec /\ m.open = open \ {NoFd} /\ Len(m.es) = n - 1
       /\ \A j \in 1..(n - 1) : m.es[j] = IF j = i THEN es[n] ELSE es[j]
  <2>1. PICK w \in MapRec : w = s.map
    BY ONLY <1>1, ScanRecIs, Zenon
  <2>2. w.es = es /\ w.open = open /\ i \in 1..Len(w.es) /\ m = DeleteEntry(w, i) /\ Len(w.es) = n
    BY ONLY <1>0, <1>2, <1>3, <1>5, <2>1, Zenon
  <2>3. /\ m \in MapRec /\ m.open = w.open \ {w.es[i].fd} /\ Len(m.es) = Len(w.es) - 1
        /\ \A j \in 1..(Len(w.es) - 1) : m.es[j] = IF j = i THEN w.es[Len(w.es)] ELSE w.es[j]
    <3>1. Removed(w, i, m)
      BY ONLY <2>2, w \in MapRec, DeleteEntryIs, Zenon
    <3> QED BY ONLY <3>1, Zenon DEF Removed
  <2> QED BY ONLY <1>4, <2>2, <2>3, Zenon
<1>11. m.open = open
  <2>1. NoFd \notin open
    BY ONLY <1>4 DEF Descriptors, NoFd
  <2> QED BY ONLY <1>10, <2>1, Zenon
<1>12. PICK gs \in Seq(Entry) : gs = m.es
  BY ONLY <1>10 DEF MapRec
<1>13. PICK src : From(es, gs, i, src)
  BY ONLY <1>3, <1>5, <1>10, <1>12, es \in Seq(Entry), TakenFrom, Zenon
<1>14. Owned(gs, open)
  <2>1. Owned(gs, open \ {es[i].fd})
    BY ONLY <1>4, <1>5, <1>13, TakenOwned, Zenon
  <2> QED BY ONLY <1>4, <1>10, <1>11, <2>1, Zenon
<1>15. PICK fs : fs = Widen(gs, at, l, h)
  BY ONLY Zenon
<1>16. /\ fs \in Seq(Entry) /\ Len(fs) = n - 1 /\ Owned(fs, open) /\ Absorbed(es, i, at, src, fs)
       /\ at <= n - 1 => fs[at].start <= l /\ h <= fs[at].end
  <2>0. /\ \A j \in 1..(n - 1) : src[j] \in 1..n /\ src[j] # i /\ (j # i => src[j] = j) /\ (i <= j => i < src[j])
        /\ \A j \in 1..(n - 1) : gs[j] = es[src[j]]
        /\ \A j, k \in 1..(n - 1) : src[j] = src[k] => j = k
        /\ \A k \in 1..n : k # i => \E j \in 1..(n - 1) : src[j] = k
    BY ONLY <1>3, <1>10, <1>12, <1>13, Zenon DEF From
  <2>1. CASE at > n - 1
    <3>1. fs = gs /\ ~(at \in 1..(n - 1)) /\ ~(at <= n - 1)
      BY ONLY <1>10, <1>12, <1>15, <2>1, at \in Nat, n \in Nat DEF Widen
    <3>2. \A j \in 1..(n - 1) : j # at => fs[j] = es[src[j]]
      BY ONLY <2>0, <3>1, Zenon
    <3>3. Len(fs) = n - 1
      BY ONLY <1>10, <1>12, <3>1, Zenon
    <3>4. Absorbed(es, i, at, src, fs)
      BY ONLY <1>3, <2>0, <3>1, <3>2, <3>3, Zenon DEF Absorbed
    <3> QED BY ONLY <1>12, <1>14, <3>1, <3>3, <3>4, Zenon
  <2>2. CASE ~(at > n - 1)
    <3>1. at \in 1..(n - 1) /\ at # i /\ at <= n - 1 /\ at <= n /\ at \in 1..n /\ at \in 1..Len(gs)
      BY ONLY <1>4, <1>10, <1>12, <2>2, at \in Nat, n \in Nat, i \in Nat \ {0}
    <3>2. gs[at] = es[at] /\ src[at] = at
      <4>1. gs[at] = es[at]
        BY ONLY <1>10, <1>12, <3>1, Zenon
      <4> QED BY ONLY <4>1, <2>0, <3>1, Zenon
    <3>3. Widened(gs, at, l, h, fs)
      BY ONLY <1>9, <1>15, <3>1, gs \in Seq(Entry), WidenIs, Zenon
    <3>4. /\ fs \in Seq(Entry) /\ Len(fs) = n - 1 /\ fs[at].fd = gs[at].fd
          /\ fs[at].start = Least(es[at].start, l) /\ fs[at].end = Most(es[at].end, h)
          /\ \A j \in 1..(n - 1) : j # at => fs[j] = gs[j]
      BY ONLY <1>10, <1>12, <3>2, <3>3, Zenon DEF Widened
    <3>5. PICK c \in Int, d \in Int : c = es[at].start /\ d = es[at].end
      BY ONLY <1>3, <3>1, es \in Seq(Entry), EntryIs, Zenon
    <3>6. c <= lo /\ hi <= d
      BY ONLY <1>4, <3>1, <3>5, Zenon
    <3>7. fs[at].start = Least(c, l) /\ fs[at].end = Most(d, h)
      BY ONLY <3>4, <3>5, Zenon
    <3>8. fs[at].start <= l /\ h <= fs[at].end
      BY ONLY <1>9, <3>7, c \in Int, d \in Int DEF Least, Most
    <3>9. \A p \in Int : (Least(c, l) <= p /\ p < Most(d, h)) <=> ((c <= p /\ p < d) \/ (a <= p /\ p < b))
      BY ONLY <1>4, <1>7, <1>8, <3>6, a \in Int, b \in Int, c \in Int, d \in Int, lo \in Int, hi \in Int, SMTT(30) DEF Least, Most
    <3>10. \A p \in Int : In(fs[at], p) <=> In(es[at], p) \/ In(es[i], p)
      BY ONLY <1>6, <3>5, <3>7, <3>9, Zenon DEF In
    <3>11. \A j \in 1..(n - 1) : fs[j].fd = gs[j].fd
      BY ONLY <3>4, Zenon
    <3>12. Owned(fs, open)
      BY ONLY <1>10, <1>12, <1>14, <3>4, <3>11, SameFds, Zenon
    <3>13. \A j \in 1..(n - 1) : j # at => fs[j] = es[src[j]]
      BY ONLY <2>0, <3>4, Zenon
    <3>14. Absorbed(es, i, at, src, fs)
      BY ONLY <1>3, <2>0, <3>2, <3>4, <3>10, <3>13, Zenon DEF Absorbed
    <3> QED BY ONLY <3>4, <3>8, <3>12, <3>14, Zenon
  <2> QED BY ONLY <2>1, <2>2, Zenon
<1>17. PICK mv : mv = (s.moved \/ at = n)
  BY ONLY Zenon
<1>18. mv \in BOOLEAN /\ (~mv => at <= n - 1) /\ (~mv => ~s.moved /\ ~(at >= Len(es)))
  <2>1. ASSUME ~mv PROVE ~s.moved /\ at # n /\ at <= n
    BY ONLY <1>4, <1>17, <2>1, Zenon
  <2>2. ASSUME ~mv PROVE at <= n - 1 /\ ~(at >= Len(es))
    BY ONLY <1>3, <2>1, <2>2, at \in Nat, n \in Nat
  <2> QED BY ONLY <1>17, <2>1, <2>2, Zenon
<1>19. Len(fs) = Len(es) - 1
  BY ONLY <1>3, <1>16, Zenon
<1>20. Scanned(fs, i - 1, at, l, h) /\ Grown(fs, es0, lo0, hi0, mv)
  <2>1. Turn(es, i, at, lo, hi, fs, src, l, h)
    BY ONLY <1>4, <1>5, <1>9, <1>16, <1>19, es \in Seq(Entry), at \in Nat, lo \in Int, hi \in Int, Zenon DEF Turn
  <2>2. /\ Scanned(fs, i - 1, at, l, h) /\ \A p \in Int : Covers(fs, p) => Covers(es, p)
        /\ ~(at >= Len(es)) => \A p \in Int : Covers(es, p) => Covers(fs, p)
    BY ONLY <2>1, AddAbsorb, Zenon
  <2>3. Grown(fs, es0, lo0, hi0, mv)
    BY ONLY <1>4, <1>18, <2>2, Zenon DEF Grown
  <2> QED BY ONLY <2>2, <2>3, Zenon
<1>21. PICK w : w = [m EXCEPT !.es = fs]
  BY ONLY Zenon
<1>22. w \in MapRec /\ w.es = fs /\ w.open = open
  BY ONLY <1>10, <1>11, <1>16, <1>21, Zenon DEF MapRec
<1>23. r = [s EXCEPT !.lo = l, !.hi = h, !.moved = mv, !.map = w]
  <2>1. w = [m EXCEPT !.es = Widen(@, s.at, l, h)]
    BY ONLY <1>2, <1>12, <1>15, <1>21, Zenon
  <2> QED BY ONLY <1>0, <1>2, <1>3, <1>17, <2>1, Zenon
<1>24. r \in ScanRec /\ r.lo = l /\ r.hi = h /\ r.moved = mv /\ r.map = w /\ r.fd = s.fd /\ r.at = s.at
  BY ONLY <1>1, <1>9, <1>18, <1>22, <1>23, Zenon DEF ScanRec
<1> QED BY ONLY <1>1, <1>2, <1>4, <1>5, <1>9, <1>16, <1>18, <1>20, <1>22, <1>24, Zenon DEF Merging

\* A turn of the scan does not clear a failed assertion.
LEMMA AddScanBad ==
  ASSUME NEW s, NEW i, s.map.bad
  PROVE  AddScan(s, i) = s
BY Zenon DEF AddScan

\* One turn of the scan.
LEMMA AddScanOk ==
  ASSUME NEW s, NEW i \in Nat \ {0}, NEW es0, NEW lo0, NEW hi0, AddOk(s, i, es0, lo0, hi0),
         NEW r, r = AddScan(s, i), ~r.map.bad
  PROVE  AddOk(r, i - 1, es0, lo0, hi0)
<1>1. ~s.map.bad
  BY AddScanBad, Zenon
<1>2. s \in ScanRec /\ i \in Nat /\ i # 0
  BY Zenon DEF AddOk, NoneFound, Started, Merging
<1>3. s.map.es \in Seq(Entry) /\ s.lo \in Int /\ s.hi \in Int /\ s.at \in Nat /\ s.map \in MapRec
  BY ONLY <1>2, ScanRecIs, Zenon
<1>4. CASE ~Overlap(s.map.es[i], s.lo, s.hi)
  <2>1. r = s
    BY ONLY <1>4, r = AddScan(s, i), Zenon DEF AddScan
  <2>2. CASE NoneFound(s, i, es0, lo0, hi0)
    <3>1. s.map.es = es0 /\ s.lo = lo0 /\ s.hi = hi0 /\ i <= Len(es0) /\ Started(s, es0, lo0, hi0)
          /\ \A j \in 1..Len(es0) : i < j => ~Overlap(es0[j], lo0, hi0)
      BY ONLY <2>2, Zenon DEF NoneFound, Started
    <3>2. i \in 1..Len(es0) /\ i - 1 <= Len(es0) /\ \A j \in 1..Len(es0) : i - 1 < j => i < j \/ j = i
      BY ONLY <1>2, <1>3, <3>1
    <3>3. NoneFound(s, i - 1, es0, lo0, hi0)
      BY ONLY <1>4, <3>1, <3>2, Zenon DEF NoneFound
    <3> QED BY ONLY <2>1, <3>3, Zenon DEF AddOk
  <2>3. CASE Merging(s, i, es0, lo0, hi0)
    <3>1. i <= Len(s.map.es) /\ i < s.at /\ Scanned(s.map.es, i, s.at, s.lo, s.hi)
      BY ONLY <2>3, Zenon DEF Merging
    <3>2. i \in 1..Len(s.map.es) /\ i - 1 <= Len(s.map.es) /\ i - 1 < s.at
      BY ONLY <1>2, <1>3, <3>1
    <3>3. Scanned(s.map.es, i - 1, s.at, s.lo, s.hi)
      BY ONLY <1>3, <1>4, <3>1, <3>2, AddMiss, Zenon
    <3>4. Merging(s, i - 1, es0, lo0, hi0)
      BY ONLY <2>3, <3>2, <3>3, Zenon DEF Merging
    <3> QED BY ONLY <2>1, <3>4, Zenon DEF AddOk
  <2> QED BY <2>2, <2>3, Zenon DEF AddOk
<1>5. CASE Overlap(s.map.es[i], s.lo, s.hi)
  <2>1. s.fd = NoFd /\ s.map.es[i].fd = NoFd
    <3>1. ASSUME s.fd # NoFd \/ s.map.es[i].fd # NoFd PROVE FALSE
      <4>1. r = [s EXCEPT !.map.bad = TRUE]
        BY ONLY <1>1, <1>5, <3>1, r = AddScan(s, i), Zenon DEF AddScan
      <4>2. PICK m : m = [s.map EXCEPT !.bad = TRUE]
        BY ONLY Zenon
      <4>3. m.bad = TRUE
        BY ONLY <1>3, <4>2 DEF MapRec
      <4>4. r = [s EXCEPT !.map = m]
        BY ONLY <4>1, <4>2, Zenon
      <4>5. r.map = m
        BY ONLY <1>2, <4>4 DEF ScanRec
      <4> QED BY ONLY <4>3, <4>5, ~r.map.bad, Zenon
    <3> QED BY <3>1, Zenon
  <2>2. CASE NoneFound(s, i, es0, lo0, hi0)
    <3>1. s.map.es = es0 /\ s.lo = lo0 /\ s.hi = hi0 /\ s.at = 0
      BY ONLY <2>2, Zenon DEF NoneFound, Started
    <3>2. r = [s EXCEPT !.at = i, !.map.es = Widen(@, i, s.lo, s.hi)]
      BY ONLY <1>1, <1>5, <2>1, <3>1, r = AddScan(s, i), Zenon DEF AddScan
    <3>3. Merging(r, i - 1, es0, lo0, hi0)
      <4>1. Overlap(es0[i], lo0, hi0) /\ es0[i].fd = NoFd
        BY ONLY <1>5, <2>1, <3>1, Zenon
      <4> QED BY ONLY <2>1, <2>2, <3>2, <4>1, i \in Nat \ {0}, AddScanFirstOk, Zenon
    <3> QED BY ONLY <3>3, Zenon DEF AddOk
  <2>3. CASE Merging(s, i, es0, lo0, hi0)
    <3>1. s.at # 0
      <4>1. i < s.at
        BY ONLY <2>3, Zenon DEF Merging
      <4> QED BY ONLY <1>2, <1>3, <4>1
    <3>2. PICK l, h, m : l = Least(s.map.es[i].start, s.lo) /\ h = Most(s.map.es[i].end, s.hi) /\ m = DeleteEntry(s.map, i)
      BY ONLY Zenon
    <3>3. r = [s EXCEPT !.lo = l, !.hi = h, !.moved = @ \/ s.at = Len(s.map.es),
                        !.map = [m EXCEPT !.es = Widen(@, s.at, l, h)]]
      BY ONLY <1>1, <1>5, <2>1, <3>1, <3>2, r = AddScan(s, i), Zenon DEF AddScan
    <3>4. Absorbs(s, i, l, h, m, r)
      BY ONLY <3>2, <3>3, Zenon DEF Absorbs
    <3>5. Merging(r, i - 1, es0, lo0, hi0)
      BY ONLY <1>5, <2>1, <2>3, <3>4, i \in Nat \ {0}, AddScanMoreOk, Zenon
    <3> QED BY ONLY <3>5, Zenon DEF AddOk
  <2> QED BY <2>2, <2>3, Zenon DEF AddOk
<1> QED BY <1>4, <1>5, Zenon

\* f holds what the scan over n entries has after each of its first j turns.
AddTurns(f, s, n, j) == f = [k \in 0..j |-> IF k = 0 THEN s ELSE AddScan(f[k - 1], n + 1 - k)]

\* The scan is a function of its turns.
LEMMA AddTurnsExist ==
  ASSUME NEW s, NEW n, NEW j \in Nat
  PROVE  \E f : AddTurns(f, s, n, j)
<1> DEFINE T == {k \in Nat : ~\E f : AddTurns(f, s, n, k)}
<1>1. T \in SUBSET Nat
  BY Zenon
<1>2. ASSUME NEW x \in T, \A y \in T : x <= y PROVE FALSE
  <2>1. x \in Nat /\ ~\E f : AddTurns(f, s, n, x)
    BY Zenon
  <2>2. CASE x = 0
    <3>1. PICK f : f = [k \in 0..x |-> s]
      BY ONLY Zenon
    <3>2. \A k \in 0..x : k = 0
      BY ONLY <2>2
    <3>3. f = [k \in 0..x |-> IF k = 0 THEN s ELSE AddScan(f[k - 1], n + 1 - k)]
      BY ONLY <3>1, <3>2, Zenon
    <3> QED BY ONLY <2>1, <3>3, Zenon DEF AddTurns
  <2>3. CASE x # 0
    <3>1. PICK y \in Nat : y = x - 1 /\ ~(x <= y) /\ y \in 0..x /\ y # x
      BY ONLY <2>1, <2>3
    <3>2. y \notin T
      BY <1>2, <3>1, Zenon
    <3>3. PICK f : AddTurns(f, s, n, y)
      BY <3>2, Zenon
    <3>4. PICK g : g = [k \in 0..x |-> IF k = x THEN AddScan(f[y], n + 1 - x) ELSE f[k]]
      BY ONLY Zenon
    <3>5. \A k \in 0..x : k # x => k \in 0..y /\ (k # 0 => k - 1 \in 0..x /\ k - 1 # x)
      BY ONLY <2>1, <3>1, y \in Nat
    <3>6. \A k \in 0..y : f[k] = IF k = 0 THEN s ELSE AddScan(f[k - 1], n + 1 - k)
      BY ONLY <3>3, Zenon DEF AddTurns
    <3>7. ASSUME NEW k \in 0..x PROVE g[k] = IF k = 0 THEN s ELSE AddScan(g[k - 1], n + 1 - k)
      <4>1. CASE k = x
        <5>1. g[k] = AddScan(f[y], n + 1 - x) /\ g[y] = f[y] /\ k - 1 = y
          BY ONLY <3>1, <3>4, <4>1, k \in 0..x, Zenon
        <5> QED BY ONLY <2>3, <4>1, <5>1, Zenon
      <4>2. CASE k # x /\ k = 0
        <5>1. g[k] = f[k] /\ f[k] = s
          BY ONLY <3>4, <3>5, <3>6, <4>2, k \in 0..x, Zenon
        <5> QED BY ONLY <4>2, <5>1, Zenon
      <4>3. CASE k # x /\ k # 0
        <5>1. g[k] = f[k] /\ f[k] = AddScan(f[k - 1], n + 1 - k) /\ g[k - 1] = f[k - 1]
          BY ONLY <3>4, <3>5, <3>6, <4>3, k \in 0..x, Zenon
        <5> QED BY ONLY <4>3, <5>1, Zenon
      <4> QED BY ONLY <4>1, <4>2, <4>3, Zenon
    <3>8. g = [k \in 0..x |-> IF k = 0 THEN s ELSE AddScan(g[k - 1], n + 1 - k)]
      BY ONLY <3>4, <3>7, Zenon
    <3> QED BY ONLY <2>1, <3>8, Zenon DEF AddTurns
  <2> QED BY <2>2, <2>3, Zenon
<1>3. j \notin T
  <2> HIDE DEF T
  <2> QED BY <1>1, <1>2, LeastOf, Zenon
<1> QED BY <1>3, Zenon

\* The start of the scan.
LEMMA AddStarts ==
  ASSUME NEW m \in MapRec, GoodMap(m.es, m.open), NEW lo \in Int, NEW hi \in Int, lo < hi, NEW fd \in Int,
         NEW d, d = Dup(m, fd), NEW s, s = [map |-> d.map, fd |-> d.fd, lo |-> lo, hi |-> hi, at |-> 0, moved |-> FALSE]
  PROVE  Started(s, m.es, lo, hi)
<1>1. AllApart(m.es) /\ Owned(m.es, m.open) /\ Descriptors(m.open)
  BY Zenon DEF GoodMap
<1>2. /\ d.map \in MapRec /\ d.map.es = m.es /\ Descriptors(d.map.open) /\ d.fd \in Int
      /\ fd = NoFd => d.fd = NoFd /\ d.map = m
      /\ fd # NoFd => d.fd \in Nat /\ d.fd \notin m.open /\ d.map.open = m.open \union {d.fd}
  <2>1. /\ Dup(m, fd).map \in MapRec /\ Dup(m, fd).map.es = m.es /\ Descriptors(Dup(m, fd).map.open)
        /\ Dup(m, fd).fd \in Int
        /\ fd = NoFd => Dup(m, fd).fd = NoFd /\ Dup(m, fd).map = m
        /\ fd # NoFd => /\ Dup(m, fd).fd \in Nat /\ Dup(m, fd).fd \notin m.open
                        /\ Dup(m, fd).map.open = m.open \union {Dup(m, fd).fd}
    BY ONLY <1>1, m \in MapRec, fd \in Int, DupIs
  <2> QED BY ONLY <2>1, d = Dup(m, fd), Zenon
<1>3. d.fd \in Nat => d.fd # NoFd
  BY ONLY TRUE DEF NoFd
<1>4. /\ s.map = d.map /\ s.fd = d.fd /\ s.lo = lo /\ s.hi = hi /\ s.at = 0 /\ s.moved = FALSE
  BY ONLY s = [map |-> d.map, fd |-> d.fd, lo |-> lo, hi |-> hi, at |-> 0, moved |-> FALSE], Zenon
<1>5. s \in ScanRec
  BY ONLY <1>2, lo \in Int, hi \in Int,
          s = [map |-> d.map, fd |-> d.fd, lo |-> lo, hi |-> hi, at |-> 0, moved |-> FALSE] DEF ScanRec
<1>6. /\ s.fd = NoFd => s.map.open = m.open
      /\ s.fd # NoFd => s.fd \notin m.open /\ s.map.open = m.open \union {s.fd}
  BY ONLY <1>2, <1>3, <1>4, Zenon
<1>7. Opened(s, m.es, m.open)
  BY ONLY <1>1, <1>6, Zenon DEF Opened
<1> QED BY ONLY <1>1, <1>2, <1>4, <1>5, <1>7, lo < hi, Zenon DEF Started

\* What the scan leaves.
LEMMA AddScannedIs ==
  ASSUME NEW m \in MapRec, GoodMap(m.es, m.open), NEW lo \in Int, NEW hi \in Int, lo < hi, NEW fd \in Int,
         NEW r, r = AddScanned(m, lo, hi, fd), ~r.map.bad
  PROVE  AddOk(r, 0, m.es, lo, hi)
<1>1. PICK n \in Nat : n = Len(m.es)
  BY DEF MapRec
<1>2. PICK d : d = Dup(m, fd)
  BY ONLY Zenon
<1>3. PICK s : s = [map |-> d.map, fd |-> d.fd, lo |-> lo, hi |-> hi, at |-> 0, moved |-> FALSE]
  BY ONLY Zenon
<1>4. Started(s, m.es, lo, hi)
  BY <1>2, <1>3, AddStarts, Zenon
<1>5. PICK f : /\ AddTurns(f, s, n, n) /\ r = f[n]
  <2>1. PICK f : f = CHOOSE g : AddTurns(g, s, n, n)
    BY ONLY Zenon
  <2>2. AddTurns(f, s, n, n)
    BY ONLY <2>1, n \in Nat, AddTurnsExist, Zenon
  <2>3. r = f[n]
    BY ONLY <1>1, <1>2, <1>3, <2>1, r = AddScanned(m, lo, hi, fd), Zenon DEF AddScanned, AddTurns
  <2> QED BY <2>2, <2>3, Zenon
<1>6. \A k \in 0..n : f[k] = IF k = 0 THEN s ELSE AddScan(f[k - 1], n + 1 - k)
  BY ONLY <1>5, Zenon DEF AddTurns
<1> DEFINE T == {k \in Nat : k <= n /\ ~f[k].map.bad /\ ~AddOk(f[k], n - k, m.es, lo, hi)}
<1>7. T \in SUBSET Nat
  BY Zenon
<1>8. ASSUME NEW x \in T, \A y \in T : x <= y PROVE FALSE
  <2>1. x \in Nat /\ x <= n /\ ~f[x].map.bad /\ ~AddOk(f[x], n - x, m.es, lo, hi)
    BY Zenon
  <2>2. CASE x = 0
    <3>1. f[x] = s
      BY ONLY <1>6, <2>1, <2>2, n \in Nat
    <3>2. n - x = n /\ n <= Len(m.es) /\ \A k \in 1..Len(m.es) : ~(n < k)
      BY ONLY <1>1, <2>2, n \in Nat
    <3>3. NoneFound(s, n, m.es, lo, hi)
      BY ONLY <1>4, <3>2, Zenon DEF NoneFound
    <3> QED BY ONLY <2>1, <3>1, <3>2, <3>3, Zenon DEF AddOk
  <2>3. CASE x # 0
    <3>1. PICK y \in Nat : y = x - 1 /\ ~(x <= y) /\ y <= n
      BY ONLY <2>1, <2>3, n \in Nat
    <3>2. f[x] = AddScan(f[y], n + 1 - x)
      BY ONLY <1>6, <2>1, <2>3, <3>1, n \in Nat
    <3>3. ~f[y].map.bad
      BY ONLY <2>1, <3>2, AddScanBad, Zenon
    <3>4. AddOk(f[y], n - y, m.es, lo, hi)
      BY <1>8, <3>1, <3>3, Zenon
    <3>5. n + 1 - x = n - y /\ n - y \in Nat \ {0} /\ (n - y) - 1 = n - x
      BY ONLY <2>1, <3>1, n \in Nat
    <3>6. AddOk(f[x], (n - y) - 1, m.es, lo, hi)
      BY ONLY <2>1, <3>2, <3>4, <3>5, AddScanOk, Zenon
    <3> QED BY ONLY <2>1, <3>5, <3>6, Zenon
  <2> QED BY <2>2, <2>3, Zenon
<1>9. n \notin T
  <2> HIDE DEF T
  <2> QED BY <1>7, <1>8, LeastOf, Zenon
<1>10. n <= n /\ n - n = 0
  BY ONLY n \in Nat
<1> QED BY <1>5, <1>9, <1>10, Zenon

\* No entry overlapped: the range becomes an entry.
LEMMA AddsEntry ==
  ASSUME NEW s, NEW es \in Seq(Entry), NEW lo \in Int, NEW hi \in Int, NoneFound(s, 0, es, lo, hi),
         NEW r, r = AddEntry(s.map, s.lo, s.hi, s.fd), ~r.bad
  PROVE  r \in MapRec /\ GoodMap(r.es, r.open) /\ Grown(r.es, es, lo, hi, FALSE)
<1>1. /\ s \in ScanRec /\ s.lo = lo /\ s.hi = hi /\ s.map.es = es /\ AllApart(es) /\ Descriptors(s.map.open)
      /\ \A j \in 1..Len(es) : 0 < j => ~Overlap(es[j], lo, hi)
  BY Zenon DEF NoneFound, Started
<1>2. PICK open : /\ Owned(es, open)
                  /\ s.fd = NoFd => s.map.open = open
                  /\ s.fd # NoFd => s.fd \notin open /\ s.map.open = open \union {s.fd}
  <2>1. \E open : Opened(s, es, open)
    BY Zenon DEF NoneFound, Started
  <2> QED BY ONLY <2>1, Zenon DEF Opened
<1>3. s.map \in MapRec /\ s.fd \in Int
  BY ONLY <1>1, ScanRecIs, Zenon
<1>4. Added(s.map, lo, hi, s.fd, r)
  BY ONLY <1>1, <1>3, lo \in Int, hi \in Int, r = AddEntry(s.map, s.lo, s.hi, s.fd), ~r.bad, AddEntryIs, Zenon
<1>5. PICK n \in Nat, x \in Nat : n = Len(es) /\ x = n + 1
  BY ONLY es \in Seq(Entry)
<1>6. PICK fs : fs = r.es
  BY ONLY Zenon
<1>7. /\ r \in MapRec /\ r.open = s.map.open /\ Len(fs) = x /\ \A j \in 1..n : fs[j] = es[j]
      /\ fs[x] = [start |-> lo, end |-> hi, fd |-> s.fd]
  BY ONLY <1>1, <1>4, <1>5, <1>6, Zenon DEF Added
<1>8. fs \in Seq(Entry) /\ fs[x].start = lo /\ fs[x].end = hi /\ fs[x].fd = s.fd
  BY ONLY <1>6, <1>7 DEF MapRec
<1>9. /\ \A j \in 1..x : j \in 1..n \/ j = x
      /\ \A j \in 1..n : j \in 1..x /\ j # x /\ 0 < j
      /\ x \in 1..x
  BY ONLY <1>5, n \in Nat
<1>10. \A p \in Int : In(fs[x], p) <=> lo <= p /\ p < hi
  BY ONLY <1>8, Zenon DEF In
<1>11. \A j \in 1..n : Apart(fs[j], fs[x])
  <2>1. \A j \in 1..n : es[j] \in Entry
    BY ONLY <1>5, es \in Seq(Entry), EntryIs, Zenon
  <2> QED BY ONLY <1>1, <1>5, <1>7, <1>9, <1>10, <2>1, lo \in Int, hi \in Int, MeetsOverlaps, Zenon DEF Apart
<1>12. \A j, k \in 1..n : j # k => Apart(fs[j], fs[k])
  <2>1. \A j, k \in 1..n : j # k => Apart(es[j], es[k])
    BY ONLY <1>1, <1>5, Zenon DEF AllApart
  <2> QED BY ONLY <1>7, <2>1, Zenon
<1>13. AllApart(fs)
  BY ONLY <1>7, <1>9, <1>11, <1>12, ApartSym, Zenon DEF AllApart
<1>14. Owned(fs, r.open)
  <2>0. /\ \A k \in 1..n : es[k].fd = NoFd \/ es[k].fd \in open
        /\ \A d \in open : \E k \in 1..n : es[k].fd = d
        /\ \A k, j \in 1..n : es[k].fd # NoFd /\ es[k].fd = es[j].fd => k = j
    BY ONLY <1>2, <1>5, Zenon DEF Owned
  <2>1. \A k \in 1..x : fs[k].fd = NoFd \/ fs[k].fd \in r.open
    <3>1. \A d \in open : d \in r.open
      BY ONLY <1>2, <1>7, Zenon
    <3>2. \A k \in 1..n : fs[k].fd = NoFd \/ fs[k].fd \in r.open
      BY ONLY <1>7, <2>0, <3>1, Zenon
    <3>3. fs[x].fd = NoFd \/ fs[x].fd \in r.open
      BY ONLY <1>2, <1>7, <1>8, Zenon
    <3> QED BY ONLY <1>9, <3>2, <3>3, Zenon
  <2>2. \A d \in r.open : \E k \in 1..x : fs[k].fd = d
    <3>1. \A d \in open : \E k \in 1..x : fs[k].fd = d
      BY ONLY <1>7, <1>9, <2>0, Zenon
    <3>2. \A d \in r.open : d \in open \/ (d = fs[x].fd)
      BY ONLY <1>2, <1>7, <1>8, Zenon
    <3> QED BY ONLY <1>9, <3>1, <3>2, Zenon
  <2>3. \A k, j \in 1..x : fs[k].fd # NoFd /\ fs[k].fd = fs[j].fd => k = j
    <3>1. \A k, j \in 1..n : fs[k].fd # NoFd /\ fs[k].fd = fs[j].fd => k = j
      BY ONLY <1>7, <2>0, Zenon
    <3>2. \A k \in 1..n : fs[k].fd # NoFd => fs[k].fd # fs[x].fd
      BY ONLY <1>2, <1>7, <1>8, <2>0
    <3> QED BY ONLY <1>9, <3>1, <3>2, Zenon
  <2> QED BY ONLY <1>7, <2>1, <2>2, <2>3, Zenon DEF Owned
<1>15. Grown(fs, es, lo, hi, FALSE)
  <2>1. \A p \in Int : Covers(fs, p) => Covers(es, p) \/ (lo <= p /\ p < hi)
    BY ONLY <1>5, <1>7, <1>9, <1>10, Zenon DEF Covers
  <2>2. \A p \in Int : Covers(es, p) \/ (lo <= p /\ p < hi) => Covers(fs, p)
    BY ONLY <1>5, <1>7, <1>9, <1>10, Zenon DEF Covers
  <2> QED BY ONLY <2>1, <2>2, Zenon DEF Grown
<1> QED BY ONLY <1>1, <1>6, <1>7, <1>8, <1>13, <1>14, <1>15, Zenon DEF GoodMap

\* What interval_map_add() leaves: a good map with the addresses there were and
\* those of the range, and all of them if the entry that was widened stayed.
LEMMA AddIs ==
  ASSUME NEW m \in MapRec, GoodMap(m.es, m.open), NEW lo \in Int, NEW hi \in Int, lo < hi, NEW fd \in Int,
         NEW s, s = AddScanned(m, lo, hi, fd), NEW r, r = IntervalMapAdd(s), ~r.bad
  PROVE  r \in MapRec /\ GoodMap(r.es, r.open) /\ Grown(r.es, m.es, lo, hi, s.moved)
<1>0. m.es \in Seq(Entry)
  BY Zenon DEF GoodMap
<1>1. ~s.map.bad
  BY ONLY r = IntervalMapAdd(s), ~r.bad, Zenon DEF IntervalMapAdd
<1>2. AddOk(s, 0, m.es, lo, hi)
  BY <1>1, AddScannedIs, Zenon
<1>3. CASE NoneFound(s, 0, m.es, lo, hi)
  <2>1. s.at = 0 /\ s.moved = FALSE
    BY ONLY <1>3, Zenon DEF NoneFound, Started
  <2>2. r = AddEntry(s.map, s.lo, s.hi, s.fd)
    BY ONLY <1>1, <2>1, r = IntervalMapAdd(s), Zenon DEF IntervalMapAdd
  <2>3. r \in MapRec /\ GoodMap(r.es, r.open) /\ Grown(r.es, m.es, lo, hi, FALSE)
    BY ONLY <1>0, <1>3, <2>2, ~r.bad, lo \in Int, hi \in Int, AddsEntry, Zenon
  <2> QED BY ONLY <2>1, <2>3, Zenon
<1>4. CASE Merging(s, 0, m.es, lo, hi)
  <2>1. /\ s \in ScanRec /\ Owned(s.map.es, s.map.open) /\ Descriptors(s.map.open) /\ 0 < s.at
        /\ Scanned(s.map.es, 0, s.at, s.lo, s.hi) /\ Grown(s.map.es, m.es, lo, hi, s.moved)
    BY ONLY <1>4, Zenon DEF Merging
  <2>2. s.map \in MapRec /\ s.map.es \in Seq(Entry) /\ s.at \in Nat
    BY ONLY <2>1, ScanRecIs, Zenon
  <2>3. s.at # 0 /\ \A j \in 1..Len(s.map.es) : 0 < j
    BY ONLY <2>1, <2>2
  <2>4. AllApart(s.map.es)
    BY ONLY <2>1, <2>3, Zenon DEF AllApart, Scanned
  <2>5. r = s.map
    BY ONLY <2>3, r = IntervalMapAdd(s), Zenon DEF IntervalMapAdd
  <2> QED BY ONLY <2>1, <2>2, <2>4, <2>5, Zenon DEF GoodMap
<1> QED BY <1>2, <1>3, <1>4, Zenon DEF AddOk

-----------------------------------------------------------------------------
(* The system calls *)

\* The inductive invariant: between two calls the map is good, no page of it is
\* free, and if no entry was moved while it was widened, every executable page
\* is in it.
MapInv ==
  aborted = "no" =>
    /\ GoodMap(exec_allocs, openFds)
    /\ \A p \in VmPage : Covers(exec_allocs, p) => vm[p] # "free"
    /\ ~merged => \A p \in VmPage : vm[p] = "map" => Covers(exec_allocs, p)

\* What an operation starts from.
LEMMA ImapIs ==
  ASSUME GoodMap(exec_allocs, openFds)
  PROVE  Imap \in MapRec /\ Imap.es = exec_allocs /\ Imap.open = openFds
<1>1. exec_allocs \in Seq(Entry)
  BY Zenon DEF GoodMap
<1>2. openFds \in SUBSET Int
  <2>1. openFds \in SUBSET (Nat \ {0})
    BY Zenon DEF GoodMap, Descriptors
  <2> QED BY ONLY <2>1
<1>3. Imap.es = exec_allocs /\ Imap.open = openFds
  BY ONLY Zenon DEF Imap
<1>4. Imap \in MapRec
  BY ONLY <1>1, <1>2, Zenon DEF Imap, MapRec
<1> QED BY <1>3, <1>4, Zenon

\* The pages of a range.
LEMMA PagesAre ==
  ASSUME NEW lo, NEW hi
  PROVE  \A p \in VmPage : p \in Int /\ (p \in Pages(lo, hi) <=> lo <= p /\ p < hi)
<1>1. \A p \in VmPage : p \in Int
  BY MapAssumption
<1> QED BY <1>1, Zenon DEF Pages

\* A mapped page is not free, and executable only with PROT_EXEC.
LEMMA KindIs ==
  ASSUME NEW prot
  PROVE  MapKind(prot) # "free" /\ ("x" \notin prot => MapKind(prot) # "map")
BY DEF MapKind

\* A mapping, with the notification.
LEMMA NotifyMapKeeps ==
  ASSUME MapInv, aborted = "no", NEW lo \in Int, NEW hi \in Int, lo < hi, NEW fd \in Int, NEW prot,
         NotifyMap(lo, hi, prot, fd),
         vm' = [p \in VmPage |-> IF p \in Pages(lo, hi) THEN MapKind(prot) ELSE vm[p]]
  PROVE  MapInv'
<1>1. /\ GoodMap(exec_allocs, openFds)
      /\ \A p \in VmPage : Covers(exec_allocs, p) => vm[p] # "free"
      /\ ~merged => \A p \in VmPage : vm[p] = "map" => Covers(exec_allocs, p)
  BY Zenon DEF MapInv
<1>2. /\ \A p \in VmPage : p \in Int
      /\ \A p \in VmPage : lo <= p /\ p < hi => vm'[p] = MapKind(prot)
      /\ \A p \in VmPage : ~(lo <= p /\ p < hi) => vm'[p] = vm[p]
  BY PagesAre, Zenon
<1>3. MapKind(prot) # "free" /\ ("x" \notin prot => MapKind(prot) # "map")
  BY ONLY KindIs, Zenon
<1>4. CASE "x" \notin prot
  <2>1. UNCHANGED <<exec_allocs, openFds, aborted, merged>>
    BY ONLY <1>4, NotifyMap(lo, hi, prot, fd), Zenon DEF NotifyMap
  <2>2. exec_allocs' = exec_allocs /\ openFds' = openFds /\ aborted' = aborted /\ merged' = merged
    BY ONLY <2>1
  <2>3. GoodMap(exec_allocs', openFds')
    BY ONLY <1>1, <2>2, Zenon
  <2>4. \A p \in VmPage : Covers(exec_allocs', p) => vm'[p] # "free"
    BY ONLY <1>1, <1>2, <1>3, <2>2, Zenon
  <2>5. ~merged' => \A p \in VmPage : vm'[p] = "map" => Covers(exec_allocs', p)
    BY ONLY <1>1, <1>2, <1>3, <1>4, <2>2, Zenon
  <2> QED BY ONLY <2>3, <2>4, <2>5, Zenon DEF MapInv
<1>5. CASE "x" \in prot
  <2>1. PICK s : s = AddScanned(Imap, lo, hi, fd)
    BY ONLY Zenon
  <2>2. PICK r : r = IntervalMapAdd(s)
    BY ONLY Zenon
  <2>3. /\ exec_allocs' = r.es /\ openFds' = r.open /\ aborted' = IF r.bad THEN "add" ELSE "no"
        /\ merged' = (merged \/ s.moved)
    BY ONLY <1>5, <2>1, <2>2, NotifyMap(lo, hi, prot, fd), Zenon DEF NotifyMap, SetMap
  <2>4. ASSUME aborted' = "no" PROVE ~r.bad
    BY ONLY <2>3, <2>4
  <2>5. Imap \in MapRec /\ Imap.es = exec_allocs /\ Imap.open = openFds /\ GoodMap(Imap.es, Imap.open)
    BY ONLY <1>1, ImapIs, Zenon
  <2>6. SUFFICES ASSUME ~r.bad
                 PROVE  /\ GoodMap(r.es, r.open)
                        /\ \A p \in VmPage : Covers(r.es, p) => vm'[p] # "free"
                        /\ ~(merged \/ s.moved) => \A p \in VmPage : vm'[p] = "map" => Covers(r.es, p)
    BY ONLY <2>3, <2>4, <2>6, Zenon DEF MapInv
  <2>7. GoodMap(r.es, r.open) /\ Grown(r.es, Imap.es, lo, hi, s.moved)
    BY ONLY <2>1, <2>2, <2>5, <2>6, lo \in Int, hi \in Int, lo < hi, fd \in Int, AddIs, Zenon
  <2>8. /\ \A p \in Int : Covers(r.es, p) => Covers(exec_allocs, p) \/ (lo <= p /\ p < hi)
        /\ ~s.moved => \A p \in Int : Covers(exec_allocs, p) \/ (lo <= p /\ p < hi) => Covers(r.es, p)
    BY ONLY <2>5, <2>7, Zenon DEF Grown
  <2>9. \A p \in VmPage : Covers(r.es, p) => vm'[p] # "free"
    BY ONLY <1>1, <1>2, <1>3, <2>8, Zenon
  <2>10. ~(merged \/ s.moved) => \A p \in VmPage : vm'[p] = "map" => Covers(r.es, p)
    BY ONLY <1>1, <1>2, <2>8, Zenon
  <2> QED BY ONLY <2>7, <2>9, <2>10, Zenon
<1> QED BY <1>4, <1>5, Zenon

\* A range is not empty.
LEMMA RangeIs ==
  ASSUME NEW r \in Ranges
  PROVE  r[1] \in Int /\ r[2] \in Int /\ r[1] < r[2]
<1>1. r \in VmPage \X {p + 1 : p \in VmPage} /\ r[1] < r[2]
  BY ONLY r \in Ranges, Zenon DEF Ranges
<1>2. r[1] \in VmPage /\ r[2] \in {p + 1 : p \in VmPage}
  BY ONLY <1>1
<1>3. PICK q \in VmPage : r[2] = q + 1
  BY ONLY <1>2, Zenon
<1>4. \A p \in VmPage : p \in Int /\ p + 1 \in Int
  BY MapAssumption
<1> QED BY <1>1, <1>2, <1>3, <1>4, Zenon

\* mmap() keeps the invariant.
LEMMA MmapKeeps ==
  ASSUME MapInv, aborted = "no", Mmap
  PROVE  MapInv'
<1>1. PICK r \in Ranges, prot \in {{"r"}, {"r", "x"}}, fd \in {NoFd, 0} :
        /\ NotifyMap(r[1], r[2], MmapNotifies(prot), fd)
        /\ vm' = SetPages(r[1], r[2], LAMBDA p : MapKind(prot))
  BY Zenon DEF Mmap
<1>2. NotifyMap(r[1], r[2], prot, fd)
  BY ONLY <1>1, Zenon DEF MmapNotifies
<1>3. vm' = [p \in VmPage |-> IF p \in Pages(r[1], r[2]) THEN MapKind(prot) ELSE vm[p]]
  BY ONLY <1>1, Zenon DEF SetPages
<1>4. fd \in Int
  BY ONLY fd \in {NoFd, 0} DEF NoFd
<1>5. r[1] \in Int /\ r[2] \in Int /\ r[1] < r[2]
  BY ONLY r \in Ranges, RangeIs, Zenon
<1> QED BY ONLY <1>2, <1>3, <1>4, <1>5, MapInv, aborted = "no", NotifyMapKeeps, Zenon

\* shmat() keeps it.
LEMMA ShmatKeeps ==
  ASSUME MapInv, aborted = "no", Shmat
  PROVE  MapInv'
<1>1. PICK r \in Ranges, prot \in {{"r", "w"}, {"r", "w", "x"}} :
        /\ NotifyMap(r[1], r[2], prot, NoFd)
        /\ vm' = SetPages(r[1], r[2], LAMBDA p : MapKind(prot))
  BY Zenon DEF Shmat
<1>2. vm' = [p \in VmPage |-> IF p \in Pages(r[1], r[2]) THEN MapKind(prot) ELSE vm[p]]
  BY ONLY <1>1, Zenon DEF SetPages
<1>3. PICK fd \in Int : fd = NoFd
  BY ONLY TRUE DEF NoFd
<1>4. r[1] \in Int /\ r[2] \in Int /\ r[1] < r[2]
  BY ONLY r \in Ranges, RangeIs, Zenon
<1>5. NotifyMap(r[1], r[2], prot, fd)
  BY ONLY <1>1, <1>3, Zenon
<1> QED BY ONLY <1>2, <1>4, <1>5, fd \in Int, MapInv, aborted = "no", NotifyMapKeeps, Zenon

\* mprotect() keeps it.
LEMMA MprotectKeeps ==
  ASSUME MapInv, aborted = "no", Mprotect
  PROVE  MapInv'
<1>1. PICK r \in Ranges, exec \in BOOLEAN :
        /\ vm' = SetPages(r[1], r[2], LAMBDA p : IF exec /\ vm[p] = "map" THEN "map" ELSE "plain")
        /\ UNCHANGED <<exec_allocs, openFds, merged, aborted>>
  BY Zenon DEF Mprotect
<1>2. vm' = [p \in VmPage |-> IF p \in Pages(r[1], r[2]) THEN (IF exec /\ vm[p] = "map" THEN "map" ELSE "plain") ELSE vm[p]]
  BY ONLY <1>1, Zenon DEF SetPages
<1>3. \A p \in VmPage : vm'[p] = vm[p] \/ vm'[p] = "plain"
  BY ONLY <1>2, Zenon
<1>4. exec_allocs' = exec_allocs /\ openFds' = openFds /\ aborted' = aborted /\ merged' = merged
  BY ONLY <1>1
<1>5. /\ GoodMap(exec_allocs, openFds)
      /\ \A p \in VmPage : Covers(exec_allocs, p) => vm[p] # "free"
      /\ ~merged => \A p \in VmPage : vm[p] = "map" => Covers(exec_allocs, p)
  BY Zenon DEF MapInv
<1>6. "plain" # "free" /\ "plain" # "map"
  BY ONLY TRUE
<1>7. GoodMap(exec_allocs', openFds')
  BY ONLY <1>4, <1>5, Zenon
<1>8. \A p \in VmPage : Covers(exec_allocs', p) => vm'[p] # "free"
  BY ONLY <1>3, <1>4, <1>5, <1>6, Zenon
<1>9. ~merged' => \A p \in VmPage : vm'[p] = "map" => Covers(exec_allocs', p)
  BY ONLY <1>3, <1>4, <1>5, <1>6, Zenon
<1> QED BY ONLY <1>7, <1>8, <1>9, Zenon DEF MapInv

\* munmap() keeps it.
LEMMA MunmapKeeps ==
  ASSUME MapInv, aborted = "no", Munmap
  PROVE  MapInv'
<1>1. PICK r \in Ranges :
        /\ SetMap(IntervalMapDelete(Imap, r[1], r[2]), "unmap")
        /\ vm' = SetPages(r[1], r[2], LAMBDA p : "free")
        /\ UNCHANGED merged
  BY Zenon DEF Munmap
<1>2. PICK lo \in Int, hi \in Int : lo = r[1] /\ hi = r[2] /\ lo < hi
  <2>1. r[1] \in Int /\ r[2] \in Int /\ r[1] < r[2]
    BY ONLY r \in Ranges, RangeIs, Zenon
  <2> QED BY ONLY <2>1
<1>3. vm' = [p \in VmPage |-> IF p \in Pages(lo, hi) THEN "free" ELSE vm[p]]
  BY ONLY <1>1, <1>2, Zenon DEF SetPages
<1>4. /\ \A p \in VmPage : p \in Int
      /\ \A p \in VmPage : lo <= p /\ p < hi => vm'[p] = "free"
      /\ \A p \in VmPage : ~(lo <= p /\ p < hi) => vm'[p] = vm[p]
  BY ONLY <1>3, PagesAre, Zenon
<1>5. PICK m : m = IntervalMapDelete(Imap, lo, hi)
  BY ONLY Zenon
<1>6. exec_allocs' = m.es /\ openFds' = m.open /\ merged' = merged /\ aborted' = IF m.bad THEN "unmap" ELSE "no"
  BY ONLY <1>1, <1>2, <1>5, Zenon DEF SetMap
<1>7. ASSUME aborted' = "no" PROVE ~m.bad
  BY ONLY <1>6, <1>7
<1>8. /\ GoodMap(exec_allocs, openFds)
      /\ \A p \in VmPage : Covers(exec_allocs, p) => vm[p] # "free"
      /\ ~merged => \A p \in VmPage : vm[p] = "map" => Covers(exec_allocs, p)
  BY Zenon DEF MapInv
<1>9. Imap \in MapRec /\ Imap.es = exec_allocs /\ Imap.open = openFds /\ GoodMap(Imap.es, Imap.open)
  BY ONLY <1>8, ImapIs, Zenon
<1>10. SUFFICES ASSUME ~m.bad
                PROVE  /\ GoodMap(m.es, m.open)
                       /\ \A p \in VmPage : Covers(m.es, p) => vm'[p] # "free"
                       /\ ~merged => \A p \in VmPage : vm'[p] = "map" => Covers(m.es, p)
  BY ONLY <1>6, <1>7, <1>10, Zenon DEF MapInv
<1>11. DeleteOk(m, 0, Imap.es, lo, hi)
  BY ONLY <1>2, <1>5, <1>9, <1>10, lo \in Int, hi \in Int, DeleteIs, Zenon
<1>12. m \in MapRec /\ GoodMap(m.es, m.open) /\ Cleared(m.es, 0, lo, hi) /\ OnlyRange(m.es, exec_allocs, lo, hi)
  BY ONLY <1>9, <1>11, Zenon DEF DeleteOk
<1>13. \A j \in 1..Len(m.es) : 0 < j
  BY ONLY <1>12 DEF MapRec
<1>14. \A p \in Int : lo <= p /\ p < hi => ~Covers(m.es, p)
  BY ONLY <1>12, <1>13, Zenon DEF Cleared, Covers
<1>15. \A p \in VmPage : Covers(m.es, p) => vm'[p] # "free"
  BY ONLY <1>4, <1>8, <1>12, <1>14, Zenon DEF OnlyRange
<1>16. "free" # "map"
  BY ONLY TRUE
<1>17. ~merged => \A p \in VmPage : vm'[p] = "map" => Covers(m.es, p)
  BY ONLY <1>4, <1>8, <1>12, <1>16, Zenon DEF OnlyRange
<1> QED BY ONLY <1>12, <1>15, <1>17, Zenon

-----------------------------------------------------------------------------
\* A lookup finds a page exactly when some entry has it.
LEMMA CoveredIs ==
  ASSUME NEW p \in Int
  PROVE  Covered(p) <=> Covers(exec_allocs, p)
<1>1. PICK hits : hits = {i \in 1..Len(exec_allocs) : exec_allocs[i].start <= p /\ p < exec_allocs[i].end}
  BY ONLY Zenon
<1>2. SearchByAddr(exec_allocs, p) = IF hits = {} THEN {} ELSE {exec_allocs[CHOOSE i \in hits : \A j \in hits : j <= i]}
  BY ONLY <1>1, Zenon DEF SearchByAddr
<1>3. Covered(p) <=> hits # {}
  BY ONLY <1>2, Zenon DEF Covered
<1>4. hits # {} <=> Covers(exec_allocs, p)
  BY ONLY <1>1, Zenon DEF Covers, In
<1> QED BY <1>3, <1>4, Zenon

\* The invariant says that the map is exact.
LEMMA InvIsExact ==
  ASSUME MapInv
  PROVE  ExecMapExact
<1>1. SUFFICES ASSUME aborted = "no"
               PROVE  /\ ~merged => \A p \in VmPage : vm[p] = "map" => Covered(p)
                      /\ \A p \in VmPage : Covered(p) => vm[p] # "free"
                      /\ EntriesDisjoint /\ FdsOwned
  BY <1>1, Zenon DEF ExecMapExact, ExecCovered, UnmappedNotCovered, EntriesDisjoint, FdsOwned
<1>2. /\ AllApart(exec_allocs) /\ Owned(exec_allocs, openFds) /\ Descriptors(openFds)
      /\ \A p \in VmPage : Covers(exec_allocs, p) => vm[p] # "free"
      /\ ~merged => \A p \in VmPage : vm[p] = "map" => Covers(exec_allocs, p)
  BY <1>1, Zenon DEF MapInv, GoodMap
<1>3. \A p \in VmPage : p \in Int
  BY MapAssumption
<1>4. \A p \in VmPage : Covered(p) <=> Covers(exec_allocs, p)
  BY ONLY <1>3, CoveredIs, Zenon
<1>5. EntriesDisjoint
  BY ONLY <1>2, <1>3, Zenon DEF EntriesDisjoint, AllApart, Apart, In
<1>6. FdsOwned
  <2>1. PICK holders : holders = {i \in 1 .. Len(exec_allocs) : exec_allocs[i].fd # NoFd}
    BY ONLY Zenon
  <2>2. \A d \in openFds : d # NoFd
    BY ONLY <1>2 DEF Descriptors, NoFd
  <2>3. openFds = {exec_allocs[i].fd : i \in holders}
    <3>1. \A d \in openFds : \E i \in holders : exec_allocs[i].fd = d
      BY ONLY <1>2, <2>1, <2>2, Zenon DEF Owned
    <3>2. \A i \in holders : exec_allocs[i].fd \in openFds
      BY ONLY <1>2, <2>1, Zenon DEF Owned
    <3> QED BY ONLY <3>1, <3>2, Zenon
  <2>4. \A i, j \in holders : exec_allocs[i].fd = exec_allocs[j].fd => i = j
    BY ONLY <1>2, <2>1, Zenon DEF Owned
  <2> QED BY ONLY <2>1, <2>3, <2>4, Zenon DEF FdsOwned
<1> QED BY ONLY <1>2, <1>4, <1>5, <1>6, Zenon

\* The interval map is exact after any sequence of memory system calls, for any
\* number of pages, slots and descriptors: notify_vm_op() leaves in it the
\* executable pages (unless an insertion moved the entry it was widening), none
\* that is free and none twice, and each of its descriptors is open once.
THEOREM ExecMapIsExact == MapSpec => []ExecMapExact
<1>1. MapInit => MapInv
  <2>1. SUFFICES ASSUME MapInit PROVE MapInv
    OBVIOUS
  <2>2. exec_allocs = <<>> /\ openFds = {} /\ vm = [p \in VmPage |-> "free"]
    BY <2>1, Zenon DEF MapInit
  <2>3. exec_allocs \in Seq(Entry) /\ \A i \in 1..Len(exec_allocs) : FALSE
    BY ONLY <2>2
  <2>4. Descriptors(openFds)
    BY ONLY <2>2 DEF Descriptors
  <2>5. Owned(exec_allocs, openFds) /\ AllApart(exec_allocs) /\ \A p : ~Covers(exec_allocs, p)
    BY ONLY <2>2, <2>3, Zenon DEF Owned, AllApart, Covers
  <2>6. \A p \in VmPage : vm[p] # "map"
    BY ONLY <2>2
  <2> QED BY ONLY <2>3, <2>4, <2>5, <2>6, Zenon DEF MapInv, GoodMap
<1>2. MapInv /\ [MapNext]_mapVars => MapInv'
  <2>1. SUFFICES ASSUME MapInv, [MapNext]_mapVars PROVE MapInv'
    OBVIOUS
  <2>2. CASE MapNext
    <3>1. aborted = "no" /\ (Mmap \/ Shmat \/ Mprotect \/ Munmap)
      BY <2>2, Zenon DEF MapNext
    <3> QED BY <2>1, <3>1, MmapKeeps, ShmatKeeps, MprotectKeeps, MunmapKeeps, Zenon
  <2>3. CASE UNCHANGED mapVars
    BY ONLY <2>1, <2>3 DEF mapVars, MapInv, GoodMap, Covers, AllApart, Owned, Descriptors
  <2> QED BY <2>1, <2>2, <2>3, Zenon
<1>3. MapInv => ExecMapExact
  BY InvIsExact, Zenon
<1> QED BY <1>1, <1>2, <1>3, PTL DEF MapSpec
=============================================================================
