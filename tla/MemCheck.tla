------------------------------ MODULE MemCheck ------------------------------
(***************************************************************************)
(* The memory checker: memcheck.c, memcheck.S and the replacements of      *)
(* naive_stdlib.c.                                                         *)
(*                                                                         *)
(* A shadow bit for each byte of memory says if the byte may be accessed.  *)
(* Hooks around malloc(), realloc() and free() and the VM callback set     *)
(* it; code before each load and store tests it.  The counter in_malloc    *)
(* of a thread silences both while the allocator runs.  The allocator and  *)
(* the program are external: the allocator hands out any free block, or    *)
(* none, and the program frees blocks that it owns and blocks it does not. *)
(***************************************************************************)
EXTENDS Integers, Sequences, FiniteSets, FiniteSetsExt

CONSTANTS
  MThread,      \* threads
  Arena,        \* blocks (their addresses) that the allocator always has
  Page,         \* blocks that it maps first; the program maps them too
  BlockSize,    \* bytes between blocks
  AllocSize,    \* sizes that the program asks for
  MaxDepth,     \* bound on nested calls of hooked functions
  MaxCalls,     \* bound on calls
  Char,         \* characters of strings, 0 the terminator
  MaxString     \* bound on the length of strings

ASSUME MemCheckAssumption ==
  /\ BlockSize \in Nat /\ BlockSize % 8 = 0 /\ AllocSize \subseteq 1..BlockSize
  /\ \A b \in Arena \union Page : b \in Nat /\ b % 8 = 0
  /\ \A b, c \in Arena \union Page : b # c => b + BlockSize <= c \/ c + BlockSize <= b
  /\ 0 \in Char /\ Char \subseteq Nat /\ MaxString \in Nat

VARIABLES
  shadow,       \* shadow memory: the bits set in each shadow byte
  allocs,       \* the hash table allocs
  in_malloc,    \* in_malloc of each thread
  calls,        \* hooked functions each thread is in, innermost last
  heap,         \* size of each block of the allocator, 0 when free
  mapped,       \* who has mapped each page: "none", "app" or "heap"
  lost,         \* blocks that a failed realloc() left with the program
  verdicts,     \* <<reported, misused>> of each free
  mcalls,       \* calls made
  lib           \* a call of a replaced function and its result

memcheckVars == <<shadow, allocs, in_malloc, calls, heap, mapped, lost, verdicts, mcalls, lib>>

\* As in SequencesExt, whose definitions the proofs would carry along.
LastOf(s) == s[Len(s)]
AllButLast(s) == SubSeq(s, 1, Len(s) - 1)

Block == Arena \union Page
Bytes(a, n) == a..(a + n - 1)
MemBytes == UNION {Bytes(b, BlockSize) : b \in Block}
NotInTable == -1
Freed == -2                   \* MAGIC_FREED

-----------------------------------------------------------------------------
(* The shadow memory *)

LowBits(n) == {k \in 0..7 : k < n}

(* (Variant of Mark: the bits after the last whole byte are forgotten.) *)
MarkWhole(s, start, size, valid) ==
  [g \in DOMAIN s |-> IF g \in (start \div 8)..(start \div 8 + size \div 8 - 1)
                      THEN IF valid THEN 0..7 ELSE {} ELSE s[g]]

(* memcheck_mark() with COMPACT_SHADOW, for a start that is a multiple of 8:  *)
(* the bits of the last, partial byte, then the whole bytes.                *)
Mark(s, start, size, valid) ==
  LET end == start + size
      last == [g \in DOMAIN s |->
                 IF g = end \div 8 /\ end % 8 # 0
                 THEN IF valid THEN s[g] \union LowBits(end % 8) ELSE s[g] \ LowBits(end % 8)
                 ELSE s[g]]
      whole == (size - (end % 8)) \div 8
  IN [g \in DOMAIN s |-> IF g \in (start \div 8)..(start \div 8 + whole - 1)
                         THEN IF valid THEN 0..7 ELSE {} ELSE last[g]]

(* (Variant of Check: the mask is not shifted.) *)
CheckUnshifted(s, addr, size) ==
  {k \in 0..(size - 1) : k % 8 \notin s[(addr \div 8) + (k \div 8)]}

(* The code of __memcheck_inst_aarch64(): it loads 64 shadow bits and tests *)
(* the size bits from the offset of the address in its byte; what remains   *)
(* set is the bytes that are not valid.                                     *)
Check(s, addr, size) ==
  LET offset == addr % 8
      x3 == {k + offset : k \in 0..(size - 1)}
  IN {k \in x3 : k % 8 \notin s[(addr \div 8) + (k \div 8)]}

Valid(s, byte) == byte % 8 \in s[byte \div 8]

-----------------------------------------------------------------------------
(* The hooks *)

(* memcheck_alloc_hook(). *)
AllocHook(start, size) ==
  /\ allocs' = [allocs EXCEPT ![start] = size]
  /\ shadow' = Mark(shadow, start, size, TRUE)

(* (Variant of FreeHook: the entry of a freed block stays.) *)
FreeHookKeeps(start, owned) ==
  LET size == allocs[start]
  IN \/ /\ size \in {NotInTable, Freed}
        /\ verdicts' = Append(verdicts, <<TRUE, ~owned>>)
        /\ UNCHANGED <<allocs, shadow>>
     \/ /\ size \notin {NotInTable, Freed}
        /\ shadow' = Mark(shadow, start, size, FALSE)
        /\ verdicts' = Append(verdicts, <<FALSE, ~owned>>)
        /\ UNCHANGED allocs

(* memcheck_free_hook() for a block that the program owns or does not own. *)
FreeHook(start, owned) ==
  LET size == allocs[start]
  IN \/ /\ size \in {NotInTable, Freed}
        /\ verdicts' = Append(verdicts, <<TRUE, ~owned>>)
        /\ UNCHANGED <<allocs, shadow>>
     \/ /\ size \notin {NotInTable, Freed}
        /\ allocs' = [allocs EXCEPT ![start] = Freed]
        /\ shadow' = Mark(shadow, start, size, FALSE)
        /\ verdicts' = Append(verdicts, <<FALSE, ~owned>>)

Frame(fn, ptr, size, owned) == [fn |-> fn, ptr |-> ptr, size |-> size, owned |-> owned, at |-> "in"]
Top(t) == LastOf(calls[t])
SetTop(t, f) == [calls EXCEPT ![t] = Append(AllButLast(@), f)]

(* The program can call from its own code, or from a function that is       *)
(* ignored.                                                                 *)
CanCall(t) ==
  /\ mcalls < MaxCalls /\ Len(calls[t]) < MaxDepth
  /\ calls[t] # <<>> => Top(t).fn = "ignored"

Enter(t, f) ==
  /\ in_malloc' = [in_malloc EXCEPT ![t] = @ + 1]
  /\ calls' = [calls EXCEPT ![t] = Append(@, f)]
  /\ mcalls' = mcalls + 1

(* malloc(), calloc(), valloc() and the others that allocate: memcheck_inst_alloc0(), *)
(* memcheck_inst_alloc1(), memcheck_inst_calloc(), memcheck_inst_posix_memalign() and *)
(* memcheck_malloc_pre().                                                             *)
CallAlloc(t, size) ==
  /\ CanCall(t)
  /\ Enter(t, Frame("malloc", {}, size, FALSE))
  /\ UNCHANGED <<shadow, allocs, heap, mapped, lost, verdicts, lib>>

(* A block is the program's from the return of the call that allocated it   *)
(* to the call that frees it.                                               *)
InCall == {b \in Block : \E t \in MThread : \E k \in 1..Len(calls[t]) : b \in calls[t][k].ptr}
Owned(b) == heap[b] > 0 /\ b \notin InCall

(* memcheck_inst_realloc() or memcheck_inst_free() with memcheck_free_pre(). *)
CallFree(t, fn, b, size) ==
  /\ CanCall(t) /\ b \notin InCall
  /\ Enter(t, Frame(fn, {b}, size, Owned(b)))
  /\ FreeHook(b, Owned(b) /\ b \notin lost)
  /\ UNCHANGED <<heap, mapped, lost, lib>>

(* memcheck_inst_ignored_fn(). *)
CallIgnored(t) ==
  /\ CanCall(t)
  /\ Enter(t, Frame("ignored", {}, 0, FALSE))
  /\ UNCHANGED <<shadow, allocs, heap, mapped, lost, verdicts, lib>>

(* What the allocator does (external). *)
UsableBytes(b) == heap[b] = 0 /\ b \notin InCall /\ (b \in Page => mapped[b] = "heap")

AllocatorAllocates(t) ==
  /\ calls[t] # <<>> /\ Top(t).at = "in"
  /\ \/ /\ Top(t).fn = "malloc"
        /\ \/ \E b \in Block :
                /\ UsableBytes(b) /\ heap' = [heap EXCEPT ![b] = Top(t).size]
                /\ calls' = SetTop(t, [Top(t) EXCEPT !.ptr = {b}, !.at = "out"])
           \/ heap' = heap /\ calls' = SetTop(t, [Top(t) EXCEPT !.at = "out"])
        /\ UNCHANGED lost
     \/ /\ Top(t).fn = "realloc" /\ Top(t).owned
        /\ LET old == CHOOSE b \in Top(t).ptr : TRUE
           IN \/ \E b \in Block :
                   /\ b = old \/ UsableBytes(b)
                   /\ heap' = [heap EXCEPT ![old] = 0, ![b] = Top(t).size]
                   /\ calls' = SetTop(t, [Top(t) EXCEPT !.ptr = {b}, !.at = "out"])
                   /\ lost' = lost \ {old}
              \/ /\ heap' = heap /\ lost' = lost \union {old}
                 /\ calls' = SetTop(t, [Top(t) EXCEPT !.ptr = {}, !.at = "out"])
     \/ /\ Top(t).fn \in {"realloc", "free"}
        /\ Top(t).owned => Top(t).fn = "free"
        /\ heap' = [b \in Block |-> IF Top(t).owned /\ b \in Top(t).ptr THEN 0 ELSE heap[b]]
        /\ lost' = IF Top(t).owned THEN lost \ Top(t).ptr ELSE lost
        /\ calls' = SetTop(t, [Top(t) EXCEPT !.ptr = {}, !.at = "out"])
  /\ UNCHANGED <<shadow, allocs, in_malloc, mapped, verdicts, mcalls, lib>>

Leave(t) ==
  /\ in_malloc' = [in_malloc EXCEPT ![t] = @ - 1]
  /\ calls' = [calls EXCEPT ![t] = AllButLast(@)]

(* memcheck_malloc_post(), after malloc() and realloc(). *)
MallocPost(t) ==
  /\ calls[t] # <<>> /\ Top(t).fn \in {"malloc", "realloc"} /\ Top(t).at = "out"
  /\ Leave(t)
  /\ \/ Top(t).ptr = {} /\ UNCHANGED <<allocs, shadow>>
     \/ \E b \in Top(t).ptr : AllocHook(b, Top(t).size)
  /\ UNCHANGED <<heap, mapped, lost, verdicts, mcalls, lib>>

(* memcheck_free_post(), after free() and the ignored functions. *)
FreePost(t) ==
  /\ calls[t] # <<>>
  /\ Top(t).fn = "ignored" \/ (Top(t).fn = "free" /\ Top(t).at = "out")
  /\ Leave(t)
  /\ UNCHANGED <<shadow, allocs, heap, mapped, lost, verdicts, mcalls, lib>>

(* (Variant of VmOpMark: the allocator's own mappings are marked too.) *)
VmOpMarkAlways(t, b, valid) == Mark(shadow, b, BlockSize, valid)

(* memcheck_vm_op_handler(). *)
VmOpMark(t, b, valid) ==
  IF in_malloc[t] = 0 THEN Mark(shadow, b, BlockSize, valid) ELSE shadow

(* mmap() and munmap(), by the program or by the allocator. *)
VmMap(t, b) ==
  /\ mapped[b] = "none" /\ (calls[t] # <<>> => Top(t).fn # "ignored" /\ Top(t).at = "in")
  /\ mapped' = [mapped EXCEPT ![b] = IF calls[t] = <<>> THEN "app" ELSE "heap"]
  /\ shadow' = VmOpMark(t, b, TRUE)
  /\ UNCHANGED <<allocs, in_malloc, calls, heap, lost, verdicts, mcalls, lib>>

VmUnmap(t, b) ==
  /\ \/ mapped[b] = "app" /\ calls[t] = <<>>
     \/ /\ mapped[b] = "heap" /\ heap[b] = 0 /\ b \notin InCall
        /\ calls[t] # <<>> /\ Top(t).fn # "ignored"
  /\ mapped' = [mapped EXCEPT ![b] = "none"]
  /\ shadow' = VmOpMark(t, b, FALSE)
  /\ UNCHANGED <<allocs, in_malloc, calls, heap, lost, verdicts, mcalls, lib>>

-----------------------------------------------------------------------------
(* naive_stdlib.c.  A string is a sequence that ends with its terminator;   *)
(* character i of s is s[i + 1].  Each function gives what it returns and   *)
(* the number of characters it has read of each string.                     *)

NoPtr == -1
FirstThat(n, Stop(_)) == CHOOSE i \in 0..n : (i = n \/ Stop(i)) /\ \A j \in 0..(i - 1) : ~Stop(j)
Sign(x, y) == IF x < y THEN -1 ELSE IF x > y THEN 1 ELSE 0
Result(ret, reads) == [ret |-> ret, reads |-> reads]
Strings == {Append(s, 0) : s \in UNION {[1..k -> Char \ {0}] : k \in 0..MaxString}}

Strlen(s) == LET i == FirstThat(Len(s), LAMBDA k : s[k + 1] = 0) IN Result(i, <<i + 1, 0>>)

Strnlen(s, n) ==
  LET i == FirstThat(n, LAMBDA k : s[k + 1] = 0) IN Result(i, <<IF i = n THEN n ELSE i + 1, 0>>)

Strcmp(s1, s2) ==
  LET i == FirstThat(Len(s1), LAMBDA k : ~(s1[k + 1] = s2[k + 1] /\ s1[k + 1] # 0))
  IN Result(Sign(s1[i + 1], s2[i + 1]), <<i + 1, i + 1>>)

(* (Variant of Strncmp: the bound is tested after the character is read.) *)
StrncmpLate(s1, s2, n) ==
  LET i == FirstThat(Len(s1), LAMBDA k : ~(s1[k + 1] = s2[k + 1] /\ s1[k + 1] # 0 /\ k < n))
  IN IF n = 0 THEN Result(0, <<0, 0>>) ELSE Result(Sign(s1[i + 1], s2[i + 1]), <<i + 1, i + 1>>)

Strncmp(s1, s2, n) ==
  LET i == FirstThat(Len(s1), LAMBDA k : ~(s1[k + 1] = s2[k + 1] /\ s1[k + 1] # 0 /\ k + 1 < n))
  IN IF n = 0 THEN Result(0, <<0, 0>>) ELSE Result(Sign(s1[i + 1], s2[i + 1]), <<i + 1, i + 1>>)

(* memcheck_index(). *)
IndexOf(s, c) ==
  LET i == FirstThat(Len(s), LAMBDA k : s[k + 1] = 0 \/ s[k + 1] = c)
  IN Result(IF s[i + 1] # 0 \/ c = 0 THEN i ELSE NoPtr, <<i + 1, 0>>)

(* (Variant of Rindex: the search for the terminator fails.) *)
RindexNoEnd(s, c) ==
  LET end == FirstThat(Len(s), LAMBDA k : s[k + 1] = 0)
  IN Result(Max({NoPtr} \union {k \in 0..(end - 1) : s[k + 1] = c}), <<end + 1, 0>>)

Rindex(s, c) ==
  LET end == FirstThat(Len(s), LAMBDA k : s[k + 1] = 0)
      found == {k \in 0..(end - 1) : s[k + 1] = c}
  IN Result(IF c = 0 THEN end ELSE Max({NoPtr} \union found), <<end + 1, 0>>)

(* memcheck_memchr(); memcheck_rawmemchr() is the same without a bound. *)
Memchr(s, c, n) ==
  LET i == FirstThat(n, LAMBDA k : s[k + 1] = c)
  IN IF i = n THEN Result(NoPtr, <<n, 0>>) ELSE Result(i, <<i + 1, 0>>)
Rawmemchr(s, c) == Memchr(s, c, Len(s))

Strchrnul(s, c) ==
  LET i == FirstThat(Len(s), LAMBDA k : s[k + 1] = c \/ s[k + 1] = 0) IN Result(i, <<i + 1, 0>>)

(* memcheck_bcmp(). *)
Bcmp(s1, s2, n) ==
  LET i == FirstThat(n, LAMBDA k : s1[k + 1] # s2[k + 1])
  IN IF i = n THEN Result(0, <<n, n>>) ELSE Result(-1, <<i + 1, i + 1>>)

Chars(s) == {s[k] : k \in 1..(Len(s) - 1)}
Strspn(s, accept) ==
  LET i == FirstThat(Len(s), LAMBDA k : s[k + 1] = 0 \/ s[k + 1] \notin Chars(accept))
  IN Result(i, <<i + 1, Len(accept)>>)
Strcspn(s, reject) ==
  LET i == FirstThat(Len(s), LAMBDA k : s[k + 1] = 0 \/ s[k + 1] \in Chars(reject))
  IN Result(i, <<i + 1, Len(reject)>>)

(* memcheck_strcpy() and memcheck_stpcpy(): what is written to dest, and    *)
(* the offset in dest that is returned.                                     *)
Strcpy(s) == Result([wrote |-> SubSeq(s, 1, FirstThat(Len(s), LAMBDA k : s[k + 1] = 0) + 1), at |-> 0], <<Len(s), 0>>)
Stpcpy(s) ==
  LET i == FirstThat(Len(s), LAMBDA k : s[k + 1] = 0)
  IN Result([wrote |-> SubSeq(s, 1, i + 1), at |-> i], <<i + 1, 0>>)

(* The functions that memcheck_install_naive_stdlib() replaces. *)
Naive(fn, s1, s2, c, n) ==
  CASE fn = "strlen" -> Strlen(s1)          [] fn = "strnlen" -> Strnlen(s1, n)
    [] fn = "strcmp" -> Strcmp(s1, s2)      [] fn = "strncmp" -> Strncmp(s1, s2, n)
    [] fn = "index" -> IndexOf(s1, c)       [] fn = "rindex" -> Rindex(s1, c)
    [] fn = "memchr" -> Memchr(s1, c, Min({n, Len(s1)}))
    [] fn = "rawmemchr" -> Rawmemchr(s1, c) [] fn = "strchrnul" -> Strchrnul(s1, c)
    [] fn = "bcmp" -> Bcmp(s1, s2, Min({n, Len(s1), Len(s2)}))
    [] fn = "strspn" -> Strspn(s1, s2)      [] fn = "strcspn" -> Strcspn(s1, s2)
    [] fn = "strcpy" -> Strcpy(s1)          [] fn = "stpcpy" -> Stpcpy(s1)
LibFns == {"strlen", "strnlen", "strcmp", "strncmp", "index", "rindex", "memchr", "rawmemchr",
           "strchrnul", "bcmp", "strspn", "strcspn", "strcpy", "stpcpy"}

NoCall == [fn |-> "none"]

(* The program calls a replaced function: the replacement runs. *)
CallLib(fn, s1, s2, c, n) ==
  /\ lib = NoCall
  /\ lib' = [fn |-> fn, s1 |-> s1, s2 |-> s2, c |-> c, n |-> n, result |-> Naive(fn, s1, s2, c, n)]
  /\ UNCHANGED <<shadow, allocs, in_malloc, calls, heap, mapped, lost, verdicts, mcalls>>

-----------------------------------------------------------------------------
MemCheckInit ==
  /\ shadow = [g \in {b \div 8 : b \in MemBytes} |-> {}]
  /\ allocs = [b \in Block |-> NotInTable]
  /\ in_malloc = [t \in MThread |-> 0]
  /\ calls = [t \in MThread |-> <<>>]
  /\ heap = [b \in Block |-> 0]
  /\ mapped = [b \in Page |-> "none"]
  /\ lost = {} /\ verdicts = <<>> /\ mcalls = 0
  /\ lib = NoCall

HeapNext ==
  \E t \in MThread :
    \/ \E size \in AllocSize : CallAlloc(t, size)
    \/ \E b \in Block : CallFree(t, "free", b, 0) \/ \E size \in AllocSize : CallFree(t, "realloc", b, size)
    \/ CallIgnored(t) \/ AllocatorAllocates(t) \/ MallocPost(t) \/ FreePost(t)
    \/ \E b \in Page : VmMap(t, b) \/ VmUnmap(t, b)

LibNext ==
  \E fn \in LibFns, s1, s2 \in Strings, c \in Char, n \in 0..(MaxString + 1) : CallLib(fn, s1, s2, c, n)

MemCheckSpec == MemCheckInit /\ [][HeapNext \/ LibNext]_memcheckVars

-----------------------------------------------------------------------------
(* Properties *)

(* No false alarm: every byte of a block that the program owns is valid, so  *)
(* memcheck_unalloc() is not called for it, whatever other threads allocate, *)
(* free and map meanwhile.  A block that a failed realloc() leaves with the  *)
(* program is excepted: memcheck_free_pre() has already marked it.           *)
OwnedBytesValid ==
  \A b \in Block : Owned(b) /\ b \notin lost => \A x \in Bytes(b, heap[b]) : Valid(shadow, x)

(* No missed error: a byte that neither the program nor a running allocation *)
(* owns and that is in no mapping of the program is not valid.               *)
UnownedBytesInvalid ==
  \A b \in Block : \A x \in Bytes(b, BlockSize) :
    Valid(shadow, x) => \/ heap[b] > 0 /\ x < b + heap[b]
                        \/ b \in Page /\ mapped[b] = "app"

(* memcheck_free_hook() reports a free exactly when the block is not the     *)
(* program's to free, or was left to it by a failed realloc().                *)
FreeReportsExact == \A k \in 1..Len(verdicts) : verdicts[k][1] = verdicts[k][2]

(* The test that the instrumentation makes finds exactly the accesses with a *)
(* byte that is not valid.                                                   *)
CheckExact ==
  mcalls > 0 => \A b \in Block : \A x \in Bytes(b, 8), n \in {1, 2, 4, 8} :
    (Check(shadow, x, n) = {}) <=> \A y \in Bytes(x, n) : Valid(shadow, y)

(* The replaced functions agree with what the C library documents.          *)
LexSign(s1, s2) ==
  LET diff == {k \in 1..Min({Len(s1), Len(s2)}) : s1[k] # s2[k]}
  IN IF diff # {} THEN Sign(s1[Min(diff)], s2[Min(diff)]) ELSE Sign(Len(s1), Len(s2))
UpTo(s, n) == SubSeq(AllButLast(s), 1, Min({n, Len(s) - 1}))
Occurrences(s, c) == {k - 1 : k \in {i \in 1..Len(s) : s[i] = c}}
FirstOr(set, x) == IF set = {} THEN x ELSE Min(set)
NaiveMatchesReference ==
  lib # NoCall =>
    LET s1 == lib.s1  s2 == lib.s2  c == lib.c  n == lib.n  r == lib.result.ret
    IN CASE lib.fn = "strlen" -> r = Len(s1) - 1
         [] lib.fn = "strnlen" -> r = Min({n, Len(s1) - 1})
         [] lib.fn = "strcmp" -> r = LexSign(AllButLast(s1), AllButLast(s2))
         [] lib.fn = "strncmp" -> r = LexSign(UpTo(s1, n), UpTo(s2, n))
         [] lib.fn = "index" -> r = FirstOr(Occurrences(s1, c), NoPtr)
         [] lib.fn = "rindex" -> r = Max(Occurrences(s1, c) \union {NoPtr})
         [] lib.fn = "memchr" -> r = FirstOr({k \in Occurrences(s1, c) : k < n}, NoPtr)
         [] lib.fn = "rawmemchr" -> r = FirstOr(Occurrences(s1, c), NoPtr)
         [] lib.fn = "strchrnul" -> r = FirstOr(Occurrences(s1, c), Len(s1) - 1)
         [] lib.fn = "bcmp" -> (r = 0) <=> \A k \in 1..Min({n, Len(s1), Len(s2)}) : s1[k] = s2[k]
         [] lib.fn = "strspn" -> /\ \A k \in 1..r : s1[k] \in Chars(s2)
                                 /\ s1[r + 1] \notin Chars(s2)
         [] lib.fn = "strcspn" -> /\ \A k \in 1..r : s1[k] \notin Chars(s2)
                                  /\ s1[r + 1] \in Chars(s2) \union {0}
         [] lib.fn = "strcpy" -> r = [wrote |-> s1, at |-> 0]
         [] lib.fn = "stpcpy" -> r = [wrote |-> s1, at |-> Len(s1) - 1]

(* They read nothing past the terminator of a string, nor past the bound    *)
(* they are given, which is what they replace the library's functions for.  *)
NaiveReadsInBounds ==
  lib # NoCall =>
    /\ lib.result.reads[1] <= Len(lib.s1) /\ lib.result.reads[2] <= Len(lib.s2)
    /\ lib.fn \in {"strnlen", "strncmp", "memchr", "bcmp"} =>
         lib.result.reads[1] <= lib.n /\ lib.result.reads[2] <= lib.n

(* The shadow memory tells the program's bytes from all others, and the two  *)
(* checks made against it report exactly the errors.                         *)
ShadowExact == OwnedBytesValid /\ UnownedBytesInvalid /\ FreeReportsExact /\ CheckExact

(* The replaced string functions are those of the C library, and read no     *)
(* byte that they need not.                                                  *)
NaiveExact == NaiveMatchesReference /\ NaiveReadsInBounds
====
