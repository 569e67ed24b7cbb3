--------------------------------- MODULE Brk ---------------------------------
(***************************************************************************)
(* The emulated brk (emulate_brk in syscalls.c): threads that call it at   *)
(* once, the kernel's mapping of the heap and what plugins are told of it. *)
(***************************************************************************)
EXTENDS Integers

CONSTANTS
  BrkThread,   \* the threads that call brk
  InitialBrk,  \* global_data.initial_brk
  BrkPage,     \* PAGE_SIZE, in the unit of brk addresses
  BrkArg       \* the arguments of brk calls

ASSUME BrkAssumption ==
  /\ InitialBrk \in Nat \ {0} /\ InitialBrk % BrkPage = 0
  /\ BrkPage \in Nat \ {0} /\ BrkArg \subseteq Nat

VARIABLES
  brk,         \* global_data.brk
  brkPages,    \* pages the kernel has mapped at initial_brk
  brkView,     \* the addresses VM_MAP and VM_UNMAP told the plugins of
  brkOwner,    \* the holder of brk_mutex, as a set of at most one thread
  brkCall      \* thread -> its call: pc, argument, and the values brk had since

brkVars == <<brk, brkPages, brkView, brkOwner, brkCall>>

Most(a, b) == IF a > b THEN a ELSE b

-----------------------------------------------------------------------------
(* A call passes through pc "idle", then "return" (the fast path's second  *)
(* read) or "lock", "assign", "unlock" and "return".                       *)

(* cur_size and new_size: at least one page stays allocated *)
BrkSize(b) == Most(b - InitialBrk, BrkPage)

PagesOf(size) == (size + BrkPage - 1) \div BrkPage

(* External: mremap(initial_brk, cur, new, 0) changes the size of the      *)
(* mapping or fails; it fails on an empty range.                           *)
Mremap(cur, new) ==
  IF cur > 0 /\ new > 0 /\ PagesOf(cur) = brkPages THEN {PagesOf(new), 0} ELSE {0}

(* Entry and fast path: two reads of brk without the mutex *)
BrkCall(t) ==
  /\ brkCall[t].pc = "idle"
  /\ \E a \in BrkArg :
       brkCall' = [brkCall EXCEPT ![t] =
         [pc |-> IF a = 0 \/ a = brk THEN "return" ELSE "lock", arg |-> a, seen |-> {brk}]]
  /\ UNCHANGED <<brk, brkPages, brkView, brkOwner>>

(* (Variant of BrkFree: the mutex is not taken.) *)
BrkFreeAlways == TRUE

(* pthread_mutex_lock(&global_data.brk_mutex) *)
BrkFree == brkOwner = {}

(* The locked part up to the assignment: mremap and the notification of    *)
(* the range between the old and the new break.                            *)
BrkRemap(t) ==
  /\ brkCall[t].pc = "lock" /\ BrkFree
  /\ brkOwner' = brkOwner \union {t}
  /\ LET a == brkCall[t].arg
     IN IF a < InitialBrk
        THEN /\ brkCall' = [brkCall EXCEPT ![t].pc = "unlock"]
             /\ UNCHANGED <<brkPages, brkView>>
        ELSE \E n \in Mremap(BrkSize(brk), BrkSize(a)) :
               IF n = 0
               THEN /\ brkCall' = [brkCall EXCEPT ![t].pc = "unlock"]
                    /\ UNCHANGED <<brkPages, brkView>>
               ELSE /\ brkCall' = [brkCall EXCEPT ![t].pc = "assign"]
                    /\ brkPages' = n
                    /\ brkView' = IF a < brk THEN brkView \ (a .. brk - 1)
                                  ELSE brkView \union (brk .. a - 1)
  /\ UNCHANGED brk

(* global_data.brk = addr *)
BrkAssign(t) ==
  /\ brkCall[t].pc = "assign"
  /\ brk' = brkCall[t].arg
  /\ brkCall' = [u \in BrkThread |->
       [brkCall[u] EXCEPT !.seen = IF brkCall[u].pc \in {"idle", "done"} THEN @ ELSE @ \union {brk'},
                          !.pc = IF u = t THEN "unlock" ELSE @]]
  /\ UNCHANGED <<brkPages, brkView, brkOwner>>

BrkUnlock(t) ==
  /\ brkCall[t].pc = "unlock"
  /\ brkOwner' = brkOwner \ {t}
  /\ brkCall' = [brkCall EXCEPT ![t].pc = "return"]
  /\ UNCHANGED <<brk, brkPages, brkView>>

(* (Variant of BrkResult: the argument, as if the call had succeeded.) *)
BrkResultAsked(t) == brkCall[t].arg

(* The value returned: global_data.brk, read once more without the mutex *)
BrkResult(t) == brk

BrkReturn(t) ==
  /\ brkCall[t].pc = "return"
  /\ brkCall' = [brkCall EXCEPT ![t] = [@ EXCEPT !.pc = "done", !.arg = BrkResult(t)]]
  /\ UNCHANGED <<brk, brkPages, brkView, brkOwner>>

IdleCall == [pc |-> "idle", arg |-> 0, seen |-> {}]

BrkDone(t) ==
  /\ brkCall[t].pc = "done"
  /\ brkCall' = [brkCall EXCEPT ![t] = IdleCall]
  /\ UNCHANGED <<brk, brkPages, brkView, brkOwner>>

BrkInit ==
  /\ brk = InitialBrk /\ brkPages = 1 /\ brkView = {} /\ brkOwner = {}
  /\ brkCall = [t \in BrkThread |-> IdleCall]

BrkNext ==
  \E t \in BrkThread :
    BrkCall(t) \/ BrkRemap(t) \/ BrkAssign(t) \/ BrkUnlock(t) \/ BrkReturn(t) \/ BrkDone(t)

BrkSpec == BrkInit /\ [][BrkNext]_brkVars

-----------------------------------------------------------------------------
(* Properties *)

(* Whenever no thread is inside emulate_brk's critical section, the pages  *)
(* the kernel has mapped and the range the plugins were told of are those  *)
(* of global_data.brk, whatever calls failed, shrank or raced.             *)
BrkConsistent ==
  brkOwner = {} =>
    /\ brkPages = PagesOf(Most(brk - InitialBrk, BrkPage))
    /\ brkView = InitialBrk .. brk - 1

(* A call returns a value the break had while the call ran: the two reads  *)
(* outside the mutex are each as if they were atomic with it.              *)
BrkResultCurrent ==
  \A t \in BrkThread : brkCall[t].pc = "done" => brkCall[t].arg \in brkCall[t].seen

(* emulate_brk() agrees with the kernel and with what plugins are told, and  *)
(* every call returns a break that was current.                              *)
BrkExact == BrkConsistent /\ BrkResultCurrent
=============================================================================
