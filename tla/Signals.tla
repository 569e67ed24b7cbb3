------------------------------ MODULE Signals -------------------------------
(***************************************************************************)
(* Signals of one application thread on AArch64: signals.c, with the parts *)
(* of dispatcher_aarch64.S and syscalls.c that it works with.              *)
(*                                                                         *)
(* A handler must not run in the middle of a translated fragment, so       *)
(* signal_dispatcher() only records a signal that arrives there, and puts  *)
(* traps over the exit of the fragment so that the thread comes back to    *)
(* the dispatcher, where checked_cc_return delivers it by sending it to    *)
(* the thread again at a place where its state is known.                   *)
(*                                                                         *)
(* The exit of a fragment is a sequence of words; the words before it are  *)
(* its body.  Where a branch goes is not modelled beyond which side of a   *)
(* conditional one it is: the next fragment is arbitrary.  Fragments of    *)
(* traces are not modelled.                                                *)
(***************************************************************************)
EXTENDS Integers, Sequences, FiniteSets, FiniteSetsExt

CONSTANTS
  Sig,          \* signals that the program handles
  MaskSets,     \* signal masks that it sets
  SyncSig,      \* a signal raised by an instruction, which it handles
  Uncond, Cond, Indirect,  \* fragments, by their exit branch
  Branches,     \* conditional branches: [kind, code], [kind, sf, nz] or [kind, bit, nz]
  Values,       \* register contents: [flags, bits] with the flags and the bits set
  MaxArrivals,  \* bound on the signals sent
  MaxNested     \* bound on handlers running at once

ASSUME SignalsAssumption ==
  /\ Sig \subseteq 1..64 /\ \A m \in MaskSets : m \subseteq 1..64
  /\ Uncond \intersect Cond = {} /\ (Uncond \union Cond) \intersect Indirect = {}

VARIABLES
  sat,          \* where the thread is
  sfrag,        \* the fragment it is in
  sword,        \* the word of its exit, when it is in the exit
  regs,         \* the flags and the register that its branch tests, in an exit
  branch,       \* the branch instruction of the conditional fragments
  exitWords,    \* the code of the exit of each fragment
  savedExit,    \* saved_exit
  status,       \* branch_cache_status, as the set of its bits
  pending,      \* pending_signals
  isPending,    \* is_signal_pending
  kmask, kpend, \* signals blocked, and pending in the kernel
  self,         \* the signal deliver_signals() has chosen
  masks,        \* masks to restore when the running handlers return
  exitGroup,    \* exit_group
  owed,         \* signals sent and not handled since
  must,         \* a signal has arrived in this fragment
  wrongSide,    \* a trap took the side that the branch would not have
  arrivals

threadAt == <<sat, sfrag, sword, regs, branch>>
exits == <<exitWords, savedExit, status>>
counters == <<pending, isPending, self>>
kernel == <<kmask, kpend, masks>>
signalsVars == <<threadAt, exits, counters, kernel, exitGroup, owed, must, wrongSide, arrivals>>

Unknown == [flags |-> {}, bits |-> {}]
SFrag == Uncond \union Cond \union Indirect

-----------------------------------------------------------------------------
(* Exits.  linked says which side a word branches to. *)

Stub == [op |-> "stub", side |-> "any"]
Hvc(code) == [op |-> "hvc", side |-> code]
B(side) == [op |-> "b", side |-> side]
BCond(on) == [op |-> "bcond", side |-> IF on THEN "true" ELSE "false"]

(* The exits that dispatcher_aarch64() and the scanner write (external to   *)
(* this module), for each link state.                                       *)
Layout(f, bits) ==
  IF f \in Indirect THEN <<[op |-> "ihl", side |-> "any"], [op |-> "br", side |-> "any"], Stub>>
  ELSE IF bits = {} THEN <<Stub, Stub, Stub>>
  ELSE IF f \in Uncond THEN <<B("taken"), Stub, Stub>>
  ELSE IF "branch" \in bits
       THEN <<BCond(FALSE), B("taken"), IF "both" \in bits THEN B("skipped") ELSE Stub>>
       ELSE <<BCond(TRUE), B("skipped"), IF "both" \in bits THEN B("taken") ELSE Stub>>

(* get_direct_branch_exit_trap_sz(), in words. *)
TrapSize(f) == IF f \in Uncond THEN 1 ELSE IF "both" \in status[f] THEN 3 ELSE 2

Trapped(f) == \E k \in 1..3 : exitWords[f][k].op = "hvc"

(* unlink_indirect_branch(): the BR becomes a trap. *)
UnlinkIndirect(f) ==
  exitWords' = [exitWords EXCEPT ![f][2] = Hvc("SIGNAL_TRAP_IB")] /\ UNCHANGED savedExit

(* unlink_direct_branch(), for a pc before the end of the exit's branches. *)
UnlinkDirect(f) ==
  /\ savedExit' = [savedExit EXCEPT ![f] = SubSeq(exitWords[f], 1, TrapSize(f))]
  /\ exitWords' = [exitWords EXCEPT ![f] =
                     [k \in 1..3 |-> IF k <= TrapSize(f) THEN Hvc("SIGNAL_TRAP_DB") ELSE @[k]]]

(* (Variant of MustUnlink: an exit that has begun is left alone.) *)
MustUnlinkBody(f) == ~Trapped(f) /\ sat = "body" /\ (f \in Indirect \/ status[f] # {})

(* (Variant of MustUnlink: traps are written over traps.) *)
MustUnlinkAgain(f) == f \in Indirect \/ (status[f] # {} /\ (sat = "exit" => sword <= TrapSize(f)))

(* What unlink_fragment() tests before it writes traps. *)
MustUnlink(f) ==
  /\ ~Trapped(f)
  /\ \/ f \in Indirect
     \/ status[f] # {} /\ (sat = "exit" => sword <= TrapSize(f))

(* unlink_fragment(). *)
UnlinkFragment(f) ==
  \/ MustUnlink(f) /\ f \in Indirect /\ UnlinkIndirect(f)
  \/ MustUnlink(f) /\ f \notin Indirect /\ UnlinkDirect(f)
  \/ ~MustUnlink(f) /\ UNCHANGED <<exitWords, savedExit>>

(* restore_exit() and restore_ihl_inst(). *)
RestoreExit(f) ==
  exitWords' = [exitWords EXCEPT ![f] =
     IF f \in Indirect THEN [@ EXCEPT ![2] = [op |-> "br", side |-> "any"]]
     ELSE [k \in 1..3 |-> IF k <= TrapSize(f) THEN savedExit[f][k] ELSE @[k]]]

-----------------------------------------------------------------------------
(* A signal arrives: signal_trampoline and signal_dispatcher() *)

InCache == sat \in {"body", "exit"}
AtSvc == sat = "svc"

(* The handler of s is entered; the kernel blocks s until it returns. *)
StartHandler(s) ==
  /\ Len(masks) < MaxNested
  /\ masks' = Append(masks, kmask)
  /\ kmask' = kmask \union {s}
  /\ owed' = owed \ {s}
  /\ sat' = "ret" /\ sfrag' \in SFrag /\ sword' = 1 /\ UNCHANGED <<regs, branch>>

(* (Variant of Record: only the first signal is recorded.) *)
RecordFirst(s) ==
  /\ pending' = IF isPending = 0 THEN [pending EXCEPT ![s] = @ + 1] ELSE pending
  /\ isPending' = isPending + 1
  /\ UNCHANGED self

(* The end of signal_dispatcher(): the signal is recorded. *)
Record(s) ==
  /\ pending' = [pending EXCEPT ![s] = @ + 1]
  /\ isPending' = isPending + 1
  /\ UNCHANGED self

(* signal_dispatcher() for an asynchronous signal. *)
SignalDispatcher(s) ==
  \/ /\ AtSvc
     /\ StartHandler(s) /\ must' = FALSE
     /\ UNCHANGED <<exits, counters>>
  \/ /\ ~AtSvc
     /\ Record(s)
     /\ IF InCache THEN UnlinkFragment(sfrag) /\ must' = TRUE
                   ELSE UNCHANGED <<exitWords, savedExit, must>>
     /\ UNCHANGED <<threadAt, status, kmask, masks, owed>>

(* A signal is sent; the kernel keeps it while it is blocked. *)
Send(s) ==
  /\ arrivals < MaxArrivals /\ sat # "aborted" /\ exitGroup = FALSE
  /\ arrivals' = arrivals + 1 /\ owed' = owed \union {s} /\ kpend' = kpend \union {s}
  /\ UNCHANGED <<threadAt, exits, counters, kmask, masks, exitGroup, must, wrongSide>>

Deliver(s) ==
  /\ s \in kpend \ kmask /\ ~exitGroup /\ sat # "aborted"
  /\ kpend' = kpend \ {s}
  /\ SignalDispatcher(s)
  /\ UNCHANGED <<exitGroup, wrongSide, arrivals>>

(* dbm_exit() of another thread sets exit_group and sends UNLINK_SIGNAL:    *)
(* the first case of signal_dispatcher().                                   *)
ExitSignal ==
  /\ sat # "aborted" /\ ~exitGroup
  /\ exitGroup' = TRUE
  /\ \/ /\ sat = "exit"
        /\ sat' = "aborted" /\ UNCHANGED <<sfrag, sword, regs, branch, exits, counters, must>>
     \/ /\ sat # "exit"
        /\ isPending' = isPending + 1
        /\ IF InCache THEN UnlinkFragment(sfrag) /\ must' = TRUE
                      ELSE UNCHANGED <<exitWords, savedExit, must>>
        /\ UNCHANGED <<threadAt, status, pending, self>>
  /\ UNCHANGED <<kernel, owed, wrongSide, arrivals>>

(* A synchronous signal in the body of a fragment, which the program        *)
(* handles: the exit is unlinked and the handler entered at once.           *)
SyncSignal(s) ==
  /\ sat = "body" /\ ~exitGroup /\ s \notin kmask /\ arrivals < MaxArrivals
  /\ UnlinkFragment(sfrag)
  /\ StartHandler(s)
  /\ must' = FALSE /\ arrivals' = arrivals + 1
  /\ UNCHANGED <<status, counters, kpend, exitGroup, wrongSide>>

-----------------------------------------------------------------------------
(* Conditions *)

(* The condition codes of the architecture (external). *)
HwCode(flags, code) ==
  LET n == "N" \in flags  z == "Z" \in flags  c == "C" \in flags  v == "V" \in flags
      names == <<z, ~z, c, ~c, n, ~n, v, ~v, c /\ ~z, ~c \/ z, n = v, n # v, ~z /\ n = v, z \/ n # v, TRUE, TRUE>>
  IN names[code + 1]

(* What the branch instruction does (external). *)
HwTaken(b, r) ==
  CASE b.kind = "cond" -> HwCode(r.flags, b.code)
    [] b.kind = "cbz" -> ((IF b.sf = 1 THEN r.bits ELSE r.bits \intersect 0..31) = {}) # b.nz
    [] b.kind = "tbz" -> (b.bit \notin r.bits) # b.nz

(* (Variant of InterpretCondition: the odd codes are not negated.) *)
InterpretConditionEven(flags, cond) == HwCode(flags, 2 * (cond \div 2))

(* interpret_condition(). *)
InterpretCondition(flags, cond) ==
  LET sameNV == ("N" \in flags) = ("V" \in flags)
      state == <<"Z" \in flags, "C" \in flags, "N" \in flags, "V" \in flags,
                 "C" \in flags /\ "Z" \notin flags, sameNV, sameNV /\ "Z" \notin flags, TRUE>>[cond \div 2 + 1]
  IN state # (cond < 14 /\ cond % 2 = 1)

(* The bits that are set in the int 1 << n, extended to 64 bits. *)
IntBit(n) == IF n % 32 = 31 THEN 31..63 ELSE {n % 32}

(* interpret_cbz() and interpret_tbz(). *)
InterpretCbz(b, r) == ((IF b.sf = 1 THEN r.bits \intersect 0..31 ELSE r.bits) = {}) # b.nz
InterpretTbz(b, r) == (IntBit(b.bit) \intersect r.bits = {}) # b.nz

(* How signal_dispatcher() finds the side that a trapped exit takes. *)
IsTaken(b, r) ==
  CASE b.kind = "cond" -> InterpretCondition(r.flags, b.code)
    [] b.kind = "cbz" -> InterpretCbz(b, r)
    [] b.kind = "tbz" -> InterpretTbz(b, r)

-----------------------------------------------------------------------------
(* The thread *)

(* The end of the body of a fragment: its exit, or a system call. *)
BodyEnd ==
  /\ sat = "body"
  /\ \/ sat' = "exit" /\ regs' \in Values
     \/ sat' = "pre" /\ UNCHANGED regs
  /\ UNCHANGED <<sfrag, sword, branch, exits, counters, kernel, exitGroup, owed, must, wrongSide, arrivals>>

(* An instruction of an exit; a linked branch goes to the next fragment. *)
ExitWord ==
  /\ sat = "exit"
  /\ LET w == exitWords[sfrag][sword]
     IN \/ /\ w.op = "bcond"
           /\ sword' = IF HwTaken(branch, regs) = (w.side = "true") THEN 3 ELSE 2
           /\ UNCHANGED <<sat, sfrag>>
        \/ w.op = "ihl" /\ sword' = 2 /\ UNCHANGED <<sat, sfrag>>
        \/ w.op \in {"b", "br"} /\ sat' = "body" /\ sfrag' \in SFrag /\ sword' = 1
        \/ w.op = "stub" /\ sat' = "disp" /\ UNCHANGED <<sfrag, sword>>
        \/ w.op = "ihl" /\ sat' = "disp0" /\ UNCHANGED <<sfrag, sword>>
  /\ regs' = IF sat' = "body" THEN Unknown ELSE regs
  /\ UNCHANGED <<branch, exits, counters, kernel, exitGroup, owed, must, wrongSide, arrivals>>

(* A trap: signal_dispatcher() for UNLINK_SIGNAL.  What was saved is not    *)
(* read again.                                                              *)
TrapSignal ==
  /\ sat = "exit" /\ exitWords[sfrag][sword].op = "hvc"
  /\ \/ /\ exitGroup
        /\ sat' = "aborted" /\ UNCHANGED <<exits, wrongSide>>
     \/ /\ ~exitGroup
        /\ RestoreExit(sfrag)
        /\ sat' = "disp0"
        /\ wrongSide' = (wrongSide \/ (sfrag \in Cond /\ IsTaken(branch, regs) # HwTaken(branch, regs)))
        /\ savedExit' = [savedExit EXCEPT ![sfrag] = <<>>]
        /\ UNCHANGED status
  /\ UNCHANGED <<sfrag, sword, regs, branch, counters, kernel, exitGroup, owed, must, arrivals>>

(* dispatcher() links the exit it was called from (external). *)
Link(f) ==
  \E bits \in IF f \in Indirect THEN {{}}
              ELSE IF f \in Uncond THEN {{"branch"}}
              ELSE IF status[f] # {} THEN {status[f] \union {"both"}}
              ELSE LET side == IF HwTaken(branch, regs) THEN "branch" ELSE "fall" IN {{side}, {side, "both"}} :
    /\ status' = [status EXCEPT ![f] = bits]
    /\ exitWords' = [exitWords EXCEPT ![f] = Layout(f, bits)]
    /\ UNCHANGED savedExit

(* The dispatcher, up to the test in checked_cc_return. *)
Dispatch ==
  /\ sat \in {"disp", "disp0"}
  /\ IF sat = "disp" THEN Link(sfrag) ELSE UNCHANGED exits
  /\ sat' = "check" /\ sfrag' \in SFrag /\ sword' = 1
  /\ must' = FALSE /\ regs' = Unknown
  /\ UNCHANGED <<branch, counters, kernel, exitGroup, owed, wrongSide, arrivals>>

CheckedCcReturn ==
  /\ sat = "check"
  /\ sat' = IF isPending # 0 THEN "deliver" ELSE "ret"
  /\ UNCHANGED <<sfrag, sword, regs, branch, exits, counters, kernel, exitGroup, owed, must, wrongSide, arrivals>>

(* (Variant of Consume: the thread's flag is not lowered.) *)
ConsumeOne(s) == pending' = [pending EXCEPT ![s] = @ - 1] /\ UNCHANGED isPending

Consume(s) == pending' = [pending EXCEPT ![s] = @ - 1] /\ isPending' = isPending - 1

(* The kernel's mask has signal s in bit s - 1. *)
MaskTest(i) == \E s \in kmask : s - 1 \in IntBit(i)

(* deliver_signals(). *)
DeliverSignals ==
  /\ sat = "deliver"
  /\ LET found == {i \in Sig : ~MaskTest(i) /\ pending[i] > 0}
     IN \/ exitGroup /\ sat' = "aborted" /\ UNCHANGED counters
        \/ ~exitGroup /\ found = {} /\ sat' = "ret" /\ UNCHANGED counters
        \/ ~exitGroup /\ found # {} /\ sat' = "self" /\ self' = {Min(found)} /\ Consume(Min(found))
  /\ UNCHANGED <<sfrag, sword, regs, branch, exits, kernel, exitGroup, owed, must, wrongSide, arrivals>>

(* The thread sends itself the signal: it arrives at send_self_signal.      *)
SelfSignal ==
  /\ sat = "self" /\ self' = {}
  /\ \E s \in self :
       \/ /\ ~exitGroup /\ s \notin kmask
          /\ StartHandler(s)
          /\ UNCHANGED <<kpend, isPending>>
       \/ /\ ~exitGroup /\ s \in kmask
          /\ kpend' = kpend \union {s} /\ sat' = "ret"
          /\ UNCHANGED <<sfrag, sword, regs, branch, kmask, masks, owed, isPending>>
       \/ /\ exitGroup
          /\ isPending' = isPending + 1 /\ sat' = "ret"
          /\ UNCHANGED <<sfrag, sword, regs, branch, kernel, owed>>
  /\ UNCHANGED <<exits, pending, exitGroup, must, wrongSide, arrivals>>

(* The branch to the fragment, after the test. *)
EnterFragment ==
  /\ sat = "ret" /\ sat' = "body"
  /\ UNCHANGED <<sfrag, sword, regs, branch, exits, counters, kernel, exitGroup, owed, must, wrongSide, arrivals>>

(* syscall_wrapper: after syscall_handler_pre() there is no test. *)
EnterSyscall ==
  /\ sat = "pre"
  /\ sat' = "svc"
  /\ UNCHANGED <<sfrag, sword, regs, branch, exits, counters, kernel, exitGroup, owed, must, wrongSide, arrivals>>

(* rt_sigreturn, which goes to the dispatcher. *)
SigReturn ==
  /\ sat = "pre" /\ masks # <<>>
  /\ kmask' = masks[Len(masks)] /\ masks' = SubSeq(masks, 1, Len(masks) - 1)
  /\ sat' = "disp0"
  /\ UNCHANGED <<sfrag, sword, regs, branch, exits, counters, kpend, exitGroup, owed, must, wrongSide, arrivals>>

(* A system call returns; it may have been rt_sigprocmask(). *)
SyscallReturns ==
  /\ sat = "svc" /\ sat' = "disp0"
  /\ kmask' \in MaskSets \union {kmask}
  /\ UNCHANGED <<sfrag, sword, regs, branch, exits, counters, kpend, masks, exitGroup, owed, must, wrongSide, arrivals>>

-----------------------------------------------------------------------------
SignalsInit ==
  /\ sat = "disp0" /\ sfrag \in SFrag /\ sword = 1
  /\ regs = Unknown /\ branch \in Branches
  /\ exitWords = [f \in SFrag |-> Layout(f, {})]
  /\ savedExit = [f \in SFrag |-> <<>>]
  /\ status = [f \in SFrag |-> {}]
  /\ pending = [s \in Sig |-> 0] /\ isPending = 0
  /\ kmask = {} /\ kpend = {} /\ masks = <<>> /\ self = {}
  /\ exitGroup = FALSE /\ owed = {} /\ must = FALSE /\ wrongSide = FALSE /\ arrivals = 0

ThreadStep ==
  \/ BodyEnd \/ ExitWord \/ TrapSignal \/ Dispatch \/ CheckedCcReturn \/ DeliverSignals \/ SelfSignal
  \/ EnterFragment \/ EnterSyscall \/ SigReturn

SignalsNext ==
  \/ ThreadStep \/ SyscallReturns
  \/ \E s \in Sig : Send(s) \/ Deliver(s)
  \/ SyncSignal(SyncSig) \/ ExitSignal

SignalsSpec == SignalsInit /\ [][SignalsNext]_signalsVars /\ WF_signalsVars(ThreadStep)

-----------------------------------------------------------------------------
(* Properties *)

(* A signal that was sent and not handled since is in the kernel, in       *)
(* pending_signals, or about to be sent to the thread: signal_dispatcher()  *)
(* and deliver_signals() lose none.                                         *)
SignalsRecorded == ~exitGroup => \A s \in owed : pending[s] > 0 \/ s \in kpend \/ s \in self

RecordedSignals == UNION {{s} \X (1..pending[s]) : s \in Sig}

(* is_signal_pending, which is all that checked_cc_return tests, is the     *)
(* number of signals recorded.                                              *)
CountersAgree == ~exitGroup => isPending = Cardinality(RecordedSignals)

(* After a signal has arrived in a fragment, no branch that is linked to    *)
(* another fragment is left in the way of the thread to the dispatcher.     *)
NoLinkedExit == must /\ sat = "exit" => exitWords[sfrag][sword].op \notin {"b", "br"}

(* The exits are always the code that linking wrote, or traps that          *)
(* restore_exit() turns back into it, whatever was interrupted and left.    *)
ExitsIntact ==
  \A f \in SFrag :
    LET restored == IF ~Trapped(f) \/ f \in Indirect THEN exitWords[f]
                    ELSE [k \in 1..3 |-> IF k <= TrapSize(f) THEN savedExit[f][k] ELSE exitWords[f][k]]
    IN \A k \in 1..3 : restored[k] = Layout(f, status[f])[k] \/ (f \in Indirect /\ k = 2)

(* A trapped exit goes to the side that its branch would have taken.        *)
TrapTakesSameSide == ~wrongSide

(* After a signal has arrived in a fragment, the thread comes to the        *)
(* dispatcher, unless a system call of the fragment holds it, or it exits.  *)
ReachesDispatcher == must ~> (~must \/ sat \in {"svc", "aborted"})

(* unlink_fragment() and restore_exit() are inverse to one another, however  *)
(* signals nest; meanwhile no linked exit is in the thread's way.            *)
UnlinkingExact == ExitsIntact /\ NoLinkedExit
====
