------------------------------ MODULE ScannerA32 ------------------------------
(***************************************************************************)
(* The A32 scanner (arch/aarch32/scanner_a32.c), in the default build: how *)
(* scan_a32() translates each instruction that can read or write the       *)
(* program counter, and the loop that scans a fragment.                    *)
(*                                                                         *)
(* One machine executes both the application's instruction and the         *)
(* translation.  It has the registers, a memory and one flag, which is     *)
(* whether the condition of conditional instructions holds.  An            *)
(* instruction that sets flags changes it.  The program counter reads as   *)
(* the address of the code that executes: a translation that leaves it in  *)
(* an operand computes with the wrong address.                             *)
(***************************************************************************)
EXTENDS Integers, Sequences, FiniteSets, TLC, FiniteSetsExt, Functions

CONSTANTS MAX_BACK_INLINE,  \* inlined backward branches in a fragment
          A32Length         \* instructions of the programs that are scanned

VARIABLES a32,              \* an instruction, its translation, what both do
          a32prog,          \* a program, and
          a32scan           \* the state of scan_a32() in its loop

a32Vars == <<a32, a32prog, a32scan>>

Sp == 13
Lr == 14
Pc == 15
NoReg == 16
Spc == 20000                \* where the instruction is in the application
Tpc == 90000                \* and its translation in the code cache
Tls == 60000                \* &thread_data->tls
NoWhere == -1
Lost == -2                  \* execution leaves the code cache or runs on behind it

-----------------------------------------------------------------------------
(* Instructions and the machine *)

Arm(op, fields) ==
  fields @@ [op |-> op, cond |-> "al", rd |-> 0, rn |-> 0, rm |-> NoReg, rs |-> 0, class |-> "", imm |-> 0, s |-> FALSE,
             pre |-> TRUE, up |-> TRUE, wb |-> FALSE, list |-> {}]

Machine(native, flag, hit) ==
  [native |-> native, flag |-> flag, hit |-> hit, goto |-> NoWhere, sys |-> 0, vfp |-> 0,
   regs |-> [r \in 0..Lr |-> IF r = Sp THEN 50000 ELSE 1000 * (r + 1)], mem |-> <<>>]

Holds(m, i) == i.cond = "al" \/ (i.cond = "cc") = m.flag
Val(m, r) == IF r = Pc THEN (IF m.native THEN Spc ELSE Tpc) + 8 ELSE m.regs[r]
SetReg(m, r, v) == IF r = Pc THEN [m EXCEPT !.goto = IF m.native THEN v ELSE Lost]
                   ELSE [m EXCEPT !.regs[r] = v]
LoadWord(m, a) == IF a \in DOMAIN m.mem THEN m.mem[a] ELSE 1000000 + a
StoreWord(m, a, v) == [m EXCEPT !.mem = (a :> v) @@ @]

Operand2(m, i) == IF i.rm = NoReg THEN i.imm ELSE Val(m, i.rm)
Moved(m, i, by) == IF i.up THEN Val(m, i.rn) + by ELSE Val(m, i.rn) - by
WriteBack(m, i, by, always) == IF i.wb \/ always THEN [m EXCEPT !.regs[i.rn] = Moved(m, i, by)] ELSE m

\* The address that the k-th register of a list is at.
ListAddr(m, i, r) ==
  LET n == Cardinality(i.list)
      k == Cardinality({q \in i.list : q < r})
  IN IF i.up THEN Val(m, i.rn) + 4 * k + (IF i.pre THEN 4 ELSE 0)
             ELSE Val(m, i.rn) - 4 * n + 4 * k + (IF i.pre THEN 0 ELSE 4)

StepLdm(m, i) ==
  LET loaded == [WriteBack(m, i, 4 * Cardinality(i.list), FALSE) EXCEPT
                   !.regs = [r \in 0..Lr |-> IF r \in i.list THEN LoadWord(m, ListAddr(m, i, r)) ELSE @[r]]]
  IN IF Pc \in i.list THEN SetReg(loaded, Pc, LoadWord(m, ListAddr(m, i, Pc))) ELSE loaded

StepStm(m, i) ==
  [WriteBack(m, i, 4 * Cardinality(i.list), FALSE) EXCEPT
     !.mem = [a \in {ListAddr(m, i, r) : r \in i.list} |->
                Val(m, CHOOSE r \in i.list : ListAddr(m, i, r) = a)] @@ @]

\* The dispatcher's trampoline (dispatcher_aarch32.S) saves the addresses of the
\* target below the application's stack, which r3 points to, then restores r0 to
\* r3 by way of the word below those.
StepDispatch(m) ==
  LET sp == m.regs[Sp]
      app == m.regs[3]
      saved == StoreWord(StoreWord(m, app - 4, m.regs[0]), app - 8, Tpc)
      last == StoreWord(saved, app - 12, LoadWord(saved, sp + 12))
  IN [last EXCEPT !.goto = m.regs[0],
        !.regs = [r \in 0..Lr |-> CASE r \in 0..2 -> LoadWord(last, sp + 4 * r)
                                    [] r = 3 -> LoadWord(last, app - 12)
                                    [] r = Sp -> app
                                    [] OTHER -> @[r]]]

\* syscall_wrapper: the call is made with the registers that are on the stack;
\* its result is popped with them, and the two words above them are skipped.
\* It compares its own values without saving the flags.
StepWrapper(m) ==
  LET frame == [m EXCEPT !.sys = @ + 1, !.flag = FALSE, !.mem = (m.regs[Sp] :> 7000) @@ @]
      popped == StepLdm(frame, Arm("ldm", [rn |-> Sp, pre |-> FALSE, wb |-> TRUE, list |-> (0..12) \cup {Lr}]))
  IN [popped EXCEPT !.regs[Sp] = @ + 8]

\* The operands of the classes that the scanner copies.
AluOperands(i) ==
  CASE i.class \in {"and", "strex", "ldrt", "div", "usad"} -> {"rd", "rn", "rm"}
    [] i.class \in {"mul", "mull", "umaal", "smla"} -> {"rd", "rn", "rm", "rs"}
    [] i.class = "cmp" -> {"rn", "rm"}
    [] i.class \in {"mvn", "rev"} -> {"rd", "rm"}
    [] i.class \in {"ldrex", "bfi", "sat"} -> {"rd", "rn"}
    [] i.class \in {"movw", "mrs", "bfc", "vmov"} -> {"rd"}
    [] i.class \in {"msr", "stc", "neon"} -> {"rn"}
    [] i.class = "mrrc" -> {"rd", "rs"}
    [] i.class = "extend" -> {"rd", "rm"} \cup IF i.rn = Pc THEN {} ELSE {"rn"}   \* SXTH, SXTAH
    [] i.class = "simd" -> {}

StepAlu(m, i) ==
  LET read == {f \in AluOperands(i) \ {"rd"} : i[f] # NoReg}
      v == i.imm + FoldSet(LAMBDA f, sum : sum + Val(m, i[f]), 0, read)
  IN CASE i.class = "cmp" -> [m EXCEPT !.flag = ~@]
       [] "rd" \in AluOperands(i) -> SetReg(m, i.rd, v)
       [] OTHER -> [m EXCEPT !.vfp = v]

StepArm(m, i) ==
  IF ~Holds(m, i) THEN m
  ELSE CASE i.op = "dp" ->
              LET v == 2 * Val(m, i.rn) + Operand2(m, i)
              IN [SetReg(m, i.rd, v) EXCEPT !.flag = IF i.s THEN ~@ ELSE @]
         [] i.op = "mov" -> SetReg(m, i.rd, Operand2(m, i))
         [] i.op = "add" -> SetReg(m, i.rd, Val(m, i.rn) + i.imm)
         [] i.op \in {"ldr", "ldrh"} ->
              SetReg(WriteBack(m, i, Operand2(m, i), ~i.pre), i.rd,
                     LoadWord(m, IF i.pre THEN Moved(m, i, Operand2(m, i)) ELSE Val(m, i.rn)))
         [] i.op \in {"str", "strh"} ->
              StoreWord(WriteBack(m, i, Operand2(m, i), ~i.pre),
                    IF i.pre THEN Moved(m, i, Operand2(m, i)) ELSE Val(m, i.rn), Val(m, i.rd))
         [] i.op = "ldm" -> StepLdm(m, i)
         [] i.op = "stm" -> StepStm(m, i)
         [] i.op = "vfp" -> [m EXCEPT !.vfp = Val(m, i.rn) + i.imm]
         [] i.op = "tls" -> SetReg(m, i.rd, LoadWord(m, Tls))
         [] i.op = "svc" -> [m EXCEPT !.sys = @ + 1, !.regs[0] = 7000]
         [] i.op \in {"b", "bl", "blxi"} ->
              [m EXCEPT !.goto = i.imm, !.regs[Lr] = IF i.op # "b" THEN Spc + 4 ELSE @]
         [] i.op \in {"bx", "blx"} ->
              [m EXCEPT !.goto = Val(m, i.rn), !.regs[Lr] = IF i.op = "blx" THEN Spc + 4 ELSE @]
         [] i.op = "alu" -> StepAlu(m, i)
         [] i.op \in {"nop", "pld"} -> m
         \* in translations only
         [] i.op = "clobber" -> SetReg(m, i.rd, NoWhere)
         [] i.op = "cc" -> [m EXCEPT !.goto = i.imm]
         [] i.op = "enter" -> StepLdm([m EXCEPT !.goto = m.regs[5]],
                                      Arm("ldm", [rn |-> Sp, pre |-> FALSE, wb |-> TRUE, list |-> {5, 6}]))
         [] i.op = "dispatch" -> StepDispatch(m)
         [] i.op = "wrapper" -> StepWrapper(m)

RECURSIVE RunArm(_, _, _)
RunArm(code, k, m) ==
  IF k > Len(code) \/ m.goto # NoWhere THEN m
  ELSE CASE code[k].op = "skip" -> RunArm(code, IF Holds(m, code[k]) THEN k + 1 + code[k].imm ELSE k + 1, m)
         [] code[k].op = "miss" -> RunArm(code, IF m.hit THEN k + 1 ELSE k + 1 + code[k].imm, [m EXCEPT !.flag = TRUE])
         [] code[k].op = "space" -> RunArm(code, k + 1, m)
         [] OTHER -> RunArm(code, k + 1, StepArm(m, code[k]))

-----------------------------------------------------------------------------
(* What the scanner emits *)

ArmPushRegs(list) == Arm("stm", [rn |-> Sp, up |-> FALSE, wb |-> TRUE, list |-> list])
ArmPopRegs(list) == Arm("ldm", [rn |-> Sp, pre |-> FALSE, wb |-> Sp \notin list, list |-> list])
ArmCondPushReg(c, r) == Arm("str", [cond |-> c, rd |-> r, rn |-> Sp, imm |-> 4, up |-> FALSE, wb |-> TRUE])
ArmCondPopReg(c, r) == Arm("ldr", [cond |-> c, rd |-> r, rn |-> Sp, imm |-> 4, pre |-> FALSE])
ArmCopyToReg(c, r, v) == Arm("mov", [cond |-> c, rd |-> r, imm |-> v])    \* MOVW and MOVT
ArmMov(rd, rm) == Arm("mov", [rd |-> rd, rm |-> rm])
ArmAdd(rd, rn, imm) == Arm("add", [rd |-> rd, rn |-> rn, imm |-> imm])
ArmLdr(rd, rn, imm) == Arm("ldr", [rd |-> rd, rn |-> rn, imm |-> imm])
ArmStr(rd, rn, imm) == Arm("str", [rd |-> rd, rn |-> rn, imm |-> imm])
InverseCond(c) == IF c = "cc" THEN "ncc" ELSE c

DISP_SP_OFFSET == 28
DISP_RES_WORDS == 3
\* (Variant of ArmBranchSaveContext: the offset that the late form has.)
ArmBranchSaveContextLate ==
  <<ArmAdd(Sp, Sp, -4 * DISP_RES_WORDS), ArmPushRegs(0..3), ArmAdd(3, Sp, 24)>>
ArmBranchSaveContext ==
  <<ArmAdd(Sp, Sp, -4 * DISP_RES_WORDS), ArmPushRegs(0..3), ArmAdd(3, Sp, DISP_SP_OFFSET)>>

ArmSimpleExit(target, c) ==
  ArmBranchSaveContext
    \o (IF c = "al" THEN <<>> ELSE <<ArmCopyToReg(InverseCond(c), 0, Spc + 4)>>)
    \o <<ArmCopyToReg(c, 0, target), ArmCopyToReg("al", 1, 0), Arm("dispatch", <<>>)>>

\* (Variant of ArmInlineHashLookup: no space is reserved for it.)
ArmInlineHashLookupUnreserved ==
  <<Arm("clobber", [rd |-> 4, imm |-> 6]), Arm("clobber", [rd |-> 6, imm |-> 2]),
    Arm("miss", [imm |-> 2]), ArmCondPopReg("al", 4), Arm("enter", <<>>),
    Arm("nop", <<>>), Arm("nop", <<>>),                        \* CMP, BNE loop
    ArmAdd(Sp, Sp, -4 * DISP_RES_WORDS), ArmPushRegs(0..3), ArmAdd(3, Sp, DISP_SP_OFFSET),
    ArmMov(0, 5), ArmCopyToReg("al", 1, 0),
    Arm("ldm", [rn |-> 3, pre |-> FALSE, wb |-> TRUE, list |-> 4..6]), Arm("dispatch", <<>>)>>

\* The target is in r5, on top of what the code behind pops.
ArmInlineHashLookup ==
  <<Arm("space", [imm |-> 88]),                                \* arm_check_free_space
    Arm("clobber", [rd |-> 4, imm |-> 6]), Arm("clobber", [rd |-> 6, imm |-> 2]),
    Arm("miss", [imm |-> 2]), ArmCondPopReg("al", 4), Arm("enter", <<>>),
    Arm("nop", <<>>), Arm("nop", <<>>),                        \* CMP, BNE loop
    ArmAdd(Sp, Sp, -4 * DISP_RES_WORDS), ArmPushRegs(0..3), ArmAdd(3, Sp, DISP_SP_OFFSET),
    ArmMov(0, 5), ArmCopyToReg("al", 1, 0),
    Arm("ldm", [rn |-> 3, pre |-> FALSE, wb |-> TRUE, list |-> 4..6]), Arm("dispatch", <<>>)>>

\* An operand of a branch that is the program counter is replaced by r4 or r5,
\* whichever is not the other operand.
ArmIhlTrRnRm(i) ==
  LET other == IF i.rn = Pc THEN i.rm ELSE i.rn
      scratch == IF other = 4 THEN 5 ELSE 4
  IN CASE i.rn = Pc -> <<ArmCopyToReg("al", scratch, Spc + 8), [i EXCEPT !.rn = scratch]>>
       [] i.rm = Pc -> <<ArmCopyToReg("al", scratch, Spc + 8), [i EXCEPT !.rm = scratch]>>
       [] OTHER -> <<i>>

-----------------------------------------------------------------------------
(* scan_a32(): the translation of one instruction.  Exits end the fragment; *)
(* the scanner asserts or spins on what it does not support.                *)

Emits(code) == [code |-> code, stop |-> FALSE, abort |-> FALSE]
Exits(code) == [code |-> code, stop |-> TRUE, abort |-> FALSE]
Aborts == [code |-> <<>>, stop |-> TRUE, abort |-> TRUE]
Require(cond, translation) == IF cond THEN translation ELSE Aborts

FirstFree(used) == CHOOSE r \in 0..12 : r \notin used /\ \A q \in 0..12 : q \notin used => r <= q

\* LINK_BX_ALT: a conditional exit is left for the next instruction by a branch.
SkippedExit(i) == IF i.cond = "al" THEN <<>> ELSE <<Arm("cc", [cond |-> InverseCond(i.cond), imm |-> Spc + 4])>>

\* (Variant of ScratchFor: the destination is always free.)
ScratchForDestination(i) == i.rd
\* The destination is the scratch register unless it is also an operand.
ScratchFor(i) ==
  IF (i.rn = Pc /\ i.rm = i.rd) \/ (i.rm = Pc /\ i.rn = i.rd) THEN FirstFree({i.rd, i.rn, i.rm}) ELSE i.rd

ScanDataProc(i) ==
  CASE Pc \notin {i.rd, i.rn, i.rm} -> Emits(<<i>>)
    [] i.rd = Pc ->
         Require(Sp \notin {i.rn, i.rm} /\ ~i.s /\ ~(i.rn = Pc /\ i.rm = Pc),
           Exits(SkippedExit(i) \o <<ArmPushRegs(4..6)>>
                   \o ArmIhlTrRnRm([i EXCEPT !.rd = 5, !.cond = "al"]) \o ArmInlineHashLookup))
    [] i.rd # Pc /\ Pc \in {i.rn, i.rm} ->
         LET scratch == ScratchFor(i)
             saved == scratch # i.rd
         IN Require(~(i.rn = Pc /\ i.rm = Pc),
              Emits((IF saved THEN <<ArmCondPushReg(i.cond, scratch)>> ELSE <<>>)
                      \o <<ArmCopyToReg(i.cond, scratch, Spc + 8),
                           [i EXCEPT !.rn = IF @ = Pc THEN scratch ELSE @, !.rm = IF @ = Pc THEN scratch ELSE @]>>
                      \o (IF saved THEN <<ArmCondPopReg(i.cond, scratch)>> ELSE <<>>)))

\* An unconditional branch is inlined, or goes to the block of its target.
ScanB(i) ==
  LET link == IF i.op = "bl" THEN <<ArmCopyToReg("al", Lr, Spc + 4)>> ELSE <<>>
  IN Exits(link \o IF i.cond = "al" THEN <<Arm("cc", [imm |-> i.imm])>>
                   ELSE <<Arm("nop", <<>>)>> \o ArmSimpleExit(i.imm, i.cond))

ScanBx(i) ==
  Require(i.rn \notin {Pc, Sp},
    Exits(SkippedExit(i)
            \o (IF i.op = "blx" THEN <<ArmCopyToReg("al", Lr, Spc + 4)>> ELSE <<>>)
            \o <<ArmPushRegs(4..6)>> \o (IF i.rn = 5 THEN <<>> ELSE <<ArmMov(5, i.rn)>>)
            \o ArmInlineHashLookup))

ScanBlxi(i) == Exits(<<ArmCopyToReg("al", Lr, Spc + 4)>> \o ArmSimpleExit(i.imm, "al"))

\* The target is on top of the stack: r6 takes its place below r4 and r5.
PopTarget == <<ArmPushRegs({4, 5}), ArmLdr(5, Sp, 8), ArmStr(6, Sp, 8)>>

ScanLdm(i) ==
  LET n == Cardinality(i.list)
      Others(regs) == IF i.list \cap regs = {} THEN <<>>
                      ELSE <<[i EXCEPT !.cond = "al", !.list = @ \cap regs]>>
  IN CASE i.rn = Pc -> Aborts
       [] i.rn # Pc /\ Pc \notin i.list -> Emits(<<i>>)
       [] i.rn # Pc /\ Pc \in i.list /\ i.rn \in i.list ->
            Require(i.rn = Sp /\ ~i.wb /\ ~i.pre /\ Lr \notin i.list,
              Exits(SkippedExit(i) \o Others(0..12)
                \o <<ArmPushRegs({0, 1}),
                     [ArmLdr(0, Sp, (n - 2 + 2) * 4) EXCEPT !.up = i.up],
                     [ArmLdr(1, Sp, (n - 1 + 2) * 4) EXCEPT !.up = i.up],
                     Arm("stm", [rn |-> 0, up |-> FALSE, wb |-> TRUE, list |-> 4..6]),
                     ArmMov(5, 1), ArmMov(6, 0), ArmPopRegs({0, 1}), ArmMov(Sp, 6)>>
                \o ArmInlineHashLookup))
       [] i.rn # Pc /\ Pc \in i.list /\ i.rn \notin i.list ->
            Require(i.rn = Sp /\ ~i.pre /\ i.up /\ i.wb,
              Exits(SkippedExit(i) \o Others(0..Lr) \o PopTarget \o ArmInlineHashLookup))

\* LDR pc, [sp], #offset
PopTargetFrom(offset) ==
  IF offset = 4 THEN PopTarget
  ELSE <<ArmStr(6, Sp, offset - 4), [ArmLdr(6, Sp, offset - 4) EXCEPT !.pre = FALSE],
         ArmPushRegs({4, 5}), ArmMov(5, 6)>>

ScanLdr(i) ==
  CASE i.rm = Pc -> Aborts
    [] i.rm # Pc /\ i.rd = Pc /\ i.rn = Sp /\ (i.wb \/ ~i.pre) ->
         Require(i.rm = NoReg /\ ~i.pre /\ i.up /\ ~i.wb /\ i.imm % 4 = 0 /\ i.imm >= 4,
           Exits(SkippedExit(i) \o PopTargetFrom(i.imm) \o ArmInlineHashLookup))
    [] i.rm # Pc /\ i.rd = Pc /\ ~(i.rn = Sp /\ (i.wb \/ ~i.pre)) ->
         LET load == [i EXCEPT !.rd = 5, !.cond = "al", !.imm = IF i.rn = Sp THEN @ + 12 ELSE @]
         IN Require(/\ (~i.wb /\ i.pre) \/ i.rn \notin {4, 5, 6, Sp}
                    /\ i.rn = Sp => i.rm = NoReg /\ i.up,
              Exits(SkippedExit(i) \o <<ArmPushRegs(4..6)>> \o ArmIhlTrRnRm(load) \o ArmInlineHashLookup))
    [] i.rm # Pc /\ i.rd # Pc /\ i.rn = Pc ->
         LET scratch == FirstFree({i.rd, i.rm})
         IN Emits(<<ArmCondPushReg(i.cond, scratch), ArmCopyToReg(i.cond, scratch, Spc + 8),
                    [i EXCEPT !.rn = scratch], ArmCondPopReg(i.cond, scratch)>>)
    [] i.rm # Pc /\ i.rd # Pc /\ i.rn # Pc -> Emits(<<i>>)

\* The copy stores the wrong program counter, which is then overwritten.
ScanStm(i) ==
  LET usable == i.list \ {Pc, i.rn}
      scratch == CHOOSE r \in usable : \A q \in usable : r <= q
      n == Cardinality(i.list)
      code == <<i, ArmCopyToReg("al", scratch, Spc + 8), ArmStr(scratch, i.rn, (n - 1) * 4),
                ArmLdr(scratch, i.rn, IF scratch > i.rn /\ i.rn \in i.list THEN 4 ELSE 0)>>
  IN CASE i.rn = Pc -> Aborts
       [] i.rn # Pc /\ Pc \notin i.list -> Emits(<<i>>)
       [] i.rn # Pc /\ Pc \in i.list ->
            Require(usable # {} /\ i.wb /\ i.pre /\ ~i.up /\ i.rn = Sp,
              Emits((IF i.cond = "al" THEN <<>> ELSE <<Arm("skip", [cond |-> InverseCond(i.cond), imm |-> Len(code)])>>)
                      \o code))

ScanStr(i) ==
  LET low == IF i.rm = NoReg THEN i.imm % 16 ELSE i.rm       \* offset & 0xF
      scratch == FirstFree({i.rd, low})
  IN CASE i.rm = Pc -> Aborts
       [] i.rm # Pc /\ i.rd = Pc ->                           \* PUSH {pc}
            Require(i.cond = "al" /\ i.rn = Sp /\ i.pre /\ ~i.up /\ i.wb,
              Emits(<<ArmAdd(Sp, Sp, -8), ArmStr(0, Sp, 0), ArmCopyToReg("al", 0, Spc + 8),
                      ArmStr(0, Sp, 4), ArmCondPopReg("al", 0)>>))
       [] i.rm # Pc /\ i.rd # Pc /\ i.rn = Pc ->
            Emits(<<ArmCondPushReg(i.cond, scratch), ArmCopyToReg(i.cond, scratch, Spc + 8),
                    [i EXCEPT !.rn = scratch], ArmCondPopReg(i.cond, scratch)>>)
       [] i.rm # Pc /\ i.rd # Pc /\ i.rn # Pc -> Emits(<<i>>)

\* The register of thread-local storage is emulated.
ScanCoproc(i) ==
  LET load == <<ArmCopyToReg("al", i.rd, Tls), ArmLdr(i.rd, i.rd, 0)>>
  IN Require(i.rd # Pc,
       Emits((IF i.cond = "al" THEN <<>> ELSE <<Arm("skip", [cond |-> InverseCond(i.cond), imm |-> Len(load)])>>) \o load))

\* The branch around a conditional call has the condition of the call itself.
ScanSvc(i) ==
  LET call == <<ArmAdd(Sp, Sp, -8), ArmPushRegs((0..12) \cup {Lr}), ArmCopyToReg("al", 8, Spc + 4), Arm("wrapper", <<>>)>>
  IN Emits((IF i.cond = "al" THEN <<>> ELSE <<Arm("skip", [cond |-> i.cond, imm |-> Len(call)])>>) \o call)

ScanHalf(i) ==
  Require(Pc \notin {i.rd, i.rm} /\ (i.rn = Pc => i.op = "ldrh" /\ i.pre /\ ~i.wb),
    Emits(IF i.rn = Pc THEN <<ArmCopyToReg(i.cond, i.rd, Spc + 8), [i EXCEPT !.rn = i.rd]>> ELSE <<i>>))

\* (Variant of ScanVfp: the base is not replaced.)
ScanVfpCopied(i) == Emits(<<i>>)
ScanVfp(i) ==
  IF i.rn # Pc THEN Emits(<<i>>)
  ELSE Require(~i.wb,
         Emits(<<ArmCondPushReg(i.cond, 0), ArmCopyToReg(i.cond, 0, Spc + 8),
                 [i EXCEPT !.rn = 0], ArmCondPopReg(i.cond, 0)>>))

\* Hints relative to the program counter are dropped.
ScanPld(i) == Emits(IF Pc \in {i.rn, i.rm} THEN <<>> ELSE <<i>>)

\* By class, the operands that are asserted not to be the program counter.
AssertedInteger ==
  [and |-> {"rd", "rn", "rm"}, cmp |-> {"rn", "rm"}, movw |-> {"rd"}, mvn |-> {"rd", "rm"},
   mul |-> {"rd", "rn", "rm", "rs"}]
AssertedExclusive == [ldrex |-> {"rd", "rn"}, strex |-> {"rd", "rn", "rm"}, rev |-> {"rd", "rm"}]
AssertedMedia ==
  [stc |-> {"rn"}, mull |-> {"rd", "rs", "rm", "rn"}, mrs |-> {"rd"}, msr |-> {"rn"}, div |-> {"rd", "rn", "rm"},
   extend |-> {"rd", "rm"}, ldrt |-> {"rd", "rn", "rm"}, bfi |-> {"rd", "rn"}, usad |-> {"rd", "rn", "rm"},
   bfc |-> {"rd"}, mrrc |-> {"rd", "rs"}]
AssertedMultiply ==
  [umaal |-> {"rd", "rs", "rn", "rm"}, smla |-> {"rd", "rn", "rm", "rs"}, sat |-> {"rd", "rn"}]
AssertedSimd == [neon |-> {"rn"}, vmov |-> {"rd"}, simd |-> {}]
AssertedOperands == AssertedInteger @@ AssertedExclusive @@ AssertedMedia @@ AssertedMultiply @@ AssertedSimd

ScanCopied(i) == Require(\A f \in AssertedOperands[i.class] : i[f] # Pc, Emits(<<i>>))

ScanArmInst(i) ==
  CASE i.op = "dp" -> ScanDataProc(i)
    [] i.op \in {"b", "bl"} -> ScanB(i)
    [] i.op \in {"bx", "blx"} -> ScanBx(i)
    [] i.op = "ldm" -> ScanLdm(i)
    [] i.op = "ldr" -> ScanLdr(i)
    [] i.op = "stm" -> ScanStm(i)
    [] i.op = "str" -> ScanStr(i)
    [] i.op = "tls" -> ScanCoproc(i)
    [] i.op = "svc" -> ScanSvc(i)
    [] i.op \in {"ldrh", "strh"} -> ScanHalf(i)
    [] i.op = "vfp" -> ScanVfp(i)
    [] i.op = "pld" -> ScanPld(i)
    [] i.op = "alu" -> ScanCopied(i)
    [] i.op = "blxi" -> ScanBlxi(i)

-----------------------------------------------------------------------------
(* Every instruction, translated and executed *)

Conds == {"al", "cc"}
Addressing == {[pre |-> p, up |-> u, wb |-> w, cond |-> c] :
                 p \in BOOLEAN, u \in BOOLEAN, w \in BOOLEAN, c \in Conds}
Lists == {{1}, {0, 1}, {0, 1, Pc}, {Pc}, {4, Pc}, {0, Lr, Pc}, {0, Sp, Pc}, {Sp, Lr, Pc}, {Sp, Pc}}

A32DataProc ==
  {Arm("dp", [rd |-> d, rn |-> n, rm |-> x, imm |-> 12, s |-> s, cond |-> c]) :
     d \in {0, 5, Sp, Pc}, n \in {0, 4, Sp, Pc}, x \in {0, 4, Sp, Pc, NoReg}, s \in BOOLEAN, c \in Conds}
A32Branches ==
  {Arm(op, [imm |-> 30000, cond |-> c]) : op \in {"b", "bl"}, c \in Conds}
    \cup {Arm(op, [rn |-> n, cond |-> c]) : op \in {"bx", "blx"}, n \in {0, 5, Sp, Lr, Pc}, c \in Conds}
    \cup {Arm("blxi", [imm |-> 30000])}
A32Multiple ==
  {Arm(op, [rn |-> n, list |-> l] @@ a) : op \in {"ldm", "stm"}, n \in {0, Sp, Pc}, l \in Lists, a \in Addressing}
A32Transfers ==
  {Arm(op, [rd |-> d, rn |-> n, rm |-> x[1], imm |-> x[2]] @@ a) :
     op \in {"ldr", "str", "ldrh", "strh"}, d \in {0, Sp, Pc}, n \in {0, 4, Sp, Pc},
     x \in {<<NoReg, 4>>, <<NoReg, 8>>, <<0, 0>>, <<Sp, 0>>, <<Pc, 0>>}, a \in Addressing}
A32Others ==
  {Arm("tls", [rd |-> d, cond |-> c]) : d \in {0, Pc}, c \in Conds}
    \cup {Arm("svc", [cond |-> c]) : c \in Conds}
    \cup {Arm("vfp", [rn |-> n, imm |-> 8, wb |-> w, cond |-> c]) : n \in {0, Sp, Pc}, w \in BOOLEAN, c \in Conds}
    \cup {Arm("pld", [rn |-> n, rm |-> x]) : n \in {0, Pc}, x \in {0, Pc}}
    \cup {Arm("alu", [class |-> k, rd |-> d, rn |-> n, rm |-> x, rs |-> s]) :
            k \in DOMAIN AssertedOperands,
            d \in {0, Pc}, n \in {0, Pc}, x \in {1, Pc}, s \in {2, Pc}}

\* What the architecture leaves open, and the accesses without privileges.
Unpredictable(i) ==
  LET indexed == i.wb \/ ~i.pre
  IN \/ i.op \in {"ldr", "str", "ldrh", "strh"} /\ ~i.pre /\ i.wb
     \/ i.op \in {"ldr", "str", "ldrh", "strh"} /\ indexed /\ i.rn \in {Pc, i.rd, i.rm}
     \/ i.op = "ldm" /\ i.wb /\ i.rn \in i.list \cup {Pc}
     \/ i.op = "stm" /\ i.wb /\ (i.rn = Pc \/ (i.rn \in i.list /\ \E r \in i.list : r < i.rn))

A32Instructions == {i \in A32DataProc \cup A32Branches \cup A32Multiple \cup A32Transfers \cup A32Others : ~Unpredictable(i)}

A32Idle == [stage |-> "idle"]
ScannerInit == a32 \in {[stage |-> "fetched", inst |-> i] : i \in A32Instructions}

Translate ==
  /\ a32.stage = "fetched"
  /\ a32' = [stage |-> "translated", inst |-> a32.inst, to |-> ScanArmInst(a32.inst)]

\* Both run from the same state; hit: whether the target is in the hash table.
ExecuteBoth ==
  /\ a32.stage = "translated" /\ ~a32.to.abort
  /\ \E flag \in BOOLEAN, hit \in BOOLEAN :
       a32' = [a32 EXCEPT !.stage = "executed"]
                @@ [native |-> RunArm(<<a32.inst>>, 1, Machine(TRUE, flag, hit)),
                    cached |-> RunArm(a32.to.code, 1, Machine(FALSE, flag, hit))]

TranslationNext == (Translate \/ ExecuteBoth) /\ UNCHANGED <<a32prog, a32scan>>

\* What the scanner is known to translate differently.
A32Gap(i) ==
  LET scratch == i.rn = Pc /\ i.rd # Pc
  IN \/ i.op = "svc" /\ i.cond # "al"                                        \* the call is skipped when it is due
     \/ i.op = "bl" /\ i.cond # "al"                                         \* sets lr without a branch
     \/ i.op = "blx" /\ i.rn = Lr                                            \* overwrites lr before reading it
     \/ i.op = "dp" /\ i.rd # Pc /\ ScratchFor(i) # i.rd /\ (i.rd = Sp \/ (i.s /\ i.cond # "al"))
     \/ i.op \in {"ldr", "str"} /\ scratch /\ Sp \in {i.rd, i.rm}            \* sp is off by the pushed registers
     \/ i.op = "ldr" /\ i.rd = Pc /\ i.rm = Sp
     \/ i.op = "ldrh" /\ scratch /\ i.rd = i.rm                              \* the base overwrites the index
     \/ i.op = "str" /\ i.rd = Pc /\ i.imm # 4
     \/ i.op = "ldm" /\ {Sp, Pc} \subseteq i.list /\ i.rn = Sp /\ ~i.up

After(m, stop) == CASE m.goto # NoWhere -> m.goto
                    [] m.goto = NoWhere /\ ~stop -> Spc + 4
                    [] m.goto = NoWhere /\ stop -> Lost
\* The code compares values of its own.
TakesFlags(code) == \E k \in DOMAIN code : code[k].op \in {"miss", "wrapper"}
\* Not above the top of the stack, before or after.
Scratched(n, a) == a < n.regs[Sp] /\ \E top \in {n.regs[Sp], Machine(TRUE, TRUE, TRUE).regs[Sp]} : a \in (top - 100) .. (top - 1)

(* The translation of an instruction does what the instruction does: it      *)
(* leaves the same registers and memory and execution continues at the same  *)
(* application address, whatever registers it needed on the way.  The flags  *)
(* survive, except a lookup of the target of an indirect branch and a system *)
(* call.                                                                     *)
TranslationExact ==
  a32.stage = "executed" /\ ~A32Gap(a32.inst) =>
    LET n == a32.native
        c == a32.cached
    IN /\ <<c.regs, c.sys, c.vfp>> = <<n.regs, n.sys, n.vfp>>
       /\ After(c, a32.to.stop) = After(n, FALSE)
       /\ \A a \in DOMAIN n.mem \cup DOMAIN c.mem : Scratched(n, a) \/ LoadWord(c, a) = LoadWord(n, a)
       /\ TakesFlags(a32.to.code) \/ c.flag = n.flag

-----------------------------------------------------------------------------
(* The space that a translation takes *)

MIN_FSPACE == 72            \* left by arm_check_free_space() behind every instruction,
IHL_SPACE == 88             \* and in front of a lookup
WordsOf(x) == CASE x.op = "mov" /\ x.rm = NoReg -> 2
                [] x.op = "clobber" -> x.imm
                [] x.op = "enter" -> 2
                [] x.op = "space" -> 0
                [] OTHER -> 1
Words(code) == FoldFunction(LAMBDA x, n : n + WordsOf(x), 0, code)

(* A translation fits in the space that is left in front of it, and a lookup *)
(* of the hash table in the one reserved for it.                             *)
TranslationFits ==
  a32.stage = "translated" =>
    LET code == a32.to.code
        cut == IF \E k \in DOMAIN code : code[k].op = "space"
               THEN CHOOSE k \in DOMAIN code : code[k].op = "space" ELSE Len(code)
    IN 4 * Words(SubSeq(code, 1, cut)) < MIN_FSPACE /\ 4 * Words(SubSeq(code, cut + 1, Len(code))) <= IHL_SPACE

-----------------------------------------------------------------------------
(* The loop of scan_a32() *)

A32Kinds == {[kind |-> k, to |-> 0] : k \in {"plain", "svc", "udf", "reg", "cond"}}
              \cup {[kind |-> "b", to |-> t] : t \in 1 .. A32Length}
\* A program returns at its end.
A32At(p) == IF p \in 1 .. A32Length THEN a32prog[p] ELSE [kind |-> "reg", to |-> 0]

\* (Variant of BackInlineFull: one more branch is inlined when nothing is emitted.)
BackInlineFullLate(emitting, count) == IF emitting THEN count >= MAX_BACK_INLINE ELSE count > MAX_BACK_INLINE
\* (Variant of BackInlineFull: twice as many.)
BackInlineFullTwice(emitting, count) == count >= 2 * MAX_BACK_INLINE
BackInlineFull(emitting, count) == count >= MAX_BACK_INLINE

\* pass1_arm(): the kind of branch that the fragment ends with.
RECURSIVE Pass1(_, _)
Pass1(read, count) ==
  LET i == A32At(read)
      back == i.to <= read
  IN CASE i.kind = "b" /\ back /\ BackInlineFull(FALSE, count) -> "uncond_imm"
       [] i.kind = "b" /\ ~(back /\ BackInlineFull(FALSE, count)) -> Pass1(i.to, IF back THEN count + 1 ELSE count)
       [] i.kind = "cond" -> "cond_imm"
       [] i.kind = "reg" -> "reg"
       [] i.kind \in {"plain", "svc", "udf"} -> Pass1(read + 1, count)

ScanIdle == [stage |-> "idle"]

Event(name, at) == <<name, at>>

StartScan ==
  /\ a32scan.stage = "idle"
  /\ \E start \in 1 .. A32Length, type \in {"bb", "trace"} :
       a32scan' = [stage |-> "scanning", start |-> start, entry |-> start, read |-> start, back |-> 0, exit |-> "none",
                   target |-> 0, header |-> type = "bb" /\ Pass1(start, 0) = "cond_imm",
                   events |-> <<Event("pre_fragment", start), Event("pre_bb", start)>>]

\* The end of an iteration; read is where inline_uncond_imm() leaves it.
Continue(s, read, events) ==
  [s EXCEPT !.read = read + 1, !.events = @ \o events \o <<Event("post_inst", read)>>]
Stop(s, exit, target) ==
  [s EXCEPT !.stage = "scanned", !.exit = exit, !.target = target,
            !.events = @ \o <<Event("post_inst", s.read), Event("post_bb", s.entry), Event("post_fragment", s.start)>>]

\* (Variant of InlineUncondImm: the entry of the new block is not noted.)
InlineUncondImmEntry(s, to) ==
  LET back == to <= s.read
  IN IF back /\ BackInlineFull(TRUE, s.back) THEN Stop(s, "trace_inline_max", to)
     ELSE Continue([s EXCEPT !.back = IF back THEN @ + 1 ELSE @],
                   to - 1, <<Event("post_bb", s.entry), Event("pre_bb", to)>>)
\* (Variant of InlineUncondImm: read is not moved back for the increment.)
InlineUncondImmPast(s, to) ==
  LET back == to <= s.read
  IN IF back /\ BackInlineFull(TRUE, s.back) THEN Stop(s, "trace_inline_max", to)
     ELSE Continue([s EXCEPT !.back = IF back THEN @ + 1 ELSE @, !.entry = to],
                   to, <<Event("post_bb", s.entry), Event("pre_bb", to)>>)
InlineUncondImm(s, to) ==
  LET back == to <= s.read
  IN IF back /\ BackInlineFull(TRUE, s.back) THEN Stop(s, "trace_inline_max", to)
     ELSE Continue([s EXCEPT !.back = IF back THEN @ + 1 ELSE @, !.entry = to],
                   to - 1, <<Event("post_bb", s.entry), Event("pre_bb", to)>>)

ScanStep ==
  /\ a32scan.stage = "scanning"
  /\ LET i == A32At(a32scan.read)
         at == a32scan.read
         s == [a32scan EXCEPT !.events = Append(@, Event("pre_inst", at))]
     IN a32scan' = CASE i.kind = "plain" -> Continue(s, at, <<>>)
                     [] i.kind = "svc" -> Continue([s EXCEPT !.entry = at + 1], at,
                                                   <<Event("post_bb", s.entry), Event("pre_bb", at + 1)>>)
                     [] i.kind = "udf" /\ s.start = at -> Continue(s, at, <<>>)
                     [] i.kind = "udf" /\ s.start # at -> Stop(s, "uncond_imm", at)
                     [] i.kind = "reg" -> Stop(s, "uncond_reg", 0)
                     [] i.kind = "cond" -> Stop(s, "cond_imm", at + 1)
                     [] i.kind = "b" -> InlineUncondImm(s, i.to)

LoopNext == (StartScan \/ ScanStep) /\ UNCHANGED <<a32, a32prog>>

Named(names) == SelectSeq(a32scan.events, LAMBDA e : e[1] \in names)

(* Plugins see each basic block of a fragment open and close once, the close *)
(* with the address of the open, and all of them closed at the end.          *)
BlocksBalanced ==
  a32scan.stage # "idle" =>
    LET b == Named({"pre_bb", "post_bb"})
    IN /\ \A k \in DOMAIN b : b[k][1] = IF k % 2 = 1 THEN "pre_bb" ELSE "post_bb"
       /\ \A k \in DOMAIN b : k % 2 = 0 => b[k][2] = b[k - 1][2]
       /\ (Len(b) % 2 = 0) = (a32scan.stage = "scanned")

(* The instructions of a fragment are those that the program executes from   *)
(* its start when no conditional branch is taken, and the exit continues     *)
(* there.                                                                    *)
PathFollowed ==
  a32scan.stage # "idle" =>
    LET p == Named({"pre_inst"})
        After1(at) == IF A32At(at).kind = "b" THEN A32At(at).to ELSE at + 1
    IN /\ \A k \in DOMAIN p : p[k][2] = IF k = 1 THEN a32scan.start ELSE After1(p[k - 1][2])
       /\ a32scan.exit \in {"trace_inline_max", "cond_imm"} => a32scan.target = After1(p[Len(p)][2])
       /\ a32scan.exit = "uncond_imm" => a32scan.target = p[Len(p)][2]

(* A fragment that counts its executions ends in a branch that a trace can   *)
(* start with: pass1_arm() and the scan inline the same branches.            *)
HeaderFitsExit ==
  a32scan.stage = "scanned" /\ a32scan.header => a32scan.exit \in {"cond_imm", "uncond_imm"}

(* A scan ends: each backward branch that it follows counts.                 *)
ScanBounded ==
  a32scan.stage # "idle" => Len(Named({"pre_inst"})) <= (MAX_BACK_INLINE + 1) * (A32Length + 1)

(* What the A32 scanner emits is faithful to the program, instruction by     *)
(* instruction and along the path of the fragment, within its space.         *)
ScannerExact ==
  TranslationExact /\ TranslationFits /\ BlocksBalanced /\ PathFollowed /\ HeaderFitsExit /\ ScanBounded
=============================================================================
