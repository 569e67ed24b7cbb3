------------------------------ MODULE LoadStore ------------------------------
(***************************************************************************)
(* What a plugin learns about the memory instruction being scanned         *)
(* (api/load_store.c): whether it is a load or a store, how many bytes it  *)
(* accesses, and where.  The address is not known at scan time: the answer *)
(* is code, emitted in front of the instruction, that computes it into a   *)
(* register.  The plugin may have pushed registers on the application's    *)
(* stack before it asks.                                                   *)
(***************************************************************************)
EXTENDS LoadStore32

CONSTANT MaxPushed      \* bound on the registers that the plugin pushes

VARIABLES ldst,         \* the instruction in the plugin's context
          answer        \* the answers it has had so far

ldstVars == <<ldst, answer>>

Unasked == [class |-> <<>>, size |-> <<>>, addr |-> <<>>]

\* The address that the instruction will access.
Address(x) ==
  (CASE x.base = PC /\ x.isa = "t32" -> ((x.at + 4) \div 4) * 4
     [] x.base = PC /\ x.isa = "a32" -> x.at + 8
     [] x.base = PC /\ x.isa = "a64" -> x.at
     [] OTHER -> RegValue(x.base)) + IF x.pre THEN x.offset + x.index ELSE 0

In(isa, at, accesses) == {x @@ [isa |-> isa, at |-> at, pushed |-> 0, below |-> 0, rvv |-> <<>>] : x \in accesses}

LoadStoreInit ==
  /\ answer = Unasked
  /\ \/ ldst \in In("a64", 4000, A64PairAccesses \cup A64SingleAccesses \cup A64OtherAccesses)
     \/ ldst \in In("riscv", 4000, RvAccesses)
     \/ \E v \in RvvAccesses :
          ldst = [rvv |-> <<v>>] @@ CHOOSE x \in In("riscv", 4000, {RvAccess(<<"v_load", "b">>, 0, 10)}) : TRUE
     \/ ldst \in In("a32", 4000, A32Accesses)
     \/ \E at \in {4000, 4002} : ldst \in In("t32", at, T32Accesses)

-----------------------------------------------------------------------------
(* The plugin pushes registers (emit_push). *)
PluginPush(n) ==
  /\ ldst.pushed + n <= MaxPushed
  /\ ldst' = [ldst EXCEPT !.pushed = @ + n, !.below = @ + PushBytes(ldst.isa, n)]
  /\ answer' = Unasked

(* mambo_is_load and mambo_is_store *)
ClassAnswer(x) ==
  CASE x.isa = "a64" -> A64Class(x)
    [] x.isa = "riscv" -> RvClass(x)
    [] x.isa \in {"a32", "t32"} -> A32Class(x)

(* mambo_get_ld_st_size; for a vector access, mambo_calc_rvv_ld_st_size *)
SizeAnswer(x) ==
  CASE x.isa = "a64" -> A64Size(x)
    [] x.isa = "riscv" /\ x.rvv = <<>> -> RvSize(x)
    [] x.isa = "riscv" /\ x.rvv # <<>> -> LET v == x.rvv[1] IN RvvSize(v.form, v.eew, v.nf, v.csr)
    [] x.isa \in {"a32", "t32"} -> A32Size(x)

(* mambo_calc_ld_st_addr, and what the code it emits computes *)
AddrAnswer(x) ==
  CASE x.isa = "a64" -> A64Addr(x)
    [] x.isa = "riscv" -> RvAddr(x)
    [] x.isa = "a32" -> A32Addr(x)
    [] x.isa = "t32" -> T32Addr(x)

(* The plugin asks; the three functions change nothing, so that their order  *)
(* does not matter.                                                          *)
Ask ==
  /\ answer = Unasked
  /\ answer' = [class |-> ClassAnswer(ldst), size |-> <<SizeAnswer(ldst)>>, addr |-> <<AddrAnswer(ldst)>>]
  /\ UNCHANGED ldst

LoadStoreNext == (\E n \in 1 .. MaxPushed : PluginPush(n)) \/ Ask

-----------------------------------------------------------------------------
(* The encodings that the code is known to get wrong; see the README. *)

\* A store of a 128-bit register, and the compare-and-swaps.
ClassGap(x) ==
  /\ x.isa = "a64"
  /\ \/ x.inst \in A64LdrStr /\ x.f.v = 1 /\ x.f.opc = 2
     \/ x.inst = "ldx_stx" /\ x.load /\ x.store
\* The compare-and-swaps, the structure load of four 32-bit elements to all lanes
\* with 128-bit alignment, and the segment counts that are no power of two.
SizeGap(x) ==
  \/ x.isa = "a64" /\ x.inst = "ldx_stx" /\ x.load /\ x.store
  \/ x.isa \in {"a32", "t32"} /\ x.inst.form = "neon_a" /\ x.f.size = 3
  \/ x.rvv # <<>> /\ x.rvv[1].nf \in {3, 5, 6, 7}
\* The compressed stores to the stack with bit 5 of the offset set, A32 accesses
\* relative to the program counter, A32 subtraction of register 0, and T32
\* decrementing accesses to several floating point registers.  In A64, the stack
\* after a push of an odd number of registers.
AddrGap(x) ==
  \/ x.isa = "riscv" /\ x.inst[1] \in {"c_ssp", "c_fssp"} /\ Bits(x.offset, 1, 5) = 1
  \/ x.isa = "a32" /\ x.base = PC
  \/ x.isa = "a32" /\ x.inst.form \in {"str", "misc"} /\ ~x.f.isImm
       /\ x.f.op2.rm = 0 /\ x.f.u = 0 /\ x.f.p = 1
  \/ x.isa = "t32" /\ x.inst.form = "vm" /\ x.f.u = 0 /\ CountBits(x.f.imm) # x.f.imm
  \/ x.base = SP(x.isa) /\ x.below # x.pushed * Word(x.isa)

(* The classification is that of the instruction: sign-extending loads are   *)
(* loads, atomics are both and prefetches are neither.                       *)
ClassExact ==
  answer.class # <<>> /\ ~ClassGap(ldst) => answer.class = <<ldst.load, ldst.store>>

(* The size is the number of bytes accessed: by all registers of a list, all *)
(* elements of a structure and all active elements of a vector.  A vector    *)
(* access of RISC-V has no static size.                                      *)
SizeExact ==
  answer.size # <<>> /\ ~SizeGap(ldst) =>
    answer.size = IF ldst.rvv # <<>>
                  THEN LET v == ldst.rvv[1] IN <<RvvMeaning(v.form, v.eew, v.nf, v.csr)>>
                  ELSE <<ldst.size>>

(* The emitted code computes the address that the instruction will access,   *)
(* in every addressing mode, whatever the plugin has pushed before.          *)
AddressExact ==
  answer.addr # <<>> /\ ~AddrGap(ldst) => answer.addr = <<Address(ldst)>>

(* The address is the right one for all accesses of A64, those to the stack  *)
(* included, however many registers the plugin has pushed.                   *)
StackAddressExact ==
  answer.addr # <<>> /\ ldst.isa = "a64" => answer.addr = <<Address(ldst)>>

(* What a plugin is told of a memory instruction is what the instruction     *)
(* does, outside the gaps above.                                             *)
AnswersExact == ClassExact /\ SizeExact /\ AddressExact
=============================================================================
