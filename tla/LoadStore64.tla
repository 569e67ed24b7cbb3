----------------------------- MODULE LoadStore64 -----------------------------
(***************************************************************************)
(* How api/load_store.c decodes the memory instructions of A64 and RISC-V. *)
(* An access is a record of what it MEANS (base, offset, size, direction)  *)
(* together with the fields f of its encoding, which follow from the       *)
(* instruction set and are what the generated decoders return.  The        *)
(* decoding operators read only the instruction and f.  LoadStore asks the *)
(* questions and compares the answers with the meaning.                    *)
(***************************************************************************)
EXTENDS Integers, Sequences, FiniteSets

NoSize == -1

Bits(n, count, pos) == (n \div 2^pos) % 2^count
SignExtend(bits, v) == IF v >= 2^(bits - 1) THEN v - 2^bits ELSE v
Field(bits, v) == v % 2^bits                 \* a value as a field holds it

\* The application's registers; distinct values, so that taking one register for
\* another shows.  Register 13, 31 or 2 is the stack pointer.
SP(isa) == CASE isa \in {"a32", "t32"} -> 13 [] isa = "a64" -> 31 [] isa = "riscv" -> 2
Word(isa) == IF isa \in {"a32", "t32"} THEN 4 ELSE 8
PC == 15
RegValue(r) == 10000 * (r + 1)

-----------------------------------------------------------------------------
(* _generate_addr: base plus offset, or plus a shifted register that is      *)
(* subtracted when its number is negative; the registers that the plugin has *)
(* pushed are added back to a stack pointer.                                  *)

NoRm == 99
ReadAddrToPc(addr) == ((addr + 4) \div 4) * 4

\* What the emitted code reads from the base register when it runs.
BaseNow(x, rn) ==
  CASE rn = PC /\ x.isa \in {"a32", "t32"} -> ReadAddrToPc(x.at)
    [] rn = SP(x.isa) -> RegValue(rn) - x.below
    [] OTHER -> RegValue(rn)
IndexNow(rm, shift) ==
  CASE rm = NoRm -> 0
    [] rm < 0 -> -(RegValue(-rm) * 2^shift)
    [] OTHER -> RegValue(rm) * 2^shift

\* (Variant of GenerateAddr: what the plugin has pushed is not added back.)
GenerateAddrPushed(x, rn, rm, shift, offset) == BaseNow(x, rn) + IndexNow(rm, shift) + offset

GenerateAddr(x, rn, rm, shift, offset) ==
  BaseNow(x, rn) + IndexNow(rm, shift) + offset + IF rn = SP(x.isa) THEN x.pushed * Word(x.isa) ELSE 0

\* The bytes by which emit_push moves the stack pointer: an A64 push of a single
\* register takes a whole pair.
PushBytes(isa, n) == IF isa = "a64" THEN 16 * ((n + 1) \div 2) ELSE n * Word(isa)

-----------------------------------------------------------------------------
(* A64 *)

A64Atomics == {"ldadd", "ldclr", "ldeor", "ldset", "swp"}
A64LdrStr == {"ldr_str_immed", "ldr_str_reg", "ldr_str_unsigned_immed"}
A64Vector == {"multiple", "multiple_post", "single", "single_post"}

\* _a64_is_load_or_store: the two flags as a pair
A64Class(x) ==
  CASE x.inst = "ldr_lit" -> <<~(x.f.opc = 3 /\ x.f.v = 0), FALSE>>
    [] x.inst \in {"ldx_stx", "ldp_stp"} \cup A64Vector -> <<x.f.l = 1, x.f.l = 0>>
    [] x.inst \in A64LdrStr ->
         IF x.f.size = 3 /\ x.f.v = 0 /\ x.f.opc = 2 THEN <<FALSE, FALSE>>
         ELSE <<x.f.opc # 0, x.f.opc = 0>>
    [] x.inst \in A64Atomics -> <<TRUE, TRUE>>
    [] OTHER -> <<FALSE, FALSE>>

A64Scale(f) == (IF f.v = 1 THEN (f.opc \div 2) * 4 ELSE 0) + f.size

\* _a64_calc_ld_st_addr
A64Addr(x) ==
  CASE x.inst = "ldp_stp" ->
         LET shift == 2 + x.f.opc \div 2^(1 - x.f.v)
         IN GenerateAddr(x, x.f.rn, NoRm, 0,
                         IF x.f.type # 1 THEN SignExtend(7, x.f.imm) * 2^shift ELSE 0)
    [] x.inst = "ldr_str_unsigned_immed" ->
         GenerateAddr(x, x.f.rn, NoRm, 0, x.f.imm * 2^A64Scale(x.f))
    [] x.inst = "ldr_str_immed" ->
         GenerateAddr(x, x.f.rn, NoRm, 0, IF x.f.type # 1 THEN SignExtend(9, x.f.imm) ELSE 0)
    [] x.inst = "ldr_str_reg" ->
         IF x.f.rm = 31 THEN GenerateAddr(x, x.f.rn, NoRm, 0, 0)
         ELSE GenerateAddr(x, x.f.rn, x.f.rm, IF x.f.s = 1 THEN A64Scale(x.f) ELSE 0, 0)
    [] x.inst = "ldr_lit" -> x.at + SignExtend(19, x.f.imm) * 4
    [] x.inst \in {"ldx_stx"} \cup A64Vector \cup A64Atomics ->
         GenerateAddr(x, x.f.rn, NoRm, 0, 0)

VectorRegs(op) == CASE op \in {0, 2} -> 4 [] op \in {4, 6} -> 3 [] op \in {8, 10} -> 2 [] op = 7 -> 1

\* _a64_get_ld_st_size
A64Size(x) ==
  CASE x.inst = "ldr_lit" -> 4 * 2^(IF x.f.v = 1 THEN x.f.opc ELSE x.f.opc % 2)
    [] x.inst = "ldp_stp" -> 8 * 2^(IF x.f.v = 1 THEN x.f.opc ELSE x.f.opc \div 2)
    [] x.inst \in A64LdrStr -> 2^A64Scale(x.f)
    [] x.inst = "ldx_stx" -> 2^(x.f.size + x.f.o1)
    [] x.inst \in {"multiple", "multiple_post"} -> VectorRegs(x.f.op) * 8 * 2^x.f.q
    [] x.inst \in {"single", "single_post"} ->
         LET scale == CASE x.f.op \div 2 = 3 -> x.f.size
                        [] x.f.op \div 2 = 2 -> IF x.f.size % 2 = 1 THEN 3 ELSE 2
                        [] OTHER -> x.f.op \div 2
         IN 2^scale * ((x.f.op % 2) * 2 + x.f.r + 1)
    [] x.inst \in A64Atomics -> 2^x.f.size

\* The accesses, by meaning; see the header.
A64Bases == {31, 1}
A64Pairs ==
  {[inst |-> "ldp_stp", load |-> l, store |-> ~l, size |-> 2 * elt, base |-> b, pre |-> t # 1,
    index |-> 0, offset |-> k * elt,
    f |-> [v |-> v, l |-> IF l THEN 1 ELSE 0, type |-> t, imm |-> Field(7, k), rn |-> b,
           opc |-> IF v = 1 THEN (CASE elt = 4 -> 0 [] elt = 8 -> 1 [] elt = 16 -> 2)
                   ELSE IF sw THEN 1 ELSE IF elt = 4 THEN 0 ELSE 2]] :
      l \in BOOLEAN, elt \in {4, 8, 16}, b \in A64Bases, t \in 0 .. 3, k \in {-64, -1, 0, 63},
      v \in {0, 1}, sw \in BOOLEAN}
A64PairAccesses ==
  {x \in A64Pairs : /\ x.size = 32 => x.f.v = 1
                    /\ x.f.v = 0 /\ x.f.opc = 1 => x.load /\ x.size = 8 /\ x.f.type # 0}

\* One register: log2 of the size, sign-extending loads and prefetches included.
A64SingleFields(log, v, kind) ==
  CASE v = 1 -> [v |-> 1, size |-> log % 4, opc |-> (log \div 4) * 2 + IF kind = "load" THEN 1 ELSE 0]
    [] kind = "prefetch" -> [v |-> 0, size |-> 3, opc |-> 2]
    [] OTHER -> [v |-> 0, size |-> log,
                 opc |-> CASE kind = "store" -> 0 [] kind = "load" -> 1
                           [] kind = "lds64" -> 2 [] kind = "lds32" -> 3]
A64SingleKinds ==
  {k \in [log : 0 .. 4, v : {0, 1}, kind : {"load", "store", "lds64", "lds32", "prefetch"}] :
     CASE k.v = 1 -> k.kind \in {"load", "store"}
       [] k.kind = "prefetch" -> k.log = 3
       [] k.kind = "lds64" -> k.log <= 2
       [] k.kind = "lds32" -> k.log <= 1
       [] OTHER -> k.log <= 3}
A64Modes == {[inst |-> "ldr_str_unsigned_immed", type |-> 0, scaled |-> TRUE, ks |-> {0, 1, 4095}],
             [inst |-> "ldr_str_immed", type |-> 0, scaled |-> FALSE, ks |-> {-256, 0, 255}],
             [inst |-> "ldr_str_immed", type |-> 1, scaled |-> FALSE, ks |-> {-256, 255}],
             [inst |-> "ldr_str_immed", type |-> 3, scaled |-> FALSE, ks |-> {-1, 255}]}
A64SingleAccess(m, k, b, n) ==
  LET f == A64SingleFields(k.log, k.v, k.kind)
  IN [inst |-> m.inst, load |-> k.kind \notin {"store", "prefetch"}, store |-> k.kind = "store",
      size |-> 2^k.log, base |-> b, pre |-> m.type # 1, index |-> 0,
      offset |-> IF m.scaled THEN n * 2^k.log ELSE n,
      f |-> [v |-> f.v, size |-> f.size, opc |-> f.opc, type |-> m.type, rn |-> b,
             imm |-> IF m.scaled THEN n ELSE Field(9, n)]]
A64RegAccess(k, b, rm, s) ==
  LET f == A64SingleFields(k.log, k.v, k.kind)
  IN [inst |-> "ldr_str_reg", load |-> k.kind \notin {"store", "prefetch"},
      store |-> k.kind = "store", size |-> 2^k.log, base |-> b, pre |-> TRUE, offset |-> 0,
      index |-> IF rm = 31 THEN 0 ELSE RegValue(rm) * IF s = 1 THEN 2^k.log ELSE 1,
      f |-> [v |-> f.v, size |-> f.size, opc |-> f.opc, rn |-> b, rm |-> rm, s |-> s]]
A64SingleAccesses ==
  UNION {{A64SingleAccess(m, k, b, n) : n \in m.ks} :
           m \in A64Modes, k \in A64SingleKinds, b \in A64Bases}
    \cup {A64RegAccess(k, b, rm, s) : k \in A64SingleKinds, b \in A64Bases, rm \in {5, 31}, s \in {0, 1}}

Plain(inst, load, store, size, b, f) ==
  [inst |-> inst, load |-> load, store |-> store, size |-> size, base |-> b, pre |-> TRUE,
   index |-> 0, offset |-> 0, f |-> f]
A64OtherAccesses ==
  {Plain("ldx_stx", l = 1, l = 0, 2^sz * (1 + o1), b,
         [size |-> sz, l |-> l, o2 |-> 0, o1 |-> o1, rn |-> b]) :       \* LDXP, STXP
     sz \in 2 .. 3, l \in {0, 1}, o1 \in {0, 1}, b \in A64Bases}
  \cup {Plain("ldx_stx", l = 1, l = 0, 2^sz, b,
              [size |-> sz, l |-> l, o2 |-> o2, o1 |-> 0, rn |-> b]) :  \* LDXR, LDAR, ...
          sz \in 0 .. 3, l \in {0, 1}, o2 \in {0, 1}, b \in A64Bases}
  \cup {Plain("ldx_stx", TRUE, TRUE, 2^sz, b,
              [size |-> sz, l |-> l, o2 |-> 1, o1 |-> 1, rn |-> b]) :   \* CAS
          sz \in 0 .. 3, l \in {0, 1}, b \in A64Bases}
  \cup {Plain("ldx_stx", TRUE, TRUE, 2 * 2^(sz + 2), b,
              [size |-> sz, l |-> l, o2 |-> 0, o1 |-> 1, rn |-> b]) :   \* CASP
          sz \in 0 .. 1, l \in {0, 1}, b \in A64Bases}
  \cup {[inst |-> "ldr_lit", load |-> k.kind # "prefetch", store |-> FALSE, size |-> k.size,
         base |-> PC, pre |-> TRUE, index |-> 0, offset |-> 4 * n,
         f |-> [v |-> k.v, opc |-> k.opc, imm |-> Field(19, n), rn |-> PC]] :
          n \in {-262144, -1, 0, 262143},
          k \in {[v |-> 0, opc |-> 0, size |-> 4, kind |-> "load"], [v |-> 0, opc |-> 1, size |-> 8, kind |-> "load"],
                 [v |-> 0, opc |-> 2, size |-> 4, kind |-> "load"], [v |-> 0, opc |-> 3, size |-> 8, kind |-> "prefetch"],
                 [v |-> 1, opc |-> 0, size |-> 4, kind |-> "load"], [v |-> 1, opc |-> 1, size |-> 8, kind |-> "load"],
                 [v |-> 1, opc |-> 2, size |-> 16, kind |-> "load"]}}
  \cup {Plain(i, l = 1, l = 0, n.regs * 8 * 2^q, b, [l |-> l, q |-> q, op |-> n.op, rn |-> b]) :
          i \in {"multiple", "multiple_post"}, l \in {0, 1}, q \in {0, 1}, b \in A64Bases,
          n \in {[op |-> 0, regs |-> 4], [op |-> 2, regs |-> 4], [op |-> 4, regs |-> 3],
                 [op |-> 6, regs |-> 3], [op |-> 8, regs |-> 2], [op |-> 10, regs |-> 2],
                 [op |-> 7, regs |-> 1]}}
  \cup {Plain(i, l = 1, l = 0, n * 2^e, b,
              [l |-> l, r |-> (n - 1) % 2, rn |-> b,
               op |-> (IF rep THEN 3 ELSE IF e = 3 THEN 2 ELSE e) * 2 + (n - 1) \div 2,
               size |-> IF rep THEN e ELSE IF e = 3 THEN 1 ELSE 0]) :
          i \in {"single", "single_post"}, l \in {1}, n \in 1 .. 4, e \in 0 .. 3,
          rep \in BOOLEAN, b \in A64Bases}
  \cup {Plain(i, TRUE, TRUE, 2^sz, b, [size |-> sz, rn |-> b]) :
          i \in A64Atomics, sz \in 0 .. 3, b \in A64Bases}

-----------------------------------------------------------------------------
(* RISC-V; an instruction is its mnemonic and its width suffix *)

AmoOps == {"amoswap", "amoadd", "amoxor", "amoand", "amoor", "amomin", "amomax", "amominu", "amomaxu"}
VectorWidths == {"b", "h", "w", "d"}

RvStores == {<<"c_fs", "d">>, <<"c_s", "w">>, <<"c_s", "d">>, <<"c_fssp", "d">>, <<"c_ssp", "w">>,
             <<"c_ssp", "d">>, <<"s", "b">>, <<"s", "h">>, <<"s", "w">>, <<"s", "d">>,
             <<"sc", "w">>, <<"sc", "d">>, <<"fs", "w">>, <<"fs", "d">>} \cup ({"v_store"} \X VectorWidths)
RvLoads == {<<"c_fl", "d">>, <<"c_l", "w">>, <<"c_l", "d">>, <<"c_flsp", "d">>, <<"c_flsp", "w">>,
            <<"c_lsp", "w">>, <<"c_lsp", "d">>, <<"l", "b">>, <<"l", "h">>, <<"l", "w">>, <<"l", "d">>,
            <<"lr", "w">>, <<"lr", "d">>, <<"fl", "w">>, <<"fl", "d">>, <<"lu", "b">>, <<"lu", "h">>,
            <<"lu", "w">>} \cup ({"v_load"} \X VectorWidths)
RvAmos == (AmoOps \X {"w", "d"}) \cup ({"v_amo"} \X VectorWidths)

\* (Variant of RvClass: an atomic is a load only.)
RvClassAmo(x) == <<x.inst \in RvLoads \cup RvAmos, x.inst \in RvStores>>

\* _riscv_is_load_or_store
RvClass(x) == <<x.inst \in RvLoads \cup RvAmos, x.inst \in RvStores \cup RvAmos>>

\* The __riscv_*_offset decoders; masks are written as the bits they select.
CWordOffset(hi, lo) == hi * 8 + Bits(lo, 1, 0) * 64 + Bits(lo, 1, 1) * 4
CDoubleOffset(hi, lo) == hi * 8 + lo * 64
SpWordLoadOffset(hi, lo) == hi * 32 + Bits(lo, 2, 0) * 64 + Bits(lo, 3, 2) * 4
SpDoubleLoadOffset(hi, lo) == hi * 32 + Bits(lo, 3, 0) * 64 + Bits(lo, 2, 3) * 8
SpWordStoreOffset(imm) == Bits(imm, 2, 0) * 64 + Bits(imm, 3, 2) * 4
SpDoubleStoreOffset(imm) == Bits(imm, 3, 0) * 64 + Bits(imm, 2, 3) * 8
StoreOffset(hi, lo) == SignExtend(12, hi * 32 + lo)
LoadOffset(imm) == SignExtend(12, imm)

\* _riscv_calc_ld_st_addr, in the order of its cases: compressed ...
RvCompressedAddr(x) ==
  CASE x.inst \in {<<"c_s", "w">>, <<"c_l", "w">>} ->
         GenerateAddr(x, x.f.rs1 + 8, NoRm, 0, CWordOffset(x.f.hi, x.f.lo))
    [] x.inst \in {<<"c_fs", "d">>, <<"c_fl", "d">>, <<"c_s", "d">>, <<"c_l", "d">>} ->
         GenerateAddr(x, x.f.rs1 + 8, NoRm, 0, CDoubleOffset(x.f.hi, x.f.lo))
    [] x.inst \in {<<"c_lsp", "w">>, <<"c_flsp", "w">>} ->
         GenerateAddr(x, 2, NoRm, 0, SpWordLoadOffset(x.f.hi, x.f.lo))
    [] x.inst = <<"c_ssp", "w">> -> GenerateAddr(x, 2, NoRm, 0, SpWordStoreOffset(x.f.imm))
    [] x.inst \in {<<"c_lsp", "d">>, <<"c_flsp", "d">>} ->
         GenerateAddr(x, 2, NoRm, 0, SpDoubleLoadOffset(x.f.hi, x.f.lo))
    [] x.inst \in {<<"c_ssp", "d">>, <<"c_fssp", "d">>} ->
         GenerateAddr(x, 2, NoRm, 0, SpDoubleStoreOffset(x.f.imm))

\* ... stores ...
RvStoreAddr(x) == GenerateAddr(x, x.f.rs1, NoRm, 0, StoreOffset(x.f.hi, x.f.lo))
\* ... vector accesses ...
RvVectorAddr(x) == GenerateAddr(x, x.f.rs1, NoRm, 0, 0)
\* ... loads ...
RvLoadAddr(x) == GenerateAddr(x, x.f.rs1, NoRm, 0, LoadOffset(x.f.imm))
\* ... reservations and atomics.
RvAmoAddr(x) == GenerateAddr(x, x.f.rs1, NoRm, 0, 0)

RvAddr(x) ==
  CASE x.inst[1] \in {"c_s", "c_l", "c_fs", "c_fl", "c_lsp", "c_flsp", "c_ssp", "c_fssp"} ->
         RvCompressedAddr(x)
    [] x.inst[1] \in {"s", "fs"} -> RvStoreAddr(x)
    [] x.inst[1] \in {"v_load", "v_store", "v_amo"} -> RvVectorAddr(x)
    [] x.inst[1] \in {"l", "lu", "fl"} -> RvLoadAddr(x)
    [] x.inst[1] \in {"lr", "sc"} \cup AmoOps -> RvAmoAddr(x)

\* _riscv_get_ld_st_size: vector accesses have no static size.
RvSize(x) ==
  CASE x.inst \in {<<"s", "b">>, <<"l", "b">>, <<"lu", "b">>} -> 1
    [] x.inst \in {<<"s", "h">>, <<"l", "h">>, <<"lu", "h">>} -> 2
    [] x.inst[2] = "w" /\ x.inst[1] \notin {"v_load", "v_store", "v_amo"} -> 4
    [] x.inst[2] = "d" /\ x.inst[1] \notin {"v_load", "v_store", "v_amo"} -> 8
    [] OTHER -> NoSize

\* The encoding of an offset, by form (RISC-V specification, as the comments of
\* load_store.c quote it).
RvOffsets(i) ==
  CASE i[1] \in {"c_s", "c_l", "c_fs", "c_fl"} ->
         {n \in 0 .. 248 : n % (IF i[2] = "w" THEN 4 ELSE 8) = 0 /\ n < IF i[2] = "w" THEN 128 ELSE 256}
    [] i[1] \in {"c_lsp", "c_flsp", "c_ssp", "c_fssp"} ->
         {n \in 0 .. 504 : n % (IF i[2] = "w" THEN 4 ELSE 8) = 0 /\ n < IF i[2] = "w" THEN 256 ELSE 512}
    [] i[1] \in {"s", "fs", "l", "lu", "fl"} -> {-2048, -33, -1, 0, 31, 32, 2047}
    [] OTHER -> {0}
RvFields(i, n, b) ==
  CASE i[1] \in {"c_s", "c_l", "c_fs", "c_fl"} ->
         [rs1 |-> b - 8, hi |-> Bits(n, 3, 3),
          lo |-> IF i[2] = "w" THEN Bits(n, 1, 2) * 2 + Bits(n, 1, 6) ELSE Bits(n, 2, 6)]
    [] i[1] \in {"c_lsp", "c_flsp"} ->
         [hi |-> Bits(n, 1, 5),
          lo |-> IF i[2] = "w" THEN Bits(n, 3, 2) * 4 + Bits(n, 2, 6) ELSE Bits(n, 2, 3) * 8 + Bits(n, 3, 6)]
    [] i[1] \in {"c_ssp", "c_fssp"} ->
         [imm |-> IF i[2] = "w" THEN Bits(n, 4, 2) * 4 + Bits(n, 2, 6) ELSE Bits(n, 3, 3) * 8 + Bits(n, 3, 6)]
    [] i[1] \in {"s", "fs"} -> [rs1 |-> b, hi |-> Bits(Field(12, n), 7, 5), lo |-> Bits(Field(12, n), 5, 0)]
    [] i[1] \in {"l", "lu", "fl"} -> [rs1 |-> b, imm |-> Field(12, n)]
    [] OTHER -> [rs1 |-> b]
RvBases(i) ==
  CASE i[1] \in {"c_s", "c_l", "c_fs", "c_fl"} -> {8, 15}
    [] i[1] \in {"c_lsp", "c_flsp", "c_ssp", "c_fssp"} -> {2}
    [] OTHER -> {2, 10}
RvVectors == {"v_load", "v_store", "v_amo"} \X VectorWidths
RvAccess(i, n, b) ==
  [inst |-> i, load |-> i[1] \in {"c_fl", "c_l", "c_flsp", "c_lsp", "l", "lr", "fl", "lu", "v_load", "v_amo"} \cup AmoOps,
   store |-> i[1] \in {"c_fs", "c_s", "c_fssp", "c_ssp", "s", "sc", "fs", "v_store", "v_amo"} \cup AmoOps,
   size |-> IF i \in RvVectors THEN NoSize
            ELSE CASE i[2] = "b" -> 1 [] i[2] = "h" -> 2 [] i[2] = "w" -> 4 [] i[2] = "d" -> 8,
   base |-> b, pre |-> TRUE, index |-> 0, offset |-> n, f |-> RvFields(i, n, b)]
RvAccesses ==
  UNION {{RvAccess(i, n, b) : n \in RvOffsets(i), b \in RvBases(i)} : i \in RvStores \cup RvLoads \cup RvAmos}

-----------------------------------------------------------------------------
(* The size of a vector access, computed when it runs; csr holds vl, vstart, *)
(* vsew and vlenb.                                                           *)

Log2Pow2(v) == CHOOSE k \in 0 .. 3 : 2^k <= v /\ v < 2^(k + 1)

\* (Variant of RvvSize: the data of an indexed access has the width field's size.)
RvvSizeIndexed(form, eew, nf, csr) ==
  LET log2_nf == Log2Pow2(nf)
  IN CASE form = "whole" -> csr.vlenb * 2^log2_nf
       [] form = "mask" -> (csr.vl + 7) \div 8
       [] OTHER -> (csr.vl - csr.vstart) * 2^(Log2Pow2(eew) + log2_nf)

RvvSize(form, eew, nf, csr) ==
  LET log2_nf == Log2Pow2(nf)
  IN CASE form = "whole" -> csr.vlenb * 2^log2_nf
       [] form = "mask" -> (csr.vl + 7) \div 8
       [] form = "indexed" -> (csr.vl - csr.vstart) * 2^(csr.vsew + log2_nf)
       [] OTHER -> (csr.vl - csr.vstart) * 2^(Log2Pow2(eew) + log2_nf)

RvvMeaning(form, eew, nf, csr) ==
  CASE form = "whole" -> nf * csr.vlenb
    [] form = "mask" -> (csr.vl \div 8) + IF csr.vl % 8 = 0 THEN 0 ELSE 1
    [] form = "indexed" -> (csr.vl - csr.vstart) * 2^csr.vsew * nf
    [] OTHER -> (csr.vl - csr.vstart) * eew * nf

RvvForms == {[form |-> "unit", nfs |-> 1 .. 8], [form |-> "indexed", nfs |-> 1 .. 8],
             [form |-> "amo", nfs |-> {1}], [form |-> "mask", nfs |-> {1}],
             [form |-> "whole", nfs |-> {1, 2, 4, 8}]}
RvvCsrs == {c \in [vl : {0, 1, 8, 13}, vstart : {0, 1}, vsew : 0 .. 3, vlenb : {16}] : c.vstart <= c.vl}
RvvAccesses == UNION {{[form |-> k.form, nf |-> n, eew |-> e, csr |-> c] :
                         n \in k.nfs, e \in {1, 2, 4, 8}, c \in RvvCsrs} : k \in RvvForms}
=============================================================================
