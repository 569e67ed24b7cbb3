----------------------------- MODULE LoadStore32 -----------------------------
(***************************************************************************)
(* How api/load_store.c decodes the memory instructions of AArch32, in its *)
(* A32 and T32 encodings.  An instruction is named by its direction, its   *)
(* width and its form; the widths "sb" and "sh" are sign-extending loads.  *)
(* See LoadStore64 for the shape of an access.                             *)
(***************************************************************************)
EXTENDS LoadStore64, TLC

Name(dir, width, form) == [dir |-> dir, width |-> width, form |-> form]
Names(dirs, widths, forms) == [dir : dirs, width : widths, form : forms]

CountBits(n) == Cardinality({i \in 0 .. 15 : Bits(n, 1, i) = 1})

WidthBytes(width) == CASE width \in {"b", "sb"} -> 1 [] width \in {"h", "sh"} -> 2
                  [] width = "w" -> 4 [] width = "d" -> 8
Log(width) == CASE width \in {"b", "sb"} -> 0 [] width \in {"h", "sh"} -> 1 [] width = "w" -> 2

-----------------------------------------------------------------------------
(* The instructions each class of mambo_is_load and mambo_is_store lists *)

T32Loads ==
  Names({"ld"}, {"w", "b", "h", "sb", "sh"}, {"r16", "r32", "i32", "t32", "wi32", "l32"})
  \cup Names({"ld"}, {"w", "b", "h"}, {"i16"}) \cup Names({"ld"}, {"w"}, {"pc16", "sp16"})
  \cup Names({"ld"}, {"w", "b", "h", "d"}, {"ex"}) \cup Names({"ld"}, {"d"}, {"d32"})
  \cup Names({"ld"}, {"m"}, {"m16", "push16", "fd32", "ea32", "vm", "vpush", "neon_m", "neon_o", "neon_a", "coproc"})
  \cup Names({"ld"}, {"w", "d"}, {"vr"})
T32Stores ==
  Names({"st"}, {"w", "b", "h"}, {"r16", "i16", "r32", "i32", "t32", "wi32"})
  \cup Names({"st"}, {"w"}, {"sp16"})
  \cup Names({"st"}, {"w", "b", "h", "d"}, {"ex"}) \cup Names({"st"}, {"d"}, {"d32"})
  \cup Names({"st"}, {"m"}, {"m16", "push16", "fd32", "ea32", "vm", "vpush", "neon_m", "neon_o", "coproc"})
  \cup Names({"st"}, {"w", "d"}, {"vr"})
A32Loads ==
  Names({"ld"}, {"w", "b"}, {"str", "strt"}) \cup Names({"ld"}, {"h", "sb", "sh"}, {"misc", "misct"})
  \cup Names({"ld"}, {"d"}, {"misc"}) \cup Names({"ld"}, {"w", "b", "h", "d"}, {"ex"})
  \cup Names({"ld"}, {"m"}, {"stm", "vm", "vpush", "neon_m", "neon_o", "neon_a", "coproc"})
  \cup Names({"ld"}, {"w", "d"}, {"vr"})
A32Stores ==
  Names({"st"}, {"w", "b"}, {"str", "strt"}) \cup Names({"st"}, {"h"}, {"misc", "misct"})
  \cup Names({"st"}, {"d"}, {"misc"}) \cup Names({"st"}, {"w", "b", "h", "d"}, {"ex"})
  \cup Names({"st"}, {"m"}, {"stm", "vm", "vpush", "neon_m", "neon_o", "coproc"})
  \cup Names({"st"}, {"w", "d"}, {"vr"})

A32Class(x) ==
  IF x.isa = "t32" THEN <<x.inst \in T32Loads, x.inst \in T32Stores>>
  ELSE <<x.inst \in A32Loads, x.inst \in A32Stores>>

-----------------------------------------------------------------------------
(* Addresses *)

\* _thumb_calc_ld_st_addr: the 16-bit forms, and the multiple forms ...
T32BaseAddr(x) ==
  LET form == x.inst.form IN
  CASE form \in {"m16", "neon_m", "neon_o", "neon_a"} -> GenerateAddr(x, x.f.rn, NoRm, 0, 0)
    [] form \in {"r16"} -> GenerateAddr(x, x.f.rn, x.f.rm, 0, 0)
    [] form = "i16" -> GenerateAddr(x, x.f.rn, NoRm, 0, x.f.imm * 2^Log(x.inst.width))
    [] form = "pc16" -> ((x.at + 4) \div 4) * 4 + x.f.imm * 4
    [] form = "sp16" -> GenerateAddr(x, 13, NoRm, 0, x.f.imm * 4)
    [] form \in {"push16", "vpush"} /\ x.inst.dir = "ld" -> GenerateAddr(x, 13, NoRm, 0, 0)
    [] form = "push16" /\ x.inst.dir = "st" -> GenerateAddr(x, 13, NoRm, 0, -(CountBits(x.f.regs) * 4))
    [] form \in {"fd32", "ea32"} ->
         GenerateAddr(x, x.f.rn, NoRm, 0,
                      IF <<x.inst.dir, form>> \in {<<"ld", "ea32">>, <<"st", "fd32">>}
                      THEN -(CountBits(x.f.regs) * 4) ELSE 0)

Signed(u, n) == IF u = 1 THEN n ELSE -n

\* ... and the 32-bit ones.
T32WideAddr(x) ==
  LET form == x.inst.form IN
  CASE form = "r32" -> GenerateAddr(x, x.f.rn, x.f.rm, x.f.shift, 0)
    [] form \in {"i32", "t32"} ->
         GenerateAddr(x, x.f.rn, NoRm, 0, IF x.f.p = 1 THEN Signed(x.f.u, x.f.imm) ELSE 0)
    [] form = "wi32" -> GenerateAddr(x, x.f.rn, NoRm, 0, x.f.imm)
    [] form = "d32" ->
         GenerateAddr(x, x.f.rn, NoRm, 0, IF x.f.p = 1 THEN Signed(x.f.u, x.f.imm * 4) ELSE 0)
    [] form = "l32" -> ReadAddrToPc(x.at) + Signed(x.f.u, x.f.imm)
    [] form = "vpush" -> GenerateAddr(x, 13, NoRm, 0, -(4 * x.f.imm))
    [] form = "ex" -> GenerateAddr(x, x.f.rn, NoRm, 0, IF x.inst.width = "w" THEN x.f.imm * 4 ELSE 0)
    [] form = "vm" ->
         GenerateAddr(x, x.f.rn, NoRm, 0, IF x.f.u = 0 THEN -(CountBits(x.f.imm) * 4) ELSE 0)
    [] form = "vr" -> GenerateAddr(x, x.f.rn, NoRm, 0, Signed(x.f.u, x.f.imm) * 4)

T32Addr(x) ==
  IF x.inst.form \in {"m16", "neon_m", "neon_o", "neon_a", "r16", "i16", "pc16", "sp16", "push16", "fd32", "ea32"}
     \/ (x.inst.form = "vpush" /\ x.inst.dir = "ld")
  THEN T32BaseAddr(x) ELSE T32WideAddr(x)

\* _decode_arm: an offset that is an immediate, or a register that is subtracted
\* by negating its number.
DecodeArm(isImm, p, u, op2) ==
  IF p = 0 THEN [rm |-> NoRm, imm |-> 0]
  ELSE IF isImm THEN [rm |-> NoRm, imm |-> Signed(u, op2.imm)]
  ELSE [rm |-> Signed(u, op2.rm), imm |-> op2.shift]

\* _arm_calc_ld_st_addr
A32Addr(x) ==
  LET form == x.inst.form
      d == DecodeArm(x.f.isImm, x.f.p, x.f.u, x.f.op2) IN
  CASE form \in {"str", "strt"} ->
         GenerateAddr(x, x.f.rn, d.rm, IF d.rm = NoRm THEN 0 ELSE d.imm, IF d.rm = NoRm THEN d.imm ELSE 0)
    [] form \in {"misc", "misct"} ->
         GenerateAddr(x, x.f.rn, d.rm, 0, IF x.f.isImm THEN d.imm ELSE 0)
    [] form = "stm" ->
         GenerateAddr(x, x.f.rn, NoRm, 0,
                      (IF x.f.u = 1 THEN 0 ELSE -(4 * (CountBits(x.f.regs) - 1)))
                        + IF x.f.p = 1 THEN Signed(x.f.u, 4) ELSE 0)
    [] form \in {"neon_m", "neon_o", "neon_a", "ex"} -> GenerateAddr(x, x.f.rn, NoRm, 0, 0)
    [] form \in {"vm", "vpush"} ->
         GenerateAddr(x, x.f.rn, NoRm, 0, IF x.f.u = 1 THEN 0 ELSE -(x.f.imm * 4))
    [] form = "vr" -> GenerateAddr(x, x.f.rn, NoRm, 0, Signed(x.f.u, x.f.imm) * 4)

-----------------------------------------------------------------------------
(* Sizes *)

\* _get_size_vldx_vstx_m
NeonRegs(op) == CASE op = 7 -> 1 [] op \in {8, 9, 10} -> 2 [] op \in {4, 5, 6} -> 3 [] op \in 0 .. 3 -> 4

FixedSizeForms == {"r16", "i16", "r32", "i32", "l32", "t32", "wi32", "pc16", "sp16", "ex", "vr", "d32",
                   "str", "strt", "misc", "misct"}

\* _thumb_get_ld_st_size and _arm_get_ld_st_size
A32Size(x) ==
  LET form == x.inst.form IN
  CASE form \in FixedSizeForms -> WidthBytes(x.inst.width)
    [] form \in {"fd32", "ea32", "m16", "push16", "stm"} -> CountBits(x.f.regs) * 4
    [] form \in {"vpush", "vm"} -> x.f.imm * 4
    [] form \in {"neon_o", "neon_a"} -> 2^x.f.size * (x.f.op + 1)
    [] form = "neon_m" -> NeonRegs(x.f.op) * 8

-----------------------------------------------------------------------------
(* The accesses, by meaning *)

Dirs == {"ld", "st"}
Base32 == {13, 3}
Access32(name, size, b, pre, index, offset, f) ==
  [inst |-> name, load |-> name.dir = "ld", store |-> name.dir = "st", size |-> size, base |-> b,
   pre |-> pre, index |-> index, offset |-> offset, f |-> f]

RegLists == {1, 128, 387, 511}               \* nine registers: eight and LR or PC
T32Listed(dir, form) == {n \in T32Loads \cup T32Stores : n.dir = dir /\ n.form = form}

T32Narrow ==
  UNION {{Access32(n, WidthBytes(n.width), 3, TRUE, RegValue(rm), 0, [rn |-> 3, rm |-> rm]) :
            n \in T32Listed(d, "r16"), rm \in {0, 5}} : d \in Dirs}
  \cup UNION {{Access32(n, WidthBytes(n.width), 3, TRUE, 0, k * WidthBytes(n.width), [rn |-> 3, imm |-> k]) :
                 n \in T32Listed(d, "i16"), k \in {0, 1, 31}} : d \in Dirs}
  \cup {Access32(Name(d, "w", "sp16"), 4, 13, TRUE, 0, 4 * k, [imm |-> k]) : d \in Dirs, k \in {0, 255}}
  \cup {Access32(Name("ld", "w", "pc16"), 4, PC, TRUE, 0, 4 * k, [imm |-> k]) : k \in {0, 255}}
  \cup {Access32(Name(d, "m", "push16"), 4 * CountBits(r), 13, TRUE, 0,
                 IF d = "ld" THEN 0 ELSE -(4 * CountBits(r)), [regs |-> r]) : d \in Dirs, r \in RegLists}
  \cup {Access32(Name(d, "m", "m16"), 4 * CountBits(r), 3, TRUE, 0, 0, [rn |-> 3, regs |-> r]) :
          d \in Dirs, r \in {1, 131}}
T32Wide ==
  UNION {{Access32(n, WidthBytes(n.width), b, TRUE, RegValue(rm) * 2^k, 0, [rn |-> b, rm |-> rm, shift |-> k]) :
            n \in T32Listed(d, "r32"), b \in Base32, rm \in {0, 5}, k \in {0, 3}} : d \in Dirs}
  \cup UNION {{Access32(n, WidthBytes(n.width), b, p = 1, 0, Signed(u, k), [rn |-> b, imm |-> k, p |-> p, u |-> u]) :
                 n \in T32Listed(d, "i32"), b \in Base32, p \in {0, 1}, u \in {0, 1}, k \in {0, 255}} : d \in Dirs}
  \cup UNION {{Access32(n, WidthBytes(n.width), b, TRUE, 0, k, [rn |-> b, imm |-> k, p |-> 1, u |-> 1]) :
                 n \in T32Listed(d, "t32"), b \in Base32, k \in {0, 255}} : d \in Dirs}
  \cup UNION {{Access32(n, WidthBytes(n.width), b, TRUE, 0, k, [rn |-> b, imm |-> k]) :
                 n \in T32Listed(d, "wi32"), b \in Base32, k \in {0, 4095}} : d \in Dirs}
  \cup {Access32(n, WidthBytes(n.width), PC, TRUE, 0, Signed(u, k), [imm |-> k, u |-> u]) :
          n \in T32Listed("ld", "l32"), u \in {0, 1}, k \in {0, 4095}}
  \cup {Access32(Name(d, "d", "d32"), 8, b, p = 1, 0, Signed(u, 4 * k), [rn |-> b, imm |-> k, p |-> p, u |-> u]) :
          d \in Dirs, b \in Base32, p \in {0, 1}, u \in {0, 1}, k \in {0, 255}}
  \cup {Access32(Name("ld", "d", "d32"), 8, PC, TRUE, 0, Signed(u, 4 * k), [rn |-> PC, imm |-> k, p |-> 1, u |-> u]) :
          u \in {0, 1}, k \in {0, 255}}
  \cup {Access32(Name(d, w, "ex"), WidthBytes(w), b, TRUE, 0, IF w = "w" THEN 4 * k ELSE 0, [rn |-> b, imm |-> k]) :
          d \in Dirs, w \in {"w", "b", "h", "d"}, b \in Base32, k \in {0, 255}}
  \cup {Access32(Name(d, "m", form), 4 * CountBits(r), b, TRUE, 0,
                 IF <<d, form>> \in {<<"ld", "ea32">>, <<"st", "fd32">>} THEN -(4 * CountBits(r)) ELSE 0,
                 [rn |-> b, regs |-> r]) : d \in Dirs, form \in {"fd32", "ea32"}, b \in Base32, r \in RegLists}

\* The floating point and vector accesses, which both encodings share: k words.
Vfp ==
  {Access32(Name(d, "m", "vm"), 4 * k, b, TRUE, 0, IF u = 1 THEN 0 ELSE -(4 * k),
            [rn |-> b, u |-> u, p |-> 1 - u, imm |-> k]) :
     d \in Dirs, b \in Base32, u \in {0, 1}, k \in {1, 2, 6, 32}}
  \cup {Access32(Name(d, "m", "vpush"), 4 * k, 13, TRUE, 0, IF d = "ld" THEN 0 ELSE -(4 * k),
                 [rn |-> 13, u |-> IF d = "ld" THEN 1 ELSE 0, p |-> IF d = "ld" THEN 0 ELSE 1, imm |-> k]) : d \in Dirs, k \in {1, 6, 32}}
  \cup {Access32(Name(d, w, "vr"), WidthBytes(w), b, TRUE, 0, Signed(u, 4 * k),
                 [rn |-> b, u |-> u, p |-> 1, imm |-> k]) :
          d \in Dirs, w \in {"w", "d"}, b \in Base32 \cup {PC}, u \in {0, 1}, k \in {0, 255}}
Neon ==
  LET at == [rn |-> 3] IN
  {Access32(Name(d, "m", "neon_m"), 8 * n.regs, 3, TRUE, 0, 0, at @@ [op |-> n.op]) :
     d \in Dirs, n \in {[op |-> 7, regs |-> 1], [op |-> 8, regs |-> 2], [op |-> 10, regs |-> 2],
                        [op |-> 9, regs |-> 2], [op |-> 3, regs |-> 4], [op |-> 4, regs |-> 3],
                        [op |-> 6, regs |-> 3], [op |-> 0, regs |-> 4], [op |-> 2, regs |-> 4]}}
  \cup {Access32(Name(d, "m", "neon_o"), n * 2^e, 3, TRUE, 0, 0, at @@ [op |-> n - 1, size |-> e]) :
          d \in Dirs, n \in 1 .. 4, e \in 0 .. 2}
  \cup {Access32(Name("ld", "m", "neon_a"), n * 2^e, 3, TRUE, 0, 0, at @@ [op |-> n - 1, size |-> e]) :
          n \in 1 .. 4, e \in 0 .. 2}
  \cup {Access32(Name("ld", "m", "neon_a"), 16, 3, TRUE, 0, 0, at @@ [op |-> 3, size |-> 3])}
T32Accesses == T32Narrow \cup T32Wide \cup Vfp \cup Neon

A32Offsets == {[isImm |-> TRUE, op2 |-> [imm |-> k], index |-> 0, offset |-> k] : k \in {0, 4095}}
  \cup {[isImm |-> FALSE, op2 |-> [rm |-> rm, shift |-> k], index |-> RegValue(rm) * 2^k, offset |-> 0] :
          rm \in {0, 5}, k \in {0, 3}}
A32Single(n, b, o, p, u) ==
  Access32(n, WidthBytes(n.width), b, p = 1, Signed(u, o.index), Signed(u, o.offset),
           [rn |-> b, p |-> p, u |-> u, isImm |-> o.isImm, op2 |-> o.op2])
A32Plain(n) == {o \in A32Offsets : n.form \in {"misc", "misct"} =>
                  IF o.isImm THEN o.offset < 256 ELSE o.op2.shift = 0}
A32Accesses ==
  UNION {{A32Single(n, b, o, p, u) : b \in Base32 \cup {PC}, o \in A32Plain(n), p \in {0, 1}, u \in {0, 1}} :
           n \in {m \in A32Loads \cup A32Stores : m.form \in {"str", "misc"}}}
  \cup UNION {{A32Single(n, b, o, 0, u) : b \in Base32, o \in A32Plain(n), u \in {0, 1}} :
                n \in {m \in A32Loads \cup A32Stores : m.form \in {"strt", "misct"}}}
  \cup {Access32(Name(d, "m", "stm"), 4 * CountBits(r), b, TRUE, 0,
                 CASE <<u, p>> = <<1, 0>> -> 0 [] <<u, p>> = <<1, 1>> -> 4
                   [] <<u, p>> = <<0, 0>> -> 4 - 4 * CountBits(r) [] <<u, p>> = <<0, 1>> -> -(4 * CountBits(r)),
                 [rn |-> b, regs |-> r, u |-> u, p |-> p]) :
          d \in Dirs, b \in Base32, r \in RegLists, u \in {0, 1}, p \in {0, 1}}
  \cup {Access32(Name(d, w, "ex"), WidthBytes(w), b, TRUE, 0, 0,
                 [rn |-> b]) :
          d \in Dirs, w \in {"w", "b", "h", "d"}, b \in Base32}
  \cup Vfp \cup Neon
=============================================================================
