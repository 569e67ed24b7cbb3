---------------------------- MODULE MCTracesA64 ----------------------------
(***************************************************************************)
(* Small instances of TracesA64.                                           *)
(***************************************************************************)
EXTENDS TracesA64

CONSTANTS s1, s2, s3, s4

Block(exit, taken, skipped, unmaps) ==
  [exit |-> exit, taken |-> taken, skipped |-> skipped, unmaps |-> unmaps]

\* Every cycle goes through an indirect branch, which ends a trace; the block
\* that makes it unmaps code.
TreeProg ==
  (s1 :> Block("cond_imm_a64", s2, s3, {})) @@ (s2 :> Block("uncond_imm_a64", s3, s3, {}))
  @@ (s3 :> Block("uncond_branch_reg", s3, s3, {s1}))

\* Nested loops of direct branches: a trace that starts anywhere in them never
\* comes to an end by itself.
NestProg ==
  (s1 :> Block("cond_imm_a64", s2, s3, {})) @@ (s2 :> Block("uncond_imm_a64", s1, s1, {}))
  @@ (s3 :> Block("cbz_a64", s1, s3, {}))

\* A loop with a way out that is not always in the cache.
ExitProg ==
  (s1 :> Block("cond_imm_a64", s2, s3, {})) @@ (s2 :> Block("uncond_imm_a64", s3, s3, {}))
  @@ (s3 :> Block("cond_imm_a64", s1, s4, {})) @@ (s4 :> Block("uncond_imm_a64", s2, s2, {}))

\* A loop that may unmap code elsewhere, on any iteration.
UnmapProg ==
  (s1 :> Block("cond_imm_a64", s2, s3, {s3})) @@ (s2 :> Block("uncond_imm_a64", s1, s1, {}))
  @@ (s3 :> Block("uncond_imm_a64", s1, s1, {}))

OneBlock == [s \in SPC |-> 1]
=============================================================================
