---------------------------- MODULE MCCodeCache ----------------------------
(***************************************************************************)
(* Small instances of CodeCache.                                           *)
(***************************************************************************)
EXTENDS CodeCache, TLC

CONSTANTS s1, s2, s3, s4, s5

Block(exit, taken, skipped, unmaps) ==
  [exit |-> exit, taken |-> taken, skipped |-> skipped, unmaps |-> unmaps]

\* Every kind of exit.  The blocks of a linked loop, s1 and s2, unmap code that is
\* reached through an indirect branch only, so that after the flush the thread
\* goes round in evicted blocks; the block with the indirect branch unmaps code of
\* the loop.  One conditional branch goes to the next instruction, one block ends
\* early.
LoopProg ==
  (s1 :> Block("cond_imm_a64", s2, s3, {s4})) @@ (s2 :> Block("cbz_a64", s1, s1, {}))
  @@ (s3 :> Block("unknown", s5, s5, {})) @@ (s4 :> Block("uncond_imm_a64", s1, s1, {}))
  @@ (s5 :> Block("uncond_branch_reg", s5, s5, {s2}))

LoopSpan == (s1 :> 1) @@ (s2 :> 1) @@ (s3 :> 3) @@ (s4 :> 2) @@ (s5 :> 1)

\* A block unmaps code that it then branches to directly, after mapping other
\* code in its place.
RemapProg ==
  (s1 :> Block("cond_imm_a64", s2, s3, {})) @@ (s2 :> Block("uncond_imm_a64", s1, s1, {}))
  @@ (s3 :> Block("uncond_imm_a64", s2, s2, {s2}))

\* Only conditional branches, all blocks of one block: two links each.
CondProg ==
  [s \in SPC |-> CASE s = s1 -> Block("cond_imm_a64", s2, s3, {})
                   [] s = s2 -> Block("cbz_a64", s3, s4, {})
                   [] s = s3 -> Block("cond_imm_a64", s4, s5, {})
                   [] s = s4 -> Block("cbz_a64", s5, s1, {})
                   [] s = s5 -> Block("cond_imm_a64", s1, s2, {})]

OneBlock == [s \in SPC |-> 1]
=============================================================================
