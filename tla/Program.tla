------------------------------ MODULE Program ------------------------------
(***************************************************************************)
(* The program that runs under MAMBO, seen as its basic blocks.            *)
(***************************************************************************)
CONSTANTS
  SPC,     \* source addresses at which a basic block of the program starts
  Entry,   \* the address the program starts at
  Prog     \* the program: one record for each source address, see ProgType

\* The ways a basic block can end, with the names that the scanner gives them.
\* cbz_a64 stands for tbz_a64 too: every switch of the code treats them alike.
BranchTypes ==
  {"uncond_imm_a64", "cond_imm_a64", "cbz_a64", "uncond_branch_reg", "unknown"}

CondTypes == {"cond_imm_a64", "cbz_a64"}

\* exit    how the block ends ("unknown": an instruction the decoder does not
\*         know, where scanning stops, to resume in a block of its own)
\* taken   where the branch goes; for "unknown" the undecodable instruction
\* skipped the instruction after the branch
\* unmaps  the blocks whose code the body may unmap with a system call
ProgType ==
  [SPC -> [exit : BranchTypes, taken : SPC, skipped : SPC, unmaps : SUBSET SPC]]

ASSUME EntryAssumption == Entry \in SPC
ASSUME ProgAssumption == Prog \in ProgType

\* Where block s can go: an indirect branch goes anywhere.
Successors(s) ==
  IF Prog[s].exit = "uncond_branch_reg" THEN SPC
  ELSE IF Prog[s].exit \in CondTypes THEN {Prog[s].taken, Prog[s].skipped}
  ELSE {Prog[s].taken}
=============================================================================
