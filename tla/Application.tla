---------------------------- MODULE Application ----------------------------
(***************************************************************************)
(* What the code cache promises: the program the user asked for.  A native *)
(* application thread is a walk over its basic blocks.  The body of a      *)
(* block computes where the block goes (flags, registers, return           *)
(* addresses); its exit branch goes there.                                 *)
(***************************************************************************)
EXTENDS Program

VARIABLES
  at,      \* the block the thread is in
  want,    \* where its exit branch goes, once the body has run
  phase    \* "body" or "exit"

appVars == <<at, want, phase>>

AppInit == at = Entry /\ want = Entry /\ phase = "body"

\* The body runs and leaves the outcome of the exit branch in the registers.
Body ==
  /\ phase = "body"
  /\ want' \in Successors(at)
  /\ phase' = "exit"
  /\ UNCHANGED at

\* The exit branch goes where the body decided.
Branch ==
  /\ phase = "exit"
  /\ at' = want
  /\ phase' = "body"
  /\ UNCHANGED want

AppNext == Body \/ Branch

AppSpec == AppInit /\ [][AppNext]_appVars
=============================================================================
