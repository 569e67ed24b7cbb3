------------------------------ MODULE MCSignals ------------------------------
(* One thread, three fragments that end in the three kinds of exit, and two  *)
(* signals, one below and one above 32, besides a synchronous one.           *)
EXTENDS Signals

\* B.LT and CBZ of a 64-bit register, with values for which they go either way.
MCBranches == {[kind |-> "cond", code |-> 11], [kind |-> "cbz", sf |-> 1, nz |-> FALSE]}
MCValues == {[flags |-> {"N"}, bits |-> {}], [flags |-> {"N", "V"}, bits |-> {1}]}

\* The masks that sigaction() may give a handler.
MCMasks == {{}, {10}}
=============================================================================
