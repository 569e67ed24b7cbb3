---------------------------- MODULE MCThreadExit ----------------------------
(***************************************************************************)
(* Small instances of ThreadExit: what the threads of the program do.      *)
(***************************************************************************)
EXTENDS ThreadExit, TLC

CONSTANTS t1, t2, t3

\* One thread ends the process; the others create threads, compute, and make
\* system calls, which may block.
SyscallCalls ==
  (t1 :> {"clone", "exit_group"}) @@ (t2 :> {"emulated", "clone"}) @@ (t3 :> {"plain"})

\* The others end, too, or end the process themselves.
ExitCalls ==
  (t1 :> {"clone", "exit_group"}) @@ (t2 :> {"plain", "exit"})
  @@ (t3 :> {"exit", "exit_group"})

\* One other thread, which ends.
OneExitCalls == (t1 :> {"clone", "exit_group"}) @@ (t2 :> {"exit"})

\* One other thread, which makes system calls.
OneSyscallCalls == (t1 :> {"clone", "exit_group"}) @@ (t2 :> {"plain"})
=============================================================================
