----------------------------- MODULE ThreadExit -----------------------------
(***************************************************************************)
(* Threads: the list of threads, clone(), exit() and exit_group() (dbm.c,  *)
(* syscalls.c), and how the signal of dbm_exit() stops the other threads   *)
(* (signals.c), with PLUGINS_NEW, on AArch64.                              *)
(*                                                                         *)
(* pc says where a thread is:                                              *)
(*   "unborn"    not created yet                                           *)
(*   "start"     in dbm_start_thread_pth(), before it releases its parent  *)
(*   "register"  in register_thread(), asking for the lock                 *)
(*   "entering"  about to enter the code cache, no test for signals ahead  *)
(*   "code"      in the code cache, before the exit of a fragment          *)
(*   "branch"    in the code cache, at the exit of a fragment              *)
(*   "mambo"     in MAMBO, before the test in checked_cc_return()          *)
(*   "pre"       in syscall_handler_pre()                                  *)
(*   "cloning"   there, until the new thread releases it                   *)
(*   "exiting"   in unregister_thread(), asking for the lock               *)
(*   "freeing"   unregistered                                              *)
(*   "svc"       in the kernel                                             *)
(*   "post"      in syscall_handler_post()                                 *)
(*   "resume"    there, after exit_group was found to be zero              *)
(*   "ended"     it has left                                               *)
(*   "group"     in dbm_exit(), asking for the lock                        *)
(*   "kill", "check", "callbacks"  in the three loops of dbm_exit()        *)
(*                                                                         *)
(* The two critical sections other than the one of dbm_exit() are one step *)
(* each: nothing they touch is used without the lock.  The list is the set *)
(* of its members, and the loops over it visit them in any order.          *)
(***************************************************************************)
EXTENDS Integers, FiniteSets

CONSTANTS
  Threads,  \* all threads that are ever created
  Main,     \* the first
  NULL,     \* no thread
  Calls     \* the system calls that each thread makes

SyscallKinds == {"plain", "emulated", "clone", "exit", "exit_group"}

ASSUME ThreadAssumption ==
  /\ Main \in Threads
  /\ NULL \notin Threads
  /\ Calls \in [Threads -> SUBSET SyscallKinds]

VARIABLES
  threads,     \* global_data.threads
  mutex,       \* owner of global_data.thread_list_mutex
  exit_group,  \* global_data.exit_group
  status,      \* thread_data->status
  pc,
  set_tid,     \* for a thread in "cloning": the thread it waits for
  pending,     \* threads with is_signal_pending set
  unlinked,    \* threads that are in a fragment with a trap at its exit
  sig,         \* threads with an UNLINK_SIGNAL on its way
  freed,       \* threads whose thread_data is unmapped
  pre,         \* how often the PRE_THREAD callbacks ran for a thread
  post,        \* how often the POST_THREAD callbacks did
  todo,        \* dbm_exit(): threads that the present loop has to visit
  done,        \* dbm_exit(): its local variable
  exited       \* the process has exited

listVars == <<threads, mutex, freed, pre>>
exitVars == <<exit_group, post, todo, done, exited>>
sigVars == <<pending, unlinked, sig>>
vars == <<listVars, exitVars, sigVars, status, pc, set_tid>>

PCs == {"unborn", "start", "register", "entering", "code", "branch", "mambo",
        "pre", "cloning", "exiting", "freeing", "svc", "post", "resume", "ended",
        "group", "kill", "check", "callbacks"}

Init ==
  /\ threads = {Main}
  /\ mutex = NULL
  /\ exit_group = FALSE
  /\ status = [t \in Threads |-> "THREAD_RUNNING"]
  /\ pc = [t \in Threads |-> IF t = Main THEN "code" ELSE "unborn"]
  /\ set_tid = [t \in Threads |-> NULL]
  /\ pending = {} /\ unlinked = {} /\ sig = {}
  /\ freed = {}
  /\ pre = [t \in Threads |-> IF t = Main THEN 1 ELSE 0]
  /\ post = [t \in Threads |-> 0]
  /\ todo = {} /\ done = FALSE /\ exited = FALSE

At(t, p) == ~ exited /\ pc[t] = p
Go(t, p) == pc' = [pc EXCEPT ![t] = p]

ThreadAbort(t) ==
  /\ status' = [status EXCEPT ![t] = "THREAD_EXIT"]
  /\ Go(t, "ended")
-----------------------------------------------------------------------------
(* Execution in the code cache. *)

\* A fragment runs to its exit, or makes a system call.
RunCode(t) ==
  /\ At(t, "code")
  /\ Go(t, "branch") \/ (Calls[t] # {} /\ Go(t, "pre"))
  /\ UNCHANGED <<listVars, exitVars, sigVars, status, set_tid>>

\* The exit of a fragment goes to the dispatcher or, if it is linked, to another
\* fragment.  unlink_fragment() has put a trap in the place of the links, which
\* raises a signal, whose handler ends the thread.
TakeBranch(t) ==
  /\ At(t, "branch")
  /\ \/ Go(t, "mambo") /\ UNCHANGED status
     \/ IF t \in unlinked THEN ThreadAbort(t) ELSE Go(t, "code") /\ UNCHANGED status
  /\ UNCHANGED <<listVars, exitVars, sigVars, set_tid>>

\* checked_cc_return() and deliver_signals().  The signals of the application are
\* left out, so that a pending signal is always that of dbm_exit().
CheckedCcReturn(t) ==
  /\ At(t, "mambo")
  /\ IF t \in pending /\ exit_group THEN ThreadAbort(t)
     ELSE Go(t, "entering") /\ UNCHANGED status
  /\ UNCHANGED <<listVars, exitVars, sigVars, set_tid>>

\* signal_dispatcher() during dbm_exit().
SignalDispatcher(t) ==
  /\ ~ exited
  /\ pc[t] # "ended"
  /\ t \in sig
  /\ sig' = sig \ {t}
  /\ IF pc[t] = "branch"
     THEN ThreadAbort(t) /\ UNCHANGED <<pending, unlinked>>
     ELSE /\ pending' = pending \cup {t}
          /\ unlinked' = IF pc[t] = "code" THEN unlinked \cup {t} ELSE unlinked
          /\ UNCHANGED <<status, pc>>
  /\ UNCHANGED <<listVars, exitVars, set_tid>>
-----------------------------------------------------------------------------
(* System calls. *)

\* syscall_handler_pre() for a call that the kernel executes.
PlainSyscall(t) ==
  /\ At(t, "pre")
  /\ "plain" \in Calls[t]
  /\ status' = [status EXCEPT ![t] = "THREAD_SYSCALL"]
  /\ Go(t, "svc")
  /\ UNCHANGED <<listVars, exitVars, sigVars, set_tid>>

\* ... for a call that MAMBO executes itself, as brk().
EmulatedSyscall(t) ==
  /\ At(t, "pre")
  /\ "emulated" \in Calls[t]
  /\ Go(t, "mambo")
  /\ UNCHANGED <<listVars, exitVars, sigVars, status, set_tid>>

\* ... for clone() of a thread: dbm_create_thread().
CreateThread(t) ==
  /\ At(t, "pre")
  /\ "clone" \in Calls[t]
  /\ \E c \in Threads :
       /\ pc[c] = "unborn"
       /\ pc' = [pc EXCEPT ![t] = "cloning", ![c] = "start"]
       /\ set_tid' = [set_tid EXCEPT ![t] = c]
  /\ UNCHANGED <<listVars, exitVars, sigVars, status>>

\* The bound on the number of threads: a call that exceeds it is not made.
CloneBound(t) ==
  /\ At(t, "pre")
  /\ "clone" \in Calls[t]
  /\ \A c \in Threads : pc[c] # "unborn"
  /\ Go(t, "mambo")
  /\ UNCHANGED <<listVars, exitVars, sigVars, status, set_tid>>

\* (Variant: the parent does not wait.)
CloneReturnEarly(t) ==
  /\ At(t, "cloning")
  /\ Go(t, "mambo")
  /\ UNCHANGED <<listVars, exitVars, sigVars, status, set_tid>>

\* The parent's loop until child_tid is set.
CloneReturn(t) ==
  /\ At(t, "cloning")
  /\ set_tid[t] = NULL
  /\ Go(t, "mambo")
  /\ UNCHANGED <<listVars, exitVars, sigVars, status, set_tid>>

\* ... for exit() and for exit_group().
CallExit(t) ==
  /\ At(t, "pre")
  /\ \/ "exit" \in Calls[t] /\ Go(t, "exiting")
     \/ "exit_group" \in Calls[t] /\ Go(t, "group")
  /\ UNCHANGED <<listVars, exitVars, sigVars, status, set_tid>>

\* The kernel returns, sooner or later or never.
KernelReturn(t) ==
  /\ At(t, "svc")
  /\ Go(t, "post")
  /\ UNCHANGED <<listVars, exitVars, sigVars, status, set_tid>>

\* syscall_handler_post() up to the test of exit_group, and from there on.
PostCheck(t) ==
  /\ At(t, "post")
  /\ IF exit_group THEN ThreadAbort(t)
     ELSE Go(t, "resume") /\ UNCHANGED status
  /\ UNCHANGED <<listVars, exitVars, sigVars, set_tid>>

PostResume(t) ==
  /\ At(t, "resume")
  /\ status' = [status EXCEPT ![t] = "THREAD_RUNNING"]
  /\ Go(t, "mambo")
  /\ UNCHANGED <<listVars, exitVars, sigVars, set_tid>>
-----------------------------------------------------------------------------
(* The list of threads. *)

\* (Variant: the parent is released after the registration.)
StartThreadRegistered(c) ==
  /\ At(c, "start")
  /\ mutex = NULL
  /\ threads' = threads \cup {c}
  /\ pre' = [pre EXCEPT ![c] = @ + 1]
  /\ set_tid' = [t \in Threads |-> IF set_tid[t] = c THEN NULL ELSE set_tid[t]]
  /\ Go(c, "entering")
  /\ UNCHANGED <<mutex, freed, exitVars, sigVars, status>>

\* dbm_start_thread_pth() up to the store that releases the parent.
StartThread(c) ==
  /\ At(c, "start")
  /\ set_tid' = [t \in Threads |-> IF set_tid[t] = c THEN NULL ELSE set_tid[t]]
  /\ Go(c, "register")
  /\ UNCHANGED <<listVars, exitVars, sigVars, status>>

RegisterThread(c) ==
  /\ At(c, "register")
  /\ mutex = NULL
  /\ threads' = threads \cup {c}
  /\ pre' = [pre EXCEPT ![c] = @ + 1]
  /\ Go(c, "entering")
  /\ UNCHANGED <<mutex, freed, exitVars, sigVars, status, set_tid>>

\* scan() and th_enter(), which does not look for pending signals; or the jump
\* that ends checked_cc_return().
EnterCc(c) ==
  /\ At(c, "entering")
  /\ Go(c, "code")
  /\ UNCHANGED <<listVars, exitVars, sigVars, status, set_tid>>

\* (Variant: without the lock.)
UnregisterThreadUnlocked(t) ==
  /\ At(t, "exiting")
  /\ threads' = threads \ {t}
  /\ post' = [post EXCEPT ![t] = @ + 1]
  /\ Go(t, "freeing")
  /\ UNCHANGED <<mutex, freed, pre, exit_group, todo, done, exited, sigVars, status, set_tid>>

UnregisterThread(t) ==
  /\ At(t, "exiting")
  /\ mutex = NULL
  /\ threads' = threads \ {t}
  /\ post' = [post EXCEPT ![t] = @ + 1]
  /\ Go(t, "freeing")
  /\ UNCHANGED <<mutex, freed, pre, exit_group, todo, done, exited, sigVars, status, set_tid>>

\* free_thread_data() and the system call.
FreeThreadData(t) ==
  /\ At(t, "freeing")
  /\ freed' = freed \cup {t}
  /\ Go(t, "ended")
  /\ UNCHANGED <<threads, mutex, pre, exitVars, sigVars, status, set_tid>>
-----------------------------------------------------------------------------
(* dbm_exit(). *)

\* (Variant: without the lock.)
DbmExitUnlocked(t) ==
  /\ At(t, "group")
  /\ mutex' = t
  /\ exit_group' = TRUE
  /\ todo' = threads \ {t}
  /\ Go(t, "kill")
  /\ UNCHANGED <<threads, freed, pre, post, done, exited, sigVars, status, set_tid>>

DbmExit(t) ==
  /\ At(t, "group")
  /\ mutex = NULL
  /\ mutex' = t
  /\ exit_group' = TRUE
  /\ todo' = threads \ {t}
  /\ Go(t, "kill")
  /\ UNCHANGED <<threads, freed, pre, post, done, exited, sigVars, status, set_tid>>

\* One thread of the first loop.
Tgkill(t) ==
  /\ At(t, "kill")
  /\ \E u \in todo :
       /\ todo' = todo \ {u}
       /\ sig' = IF status[u] = "THREAD_RUNNING" THEN sig \cup {u} ELSE sig
  /\ UNCHANGED <<listVars, exit_group, post, done, exited, pending, unlinked, status, pc, set_tid>>

\* After usleep(): the second loop begins.
BeginCheck(t) ==
  /\ At(t, "kill")
  /\ todo = {}
  /\ todo' = threads \ {t}
  /\ done' = TRUE
  /\ Go(t, "check")
  /\ UNCHANGED <<listVars, exit_group, post, exited, sigVars, status, set_tid>>

\* One thread of the second loop.
CheckStatus(t) ==
  /\ At(t, "check")
  /\ \E u \in todo :
       /\ todo' = todo \ {u}
       /\ done' = (done /\ status[u] # "THREAD_RUNNING")
  /\ UNCHANGED <<listVars, exit_group, post, exited, sigVars, status, pc, set_tid>>

\* (Variant: the signals are sent only once.)
EndCheckNoRetry(t) ==
  /\ At(t, "check")
  /\ todo = {}
  /\ IF done THEN Go(t, "callbacks") /\ todo' = threads
     ELSE Go(t, "kill") /\ todo' = {}
  /\ UNCHANGED <<listVars, exit_group, post, done, exited, sigVars, status, set_tid>>

\* while (!done)
EndCheck(t) ==
  /\ At(t, "check")
  /\ todo = {}
  /\ IF done THEN Go(t, "callbacks") /\ todo' = threads
     ELSE Go(t, "kill") /\ todo' = threads \ {t}
  /\ UNCHANGED <<listVars, exit_group, post, done, exited, sigVars, status, set_tid>>

\* One thread of the third loop.
PostThreadCallback(t) ==
  /\ At(t, "callbacks")
  /\ \E u \in todo :
       /\ todo' = todo \ {u}
       /\ post' = [post EXCEPT ![u] = @ + 1]
  /\ UNCHANGED <<listVars, exit_group, done, exited, sigVars, status, pc, set_tid>>

\* The EXIT callbacks and exit().
ExitProcess(t) ==
  /\ At(t, "callbacks")
  /\ todo = {}
  /\ exited' = TRUE
  /\ UNCHANGED <<listVars, exit_group, post, todo, done, sigVars, status, pc, set_tid>>
-----------------------------------------------------------------------------
\* What a thread does of its own accord.
Step(t) ==
  \/ RunCode(t) \/ TakeBranch(t) \/ CheckedCcReturn(t)
  \/ PlainSyscall(t) \/ EmulatedSyscall(t) \/ CreateThread(t) \/ CloneBound(t)
  \/ CloneReturn(t) \/ CallExit(t) \/ PostCheck(t) \/ PostResume(t)
  \/ StartThread(t) \/ RegisterThread(t) \/ EnterCc(t)
  \/ UnregisterThread(t) \/ FreeThreadData(t)
  \/ DbmExit(t) \/ Tgkill(t) \/ BeginCheck(t) \/ CheckStatus(t) \/ EndCheck(t)
  \/ PostThreadCallback(t) \/ ExitProcess(t)

Next == \E t \in Threads : Step(t) \/ SignalDispatcher(t) \/ KernelReturn(t)

Spec == Init /\ [][Next]_vars

\* Every thread is scheduled and signals arrive; a system call may block for ever.
FairSpec ==
  Spec /\ \A t \in Threads : WF_vars(Step(t)) /\ WF_vars(SignalDispatcher(t))
-----------------------------------------------------------------------------
InDbmExit == {"kill", "check", "callbacks"}

\* The variables have their types, and the lock is held exactly by the thread
\* that is in a loop of dbm_exit().
TypeOK ==
  /\ threads \subseteq Threads /\ freed \subseteq Threads /\ todo \subseteq Threads
  /\ pending \subseteq Threads /\ unlinked \subseteq Threads /\ sig \subseteq Threads
  /\ mutex \in Threads \cup {NULL}
  /\ exit_group \in BOOLEAN /\ done \in BOOLEAN /\ exited \in BOOLEAN
  /\ status \in [Threads -> {"THREAD_RUNNING", "THREAD_SYSCALL", "THREAD_EXIT"}]
  /\ pc \in [Threads -> PCs]
  /\ set_tid \in [Threads -> Threads \cup {NULL}]
  /\ pre \in [Threads -> Nat] /\ post \in [Threads -> Nat]
  /\ \A t \in Threads : mutex = t <=> pc[t] \in InDbmExit

\* A new thread copies its parent's registers and arguments from the parent's
\* stack while the parent waits for it in syscall_handler_pre().
ParentWaits ==
  \A c \in Threads :
    pc[c] = "start" => \E t \in Threads : pc[t] = "cloning" /\ set_tid[t] = c

\* Neither dbm_exit(), which walks the list, nor the handler of its signal uses
\* the data of a thread that has freed it on exit().
NoUseAfterFree == (threads \cup todo \cup sig) \cap freed = {}

\* The PRE_THREAD and POST_THREAD callbacks run at most once for a thread, the
\* second only after the first, whichever way the thread ends.
CallbacksOnce == \A t \in Threads : post[t] <= pre[t] /\ pre[t] <= 1

\* While a thread executes code of the application, its PRE_THREAD callback has
\* run and its POST_THREAD callback has not: dbm_exit() has stopped all threads
\* when it calls back, and a new thread has registered when it begins.
CallbacksBracket ==
  \A t \in Threads : pc[t] \in {"code", "branch"} => pre[t] = 1 /\ post[t] = 0

\* exit_group() ends the process: dbm_exit() gets the lock and stops all threads.
ExitCompletes == \A t \in Threads : pc[t] = "group" ~> exited

\* clone() returns in the parent, even if dbm_exit() has the lock for good.
CloneReturns == \A t \in Threads : pc[t] = "cloning" ~> (pc[t] # "cloning" \/ exited)
=============================================================================
