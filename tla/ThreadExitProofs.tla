-------------------------- MODULE ThreadExitProofs --------------------------
(***************************************************************************)
(* Proofs about threads: creation, exit() and exit_group() (ThreadExit), for*)
(* any number of threads and whatever system calls they make, and the list of*)
(* threads with a fork (Fork), for any set of threads.                     *)
(***************************************************************************)
EXTENDS ThreadExit, Fork, TLAPS

\* dbm_exit() is in its last loop.
CallingBack == mutex # NULL /\ pc[mutex] = "callbacks"

\* dbm_exit() keeps the lock for good: as long as nobody holds it, no loop has
\* begun and no signal has been sent.
LockInv ==
  /\ mutex = NULL => todo = {} /\ sig = {}
  /\ todo \subseteq threads
  /\ sig \subseteq threads

Unregistered == {"unborn", "start", "register"}

\* Where a thread is says whether it is in the list; one that has ended is still
\* there if dbm_exit() has stopped it, and is freed if it has called exit().
MemberInv ==
  \A t \in Threads :
    /\ pre[t] = IF pc[t] \in Unregistered THEN 0 ELSE 1
    /\ t \in threads => pc[t] \notin Unregistered \cup {"freeing"} /\ t \notin freed
    /\ t \notin threads => pc[t] \in Unregistered \cup {"freeing", "ended"}
    /\ t \in freed => pc[t] = "ended"

\* The POST_THREAD callbacks have run for the threads that have left the list,
\* and for those that the last loop of dbm_exit() has visited.
PostInv ==
  \A t \in Threads :
    post[t] = IF t \notin threads THEN pre[t]
              ELSE IF CallingBack /\ t \notin todo THEN 1 ELSE 0

IInv == TypeOK /\ LockInv /\ MemberInv /\ PostInv

\* No thread makes a system call that the kernel executes.
NoPlain == \A t \in Threads : "plain" \notin Calls[t]

\* Then a thread whose status is not THREAD_RUNNING has ended, and so have all
\* threads that the second loop of dbm_exit() has visited with done still set.
StopInv ==
  /\ \A t \in Threads :
       /\ pc[t] \notin {"svc", "post", "resume"}
       /\ status[t] # "THREAD_RUNNING" => pc[t] = "ended"
  /\ mutex # NULL /\ pc[mutex] = "check" /\ done =>
       \A t \in (threads \ todo) \ {mutex} : pc[t] = "ended"
  /\ CallingBack => \A t \in threads \ {mutex} : pc[t] = "ended"

\* A step of the thread t, of its signal handler or of its system call.
StepOrSignal(t) == Step(t) \/ SignalDispatcher(t) \/ KernelReturn(t)
-----------------------------------------------------------------------------
\* Every step preserves the type invariant.
LEMMA TypeOKStep ==
  ASSUME TypeOK, NEW t \in Threads, StepOrSignal(t)
  PROVE  TypeOK'
<1>1. CASE RunCode(t)
  BY <1>1, ThreadAssumption DEF RunCode, At, Go, TypeOK, InDbmExit, PCs, listVars,
    exitVars, sigVars
<1>2. CASE TakeBranch(t)
  BY <1>2, ThreadAssumption DEF TakeBranch, At, ThreadAbort, Go, TypeOK, InDbmExit,
    PCs, listVars, exitVars, sigVars
<1>3. CASE CheckedCcReturn(t)
  BY <1>3, ThreadAssumption DEF CheckedCcReturn, At, ThreadAbort, Go, TypeOK,
    InDbmExit, PCs, listVars, exitVars, sigVars
<1>4. CASE SignalDispatcher(t)
  BY <1>4, ThreadAssumption DEF SignalDispatcher, At, ThreadAbort, Go, TypeOK,
    InDbmExit, PCs, listVars, exitVars, sigVars
<1>5. CASE PlainSyscall(t)
  BY <1>5, ThreadAssumption DEF PlainSyscall, At, Go, TypeOK, InDbmExit, PCs,
    listVars, exitVars, sigVars
<1>6. CASE EmulatedSyscall(t)
  BY <1>6, ThreadAssumption DEF EmulatedSyscall, At, Go, TypeOK, InDbmExit, PCs,
    listVars, exitVars, sigVars
<1>7. CASE CreateThread(t)
  BY <1>7, ThreadAssumption DEF CreateThread, At, TypeOK, InDbmExit, PCs, listVars,
    exitVars, sigVars
<1>8. CASE CloneBound(t)
  BY <1>8, ThreadAssumption DEF CloneBound, At, Go, TypeOK, InDbmExit, PCs, listVars,
    exitVars, sigVars
<1>9. CASE CloneReturn(t)
  BY <1>9, ThreadAssumption DEF CloneReturn, At, Go, TypeOK, InDbmExit, PCs,
    listVars, exitVars, sigVars
<1>10. CASE CallExit(t)
  BY <1>10, ThreadAssumption DEF CallExit, At, Go, TypeOK, InDbmExit, PCs, listVars,
    exitVars, sigVars
<1>11. CASE KernelReturn(t)
  BY <1>11, ThreadAssumption DEF KernelReturn, At, Go, TypeOK, InDbmExit, PCs,
    listVars, exitVars, sigVars
<1>12. CASE PostCheck(t)
  BY <1>12, ThreadAssumption DEF PostCheck, At, ThreadAbort, Go, TypeOK, InDbmExit,
    PCs, listVars, exitVars, sigVars
<1>13. CASE PostResume(t)
  BY <1>13, ThreadAssumption DEF PostResume, At, Go, TypeOK, InDbmExit, PCs,
    listVars, exitVars, sigVars
<1>14. CASE StartThread(t)
  BY <1>14, ThreadAssumption DEF StartThread, At, Go, TypeOK, InDbmExit, PCs,
    listVars, exitVars, sigVars
<1>15. CASE RegisterThread(t)
  BY <1>15, ThreadAssumption DEF RegisterThread, At, Go, TypeOK, InDbmExit, PCs,
    listVars, exitVars, sigVars
<1>16. CASE EnterCc(t)
  BY <1>16, ThreadAssumption DEF EnterCc, At, Go, TypeOK, InDbmExit, PCs, listVars,
    exitVars, sigVars
<1>17. CASE UnregisterThread(t)
  BY <1>17, ThreadAssumption DEF UnregisterThread, At, Go, TypeOK, InDbmExit, PCs,
    listVars, exitVars, sigVars
<1>18. CASE FreeThreadData(t)
  BY <1>18, ThreadAssumption DEF FreeThreadData, At, Go, TypeOK, InDbmExit, PCs,
    listVars, exitVars, sigVars
<1>19. CASE DbmExit(t)
  BY <1>19, ThreadAssumption DEF DbmExit, At, Go, TypeOK, InDbmExit, PCs, listVars,
    exitVars, sigVars
<1>20. CASE Tgkill(t)
  BY <1>20, ThreadAssumption DEF Tgkill, At, TypeOK, InDbmExit, PCs, listVars,
    exitVars, sigVars
<1>21. CASE BeginCheck(t)
  BY <1>21, ThreadAssumption DEF BeginCheck, At, Go, TypeOK, InDbmExit, PCs,
    listVars, exitVars, sigVars
<1>22. CASE CheckStatus(t)
  BY <1>22, ThreadAssumption DEF CheckStatus, At, TypeOK, InDbmExit, PCs, listVars,
    exitVars, sigVars
<1>23. CASE EndCheck(t)
  BY <1>23, ThreadAssumption DEF EndCheck, At, Go, TypeOK, InDbmExit, PCs, listVars,
    exitVars, sigVars
<1>24. CASE PostThreadCallback(t)
  BY <1>24, ThreadAssumption DEF PostThreadCallback, At, TypeOK, InDbmExit, PCs,
    listVars, exitVars, sigVars
<1>25. CASE ExitProcess(t)
  BY <1>25, ThreadAssumption DEF ExitProcess, At, TypeOK, InDbmExit, PCs, listVars,
    exitVars, sigVars
<1> QED
  BY <1>1, <1>2, <1>3, <1>4, <1>5, <1>6, <1>7, <1>8, <1>9, <1>10, <1>11, <1>12,
    <1>13, <1>14, <1>15, <1>16, <1>17, <1>18, <1>19, <1>20, <1>21, <1>22, <1>23,
    <1>24, <1>25 DEF StepOrSignal, Step

\* Every step preserves LockInv.
LEMMA LockStep ==
  ASSUME TypeOK, LockInv, MemberInv, NEW t \in Threads, StepOrSignal(t)
  PROVE  LockInv'
<1>1. CASE RunCode(t)
  BY <1>1, ThreadAssumption DEF RunCode, At, Go, TypeOK, LockInv, MemberInv,
    Unregistered, InDbmExit, listVars, exitVars, sigVars
<1>2. CASE TakeBranch(t)
  BY <1>2, ThreadAssumption DEF TakeBranch, At, ThreadAbort, Go, TypeOK, LockInv,
    MemberInv, Unregistered, InDbmExit, listVars, exitVars, sigVars
<1>3. CASE CheckedCcReturn(t)
  BY <1>3, ThreadAssumption DEF CheckedCcReturn, At, ThreadAbort, Go, TypeOK,
    LockInv, MemberInv, Unregistered, InDbmExit, listVars, exitVars, sigVars
<1>4. CASE SignalDispatcher(t)
  BY <1>4, ThreadAssumption DEF SignalDispatcher, At, ThreadAbort, Go, TypeOK,
    LockInv, MemberInv, Unregistered, InDbmExit, listVars, exitVars, sigVars
<1>5. CASE PlainSyscall(t)
  BY <1>5, ThreadAssumption DEF PlainSyscall, At, Go, TypeOK, LockInv, MemberInv,
    Unregistered, InDbmExit, listVars, exitVars, sigVars
<1>6. CASE EmulatedSyscall(t)
  BY <1>6, ThreadAssumption DEF EmulatedSyscall, At, Go, TypeOK, LockInv, MemberInv,
    Unregistered, InDbmExit, listVars, exitVars, sigVars
<1>7. CASE CreateThread(t)
  BY <1>7, ThreadAssumption DEF CreateThread, At, TypeOK, LockInv, MemberInv,
    Unregistered, InDbmExit, listVars, exitVars, sigVars
<1>8. CASE CloneBound(t)
  BY <1>8, ThreadAssumption DEF CloneBound, At, Go, TypeOK, LockInv, MemberInv,
    Unregistered, InDbmExit, listVars, exitVars, sigVars
<1>9. CASE CloneReturn(t)
  BY <1>9, ThreadAssumption DEF CloneReturn, At, Go, TypeOK, LockInv, MemberInv,
    Unregistered, InDbmExit, listVars, exitVars, sigVars
<1>10. CASE CallExit(t)
  BY <1>10, ThreadAssumption DEF CallExit, At, Go, TypeOK, LockInv, MemberInv,
    Unregistered, InDbmExit, listVars, exitVars, sigVars
<1>11. CASE KernelReturn(t)
  BY <1>11, ThreadAssumption DEF KernelReturn, At, Go, TypeOK, LockInv, MemberInv,
    Unregistered, InDbmExit, listVars, exitVars, sigVars
<1>12. CASE PostCheck(t)
  BY <1>12, ThreadAssumption DEF PostCheck, At, ThreadAbort, Go, TypeOK, LockInv,
    MemberInv, Unregistered, InDbmExit, listVars, exitVars, sigVars
<1>13. CASE PostResume(t)
  BY <1>13, ThreadAssumption DEF PostResume, At, Go, TypeOK, LockInv, MemberInv,
    Unregistered, InDbmExit, listVars, exitVars, sigVars
<1>14. CASE StartThread(t)
  BY <1>14, ThreadAssumption DEF StartThread, At, Go, TypeOK, LockInv, MemberInv,
    Unregistered, InDbmExit, listVars, exitVars, sigVars
<1>15. CASE RegisterThread(t)
  BY <1>15, ThreadAssumption DEF RegisterThread, At, Go, TypeOK, LockInv, MemberInv,
    Unregistered, InDbmExit, listVars, exitVars, sigVars
<1>16. CASE EnterCc(t)
  BY <1>16, ThreadAssumption DEF EnterCc, At, Go, TypeOK, LockInv, MemberInv,
    Unregistered, InDbmExit, listVars, exitVars, sigVars
<1>17. CASE UnregisterThread(t)
  BY <1>17, ThreadAssumption DEF UnregisterThread, At, Go, TypeOK, LockInv,
    MemberInv, Unregistered, InDbmExit, listVars, exitVars, sigVars
<1>18. CASE FreeThreadData(t)
  BY <1>18, ThreadAssumption DEF FreeThreadData, At, Go, TypeOK, LockInv, MemberInv,
    Unregistered, InDbmExit, listVars, exitVars, sigVars
<1>19. CASE DbmExit(t)
  BY <1>19, ThreadAssumption DEF DbmExit, At, Go, TypeOK, LockInv, MemberInv,
    Unregistered, InDbmExit, listVars, exitVars, sigVars
<1>20. CASE Tgkill(t)
  BY <1>20, ThreadAssumption DEF Tgkill, At, TypeOK, LockInv, MemberInv,
    Unregistered, InDbmExit, listVars, exitVars, sigVars
<1>21. CASE BeginCheck(t)
  BY <1>21, ThreadAssumption DEF BeginCheck, At, Go, TypeOK, LockInv, MemberInv,
    Unregistered, InDbmExit, listVars, exitVars, sigVars
<1>22. CASE CheckStatus(t)
  BY <1>22, ThreadAssumption DEF CheckStatus, At, TypeOK, LockInv, MemberInv,
    Unregistered, InDbmExit, listVars, exitVars, sigVars
<1>23. CASE EndCheck(t)
  BY <1>23, ThreadAssumption DEF EndCheck, At, Go, TypeOK, LockInv, MemberInv,
    Unregistered, InDbmExit, listVars, exitVars, sigVars
<1>24. CASE PostThreadCallback(t)
  BY <1>24, ThreadAssumption DEF PostThreadCallback, At, TypeOK, LockInv, MemberInv,
    Unregistered, InDbmExit, listVars, exitVars, sigVars
<1>25. CASE ExitProcess(t)
  BY <1>25, ThreadAssumption DEF ExitProcess, At, TypeOK, LockInv, MemberInv,
    Unregistered, InDbmExit, listVars, exitVars, sigVars
<1> QED
  BY <1>1, <1>2, <1>3, <1>4, <1>5, <1>6, <1>7, <1>8, <1>9, <1>10, <1>11, <1>12,
    <1>13, <1>14, <1>15, <1>16, <1>17, <1>18, <1>19, <1>20, <1>21, <1>22, <1>23,
    <1>24, <1>25 DEF StepOrSignal, Step

\* Every step preserves MemberInv.
LEMMA MemberStep ==
  ASSUME TypeOK, LockInv, MemberInv, NEW t \in Threads, StepOrSignal(t)
  PROVE  MemberInv'
<1>1. CASE RunCode(t)
  BY <1>1, ThreadAssumption DEF RunCode, At, Go, TypeOK, LockInv, MemberInv,
    Unregistered, InDbmExit, listVars, exitVars, sigVars
<1>2. CASE TakeBranch(t)
  BY <1>2, ThreadAssumption DEF TakeBranch, At, ThreadAbort, Go, TypeOK, LockInv,
    MemberInv, Unregistered, InDbmExit, listVars, exitVars, sigVars
<1>3. CASE CheckedCcReturn(t)
  BY <1>3, ThreadAssumption DEF CheckedCcReturn, At, ThreadAbort, Go, TypeOK,
    LockInv, MemberInv, Unregistered, InDbmExit, listVars, exitVars, sigVars
<1>4. CASE SignalDispatcher(t)
  BY <1>4, ThreadAssumption DEF SignalDispatcher, At, ThreadAbort, Go, TypeOK,
    LockInv, MemberInv, Unregistered, InDbmExit, listVars, exitVars, sigVars
<1>5. CASE PlainSyscall(t)
  BY <1>5, ThreadAssumption DEF PlainSyscall, At, Go, TypeOK, LockInv, MemberInv,
    Unregistered, InDbmExit, listVars, exitVars, sigVars
<1>6. CASE EmulatedSyscall(t)
  BY <1>6, ThreadAssumption DEF EmulatedSyscall, At, Go, TypeOK, LockInv, MemberInv,
    Unregistered, InDbmExit, listVars, exitVars, sigVars
<1>7. CASE CreateThread(t)
  BY <1>7, ThreadAssumption DEF CreateThread, At, TypeOK, LockInv, MemberInv,
    Unregistered, InDbmExit, listVars, exitVars, sigVars
<1>8. CASE CloneBound(t)
  BY <1>8, ThreadAssumption DEF CloneBound, At, Go, TypeOK, LockInv, MemberInv,
    Unregistered, InDbmExit, listVars, exitVars, sigVars
<1>9. CASE CloneReturn(t)
  BY <1>9, ThreadAssumption DEF CloneReturn, At, Go, TypeOK, LockInv, MemberInv,
    Unregistered, InDbmExit, listVars, exitVars, sigVars
<1>10. CASE CallExit(t)
  BY <1>10, ThreadAssumption DEF CallExit, At, Go, TypeOK, LockInv, MemberInv,
    Unregistered, InDbmExit, listVars, exitVars, sigVars
<1>11. CASE KernelReturn(t)
  BY <1>11, ThreadAssumption DEF KernelReturn, At, Go, TypeOK, LockInv, MemberInv,
    Unregistered, InDbmExit, listVars, exitVars, sigVars
<1>12. CASE PostCheck(t)
  BY <1>12, ThreadAssumption DEF PostCheck, At, ThreadAbort, Go, TypeOK, LockInv,
    MemberInv, Unregistered, InDbmExit, listVars, exitVars, sigVars
<1>13. CASE PostResume(t)
  BY <1>13, ThreadAssumption DEF PostResume, At, Go, TypeOK, LockInv, MemberInv,
    Unregistered, InDbmExit, listVars, exitVars, sigVars
<1>14. CASE StartThread(t)
  BY <1>14, ThreadAssumption DEF StartThread, At, Go, TypeOK, LockInv, MemberInv,
    Unregistered, InDbmExit, listVars, exitVars, sigVars
<1>15. CASE RegisterThread(t)
  BY <1>15, ThreadAssumption DEF RegisterThread, At, Go, TypeOK, LockInv, MemberInv,
    Unregistered, InDbmExit, listVars, exitVars, sigVars
<1>16. CASE EnterCc(t)
  BY <1>16, ThreadAssumption DEF EnterCc, At, Go, TypeOK, LockInv, MemberInv,
    Unregistered, InDbmExit, listVars, exitVars, sigVars
<1>17. CASE UnregisterThread(t)
  BY <1>17, ThreadAssumption DEF UnregisterThread, At, Go, TypeOK, LockInv,
    MemberInv, Unregistered, InDbmExit, listVars, exitVars, sigVars
<1>18. CASE FreeThreadData(t)
  BY <1>18, ThreadAssumption DEF FreeThreadData, At, Go, TypeOK, LockInv, MemberInv,
    Unregistered, InDbmExit, listVars, exitVars, sigVars
<1>19. CASE DbmExit(t)
  BY <1>19, ThreadAssumption DEF DbmExit, At, Go, TypeOK, LockInv, MemberInv,
    Unregistered, InDbmExit, listVars, exitVars, sigVars
<1>20. CASE Tgkill(t)
  BY <1>20, ThreadAssumption DEF Tgkill, At, TypeOK, LockInv, MemberInv,
    Unregistered, InDbmExit, listVars, exitVars, sigVars
<1>21. CASE BeginCheck(t)
  BY <1>21, ThreadAssumption DEF BeginCheck, At, Go, TypeOK, LockInv, MemberInv,
    Unregistered, InDbmExit, listVars, exitVars, sigVars
<1>22. CASE CheckStatus(t)
  BY <1>22, ThreadAssumption DEF CheckStatus, At, TypeOK, LockInv, MemberInv,
    Unregistered, InDbmExit, listVars, exitVars, sigVars
<1>23. CASE EndCheck(t)
  BY <1>23, ThreadAssumption DEF EndCheck, At, Go, TypeOK, LockInv, MemberInv,
    Unregistered, InDbmExit, listVars, exitVars, sigVars
<1>24. CASE PostThreadCallback(t)
  BY <1>24, ThreadAssumption DEF PostThreadCallback, At, TypeOK, LockInv, MemberInv,
    Unregistered, InDbmExit, listVars, exitVars, sigVars
<1>25. CASE ExitProcess(t)
  BY <1>25, ThreadAssumption DEF ExitProcess, At, TypeOK, LockInv, MemberInv,
    Unregistered, InDbmExit, listVars, exitVars, sigVars
<1> QED
  BY <1>1, <1>2, <1>3, <1>4, <1>5, <1>6, <1>7, <1>8, <1>9, <1>10, <1>11, <1>12,
    <1>13, <1>14, <1>15, <1>16, <1>17, <1>18, <1>19, <1>20, <1>21, <1>22, <1>23,
    <1>24, <1>25 DEF StepOrSignal, Step

\* Every step preserves PostInv.
LEMMA PostStep ==
  ASSUME TypeOK, LockInv, MemberInv, PostInv, NEW t \in Threads, StepOrSignal(t)
  PROVE  PostInv'
<1>1. CASE RunCode(t)
  BY <1>1, ThreadAssumption DEF RunCode, At, Go, TypeOK, LockInv, MemberInv, PostInv,
    CallingBack, Unregistered, InDbmExit, listVars, exitVars, sigVars
<1>2. CASE TakeBranch(t)
  BY <1>2, ThreadAssumption DEF TakeBranch, At, ThreadAbort, Go, TypeOK, LockInv,
    MemberInv, PostInv, CallingBack, Unregistered, InDbmExit, listVars, exitVars,
    sigVars
<1>3. CASE CheckedCcReturn(t)
  BY <1>3, ThreadAssumption DEF CheckedCcReturn, At, ThreadAbort, Go, TypeOK,
    LockInv, MemberInv, PostInv, CallingBack, Unregistered, InDbmExit, listVars,
    exitVars, sigVars
<1>4. CASE SignalDispatcher(t)
  BY <1>4, ThreadAssumption DEF SignalDispatcher, At, ThreadAbort, Go, TypeOK,
    LockInv, MemberInv, PostInv, CallingBack, Unregistered, InDbmExit, listVars,
    exitVars, sigVars
<1>5. CASE PlainSyscall(t)
  BY <1>5, ThreadAssumption DEF PlainSyscall, At, Go, TypeOK, LockInv, MemberInv,
    PostInv, CallingBack, Unregistered, InDbmExit, listVars, exitVars, sigVars
<1>6. CASE EmulatedSyscall(t)
  BY <1>6, ThreadAssumption DEF EmulatedSyscall, At, Go, TypeOK, LockInv, MemberInv,
    PostInv, CallingBack, Unregistered, InDbmExit, listVars, exitVars, sigVars
<1>7. CASE CreateThread(t)
  BY <1>7, ThreadAssumption DEF CreateThread, At, TypeOK, LockInv, MemberInv,
    PostInv, CallingBack, Unregistered, InDbmExit, listVars, exitVars, sigVars
<1>8. CASE CloneBound(t)
  BY <1>8, ThreadAssumption DEF CloneBound, At, Go, TypeOK, LockInv, MemberInv,
    PostInv, CallingBack, Unregistered, InDbmExit, listVars, exitVars, sigVars
<1>9. CASE CloneReturn(t)
  BY <1>9, ThreadAssumption DEF CloneReturn, At, Go, TypeOK, LockInv, MemberInv,
    PostInv, CallingBack, Unregistered, InDbmExit, listVars, exitVars, sigVars
<1>10. CASE CallExit(t)
  BY <1>10, ThreadAssumption DEF CallExit, At, Go, TypeOK, LockInv, MemberInv,
    PostInv, CallingBack, Unregistered, InDbmExit, listVars, exitVars, sigVars
<1>11. CASE KernelReturn(t)
  BY <1>11, ThreadAssumption DEF KernelReturn, At, Go, TypeOK, LockInv, MemberInv,
    PostInv, CallingBack, Unregistered, InDbmExit, listVars, exitVars, sigVars
<1>12. CASE PostCheck(t)
  BY <1>12, ThreadAssumption DEF PostCheck, At, ThreadAbort, Go, TypeOK, LockInv,
    MemberInv, PostInv, CallingBack, Unregistered, InDbmExit, listVars, exitVars,
    sigVars
<1>13. CASE PostResume(t)
  BY <1>13, ThreadAssumption DEF PostResume, At, Go, TypeOK, LockInv, MemberInv,
    PostInv, CallingBack, Unregistered, InDbmExit, listVars, exitVars, sigVars
<1>14. CASE StartThread(t)
  BY <1>14, ThreadAssumption DEF StartThread, At, Go, TypeOK, LockInv, MemberInv,
    PostInv, CallingBack, Unregistered, InDbmExit, listVars, exitVars, sigVars
<1>15. CASE RegisterThread(t)
  BY <1>15, ThreadAssumption DEF RegisterThread, At, Go, TypeOK, LockInv, MemberInv,
    PostInv, CallingBack, Unregistered, InDbmExit, listVars, exitVars, sigVars
<1>16. CASE EnterCc(t)
  BY <1>16, ThreadAssumption DEF EnterCc, At, Go, TypeOK, LockInv, MemberInv,
    PostInv, CallingBack, Unregistered, InDbmExit, listVars, exitVars, sigVars
<1>17. CASE UnregisterThread(t)
  BY <1>17, ThreadAssumption DEF UnregisterThread, At, Go, TypeOK, LockInv,
    MemberInv, PostInv, CallingBack, Unregistered, InDbmExit, listVars, exitVars,
    sigVars
<1>18. CASE FreeThreadData(t)
  BY <1>18, ThreadAssumption DEF FreeThreadData, At, Go, TypeOK, LockInv, MemberInv,
    PostInv, CallingBack, Unregistered, InDbmExit, listVars, exitVars, sigVars
<1>19. CASE DbmExit(t)
  BY <1>19, ThreadAssumption DEF DbmExit, At, Go, TypeOK, LockInv, MemberInv,
    PostInv, CallingBack, Unregistered, InDbmExit, listVars, exitVars, sigVars
<1>20. CASE Tgkill(t)
  BY <1>20, ThreadAssumption DEF Tgkill, At, TypeOK, LockInv, MemberInv, PostInv,
    CallingBack, Unregistered, InDbmExit, listVars, exitVars, sigVars
<1>21. CASE BeginCheck(t)
  BY <1>21, ThreadAssumption DEF BeginCheck, At, Go, TypeOK, LockInv, MemberInv,
    PostInv, CallingBack, Unregistered, InDbmExit, listVars, exitVars, sigVars
<1>22. CASE CheckStatus(t)
  BY <1>22, ThreadAssumption DEF CheckStatus, At, TypeOK, LockInv, MemberInv,
    PostInv, CallingBack, Unregistered, InDbmExit, listVars, exitVars, sigVars
<1>23. CASE EndCheck(t)
  BY <1>23, ThreadAssumption DEF EndCheck, At, Go, TypeOK, LockInv, MemberInv,
    PostInv, CallingBack, Unregistered, InDbmExit, listVars, exitVars, sigVars
<1>24. CASE PostThreadCallback(t)
  BY <1>24, ThreadAssumption DEF PostThreadCallback, At, TypeOK, LockInv, MemberInv,
    PostInv, CallingBack, Unregistered, InDbmExit, listVars, exitVars, sigVars
<1>25. CASE ExitProcess(t)
  BY <1>25, ThreadAssumption DEF ExitProcess, At, TypeOK, LockInv, MemberInv,
    PostInv, CallingBack, Unregistered, InDbmExit, listVars, exitVars, sigVars
<1> QED
  BY <1>1, <1>2, <1>3, <1>4, <1>5, <1>6, <1>7, <1>8, <1>9, <1>10, <1>11, <1>12,
    <1>13, <1>14, <1>15, <1>16, <1>17, <1>18, <1>19, <1>20, <1>21, <1>22, <1>23,
    <1>24, <1>25 DEF StepOrSignal, Step

\* Every step preserves ParentWaits.
LEMMA ParentStep ==
  ASSUME TypeOK, ParentWaits, NEW t \in Threads, StepOrSignal(t)
  PROVE  ParentWaits'
<1>1. CASE RunCode(t)
  BY <1>1, ThreadAssumption DEF RunCode, At, Go, TypeOK, ParentWaits, listVars,
    exitVars, sigVars
<1>2. CASE TakeBranch(t)
  BY <1>2, ThreadAssumption DEF TakeBranch, At, ThreadAbort, Go, TypeOK, ParentWaits,
    listVars, exitVars, sigVars
<1>3. CASE CheckedCcReturn(t)
  BY <1>3, ThreadAssumption DEF CheckedCcReturn, At, ThreadAbort, Go, TypeOK,
    ParentWaits, listVars, exitVars, sigVars
<1>4. CASE SignalDispatcher(t)
  BY <1>4, ThreadAssumption DEF SignalDispatcher, At, ThreadAbort, Go, TypeOK,
    ParentWaits, listVars, exitVars, sigVars
<1>5. CASE PlainSyscall(t)
  BY <1>5, ThreadAssumption DEF PlainSyscall, At, Go, TypeOK, ParentWaits, listVars,
    exitVars, sigVars
<1>6. CASE EmulatedSyscall(t)
  BY <1>6, ThreadAssumption DEF EmulatedSyscall, At, Go, TypeOK, ParentWaits,
    listVars, exitVars, sigVars
<1>7. CASE CreateThread(t)
  BY <1>7, ThreadAssumption DEF CreateThread, At, TypeOK, ParentWaits, listVars,
    exitVars, sigVars
<1>8. CASE CloneBound(t)
  BY <1>8, ThreadAssumption DEF CloneBound, At, Go, TypeOK, ParentWaits, listVars,
    exitVars, sigVars
<1>9. CASE CloneReturn(t)
  BY <1>9, ThreadAssumption DEF CloneReturn, At, Go, TypeOK, ParentWaits, listVars,
    exitVars, sigVars
<1>10. CASE CallExit(t)
  BY <1>10, ThreadAssumption DEF CallExit, At, Go, TypeOK, ParentWaits, listVars,
    exitVars, sigVars
<1>11. CASE KernelReturn(t)
  BY <1>11, ThreadAssumption DEF KernelReturn, At, Go, TypeOK, ParentWaits, listVars,
    exitVars, sigVars
<1>12. CASE PostCheck(t)
  BY <1>12, ThreadAssumption DEF PostCheck, At, ThreadAbort, Go, TypeOK, ParentWaits,
    listVars, exitVars, sigVars
<1>13. CASE PostResume(t)
  BY <1>13, ThreadAssumption DEF PostResume, At, Go, TypeOK, ParentWaits, listVars,
    exitVars, sigVars
<1>14. CASE StartThread(t)
  BY <1>14, ThreadAssumption DEF StartThread, At, Go, TypeOK, ParentWaits, listVars,
    exitVars, sigVars
<1>15. CASE RegisterThread(t)
  BY <1>15, ThreadAssumption DEF RegisterThread, At, Go, TypeOK, ParentWaits,
    listVars, exitVars, sigVars
<1>16. CASE EnterCc(t)
  BY <1>16, ThreadAssumption DEF EnterCc, At, Go, TypeOK, ParentWaits, listVars,
    exitVars, sigVars
<1>17. CASE UnregisterThread(t)
  BY <1>17, ThreadAssumption DEF UnregisterThread, At, Go, TypeOK, ParentWaits,
    listVars, exitVars, sigVars
<1>18. CASE FreeThreadData(t)
  BY <1>18, ThreadAssumption DEF FreeThreadData, At, Go, TypeOK, ParentWaits,
    listVars, exitVars, sigVars
<1>19. CASE DbmExit(t)
  BY <1>19, ThreadAssumption DEF DbmExit, At, Go, TypeOK, ParentWaits, listVars,
    exitVars, sigVars
<1>20. CASE Tgkill(t)
  BY <1>20, ThreadAssumption DEF Tgkill, At, TypeOK, ParentWaits, listVars, exitVars,
    sigVars
<1>21. CASE BeginCheck(t)
  BY <1>21, ThreadAssumption DEF BeginCheck, At, Go, TypeOK, ParentWaits, listVars,
    exitVars, sigVars
<1>22. CASE CheckStatus(t)
  BY <1>22, ThreadAssumption DEF CheckStatus, At, TypeOK, ParentWaits, listVars,
    exitVars, sigVars
<1>23. CASE EndCheck(t)
  BY <1>23, ThreadAssumption DEF EndCheck, At, Go, TypeOK, ParentWaits, listVars,
    exitVars, sigVars
<1>24. CASE PostThreadCallback(t)
  BY <1>24, ThreadAssumption DEF PostThreadCallback, At, TypeOK, ParentWaits,
    listVars, exitVars, sigVars
<1>25. CASE ExitProcess(t)
  BY <1>25, ThreadAssumption DEF ExitProcess, At, TypeOK, ParentWaits, listVars,
    exitVars, sigVars
<1> QED
  BY <1>1, <1>2, <1>3, <1>4, <1>5, <1>6, <1>7, <1>8, <1>9, <1>10, <1>11, <1>12,
    <1>13, <1>14, <1>15, <1>16, <1>17, <1>18, <1>19, <1>20, <1>21, <1>22, <1>23,
    <1>24, <1>25 DEF StepOrSignal, Step

\* Every step preserves StopInv, without such system calls.
LEMMA StopStep ==
  ASSUME NoPlain, TypeOK, LockInv, MemberInv, StopInv, NEW t \in Threads, StepOrSignal(t)
  PROVE  StopInv'
<1>1. CASE RunCode(t)
  BY <1>1, ThreadAssumption DEF RunCode, At, Go, NoPlain, TypeOK,
    LockInv, MemberInv, StopInv, CallingBack, Unregistered, InDbmExit,
    listVars, exitVars, sigVars
<1>2. CASE TakeBranch(t)
  BY <1>2, ThreadAssumption DEF TakeBranch, At, ThreadAbort, Go, NoPlain, TypeOK,
    LockInv, MemberInv, StopInv, CallingBack, Unregistered, InDbmExit,
    listVars, exitVars, sigVars
<1>3. CASE CheckedCcReturn(t)
  BY <1>3, ThreadAssumption DEF CheckedCcReturn, At, ThreadAbort, Go, NoPlain, TypeOK,
    LockInv, MemberInv, StopInv, CallingBack, Unregistered, InDbmExit,
    listVars, exitVars, sigVars
<1>4. CASE SignalDispatcher(t)
  BY <1>4, ThreadAssumption DEF SignalDispatcher, At, ThreadAbort, Go, NoPlain, TypeOK,
    LockInv, MemberInv, StopInv, CallingBack, Unregistered, InDbmExit,
    listVars, exitVars, sigVars
<1>5. CASE PlainSyscall(t)
  BY <1>5, ThreadAssumption DEF PlainSyscall, At, Go, NoPlain, TypeOK,
    LockInv, MemberInv, StopInv, CallingBack, Unregistered, InDbmExit,
    listVars, exitVars, sigVars
<1>6. CASE EmulatedSyscall(t)
  BY <1>6, ThreadAssumption DEF EmulatedSyscall, At, Go, NoPlain, TypeOK,
    LockInv, MemberInv, StopInv, CallingBack, Unregistered, InDbmExit,
    listVars, exitVars, sigVars
<1>7. CASE CreateThread(t)
  BY <1>7, ThreadAssumption DEF CreateThread, At, NoPlain, TypeOK,
    LockInv, MemberInv, StopInv, CallingBack, Unregistered, InDbmExit,
    listVars, exitVars, sigVars
<1>8. CASE CloneBound(t)
  BY <1>8, ThreadAssumption DEF CloneBound, At, Go, NoPlain, TypeOK,
    LockInv, MemberInv, StopInv, CallingBack, Unregistered, InDbmExit,
    listVars, exitVars, sigVars
<1>9. CASE CloneReturn(t)
  BY <1>9, ThreadAssumption DEF CloneReturn, At, Go, NoPlain, TypeOK,
    LockInv, MemberInv, StopInv, CallingBack, Unregistered, InDbmExit,
    listVars, exitVars, sigVars
<1>10. CASE CallExit(t)
  BY <1>10, ThreadAssumption DEF CallExit, At, Go, NoPlain, TypeOK,
    LockInv, MemberInv, StopInv, CallingBack, Unregistered, InDbmExit,
    listVars, exitVars, sigVars
<1>11. CASE KernelReturn(t)
  BY <1>11, ThreadAssumption DEF KernelReturn, At, Go, NoPlain, TypeOK,
    LockInv, MemberInv, StopInv, CallingBack, Unregistered, InDbmExit,
    listVars, exitVars, sigVars
<1>12. CASE PostCheck(t)
  BY <1>12, ThreadAssumption DEF PostCheck, At, ThreadAbort, Go, NoPlain, TypeOK,
    LockInv, MemberInv, StopInv, CallingBack, Unregistered, InDbmExit,
    listVars, exitVars, sigVars
<1>13. CASE PostResume(t)
  BY <1>13, ThreadAssumption DEF PostResume, At, Go, NoPlain, TypeOK,
    LockInv, MemberInv, StopInv, CallingBack, Unregistered, InDbmExit,
    listVars, exitVars, sigVars
<1>14. CASE StartThread(t)
  BY <1>14, ThreadAssumption DEF StartThread, At, Go, NoPlain, TypeOK,
    LockInv, MemberInv, StopInv, CallingBack, Unregistered, InDbmExit,
    listVars, exitVars, sigVars
<1>15. CASE RegisterThread(t)
  BY <1>15, ThreadAssumption DEF RegisterThread, At, Go, NoPlain, TypeOK,
    LockInv, MemberInv, StopInv, CallingBack, Unregistered, InDbmExit,
    listVars, exitVars, sigVars
<1>16. CASE EnterCc(t)
  BY <1>16, ThreadAssumption DEF EnterCc, At, Go, NoPlain, TypeOK,
    LockInv, MemberInv, StopInv, CallingBack, Unregistered, InDbmExit,
    listVars, exitVars, sigVars
<1>17. CASE UnregisterThread(t)
  BY <1>17, ThreadAssumption DEF UnregisterThread, At, Go, NoPlain, TypeOK,
    LockInv, MemberInv, StopInv, CallingBack, Unregistered, InDbmExit,
    listVars, exitVars, sigVars
<1>18. CASE FreeThreadData(t)
  BY <1>18, ThreadAssumption DEF FreeThreadData, At, Go, NoPlain, TypeOK,
    LockInv, MemberInv, StopInv, CallingBack, Unregistered, InDbmExit,
    listVars, exitVars, sigVars
<1>19. CASE DbmExit(t)
  BY <1>19, ThreadAssumption DEF DbmExit, At, Go, NoPlain, TypeOK,
    LockInv, MemberInv, StopInv, CallingBack, Unregistered, InDbmExit,
    listVars, exitVars, sigVars
<1>20. CASE Tgkill(t)
  BY <1>20, ThreadAssumption DEF Tgkill, At, NoPlain, TypeOK,
    LockInv, MemberInv, StopInv, CallingBack, Unregistered, InDbmExit,
    listVars, exitVars, sigVars
<1>21. CASE BeginCheck(t)
  BY <1>21, ThreadAssumption DEF BeginCheck, At, Go, NoPlain, TypeOK,
    LockInv, MemberInv, StopInv, CallingBack, Unregistered, InDbmExit,
    listVars, exitVars, sigVars
<1>22. CASE CheckStatus(t)
  BY <1>22, ThreadAssumption DEF CheckStatus, At, NoPlain, TypeOK,
    LockInv, MemberInv, StopInv, CallingBack, Unregistered, InDbmExit,
    listVars, exitVars, sigVars
<1>23. CASE EndCheck(t)
  BY <1>23, ThreadAssumption DEF EndCheck, At, Go, NoPlain, TypeOK,
    LockInv, MemberInv, StopInv, CallingBack, Unregistered, InDbmExit,
    listVars, exitVars, sigVars
<1>24. CASE PostThreadCallback(t)
  BY <1>24, ThreadAssumption DEF PostThreadCallback, At, NoPlain, TypeOK,
    LockInv, MemberInv, StopInv, CallingBack, Unregistered, InDbmExit,
    listVars, exitVars, sigVars
<1>25. CASE ExitProcess(t)
  BY <1>25, ThreadAssumption DEF ExitProcess, At, NoPlain, TypeOK,
    LockInv, MemberInv, StopInv, CallingBack, Unregistered, InDbmExit,
    listVars, exitVars, sigVars
<1> QED
  BY <1>1, <1>2, <1>3, <1>4, <1>5, <1>6, <1>7, <1>8, <1>9, <1>10, <1>11, <1>12,
    <1>13, <1>14, <1>15, <1>16, <1>17, <1>18, <1>19, <1>20, <1>21, <1>22, <1>23,
    <1>24, <1>25 DEF StepOrSignal, Step
-----------------------------------------------------------------------------
\* IInv is an invariant: it holds initially and every step preserves it.
THEOREM ListInvariant == Spec => []IInv
<1>1. Init => IInv
  <2> SUFFICES ASSUME Init PROVE IInv
    OBVIOUS
  <2> USE ThreadAssumption
  <2>1. TypeOK
    BY ZenonT(30) DEF Init, TypeOK, InDbmExit, PCs
  <2>2. LockInv
    BY DEF Init, LockInv
  <2>3. MemberInv
    BY DEF Init, MemberInv, Unregistered
  <2>4. PostInv
    BY DEF Init, PostInv, CallingBack
  <2> QED
    BY <2>1, <2>2, <2>3, <2>4 DEF IInv
<1>2. IInv /\ [Next]_vars => IInv'
  <2> SUFFICES ASSUME IInv, [Next]_vars PROVE IInv'
    OBVIOUS
  <2>1. CASE UNCHANGED vars
    BY <2>1
    DEF vars, listVars, exitVars, sigVars, IInv, TypeOK, LockInv, MemberInv, PostInv,
        CallingBack
  <2>2. CASE Next
    <3>1. PICK t \in Threads : StepOrSignal(t)
      BY <2>2 DEF Next, StepOrSignal
    <3> QED
      BY <3>1, TypeOKStep, LockStep, MemberStep, PostStep DEF IInv
  <2> QED
    BY <2>1, <2>2
<1> QED
  BY <1>1, <1>2, PTL DEF Spec

\* The variables have their types, and thread_list_mutex is held exactly by the
\* thread that is in a loop of dbm_exit().
THEOREM TypeTheorem == Spec => []TypeOK
<1>1. IInv => TypeOK
  BY DEF IInv
<1> QED
  BY <1>1, ListInvariant, PTL

\* A new thread copies from its parent's stack only while the parent waits.
THEOREM ParentTheorem == Spec => []ParentWaits
<1>1. Init => ParentWaits
  BY DEF Init, ParentWaits
<1>2. TypeOK /\ ParentWaits /\ [Next]_vars => ParentWaits'
  <2> SUFFICES ASSUME TypeOK, ParentWaits, [Next]_vars PROVE ParentWaits'
    OBVIOUS
  <2>1. CASE UNCHANGED vars
    BY <2>1 DEF vars, ParentWaits
  <2>2. CASE Next
    <3>1. PICK t \in Threads : StepOrSignal(t)
      BY <2>2 DEF Next, StepOrSignal
    <3> QED
      BY <3>1, ParentStep
  <2> QED
    BY <2>1, <2>2
<1> QED
  BY <1>1, <1>2, TypeTheorem, PTL DEF Spec

\* dbm_exit() and the handler of its signal never use the data of a thread that
\* has freed it in exit(), whenever the threads exit.
THEOREM FreeTheorem == Spec => []NoUseAfterFree
<1>1. IInv => NoUseAfterFree
  BY DEF IInv, LockInv, MemberInv, TypeOK, NoUseAfterFree
<1> QED
  BY <1>1, ListInvariant, PTL

\* PRE_THREAD and POST_THREAD callbacks run at most once for each thread and in
\* this order, although both exit() and dbm_exit() call the latter.
THEOREM CallbacksTheorem == Spec => []CallbacksOnce
<1>1. IInv => CallbacksOnce
  BY DEF IInv, MemberInv, PostInv, CallbacksOnce
<1> QED
  BY <1>1, ListInvariant, PTL

\* If no thread makes a system call that the kernel executes, then dbm_exit()
\* has stopped all threads before it calls back: a thread executes code of the
\* application only between its two callbacks.
THEOREM BracketTheorem ==
  ASSUME NoPlain
  PROVE  Spec => []CallbacksBracket
<1>1. Init => StopInv
  BY ThreadAssumption DEF Init, StopInv, CallingBack
<1>2. IInv /\ StopInv /\ [Next]_vars => StopInv'
  <2> SUFFICES ASSUME IInv, StopInv, [Next]_vars PROVE StopInv'
    OBVIOUS
  <2>1. CASE UNCHANGED vars
    BY <2>1
    DEF vars, listVars, exitVars, sigVars, StopInv, CallingBack
  <2>2. CASE Next
    <3>1. PICK t \in Threads : StepOrSignal(t)
      BY <2>2 DEF Next, StepOrSignal
    <3> QED
      BY <3>1, StopStep, NoPlain DEF IInv
  <2> QED
    BY <2>1, <2>2
<1>3. IInv /\ StopInv => CallbacksBracket
  BY DEF IInv, TypeOK, LockInv, MemberInv, PostInv, StopInv, CallbacksBracket,
     CallingBack, Unregistered, InDbmExit
<1> QED
  BY <1>1, <1>2, <1>3, ListInvariant, PTL DEF Spec

-----------------------------------------------------------------------------
(* The list of threads *)

Nodes == FThread \cup {Null}

\* The list: a node is the next of at most one node of the list, of none if it
\* is the head, and a walk from the head meets every thread that runs and ends.
ListInv ==
  /\ head \in registered \cup {Null}
  /\ \A p \in registered : next_thread[p] \in registered \cup {Null}
  /\ \A p, q \in registered : next_thread[p] = next_thread[q] /\ next_thread[p] # Null => p = q
  /\ \A p \in registered : next_thread[p] # Null => next_thread[p] # head
  /\ \A S \in SUBSET Nodes : Follows(S) => registered \cup {Null} \subseteq S

ForkTypes ==
  /\ registered \subseteq FThread
  /\ next_thread = [p \in FThread |-> next_thread[p]]
  /\ child \in Nodes

\* Before the fork nothing is freed; after it the list mutex is free, and if the
\* next of the thread that forked is Null, the loop takes at most one turn.
ChildInv ==
  /\ Parent => munmapped = {} /\ ~touched /\ ~resetDone
  /\ ~Parent => /\ listOwner = Null
                /\ next_thread[child] = Null =>
                     /\ ~touched /\ child \notin munmapped
                     /\ it = Null \/ munmapped = {}
                     /\ resetDone => head = child

ForkInv == ForkTypes /\ (Parent => ListInv) /\ ChildInv

-----------------------------------------------------------------------------
\* One thread, alone in the list.
LEMMA ForkInitInv == ForkInit => ForkInv
<1> SUFFICES ASSUME ForkInit PROVE ForkInv
  OBVIOUS
<1>1. PICK main \in FThread :
        /\ head = main /\ next_thread = [t \in FThread |-> Null] /\ registered = {main}
        /\ child = Null /\ munmapped = {} /\ resetDone = FALSE /\ touched = FALSE
  BY Zenon DEF ForkInit
<1>2. main # Null /\ next_thread[main] = Null
  BY <1>1, ForkAssumption, Zenon
<1>3. ForkTypes
  BY <1>1 DEF ForkTypes, Nodes
<1>4. ListInv
  BY <1>1, <1>2, Zenon DEF ListInv, Follows
<1> QED BY <1>1, <1>3, <1>4, Zenon DEF ForkInv, ChildInv, Parent

\* register_thread() puts a node before the head.
LEMMA RegisterKeeps ==
  ASSUME ForkTypes, ListInv, NEW t \in FThread, Register(t)
  PROVE  ForkTypes' /\ ListInv'
<1>1. /\ t \notin registered /\ t # Null
      /\ next_thread' = [next_thread EXCEPT ![t] = head]
      /\ head' = t /\ registered' = registered \cup {t} /\ child' = child
  BY ForkAssumption, Zenon DEF Register, childVars
<1>2. /\ next_thread'[t] = head /\ next_thread' = [p \in FThread |-> next_thread'[p]]
      /\ \A p \in registered : p # t /\ next_thread'[p] = next_thread[p]
  BY <1>1 DEF ForkTypes
<1>3. ForkTypes'
  BY <1>1, <1>2, Zenon DEF ForkTypes, Nodes
<1>4. ASSUME NEW S \in SUBSET Nodes, Follows(S)'
      PROVE  registered' \cup {Null} \subseteq S
  <2> DEFINE T == S \cap (registered \cup {Null})
  <2>1. t \in S /\ \A p \in S \ {Null} : next_thread'[p] \in S
    BY <1>1, <1>4, Zenon DEF Follows
  <2>2. head \in S
    BY <1>1, <1>2, <2>1, Zenon
  <2>3. T \in SUBSET Nodes /\ head \in T
    BY <2>2, Zenon DEF ListInv
  <2>4. \A p \in T \ {Null} : next_thread[p] \in T
    BY <1>2, <2>1, Zenon DEF ListInv
  <2>5. Follows(T)
    BY <2>3, <2>4, Zenon DEF Follows
  <2>6. registered \cup {Null} \subseteq T
    BY <2>3, <2>5, Zenon DEF ListInv
  <2> QED BY <1>1, <2>1, <2>6, Zenon
<1>5. ASSUME NEW p \in registered' PROVE next_thread'[p] \in registered' \cup {Null}
  <2>1. CASE p = t
    BY <1>1, <1>2, <2>1, Zenon DEF ListInv
  <2>2. CASE p \in registered
    <3>1. next_thread'[p] = next_thread[p] /\ next_thread[p] \in registered \cup {Null}
      BY ONLY <1>2, <2>2, ListInv, Zenon DEF ListInv
    <3>2. registered' = registered \cup {t}
      BY <1>1
    <3> QED BY ONLY <3>1, <3>2, Zenon
  <2> QED BY <1>1, <1>5, <2>1, <2>2, Zenon
<1>6. ASSUME NEW p \in registered', NEW q \in registered',
             next_thread'[p] = next_thread'[q], next_thread'[p] # Null
      PROVE  p = q
  <2>1. ASSUME p \in registered, q \in registered PROVE p = q
    <3>1. next_thread[p] = next_thread[q] /\ next_thread[p] # Null
      BY <1>2, <1>6, <2>1, Zenon
    <3> QED BY <2>1, <3>1, Zenon DEF ListInv
  <2>2. ~(p = t /\ q \in registered) /\ ~(q = t /\ p \in registered)
    BY <1>2, <1>6, Zenon DEF ListInv
  <2> QED BY <1>1, <2>1, <2>2, Zenon
<1>7. ASSUME NEW p \in registered', next_thread'[p] # Null
      PROVE  next_thread'[p] # head'
  <2>1. CASE p = t
    BY <1>1, <1>2, <1>7, <2>1, Zenon DEF ListInv
  <2>2. CASE p \in registered
    BY <1>1, <1>2, <1>7, <2>2, Zenon DEF ListInv
  <2> QED BY <1>1, <2>1, <2>2, Zenon
<1>8. \A S \in SUBSET Nodes : Follows(S)' => registered' \cup {Null} \subseteq S
  BY <1>4, Zenon
<1> QED BY <1>1, <1>3, <1>5, <1>6, <1>7, <1>8, Zenon DEF ListInv, Nodes

\* A node that is not the head has a predecessor, another one than itself, and
\* unregister_thread() finds it.
LEMMA Predecessor ==
  ASSUME ForkTypes, ListInv, NEW t \in registered, head # t
  PROVE  \E p \in registered : next_thread[p] = t /\ p # t
<1> SUFFICES ASSUME \A p \in registered : next_thread[p] = t => p = t PROVE FALSE
  BY Zenon
<1> DEFINE S == (registered \cup {Null}) \ {t}
<1>1. S \in SUBSET Nodes
  BY Zenon DEF ForkTypes, Nodes
<1>2. Follows(S)
  BY Zenon DEF ListInv, Follows
<1>3. t \in S
  BY <1>1, <1>2, Zenon DEF ListInv
<1> QED BY <1>3, Zenon

\* unregister_thread() takes a node out.
LEMMA UnregisterKeeps ==
  ASSUME ForkTypes, ListInv, NEW t \in FThread, Unregister(t)
  PROVE  ForkTypes' /\ ListInv'
<1>1. /\ t \in registered /\ t # Null /\ registered' = registered \ {t} /\ child' = child
      /\ head' = Unlinked(t).head /\ next_thread' = Unlinked(t).next
  BY ForkAssumption, Zenon DEF Unregister, childVars
<1>2. CASE head = t
  <2>1. head' = next_thread[t] /\ next_thread' = next_thread
    BY <1>1, <1>2 DEF Unlinked
  <2>2. next_thread[t] # t
    BY <1>1, <1>2, Zenon DEF ListInv
  <2>3. ForkTypes'
    BY <1>1, <2>1, Zenon DEF ForkTypes, Nodes
  <2>4. ASSUME NEW S \in SUBSET Nodes, Follows(S)'
        PROVE  registered' \cup {Null} \subseteq S
    <3> DEFINE T == S \cup {t}
    <3>1. T \in SUBSET Nodes
      BY Zenon DEF Nodes
    <3>2. Follows(T)
      BY <1>2, <2>1, <2>4, Zenon DEF Follows
    <3>3. registered \cup {Null} \subseteq T
      BY <3>1, <3>2, Zenon DEF ListInv
    <3> QED BY <1>1, <3>3, Zenon
  <2>5. head' \in registered' \cup {Null}
    BY <1>1, <2>1, <2>2, Zenon DEF ListInv
  <2>6. \A p \in registered' : next_thread'[p] \in registered' \cup {Null}
    BY <1>1, <1>2, <2>1, Zenon DEF ListInv
  <2>7. ASSUME NEW p \in registered', NEW q \in registered',
               next_thread'[p] = next_thread'[q], next_thread'[p] # Null
        PROVE  p = q
    <3>1. p \in registered /\ q \in registered
      BY <1>1, Zenon
    <3>2. next_thread[p] = next_thread[q] /\ next_thread[p] # Null
      BY ONLY <2>1, <2>7, Zenon
    <3> QED BY ONLY <3>1, <3>2, ListInv, Zenon DEF ListInv
  <2>8. \A p \in registered' : next_thread'[p] # Null => next_thread'[p] # head'
    BY <1>1, <2>1, Zenon DEF ListInv
  <2>9. \A S \in SUBSET Nodes : Follows(S)' => registered' \cup {Null} \subseteq S
    BY <2>4, Zenon
  <2> QED BY <2>3, <2>5, <2>6, <2>7, <2>8, <2>9, Zenon DEF ListInv, Nodes
<1>3. CASE head # t
  <2> DEFINE prev == CHOOSE p \in registered : next_thread[p] = t
  <2>1. PICK p0 \in registered : next_thread[p0] = t /\ p0 # t
    BY <1>1, <1>3, Predecessor, Zenon
  <2>2. prev \in registered /\ next_thread[prev] = t
    BY <2>1, Zenon
  <2>3. prev = p0
    BY <1>1, <2>1, <2>2, Zenon DEF ListInv
  <2>4. head' = head /\ next_thread' = [next_thread EXCEPT ![prev] = next_thread[t]]
    BY <1>1, <1>3 DEF Unlinked
  <2> HIDE DEF prev
  <2>5. /\ next_thread'[prev] = next_thread[t] /\ next_thread' = [p \in FThread |-> next_thread'[p]]
        /\ \A p \in FThread : p # prev => next_thread'[p] = next_thread[p]
    BY <2>2, <2>4 DEF ForkTypes
  <2>6. next_thread[t] # t /\ prev # t
    BY <1>1, <2>1, <2>3, Zenon DEF ListInv
  <2>7. \A p \in registered : next_thread[p] = t => p = prev
    BY <1>1, <2>2, Zenon DEF ListInv
  <2>8. ForkTypes'
    BY <1>1, <2>5, Zenon DEF ForkTypes, Nodes
  <2>9. ASSUME NEW S \in SUBSET Nodes, Follows(S)'
        PROVE  registered' \cup {Null} \subseteq S
    <3>1. head \in S /\ \A p \in S \ {Null} : next_thread'[p] \in S
      BY <2>4, <2>9, Zenon DEF Follows
    <3>2. \A p \in S \ {Null} : p \in FThread
      BY Zenon DEF Nodes
    <3>3. CASE prev \in S
      <4> DEFINE T == S \cup {t}
      <4>1. T \in SUBSET Nodes
        BY Zenon DEF Nodes
      <4>2. prev # Null
        BY <2>2, ForkAssumption, Zenon DEF ForkTypes
      <4>3. next_thread[t] \in S
        BY <2>5, <3>1, <3>3, <4>2, Zenon
      <4>4. ASSUME NEW p \in T \ {Null} PROVE next_thread[p] \in T
        BY <2>2, <2>5, <3>1, <3>2, <4>3, <4>4, Zenon
      <4>5. Follows(T)
        BY <3>1, <4>4, Zenon DEF Follows
      <4>6. registered \cup {Null} \subseteq T
        BY <4>1, <4>5, Zenon DEF ListInv
      <4> QED BY <1>1, <4>6, Zenon
    <3>4. CASE prev \notin S
      <4> DEFINE T == S \cap ((registered \cup {Null}) \ {t})
      <4>1. T \in SUBSET Nodes
        BY Zenon
      <4>2. head \in T
        BY <1>3, <3>1, Zenon DEF ListInv
      <4>3. ASSUME NEW p \in T \ {Null} PROVE next_thread[p] \in T
        <5>1. p \in registered /\ p \in FThread /\ p # prev /\ p \in S
          BY <3>2, <3>4, <4>3, Zenon
        <5>2. next_thread[p] \in S /\ next_thread[p] # t
          BY <2>5, <2>7, <3>1, <4>3, <5>1, Zenon
        <5> QED BY <5>1, <5>2, Zenon DEF ListInv
      <4>4. Follows(T)
        BY <4>2, <4>3, Zenon DEF Follows
      <4>5. t \in T
        BY <1>1, <4>1, <4>4, Zenon DEF ListInv
      <4> QED BY <4>5, Zenon
    <3> QED BY <3>3, <3>4, Zenon
  <2>10. \A p \in registered' : next_thread'[p] \in registered' \cup {Null}
    <3> SUFFICES ASSUME NEW p \in registered' PROVE next_thread'[p] \in registered' \cup {Null}
      BY Zenon
    <3>1. p \in registered /\ p # t /\ p \in FThread
      BY <1>1, Zenon DEF ForkTypes
    <3> QED BY <1>1, <2>5, <2>6, <2>7, <3>1, Zenon DEF ListInv
  <2>11. \A p, q \in registered' : next_thread'[p] = next_thread'[q] /\ next_thread'[p] # Null => p = q
    <3> SUFFICES ASSUME NEW p \in registered', NEW q \in registered',
                        next_thread'[p] = next_thread'[q], next_thread'[p] # Null
                 PROVE  p = q
      BY Zenon
    <3>1. p \in registered /\ p # t /\ p \in FThread /\ q \in registered /\ q # t /\ q \in FThread
      BY <1>1, Zenon DEF ForkTypes
    <3>2. CASE p # prev /\ q # prev
      BY <2>5, <3>1, <3>2, Zenon DEF ListInv
    <3>3. CASE p = prev /\ q # prev
      <4>1. next_thread[t] = next_thread[q] /\ next_thread[t] # Null
        BY <2>5, <3>1, <3>3, Zenon
      <4> QED BY <1>1, <3>1, <4>1, Zenon DEF ListInv
    <3>4. CASE p # prev /\ q = prev
      <4>1. next_thread[t] = next_thread[p] /\ next_thread[t] # Null
        BY <2>5, <3>1, <3>4, Zenon
      <4> QED BY <1>1, <3>1, <4>1, Zenon DEF ListInv
    <3> QED BY <3>2, <3>3, <3>4, Zenon
  <2>12. \A p \in registered' : next_thread'[p] # Null => next_thread'[p] # head'
    <3> SUFFICES ASSUME NEW p \in registered', next_thread'[p] # Null PROVE next_thread'[p] # head
      BY <2>4, Zenon
    <3>1. p \in registered /\ p \in FThread
      BY <1>1, Zenon DEF ForkTypes
    <3> QED BY <1>1, <2>5, <3>1, Zenon DEF ListInv
  <2>13. \A S \in SUBSET Nodes : Follows(S)' => registered' \cup {Null} \subseteq S
    BY <2>9, Zenon
  <2>14. head' \in registered' \cup {Null}
    BY <1>1, <1>3, <2>4, Zenon DEF ListInv
  <2> QED BY <2>8, <2>10, <2>11, <2>12, <2>13, <2>14, Zenon DEF ListInv, Nodes
<1> QED BY <1>2, <1>3, Zenon

\* Every step of the parent and of the child keeps the invariant.
LEMMA ForkNextInv == ForkInv /\ [ForkNext]_forkVars => ForkInv'
<1> SUFFICES ASSUME ForkInv, [ForkNext]_forkVars PROVE ForkInv'
  OBVIOUS
<1> USE DEF Parent
<1>1. ASSUME NEW t \in FThread, LockThreadList(t) PROVE ForkInv'
  BY <1>1, Zenon DEF LockThreadList, childVars, ForkInv, ForkTypes, ListInv, ChildInv, Follows
<1>2. ASSUME NEW t \in FThread, Register(t) PROVE ForkInv'
  <2>1. ForkTypes' /\ ListInv'
    BY <1>2, RegisterKeeps, Zenon DEF Register, ForkInv
  <2> QED BY <1>2, <2>1, Zenon DEF Register, childVars, ForkInv, ChildInv
<1>3. ASSUME NEW t \in FThread, Unregister(t) PROVE ForkInv'
  <2>1. ForkTypes' /\ ListInv'
    BY <1>3, UnregisterKeeps, Zenon DEF Unregister, ForkInv
  <2> QED BY <1>3, <2>1, Zenon DEF Unregister, childVars, ForkInv, ChildInv
<1>4. ASSUME NEW t \in FThread, ForkProcess(t) PROVE ForkInv'
  <2>1. t # Null
    BY ForkAssumption, Zenon
  <2>2. ForkTypes'
    BY <1>4, Zenon DEF ForkProcess, ResetProcess, ForkInv, ForkTypes, Nodes
  <2> QED BY <1>4, <2>1, <2>2, Zenon DEF ForkProcess, ResetProcess, ForkInv, ChildInv
<1>5. CASE FreeOther
  <2>1. ForkTypes'
    BY <1>5, Zenon DEF FreeOther, ForkInv, ForkTypes
  <2>2. ChildInv'
    <3> SUFFICES ASSUME next_thread[child] = Null
                 PROVE  /\ ~touched' /\ child \notin munmapped' /\ it' = Null
                        /\ resetDone => head = child
      BY <1>5, Zenon DEF FreeOther, ForkInv, ChildInv
    <3> QED BY <1>5, Zenon DEF FreeOther, FreedOther, ForkInv, ChildInv
  <2> QED BY <1>5, <2>1, <2>2, Zenon DEF FreeOther, ForkInv
<1>6. CASE FreeDone
  BY <1>6, Zenon DEF FreeDone, ForkInv, ForkTypes, ChildInv
<1>7. CASE UNCHANGED forkVars
  BY <1>7, Zenon DEF forkVars, ForkInv, ForkTypes, ListInv, ChildInv, Follows
<1> QED BY <1>1, <1>2, <1>3, <1>4, <1>5, <1>6, <1>7, Zenon DEF ForkNext

\* While no list operation is under way the list holds exactly the threads that
\* run and ends, and the child of the oldest thread is left with itself alone and
\* uses nothing that it has freed, for every set of threads and every number of
\* threads that start.
THEOREM ThreadListIsSound == ForkSpec => []ThreadListSound
<1>1. ForkInit => ForkInv
  BY ForkInitInv, Zenon
<1>2. ForkInv /\ [ForkNext]_forkVars => ForkInv'
  BY ForkNextInv, Zenon
<1>3. ForkInv => ThreadListSound
  <2> SUFFICES ASSUME ForkInv PROVE ListHoldsRunning /\ OldestForks /\ ChildLocksList
    BY Zenon DEF ThreadListSound
  <2>1. ListHoldsRunning
    <3> SUFFICES ASSUME Parent PROVE Listed = registered /\ Null \in Walked
      BY Zenon DEF ListHoldsRunning
    <3> DEFINE R == registered \cup {Null}
    <3>1. R \in SUBSET Nodes /\ Null \notin registered
      BY ForkAssumption, Zenon DEF ForkInv, ForkTypes, Nodes
    <3>2. Follows(R)
      BY Zenon DEF ForkInv, ListInv, Follows
    <3>3. \A S \in SUBSET Nodes : Follows(S) => R \subseteq S
      BY Zenon DEF ForkInv, ListInv
    <3>4. Walked = R
      BY <3>1, <3>2, <3>3, Zenon DEF Walked, Nodes
    <3> QED BY <3>1, <3>4, Zenon DEF Listed
  <2>2. OldestForks
    <3> SUFFICES ASSUME ~Parent, next_thread[child] = Null, resetDone
                 PROVE  Listed = {child}
      BY Zenon DEF OldestForks, ForkInv, ChildInv
    <3>1. head = child /\ child \in Nodes /\ child # Null
      BY Zenon DEF ForkInv, ChildInv, ForkTypes, Parent
    <3> DEFINE R == {child, Null}
    <3>2. R \in SUBSET Nodes /\ Follows(R)
      BY <3>1, Zenon DEF Follows, Nodes
    <3>3. \A S \in SUBSET Nodes : Follows(S) => R \subseteq S
      BY <3>1, Zenon DEF Follows
    <3>4. Walked = R
      BY <3>2, <3>3, Zenon DEF Walked, Nodes
    <3> QED BY <3>1, <3>4, Zenon DEF Listed
  <2>3. ChildLocksList
    BY Zenon DEF ChildLocksList, ForkInv, ChildInv
  <2> QED BY <2>1, <2>2, <2>3, Zenon
<1> QED BY <1>1, <1>2, <1>3, PTL DEF ForkSpec
=============================================================================
