-------------------------------- MODULE Fork ---------------------------------
(***************************************************************************)
(* The list of threads (register_thread, unregister_thread, linked through *)
(* next_thread) and what a child process does to it after a fork           *)
(* (reset_process, free_all_other_threads).  The child has a copy of the   *)
(* memory of its parent and one of its threads: after the fork, only the   *)
(* child is followed.                                                      *)
(***************************************************************************)
EXTENDS Integers

CONSTANTS FThread,      \* threads
          Null,
          MaxRegister   \* bound on the threads that are started

ASSUME ForkAssumption == Null \notin FThread

VARIABLES head,         \* global_data.threads
          next_thread,
          registered,   \* the threads that run
          listOwner,    \* holder of thread_list_mutex, or Null
          started,      \* how many were registered
          child,        \* Null, or the thread that runs in the child
          it,           \* the loop variable of free_all_other_threads
          munmapped,    \* the thread structures that the child has freed
          resetDone,    \* reset_process has returned
          touched       \* the child has used a structure that it had freed

forkVars == <<head, next_thread, registered, listOwner, started, child, it, munmapped, resetDone, touched>>
childVars == <<child, it, munmapped, resetDone, touched>>

\* Main is registered before the application starts.
ForkInit ==
  \E main \in FThread :
    /\ head = main
    /\ next_thread = [t \in FThread |-> Null]
    /\ registered = {main}
    /\ listOwner = Null
    /\ started = 1
    /\ child = Null /\ it = Null /\ munmapped = {} /\ resetDone = FALSE /\ touched = FALSE

Parent == child = Null

(* lock_thread_list() of a thread that starts or that exits *)
LockThreadList(t) ==
  /\ Parent /\ listOwner = Null
  /\ t \in registered \/ started < MaxRegister
  /\ listOwner' = t
  /\ UNCHANGED <<head, next_thread, registered, started, childVars>>

(* the rest of register_thread() *)
Register(t) ==
  /\ Parent /\ listOwner = t /\ t \notin registered
  /\ next_thread' = [next_thread EXCEPT ![t] = head]
  /\ head' = t
  /\ registered' = registered \cup {t}
  /\ started' = started + 1
  /\ listOwner' = Null
  /\ UNCHANGED childVars

\* (Variant of Unlinked: the head of the list is not a case of its own.)
UnlinkedTail(t) ==
  [head |-> head,
   next |-> [p \in FThread |-> IF next_thread[p] = t THEN next_thread[t] ELSE next_thread[p]]]

\* unregister_thread(): the head, or the one node that precedes t
Unlinked(t) ==
  IF head = t THEN [head |-> next_thread[t], next |-> next_thread]
  ELSE LET prev == CHOOSE p \in registered : next_thread[p] = t
       IN [head |-> head, next |-> [next_thread EXCEPT ![prev] = next_thread[t]]]

\* The last thread ends the process instead.
Unregister(t) ==
  /\ Parent /\ listOwner = t /\ t \in registered
  /\ registered # {t}
  /\ head' = Unlinked(t).head
  /\ next_thread' = Unlinked(t).next
  /\ registered' = registered \ {t}
  /\ listOwner' = Null
  /\ UNCHANGED <<started, childVars>>

\* (Variant of ResetProcess: the mutex keeps its state.)
ResetProcessLocked(t) ==
  /\ child' = t
  /\ it' = head
  /\ UNCHANGED listOwner

\* In the child: reset_process() up to the loop of free_all_other_threads()
ResetProcess(t) ==
  /\ child' = t
  /\ listOwner' = Null
  /\ it' = head

(* A thread that is not in MAMBO's list code forks; the child returns from clone. *)
ForkProcess(t) ==
  /\ Parent /\ t \in registered /\ listOwner # t
  /\ ResetProcess(t)
  /\ UNCHANGED <<head, next_thread, registered, started, munmapped, resetDone, touched>>

\* (Variant of FreedOther: the loop frees the structure of the thread itself too.)
FreedOtherAll(t) == {t}

\* What one turn of the loop frees
FreedOther(t) == {t} \ {child}

(* One turn of free_all_other_threads(): next is read from the thread itself, *)
(* not from it; free_thread_data() reads it.                                  *)
FreeOther ==
  /\ ~Parent /\ ~resetDone /\ it # Null /\ ~touched
  /\ munmapped' = munmapped \cup FreedOther(it)
  /\ touched' = (it \in munmapped)
  /\ it' = next_thread[child]
  /\ UNCHANGED <<head, next_thread, registered, listOwner, started, child, resetDone>>

(* The end of the loop and of reset_process() *)
FreeDone ==
  /\ ~Parent /\ ~resetDone /\ it = Null
  /\ head' = child
  /\ resetDone' = TRUE
  /\ UNCHANGED <<next_thread, registered, listOwner, started, child, it, munmapped, touched>>

ForkNext ==
  \/ \E t \in FThread : LockThreadList(t) \/ Register(t) \/ Unregister(t) \/ ForkProcess(t)
  \/ FreeOther \/ FreeDone

ForkSpec == ForkInit /\ [][ForkNext]_forkVars

-----------------------------------------------------------------------------
\* The nodes that a walk of the list from its head meets, the Null that ends it
\* included: the smallest set that has the head and the next of its nodes.
Follows(S) == head \in S /\ \A p \in S \ {Null} : next_thread[p] \in S
Walked == {p \in FThread \cup {Null} : \A S \in SUBSET (FThread \cup {Null}) : Follows(S) => p \in S}
Listed == Walked \ {Null}

(* While no list operation is under way, the list holds exactly the threads  *)
(* that run, whatever the order in which they started and exited, and ends.  *)
ListHoldsRunning ==
  Parent => /\ Listed = registered
            /\ Null \in Walked

(* A fork by the oldest thread of the process (the end of the list) leaves   *)
(* the child with a list that holds just itself, and the child never uses a  *)
(* structure that it has freed, its own included.                            *)
OldestForks ==
  (~Parent /\ next_thread[child] = Null) =>
    /\ ~touched /\ child \notin munmapped
    /\ resetDone => Listed = {child}

(* The child can take the lock of the list, even if another thread of its    *)
(* parent held it at the fork.                                               *)
ChildLocksList == ~Parent => listOwner \in {Null, child}

(* The thread list is exact in the parent, and usable in a child of the      *)
(* oldest thread, whatever the others did at the fork.                       *)
ThreadListSound == ListHoldsRunning /\ OldestForks /\ ChildLocksList
=============================================================================
