------------------------------ MODULE DataRace ------------------------------
(***************************************************************************)
(* The data race plugin: the handlers of plugins/datarace/datarace.c and   *)
(* the two detectors it can be built with, DJIT+ (detectors/djit.c) and    *)
(* FastTrack (detectors/fasttrack.c).  The detectors share the clocks of   *)
(* threads and mutexes, whose code is the same in both files, and are run  *)
(* side by side on the events of one program.                              *)
(*                                                                         *)
(* The program under MAMBO creates and joins threads, locks and unlocks    *)
(* mutexes and reads and writes variables.  The instrumented code runs a   *)
(* handler in the thread of the event.  The handlers of different threads  *)
(* interleave: between the check of an access and the update of the        *)
(* variable, and between clone() returning in the parent and the callback  *)
(* that commits the FORK in the child, which register_thread() calls after *)
(* dbm_start_thread_pth() has released the parent.                         *)
(*                                                                         *)
(* happened[t] is the reference: the accesses that happen before what      *)
(* thread t does next, by program order, creation, join and mutexes.       *)
(***************************************************************************)
EXTENDS Integers, FiniteSets

CONSTANTS
  Thread,      \* the threads a program may create, by kernel tid
  Main,        \* the initial one
  NoTid,       \* tid 0: a pthread_t that is not in tid_map
  Mutex, Var,  \* addresses of mutexes and of variables
  PthreadT,    \* values of pthread_t; reused once their thread is joined
  None,        \* no mutex, no variable, no pthread_t
  VcSize,      \* VC_INITIAL_SZ: the number of tids the vector clocks have room for
  MaxSegment,  \* bound on the unlocks and creations of one thread
  MaxAccesses  \* bound on the accesses of all threads

ASSUME ThreadAssumption == Main \in Thread /\ NoTid \notin Thread /\ None \notin PthreadT \union Mutex \union Var
ASSUME BoundAssumption == MaxSegment \in Nat /\ MaxAccesses \in Nat

Tid == Thread \union {NoTid}

ASSUME SizeAssumption == IsFiniteSet(Tid) /\ Cardinality(Tid) <= VcSize

Kinds == {"read", "write"}

VARIABLES
  (* the program *)
  pc,          \* where each thread is
  parent,      \* who created it
  handle,      \* its pthread_t
  holder,      \* who holds each mutex
  joinee,      \* whom a thread is joining
  (* the plugin *)
  shared_parent_data, tid_map, mutex, joining_tid,
  (* the detectors *)
  vc,          \* thread_t.vc
  lockVc,      \* lock_t.vc
  djit,        \* variable_t of DJIT+: rx, wx
  fast,        \* variable_t of FastTrack: rx_vc, rx_epoch, wx_epoch, is_shared
  todo,        \* what an access that passed its check will write
  djitReports, fastReports, \* the variables on which a race was printed
  (* the reference, and what the properties need to know of the run *)
  segment, accesses, happened, released, raced, overlapped, overtaken

program == <<pc, parent, handle, holder, joinee>>
pluginState == <<shared_parent_data, tid_map, mutex, joining_tid>>
variables == <<djit, fast, todo, djitReports, fastReports>>
reference == <<segment, accesses, happened, released, raced, overlapped, overtaken>>
raceVars == <<program, pluginState, vc, lockVc, variables, reference>>

-----------------------------------------------------------------------------
(* Vector clocks and epochs *)

(* vector_clock_init(). *)
ZeroClock == [u \in Tid |-> 0]

(* vector_clock_increment(). *)
Increment(c, t) == [c EXCEPT ![t] = @ + 1]

(* vector_clock_update(): the entrywise maximum. *)
Update(c, other) == [u \in Tid |-> IF c[u] < other[u] THEN other[u] ELSE c[u]]

(* vector_clock_happens_before(). *)
HappensBefore(c, other) == \A u \in Tid : c[u] <= other[u]

(* epoch_init(). *)
ZeroEpoch == [thread |-> Main, clock |-> 0]

(* epoch_happens_before_vc(). *)
EpochHappensBefore(e, c) == e.clock <= c[e.thread]

(* thread_init(): a new thread starts at clock 1. *)
FreshClock(t) == Increment(ZeroClock, t)

(* variable_init() of djit.c. *)
NewDjitVariable == [rx |-> ZeroClock, wx |-> ZeroClock]

(* variable_init() of fasttrack.c, which leaves is_shared as malloc() found it. *)
NewFastVariables == [rx_vc : {ZeroClock}, rx_epoch : {ZeroEpoch}, wx_epoch : {ZeroEpoch}, is_shared : BOOLEAN]

-----------------------------------------------------------------------------
(* A handler of t runs while the FORK of one of t's children is not committed yet. *)
Overtakes(t) == \E u \in Thread : pc[u] = "starting" /\ parent[u] = t

IsRunning(t) == pc[t] = "running"

-----------------------------------------------------------------------------
(* Creation *)

(* datarace_pre_clone() stores the pthread_t of the child in the parent;     *)
(* dbm_create_thread() copies it.  The parent runs on when the child has set *)
(* its tid, which it does before it calls register_thread().                 *)
Clone(t, u, p) ==
  /\ IsRunning(t) /\ pc[u] = "none" /\ segment[t] < MaxSegment
  /\ \A w \in Thread : pc[w] \notin {"none", "joined"} => handle[w] # p
  /\ pc' = [pc EXCEPT ![u] = "starting"]
  /\ parent' = [parent EXCEPT ![u] = t]
  /\ handle' = [handle EXCEPT ![u] = p]
  /\ shared_parent_data' = [shared_parent_data EXCEPT ![t] = p, ![u] = p]
  /\ segment' = [segment EXCEPT ![t] = @ + 1]
  /\ happened' = [happened EXCEPT ![u] = happened[t]]
  /\ UNCHANGED <<holder, joinee, tid_map, mutex, joining_tid, vc, lockVc, variables,
                 accesses, released, raced, overlapped, overtaken>>

(* (Variant of ForkClocks: the parent's clock stays as it is.) *)
ForkClocksNoIncrement(t, u) == [vc EXCEPT ![u] = Update(vc[u], vc[t])]

(* process_fork() and thread_fork(). *)
ForkClocks(t, u) == [vc EXCEPT ![u] = Update(vc[u], vc[t]), ![t] = Increment(vc[t], t)]

(* (Variant of MapTid: a pthread_t keeps its first tid.) *)
MapTidOnce(p, u) == IF tid_map[p] = NoTid THEN [tid_map EXCEPT ![p] = u] ELSE tid_map

(* mambo_ht_add(): a pthread_t that is in the map already gets the new tid. *)
MapTid(p, u) == [tid_map EXCEPT ![p] = u]

(* datarace_pre_thread_handler(), called by register_thread() in the child. *)
PreThread(u) ==
  /\ pc[u] = "starting"
  /\ pc' = [pc EXCEPT ![u] = "running"]
  /\ vc' = ForkClocks(parent[u], u)
  /\ tid_map' = MapTid(shared_parent_data[u], u)
  /\ UNCHANGED <<parent, handle, holder, joinee, shared_parent_data, mutex, joining_tid,
                 lockVc, variables, reference>>

(* The thread returns from its start routine. *)
Exit(t) ==
  /\ IsRunning(t) /\ \A m \in Mutex : holder[m] # t
  /\ pc' = [pc EXCEPT ![t] = "done"]
  /\ UNCHANGED <<parent, handle, holder, joinee, pluginState, vc, lockVc, variables, reference>>

-----------------------------------------------------------------------------
(* Join *)

(* get_child_tid(): the tid is looked up before pthread_join() waits. *)
PreJoin(t, u) ==
  /\ IsRunning(t) /\ pc[u] \in {"starting", "running", "locking", "joining", "updating", "done"}
  /\ u # t /\ u # Main /\ \A w \in Thread : pc[w] = "joining" => joinee[w] # u
  /\ pc' = [pc EXCEPT ![t] = "joining"]
  /\ joinee' = [joinee EXCEPT ![t] = u]
  /\ joining_tid' = [joining_tid EXCEPT ![t] = tid_map[handle[u]]]
  /\ overtaken' = (overtaken \/ pc[u] = "starting")
  /\ UNCHANGED <<parent, handle, holder, shared_parent_data, tid_map, mutex, vc, lockVc,
                 variables, segment, accesses, happened, released, raced, overlapped>>

(* thread_join(). *)
JoinClocks(t, u) == [vc EXCEPT ![t] = Update(vc[t], vc[u]), ![u] = Increment(vc[u], u)]

(* handle_join() and process_join(), when pthread_join() has returned. *)
PostJoin(t) ==
  /\ pc[t] = "joining" /\ pc[joinee[t]] = "done"
  /\ pc' = [pc EXCEPT ![t] = "running", ![joinee[t]] = "joined"]
  /\ vc' = JoinClocks(t, joining_tid[t])
  /\ happened' = [happened EXCEPT ![t] = @ \union happened[joinee[t]]]
  /\ overtaken' = (overtaken \/ Overtakes(t))
  /\ UNCHANGED <<parent, handle, holder, joinee, pluginState, lockVc, variables,
                 segment, accesses, released, raced, overlapped>>

-----------------------------------------------------------------------------
(* Mutexes *)

(* lock_save_mutex(). *)
PreLock(t, m) ==
  /\ IsRunning(t) /\ holder[m] # t
  /\ pc' = [pc EXCEPT ![t] = "locking"]
  /\ mutex' = [mutex EXCEPT ![t] = m]
  /\ UNCHANGED <<parent, handle, holder, joinee, shared_parent_data, tid_map, joining_tid,
                 vc, lockVc, variables, reference>>

(* lock_acquire(). *)
AcquireClocks(t, m) == [vc EXCEPT ![t] = Update(@, lockVc[m])]

(* handle_lock(), after pthread_mutex_lock() has taken the mutex.  Nobody *)
(* else handles this mutex between the two.                               *)
PostLock(t) ==
  /\ pc[t] = "locking" /\ holder[mutex[t]] = NoTid
  /\ pc' = [pc EXCEPT ![t] = "running"]
  /\ holder' = [holder EXCEPT ![mutex[t]] = t]
  /\ vc' = AcquireClocks(t, mutex[t])
  /\ happened' = [happened EXCEPT ![t] = @ \union released[mutex[t]]]
  /\ overtaken' = (overtaken \/ Overtakes(t))
  /\ UNCHANGED <<parent, handle, joinee, pluginState, lockVc, variables,
                 segment, accesses, released, raced, overlapped>>

(* lock_release(): the mutex, then the thread. *)
ReleaseClock(t, m) == [lockVc EXCEPT ![m] = Update(@, vc[t])]
ReleaseThread(t) == [vc EXCEPT ![t] = Increment(@, t)]

(* process_unlock(), before pthread_mutex_unlock() frees the mutex. *)
PreUnlock(t, m) ==
  /\ IsRunning(t) /\ holder[m] = t /\ segment[t] < MaxSegment
  /\ lockVc' = ReleaseClock(t, m)
  /\ vc' = ReleaseThread(t)
  /\ holder' = [holder EXCEPT ![m] = NoTid]
  /\ segment' = [segment EXCEPT ![t] = @ + 1]
  /\ released' = [released EXCEPT ![m] = happened[t]]
  /\ overtaken' = (overtaken \/ Overtakes(t))
  /\ UNCHANGED <<pc, parent, handle, joinee, pluginState, variables, accesses, happened,
                 raced, overlapped>>

-----------------------------------------------------------------------------
(* Accesses *)

Access(t, x, k) == [thread |-> t, segment |-> segment[t], stamp |-> vc[t][t], var |-> x, kind |-> k]

Conflicting(k, l) == k = "write" \/ l = "write"

(* Some earlier access to x conflicts with one of kind k by t and is not ordered before it. *)
RaceOn(t, x, k) == \E a \in accesses : a.var = x /\ Conflicting(a.kind, k) /\ a \notin happened[t]

(* (Variant of DjitRaceFree: a write is only compared with writes.) *)
DjitRaceFreeWrites(t, x, k) == HappensBefore(djit[x].wx, vc[t])

(* (Variant of DjitRaceFree: a read is compared with reads, too.) *)
DjitRaceFreeReads(t, x, k) == HappensBefore(djit[x].wx, vc[t]) /\ HappensBefore(djit[x].rx, vc[t])

(* variable_read_is_race_free() and variable_write_is_race_free(). *)
DjitRaceFree(t, x, k) ==
  /\ HappensBefore(djit[x].wx, vc[t])
  /\ k = "write" => HappensBefore(djit[x].rx, vc[t])

(* variable_update_read() and variable_update_write() of djit.c, after the check. *)
DjitSet(t, x, k) ==
  IF k = "read" THEN [djit EXCEPT ![x].rx[t] = vc[t][t]] ELSE [djit EXCEPT ![x].wx[t] = vc[t][t]]

(* The same epoch as in the last access of this kind: nothing to do. *)
FastSameEpoch(t, x, k) ==
  LET e == IF k = "read" THEN fast[x].rx_epoch ELSE fast[x].wx_epoch
  IN \/ e = [thread |-> t, clock |-> vc[t][t]]
     \/ k = "read" /\ fast[x].is_shared /\ fast[x].rx_vc[t] = vc[t][t]

(* The checks that return 0 in variable_update_read() and variable_update_write() of fasttrack.c. *)
FastRaceFree(t, x, k) ==
  /\ EpochHappensBefore(fast[x].wx_epoch, vc[t])
  /\ k = "write" => IF fast[x].is_shared THEN HappensBefore(fast[x].rx_vc, vc[t])
                                         ELSE EpochHappensBefore(fast[x].rx_epoch, vc[t])

(* How variable_update_read() will record the read. *)
FastReadPath(t, x) ==
  IF fast[x].is_shared THEN "vector"
  ELSE IF EpochHappensBefore(fast[x].rx_epoch, vc[t]) THEN "epoch" ELSE "share"

(* (Variant of FastSet: on becoming shared, the read that was in the epoch is dropped.) *)
FastSetForgets(t, x, how) ==
  LET v == fast[x]
      now == vc[t][t]
  IN [fast EXCEPT ![x] = CASE how = "write"  -> [v EXCEPT !.wx_epoch = [thread |-> t, clock |-> now]]
                           [] how = "epoch"  -> [v EXCEPT !.rx_epoch = [thread |-> t, clock |-> now]]
                           [] how = "vector" -> [v EXCEPT !.rx_vc[t] = now]
                           [] how = "share"  -> [v EXCEPT !.rx_vc[t] = now, !.is_shared = TRUE]]

(* variable_update_read() and variable_update_write() of fasttrack.c, after the checks. *)
FastSet(t, x, how) ==
  LET v == fast[x]
      now == vc[t][t]
  IN [fast EXCEPT ![x] = CASE how = "write"  -> [v EXCEPT !.wx_epoch = [thread |-> t, clock |-> now]]
                           [] how = "epoch"  -> [v EXCEPT !.rx_epoch = [thread |-> t, clock |-> now]]
                           [] how = "vector" -> [v EXCEPT !.rx_vc[t] = now]
                           [] how = "share"  -> [v EXCEPT !.rx_vc[v.rx_epoch.thread] = v.rx_epoch.clock,
                                                          !.rx_vc[t] = now, !.is_shared = TRUE]]

Accessing(t) == pc[t] \in {"updating"}

NoTodo == [var |-> None, kind |-> "read", djit |-> FALSE, fast |-> "none"]

(* process_read() and process_write() up to the checks.  The access itself, *)
(* for the reference, happens here.                                         *)
CheckAccess(t, x, k) ==
  LET fastPasses == FastSameEpoch(t, x, k) \/ FastRaceFree(t, x, k)
      fastTodo == IF FastSameEpoch(t, x, k) \/ ~FastRaceFree(t, x, k) THEN "none" ELSE k
      another == \E u \in Thread : Accessing(u) /\ todo[u].var = x
  IN /\ IsRunning(t)
     /\ Access(t, x, k) \in accesses \/ Cardinality(accesses) < MaxAccesses
     /\ todo' = [todo EXCEPT ![t] = [var |-> x, kind |-> k, djit |-> DjitRaceFree(t, x, k), fast |-> fastTodo]]
     /\ djitReports' = IF DjitRaceFree(t, x, k) THEN djitReports ELSE djitReports \union {x}
     /\ fastReports' = IF fastPasses THEN fastReports ELSE fastReports \union {x}
     /\ pc' = [pc EXCEPT ![t] = "updating"]
     /\ accesses' = accesses \union {Access(t, x, k)}
     /\ happened' = [happened EXCEPT ![t] = @ \union {Access(t, x, k)}]
     /\ raced' = IF RaceOn(t, x, k) THEN raced \union {x} ELSE raced
     /\ overlapped' = IF another THEN overlapped \union {x} ELSE overlapped
     /\ overtaken' = (overtaken \/ Overtakes(t))
     /\ UNCHANGED <<parent, handle, holder, joinee, pluginState, vc, lockVc, djit, fast,
                    segment, released>>

(* The updates, and the return to the program. *)
SetVariable(t) ==
  /\ pc[t] = "updating"
  /\ pc' = [pc EXCEPT ![t] = "running"]
  /\ djit' = IF todo[t].djit THEN DjitSet(t, todo[t].var, todo[t].kind) ELSE djit
  /\ fast' = CASE todo[t].fast = "none"  -> fast
               [] todo[t].fast = "write" -> FastSet(t, todo[t].var, "write")
               [] todo[t].fast = "read"  -> FastSet(t, todo[t].var, FastReadPath(t, todo[t].var))
  /\ todo' = [todo EXCEPT ![t] = NoTodo]
  /\ UNCHANGED <<parent, handle, holder, joinee, pluginState, vc, lockVc,
                 djitReports, fastReports, reference>>

-----------------------------------------------------------------------------
(* The lists of detector.h.  smart_get appends an element on first use: all *)
(* elements are there from the start, as they would be appended.            *)
ThreadList == [t \in Tid |-> FreshClock(t)]
LockList == [m \in Mutex |-> ZeroClock]
DjitVariableList == [x \in Var |-> NewDjitVariable]
FastVariableLists == [Var -> NewFastVariables]

RaceInit ==
  /\ pc = [t \in Thread |-> IF t = Main THEN "running" ELSE "none"]
  /\ parent = [t \in Thread |-> NoTid]
  /\ handle = [t \in Thread |-> None]
  /\ holder = [m \in Mutex |-> NoTid]
  /\ joinee = [t \in Thread |-> NoTid]
  /\ shared_parent_data = [t \in Thread |-> None]
  /\ tid_map = [p \in PthreadT |-> NoTid]
  /\ mutex = [t \in Thread |-> None]
  /\ joining_tid = [t \in Thread |-> NoTid]
  /\ vc = ThreadList /\ lockVc = LockList
  /\ djit = DjitVariableList /\ fast \in FastVariableLists
  /\ todo = [t \in Thread |-> NoTodo]
  /\ djitReports = {} /\ fastReports = {}
  /\ segment = [t \in Thread |-> 0]
  /\ accesses = {}
  /\ happened = [t \in Thread |-> {}]
  /\ released = [m \in Mutex |-> {}]
  /\ raced = {} /\ overlapped = {} /\ overtaken = FALSE

RaceNext ==
  \E t \in Thread :
    \/ \E u \in Thread, p \in PthreadT : Clone(t, u, p)
    \/ PreThread(t)
    \/ Exit(t)
    \/ \E u \in Thread : PreJoin(t, u)
    \/ PostJoin(t)
    \/ \E m \in Mutex : PreLock(t, m) \/ PreUnlock(t, m)
    \/ PostLock(t)
    \/ \E x \in Var, k \in Kinds : CheckAccess(t, x, k)
    \/ SetVariable(t)

RaceSpec == RaceInit /\ [][RaceNext]_raceVars

-----------------------------------------------------------------------------
(* Properties *)

(* The clocks of the detectors (vector_clock_update() and                   *)
(* vector_clock_increment() in thread_fork(), thread_join(), lock_acquire() *)
(* and lock_release()) order an access before what a thread does next       *)
(* exactly when it happens before it, as long as no parent overtakes the    *)
(* FORK of its child.                                                       *)
ClocksAreHappensBefore ==
  ~overtaken => \A t \in Thread, a \in accesses :
                   pc[t] \notin {"none", "starting"} => (a \in happened[t] <=> a.stamp <= vc[t][a.thread])

(* DJIT+ (variable_update_read(), variable_update_write()) prints a race on *)
(* a variable only if two accesses to it really are unordered, however the  *)
(* handlers of several threads overlap.                                     *)
DjitNeverWrong == ~overtaken => djitReports \subseteq raced

(* DJIT+ prints a race on every variable that has one, unless two handlers  *)
(* worked on that variable at the same time: then both can pass their       *)
(* checks before either has recorded its access.                            *)
DjitFindsRaces == ~overtaken => raced \ overlapped \subseteq djitReports

(* FastTrack, with its epochs in place of most vector clocks, a read vector *)
(* it never clears and an is_shared it never initialises, prints a race on  *)
(* the same variables.                                                      *)
FastTrackExact == ~overtaken => fastReports \ overlapped = raced \ overlapped

(* datarace_post_pthread_join() commits the JOIN of the thread that was     *)
(* joined, also when its pthread_t belonged to an earlier thread before.    *)
JoinsTheRightThread ==
  ~overtaken => \A t \in Thread : pc[t] = "joining" => joining_tid[t] = joinee[t]

(* Both detectors are exact: DJIT+ never reports a variable without a race   *)
(* and, like FastTrack, reports every variable that has one, handlers that   *)
(* overlapped on it excepted.                                                *)
DetectorsExact == DjitNeverWrong /\ DjitFindsRaces /\ FastTrackExact

(* The order that the detectors keep is happens-before, through forks, locks *)
(* and joins of the right thread.                                            *)
OrderExact == ClocksAreHappensBefore /\ JoinsTheRightThread
====
