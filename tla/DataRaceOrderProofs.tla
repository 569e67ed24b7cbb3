------------------------- MODULE DataRaceOrderProofs ------------------------
(***************************************************************************)
(* Proofs about the clocks of DataRace, for any number of threads,         *)
(* mutexes, variables, accesses and segments: the order that the detectors *)
(* keep is happens-before.                                                 *)
(***************************************************************************)
EXTENDS DataRace, TLAPS

\* Where a thread can be.
Pcs == {"none", "starting", "running", "locking", "joining", "updating", "done", "joined"}
\* An access of the program, with the own clock of its thread when it was made.
AccessType == [thread : Thread, segment : Nat, stamp : Nat, var : Var, kind : Kinds]
\* A vector clock.
Clock == [Tid -> Nat]

\* The types of the program, the plugin and the clocks.
OrderTypes ==
  /\ pc \in [Thread -> Pcs]
  /\ parent \in [Thread -> Tid]
  /\ handle \in [Thread -> PthreadT \union {None}]
  /\ holder \in [Mutex -> Tid]
  /\ joinee \in [Thread -> Tid]
  /\ shared_parent_data \in [Thread -> PthreadT \union {None}]
  /\ tid_map \in [PthreadT -> Tid]
  /\ mutex \in [Thread -> Mutex \union {None}]
  /\ joining_tid \in [Thread -> Tid]
  /\ vc \in [Tid -> Clock]
  /\ lockVc \in [Mutex -> Clock]
  /\ segment \in [Thread -> Nat]
  /\ accesses \in SUBSET AccessType
  /\ happened \in [Thread -> SUBSET accesses]
  /\ released \in [Mutex -> SUBSET accesses]
  /\ overtaken \in BOOLEAN

\* A thread whose FORK is committed, by datarace_pre_thread_handler().
Active(t) == pc[t] \notin {"none", "starting"}

\* A pthread_t of a live thread is its own, and tid_map takes it to the tid of
\* that thread once its FORK is committed.
ThreadInv ==
  /\ Active(Main)
  /\ \A t \in Thread :
       /\ t # Main /\ pc[t] # "none" => handle[t] \in PthreadT
       /\ t # Main /\ Active(t) /\ pc[t] # "joined" => tid_map[handle[t]] = t
       /\ pc[t] = "starting" =>
            /\ parent[t] \in Thread \ {t} /\ Active(parent[t])
            /\ shared_parent_data[t] = handle[t]
       /\ pc[t] = "locking" => mutex[t] \in Mutex
       /\ pc[t] = "joining" => joinee[t] \in Thread \ {t}
       /\ \A u \in Thread \ {t} :
            pc[t] \notin {"none", "joined"} /\ pc[u] \notin {"none", "joined"} => handle[t] # handle[u]

\* A clock has reached the clock at which the access was made.
Knows(c, a) == a.stamp <= c[a.thread]

\* Nobody, neither another thread nor a mutex, is as far in the component of a
\* thread as the thread itself. So an access that the thread makes now is known
\* to nobody else.
OwnClocks ==
  \A t \in Thread :
    /\ 1 <= vc[t][t]
    /\ ~Active(t) => \A v \in Tid : vc[t][v] = IF v = t THEN 1 ELSE 0
    /\ \A u \in Thread \ {t} : vc[u][t] < vc[t][t]
    /\ \A m \in Mutex : lockVc[m][t] < vc[t][t]

\* What the clock of a thread, of the parent of a thread that starts, or of a
\* mutex knows is what happened before it. A held mutex knows no more than its
\* holder, so a release loses nothing.
Ordered ==
  /\ \A a \in accesses : Active(a.thread) /\ 1 <= a.stamp /\ a.stamp <= vc[a.thread][a.thread]
  /\ \A t \in Thread : Active(t) => \A a \in accesses : a \in happened[t] <=> Knows(vc[t], a)
  /\ \A t \in Thread : pc[t] = "starting" =>
       \A a \in accesses : a \in happened[t] <=> Knows(vc[parent[t]], a)
  /\ \A m \in Mutex : \A a \in accesses : a \in released[m] <=> Knows(lockVc[m], a)
  /\ \A m \in Mutex : holder[m] # NoTid => \A v \in Tid : lockVc[m][v] <= vc[holder[m]][v]

\* The inductive invariant: the clocks can only be reasoned about while no parent
\* has overtaken the FORK of its child.
OrderInv == OrderTypes /\ ThreadInv /\ (~overtaken => OwnClocks /\ Ordered /\ JoinsTheRightThread)

-----------------------------------------------------------------------------
\* vector_clock_update() and vector_clock_increment(), entry by entry.
LEMMA ClockFacts ==
  ASSUME NEW c \in Clock, NEW d \in Clock
  PROVE  /\ Update(c, d) \in Clock
         /\ \A v \in Tid : Update(c, d)[v] = IF c[v] < d[v] THEN d[v] ELSE c[v]
         /\ \A v \in Tid : c[v] <= Update(c, d)[v] /\ d[v] <= Update(c, d)[v]
         /\ \A t \in Tid : /\ Increment(c, t) \in Clock
                           /\ Increment(c, t)[t] = c[t] + 1
                           /\ \A v \in Tid \ {t} : Increment(c, t)[v] = c[v]
BY DEF Clock, Update, Increment

\* The main thread alone, all clocks fresh.
LEMMA InitOrder == RaceInit => OrderInv
<1> SUFFICES ASSUME RaceInit PROVE OrderInv
  OBVIOUS
<1>1. ZeroClock \in Clock /\ \A t \in Tid : FreshClock(t) \in Clock
  BY ClockFacts DEF ZeroClock, Clock, FreshClock
<1>2. \A t \in Tid : \A v \in Tid : FreshClock(t)[v] = IF v = t THEN 1 ELSE 0
  BY DEF ZeroClock, FreshClock, Increment
<1>3. OrderTypes
  BY <1>1, ThreadAssumption, Zenon DEF RaceInit, OrderTypes, ThreadList, LockList, Pcs, Tid
<1>4. ThreadInv
  BY ThreadAssumption, Zenon DEF RaceInit, ThreadInv, Active
<1>5. OwnClocks
  <2>1. \A t \in Thread : t \in Tid /\ t # NoTid
    BY ThreadAssumption, Zenon DEF Tid
  <2>2. vc = [t \in Tid |-> FreshClock(t)] /\ lockVc = [m \in Mutex |-> ZeroClock]
    BY Zenon DEF RaceInit, ThreadList, LockList
  <2>3. \A v \in Tid : ZeroClock[v] = 0
    BY Zenon DEF ZeroClock
  <2> HIDE DEF FreshClock, ZeroClock
  <2> QED
    BY <1>2, <2>1, <2>2, <2>3 DEF OwnClocks
<1>6. Ordered /\ JoinsTheRightThread
  BY Zenon DEF RaceInit, Ordered, JoinsTheRightThread, ZeroClock, LockList
<1> QED
  BY <1>3, <1>4, <1>5, <1>6, Zenon DEF OrderInv

\* datarace_pre_clone() changes no clock; the child inherits what happened before
\* its parent.
LEMMA CloneOrder ==
  ASSUME OrderInv, NEW t \in Thread, NEW u \in Thread, NEW p \in PthreadT, Clone(t, u, p)
  PROVE  OrderInv'
<1>1. OrderTypes /\ ThreadInv /\ t # u /\ pc[t] = "running" /\ pc[u] = "none"
  BY Zenon DEF OrderInv, Clone, IsRunning
<1>2. OrderTypes'
  BY <1>1 DEF OrderTypes, Clone, Pcs, variables, Tid
<1>3. ThreadInv'
  BY <1>1, ThreadAssumption DEF OrderTypes, ThreadInv, Clone, variables, Active, Pcs
<1>4. ASSUME ~overtaken' PROVE OwnClocks' /\ Ordered' /\ JoinsTheRightThread'
  <2>1. OwnClocks /\ Ordered /\ JoinsTheRightThread
    BY <1>4, Zenon DEF OrderInv, Clone
  <2>2. OwnClocks'
    BY <1>1, <2>1, Zenon DEF OrderTypes, OwnClocks, Active, Clone
  <2>3. JoinsTheRightThread'
    BY <1>1, <2>1, Zenon DEF OrderTypes, JoinsTheRightThread, Clone
  <2>4. Ordered'
    BY <1>1, <2>1, SMTT(30) DEF OrderTypes, Ordered, Active, Clone, Knows
  <2> QED
    BY <2>2, <2>3, <2>4, Zenon
<1> QED
  BY <1>2, <1>3, <1>4, Zenon DEF OrderInv

\* thread_fork() gives the child what the parent knows and moves the parent on.
LEMMA PreThreadOrder ==
  ASSUME OrderInv, NEW u \in Thread, PreThread(u)
  PROVE  OrderInv'
<1> DEFINE t == parent[u]
<1>1. OrderTypes /\ ThreadInv /\ t \in Thread /\ t # u /\ pc[u] = "starting" /\ Active(t)
      /\ handle[u] \in PthreadT /\ shared_parent_data[u] = handle[u] /\ u # Main
  BY Zenon DEF OrderInv, PreThread, ThreadInv, Active
<1>2. t \in Tid /\ u \in Tid /\ vc[t] \in Clock /\ vc[u] \in Clock
  BY <1>1, Zenon DEF OrderTypes, Tid
<1> HIDE DEF t
<1>3. /\ vc' = [vc EXCEPT ![u] = Update(vc[u], vc[t]), ![t] = Increment(vc[t], t)]
      /\ pc' = [pc EXCEPT ![u] = "running"] /\ tid_map' = [tid_map EXCEPT ![handle[u]] = u]
      /\ UNCHANGED <<parent, handle, holder, joinee, shared_parent_data, mutex, joining_tid,
                     lockVc, segment, accesses, happened, released, overtaken>>
  BY <1>1, Zenon DEF PreThread, ForkClocks, MapTid, variables, reference, t
<1>4. OrderTypes'
  BY <1>1, <1>2, <1>3, ClockFacts, Zenon DEF OrderTypes, Pcs
<1>5. ThreadInv'
  BY <1>1, <1>3, ThreadAssumption DEF OrderTypes, ThreadInv, Active, Pcs
<1>6. ASSUME ~overtaken' PROVE OwnClocks' /\ Ordered' /\ JoinsTheRightThread'
  <2>1. OwnClocks /\ Ordered /\ JoinsTheRightThread
    BY <1>3, <1>6, Zenon DEF OrderInv
  <2>2. /\ \A v \in Tid : vc'[u][v] = IF v = u THEN 1 ELSE vc[t][v]
        /\ vc'[t][t] = vc[t][t] + 1
        /\ \A v \in Tid \ {t} : vc'[t][v] = vc[t][v]
        /\ \A w \in Tid \ {t, u} : vc'[w] = vc[w]
    <3>1. vc'[u] = Update(vc[u], vc[t]) /\ vc'[t] = Increment(vc[t], t)
          /\ \A w \in Tid \ {t, u} : vc'[w] = vc[w]
      BY <1>1, <1>2, <1>3, Zenon DEF OrderTypes
    <3>2. \A v \in Tid : vc[u][v] = IF v = u THEN 1 ELSE 0
      BY <1>1, <2>1, Zenon DEF OwnClocks, Active
    <3>3. vc[t][u] < 1 /\ \A v \in Tid : vc[t][v] \in Nat
      BY <1>1, <1>2, <2>1, <3>2, Zenon DEF OwnClocks, Clock
    <3>4. \A v \in Tid : vc'[u][v] = IF vc[u][v] < vc[t][v] THEN vc[t][v] ELSE vc[u][v]
      BY <1>2, <3>1, ClockFacts
    <3> QED
      BY <1>2, <3>1, <3>2, <3>3, <3>4, ClockFacts
  <2>3. \A w \in Tid : \A v \in Tid : vc[w][v] \in Nat
    BY <1>1, Zenon DEF OrderTypes, Clock
  <2>4. \A w \in Thread : w \in Tid
    BY Zenon DEF Tid
  <2>5. OwnClocks'
    <3> SUFFICES ASSUME NEW w \in Thread
                 PROVE  /\ 1 <= vc'[w][w]
                        /\ ~Active(w)' => \A v \in Tid : vc'[w][v] = IF v = w THEN 1 ELSE 0
                        /\ \A x \in Thread \ {w} : vc'[x][w] < vc'[w][w]
                        /\ \A m \in Mutex : lockVc'[m][w] < vc'[w][w]
      BY Zenon DEF OwnClocks
    <3>1. /\ 1 <= vc[w][w] /\ 1 <= vc[t][t]
          /\ ~Active(w) => \A v \in Tid : vc[w][v] = IF v = w THEN 1 ELSE 0
          /\ \A x \in Thread \ {w} : vc[x][w] < vc[w][w]
          /\ \A m \in Mutex : lockVc[m][w] < vc[w][w] /\ lockVc[m][w] \in Nat
          /\ vc[u][u] = 1
      BY <1>1, <1>2, <2>1, <2>4 DEF OwnClocks, OrderTypes, Clock, Active
    <3>2. vc'[w][w] = IF w = t THEN vc[t][t] + 1 ELSE vc[w][w]
      BY <3>1, <2>2, <2>4, <1>1, Zenon
    <3>3. ~Active(w)' => ~Active(w) /\ w # u /\ w # t
      BY <1>1, <1>3, Zenon DEF Active, OrderTypes
    <3>4. ASSUME NEW x \in Thread \ {w} PROVE vc'[x][w] < vc'[w][w]
      <4>1. vc'[x][w] = IF x = u THEN vc[t][w] ELSE vc[x][w]
        BY <2>2, <2>4, <1>1, Zenon
      <4>2. vc[x][w] < vc[w][w] /\ (w # t => vc[t][w] < vc[w][w])
        BY <3>1, <1>1, Zenon
      <4> QED
        BY <4>1, <4>2, <3>2, <2>3, <2>4
    <3>5. ~Active(w)' => \A v \in Tid : vc'[w][v] = IF v = w THEN 1 ELSE 0
      BY <3>1, <3>3, <2>2, <2>4, Zenon
    <3>6. 1 <= vc'[w][w] /\ \A m \in Mutex : lockVc'[m][w] < vc'[w][w]
      BY <3>1, <3>2, <2>3, <2>4, <1>3
    <3> QED
      BY <3>4, <3>5, <3>6, Zenon
  <2>6. JoinsTheRightThread'
    BY <1>1, <1>3, <2>1, Zenon DEF OrderTypes, JoinsTheRightThread
  <2>7. \A a \in accesses : /\ a.thread \in Thread /\ a.stamp \in Nat /\ Active(a.thread)
                            /\ 1 <= a.stamp /\ a.stamp <= vc[a.thread][a.thread]
    BY <1>1, <2>1, Zenon DEF OrderTypes, AccessType, Ordered
  <2>8. \A a \in accesses : \A w \in Thread : w # u => (Knows(vc'[w], a) <=> Knows(vc[w], a))
    BY <1>1, <2>2, <2>3, <2>4, <2>7 DEF Knows
  <2>9. \A a \in accesses : Knows(vc'[u], a) <=> Knows(vc[t], a)
    BY <1>1, <2>2, <2>4, <2>7, Zenon DEF Knows, Active
  <2>10. Ordered'
    <3>1. \A a \in accesses : Active(a.thread)' /\ 1 <= a.stamp /\ a.stamp <= vc'[a.thread][a.thread]
      BY <2>2, <2>3, <2>4, <2>7, <1>1, <1>3 DEF Active, OrderTypes
    <3>2. ASSUME NEW w \in Thread, NEW a \in accesses, Active(w)'
          PROVE  a \in happened[w] <=> Knows(vc'[w], a)
      <4>1. CASE w = u
        BY <4>1, <2>1, <2>9, <1>1, Zenon DEF Ordered, t
      <4>2. CASE w # u
        <5>1. Active(w)
          BY <4>2, <3>2, <1>1, <1>3, Zenon DEF Active, OrderTypes
        <5> QED
          BY <5>1, <4>2, <2>1, <2>8, Zenon DEF Ordered
      <4> QED
        BY <4>1, <4>2, Zenon
    <3>3. ASSUME NEW w \in Thread, NEW a \in accesses, pc'[w] = "starting"
          PROVE  a \in happened[w] <=> Knows(vc'[parent[w]], a)
      <4>1. pc[w] = "starting" /\ parent[w] \in Thread /\ parent[w] # u
        BY <3>3, <1>1, <1>3 DEF OrderTypes, ThreadInv, Active
      <4> QED
        BY <4>1, <2>1, <2>8, Zenon DEF Ordered
    <3>4. \A m \in Mutex : holder[m] # NoTid => \A v \in Tid : lockVc[m][v] <= vc'[holder[m]][v]
      <4>1. ASSUME NEW m \in Mutex, holder[m] # NoTid, NEW v \in Tid
            PROVE  lockVc[m][v] <= vc'[holder[m]][v]
        <5>1. holder[m] \in Thread /\ lockVc[m][v] <= vc[holder[m]][v] /\ lockVc[m][v] \in Nat
          BY <4>1, <1>1, <2>1, Zenon DEF OrderTypes, Tid, Ordered, Clock
        <5>2. vc[holder[m]][v] <= vc'[holder[m]][v] 
          <6>1. \A q \in Tid : vc[u][q] <= vc'[u][q]
            BY <2>1, <2>2, <2>3, <1>1, <1>2 DEF OwnClocks, Active
          <6> QED
            BY <6>1, <5>1, <2>2, <2>3, <2>4, <1>1
        <5> QED
          BY <5>1, <5>2, <2>3, <2>4, <1>4 DEF OrderTypes, Clock
      <4> QED
        BY <4>1, Zenon
    <3>5. \A m \in Mutex : \A a \in accesses : a \in released[m] <=> Knows(lockVc[m], a)
      BY <2>1, Zenon DEF Ordered
    <3> QED
      BY <3>1, <3>2, <3>3, <3>4, <3>5, <1>3, Zenon DEF Ordered
  <2> QED
    BY <2>5, <2>6, <2>10, Zenon
<1> QED
  BY <1>4, <1>5, <1>6, Zenon DEF OrderInv

\* The return of a thread changes no clock.
LEMMA ExitOrder ==
  ASSUME OrderInv, NEW t \in Thread, Exit(t)
  PROVE  OrderInv'
<1>1. OrderTypes /\ ThreadInv /\ pc[t] = "running"
  BY Zenon DEF OrderInv, Exit, IsRunning
<1>2. /\ pc' = [pc EXCEPT ![t] = "done"]
      /\ UNCHANGED <<parent, handle, holder, joinee, shared_parent_data, tid_map, mutex, joining_tid,
                     vc, lockVc, segment, accesses, happened, released, overtaken>>
  BY Zenon DEF Exit, pluginState, variables, reference
<1>3. OrderTypes' /\ ThreadInv'
  BY <1>1, <1>2, SMTT(30) DEF OrderTypes, Pcs, ThreadInv, Active
<1>4. ASSUME ~overtaken' PROVE OwnClocks' /\ Ordered' /\ JoinsTheRightThread'
  BY <1>1, <1>2, <1>4 DEF OrderInv, OrderTypes, OwnClocks, Ordered, JoinsTheRightThread, Active, Knows
<1> QED
  BY <1>3, <1>4, Zenon DEF OrderInv

\* get_child_tid() finds the tid of the thread that is joined, since its
\* pthread_t is its own.
LEMMA PreJoinOrder ==
  ASSUME OrderInv, NEW t \in Thread, NEW u \in Thread, PreJoin(t, u)
  PROVE  OrderInv'
<1>1. OrderTypes /\ ThreadInv /\ pc[t] = "running" /\ u # t /\ u # Main
      /\ pc[u] \in {"starting", "running", "locking", "joining", "updating", "done"}
  BY Zenon DEF OrderInv, PreJoin, IsRunning
<1>2. /\ pc' = [pc EXCEPT ![t] = "joining"] /\ joinee' = [joinee EXCEPT ![t] = u]
      /\ joining_tid' = [joining_tid EXCEPT ![t] = tid_map[handle[u]]]
      /\ overtaken' = (overtaken \/ pc[u] = "starting")
      /\ UNCHANGED <<parent, handle, holder, shared_parent_data, tid_map, mutex,
                     vc, lockVc, segment, accesses, happened, released>>
  BY Zenon DEF PreJoin, variables
<1>3. handle[u] \in PthreadT /\ (pc[u] # "starting" => tid_map[handle[u]] = u)
  BY <1>1, Zenon DEF ThreadInv, Active
<1>4. OrderTypes' /\ ThreadInv'
  BY <1>1, <1>2, <1>3, SMTT(30) DEF OrderTypes, Pcs, ThreadInv, Active, Tid
<1>5. ASSUME ~overtaken' PROVE OwnClocks' /\ Ordered' /\ JoinsTheRightThread'
  <2>1. ~overtaken /\ pc[u] # "starting"
    BY <1>2, <1>5, Zenon
  <2> QED
    BY <2>1, <1>1, <1>2, <1>3, SMTT(30)
    DEF OrderInv, OrderTypes, OwnClocks, Ordered, JoinsTheRightThread, Active, Knows
<1> QED
  BY <1>4, <1>5, Zenon DEF OrderInv

\* lock_save_mutex() changes no clock.
LEMMA PreLockOrder ==
  ASSUME OrderInv, NEW t \in Thread, NEW m \in Mutex, PreLock(t, m)
  PROVE  OrderInv'
<1>1. OrderTypes /\ ThreadInv /\ pc[t] = "running"
  BY Zenon DEF OrderInv, PreLock, IsRunning
<1>2. /\ pc' = [pc EXCEPT ![t] = "locking"] /\ mutex' = [mutex EXCEPT ![t] = m]
      /\ UNCHANGED <<parent, handle, holder, joinee, shared_parent_data, tid_map, joining_tid,
                     vc, lockVc, segment, accesses, happened, released, overtaken>>
  BY Zenon DEF PreLock, variables, reference
<1>3. OrderTypes' /\ ThreadInv'
  BY <1>1, <1>2, SMTT(30) DEF OrderTypes, Pcs, ThreadInv, Active
<1>4. ASSUME ~overtaken' PROVE OwnClocks' /\ Ordered' /\ JoinsTheRightThread'
  BY <1>1, <1>2, <1>4 DEF OrderInv, OrderTypes, OwnClocks, Ordered, JoinsTheRightThread, Active, Knows
<1> QED
  BY <1>3, <1>4, Zenon DEF OrderInv

\* thread_join() gives the joining thread what the joined one knows and moves the
\* latter on.
LEMMA PostJoinOrder ==
  ASSUME OrderInv, NEW t \in Thread, PostJoin(t)
  PROVE  OrderInv'
<1> DEFINE u == joinee[t]
           j == joining_tid[t]
<1>1. OrderTypes /\ ThreadInv /\ pc[t] = "joining" /\ u \in Thread /\ u # t /\ pc[u] = "done"
  BY Zenon DEF OrderInv, PostJoin, ThreadInv
<1>2. t \in Tid /\ u \in Tid /\ j \in Tid /\ vc[t] \in Clock /\ vc[u] \in Clock /\ vc[j] \in Clock
  BY <1>1, Zenon DEF OrderTypes, Tid
<1>3. /\ vc' = [vc EXCEPT ![t] = Update(vc[t], vc[j]), ![j] = Increment(vc[j], j)]
      /\ pc' = [pc EXCEPT ![t] = "running", ![u] = "joined"]
      /\ happened' = [happened EXCEPT ![t] = @ \union happened[u]]
      /\ overtaken' = (overtaken \/ Overtakes(t))
      /\ UNCHANGED <<parent, handle, holder, joinee, shared_parent_data, tid_map, mutex, joining_tid,
                     lockVc, segment, accesses, released>>
  BY <1>1, Zenon DEF PostJoin, JoinClocks, variables, pluginState
<1>4. \A w \in Thread :
        /\ pc'[w] = IF w = u THEN "joined" ELSE IF w = t THEN "running" ELSE pc[w]
        /\ pc'[w] = "starting" => pc[w] = "starting"
        /\ pc'[w] \in {"none", "starting"} <=> pc[w] \in {"none", "starting"}
  BY <1>1, <1>3, Zenon DEF OrderTypes, Active
<1>5. OrderTypes'
  <2>1. vc' \in [Tid -> Clock]
    BY <1>1, <1>2, <1>3, ClockFacts, Zenon DEF OrderTypes
  <2>2. happened' \in [Thread -> SUBSET accesses]
    BY <1>1, <1>3, Zenon DEF OrderTypes
  <2>3. pc' \in [Thread -> Pcs] /\ overtaken' \in BOOLEAN
    BY <1>1, <1>3, Zenon DEF OrderTypes, Pcs
  <2> QED
    BY <1>1, <1>3, <2>1, <2>2, <2>3, Zenon DEF OrderTypes
<1>6. ThreadInv'
  <2>1. UNCHANGED <<parent, handle, joinee, shared_parent_data, tid_map, mutex>>
    BY <1>3, Zenon
  <2>2. ThreadInv /\ u \in Thread /\ pc[t] = "joining" /\ pc[u] = "done"
    BY <1>1, Zenon
  <2> HIDE DEF u
  <2> QED
    BY ONLY <2>1, <2>2, <1>4, t \in Thread, ThreadAssumption, SMTT(30) DEF ThreadInv, Active
<1>7. ASSUME ~overtaken' PROVE OwnClocks' /\ Ordered' /\ JoinsTheRightThread'
  <2>1. OwnClocks /\ Ordered /\ JoinsTheRightThread /\ ~overtaken /\ ~Overtakes(t)
    BY <1>3, <1>7, Zenon DEF OrderInv
  <2>2. j = u
    BY <1>1, <2>1, Zenon DEF JoinsTheRightThread
  <2> HIDE DEF u, j
  <2>3. /\ \A v \in Tid : vc'[t][v] = IF vc[t][v] < vc[u][v] THEN vc[u][v] ELSE vc[t][v]
        /\ vc'[u][u] = vc[u][u] + 1
        /\ \A v \in Tid \ {u} : vc'[u][v] = vc[u][v]
        /\ \A w \in Tid \ {t, u} : vc'[w] = vc[w]
    <3>1. vc'[t] = Update(vc[t], vc[u]) /\ vc'[u] = Increment(vc[u], u)
          /\ \A w \in Tid \ {t, u} : vc'[w] = vc[w]
      BY <1>1, <1>2, <1>3, <2>2, Zenon DEF OrderTypes
    <3> QED
      BY <3>1, <1>2, ClockFacts
  <2>4. \A w \in Tid : \A v \in Tid : vc[w][v] \in Nat
    BY <1>1, Zenon DEF OrderTypes, Clock
  <2>5. \A w \in Thread : w \in Tid
    BY Zenon DEF Tid
  <2>6. OwnClocks'
    <3> SUFFICES ASSUME NEW w \in Thread
                 PROVE  /\ 1 <= vc'[w][w]
                        /\ ~Active(w)' => \A v \in Tid : vc'[w][v] = IF v = w THEN 1 ELSE 0
                        /\ \A x \in Thread \ {w} : vc'[x][w] < vc'[w][w]
                        /\ \A m \in Mutex : lockVc'[m][w] < vc'[w][w]
      BY Zenon DEF OwnClocks
    <3>1. /\ 1 <= vc[w][w] /\ vc[u][t] < vc[t][t] /\ vc[t][u] < vc[u][u]
          /\ ~Active(w) => \A v \in Tid : vc[w][v] = IF v = w THEN 1 ELSE 0
          /\ \A x \in Thread \ {w} : vc[x][w] < vc[w][w]
          /\ \A m \in Mutex : lockVc[m][w] < vc[w][w] /\ lockVc[m][w] \in Nat
      BY <1>1, <1>2, <2>1, <2>5 DEF OwnClocks, OrderTypes, Clock
    <3>2. vc'[w][w] = IF w = u THEN vc[u][u] + 1 ELSE vc[w][w]
      BY <3>1, <2>3, <2>4, <2>5, <1>1
    <3>3. ~Active(w)' => ~Active(w) /\ w # u /\ w # t
      BY <1>1, <1>3, Zenon DEF Active, OrderTypes, u
    <3>4. ASSUME NEW x \in Thread \ {w} PROVE vc'[x][w] < vc'[w][w]
      <4>1. vc'[x][w] = IF x = t /\ vc[t][w] < vc[u][w] THEN vc[u][w] ELSE vc[x][w]
        BY <2>3, <2>5, <1>1, Zenon
      <4>2. vc[x][w] < vc[w][w] /\ (w # u => vc[u][w] < vc[w][w])
        BY <3>1, <1>1, Zenon
      <4> QED
        BY <4>1, <4>2, <3>2, <2>4, <2>5, <1>2
    <3>5. ~Active(w)' => \A v \in Tid : vc'[w][v] = IF v = w THEN 1 ELSE 0
      BY <3>1, <3>3, <2>3, <2>5, Zenon
    <3>6. 1 <= vc'[w][w] /\ \A m \in Mutex : lockVc'[m][w] < vc'[w][w]
      BY <3>1, <3>2, <2>4, <2>5, <1>3
    <3> QED
      BY <3>4, <3>5, <3>6, Zenon
  <2>7. JoinsTheRightThread'
    BY <1>1, <1>3, <2>1, Zenon DEF OrderTypes, JoinsTheRightThread, u
  <2>8. \A a \in accesses : /\ a.thread \in Thread /\ a.stamp \in Nat /\ Active(a.thread)
                            /\ 1 <= a.stamp /\ a.stamp <= vc[a.thread][a.thread]
    BY <1>1, <2>1, Zenon DEF OrderTypes, AccessType, Ordered
  <2>9. \A a \in accesses : \A w \in Thread : w # t => (Knows(vc'[w], a) <=> Knows(vc[w], a))
    BY <1>1, <2>3, <2>4, <2>5, <2>8 DEF Knows
  <2>10. \A a \in accesses : Knows(vc'[t], a) <=> Knows(vc[t], a) \/ Knows(vc[u], a)
    BY <1>1, <1>2, <2>3, <2>4, <2>5, <2>8 DEF Knows
  <2>11. Ordered'
    <3>1. \A a \in accesses : Active(a.thread)' /\ 1 <= a.stamp /\ a.stamp <= vc'[a.thread][a.thread]
      <4> SUFFICES ASSUME NEW a \in accesses
                   PROVE  Active(a.thread)' /\ 1 <= a.stamp /\ a.stamp <= vc'[a.thread][a.thread]
        OBVIOUS
      <4>1. a.thread \in Thread /\ Active(a.thread)' /\ 1 <= a.stamp
        BY <2>8, <1>4, Zenon DEF Active
      <4>2. Knows(vc[a.thread], a)
        BY <2>8, Zenon DEF Knows
      <4>3. Knows(vc'[a.thread], a)
        BY <4>1, <4>2, <2>9, <2>10, Zenon
      <4> QED
        BY <4>1, <4>3, Zenon DEF Knows
    <3>2. ASSUME NEW w \in Thread, NEW a \in accesses, Active(w)'
          PROVE  a \in happened'[w] <=> Knows(vc'[w], a)
      <4>0. \A y \in Thread : Active(y) => (a \in happened[y] <=> Knows(vc[y], a))
        BY <2>1, Zenon DEF Ordered
      <4>1. CASE w = t
        <5>1. happened'[w] = happened[t] \union happened[u] /\ Active(t) /\ Active(u)
          BY <4>1, <1>1, <1>3, Zenon DEF OrderTypes, Active, u
        <5> QED
          BY <5>1, <4>0, <4>1, <2>10, <1>1, Zenon
      <4>2. CASE w # t
        <5>1. Active(w) /\ happened'[w] = happened[w]
          BY <4>2, <3>2, <1>1, <1>3, Zenon DEF Active, OrderTypes
        <5> QED
          BY <5>1, <4>2, <4>0, <2>9, Zenon
      <4> QED
        BY <4>1, <4>2, Zenon
    <3>3. ASSUME NEW w \in Thread, NEW a \in accesses, pc'[w] = "starting"
          PROVE  a \in happened'[w] <=> Knows(vc'[parent[w]], a)
      <4>1. pc[w] = "starting" /\ parent[w] \in Thread /\ w # t
        BY <3>3, <1>1, <1>3 DEF OrderTypes, ThreadInv, u
      <4>2. parent[w] # t /\ happened'[w] = happened[w]
        BY <4>1, <2>1, <1>1, <1>3, Zenon DEF Overtakes, OrderTypes
      <4> QED
        BY <4>1, <4>2, <2>1, <2>9, Zenon DEF Ordered
    <3>4. \A m \in Mutex : holder[m] # NoTid => \A v \in Tid : lockVc[m][v] <= vc'[holder[m]][v]
      <4>1. ASSUME NEW m \in Mutex, holder[m] # NoTid, NEW v \in Tid
            PROVE  lockVc[m][v] <= vc'[holder[m]][v]
        <5>1. holder[m] \in Thread /\ lockVc[m][v] <= vc[holder[m]][v] /\ lockVc[m][v] \in Nat
          BY <4>1, <1>1, <2>1, Zenon DEF OrderTypes, Tid, Ordered, Clock
        <5>2. vc[holder[m]][v] <= vc'[holder[m]][v]
          BY <5>1, <2>3, <2>4, <2>5, <1>1, <1>2
        <5> QED
          BY <5>1, <5>2, <2>4, <2>5, <1>5 DEF OrderTypes, Clock
      <4> QED
        BY <4>1, Zenon
    <3>5. \A m \in Mutex : \A a \in accesses : a \in released[m] <=> Knows(lockVc[m], a)
      BY <2>1, Zenon DEF Ordered
    <3> QED
      BY <3>1, <3>2, <3>3, <3>4, <3>5, <1>3, Zenon DEF Ordered
  <2> QED
    BY <2>6, <2>7, <2>11, Zenon
<1> QED
  BY <1>5, <1>6, <1>7, Zenon DEF OrderInv

\* lock_acquire() gives the thread what the mutex knows.
LEMMA PostLockOrder ==
  ASSUME OrderInv, NEW t \in Thread, PostLock(t)
  PROVE  OrderInv'
<1> DEFINE l == mutex[t]
<1>1. OrderTypes /\ ThreadInv /\ pc[t] = "locking" /\ l \in Mutex /\ holder[l] = NoTid
  BY Zenon DEF OrderInv, PostLock, ThreadInv
<1>2. t \in Tid /\ vc[t] \in Clock /\ lockVc[l] \in Clock
  BY <1>1, Zenon DEF OrderTypes, Tid
<1>3. /\ vc' = [vc EXCEPT ![t] = Update(vc[t], lockVc[l])]
      /\ pc' = [pc EXCEPT ![t] = "running"]
      /\ holder' = [holder EXCEPT ![l] = t]
      /\ happened' = [happened EXCEPT ![t] = @ \union released[l]]
      /\ overtaken' = (overtaken \/ Overtakes(t))
      /\ UNCHANGED <<parent, handle, joinee, shared_parent_data, tid_map, mutex, joining_tid,
                     lockVc, segment, accesses, released>>
  BY <1>1, <1>2, Zenon DEF PostLock, AcquireClocks, variables, pluginState, OrderTypes
<1> HIDE DEF l
<1>4. \A w \in Thread : /\ pc'[w] = IF w = t THEN "running" ELSE pc[w]
                        /\ Active(w)' <=> Active(w)
  BY <1>1, <1>3, Zenon DEF OrderTypes, Active
<1>5. OrderTypes'
  <2>1. vc' \in [Tid -> Clock]
    BY <1>1, <1>2, <1>3, ClockFacts, Zenon DEF OrderTypes
  <2>2. happened' \in [Thread -> SUBSET accesses] /\ holder' \in [Mutex -> Tid]
    BY <1>1, <1>2, <1>3, Zenon DEF OrderTypes
  <2>3. pc' \in [Thread -> Pcs] /\ overtaken' \in BOOLEAN
    BY <1>1, <1>3, Zenon DEF OrderTypes, Pcs
  <2> QED
    BY <1>1, <1>3, <2>1, <2>2, <2>3, Zenon DEF OrderTypes
<1>6. ThreadInv'
  <2>1. UNCHANGED <<parent, handle, joinee, shared_parent_data, tid_map, mutex>>
    BY <1>3, Zenon
  <2> QED
    BY ONLY <2>1, <1>1, <1>4, t \in Thread, ThreadAssumption, SMTT(30) DEF ThreadInv, Active
<1>7. ASSUME ~overtaken' PROVE OwnClocks' /\ Ordered' /\ JoinsTheRightThread'
  <2>1. OwnClocks /\ Ordered /\ JoinsTheRightThread /\ ~overtaken /\ ~Overtakes(t)
    BY <1>3, <1>7, Zenon DEF OrderInv
  <2>2. /\ \A v \in Tid : vc'[t][v] = IF vc[t][v] < lockVc[l][v] THEN lockVc[l][v] ELSE vc[t][v]
        /\ \A w \in Tid \ {t} : vc'[w] = vc[w]
    <3>1. vc'[t] = Update(vc[t], lockVc[l]) /\ \A w \in Tid \ {t} : vc'[w] = vc[w]
      BY <1>1, <1>2, <1>3, Zenon DEF OrderTypes
    <3> QED
      BY <3>1, <1>2, ClockFacts
  <2>3. /\ \A w \in Tid : \A v \in Tid : vc[w][v] \in Nat
        /\ \A m \in Mutex : \A v \in Tid : lockVc[m][v] \in Nat
    BY <1>1, Zenon DEF OrderTypes, Clock
  <2>4. \A w \in Thread : w \in Tid
    BY Zenon DEF Tid
  <2>5. OwnClocks'
    <3> SUFFICES ASSUME NEW w \in Thread
                 PROVE  /\ 1 <= vc'[w][w]
                        /\ ~Active(w)' => \A v \in Tid : vc'[w][v] = IF v = w THEN 1 ELSE 0
                        /\ \A x \in Thread \ {w} : vc'[x][w] < vc'[w][w]
                        /\ \A m \in Mutex : lockVc'[m][w] < vc'[w][w]
      BY Zenon DEF OwnClocks
    <3>1. /\ 1 <= vc[w][w] /\ lockVc[l][t] < vc[t][t] /\ lockVc[l][w] < vc[w][w]
          /\ ~Active(w) => \A v \in Tid : vc[w][v] = IF v = w THEN 1 ELSE 0
          /\ \A x \in Thread \ {w} : vc[x][w] < vc[w][w]
          /\ \A m \in Mutex : lockVc[m][w] < vc[w][w]
      BY <1>1, <2>1, Zenon DEF OwnClocks
    <3>2. vc'[w][w] = vc[w][w]
      BY <3>1, <2>2, <2>3, <2>4, <1>1
    <3>3. ~Active(w)' => ~Active(w) /\ w # t
      BY <1>1, <1>4, Zenon DEF Active
    <3>4. \A x \in Thread \ {w} : vc'[x][w] < vc'[w][w]
      BY <3>1, <3>2, <2>2, <2>3, <2>4, <1>1, Zenon
    <3>5. ~Active(w)' => \A v \in Tid : vc'[w][v] = IF v = w THEN 1 ELSE 0
      BY <3>1, <3>3, <2>2, <2>4, Zenon
    <3> QED
      BY <3>1, <3>2, <3>4, <3>5, <1>3, Zenon
  <2>6. JoinsTheRightThread'
    BY <1>1, <1>3, <1>4, <2>1 DEF JoinsTheRightThread
  <2>7. \A a \in accesses : /\ a.thread \in Thread /\ a.stamp \in Nat /\ Active(a.thread)
                            /\ 1 <= a.stamp /\ Knows(vc[a.thread], a)
    BY <1>1, <2>1, Zenon DEF OrderTypes, AccessType, Ordered, Knows
  <2>8. \A a \in accesses : \A w \in Thread : w # t => (Knows(vc'[w], a) <=> Knows(vc[w], a))
    BY <2>2, <2>4, Zenon DEF Knows
  <2>9. \A a \in accesses : Knows(vc'[t], a) <=> Knows(vc[t], a) \/ Knows(lockVc[l], a)
    BY <1>1, <1>2, <2>2, <2>3, <2>4, <2>7 DEF Knows
  <2>10. Ordered'
    <3>1. \A a \in accesses : Active(a.thread)' /\ 1 <= a.stamp /\ Knows(vc'[a.thread], a)
      BY <2>7, <2>8, <2>9, <1>4, Zenon
    <3>2. ASSUME NEW w \in Thread, NEW a \in accesses, Active(w)'
          PROVE  a \in happened'[w] <=> Knows(vc'[w], a)
      <4>1. Active(w) /\ (a \in happened[w] <=> Knows(vc[w], a))
            /\ (a \in released[l] <=> Knows(lockVc[l], a))
        BY <3>2, <1>1, <1>4, <2>1, Zenon DEF Ordered
      <4>2. happened'[w] = IF w = t THEN happened[w] \union released[l] ELSE happened[w]
        BY <1>1, <1>3, Zenon DEF OrderTypes
      <4> QED
        BY <4>1, <4>2, <2>8, <2>9, Zenon
    <3>3. ASSUME NEW w \in Thread, NEW a \in accesses, pc'[w] = "starting"
          PROVE  a \in happened'[w] <=> Knows(vc'[parent[w]], a)
      <4>1. pc[w] = "starting" /\ parent[w] \in Thread /\ w # t
        BY <3>3, <1>1, <1>4, Zenon DEF ThreadInv
      <4>2. parent[w] # t /\ happened'[w] = happened[w]
        BY <4>1, <2>1, <1>1, <1>3, Zenon DEF Overtakes, OrderTypes
      <4> QED
        BY <4>1, <4>2, <2>1, <2>8, Zenon DEF Ordered
    <3>4. ASSUME NEW m \in Mutex, holder'[m] # NoTid, NEW v \in Tid
          PROVE  lockVc[m][v] <= vc'[holder'[m]][v]
      <4>1. CASE m = l
        <5>1. holder'[m] = t
          BY <4>1, <1>1, <1>3, Zenon DEF OrderTypes
        <5> QED
          BY <5>1, <4>1, <2>2, <2>3, <1>1, <1>2
      <4>2. CASE m # l
        <5>1. holder'[m] = holder[m] /\ holder[m] \in Tid
          BY <4>2, <1>1, <1>3, Zenon DEF OrderTypes
        <5>2. lockVc[m][v] <= vc[holder[m]][v]
          BY <5>1, <3>4, <2>1, Zenon DEF Ordered
        <5> QED
          BY <5>1, <5>2, <2>2, <2>3, <1>1
      <4> QED
        BY <4>1, <4>2, Zenon
    <3>5. \A m \in Mutex : \A a \in accesses : a \in released[m] <=> Knows(lockVc[m], a)
      BY <2>1, Zenon DEF Ordered
    <3> QED
      BY <3>1, <3>2, <3>3, <3>4, <3>5, <1>3, Zenon DEF Ordered, Knows
  <2> QED
    BY <2>5, <2>6, <2>10, Zenon
<1> QED
  BY <1>5, <1>6, <1>7, Zenon DEF OrderInv

\* lock_release() gives the mutex what its holder knows and moves the holder on.
LEMMA PreUnlockOrder ==
  ASSUME OrderInv, NEW t \in Thread, NEW l \in Mutex, PreUnlock(t, l)
  PROVE  OrderInv'
<1>1. OrderTypes /\ ThreadInv /\ pc[t] = "running" /\ holder[l] = t
  BY Zenon DEF OrderInv, PreUnlock, IsRunning
<1>2. t \in Tid /\ t # NoTid /\ NoTid \in Tid /\ vc[t] \in Clock /\ lockVc[l] \in Clock
  BY <1>1, ThreadAssumption, Zenon DEF OrderTypes, Tid
<1>3. /\ lockVc' = [lockVc EXCEPT ![l] = Update(lockVc[l], vc[t])]
      /\ vc' = [vc EXCEPT ![t] = Increment(vc[t], t)]
      /\ holder' = [holder EXCEPT ![l] = NoTid]
      /\ segment' = [segment EXCEPT ![t] = @ + 1]
      /\ released' = [released EXCEPT ![l] = happened[t]]
      /\ overtaken' = (overtaken \/ Overtakes(t))
      /\ UNCHANGED <<pc, parent, handle, joinee, shared_parent_data, tid_map, mutex, joining_tid,
                     accesses, happened>>
  BY <1>1, <1>2, Zenon DEF PreUnlock, ReleaseClock, ReleaseThread, variables, pluginState, OrderTypes
<1>4. OrderTypes'
  <2>1. vc' \in [Tid -> Clock] /\ lockVc' \in [Mutex -> Clock]
    BY <1>1, <1>2, <1>3, ClockFacts, Zenon DEF OrderTypes
  <2>2. released' \in [Mutex -> SUBSET accesses] /\ holder' \in [Mutex -> Tid]
    BY <1>1, <1>2, <1>3, Zenon DEF OrderTypes
  <2>3. segment' \in [Thread -> Nat] /\ overtaken' \in BOOLEAN
    BY <1>1, <1>3 DEF OrderTypes
  <2> QED
    BY <1>1, <1>3, <2>1, <2>2, <2>3, Zenon DEF OrderTypes
<1>5. ThreadInv'
  BY <1>1, <1>3, ZenonT(40) DEF ThreadInv, Active
<1>6. ASSUME ~overtaken' PROVE OwnClocks' /\ Ordered' /\ JoinsTheRightThread'
  <2>1. OwnClocks /\ Ordered /\ JoinsTheRightThread /\ ~overtaken /\ ~Overtakes(t)
    BY <1>3, <1>6, Zenon DEF OrderInv
  <2>2. /\ \A w \in Tid : \A v \in Tid : vc[w][v] \in Nat
        /\ \A m \in Mutex : \A v \in Tid : lockVc[m][v] \in Nat
    BY <1>1, Zenon DEF OrderTypes, Clock
  <2>3. /\ \A v \in Tid : lockVc'[l][v] = vc[t][v]
        /\ \A m \in Mutex \ {l} : lockVc'[m] = lockVc[m]
        /\ vc'[t][t] = vc[t][t] + 1
        /\ \A v \in Tid \ {t} : vc'[t][v] = vc[t][v]
        /\ \A w \in Tid \ {t} : vc'[w] = vc[w]
    <3>1. /\ vc'[t] = Increment(vc[t], t) /\ \A w \in Tid \ {t} : vc'[w] = vc[w]
          /\ lockVc'[l] = Update(lockVc[l], vc[t]) /\ \A m \in Mutex \ {l} : lockVc'[m] = lockVc[m]
      BY <1>1, <1>2, <1>3, Zenon DEF OrderTypes
    <3>2. \A v \in Tid : lockVc[l][v] <= vc[t][v]
      BY <1>1, <1>2, <2>1, Zenon DEF Ordered
    <3>3. \A v \in Tid : lockVc'[l][v] = IF lockVc[l][v] < vc[t][v] THEN vc[t][v] ELSE lockVc[l][v]
      BY <3>1, <1>2, ClockFacts
    <3>4. \A v \in Tid : lockVc'[l][v] = vc[t][v]
      BY <3>2, <3>3, <2>2, <1>2
    <3> QED
      BY <3>1, <3>4, <1>2, ClockFacts
  <2>4. \A w \in Thread : w \in Tid
    BY Zenon DEF Tid
  <2>5. OwnClocks'
    <3> SUFFICES ASSUME NEW w \in Thread
                 PROVE  /\ 1 <= vc'[w][w]
                        /\ ~Active(w)' => \A v \in Tid : vc'[w][v] = IF v = w THEN 1 ELSE 0
                        /\ \A x \in Thread \ {w} : vc'[x][w] < vc'[w][w]
                        /\ \A m \in Mutex : lockVc'[m][w] < vc'[w][w]
      BY Zenon DEF OwnClocks
    <3>1. /\ 1 <= vc[w][w] 
          /\ ~Active(w) => \A v \in Tid : vc[w][v] = IF v = w THEN 1 ELSE 0
          /\ \A x \in Thread \ {w} : vc[x][w] < vc[w][w]
          /\ \A m \in Mutex : lockVc[m][w] < vc[w][w]
      BY <1>1, <2>1, Zenon DEF OwnClocks
    <3>2. vc'[w][w] = IF w = t THEN vc[w][w] + 1 ELSE vc[w][w]
      BY <2>3, <2>4, Zenon
    <3>3. ~Active(w)' => ~Active(w) /\ w # t
      BY <1>1, <1>3, Zenon DEF Active
    <3>4. \A x \in Thread \ {w} : vc'[x][w] < vc'[w][w]
      BY <3>1, <3>2, <2>2, <2>3, <2>4, <1>1
    <3>5. ~Active(w)' => \A v \in Tid : vc'[w][v] = IF v = w THEN 1 ELSE 0
      BY <3>1, <3>3, <2>3, <2>4, Zenon
    <3>6. \A m \in Mutex : lockVc'[m][w] < vc'[w][w]
      BY <3>1, <3>2, <2>2, <2>3, <2>4
    <3> QED
      BY <3>1, <3>2, <3>4, <3>5, <3>6, <2>2, <2>4
  <2>6. JoinsTheRightThread'
    BY <1>3, <2>1, Zenon DEF JoinsTheRightThread
  <2>7. \A a \in accesses : /\ a.thread \in Thread /\ a.stamp \in Nat /\ Active(a.thread)
                            /\ 1 <= a.stamp /\ Knows(vc[a.thread], a)
    BY <1>1, <2>1, Zenon DEF OrderTypes, AccessType, Ordered, Knows
  <2>8. \A a \in accesses : \A w \in Thread : Knows(vc'[w], a) <=> Knows(vc[w], a)
    BY <2>2, <2>3, <2>4, <2>7 DEF Knows
  <2>9. \A a \in accesses : \A m \in Mutex :
          Knows(lockVc'[m], a) <=> IF m = l THEN Knows(vc[t], a) ELSE Knows(lockVc[m], a)
    BY <2>3, <2>4, <2>7 DEF Knows
  <2>10. Ordered'
    <3>1. \A a \in accesses : Active(a.thread)' /\ 1 <= a.stamp /\ Knows(vc'[a.thread], a)
      BY <2>7, <2>8, <1>3, Zenon DEF Active
    <3>2. ASSUME NEW w \in Thread, NEW a \in accesses, Active(w)'
          PROVE  a \in happened[w] <=> Knows(vc'[w], a)
      BY <3>2, <1>3, <2>1, <2>8, Zenon DEF Ordered, Active
    <3>3. ASSUME NEW w \in Thread, NEW a \in accesses, pc[w] = "starting"
          PROVE  a \in happened[w] <=> Knows(vc'[parent[w]], a)
      BY <3>3, <1>1, <2>1, <2>8, Zenon DEF Ordered, ThreadInv
    <3>4. ASSUME NEW m \in Mutex, holder'[m] # NoTid, NEW v \in Tid
          PROVE  lockVc'[m][v] <= vc'[holder'[m]][v]
      <4>1. m # l /\ holder'[m] = holder[m] /\ holder[m] \in Tid
        BY <3>4, <1>1, <1>3, Zenon DEF OrderTypes
      <4>2. lockVc[m][v] <= vc[holder[m]][v]
        BY <4>1, <3>4, <2>1, Zenon DEF Ordered
      <4> QED
        BY <4>1, <4>2, <2>2, <2>3, <1>2
    <3>5. ASSUME NEW m \in Mutex, NEW a \in accesses
          PROVE  a \in released'[m] <=> Knows(lockVc'[m], a)
      <4>1. released'[m] = IF m = l THEN happened[t] ELSE released[m]
        BY <1>1, <1>3, Zenon DEF OrderTypes
      <4>2. (a \in released[m] <=> Knows(lockVc[m], a)) /\ (a \in happened[t] <=> Knows(vc[t], a))
        BY <1>1, <2>1, Zenon DEF Ordered, Active
      <4> QED
        BY <4>1, <4>2, <2>9, Zenon
    <3> QED
      BY <3>1, <3>2, <3>3, <3>4, <3>5, <1>3, Zenon DEF Ordered, Knows
  <2> QED
    BY <2>5, <2>6, <2>10, Zenon
<1> QED
  BY <1>4, <1>5, <1>6, Zenon DEF OrderInv

\* A new access is known to its own thread only.
LEMMA CheckAccessOrder ==
  ASSUME OrderInv, NEW t \in Thread, NEW x \in Var, NEW k \in Kinds, CheckAccess(t, x, k)
  PROVE  OrderInv'
<1> DEFINE n == Access(t, x, k)
<1>1. OrderTypes /\ ThreadInv /\ pc[t] = "running" /\ t \in Tid
  BY Zenon DEF OrderInv, CheckAccess, IsRunning, Tid
<1>2. /\ pc' = [pc EXCEPT ![t] = "updating"]
      /\ accesses' = accesses \union {n}
      /\ happened' = [happened EXCEPT ![t] = @ \union {n}]
      /\ overtaken' = (overtaken \/ Overtakes(t))
      /\ UNCHANGED <<parent, handle, holder, joinee, shared_parent_data, tid_map, mutex, joining_tid,
                     vc, lockVc, segment, released>>
  BY Zenon DEF CheckAccess, pluginState
<1>3. n \in AccessType /\ n.thread = t /\ n.stamp = vc[t][t]
  BY <1>1, Zenon DEF OrderTypes, Clock, Access, AccessType
<1> HIDE DEF n
<1>4. \A w \in Thread : /\ pc'[w] = IF w = t THEN "updating" ELSE pc[w]
                        /\ Active(w)' <=> Active(w)
  BY <1>1, <1>2, Zenon DEF OrderTypes, Active
<1>5. OrderTypes'
  <2>1. accesses' \in SUBSET AccessType
    BY <1>1, <1>2, <1>3, Zenon DEF OrderTypes
  <2>2. released \in [Mutex -> SUBSET accesses'] /\ happened' \in [Thread -> SUBSET accesses']
    BY <1>1, <1>2, Zenon DEF OrderTypes
  <2>3. pc' \in [Thread -> Pcs] /\ overtaken' \in BOOLEAN
    BY <1>1, <1>2, Zenon DEF OrderTypes, Pcs
  <2> QED
    BY <1>1, <1>2, <2>1, <2>2, <2>3, Zenon DEF OrderTypes
<1>6. ThreadInv'
  <2>1. UNCHANGED <<parent, handle, joinee, shared_parent_data, tid_map, mutex>>
    BY <1>2, Zenon
  <2> QED
    BY ONLY <2>1, <1>1, <1>4, t \in Thread, ThreadAssumption, SMTT(30) DEF ThreadInv, Active
<1>7. ASSUME ~overtaken' PROVE OwnClocks' /\ Ordered' /\ JoinsTheRightThread'
  <2>1. OwnClocks /\ Ordered /\ JoinsTheRightThread /\ ~overtaken /\ ~Overtakes(t)
    BY <1>2, <1>7, Zenon DEF OrderInv
  <2>2. OwnClocks' /\ JoinsTheRightThread'
    BY <2>1, <1>1, <1>2, <1>4 DEF OwnClocks, JoinsTheRightThread, Active
  <2>3. /\ Active(t) /\ 1 <= n.stamp /\ Knows(vc[t], n)
        /\ \A w \in Thread \ {t} : ~Knows(vc[w], n)
        /\ \A m \in Mutex : ~Knows(lockVc[m], n)
    BY <1>1, <1>3, <2>1 DEF Active, OwnClocks, Knows, OrderTypes, Clock, Tid
  <2>4. \A a \in accesses : Active(a.thread) /\ 1 <= a.stamp /\ Knows(vc[a.thread], a)
    BY <2>1, Zenon DEF Ordered, Knows
  <2>5. Ordered'
    <3>1. \A a \in accesses' : Active(a.thread)' /\ 1 <= a.stamp /\ Knows(vc[a.thread], a)
      BY <2>3, <2>4, <1>1, <1>2, <1>3, <1>4, Zenon DEF OrderTypes, AccessType
    <3>2. ASSUME NEW w \in Thread, NEW a \in accesses', Active(w)'
          PROVE  a \in happened'[w] <=> Knows(vc[w], a)
      <4>1. Active(w) /\ (a \in accesses => (a \in happened[w] <=> Knows(vc[w], a)))
            /\ happened[w] \subseteq accesses
        BY <3>2, <1>1, <1>4, <2>1, Zenon DEF Ordered, OrderTypes
      <4>2. happened'[w] = IF w = t THEN happened[w] \union {n} ELSE happened[w]
        BY <1>1, <1>2, Zenon DEF OrderTypes
      <4>3. CASE a = n
        BY <4>2, <4>3, <2>3, <4>1, Zenon
      <4>4. CASE a # n /\ a \in accesses
        <5>1. a \in happened'[w] <=> a \in happened[w]
          BY <4>2, <4>4, Zenon
        <5> QED
          BY <5>1, <4>1, <4>4, Zenon
      <4> QED
        BY <4>3, <4>4, <1>2, Zenon
    <3>3. ASSUME NEW w \in Thread, NEW a \in accesses', pc'[w] = "starting"
          PROVE  a \in happened'[w] <=> Knows(vc[parent[w]], a)
      <4>1. pc[w] = "starting" /\ parent[w] \in Thread /\ w # t
        BY <3>3, <1>1, <1>4, Zenon DEF ThreadInv
      <4>2. parent[w] # t /\ happened'[w] = happened[w] /\ happened[w] \subseteq accesses
        BY <4>1, <2>1, <1>1, <1>2, Zenon DEF Overtakes, OrderTypes
      <4> QED
        BY <4>1, <4>2, <2>1, <2>3, <1>2, ZenonT(40) DEF Ordered
    <3>4. ASSUME NEW m \in Mutex, NEW a \in accesses'
          PROVE  a \in released[m] <=> Knows(lockVc[m], a)
      <4>1. released[m] \subseteq accesses
        BY <1>1, Zenon DEF OrderTypes
      <4>2. CASE a = n
        BY <4>1, <4>2, <2>1, <2>3, Zenon DEF Ordered
      <4>3. CASE a \in accesses
        BY <4>3, <2>1, Zenon DEF Ordered
      <4> QED
        BY <4>2, <4>3, <1>2, Zenon
    <3>5. \A m \in Mutex : holder[m] # NoTid => \A v \in Tid : lockVc[m][v] <= vc[holder[m]][v]
      BY <2>1, Zenon DEF Ordered
    <3> QED
      BY <3>1, <3>2, <3>3, <3>4, <3>5, <1>2, Zenon DEF Ordered, Knows
  <2> QED
    BY <2>2, <2>5, Zenon
<1> QED
  BY <1>5, <1>6, <1>7, Zenon DEF OrderInv

\* The updates of a variable change no clock of a thread or a mutex.
LEMMA SetVariableOrder ==
  ASSUME OrderInv, NEW t \in Thread, SetVariable(t)
  PROVE  OrderInv'
<1>1. OrderTypes /\ ThreadInv /\ pc[t] = "updating"
  BY Zenon DEF OrderInv, SetVariable
<1>2. /\ pc' = [pc EXCEPT ![t] = "running"]
      /\ UNCHANGED <<parent, handle, holder, joinee, shared_parent_data, tid_map, mutex, joining_tid,
                     vc, lockVc, segment, accesses, happened, released, overtaken>>
  BY Zenon DEF SetVariable, pluginState, reference
<1>3. OrderTypes' /\ ThreadInv'
  <2>1. pc' \in [Thread -> Pcs]
    BY <1>1, <1>2, Zenon DEF OrderTypes, Pcs
  <2>2. OrderTypes'
    BY <2>1, <1>1, <1>2, Zenon DEF OrderTypes
  <2>3. \A w \in Thread : pc'[w] = (IF w = t THEN "running" ELSE pc[w]) /\ (Active(w)' <=> Active(w))
    BY <1>1, <1>2, Zenon DEF OrderTypes, Active
  <2>4. UNCHANGED <<parent, handle, joinee, shared_parent_data, tid_map, mutex>>
    BY <1>2, Zenon
  <2>5. ThreadInv'
    BY ONLY <2>3, <2>4, <1>1, t \in Thread, ThreadAssumption, SMTT(30) DEF ThreadInv, Active
  <2> QED
    BY <2>2, <2>5, Zenon
<1>4. ASSUME ~overtaken' PROVE OwnClocks' /\ Ordered' /\ JoinsTheRightThread'
  <2>1. OwnClocks /\ Ordered /\ JoinsTheRightThread
    BY <1>2, <1>4, Zenon DEF OrderInv
  <2>2. \A w \in Thread : /\ Active(w)' <=> Active(w)
                          /\ pc'[w] = "starting" <=> pc[w] = "starting"
                          /\ pc'[w] = "joining" <=> pc[w] = "joining"
    BY <1>1, <1>2, Zenon DEF OrderTypes, Active
  <2>3. OwnClocks'
    BY <2>1, <2>2, <1>2, Zenon DEF OwnClocks
  <2>4. \A a \in accesses : a.thread \in Thread
    BY <1>1, Zenon DEF OrderTypes, AccessType
  <2>5. Ordered'
    BY <2>1, <2>2, <2>4, <1>2, Zenon DEF Ordered, Knows
  <2>6. JoinsTheRightThread'
    BY <2>1, <2>2, <1>2, <1>4, Zenon DEF JoinsTheRightThread
  <2> QED
    BY <2>3, <2>5, <2>6, Zenon
<1> QED
  BY <1>3, <1>4, Zenon DEF OrderInv

\* thread_fork(), thread_join(), lock_acquire() and lock_release() keep OrderInv,
\* for any number of threads, mutexes, variables and accesses.
THEOREM OrderInvariant == RaceSpec => []OrderInv
<1>1. OrderInv /\ RaceNext => OrderInv'
  BY CloneOrder, PreThreadOrder, ExitOrder, PreJoinOrder, PostJoinOrder, PreLockOrder, PostLockOrder,
     PreUnlockOrder, CheckAccessOrder, SetVariableOrder, Zenon DEF RaceNext
<1>2. OrderInv /\ UNCHANGED raceVars => OrderInv'
  <2> SUFFICES ASSUME OrderInv, UNCHANGED raceVars PROVE OrderInv'
    OBVIOUS
  <2>1. UNCHANGED <<pc, parent, handle, holder, joinee, shared_parent_data, tid_map, mutex, joining_tid,
                    vc, lockVc, segment, accesses, happened, released, overtaken>>
    BY Zenon DEF raceVars, program, pluginState, reference
  <2>2. OrderTypes' /\ ThreadInv'
    BY <2>1, Zenon DEF OrderInv, OrderTypes, ThreadInv, Active
  <2>3. ~overtaken' => OwnClocks' /\ Ordered' /\ JoinsTheRightThread'
    BY <2>1, Zenon DEF OrderInv, OwnClocks, Ordered, JoinsTheRightThread, Active, Knows
  <2> QED
    BY <2>2, <2>3, Zenon DEF OrderInv
<1> QED
  BY <1>1, <1>2, InitOrder, PTL DEF RaceSpec

\* The clocks that the handlers of datarace.c keep are happens-before, and
\* datarace_post_pthread_join() commits the JOIN of the right thread, for any
\* number of threads, mutexes, variables and accesses.
THEOREM OrderIsExact == RaceSpec => []OrderExact
<1>1. OrderInv => OrderExact
  BY Zenon DEF OrderInv, OrderExact, ClocksAreHappensBefore, JoinsTheRightThread, Ordered, Active, Knows
<1> QED
  BY <1>1, OrderInvariant, PTL
=============================================================================
