--------------------------- MODULE DataRaceProofs ---------------------------
(***************************************************************************)
(* Proofs about the detectors of DataRace, for any number of threads,      *)
(* mutexes, variables and accesses: DJIT+ and FastTrack report a variable  *)
(* exactly when it has a race.                                             *)
(***************************************************************************)
EXTENDS DataRaceOrderProofs

\* Thread u has made an access of kind k to x at its clock c.
AccessedBy(u, x, k, c) ==
  \E a \in accesses : a.thread = u /\ a.var = x /\ a.kind = k /\ a.stamp = c

\* An entry of a detector is the clock of an access, or still 0.
Genuine(u, x, k, c) == c = 0 \/ AccessedBy(u, x, k, c)

\* What a handler still has to record.
TodoType == [var : Var \union {None}, kind : Kinds, djit : BOOLEAN, fast : {"none", "read", "write"}]
\* epoch_t.
Epoch == [thread : Thread, clock : Nat]
\* variable_t of djit.h.
DjitVariable == [rx : Clock, wx : Clock]
\* variable_t of fasttrack.h.
FastVariable == [rx_vc : Clock, rx_epoch : Epoch, wx_epoch : Epoch, is_shared : BOOLEAN]

\* The types of the detectors.
DetectorTypes ==
  /\ djit \in [Var -> DjitVariable]
  /\ fast \in [Var -> FastVariable]
  /\ todo \in [Thread -> TodoType]
  /\ djitReports \in SUBSET Var /\ fastReports \in SUBSET Var
  /\ raced \in SUBSET Var /\ overlapped \in SUBSET Var

\* The handler of t is between its checks and its update of x.
Updating(t, x) == pc[t] = "updating" /\ todo[t].var = x

\* What a handler records is the access it checked, at the clock its thread still
\* has. On a variable where no handlers overlapped it is the only one at work.
TodoInv ==
  \A t \in Thread : pc[t] = "updating" =>
    /\ todo[t].var \in Var /\ todo[t].fast \in {"none", todo[t].kind}
    /\ AccessedBy(t, todo[t].var, todo[t].kind, vc[t][t])
    /\ \A u \in Thread : pc[u] = "starting" => parent[u] # t
    /\ todo[t].var \notin overlapped => \A u \in Thread : Updating(u, todo[t].var) => u = t

\* DJIT+ records nothing but accesses.
DjitGenuine ==
  \A x \in Var, u \in Tid : Genuine(u, x, "read", djit[x].rx[u]) /\ Genuine(u, x, "write", djit[x].wx[u])

\* An access is covered by what DJIT+ has recorded of its thread.
DjitRecorded(a) ==
  IF a.kind = "read" THEN a.stamp <= djit[a.var].rx[a.thread] ELSE a.stamp <= djit[a.var].wx[a.thread]

\* DJIT+ has recorded, or is about to record, every access to a variable on which
\* it has reported nothing and no handlers overlapped.
DjitInv ==
  /\ DjitGenuine
  /\ djitReports \subseteq raced
  /\ raced \ overlapped \subseteq djitReports
  /\ \A t \in Thread : pc[t] = "updating" => todo[t].djit = TRUE \/ todo[t].var \in djitReports
  /\ \A a \in accesses : a.var \notin overlapped \union djitReports =>
       \/ Updating(a.thread, a.var) /\ todo[a.thread].kind = a.kind
       \/ DjitRecorded(a)

\* The clocks a later access can be compared with come from these.
Clocks == {vc[t] : t \in Thread} \union {lockVc[m] : m \in Mutex}

\* Every clock that has reached c in the component of v knows a.
Implies(v, c, a) == \A d \in Clocks : c <= d[v] => Knows(d, a)

\* FastTrack records nothing but accesses.
FastGenuine ==
  \A x \in Var :
    /\ Genuine(fast[x].wx_epoch.thread, x, "write", fast[x].wx_epoch.clock)
    /\ Genuine(fast[x].rx_epoch.thread, x, "read", fast[x].rx_epoch.clock)
    /\ \A u \in Tid : Genuine(u, x, "read", fast[x].rx_vc[u])

\* The one epoch that FastTrack keeps stands for the access: who knows the epoch
\* knows the access. Of a shared variable, one entry of the read vector does.
FastCovered(a) ==
  IF a.kind = "write"
  THEN Implies(fast[a.var].wx_epoch.thread, fast[a.var].wx_epoch.clock, a)
  ELSE IF fast[a.var].is_shared
       THEN \E u \in Thread : Implies(u, fast[a.var].rx_vc[u], a)
       ELSE Implies(fast[a.var].rx_epoch.thread, fast[a.var].rx_epoch.clock, a)

\* The handler of the access has still to record it.
Pending(a) == Updating(a.thread, a.var) /\ todo[a.thread].kind = a.kind /\ todo[a.thread].fast # "none"

\* On a variable without a race, a thread that is about to record an access, or
\* whose current clock is the recorded one, knows the accesses that conflict with
\* it. So an epoch that replaces another still stands for what the other stood
\* for.
FastOrder(a, t) ==
  /\ Updating(t, a.var) /\ Conflicting(a.kind, todo[t].kind) => Knows(vc[t], a)
  /\ fast[a.var].wx_epoch = [thread |-> t, clock |-> vc[t][t]] => Knows(vc[t], a)
  /\ a.kind = "write" /\ fast[a.var].rx_epoch = [thread |-> t, clock |-> vc[t][t]] => Knows(vc[t], a)
  /\ a.kind = "write" /\ fast[a.var].rx_vc[t] = vc[t][t] => Knows(vc[t], a)

\* FastTrack has recorded, or is about to record, something that stands for every
\* access to a variable without a race.
FastInv ==
  /\ FastGenuine
  /\ fastReports \subseteq raced
  /\ raced \ overlapped \subseteq fastReports
  /\ \A a \in accesses : a.var \notin raced \union overlapped =>
       /\ Pending(a) \/ FastCovered(a)
       /\ \A t \in Thread : FastOrder(a, t)

\* The inductive invariant of the two detectors, on top of OrderInv.
DetectorInv == ~overtaken => DetectorTypes /\ TodoInv /\ DjitInv /\ FastInv
-----------------------------------------------------------------------------
\* All variables are fresh; is_shared is what malloc() found.
LEMMA InitDetector == RaceInit => DetectorInv
<1> SUFFICES ASSUME RaceInit PROVE DetectorInv
  OBVIOUS
<1>1. ZeroClock \in Clock /\ \A u \in Tid : ZeroClock[u] = 0
  BY Zenon DEF ZeroClock, Clock
<1>2. ZeroEpoch \in Epoch /\ ZeroEpoch.clock = 0 /\ NoTodo \in TodoType
  BY ThreadAssumption, Zenon DEF ZeroEpoch, Epoch, NoTodo, TodoType, Kinds
<1>3. /\ djit = [x \in Var |-> [rx |-> ZeroClock, wx |-> ZeroClock]]
      /\ fast \in [Var -> [rx_vc : {ZeroClock}, rx_epoch : {ZeroEpoch}, wx_epoch : {ZeroEpoch}, is_shared : BOOLEAN]]
      /\ todo = [t \in Thread |-> NoTodo] /\ accesses = {}
      /\ djitReports = {} /\ fastReports = {} /\ raced = {} /\ overlapped = {}
      /\ \A t \in Thread : pc[t] # "updating"
  BY Zenon DEF RaceInit, DjitVariableList, NewDjitVariable, FastVariableLists, NewFastVariables
<1> HIDE DEF ZeroClock, ZeroEpoch, NoTodo
<1>4. DetectorTypes
  <2>1. djit \in [Var -> DjitVariable]
    BY <1>1, <1>3, Zenon DEF DjitVariable
  <2>2. fast \in [Var -> FastVariable]
    BY <1>1, <1>2, <1>3, Zenon DEF FastVariable
  <2> QED
    BY <1>2, <1>3, <2>1, <2>2, Zenon DEF DetectorTypes
<1>5. TodoInv
  BY <1>3, Zenon DEF TodoInv
<1>6. DjitInv
  BY <1>1, <1>3, Zenon DEF DjitInv, DjitGenuine, Genuine
<1>7. FastInv
  BY <1>1, <1>2, <1>3, Zenon DEF FastInv, FastGenuine, Genuine
<1> QED
  BY <1>4, <1>5, <1>6, <1>7, Zenon DEF DetectorInv
-----------------------------------------------------------------------------
(* Steps that only change clocks *)

\* The clock old becomes new by taking in src, and by nothing else that anybody
\* can have seen.
Grown(new, old, src) ==
  \A v \in Thread :
    /\ old[v] <= new[v] /\ src[v] <= new[v]
    /\ \A c \in Nat : c <= vc[v][v] /\ c <= new[v] => c <= old[v] \/ c <= src[v]

\* Clocks only take in one another and advance in their own component.
ClockStep ==
  /\ \A t \in Thread : \E s \in Clocks : Grown(vc'[t], vc[t], s)
  /\ \A m \in Mutex : \E s \in Clocks : Grown(lockVc'[m], lockVc[m], s)

\* The detectors are left alone.
Quiet ==
  /\ UNCHANGED <<djit, fast, todo, djitReports, fastReports, accesses, raced, overlapped>>
  /\ ClockStep
  /\ \A t \in Thread : pc'[t] = "updating" <=> pc[t] = "updating"
  /\ \A t \in Thread : pc[t] = "updating" =>
       /\ vc'[t][t] = vc[t][t]
       /\ \A u \in Thread : pc'[u] = "starting" => parent'[u] # t

\* Leaving the clocks alone is such a step.
LEMMA NoClockStep ==
  ASSUME OrderTypes, UNCHANGED <<vc, lockVc>>
  PROVE  ClockStep
<1>1. \A d \in Clocks : Grown(d, d, d)
  BY DEF OrderTypes, Clock, Clocks, Grown, Tid
<1>2. (\A t \in Thread : vc[t] \in Clocks) /\ \A m \in Mutex : lockVc[m] \in Clocks
  BY Zenon DEF Clocks
<1> QED
  BY <1>1, <1>2, Zenon DEF ClockStep

\* What an entry stands for survives forks, joins and locks.
LEMMA ImpliesStep ==
  ASSUME OrderTypes, OrderTypes', ClockStep, NEW v \in Thread, NEW c \in Nat, c <= vc[v][v],
         NEW a \in AccessType, a.stamp <= vc[a.thread][a.thread], Implies(v, c, a)
  PROVE  Implies(v, c, a)'
<1> SUFFICES ASSUME NEW d \in Clocks', c <= d[v] PROVE Knows(d, a)
  BY Zenon DEF Implies, Knows
<1>1. PICK old \in Clocks, s \in Clocks : Grown(d, old, s) /\ d \in Clock
  <2>1. (\A t \in Thread : vc[t] \in Clocks) /\ \A m \in Mutex : lockVc[m] \in Clocks
    BY Zenon DEF Clocks
  <2>2. CASE \E t \in Thread : d = vc'[t]
    BY <2>1, <2>2 DEF ClockStep, OrderTypes, Tid
  <2>3. CASE \E m \in Mutex : d = lockVc'[m]
    BY <2>1, <2>3 DEF ClockStep, OrderTypes
  <2> QED
    BY <2>2, <2>3, Zenon DEF Clocks
<1>2. a.thread \in Thread /\ a.stamp \in Nat /\ old \in Clock /\ s \in Clock /\ a.thread \in Tid
  BY <1>1 DEF AccessType, Clocks, OrderTypes, Tid
<1>3. c <= old[v] \/ c <= s[v]
  BY <1>1, Zenon DEF Grown
<1>4. Knows(old, a) \/ Knows(s, a)
  BY <1>1, <1>3, Zenon DEF Implies
<1> QED
  BY <1>1, <1>2, <1>4 DEF Grown, Knows, Clock

\* A thread never forgets an access.
LEMMA ClockStepGrows ==
  ASSUME OrderTypes, OrderTypes', ClockStep, NEW t \in Thread, NEW a \in AccessType, Knows(vc[t], a)
  PROVE  Knows(vc'[t], a) /\ vc[t][t] <= vc'[t][t]
<1>1. PICK s \in Clocks : Grown(vc'[t], vc[t], s)
  BY Zenon DEF ClockStep
<1>2. /\ a.thread \in Thread /\ a.stamp \in Nat
      /\ vc[t][a.thread] \in Nat /\ vc'[t][a.thread] \in Nat
  BY DEF AccessType, OrderTypes, Clock, Tid
<1> QED
  BY <1>1, <1>2 DEF Grown, Knows

\* The own component of a thread never goes back.
LEMMA OwnGrows ==
  ASSUME ClockStep
  PROVE  \A t \in Thread : vc[t][t] <= vc'[t][t]
BY Zenon DEF ClockStep, Grown

\* No entry is ahead of the thread it names.
LEMMA GenuineBound ==
  ASSUME OrderTypes, OwnClocks, Ordered, NEW u \in Tid, NEW x, NEW k, NEW c, Genuine(u, x, k, c), c # 0
  PROVE  u \in Thread /\ c \in Nat /\ c <= vc[u][u]
BY Zenon DEF Genuine, AccessedBy, Ordered, OrderTypes, AccessType

\* The fields of an epoch.
LEMMA EpochFields ==
  \A e, t, c : e = [thread |-> t, clock |-> c] => e.thread = t /\ e.clock = c
OBVIOUS

\* A step that leaves the detectors alone keeps the invariant.
LEMMA QuietDetector ==
  ASSUME OrderInv, OrderInv', ~overtaken, ~overtaken', DetectorInv, Quiet
  PROVE  DetectorInv'
<1>1. /\ OrderTypes /\ OrderTypes' /\ OwnClocks /\ Ordered /\ OwnClocks'
      /\ DetectorTypes /\ TodoInv /\ DjitInv /\ FastInv /\ ClockStep
  BY Zenon DEF OrderInv, DetectorInv, Quiet
<1>2. /\ UNCHANGED <<djit, fast, todo, djitReports, fastReports, accesses, raced, overlapped>>
      /\ \A t \in Thread : pc'[t] = "updating" <=> pc[t] = "updating"
      /\ \A t \in Thread : pc[t] = "updating" =>
           /\ vc'[t][t] = vc[t][t]
           /\ \A u \in Thread : pc'[u] = "starting" => parent'[u] # t
  BY Zenon DEF Quiet
<1>3. DetectorTypes'
  BY <1>1, <1>2, Zenon DEF DetectorTypes
<1>4. TodoInv'
  BY <1>1, <1>2 DEF TodoInv, Updating, AccessedBy
<1>5. \A a \in accesses : a \in AccessType /\ a.thread \in Thread /\ a.var \in Var
                          /\ a.stamp \in Nat /\ a.stamp <= vc[a.thread][a.thread]
  BY <1>1, Zenon DEF OrderTypes, AccessType, Ordered
<1>6. DjitInv'
  BY <1>1, <1>2, <1>5 DEF DjitInv, DjitGenuine, Genuine, AccessedBy, Updating, DjitRecorded
<1>7. FastGenuine' /\ (fastReports \subseteq raced)' /\ (raced \ overlapped \subseteq fastReports)'
  BY <1>1, <1>2 DEF FastInv, FastGenuine, Genuine, AccessedBy
<1>8. ASSUME NEW a \in accesses, a.var \notin raced \union overlapped
      PROVE  (Pending(a) \/ FastCovered(a))' /\ \A t \in Thread : FastOrder(a, t)'
  <2> DEFINE f == fast[a.var]
  <2>1. /\ f \in FastVariable
        /\ Genuine(f.wx_epoch.thread, a.var, "write", f.wx_epoch.clock)
        /\ Genuine(f.rx_epoch.thread, a.var, "read", f.rx_epoch.clock)
        /\ \A u \in Tid : Genuine(u, a.var, "read", f.rx_vc[u])
    BY <1>1, <1>5, Zenon DEF DetectorTypes, FastInv, FastGenuine
  <2>2. /\ f.wx_epoch.thread \in Thread /\ f.wx_epoch.clock \in Nat
        /\ f.rx_epoch.thread \in Thread /\ f.rx_epoch.clock \in Nat
        /\ \A u \in Tid : f.rx_vc[u] \in Nat
    BY <2>1, Zenon DEF FastVariable, Epoch, Clock
  <2>3. \A u \in Thread : u \in Tid /\ vc[u][u] \in Nat /\ vc'[u][u] \in Nat
    <3>1. \A u \in Thread : u \in Tid
      BY Zenon DEF Tid
    <3> QED
      BY <3>1, <1>1, Zenon DEF OrderTypes, Clock
  <2>4. /\ f.wx_epoch.clock <= vc[f.wx_epoch.thread][f.wx_epoch.thread]
        /\ f.rx_epoch.clock <= vc[f.rx_epoch.thread][f.rx_epoch.thread]
        /\ \A u \in Thread : f.rx_vc[u] <= vc[u][u]
    <3>1. \A u \in Thread : 0 <= vc[u][u]
      BY ONLY <2>3
    <3> QED
      BY <3>1, <2>1, <2>2, <2>3, <1>1, GenuineBound, Zenon
  <2>5. \A v \in Thread, c \in Nat : c <= vc[v][v] /\ Implies(v, c, a) => Implies(v, c, a)'
    BY <1>1, <1>5, ImpliesStep, Zenon
  <2>6. (Pending(a) \/ FastCovered(a)) /\ \A t \in Thread : FastOrder(a, t)
    BY <1>1, <1>8, Zenon DEF FastInv
  <2>7. Pending(a) => Pending(a)'
    BY <1>2, <1>5, Zenon DEF Pending, Updating
  <2>8. FastCovered(a) => FastCovered(a)'
    BY <2>2, <2>3, <2>4, <2>5, <1>2, ZenonT(40) DEF FastCovered
  <2>9. ASSUME NEW t \in Thread PROVE FastOrder(a, t)'
    <3>1. Knows(vc[t], a) => Knows(vc'[t], a)
      BY <1>1, <1>5, ClockStepGrows, Zenon
    <3>2. vc[t][t] <= vc'[t][t]
      BY <1>1, OwnGrows, Zenon
    <3>3. /\ f.wx_epoch = [thread |-> t, clock |-> vc'[t][t]] => vc'[t][t] = vc[t][t]
          /\ f.rx_epoch = [thread |-> t, clock |-> vc'[t][t]] => vc'[t][t] = vc[t][t]
          /\ f.rx_vc[t] = vc'[t][t] => vc'[t][t] = vc[t][t]
      <4>1. vc[t][t] \in Nat /\ vc'[t][t] \in Nat
        BY <2>3, Zenon
      <4>2. vc'[t][t] <= vc[t][t] => vc'[t][t] = vc[t][t]
        BY ONLY <4>1, <3>2
      <4> QED
        <5>1. ASSUME f.wx_epoch = [thread |-> t, clock |-> vc'[t][t]] PROVE vc'[t][t] = vc[t][t]
          <6>1. f.wx_epoch.thread = t /\ f.wx_epoch.clock = vc'[t][t]
            BY <5>1, EpochFields, Zenon
          <6> QED
            BY <6>1, <4>2, <2>4, Zenon
        <5>2. ASSUME f.rx_epoch = [thread |-> t, clock |-> vc'[t][t]] PROVE vc'[t][t] = vc[t][t]
          <6>1. f.rx_epoch.thread = t /\ f.rx_epoch.clock = vc'[t][t]
            BY <5>2, EpochFields, Zenon
          <6> QED
            BY <6>1, <4>2, <2>4, Zenon
        <5>3. f.rx_vc[t] = vc'[t][t] => vc'[t][t] = vc[t][t]
          BY <4>2, <2>4, Zenon
        <5> QED
          BY <5>1, <5>2, <5>3, Zenon
    <3>4. FastOrder(a, t)
      BY <2>6, Zenon
    <3> QED
      BY <3>1, <3>3, <3>4, <1>2, Zenon DEF FastOrder, Updating
  <2> QED
    BY <2>6, <2>7, <2>8, <2>9, Zenon
<1>9. FastInv'
  BY <1>2, <1>7, <1>8, Zenon DEF FastInv
<1> QED
  BY <1>3, <1>4, <1>6, <1>9, Zenon DEF DetectorInv

\* datarace_pre_clone(), the return of a thread, get_child_tid() and
\* lock_save_mutex() leave the detectors and the clocks alone.
LEMMA StillQuiet ==
  ASSUME OrderInv, ~overtaken, DetectorInv, NEW t \in Thread,
         \/ \E u \in Thread, p \in PthreadT : Clone(t, u, p)
         \/ Exit(t)
         \/ \E u \in Thread : PreJoin(t, u)
         \/ \E m \in Mutex : PreLock(t, m)
  PROVE  Quiet
<1>1. OrderTypes /\ TodoInv /\ ThreadInv
  BY Zenon DEF OrderInv, DetectorInv
<1>2. ASSUME NEW u \in Thread, NEW p \in PthreadT, Clone(t, u, p) PROVE Quiet
  <2>1. UNCHANGED <<vc, lockVc, djit, fast, todo, djitReports, fastReports, accesses, raced, overlapped>>
    BY <1>2, Zenon DEF Clone, variables
  <2>2. /\ pc[t] = "running" /\ pc[u] = "none" /\ pc' = [pc EXCEPT ![u] = "starting"]
        /\ parent' = [parent EXCEPT ![u] = t]
    BY <1>2, Zenon DEF Clone, IsRunning
  <2> QED
    BY <1>1, <2>1, <2>2, NoClockStep, Zenon DEF Quiet, OrderTypes, TodoInv
<1>3. ASSUME Exit(t) PROVE Quiet
  <2>1. UNCHANGED <<vc, lockVc, djit, fast, todo, djitReports, fastReports, accesses, raced, overlapped,
                    parent>>
    BY <1>3, Zenon DEF Exit, variables, reference
  <2>2. pc[t] = "running" /\ pc' = [pc EXCEPT ![t] = "done"]
    BY <1>3, Zenon DEF Exit, IsRunning
  <2> QED
    BY <1>1, <2>1, <2>2, NoClockStep, Zenon DEF Quiet, OrderTypes, TodoInv
<1>4. ASSUME NEW u \in Thread, PreJoin(t, u) PROVE Quiet
  <2>1. UNCHANGED <<vc, lockVc, djit, fast, todo, djitReports, fastReports, accesses, raced, overlapped,
                    parent>>
    BY <1>4, Zenon DEF PreJoin, variables
  <2>2. pc[t] = "running" /\ pc' = [pc EXCEPT ![t] = "joining"]
    BY <1>4, Zenon DEF PreJoin, IsRunning
  <2> QED
    BY <1>1, <2>1, <2>2, NoClockStep, Zenon DEF Quiet, OrderTypes, TodoInv
<1>5. ASSUME NEW m \in Mutex, PreLock(t, m) PROVE Quiet
  <2>1. UNCHANGED <<vc, lockVc, djit, fast, todo, djitReports, fastReports, accesses, raced, overlapped,
                    parent>>
    BY <1>5, Zenon DEF PreLock, variables, reference
  <2>2. pc[t] = "running" /\ pc' = [pc EXCEPT ![t] = "locking"]
    BY <1>5, Zenon DEF PreLock, IsRunning
  <2> QED
    BY <1>1, <2>1, <2>2, NoClockStep, Zenon DEF Quiet, OrderTypes, TodoInv
<1> QED
  BY <1>2, <1>3, <1>4, <1>5, Zenon

\* vector_clock_update() takes in one other clock.
LEMMA UpdateGrown ==
  ASSUME OrderTypes, NEW c \in Clocks, NEW d \in Clocks
  PROVE  Grown(Update(c, d), c, d)
<1>1. c \in Clock /\ d \in Clock
  BY DEF Clocks, OrderTypes, Tid
<1>2. \A v \in Thread : /\ c[v] \in Nat /\ d[v] \in Nat
                        /\ Update(c, d)[v] = IF c[v] < d[v] THEN d[v] ELSE c[v]
  BY <1>1, ClockFacts, SMTT(30) DEF Clock, Tid
<1> QED
  BY <1>2 DEF Grown

\* vector_clock_increment() adds what nobody has seen yet.
LEMMA IncrementGrown ==
  ASSUME OrderTypes, NEW t \in Thread
  PROVE  Grown(Increment(vc[t], t), vc[t], vc[t])
<1>1. vc[t] \in Clock /\ t \in Tid /\ \A v \in Thread : v \in Tid
  BY Zenon DEF OrderTypes, Tid
<1>2. \A v \in Thread : /\ vc[t][v] \in Nat
                        /\ Increment(vc[t], t)[v] = IF v = t THEN vc[t][v] + 1 ELSE vc[t][v]
  BY <1>1, ClockFacts, SMTT(30) DEF Clock
<1> QED
  BY <1>1, <1>2 DEF Grown

\* A clock that stays as it is.
LEMMA SelfGrown ==
  ASSUME OrderTypes, NEW c \in Clocks
  PROVE  Grown(c, c, c)
BY DEF OrderTypes, Clock, Clocks, Grown, Tid

\* process_fork(), process_join(), lock_acquire() and lock_release() leave the
\* detectors alone and merge clocks.
LEMMA MergeQuiet ==
  ASSUME OrderInv, ~overtaken, DetectorInv, NEW t \in Thread,
         PreThread(t) \/ PostJoin(t) \/ PostLock(t) \/ \E m \in Mutex : PreUnlock(t, m)
  PROVE  Quiet
<1>1. OrderTypes /\ TodoInv /\ ThreadInv /\ JoinsTheRightThread /\ OwnClocks
  BY Zenon DEF OrderInv, DetectorInv
<1>2. /\ \A w \in Thread : vc[w] \in Clocks /\ w \in Tid
      /\ \A m \in Mutex : lockVc[m] \in Clocks
      /\ \A d \in Clocks : Grown(d, d, d)
      /\ \A d, e \in Clocks : Grown(Update(d, e), d, e)
      /\ \A w \in Thread : Grown(Increment(vc[w], w), vc[w], vc[w])
  BY <1>1, UpdateGrown, IncrementGrown, SelfGrown, Zenon DEF Clocks, Tid
<1>3. \A w \in Thread : pc[w] = "updating" => \A u \in Thread : pc[u] = "starting" => parent[u] # w
  BY <1>1, Zenon DEF TodoInv
<1>4. ASSUME PreThread(t) PROVE Quiet
  <2> DEFINE q == parent[t]
  <2>1. q \in Thread /\ q # t /\ pc[t] = "starting" /\ pc[q] # "updating"
    BY <1>1, <1>3, <1>4, Zenon DEF ThreadInv, PreThread
  <2>2. /\ UNCHANGED <<djit, fast, todo, djitReports, fastReports, accesses, raced, overlapped,
                       parent, lockVc>>
        /\ pc' = [pc EXCEPT ![t] = "running"]
        /\ vc' = [vc EXCEPT ![t] = Update(vc[t], vc[q]), ![q] = Increment(vc[q], q)]
    BY <1>4, Zenon DEF PreThread, ForkClocks, variables, reference
  <2> HIDE DEF q
  <2>3. \A w \in Thread : vc'[w] = IF w = q THEN Increment(vc[q], q)
                                   ELSE IF w = t THEN Update(vc[t], vc[q]) ELSE vc[w]
    BY <1>1, <1>2, <2>1, <2>2, Zenon DEF OrderTypes
  <2>4. ClockStep
    <3>1. \A w \in Thread : \E d \in Clocks : Grown(vc'[w], vc[w], d)
      BY <1>2, <2>1, <2>3, Zenon
    <3>2. \A m \in Mutex : \E d \in Clocks : Grown(lockVc'[m], lockVc[m], d)
      BY <1>2, <2>2, Zenon
    <3> QED
      BY <3>1, <3>2, Zenon DEF ClockStep
  <2>5. \A w \in Thread : pc'[w] = IF w = t THEN "running" ELSE pc[w]
    BY <1>1, <2>2, Zenon DEF OrderTypes
  <2>6. ASSUME NEW w \in Thread, pc[w] = "updating"
        PROVE  vc'[w][w] = vc[w][w] /\ \A u \in Thread : pc'[u] = "starting" => parent'[u] # w
    <3>1. w # t /\ vc'[w] = vc[w]
      BY <2>1, <2>3, <2>6, Zenon
    <3>2. \A u \in Thread : pc'[u] = "starting" => pc[u] = "starting" /\ parent'[u] = parent[u]
      BY <2>1, <2>2, <2>5, Zenon
    <3> QED
      BY <3>1, <3>2, <1>3, <2>6, Zenon
  <2>7. \A w \in Thread : pc'[w] = "updating" <=> pc[w] = "updating"
    BY <2>1, <2>5, Zenon
  <2> QED
    BY <2>2, <2>4, <2>6, <2>7, Zenon DEF Quiet
<1>5. ASSUME PostJoin(t) PROVE Quiet
  <2> DEFINE q == joinee[t]
  <2>1. q \in Thread /\ q # t /\ pc[t] = "joining" /\ pc[q] = "done" /\ joining_tid[t] = q
    BY <1>1, <1>5, Zenon DEF ThreadInv, PostJoin, JoinsTheRightThread
  <2>2. /\ UNCHANGED <<djit, fast, todo, djitReports, fastReports, accesses, raced, overlapped,
                       parent, lockVc>>
        /\ pc' = [pc EXCEPT ![t] = "running", ![q] = "joined"]
        /\ vc' = [vc EXCEPT ![t] = Update(vc[t], vc[q]), ![q] = Increment(vc[q], q)]
    BY <1>5, <2>1, Zenon DEF PostJoin, JoinClocks, variables
  <2> HIDE DEF q
  <2>3. \A w \in Thread : vc'[w] = IF w = q THEN Increment(vc[q], q)
                                   ELSE IF w = t THEN Update(vc[t], vc[q]) ELSE vc[w]
    BY <1>1, <1>2, <2>1, <2>2, Zenon DEF OrderTypes
  <2>4. ClockStep
    <3>1. \A w \in Thread : \E d \in Clocks : Grown(vc'[w], vc[w], d)
      BY <1>2, <2>1, <2>3
    <3>2. \A m \in Mutex : \E d \in Clocks : Grown(lockVc'[m], lockVc[m], d)
      BY <1>2, <2>2, Zenon
    <3> QED
      BY <3>1, <3>2, Zenon DEF ClockStep
  <2>5. \A w \in Thread : pc'[w] = IF w = q THEN "joined" ELSE IF w = t THEN "running" ELSE pc[w]
    BY <1>1, <2>1, <2>2, Zenon DEF OrderTypes
  <2>6. ASSUME NEW w \in Thread, pc[w] = "updating"
        PROVE  vc'[w][w] = vc[w][w] /\ \A u \in Thread : pc'[u] = "starting" => parent'[u] # w
    <3>1. w # t /\ vc'[w] = vc[w]
      BY <2>1, <2>3, <2>6, Zenon
    <3>2. \A u \in Thread : pc'[u] = "starting" => pc[u] = "starting" /\ parent'[u] = parent[u]
      BY <2>1, <2>2, <2>5
    <3> QED
      BY <3>1, <3>2, <1>3, <2>6, Zenon
  <2>7. \A w \in Thread : pc'[w] = "updating" <=> pc[w] = "updating"
    BY <2>1, <2>5, Zenon
  <2> QED
    BY <2>2, <2>4, <2>6, <2>7, Zenon DEF Quiet
<1>6. ASSUME PostLock(t) PROVE Quiet
  <2> DEFINE l == mutex[t]
  <2>1. l \in Mutex /\ pc[t] = "locking"
    BY <1>1, <1>6, Zenon DEF ThreadInv, PostLock
  <2>2. /\ UNCHANGED <<djit, fast, todo, djitReports, fastReports, accesses, raced, overlapped,
                       parent, lockVc>>
        /\ pc' = [pc EXCEPT ![t] = "running"]
        /\ vc' = [vc EXCEPT ![t] = Update(vc[t], lockVc[l])]
    BY <1>1, <1>2, <1>6, Zenon DEF PostLock, AcquireClocks, variables, OrderTypes
  <2> HIDE DEF l
  <2>3. \A w \in Thread : vc'[w] = IF w = t THEN Update(vc[t], lockVc[l]) ELSE vc[w]
    BY <1>1, <1>2, <2>1, <2>2, Zenon DEF OrderTypes
  <2>4. ClockStep
    <3>1. \A w \in Thread : \E d \in Clocks : Grown(vc'[w], vc[w], d)
      BY <1>2, <2>1, <2>3, Zenon
    <3>2. \A m \in Mutex : \E d \in Clocks : Grown(lockVc'[m], lockVc[m], d)
      BY <1>2, <2>2, Zenon
    <3> QED
      BY <3>1, <3>2, Zenon DEF ClockStep
  <2>5. \A w \in Thread : pc'[w] = IF w = t THEN "running" ELSE pc[w]
    BY <1>1, <2>2, Zenon DEF OrderTypes
  <2>6. ASSUME NEW w \in Thread, pc[w] = "updating"
        PROVE  vc'[w][w] = vc[w][w] /\ \A u \in Thread : pc'[u] = "starting" => parent'[u] # w
    <3>1. w # t /\ vc'[w] = vc[w]
      BY <2>1, <2>3, <2>6, Zenon
    <3>2. \A u \in Thread : pc'[u] = "starting" => pc[u] = "starting" /\ parent'[u] = parent[u]
      BY <2>1, <2>2, <2>5
    <3> QED
      BY <3>1, <3>2, <1>3, <2>6, Zenon
  <2>7. \A w \in Thread : pc'[w] = "updating" <=> pc[w] = "updating"
    BY <2>1, <2>5, Zenon
  <2> QED
    BY <2>2, <2>4, <2>6, <2>7, Zenon DEF Quiet
<1>7. ASSUME NEW l \in Mutex, PreUnlock(t, l) PROVE Quiet
  <2>1. pc[t] = "running"
    BY <1>7, Zenon DEF PreUnlock, IsRunning
  <2>2. /\ UNCHANGED <<djit, fast, todo, djitReports, fastReports, accesses, raced, overlapped,
                       parent, pc>>
        /\ vc' = [vc EXCEPT ![t] = Increment(vc[t], t)]
        /\ lockVc' = [lockVc EXCEPT ![l] = Update(lockVc[l], vc[t])]
    BY <1>1, <1>2, <1>7, Zenon DEF PreUnlock, ReleaseThread, ReleaseClock, variables, OrderTypes
  <2>3. /\ \A w \in Thread : vc'[w] = IF w = t THEN Increment(vc[t], t) ELSE vc[w]
        /\ \A m \in Mutex : lockVc'[m] = IF m = l THEN Update(lockVc[l], vc[t]) ELSE lockVc[m]
    BY <1>1, <1>2, <2>1, <2>2, Zenon DEF OrderTypes
  <2>4. ClockStep
    BY <1>2, <2>1, <2>2, <2>3 DEF ClockStep
  <2> QED
    BY <1>3, <2>1, <2>2, <2>3, <2>4, Zenon DEF Quiet
<1> QED
  BY <1>4, <1>5, <1>6, <1>7, Zenon
-----------------------------------------------------------------------------
(* The check of an access *)

\* The clock of an active thread tells which accesses happened before.
LEMMA Unordered ==
  ASSUME OrderInv, ~overtaken, NEW t \in Thread, Active(t), NEW a \in accesses
  PROVE  a \in happened[t] <=> a.stamp <= vc[t][a.thread]
BY Zenon DEF OrderInv, Ordered, Knows

\* A recorded access that conflicts and is not known to t is a race.
LEMMA GenuineRace ==
  ASSUME OrderInv, ~overtaken, NEW t \in Thread, Active(t), NEW x, NEW k, NEW l, Conflicting(l, k),
         NEW u \in Tid, NEW c \in Nat, Genuine(u, x, l, c), ~(c <= vc[t][u])
  PROVE  RaceOn(t, x, k)
<1>1. vc[t][u] \in Nat
  BY DEF OrderInv, OrderTypes, Clock, Tid
<1>2. PICK a \in accesses : a.thread = u /\ a.var = x /\ a.kind = l /\ a.stamp = c
  BY <1>1 DEF Genuine, AccessedBy
<1>3. a \notin happened[t]
  BY <1>2, Unordered, Zenon
<1> QED
  BY <1>2, <1>3, Zenon DEF RaceOn

\* When the check of DJIT+ fails there is a race.
LEMMA DjitSound ==
  ASSUME OrderInv, ~overtaken, DetectorInv, NEW t \in Thread, Active(t), NEW x \in Var, NEW k \in Kinds,
         ~DjitRaceFree(t, x, k)
  PROVE  RaceOn(t, x, k)
<1>1. DjitGenuine /\ djit[x] \in DjitVariable
  BY Zenon DEF DetectorInv, DjitInv, DetectorTypes
<1>2. \A u \in Tid : djit[x].rx[u] \in Nat /\ djit[x].wx[u] \in Nat
  BY <1>1, Zenon DEF DjitVariable, Clock
<1>3. CASE ~HappensBefore(djit[x].wx, vc[t])
  <2>1. PICK u \in Tid : ~(djit[x].wx[u] <= vc[t][u])
    BY <1>3, Zenon DEF HappensBefore
  <2>2. Conflicting("write", k) /\ Genuine(u, x, "write", djit[x].wx[u])
    BY <1>1, Zenon DEF Conflicting, DjitGenuine
  <2> QED
    BY <2>1, <2>2, <1>2, GenuineRace, Zenon
<1>4. CASE k = "write" /\ ~HappensBefore(djit[x].rx, vc[t])
  <2>1. PICK u \in Tid : ~(djit[x].rx[u] <= vc[t][u])
    BY <1>4, Zenon DEF HappensBefore
  <2>2. Conflicting("read", k) /\ Genuine(u, x, "read", djit[x].rx[u])
    BY <1>1, <1>4, Zenon DEF Conflicting, DjitGenuine
  <2> QED
    BY <2>1, <2>2, <1>2, GenuineRace, Zenon
<1> QED
  BY <1>3, <1>4, Zenon DEF DjitRaceFree

\* When there is a race on a variable nobody else works on, the check of DJIT+
\* fails.
LEMMA DjitComplete ==
  ASSUME OrderInv, ~overtaken, DetectorInv, NEW t \in Thread, Active(t), NEW x \in Var, NEW k \in Kinds,
         RaceOn(t, x, k), x \notin overlapped \union djitReports, \A u \in Thread : ~Updating(u, x)
  PROVE  ~DjitRaceFree(t, x, k)
<1>1. PICK a \in accesses : a.var = x /\ Conflicting(a.kind, k) /\ a \notin happened[t]
  BY Zenon DEF RaceOn
<1>2. ~(a.stamp <= vc[t][a.thread])
  BY <1>1, Unordered, Zenon
<1>3. a.thread \in Thread /\ a.thread \in Tid /\ a.kind \in Kinds /\ a.stamp \in Nat
  BY Zenon DEF OrderInv, OrderTypes, AccessType, Tid
<1>4. DjitRecorded(a)
  BY <1>1, <1>3, Zenon DEF DetectorInv, DjitInv
<1>5. /\ djit[x].rx[a.thread] \in Nat /\ djit[x].wx[a.thread] \in Nat /\ vc[t][a.thread] \in Nat
  BY <1>3 DEF DetectorInv, DetectorTypes, DjitVariable, Clock, OrderInv, OrderTypes, Tid
<1> QED
  BY <1>1, <1>2, <1>3, <1>4, <1>5 DEF DjitRaceFree, DjitRecorded, HappensBefore, Conflicting, Kinds

\* When the check of FastTrack fails there is a race.
LEMMA FastSound ==
  ASSUME OrderInv, ~overtaken, DetectorInv, NEW t \in Thread, Active(t), NEW x \in Var, NEW k \in Kinds,
         ~FastRaceFree(t, x, k)
  PROVE  RaceOn(t, x, k)
<1> DEFINE f == fast[x]
<1>1. /\ Genuine(f.wx_epoch.thread, x, "write", f.wx_epoch.clock)
      /\ Genuine(f.rx_epoch.thread, x, "read", f.rx_epoch.clock)
      /\ \A u \in Tid : Genuine(u, x, "read", f.rx_vc[u])
  BY Zenon DEF DetectorInv, FastInv, FastGenuine
<1>2. /\ f.wx_epoch.thread \in Tid /\ f.wx_epoch.clock \in Nat
      /\ f.rx_epoch.thread \in Tid /\ f.rx_epoch.clock \in Nat
      /\ \A u \in Tid : f.rx_vc[u] \in Nat
  BY Zenon DEF DetectorInv, DetectorTypes, FastVariable, Epoch, Clock, Tid
<1>3. CASE ~EpochHappensBefore(f.wx_epoch, vc[t])
  <2>1. Conflicting("write", k) /\ ~(f.wx_epoch.clock <= vc[t][f.wx_epoch.thread])
    BY <1>3, Zenon DEF Conflicting, EpochHappensBefore
  <2> QED
    BY <2>1, <1>1, <1>2, GenuineRace, Zenon
<1>4. CASE k = "write" /\ ~HappensBefore(f.rx_vc, vc[t])
  <2>1. PICK u \in Tid : ~(f.rx_vc[u] <= vc[t][u])
    BY <1>4, Zenon DEF HappensBefore
  <2>2. Conflicting("read", k)
    BY <1>4, Zenon DEF Conflicting
  <2> QED
    BY <2>1, <2>2, <1>1, <1>2, GenuineRace, Zenon
<1>5. CASE k = "write" /\ ~EpochHappensBefore(f.rx_epoch, vc[t])
  <2>1. Conflicting("read", k) /\ ~(f.rx_epoch.clock <= vc[t][f.rx_epoch.thread])
    BY <1>5, Zenon DEF Conflicting, EpochHappensBefore
  <2> QED
    BY <2>1, <1>1, <1>2, GenuineRace, Zenon
<1> QED
  BY <1>3, <1>4, <1>5, Zenon DEF FastRaceFree

\* When there is a first race on a variable nobody else works on, the check of
\* FastTrack fails and the shortcut for the same epoch is not taken.
LEMMA FastComplete ==
  ASSUME OrderInv, ~overtaken, DetectorInv, NEW t \in Thread, Active(t), NEW x \in Var, NEW k \in Kinds,
         RaceOn(t, x, k), x \notin raced \union overlapped, \A u \in Thread : ~Updating(u, x)
  PROVE  ~FastSameEpoch(t, x, k) /\ ~FastRaceFree(t, x, k)
<1> DEFINE f == fast[x]
<1>1. PICK a \in accesses : a.var = x /\ Conflicting(a.kind, k) /\ a \notin happened[t]
  BY Zenon DEF RaceOn
<1>2. ~Knows(vc[t], a)
  BY <1>1, Unordered, Zenon DEF Knows
<1>3. a.thread \in Thread /\ a.kind \in Kinds /\ vc[t] \in Clocks
  BY Zenon DEF OrderInv, OrderTypes, AccessType, Clocks
<1>4. FastCovered(a) /\ FastOrder(a, t)
  BY <1>1, <1>3, Zenon DEF DetectorInv, FastInv, Pending
<1>5. ~FastSameEpoch(t, x, k)
  BY <1>1, <1>2, <1>3, <1>4, Zenon DEF FastSameEpoch, FastOrder, Conflicting, Kinds
<1>6. CASE a.kind = "write"
  <2>1. ~(f.wx_epoch.clock <= vc[t][f.wx_epoch.thread])
    BY <1>1, <1>2, <1>3, <1>4, <1>6, Zenon DEF FastCovered, Implies
  <2> QED
    BY <1>5, <2>1, Zenon DEF FastRaceFree, EpochHappensBefore
<1>7. CASE a.kind = "read" /\ k = "write"
  <2>1. CASE f.is_shared
    <3>1. PICK u \in Thread : Implies(u, f.rx_vc[u], a)
      BY <2>1, <1>1, <1>4, <1>7, Zenon DEF FastCovered
    <3>2. ~(f.rx_vc[u] <= vc[t][u]) /\ u \in Tid
      BY <3>1, <1>2, <1>3, Zenon DEF Implies, Tid
    <3> QED
      BY <3>2, <2>1, <1>5, <1>7, Zenon DEF FastRaceFree, HappensBefore
  <2>2. CASE ~f.is_shared
    <3>1. ~(f.rx_epoch.clock <= vc[t][f.rx_epoch.thread])
      BY <2>2, <1>1, <1>2, <1>3, <1>4, <1>7, Zenon DEF FastCovered, Implies
    <3> QED
      BY <3>1, <2>2, <1>5, <1>7, Zenon DEF FastRaceFree, EpochHappensBefore
  <2> QED
    BY <2>1, <2>2, Zenon
<1> QED
  BY <1>1, <1>3, <1>6, <1>7, Zenon DEF Conflicting, Kinds

\* process_read() and process_write() up to their checks keep the invariant.
LEMMA CheckAccessDetector ==
  ASSUME OrderInv, OrderInv', ~overtaken', DetectorInv,
         NEW t \in Thread, NEW x \in Var, NEW k \in Kinds, CheckAccess(t, x, k)
  PROVE  DetectorInv'
<1> DEFINE n == Access(t, x, k)
           same == FastSameEpoch(t, x, k)
           free == FastRaceFree(t, x, k)
           how == IF same \/ ~free THEN "none" ELSE k
           new == [var |-> x, kind |-> k, djit |-> DjitRaceFree(t, x, k), fast |-> how]
<1>1. /\ pc[t] = "running" /\ ~overtaken /\ ~Overtakes(t)
      /\ pc' = [pc EXCEPT ![t] = "updating"]
      /\ todo' = [todo EXCEPT ![t] = new]
      /\ djitReports' = IF DjitRaceFree(t, x, k) THEN djitReports ELSE djitReports \union {x}
      /\ fastReports' = IF same \/ free THEN fastReports ELSE fastReports \union {x}
      /\ accesses' = accesses \union {n}
      /\ raced' = IF RaceOn(t, x, k) THEN raced \union {x} ELSE raced
      /\ overlapped' = IF \E u \in Thread : Updating(u, x) THEN overlapped \union {x} ELSE overlapped
      /\ UNCHANGED <<parent, vc, lockVc, djit, fast>>
  BY Zenon DEF CheckAccess, IsRunning, Accessing, Updating
<1>2. /\ OrderTypes /\ OwnClocks /\ Ordered /\ DetectorTypes /\ TodoInv /\ DjitInv /\ FastInv /\ Active(t)
  BY <1>1, Zenon DEF OrderInv, DetectorInv, Active
<1>3. n \in AccessType /\ n.thread = t /\ n.var = x /\ n.kind = k /\ n.stamp = vc[t][t] /\ Knows(vc[t], n)
  BY <1>2 DEF OrderTypes, Clock, Access, AccessType, Tid, Knows
<1>4. new \in TodoType /\ new.var = x /\ new.kind = k /\ new.fast = how /\ how \in {"none", k}
      /\ (new.djit = TRUE \/ ~DjitRaceFree(t, x, k))
  BY Zenon DEF TodoType, Kinds, DjitRaceFree, HappensBefore
<1> HIDE DEF n, new
<1>5. \A w \in Thread : /\ pc'[w] = IF w = t THEN "updating" ELSE pc[w]
                        /\ todo'[w] = IF w = t THEN new ELSE todo[w]
  BY <1>1, <1>2, Zenon DEF OrderTypes, DetectorTypes
<1>6. /\ \A w \in Thread \ {t} : \A y : Updating(w, y)' <=> Updating(w, y)
      /\ \A y : Updating(t, y)' <=> y = x
      /\ \A y : ~Updating(t, y)
  BY <1>1, <1>4, <1>5, Zenon DEF Updating
<1>7. \A a \in accesses : a \in AccessType /\ a.thread \in Thread /\ a.var \in Var /\ a.kind \in Kinds
  BY <1>2, Zenon DEF OrderTypes, AccessType
<1>8. \A u, y, l, c : AccessedBy(u, y, l, c) => AccessedBy(u, y, l, c)'
  BY <1>1, Zenon DEF AccessedBy
<1>9. x \notin overlapped' => x \notin overlapped /\ \A u \in Thread : ~Updating(u, x)
  BY <1>1, Zenon
<1>10. DetectorTypes'
  BY <1>1, <1>2, <1>4, Zenon DEF DetectorTypes
<1>11. TodoInv'
  <2>1. ASSUME NEW w \in Thread, pc'[w] = "updating"
        PROVE  /\ todo'[w].var \in Var /\ todo'[w].fast \in {"none", todo'[w].kind}
               /\ AccessedBy(w, todo[w].var, todo[w].kind, vc[w][w])'
               /\ \A u \in Thread : pc'[u] = "starting" => parent'[u] # w
               /\ todo'[w].var \notin overlapped' =>
                    \A u \in Thread : Updating(u, todo[w].var)' => u = w
    <3>1. CASE w = t
      <4>1. AccessedBy(w, todo[w].var, todo[w].kind, vc[w][w])'
        BY <3>1, <1>1, <1>3, <1>4, <1>5, SMTT(30) DEF AccessedBy
      <4>2. \A u \in Thread : pc'[u] = "starting" => parent'[u] # w
        BY <3>1, <1>1, <1>5 DEF Overtakes
      <4>3. todo'[w].var = x /\ todo'[w].fast \in {"none", todo'[w].kind}
        BY <3>1, <1>4, <1>5, Zenon
      <4>4. x \notin overlapped' => \A u \in Thread : Updating(u, x)' => u = w
        BY <3>1, <1>6, <1>9, Zenon
      <4> QED
        BY <4>1, <4>2, <4>3, <4>4, Zenon DEF Updating
    <3>2. CASE w # t
      <4>1. /\ pc[w] = "updating" /\ todo'[w] = todo[w]
            /\ todo[w].var \in Var /\ todo[w].fast \in {"none", todo[w].kind}
            /\ AccessedBy(w, todo[w].var, todo[w].kind, vc[w][w])
            /\ \A u \in Thread : pc[u] = "starting" => parent[u] # w
            /\ todo[w].var \notin overlapped => \A u \in Thread : Updating(u, todo[w].var) => u = w
        BY <3>2, <2>1, <1>2, <1>5, Zenon DEF TodoInv
      <4>2. AccessedBy(w, todo[w].var, todo[w].kind, vc[w][w])'
        BY <4>1, <1>1, Zenon DEF AccessedBy
      <4>3. \A u \in Thread : pc'[u] = "starting" => parent'[u] # w
        BY <4>1, <1>1, <1>5
      <4>4. ASSUME todo[w].var \notin overlapped', NEW u \in Thread, Updating(u, todo[w].var)' PROVE u = w
        <5>1. todo[w].var \notin overlapped /\ todo[w].var # x
          BY <4>1, <4>4, <1>1, <1>9, <2>1, <3>2, Zenon DEF Updating
        <5>2. Updating(u, todo[w].var)
          BY <5>1, <4>1, <4>4, <1>4, <1>5, Zenon DEF Updating
        <5> QED
          BY <5>1, <5>2, <4>1, Zenon
      <4> QED
        BY <4>1, <4>2, <4>3, <4>4, Zenon
    <3> QED
      BY <3>1, <3>2, Zenon
  <2> QED
    BY <2>1, Zenon DEF TodoInv
<1>12. DjitInv'
  <2>1. DjitGenuine'
    BY <1>1, <1>2, <1>8, Zenon DEF DjitInv, DjitGenuine, Genuine
  <2>2. djitReports' \subseteq raced'
    BY <1>1, <1>2, DjitSound, Zenon DEF DjitInv
  <2>3. raced' \ overlapped' \subseteq djitReports'
    BY <1>1, <1>2, <1>9, DjitComplete, ZenonT(40) DEF DjitInv
  <2>4. \A w \in Thread : pc'[w] = "updating" => todo'[w].djit = TRUE \/ todo'[w].var \in djitReports'
    <3> SUFFICES ASSUME NEW w \in Thread, pc'[w] = "updating"
                 PROVE  todo'[w].djit = TRUE \/ todo'[w].var \in djitReports'
      BY Zenon
    <3>1. CASE w = t
      <4>1. todo'[w] = new
        BY <3>1, <1>5, Zenon
      <4>2. ~DjitRaceFree(t, x, k) => x \in djitReports'
        BY <1>1, Zenon
      <4> QED
        BY <4>1, <4>2, <1>4, Zenon
    <3>2. CASE w # t
      <4>1. pc[w] = "updating" /\ todo'[w] = todo[w]
        BY <3>2, <1>5, Zenon
      <4>2. djitReports \subseteq djitReports'
        BY <1>1, Zenon
      <4> QED
        BY <4>1, <4>2, <1>2, Zenon DEF DjitInv
    <3> QED
      BY <3>1, <3>2, Zenon
  <2>5. ASSUME NEW a \in accesses', a.var \notin overlapped' \union djitReports'
        PROVE  (Updating(a.thread, a.var)' /\ todo'[a.thread].kind = a.kind) \/ DjitRecorded(a)'
    <3>1. CASE a = n
      BY <3>1, <1>3, <1>4, <1>5, <1>6, Zenon
    <3>2. CASE a \in accesses
      <4>1. a.var \notin overlapped \union djitReports
        BY <2>5, <1>1, Zenon
      <4>2. (Updating(a.thread, a.var) /\ todo[a.thread].kind = a.kind) \/ DjitRecorded(a)
        BY <3>2, <4>1, <1>2, Zenon DEF DjitInv
      <4>3. DjitRecorded(a) => DjitRecorded(a)'
        BY <1>1, Zenon DEF DjitRecorded
      <4> QED
        BY <4>2, <4>3, <3>2, <1>5, <1>6, <1>7, Zenon
    <3> QED
      BY <3>1, <3>2, <1>1, Zenon
  <2> QED
    BY <2>1, <2>2, <2>3, <2>4, <2>5, Zenon DEF DjitInv
<1>13. FastInv'
  <2>1. FastGenuine'
    BY <1>1, <1>2, <1>8, Zenon DEF FastInv, FastGenuine, Genuine
  <2>2. fastReports' \subseteq raced'
    BY <1>1, <1>2, FastSound, Zenon DEF FastInv
  <2>3. raced' \ overlapped' \subseteq fastReports'
    BY <1>1, <1>2, <1>9, FastComplete, ZenonT(40) DEF FastInv
  <2>4. \A a : FastCovered(a)' <=> FastCovered(a)
    <3>1. UNCHANGED <<vc, lockVc, fast>>
      BY <1>1, Zenon
    <3>2. Clocks' = Clocks
      BY <3>1, Zenon DEF Clocks
    <3>3. \A v, c, a : Implies(v, c, a)' <=> Implies(v, c, a)
      BY <3>2, Zenon DEF Implies, Knows
    <3> QED
      BY <3>1, <3>3, Zenon DEF FastCovered
  <2>5. ASSUME NEW a \in accesses', a.var \notin raced' \union overlapped'
        PROVE  Pending(a)' \/ FastCovered(a)'
    <3>1. a.var \notin raced \union overlapped
      BY <2>5, <1>1, Zenon
    <3>2. CASE a \in accesses
      <4>1. Pending(a) \/ FastCovered(a)
        BY <3>1, <3>2, <1>2, Zenon DEF FastInv
      <4>2. Pending(a) => Pending(a)'
        BY <3>2, <1>5, <1>6, <1>7, Zenon DEF Pending
      <4> QED
        BY <4>1, <4>2, <2>4, Zenon
    <3>3. CASE a = n
      <4>1. CASE how # "none"
        BY <4>1, <3>3, <1>3, <1>4, <1>5, <1>6, Zenon DEF Pending
      <4>2. CASE how = "none"
        <5>1. ~RaceOn(t, x, k)
          BY <2>5, <3>3, <1>1, <1>3, Zenon
        <5>2. same
          BY <5>1, <4>2, <1>1, <1>2, FastSound, Zenon DEF Kinds
        <5>3. 1 <= vc[t][t] /\ vc[t][t] \in Nat /\ t \in Tid
          BY <1>2 DEF OwnClocks, OrderTypes, Clock, Tid
        <5>4. AccessedBy(t, x, k, vc[t][t])
          <6>1. /\ fast[x].wx_epoch = [thread |-> t, clock |-> vc[t][t]] => AccessedBy(t, x, "write", vc[t][t])
                /\ fast[x].rx_epoch = [thread |-> t, clock |-> vc[t][t]] => AccessedBy(t, x, "read", vc[t][t])
                /\ fast[x].rx_vc[t] = vc[t][t] => AccessedBy(t, x, "read", vc[t][t])
            <7>1. vc[t][t] # 0
              BY <5>3
            <7>2. /\ Genuine(fast[x].wx_epoch.thread, x, "write", fast[x].wx_epoch.clock)
                  /\ Genuine(fast[x].rx_epoch.thread, x, "read", fast[x].rx_epoch.clock)
                  /\ Genuine(t, x, "read", fast[x].rx_vc[t])
              BY <5>3, <1>2, Zenon DEF FastInv, FastGenuine
            <7> QED
              <8>1. ASSUME fast[x].wx_epoch = [thread |-> t, clock |-> vc[t][t]] PROVE AccessedBy(t, x, "write", vc[t][t])
                <9>1. fast[x].wx_epoch.thread = t /\ fast[x].wx_epoch.clock = vc[t][t]
                  BY <8>1, EpochFields, Zenon
                <9> QED
                  BY <9>1, <7>1, <7>2, Zenon DEF Genuine
              <8>2. ASSUME fast[x].rx_epoch = [thread |-> t, clock |-> vc[t][t]] PROVE AccessedBy(t, x, "read", vc[t][t])
                <9>1. fast[x].rx_epoch.thread = t /\ fast[x].rx_epoch.clock = vc[t][t]
                  BY <8>2, EpochFields, Zenon
                <9> QED
                  BY <9>1, <7>1, <7>2, Zenon DEF Genuine
              <8>3. fast[x].rx_vc[t] = vc[t][t] => AccessedBy(t, x, "read", vc[t][t])
                BY <7>1, <7>2, Zenon DEF Genuine
              <8> QED
                BY <8>1, <8>2, <8>3, Zenon
          <6> QED
            BY <6>1, <5>2, ZenonT(40) DEF FastSameEpoch, Kinds
        <5>5. PICK b \in accesses : b.thread = t /\ b.var = x /\ b.kind = k /\ b.stamp = vc[t][t]
          BY <5>4, Zenon DEF AccessedBy
        <5>6. FastCovered(b)
          BY <5>5, <3>1, <3>3, <1>2, <1>3, <1>6, Zenon DEF FastInv, Pending
        <5>7. FastCovered(n)
          BY <5>5, <5>6, <1>3, Zenon DEF FastCovered, Implies, Knows
        <5> QED
          BY <5>7, <2>4, <3>3, Zenon
      <4> QED
        BY <4>1, <4>2, Zenon
    <3> QED
      BY <3>2, <3>3, <1>1, Zenon
  <2>6. ASSUME NEW a \in accesses', a.var \notin raced' \union overlapped', NEW w \in Thread
        PROVE  FastOrder(a, w)'
    <3>1. a.var \notin raced \union overlapped
      BY <2>6, <1>1, Zenon
    <3>2. ASSUME Updating(w, a.var)', Conflicting(a.kind, todo'[w].kind) PROVE Knows(vc[w], a)
      <4>1. CASE w = t
        <5>1. a.var = x /\ todo'[w].kind = k
          BY <4>1, <3>2, <1>4, <1>5, <1>6, Zenon
        <5>2. CASE a = n
          BY <5>2, <4>1, <1>3, Zenon
        <5>3. CASE a \in accesses
          <6>1. ~RaceOn(t, x, k)
            BY <5>1, <2>6, <1>1, Zenon
          <6>2. a \in happened[t]
            BY <6>1, <5>1, <5>3, <3>2, Zenon DEF RaceOn
          <6> QED
            BY <6>2, <5>3, <4>1, <1>1, <1>2, Unordered, Zenon DEF Knows
        <5> QED
          BY <5>2, <5>3, <1>1, Zenon
      <4>2. CASE w # t
        <5>1. Updating(w, a.var) /\ todo'[w] = todo[w]
          BY <4>2, <3>2, <1>5, <1>6, Zenon
        <5>2. a # n
          BY <5>1, <2>6, <1>3, <1>9, Zenon
        <5>3. FastOrder(a, w)
          BY <5>2, <3>1, <1>1, <1>2, ZenonT(40) DEF FastInv
        <5> QED
          BY <5>1, <5>3, <3>2, Zenon DEF FastOrder
      <4> QED
        BY <4>1, <4>2, Zenon
    <3>3. ASSUME a = n, w # t, NEW l \in Kinds, Conflicting(l, k), AccessedBy(w, x, l, vc[w][w]) PROVE FALSE
      <4>1. PICK b \in accesses : b.thread = w /\ b.var = x /\ b.kind = l /\ b.stamp = vc[w][w]
        BY <3>3, Zenon DEF AccessedBy
      <4>2. ~RaceOn(t, x, k)
        BY <3>3, <2>6, <1>1, <1>3, Zenon
      <4>3. b \in happened[t]
        BY <4>1, <4>2, <3>3, Zenon DEF RaceOn
      <4>4. vc[w][w] <= vc[t][w]
        BY <4>1, <4>3, <1>1, <1>2, Unordered, Zenon
      <4>5. vc[t][w] < vc[w][w] /\ vc[t][w] \in Nat /\ vc[w][w] \in Nat
        BY <3>3, <1>2 DEF OwnClocks, OrderTypes, Clock, Tid
      <4> QED
        BY ONLY <4>4, <4>5
    <3>4. CASE a \in accesses
      <4>1. FastOrder(a, w)
        BY <3>1, <3>4, <1>2, Zenon DEF FastInv
      <4> QED
        BY <4>1, <3>2, <1>1, Zenon DEF FastOrder
    <3>5. CASE a = n
      <4>1. CASE w = t
        BY <4>1, <3>5, <1>1, <1>3, Zenon DEF FastOrder
      <4>2. CASE w # t
        <5>1. 1 <= vc[w][w] /\ vc[w][w] \in Nat /\ w \in Tid
          BY <1>2 DEF OwnClocks, OrderTypes, Clock, Tid
        <5>2. fast[x].wx_epoch # [thread |-> w, clock |-> vc[w][w]]
          <6>1. fast[x].wx_epoch = [thread |-> w, clock |-> vc[w][w]] => AccessedBy(w, x, "write", vc[w][w])
            BY <5>1, <1>2 DEF FastInv, FastGenuine, Genuine
          <6> QED
            BY <6>1, <3>3, <3>5, <4>2, Zenon DEF Conflicting, Kinds
        <5>3. k = "write" => fast[x].rx_epoch # [thread |-> w, clock |-> vc[w][w]]
          <6>1. fast[x].rx_epoch = [thread |-> w, clock |-> vc[w][w]] => AccessedBy(w, x, "read", vc[w][w])
            BY <5>1, <1>2 DEF FastInv, FastGenuine, Genuine
          <6> QED
            BY <6>1, <3>3, <3>5, <4>2, Zenon DEF Conflicting, Kinds
        <5>4. k = "write" => fast[x].rx_vc[w] # vc[w][w]
          <6>1. fast[x].rx_vc[w] = vc[w][w] => AccessedBy(w, x, "read", vc[w][w])
            BY <5>1, <1>2 DEF FastInv, FastGenuine, Genuine
          <6> QED
            BY <6>1, <3>3, <3>5, <4>2, Zenon DEF Conflicting, Kinds
        <5> QED
          BY <5>2, <5>3, <5>4, <3>2, <3>5, <1>1, <1>3, Zenon DEF FastOrder
      <4> QED
        BY <4>1, <4>2, Zenon
    <3> QED
      BY <3>4, <3>5, <1>1, Zenon
  <2> QED
    BY <2>1, <2>2, <2>3, <2>5, <2>6, Zenon DEF FastInv
<1> QED
  BY <1>10, <1>11, <1>12, <1>13, Zenon DEF DetectorInv

\* Only the clock of t itself has reached its current value.
LEMMA OnlyOwnClock ==
  ASSUME OrderTypes, OwnClocks, NEW t \in Thread, NEW a, Knows(vc[t], a)
  PROVE  Implies(t, vc[t][t], a)
<1>1. \A d \in Clocks : vc[t][t] <= d[t] => d = vc[t]
  <2>1. \A u \in Thread \ {t} : vc[u][t] < vc[t][t] /\ vc[u][t] \in Nat /\ vc[t][t] \in Nat
    BY DEF OwnClocks, OrderTypes, Clock, Tid
  <2>2. \A m \in Mutex : lockVc[m][t] < vc[t][t] /\ lockVc[m][t] \in Nat /\ vc[t][t] \in Nat
    BY DEF OwnClocks, OrderTypes, Clock, Tid
  <2> QED
    BY <2>1, <2>2 DEF Clocks
<1> QED
  BY <1>1, Zenon DEF Implies

\* variable_update_read() and variable_update_write() of djit.c, entry by entry.
LEMMA DjitSetFacts ==
  ASSUME DetectorTypes, NEW t \in Tid, NEW x \in Var, NEW k \in Kinds, NEW new, new = DjitSet(t, x, k),
         vc[t][t] \in Nat
  PROVE  /\ new \in [Var -> DjitVariable]
         /\ \A y \in Var \ {x} : new[y] = djit[y]
         /\ \A u \in Tid : /\ new[x].rx[u] = IF k = "read" /\ u = t THEN vc[t][t] ELSE djit[x].rx[u]
                           /\ new[x].wx[u] = IF k = "write" /\ u = t THEN vc[t][t] ELSE djit[x].wx[u]
<1>1. djit \in [Var -> DjitVariable] /\ djit[x].rx \in Clock /\ djit[x].wx \in Clock
  BY Zenon DEF DetectorTypes, DjitVariable
<1> DEFINE rd == [djit[x].rx EXCEPT ![t] = vc[t][t]]
           wr == [djit[x].wx EXCEPT ![t] = vc[t][t]]
<1>2. rd \in Clock /\ wr \in Clock /\ \A u \in Tid : /\ rd[u] = IF u = t THEN vc[t][t] ELSE djit[x].rx[u]
                                                     /\ wr[u] = IF u = t THEN vc[t][t] ELSE djit[x].wx[u]
  BY <1>1, Zenon DEF Clock
<1> HIDE DEF rd, wr
<1>3. CASE k = "read"
  <2>1. new = [djit EXCEPT ![x] = [djit[x] EXCEPT !.rx = rd]]
    BY <1>3, Zenon DEF DjitSet, rd
  <2> QED
    BY <1>1, <1>2, <1>3, <2>1, Zenon DEF DjitVariable
<1>4. CASE k = "write"
  <2>1. new = [djit EXCEPT ![x] = [djit[x] EXCEPT !.wx = wr]]
    BY <1>4, Zenon DEF DjitSet, wr
  <2> QED
    BY <1>1, <1>2, <1>4, <2>1 DEF DjitVariable
<1> QED
  BY <1>3, <1>4, Zenon DEF Kinds

\* The four ways FastTrack records an access.
FastHow == {"write", "epoch", "vector", "share"}

\* The list new is that of FastTrack with the access recorded.
FastStored(new, t, x, how) ==
  /\ new \in [Var -> FastVariable]
  /\ \A y \in Var \ {x} : new[y] = fast[y]
  /\ new[x].wx_epoch = IF how = "write" THEN [thread |-> t, clock |-> vc[t][t]] ELSE fast[x].wx_epoch
  /\ new[x].rx_epoch = IF how = "epoch" THEN [thread |-> t, clock |-> vc[t][t]] ELSE fast[x].rx_epoch
  /\ new[x].is_shared = IF how = "share" THEN TRUE ELSE fast[x].is_shared
  /\ \A u \in Tid : new[x].rx_vc[u] =
       IF how \in {"vector", "share"} /\ u = t THEN vc[t][t]
       ELSE IF how = "share" /\ u = fast[x].rx_epoch.thread THEN fast[x].rx_epoch.clock
       ELSE fast[x].rx_vc[u]

\* variable_update_read() and variable_update_write() of fasttrack.c, field by
\* field. A read that makes a variable shared is by another thread than the read
\* before.
LEMMA FastSetFacts ==
  ASSUME DetectorTypes, NEW t \in Thread, NEW x \in Var, NEW how \in FastHow, vc[t][t] \in Nat,
         how = "share" => fast[x].rx_epoch.thread # t
  PROVE  FastStored(FastSet(t, x, how), t, x, how)
<1> DEFINE new == FastSet(t, x, how)
           v == fast[x]
           e == [thread |-> t, clock |-> vc[t][t]]
           vector == [v.rx_vc EXCEPT ![t] = vc[t][t]]
           share == [[v.rx_vc EXCEPT ![v.rx_epoch.thread] = v.rx_epoch.clock] EXCEPT ![t] = vc[t][t]]
<1>1. fast \in [Var -> FastVariable] /\ v \in FastVariable /\ v.rx_vc \in Clock /\ v.rx_epoch \in Epoch
      /\ v.rx_epoch.thread \in Thread /\ v.rx_epoch.clock \in Nat /\ e \in Epoch
  BY Zenon DEF DetectorTypes, FastVariable, Epoch
<1>2. vector \in Clock /\ \A u \in Tid : vector[u] = IF u = t THEN vc[t][t] ELSE v.rx_vc[u]
  BY <1>1, Zenon DEF Clock, Tid
<1>3. /\ share \in Clock
      /\ \A u \in Tid : share[u] = IF u = t THEN vc[t][t]
                                   ELSE IF u = v.rx_epoch.thread THEN v.rx_epoch.clock ELSE v.rx_vc[u]
  BY <1>1, Zenon DEF Clock, Tid
<1>4. /\ how = "write" => new = [fast EXCEPT ![x] = [v EXCEPT !.wx_epoch = e]]
      /\ how = "epoch" => new = [fast EXCEPT ![x] = [v EXCEPT !.rx_epoch = e]]
      /\ how = "vector" => new = [fast EXCEPT ![x] = [v EXCEPT !.rx_vc = vector]]
      /\ how = "share" => new = [fast EXCEPT ![x] = [v EXCEPT !.rx_vc = share, !.is_shared = TRUE]]
  BY <1>1, Zenon DEF FastSet, FastVariable
<1> SUFFICES FastStored(new, t, x, how)
  OBVIOUS
<1> HIDE DEF vector, share, v, e, new
<1>5. v = fast[x] /\ e = [thread |-> t, clock |-> vc[t][t]]
  BY Zenon DEF v, e
<1>6. CASE how = "write"
  BY <1>1, <1>4, <1>5, <1>6 DEF FastVariable, FastStored
<1>7. CASE how = "epoch"
  BY <1>1, <1>4, <1>5, <1>7 DEF FastVariable, FastStored
<1>8. CASE how = "vector"
  BY <1>1, <1>2, <1>4, <1>5, <1>8 DEF FastVariable, FastStored
<1>9. CASE how = "share"
  <2> DEFINE r == [v EXCEPT !.rx_vc = share, !.is_shared = TRUE]
  <2>1. /\ r \in FastVariable /\ r.rx_vc = share /\ r.is_shared = TRUE
        /\ r.rx_epoch = v.rx_epoch /\ r.wx_epoch = v.wx_epoch
    BY <1>1, <1>3, Zenon DEF FastVariable
  <2>2. new = [fast EXCEPT ![x] = r]
    BY <1>4, <1>9, Zenon
  <2> HIDE DEF r
  <2>3. new \in [Var -> FastVariable] /\ new[x] = r /\ \A y \in Var \ {x} : new[y] = fast[y]
    BY <1>1, <2>1, <2>2, Zenon
  <2>4. new[x].is_shared = TRUE
    BY <2>1, <2>3, Zenon
  <2>5. new[x].wx_epoch = fast[x].wx_epoch /\ new[x].rx_epoch = fast[x].rx_epoch /\ new[x].rx_vc = share
    BY <1>5, <2>1, <2>3, Zenon
  <2> QED
    BY <1>3, <1>5, <1>9, <2>3, <2>4, <2>5, Zenon DEF FastStored
<1> QED
  BY <1>6, <1>7, <1>8, <1>9, Zenon DEF FastHow

\* The updates of both detectors keep the invariant, on each of the paths of
\* variable_update_read().
LEMMA SetVariableDetector ==
  ASSUME OrderInv, OrderInv', ~overtaken', DetectorInv, NEW t \in Thread, SetVariable(t)
  PROVE  DetectorInv'
<1> DEFINE x == todo[t].var
           k == todo[t].kind
           now == vc[t][t]
           how == IF todo[t].fast = "read" THEN FastReadPath(t, x) ELSE todo[t].fast
           old == fast[x].rx_epoch
<1>1. /\ pc[t] = "updating" /\ ~overtaken
      /\ pc' = [pc EXCEPT ![t] = "running"]
      /\ todo' = [todo EXCEPT ![t] = NoTodo]
      /\ djit' = IF todo[t].djit THEN DjitSet(t, x, k) ELSE djit
      /\ UNCHANGED <<parent, vc, lockVc, djitReports, fastReports, accesses, happened, raced, overlapped>>
  BY Zenon DEF SetVariable, reference
<1>2. OrderTypes /\ OwnClocks /\ Ordered /\ DetectorTypes /\ TodoInv /\ DjitInv /\ FastInv
  BY <1>1, Zenon DEF OrderInv, DetectorInv
<1>3. /\ x \in Var /\ k \in Kinds /\ now \in Nat /\ t \in Tid /\ todo[t].fast \in {"none", k}
      /\ AccessedBy(t, x, k, now) /\ (todo[t].djit = TRUE \/ x \in djitReports)
      /\ x \notin overlapped => \A u \in Thread : Updating(u, x) => u = t
  BY <1>1, <1>2 DEF TodoInv, DetectorTypes, TodoType, OrderTypes, Clock, Tid, DjitInv
<1>4. \A w \in Thread : /\ pc'[w] = IF w = t THEN "running" ELSE pc[w]
                        /\ todo'[w] = IF w = t THEN NoTodo ELSE todo[w]
  BY <1>1, <1>2, Zenon DEF OrderTypes, DetectorTypes
<1>5. \A w \in Thread : \A y : Updating(w, y)' <=> w # t /\ Updating(w, y)
  BY <1>4, Zenon DEF Updating
<1>6. \A a \in accesses : /\ a \in AccessType /\ a.thread \in Thread /\ a.var \in Var /\ a.kind \in Kinds
                          /\ a.stamp \in Nat /\ a.stamp <= vc[a.thread][a.thread]
  BY <1>2, Zenon DEF OrderTypes, AccessType, Ordered
<1>7. \A u, y, l, c : AccessedBy(u, y, l, c)' <=> AccessedBy(u, y, l, c)
  BY <1>1, Zenon DEF AccessedBy
<1>8. /\ old.thread \in Thread /\ old.clock \in Nat /\ old.clock <= vc[old.thread][old.thread]
  <2>1. old.thread \in Thread /\ old.clock \in Nat /\ Genuine(old.thread, x, "read", old.clock)
    BY <1>2, <1>3, Zenon DEF DetectorTypes, FastVariable, Epoch, FastInv, FastGenuine
  <2>2. old.thread \in Tid /\ 1 <= vc[old.thread][old.thread] /\ vc[old.thread][old.thread] \in Nat
    BY <2>1, <1>2, ZenonT(40) DEF OwnClocks, OrderTypes, Clock, Tid
  <2> HIDE DEF old
  <2>3. old.clock # 0 => old.clock <= vc[old.thread][old.thread]
    BY ONLY <2>1, <2>2, <1>2, GenuineBound, Zenon
  <2> QED
    BY <2>1, <2>2, <2>3
<1>9. how = "share" => old.thread # t
  BY <1>3, <1>8, Zenon DEF FastReadPath, EpochHappensBefore, Kinds
<1>10. how = "none" \/ how \in FastHow
  BY <1>3, Zenon DEF FastHow, FastReadPath, Kinds
<1>11. /\ how = "none" <=> todo[t].fast = "none"
       /\ how = "write" <=> todo[t].fast = "write"
       /\ how # "none" /\ how # "write" <=> todo[t].fast = "read"
  BY <1>3, Zenon DEF FastReadPath, Kinds
<1>12. fast' = IF how = "none" THEN fast ELSE FastSet(t, x, how)
  BY <1>3, <1>11, Zenon DEF SetVariable, Kinds
<1> HIDE DEF x, k, now, how, old
<1>13. x = todo[t].var /\ k = todo[t].kind /\ now = vc[t][t] /\ old = fast[x].rx_epoch
  BY Zenon DEF x, k, now, old
<1>14. /\ fast' \in [Var -> FastVariable]
       /\ \A y \in Var \ {x} : fast'[y] = fast[y]
       /\ fast'[x].wx_epoch = IF how = "write" THEN [thread |-> t, clock |-> now] ELSE fast[x].wx_epoch
       /\ fast'[x].rx_epoch = IF how = "epoch" THEN [thread |-> t, clock |-> now] ELSE old
       /\ fast'[x].is_shared = IF how = "share" THEN TRUE ELSE fast[x].is_shared
       /\ \A u \in Tid : fast'[x].rx_vc[u] =
            IF how \in {"vector", "share"} /\ u = t THEN now
            ELSE IF how = "share" /\ u = old.thread THEN old.clock
            ELSE fast[x].rx_vc[u]
  <2>1. CASE how = "none"
    BY <2>1, <1>2, <1>12, <1>13, Zenon DEF DetectorTypes
  <2>2. CASE how # "none"
    <3>1. fast' = FastSet(t, x, how) /\ how \in FastHow
      BY <2>2, <1>10, <1>12, Zenon
    <3>2. vc[t][t] \in Nat /\ (how = "share" => fast[x].rx_epoch.thread # t)
      BY <1>3, <1>9, <1>13, Zenon
    <3>3. DetectorTypes /\ x \in Var /\ t \in Thread
      BY <1>2, <1>3, Zenon
    <3>4. FastStored(fast', t, x, how)
      BY <3>1, <3>2, <3>3, FastSetFacts, Zenon
    <3> QED
      BY <3>4, <1>13, Zenon DEF FastStored
  <2> QED
    BY <2>1, <2>2, Zenon
<1>15. /\ djit' \in [Var -> DjitVariable]
       /\ \A y \in Var \ {x} : djit'[y] = djit[y]
       /\ \A u \in Tid : /\ djit'[x].rx[u] = IF todo[t].djit /\ k = "read" /\ u = t THEN now ELSE djit[x].rx[u]
                         /\ djit'[x].wx[u] = IF todo[t].djit /\ k = "write" /\ u = t THEN now ELSE djit[x].wx[u]
  <2>1. CASE todo[t].djit
    <3>1. djit' = DjitSet(t, x, k)
      BY <2>1, <1>1, Zenon
    <3> QED
      BY <3>1, <2>1, <1>2, <1>3, <1>13, DjitSetFacts
  <2>2. CASE ~todo[t].djit
    BY <2>2, <1>1, <1>2, Zenon DEF DetectorTypes
  <2> QED
    BY <2>1, <2>2, ZenonT(40)
<1>16. NoTodo \in TodoType
  BY Zenon DEF NoTodo, TodoType, Kinds
<1>17. DetectorTypes'
  BY <1>1, <1>2, <1>14, <1>15, <1>16, Zenon DEF DetectorTypes
<1>18. TodoInv'
  <2>1. ASSUME NEW w \in Thread, pc'[w] = "updating"
        PROVE  /\ todo'[w].var \in Var /\ todo'[w].fast \in {"none", todo'[w].kind}
               /\ AccessedBy(w, todo[w].var, todo[w].kind, vc[w][w])'
               /\ \A u \in Thread : pc'[u] = "starting" => parent'[u] # w
               /\ todo'[w].var \notin overlapped' =>
                    \A u \in Thread : Updating(u, todo[w].var)' => u = w
    <3>1. w # t /\ pc[w] = "updating" /\ todo'[w] = todo[w]
      BY <2>1, <1>4, Zenon
    <3>2. /\ todo[w].var \in Var /\ todo[w].fast \in {"none", todo[w].kind}
          /\ AccessedBy(w, todo[w].var, todo[w].kind, vc[w][w])
          /\ \A u \in Thread : pc[u] = "starting" => parent[u] # w
          /\ todo[w].var \notin overlapped => \A u \in Thread : Updating(u, todo[w].var) => u = w
      BY <3>1, <1>2, Zenon DEF TodoInv
    <3>3. AccessedBy(w, todo[w].var, todo[w].kind, vc[w][w])'
      BY <3>1, <3>2, <1>1, Zenon DEF AccessedBy
    <3>4. \A u \in Thread : pc'[u] = "starting" => parent'[u] # w
      BY <3>2, <1>1, <1>4
    <3>5. ASSUME todo[w].var \notin overlapped, NEW u \in Thread, Updating(u, todo[w].var)' PROVE u = w
      BY <3>1, <3>2, <3>5, <1>4, Zenon DEF Updating
    <3> QED
      BY <3>1, <3>2, <3>3, <3>4, <3>5, <1>1
  <2> QED
    BY <2>1, Zenon DEF TodoInv
<1>19. DjitInv'
  <2>1. DjitGenuine'
    <3>1. ASSUME NEW y \in Var, NEW u \in Tid
          PROVE  Genuine(u, y, "read", djit'[y].rx[u]) /\ Genuine(u, y, "write", djit'[y].wx[u])
      <4>1. Genuine(u, y, "read", djit[y].rx[u]) /\ Genuine(u, y, "write", djit[y].wx[u])
        BY <1>2, Zenon DEF DjitInv, DjitGenuine
      <4> QED
        BY <4>1, <1>3, <1>15 DEF Genuine
    <3> QED
      BY <3>1, <1>7, Zenon DEF DjitGenuine, Genuine
  <2>2. djitReports' \subseteq raced' /\ raced' \ overlapped' \subseteq djitReports'
    BY <1>1, <1>2, Zenon DEF DjitInv
  <2>3. \A w \in Thread : pc'[w] = "updating" => todo'[w].djit = TRUE \/ todo'[w].var \in djitReports'
    BY <1>1, <1>2, <1>4 DEF DjitInv
  <2>4. ASSUME NEW a \in accesses, a.var \notin overlapped \union djitReports
        PROVE  (Updating(a.thread, a.var)' /\ todo'[a.thread].kind = a.kind) \/ DjitRecorded(a)'
    <3>1. (Updating(a.thread, a.var) /\ todo[a.thread].kind = a.kind) \/ DjitRecorded(a)
      BY <2>4, <1>2, Zenon DEF DjitInv
    <3>2. CASE a.var # x
      <4>1. a.thread # t \/ ~Updating(a.thread, a.var)
        BY <3>2, <1>13, Zenon DEF Updating
      <4>2. DjitRecorded(a) => DjitRecorded(a)'
        BY <3>2, <1>6, <1>15, Zenon DEF DjitRecorded
      <4> QED
        BY <3>1, <4>1, <4>2, <1>4, <1>5, <1>6, Zenon
    <3>3. CASE a.var = x
      <4>1. todo[t].djit = TRUE
        BY <3>3, <2>4, <1>3, Zenon
      <4>2. CASE a.thread = t /\ a.kind = k
        BY <3>3, <4>1, <4>2, <1>3, <1>6, <1>15, <1>13 DEF DjitRecorded, Kinds
      <4>3. CASE ~(a.thread = t /\ a.kind = k)
        <5>1. DjitRecorded(a)
          BY <3>1, <3>3, <4>3, <2>4, <1>3, <1>6, <1>13, Zenon
        <5>2. a.thread \in Tid
          BY <1>6, Zenon DEF Tid
        <5> QED
          BY <3>3, <4>3, <5>1, <5>2, <1>6, <1>15, Zenon DEF DjitRecorded, Kinds
      <4> QED
        BY <4>2, <4>3, Zenon
    <3> QED
      BY <3>2, <3>3, Zenon
  <2> QED
    BY <2>1, <2>2, <2>3, <2>4, <1>1, Zenon DEF DjitInv
<1>20. FastInv'
  <2>1. FastGenuine'
    <3>1. ASSUME NEW y \in Var
          PROVE  /\ Genuine(fast'[y].wx_epoch.thread, y, "write", fast'[y].wx_epoch.clock)
                 /\ Genuine(fast'[y].rx_epoch.thread, y, "read", fast'[y].rx_epoch.clock)
                 /\ \A u \in Tid : Genuine(u, y, "read", fast'[y].rx_vc[u])
      <4>1. /\ Genuine(fast[y].wx_epoch.thread, y, "write", fast[y].wx_epoch.clock)
            /\ Genuine(fast[y].rx_epoch.thread, y, "read", fast[y].rx_epoch.clock)
            /\ \A u \in Tid : Genuine(u, y, "read", fast[y].rx_vc[u])
        BY <1>2, Zenon DEF FastInv, FastGenuine
      <4>2. CASE y # x
        BY <4>1, <4>2, <1>14, Zenon
      <4>3. CASE y = x
        <5>1. /\ how = "write" => Genuine(t, x, "write", now)
              /\ how # "none" /\ how # "write" => Genuine(t, x, "read", now)
          BY <1>3, <1>11, Zenon DEF Genuine
        <5>2. Genuine(fast'[x].wx_epoch.thread, x, "write", fast'[x].wx_epoch.clock)
          BY <4>1, <4>3, <5>1, <1>14
        <5>3. Genuine(fast'[x].rx_epoch.thread, x, "read", fast'[x].rx_epoch.clock)
          <6>1. CASE how = "epoch"
            BY <6>1, <5>1, <1>14
          <6>2. CASE how # "epoch"
            BY <6>2, <4>1, <4>3, <1>14, <1>13, Zenon
          <6> QED
            BY <6>1, <6>2, Zenon
        <5>4. \A u \in Tid : Genuine(u, x, "read", fast'[x].rx_vc[u])
          BY <4>1, <4>3, <5>1, <1>14, <1>13, Zenon
        <5> QED
          BY <4>3, <5>2, <5>3, <5>4, Zenon
      <4> QED
        BY <4>2, <4>3, Zenon
    <3> QED
      BY <3>1, <1>7, Zenon DEF FastGenuine, Genuine
  <2>2. fastReports' \subseteq raced' /\ raced' \ overlapped' \subseteq fastReports'
    BY <1>1, <1>2, Zenon DEF FastInv
  <2>3. \A v, c, a : Implies(v, c, a)' <=> Implies(v, c, a)
    BY <1>1, Zenon DEF Implies, Clocks, Knows
  <2>4. ASSUME NEW a \in accesses, a.var \notin raced \union overlapped
        PROVE  Pending(a)' \/ FastCovered(a)'
    <3>1. Pending(a) \/ FastCovered(a)
      BY <2>4, <1>2, Zenon DEF FastInv
    <3>2. CASE a.var # x
      <4>1. Pending(a) => Pending(a)'
        BY <3>2, <1>4, <1>5, <1>6, <1>13, Zenon DEF Pending, Updating
      <4>2. fast'[a.var] = fast[a.var]
        BY <3>2, <1>6, <1>14, Zenon
      <4>3. FastCovered(a) => FastCovered(a)'
        BY <4>2, <2>3, Zenon DEF FastCovered
      <4> QED
        BY <3>1, <4>1, <4>3, Zenon
    <3>3. CASE a.var = x
      <4>1. Pending(a) => a.thread = t /\ a.kind = k /\ how # "none"
        BY <3>3, <2>4, <1>3, <1>6, <1>11, <1>13, Zenon DEF Pending
      <4>2. a.thread = t => Implies(t, now, a)
        BY <1>2, <1>6, <1>13, OnlyOwnClock, Zenon DEF Knows
      <4>3. CASE a.kind = "write"
        <5>1. CASE how = "write"
          <6>1. FastOrder(a, t) /\ Updating(t, a.var)
            BY <3>3, <2>4, <1>1, <1>2, <1>13, Zenon DEF FastInv, Updating
          <6>2. Implies(t, now, a)
            BY <6>1, <4>3, <1>2, <1>13, OnlyOwnClock, Zenon DEF FastOrder, Conflicting
          <6>3. fast'[x].wx_epoch.thread = t /\ fast'[x].wx_epoch.clock = now
            BY <5>1, <1>14
          <6> QED
            BY <3>3, <4>3, <6>2, <6>3, <2>3, Zenon DEF FastCovered
        <5>2. CASE how # "write"
          <6>1. FastCovered(a)
            BY <3>1, <4>1, <4>3, <5>2, <1>3, <1>11, Zenon
          <6>2. fast'[x].wx_epoch = fast[x].wx_epoch
            BY <5>2, <1>14, Zenon
          <6> QED
            BY <3>3, <4>3, <6>1, <6>2, <2>3, Zenon DEF FastCovered
        <5> QED
          BY <5>1, <5>2, Zenon
      <4>4. CASE a.kind = "read"
        <5>1. CASE how \in {"none", "write"}
          <6>1. FastCovered(a)
            BY <3>1, <4>1, <4>4, <5>1, <1>3, <1>11, Zenon
          <6>2. /\ fast'[x].is_shared = fast[x].is_shared /\ fast'[x].rx_epoch = fast[x].rx_epoch
                /\ \A u \in Thread : fast'[x].rx_vc[u] = fast[x].rx_vc[u]
            BY <5>1, <1>13, <1>14, Zenon DEF Tid
          <6> QED
            BY <3>3, <4>4, <6>1, <6>2, <2>3, Zenon DEF FastCovered
        <5>2. CASE how = "vector"
          <6>1. /\ fast'[x].is_shared = fast[x].is_shared /\ fast'[x].rx_vc[t] = now
                /\ \A u \in Thread \ {t} : fast'[x].rx_vc[u] = fast[x].rx_vc[u]
            BY <5>2, <1>14, Zenon DEF Tid
          <6>2. fast[x].is_shared
            BY <5>2, <1>3, Zenon DEF how, FastReadPath, Kinds
          <6>3. CASE Implies(t, now, a)
            BY <6>1, <6>2, <6>3, <3>3, <4>4, <2>3, Zenon DEF FastCovered
          <6>4. CASE ~Implies(t, now, a)
            <7>1. PICK u \in Thread : Implies(u, fast[x].rx_vc[u], a)
              BY <6>2, <6>4, <3>1, <3>3, <4>1, <4>2, <4>4, Zenon DEF FastCovered
            <7>2. CASE u # t
              BY <7>1, <7>2, <6>1, <6>2, <3>3, <4>4, <2>3, Zenon DEF FastCovered
            <7>3. CASE u = t
              <8>1. Genuine(t, x, "read", fast[x].rx_vc[t]) /\ fast[x].rx_vc[t] \in Nat
                BY <1>2, <1>3, Zenon DEF FastInv, FastGenuine, DetectorTypes, FastVariable, Clock
              <8>2. fast[x].rx_vc[t] <= now
                <9>1. CASE fast[x].rx_vc[t] = 0
                  BY <9>1, <1>3
                <9>2. CASE fast[x].rx_vc[t] # 0
                  BY <9>2, <8>1, <1>2, <1>3, <1>13, GenuineBound, Zenon
                <9> QED
                  BY <9>1, <9>2, Zenon
              <8>3. \A d \in Clocks : d[t] \in Nat
                BY <1>2, <1>3, SMTT(30) DEF Clocks, OrderTypes, Clock, Tid
              <8>4. Implies(t, now, a)
                BY <7>1, <7>3, <8>1, <8>2, <8>3, <1>3 DEF Implies
              <8> QED
                BY <8>4, <6>4, Zenon
            <7> QED
              BY <7>2, <7>3, Zenon
          <6> QED
            BY <6>3, <6>4, Zenon
        <5>3. CASE how = "epoch"
          <6>1. /\ fast'[x].is_shared = fast[x].is_shared
                /\ fast'[x].rx_epoch.thread = t /\ fast'[x].rx_epoch.clock = now
            BY <5>3, <1>14
          <6>2. ~fast[x].is_shared /\ old.clock <= vc[t][old.thread]
            BY <5>3, <1>3, <1>13, Zenon DEF how, FastReadPath, EpochHappensBefore, Kinds
          <6>3. FastCovered(a) => Knows(vc[t], a)
            BY <6>2, <3>3, <4>4, <1>13, Zenon DEF FastCovered, Implies, Clocks
          <6>4. Implies(t, now, a)
            BY <6>3, <3>1, <4>1, <4>2, <1>2, <1>13, OnlyOwnClock, Zenon
          <6> QED
            BY <6>1, <6>2, <6>4, <3>3, <4>4, <2>3, Zenon DEF FastCovered
        <5>4. CASE how = "share"
          <6>1. /\ fast'[x].is_shared = TRUE /\ fast'[x].rx_vc[t] = now
                /\ fast'[x].rx_vc[old.thread] = old.clock
            BY <5>4, <1>3, <1>8, <1>9, <1>14 DEF Tid
          <6>2. ~fast[x].is_shared
            BY <5>4, <1>3, Zenon DEF how, FastReadPath, Kinds
          <6>3. FastCovered(a) => Implies(old.thread, old.clock, a)
            BY <6>2, <3>3, <4>4, <1>13, Zenon DEF FastCovered
          <6>4. \E u \in Thread : Implies(u, fast'[x].rx_vc[u], a)
            BY <6>1, <6>3, <3>1, <4>1, <4>2, <1>8, Zenon
          <6> QED
            BY <6>1, <6>4, <3>3, <4>4, <2>3, ZenonT(40) DEF FastCovered
        <5> QED
          BY <5>1, <5>2, <5>3, <5>4, <1>10, Zenon DEF FastHow
      <4> QED
        BY <4>3, <4>4, <1>6, Zenon DEF Kinds
    <3> QED
      BY <3>2, <3>3, Zenon
  <2>5. ASSUME NEW a \in accesses, a.var \notin raced \union overlapped, NEW w \in Thread
        PROVE  FastOrder(a, w)'
    <3>1. FastOrder(a, w) /\ FastOrder(a, t)
      BY <2>5, <1>2, Zenon DEF FastInv
    <3>2. CASE a.var # x
      <4>1. fast'[a.var] = fast[a.var]
        BY <3>2, <1>6, <1>14, Zenon
      <4>2. Updating(w, a.var)' => Updating(w, a.var) /\ todo'[w] = todo[w]
        BY <1>4, <1>5, Zenon
      <4> QED
        BY <3>1, <4>1, <4>2, <1>1, Zenon DEF FastOrder
    <3>3. CASE a.var = x
      <4>1. ~Updating(w, a.var)'
        BY <3>3, <2>5, <1>3, <1>5, Zenon
      <4>2. Conflicting(a.kind, k) => Knows(vc[t], a)
        BY <3>1, <3>3, <1>1, <1>13, Zenon DEF FastOrder, Updating
      <4>3. ASSUME fast'[x].wx_epoch = [thread |-> w, clock |-> vc[w][w]] PROVE Knows(vc[w], a)
        <5>1. CASE how = "write"
          BY <5>1, <4>2, <4>3, <1>3, <1>11, <1>14 DEF Conflicting
        <5>2. CASE how # "write"
          BY <5>2, <4>3, <3>1, <3>3, <1>14, Zenon DEF FastOrder
        <5> QED
          BY <5>1, <5>2, Zenon
      <4>4. ASSUME a.kind = "write", fast'[x].rx_epoch = [thread |-> w, clock |-> vc[w][w]] PROVE Knows(vc[w], a)
        <5>1. CASE how = "epoch"
          BY <5>1, <4>2, <4>4, <1>14 DEF Conflicting
        <5>2. CASE how # "epoch"
          BY <5>2, <4>4, <3>1, <3>3, <1>13, <1>14, Zenon DEF FastOrder
        <5> QED
          BY <5>1, <5>2, Zenon
      <4>5. ASSUME a.kind = "write", fast'[x].rx_vc[w] = vc[w][w] PROVE Knows(vc[w], a)
        <5>1. CASE w = t
          BY <5>1, <4>2, <4>5, Zenon DEF Conflicting
        <5>2. CASE w # t /\ how = "share" /\ w = old.thread
          <6>1. old.clock = vc[w][w]
            BY <5>2, <4>5, <1>14, Zenon DEF Tid
          <6>2. fast[x].rx_epoch = [thread |-> w, clock |-> vc[w][w]]
            BY <6>1, <5>2, <1>2, <1>3, <1>13, Zenon DEF DetectorTypes, FastVariable, Epoch
          <6> QED
            BY <6>2, <4>5, <3>1, <3>3, Zenon DEF FastOrder
        <5>3. CASE w # t /\ ~(how = "share" /\ w = old.thread)
          <6>1. fast[x].rx_vc[w] = vc[w][w]
            BY <5>3, <4>5, <1>14, ZenonT(40) DEF Tid
          <6> QED
            BY <6>1, <4>5, <3>1, <3>3, Zenon DEF FastOrder
        <5> QED
          BY <5>1, <5>2, <5>3, Zenon
      <4> QED
        BY <4>1, <4>3, <4>4, <4>5, <3>3, <1>1, Zenon DEF FastOrder, Knows
    <3> QED
      BY <3>2, <3>3, Zenon
  <2> QED
    BY <2>1, <2>2, <2>4, <2>5, <1>1, Zenon DEF FastInv
<1> QED
  BY <1>17, <1>18, <1>19, <1>20, Zenon DEF DetectorInv

\* A parent that has overtaken its child has done so for good.
LEMMA OvertakenStays ==
  ASSUME OrderTypes, RaceNext, ~overtaken'
  PROVE  ~overtaken
BY DEF OrderTypes, RaceNext, Clone, PreThread, Exit, PreJoin, PostJoin, PreLock, PostLock, PreUnlock,
       CheckAccess, SetVariable, reference

\* Every handler of datarace.c keeps the invariant.
LEMMA NextDetector ==
  ASSUME OrderInv, OrderInv', DetectorInv, RaceNext
  PROVE  DetectorInv'
<1>1. CASE overtaken'
  BY <1>1, Zenon DEF DetectorInv
<1>2. CASE ~overtaken'
  <2>1. ~overtaken
    BY <1>2, OvertakenStays, Zenon DEF OrderInv
  <2>2. PICK t \in Thread :
          \/ \/ \E u \in Thread, p \in PthreadT : Clone(t, u, p)
             \/ Exit(t)
             \/ \E u \in Thread : PreJoin(t, u)
             \/ \E m \in Mutex : PreLock(t, m)
          \/ PreThread(t) \/ PostJoin(t) \/ PostLock(t) \/ \E m \in Mutex : PreUnlock(t, m)
          \/ \E x \in Var, k \in Kinds : CheckAccess(t, x, k)
          \/ SetVariable(t)
    BY Zenon DEF RaceNext
  <2>3. CASE Quiet
    BY <2>1, <2>3, <1>2, QuietDetector, Zenon
  <2>4. CASE \E x \in Var, k \in Kinds : CheckAccess(t, x, k)
    BY <2>4, <1>2, CheckAccessDetector, Zenon
  <2>5. CASE SetVariable(t)
    BY <2>5, <1>2, SetVariableDetector, Zenon
  <2> QED
    BY <2>1, <2>2, <2>3, <2>4, <2>5, StillQuiet, MergeQuiet, Zenon
<1> QED
  BY <1>1, <1>2, Zenon

\* So does a step of something else.
LEMMA StutterDetector ==
  ASSUME DetectorInv, UNCHANGED raceVars
  PROVE  DetectorInv'
<1>1. UNCHANGED <<pc, parent, vc, lockVc, djit, fast, todo, djitReports, fastReports,
                  accesses, raced, overlapped, overtaken>>
  BY Zenon DEF raceVars, program, variables, reference
<1>2. ASSUME ~overtaken' PROVE DetectorTypes' /\ TodoInv' /\ DjitInv' /\ FastInv'
  <2>1. DetectorTypes /\ TodoInv /\ DjitInv /\ FastInv
    BY <1>1, <1>2, Zenon DEF DetectorInv
  <2>2. DetectorTypes'
    BY <2>1, <1>1, Zenon DEF DetectorTypes
  <2>3. /\ \A u, x, k, c : AccessedBy(u, x, k, c)' <=> AccessedBy(u, x, k, c)
        /\ \A t, x : Updating(t, x)' <=> Updating(t, x)
    BY <1>1, Zenon DEF AccessedBy, Updating
  <2>4. TodoInv'
    BY <2>1, <2>3, <1>1, Zenon DEF TodoInv
  <2>5. DjitInv'
    BY <2>1, <2>3, <1>1, Zenon DEF DjitInv, DjitGenuine, Genuine, DjitRecorded
  <2>6. /\ \A a : (FastCovered(a)' <=> FastCovered(a)) /\ (Pending(a)' <=> Pending(a))
        /\ \A a, t : FastOrder(a, t)' <=> FastOrder(a, t)
    <3>1. \A v, c, a : Implies(v, c, a)' <=> Implies(v, c, a)
      BY <1>1, Zenon DEF Implies, Clocks, Knows
    <3>2. \A a : FastCovered(a)' <=> FastCovered(a)
      BY <3>1, <1>1 DEF FastCovered
    <3>3. \A a : Pending(a)' <=> Pending(a)
      BY <2>3, <1>1, Zenon DEF Pending
    <3>4. \A a, t : FastOrder(a, t)' <=> FastOrder(a, t)
      BY <2>3, <1>1 DEF FastOrder, Knows
    <3> QED
      BY <3>2, <3>3, <3>4, Zenon
  <2>7. FastGenuine'
    BY <2>1, <2>3, <1>1, Zenon DEF FastInv, FastGenuine, Genuine
  <2>8. FastInv'
    BY <2>1, <2>6, <2>7, <1>1, Zenon DEF FastInv
  <2> QED
    BY <2>2, <2>4, <2>5, <2>8, Zenon
<1> QED
  BY <1>2, Zenon DEF DetectorInv

\* The handlers of datarace.c keep DetectorInv, for any number of threads,
\* mutexes, variables and accesses.
THEOREM DetectorInvariant == RaceSpec => []DetectorInv
<1>1. OrderInv /\ OrderInv' /\ DetectorInv /\ [RaceNext]_raceVars => DetectorInv'
  BY NextDetector, StutterDetector, Zenon
<1> QED
  BY <1>1, InitDetector, OrderInvariant, PTL DEF RaceSpec

\* For any number of threads, mutexes, variables and accesses:
\* variable_update_read() and variable_update_write() of djit.c report only
\* variables with a race, and, as those of fasttrack.c, all of them, as long as
\* no two handlers overlap on the variable and no parent overtakes the FORK of
\* its child.
THEOREM DetectorsAreExact == RaceSpec => []DetectorsExact
<1>1. DetectorInv => DetectorsExact
  <2> SUFFICES ASSUME DetectorInv, ~overtaken
               PROVE  /\ djitReports \subseteq raced /\ raced \ overlapped \subseteq djitReports
                      /\ fastReports \ overlapped = raced \ overlapped
    BY Zenon DEF DetectorsExact, DjitNeverWrong, DjitFindsRaces, FastTrackExact
  <2> QED
    BY Zenon DEF DetectorInv, DjitInv, FastInv
<1> QED
  BY <1>1, DetectorInvariant, PTL
=============================================================================
