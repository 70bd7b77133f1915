------------------------------ MODULE GateProofs ------------------------------
(***************************************************************************)
(* The gate of acquire_user_slot: INCR, then DECR when the result is over  *)
(* the limit.  No interleaving of callers grants a unit above the limit.   *)
(***************************************************************************)
EXTENDS GenerationQueueProofs

\* What the counter of a user may reach.
Ceiling(u) == Limit + Cardinality(UndoingRunners(u)) + Cardinality(UndoingCreates(u)) + leaked[u]

\* The callers between their INCR and their DECR are finitely many.
LEMMA UndoingFinite ==
  ASSUME NEW u
  PROVE  /\ IsFiniteSet(UndoingRunners(u)) /\ Cardinality(UndoingRunners(u)) \in Nat
         /\ IsFiniteSet(UndoingCreates(u)) /\ Cardinality(UndoingCreates(u)) \in Nat
<1>1. UndoingRunners(u) \subseteq Runners /\ UndoingCreates(u) \subseteq Tasks
  BY DEF UndoingRunners, UndoingCreates
<1>2. IsFiniteSet(Runners)
  BY FiniteAssumption, FS_Union DEF Runners
<1>3. IsFiniteSet(UndoingRunners(u)) /\ IsFiniteSet(UndoingCreates(u))
  BY <1>1, <1>2, FiniteAssumption, FS_Subset
<1> QED BY <1>3, FS_CardinalityType

LEMMA CeilingTyped ==
  ASSUME TypeOK, NEW u \in Users
  PROVE  Ceiling(u) \in Nat /\ Limit <= Ceiling(u) /\ leaked[u] \in Nat
<1>1. leaked[u] \in Nat
  BY DEF TypeOK
<1> QED BY <1>1, UndoingFinite, LimitAssumption DEF Ceiling

\* A step that moves nobody in or out of an undo.
LEMMA WithinKept ==
  ASSUME TypeOK, TypeOK', CounterWithinLimit,
         \A u \in Users : /\ slots'[u] <= slots[u] \/ slots'[u] <= Limit
                          /\ UndoingRunners(u)' = UndoingRunners(u)
                          /\ UndoingCreates(u)' = UndoingCreates(u)
                          /\ leaked'[u] = leaked[u]
  PROVE  CounterWithinLimit'
<1> SUFFICES ASSUME NEW u \in Users PROVE slots'[u] <= Ceiling(u)'
  BY DEF CounterWithinLimit, Ceiling
<1>1. slots[u] <= Ceiling(u) /\ slots[u] \in Int /\ slots'[u] \in Int
  BY DEF CounterWithinLimit, Ceiling, TypeOK
<1>2. Ceiling(u)' = Ceiling(u)
  BY DEF Ceiling
<1> QED BY <1>1, <1>2, CeilingTyped, LimitAssumption

\* A step that moves the counter of u and its ceiling by d.
LEMMA WithinMoves ==
  ASSUME TypeOK, TypeOK', CounterWithinLimit, NEW u \in Users, NEW d \in {-1, 1},
         slots' = [slots EXCEPT ![u] = @ + d], Ceiling(u)' = Ceiling(u) + d,
         \A v \in Users \ {u} : Ceiling(v)' = Ceiling(v)
  PROVE  CounterWithinLimit'
<1> SUFFICES ASSUME NEW v \in Users PROVE slots'[v] <= Ceiling(v)'
  BY DEF CounterWithinLimit, Ceiling
<1>1. slots[v] <= Ceiling(v) /\ slots[v] \in Int /\ Ceiling(v) \in Nat
  BY CeilingTyped DEF CounterWithinLimit, Ceiling, TypeOK
<1>2. CASE v = u
  BY <1>1, <1>2 DEF TypeOK
<1>3. CASE v # u
  BY <1>1, <1>3 DEF TypeOK
<1> QED BY <1>2, <1>3

\* The steps of a create request: a refused INCR is undone.
LEMMA CreateWithin ==
  ASSUME TypeOK, TypeOK', JobAfterCreate, CounterWithinLimit, NEW t \in Tasks,
         CreateEnqueue(t) \/ CreateStep(t)
  PROVE  CounterWithinLimit'
<1>1. Owner[t] \in Users /\ leaked' = leaked
  BY OwnerAssumption
  DEF CreateEnqueue, CreateStep, CreateCommit, CreateGate, CreateGateUndo, CreateSchedule, history
<1>2. \A v \in Users : UndoingRunners(v)' = UndoingRunners(v)
  <2>1. CASE CreateSchedule(t)
    <3>1. /\ pc[t] = "idle" /\ pc'[t] = "inner"
          /\ \A q \in Runners \ {t} : pc'[q] = pc[q] /\ job'[q] = job[q]
      BY <2>1 DEF CreateSchedule, JobAfterCreate, TypeOK, Runners
    <3> QED BY <3>1 DEF UndoingRunners, OwnerOf
  <2>2. CASE ~CreateSchedule(t)
    BY <2>2 DEF CreateEnqueue, CreateStep, CreateCommit, CreateGate, CreateGateUndo, runnerVars,
                UndoingRunners, OwnerOf
  <2> QED BY <2>1, <2>2
<1>3. \A s \in Tasks \ {t} : create'[s] = create[s]
  BY DEF CreateEnqueue, CreateStep, CreateCommit, CreateGate, CreateGateUndo, CreateSchedule, TypeOK
<1>4. \A v \in Users \ {Owner[t]} : /\ UndoingCreates(v)' = UndoingCreates(v)
                                    /\ Ceiling(v)' = Ceiling(v)
  <2>1. \A v \in Users \ {Owner[t]} : UndoingCreates(v)' = UndoingCreates(v)
    BY <1>3 DEF UndoingCreates
  <2> QED BY <1>1, <1>2, <2>1 DEF Ceiling
<1>5. CASE CreateGate(t) /\ ~Admitted(Owner[t])
  <2>1. /\ t \notin UndoingCreates(Owner[t])
        /\ UndoingCreates(Owner[t])' = UndoingCreates(Owner[t]) \cup {t}
    BY <1>3, <1>5 DEF CreateGate, UndoingCreates, TypeOK
  <2>2. Cardinality(UndoingCreates(Owner[t]))' = Cardinality(UndoingCreates(Owner[t])) + 1
    BY <2>1, UndoingFinite, CardinalityMoves
  <2>3. Ceiling(Owner[t])' = Ceiling(Owner[t]) + 1
    BY <1>1, <1>2, <2>2, UndoingFinite, CeilingTyped, LimitAssumption DEF Ceiling
  <2> QED BY <1>1, <1>4, <1>5, <2>3, WithinMoves DEF CreateGate, Incr
<1>6. CASE CreateGateUndo(t)
  <2>1. /\ t \in UndoingCreates(Owner[t])
        /\ UndoingCreates(Owner[t])' = UndoingCreates(Owner[t]) \ {t}
    BY <1>3, <1>6 DEF CreateGateUndo, UndoingCreates, TypeOK
  <2>2. Cardinality(UndoingCreates(Owner[t]))' = Cardinality(UndoingCreates(Owner[t])) - 1
    BY <2>1, UndoingFinite, CardinalityMoves
  <2>3. Ceiling(Owner[t])' = Ceiling(Owner[t]) + (-1)
    BY <1>1, <1>2, <2>2, UndoingFinite, CeilingTyped, LimitAssumption DEF Ceiling
  <2>4. slots' = [slots EXCEPT ![Owner[t]] = @ + (-1)]
    BY <1>1, <1>6 DEF CreateGateUndo, Decr, TypeOK
  <2> QED BY <1>1, <1>4, <2>3, <2>4, WithinMoves
<1>7. CASE \/ CreateEnqueue(t) \/ CreateCommit(t) \/ CreateSchedule(t)
           \/ CreateGate(t) /\ Admitted(Owner[t])
  <2>1. UndoingCreates(Owner[t])' = UndoingCreates(Owner[t])
    BY <1>3, <1>7 DEF CreateEnqueue, CreateCommit, CreateSchedule, CreateGate, UndoingCreates, TypeOK
  <2>0. slots \in [Users -> Int]
    BY DEF TypeOK
  <2>2. \A v \in Users : slots'[v] <= slots[v] \/ slots'[v] <= Limit
    <3>1. CASE CreateGate(t) /\ Admitted(Owner[t])
      <4>1. slots' = [slots EXCEPT ![Owner[t]] = @ + 1] /\ slots[Owner[t]] < Limit
        BY <3>1 DEF CreateGate, Incr, Admitted
      <4>2. slots'[Owner[t]] <= Limit
        <5>1. slots[Owner[t]] \in Int /\ slots'[Owner[t]] = slots[Owner[t]] + 1
          BY <1>1, <2>0, <4>1
        <5> QED BY <4>1, <5>1, LimitAssumption
      <4>3. \A v \in Users \ {Owner[t]} : slots'[v] = slots[v] /\ slots[v] \in Int
        BY <2>0, <4>1
      <4> QED BY <1>1, <4>2, <4>3
    <3>2. CASE CreateSchedule(t)
      <4>1. slots' = [slots EXCEPT ![Owner[t]] = @ - 1]
        BY <3>2 DEF CreateSchedule, Decr
      <4>2. ASSUME NEW v \in Users PROVE slots'[v] <= slots[v]
        <5>1. slots[v] \in Int /\ (slots'[v] = slots[v] - 1 \/ slots'[v] = slots[v])
          BY <2>0, <4>1
        <5> QED BY <5>1
      <4> QED BY <4>2
    <3>3. CASE CreateEnqueue(t) \/ CreateCommit(t)
      <4>1. slots' = slots
        BY <3>3 DEF CreateEnqueue, CreateCommit
      <4> QED BY <2>0, <4>1
    <3> QED BY <1>7, <3>1, <3>2, <3>3
  <2> QED BY <1>1, <1>2, <1>4, <2>1, <2>2, WithinKept
<1> QED BY <1>5, <1>6, <1>7 DEF CreateStep

\* A runner that leaves the undo of its acquire, and one that enters it.
LEMMA RunnerUndoes ==
  ASSUME TypeOK, TypeOK', CounterWithinLimit, NEW p \in Runners, pc[p] # "idle",
         \A q \in Runners \ {p} : pc'[q] = pc[q] /\ job'[q] = job[q],
         create' = create, leaked' = leaked
  PROVE  /\ /\ pc[p] \in {"outerUndo", "innerUndo"} /\ pc'[p] \notin {"outerUndo", "innerUndo"}
            /\ Decr(OwnerOf(p))
            => CounterWithinLimit'
         /\ /\ pc[p] \notin {"outerUndo", "innerUndo"} /\ pc'[p] \in {"outerUndo", "innerUndo"}
            /\ job'[p] = job[p] /\ Incr(OwnerOf(p))
            => CounterWithinLimit'
         /\ /\ pc[p] \notin {"outerUndo", "innerUndo"} /\ pc'[p] \notin {"outerUndo", "innerUndo"}
            /\ \A v \in Users : slots'[v] <= slots[v] \/ slots'[v] <= Limit
            => CounterWithinLimit'
<1>1. PICK u \in Users : u = OwnerOf(p)
  BY OwnerTyped
<1>2. \A v \in Users : UndoingCreates(v)' = UndoingCreates(v)
  BY DEF UndoingCreates
<1>3. \A v \in Users \ {u} :
        pc'[p] \notin {"outerUndo", "innerUndo"} \/ job'[p] = job[p]
          => /\ UndoingRunners(v)' = UndoingRunners(v)
             /\ Ceiling(v)' = Ceiling(v)
  <2>1. \A v \in Users \ {u} :
          pc'[p] \notin {"outerUndo", "innerUndo"} \/ job'[p] = job[p]
            => UndoingRunners(v)' = UndoingRunners(v)
    BY <1>1 DEF UndoingRunners, OwnerOf
  <2> QED BY <1>2, <2>1 DEF Ceiling
<1>4. ASSUME pc[p] \in {"outerUndo", "innerUndo"}, pc'[p] \notin {"outerUndo", "innerUndo"},
             Decr(OwnerOf(p))
      PROVE  CounterWithinLimit'
  <2>1. p \in UndoingRunners(u) /\ UndoingRunners(u)' = UndoingRunners(u) \ {p}
    BY <1>1, <1>4 DEF UndoingRunners, OwnerOf
  <2>2. Cardinality(UndoingRunners(u))' = Cardinality(UndoingRunners(u)) - 1
    BY <2>1, UndoingFinite, CardinalityMoves
  <2>3. Ceiling(u)' = Ceiling(u) + (-1)
    BY <1>2, <2>2, UndoingFinite, CeilingTyped, LimitAssumption DEF Ceiling
  <2>4. slots' = [slots EXCEPT ![u] = @ + (-1)]
    BY <1>1, <1>4 DEF Decr, TypeOK
  <2> QED BY <1>3, <1>4, <2>3, <2>4, WithinMoves
<1>5. ASSUME pc[p] \notin {"outerUndo", "innerUndo"}, pc'[p] \in {"outerUndo", "innerUndo"},
             job'[p] = job[p], Incr(OwnerOf(p))
      PROVE  CounterWithinLimit'
  <2>1. p \notin UndoingRunners(u) /\ UndoingRunners(u)' = UndoingRunners(u) \cup {p}
    BY <1>1, <1>5 DEF UndoingRunners, OwnerOf
  <2>2. Cardinality(UndoingRunners(u))' = Cardinality(UndoingRunners(u)) + 1
    BY <2>1, UndoingFinite, CardinalityMoves
  <2>3. Ceiling(u)' = Ceiling(u) + 1
    BY <1>2, <2>2, UndoingFinite, CeilingTyped, LimitAssumption DEF Ceiling
  <2>4. slots' = [slots EXCEPT ![u] = @ + 1]
    BY <1>1, <1>5 DEF Incr
  <2> QED BY <1>3, <1>5, <2>3, <2>4, WithinMoves
<1>6. ASSUME pc[p] \notin {"outerUndo", "innerUndo"}, pc'[p] \notin {"outerUndo", "innerUndo"},
             \A v \in Users : slots'[v] <= slots[v] \/ slots'[v] <= Limit
      PROVE  CounterWithinLimit'
  <2>1. \A v \in Users : UndoingRunners(v)' = UndoingRunners(v)
    BY <1>6 DEF UndoingRunners, OwnerOf
  <2> QED BY <1>2, <1>6, <2>1, WithinKept
<1> QED BY <1>4, <1>5, <1>6

\* The steps of a worker's loop.
LEMMA WorkerWithin ==
  ASSUME TypeOK, TypeOK', CounterWithinLimit, NEW w \in Workers, WorkerStep(w)
  PROVE  CounterWithinLimit'
<1>1. w \in Runners /\ create' = create /\ leaked' = leaked
  BY DEF Runners, WorkerStep, CreateGroup, Dequeue, CheckMarker, OuterAcquire, OuterUndo,
         OuterRelease, requestVars, history
<1>2. \A q \in Runners \ {w} : pc'[q] = pc[q] /\ job'[q] = job[q]
  BY <1>1 DEF WorkerStep, CreateGroup, Dequeue, CheckMarker, OuterAcquire, OuterUndo,
              OuterRelease, runnerVars, Goto, Stop, TypeOK
<1>3. CASE CreateGroup(w) \/ Dequeue(w)
  <2>1. pc[w] = "idle" /\ pc'[w] \in {"idle", "marker"} /\ slots' = slots
    BY <1>1, <1>3 DEF CreateGroup, Dequeue, runnerVars, TypeOK
  <2>2. \A v \in Users : /\ UndoingRunners(v)' = UndoingRunners(v)
                         /\ UndoingCreates(v)' = UndoingCreates(v)
    BY <1>1, <1>2, <2>1 DEF UndoingRunners, UndoingCreates, OwnerOf
  <2>3. \A v \in Users : slots'[v] <= slots[v]
    BY <2>1 DEF TypeOK
  <2> QED BY <1>1, <2>2, <2>3, WithinKept
<1>4. CASE CheckMarker(w)
  <2>1. pc[w] = "marker" /\ pc'[w] \in {"idle", "outer"} /\ slots' = slots
    BY <1>1, <1>4 DEF CheckMarker, Goto, Stop, TypeOK
  <2>2. \A v \in Users : slots'[v] <= slots[v]
    BY <2>1 DEF TypeOK
  <2> QED BY <1>1, <1>2, <2>1, <2>2, RunnerUndoes
<1>5. CASE OuterAcquire(w) /\ ~Admitted(OwnerOf(w))
  <2>1. pc[w] = "outer" /\ pc'[w] = "outerUndo" /\ job'[w] = job[w] /\ Incr(OwnerOf(w))
    BY <1>1, <1>5 DEF OuterAcquire, Goto, TypeOK
  <2> QED BY <1>1, <1>2, <2>1, RunnerUndoes
<1>6. CASE OuterAcquire(w) /\ Admitted(OwnerOf(w))
  <2>1. pc[w] = "outer" /\ pc'[w] = "inner"
    BY <1>1, <1>6 DEF OuterAcquire, Goto, TypeOK
  <2>2. \A v \in Users : slots'[v] <= slots[v] \/ slots'[v] <= Limit
    BY <1>6, LimitAssumption DEF OuterAcquire, Incr, Admitted, TypeOK
  <2> QED BY <1>1, <1>2, <2>1, <2>2, RunnerUndoes
<1>7. CASE OuterUndo(w)
  <2>1. pc[w] = "outerUndo" /\ pc'[w] = "idle" /\ Decr(OwnerOf(w))
    BY <1>1, <1>7 DEF OuterUndo, Stop, TypeOK
  <2> QED BY <1>1, <1>2, <2>1, RunnerUndoes
<1>8. CASE OuterRelease(w)
  <2>1. pc[w] = "outerRelease" /\ pc'[w] = "idle"
    BY <1>1, <1>8 DEF OuterRelease, Stop, TypeOK
  <2>2. \A v \in Users : slots'[v] <= slots[v]
    BY <1>8 DEF OuterRelease, Decr, TypeOK
  <2> QED BY <1>1, <1>2, <2>1, <2>2, RunnerUndoes
<1> QED BY <1>3, <1>4, <1>5, <1>6, <1>7, <1>8 DEF WorkerStep

\* The steps of process_generation_task.
LEMMA ProcessWithin ==
  ASSUME TypeOK, TypeOK', CounterWithinLimit, NEW p \in Runners, ProcessStep(p)
  PROVE  CounterWithinLimit'
<1>1. pc[p] # "idle" /\ create' = create /\ leaked' = leaked
  BY DEF ProcessStep, InnerAcquire, InnerUndo, Load, Expire, Start, BuildClient, RunFails,
         RunFinishes, CommitSuccess, TimeOut, CommitTimeout, InnerRelease, requestVars, history
<1>2. \A q \in Runners \ {p} : pc'[q] = pc[q] /\ job'[q] = job[q]
  BY DEF ProcessStep, InnerAcquire, InnerUndo, Load, Expire, Start, BuildClient, RunFails,
         RunFinishes, CommitSuccess, TimeOut, CommitTimeout, InnerRelease, Goto, Stop, TypeOK
<1>3. CASE InnerAcquire(p) /\ ~Admitted(OwnerOf(p))
  <2>1. pc[p] = "inner" /\ pc'[p] = "innerUndo" /\ job'[p] = job[p] /\ Incr(OwnerOf(p))
    BY <1>3 DEF InnerAcquire, Goto, TypeOK
  <2> QED BY <1>1, <1>2, <2>1, RunnerUndoes
<1>4. CASE InnerAcquire(p) /\ Admitted(OwnerOf(p))
  <2>1. pc[p] = "inner" /\ pc'[p] = "load"
    BY <1>4 DEF InnerAcquire, Goto, TypeOK
  <2>2. \A v \in Users : slots'[v] <= slots[v] \/ slots'[v] <= Limit
    BY <1>4, LimitAssumption DEF InnerAcquire, Incr, Admitted, TypeOK
  <2> QED BY <1>1, <1>2, <2>1, <2>2, RunnerUndoes
<1>5. CASE InnerUndo(p)
  <2>1. pc[p] = "innerUndo" /\ pc'[p] = "load" /\ Decr(OwnerOf(p))
    BY <1>5 DEF InnerUndo, Goto, TypeOK
  <2> QED BY <1>1, <1>2, <2>1, RunnerUndoes
<1>6. CASE InnerRelease(p)
  <2>1. pc[p] = "release" /\ pc'[p] \in {"idle", "outerRelease"}
    BY <1>6 DEF InnerRelease, Goto, Stop, TypeOK
  <2>2. \A v \in Users : slots'[v] <= slots[v]
    BY <1>6 DEF InnerRelease, Decr, TypeOK
  <2> QED BY <1>1, <1>2, <2>1, <2>2, RunnerUndoes
<1>7. CASE \/ Load(p) \/ Expire(p) \/ Start(p) \/ BuildClient(p) \/ RunFails(p)
           \/ RunFinishes(p) \/ CommitSuccess(p) \/ TimeOut(p) \/ CommitTimeout(p)
  <2>1. /\ pc[p] \notin {"outerUndo", "innerUndo"} /\ pc'[p] \notin {"outerUndo", "innerUndo"}
        /\ slots' = slots
    BY <1>7 DEF Load, Expire, Start, BuildClient, RunFails, RunFinishes, CommitSuccess, TimeOut,
                CommitTimeout, Goto, AfterLoad, TypeOK
  <2>2. \A v \in Users : slots'[v] <= slots[v]
    BY <2>1 DEF TypeOK
  <2> QED BY <1>1, <1>2, <2>1, <2>2, RunnerUndoes
<1> QED BY <1>3, <1>4, <1>5, <1>6, <1>7 DEF ProcessStep

\* Requests that do not pass the gate, and time.
LEMMA RequestWithin ==
  ASSUME CounterWithinLimit, NEW t \in Tasks,
         \/ CancelLoad(t) \/ CancelStep(t) \/ RedoLoad(t) \/ RedoStep(t)
         \/ DeadlinePasses(t) \/ MarkerExpires(t)
  PROVE  CounterWithinLimit'
<1>1. UNCHANGED <<slots, leaked, pc, job, create>>
  BY DEF CancelLoad, CancelStep, CancelCommit, CancelMark, RedoLoad, RedoStep, RedoCommit,
         RedoEnqueue, DeadlinePasses, MarkerExpires, history, runnerVars, requestVars
<1> QED BY <1>1 DEF CounterWithinLimit, UndoingRunners, UndoingCreates, OwnerOf

\* A worker that dies inside an undo leaks at least the unit it was undoing.
LEMMA CrashWorkerWithin ==
  ASSUME TypeOK, TypeOK', CounterWithinLimit, NEW w \in Workers, CrashWorker(w)
  PROVE  CounterWithinLimit'
<1>1. PICK u \in Users : u = OwnerOf(w)
  BY OwnerTyped DEF CrashWorker, Runners
<1>2. \A p \in Runners \ {w} : pc'[p] = pc[p] /\ job'[p] = job[p]
  BY DEF CrashWorker, Stop, TypeOK
<1>3. pc'[w] = "idle" /\ slots' = slots /\ create' = create
  BY DEF CrashWorker, Stop, requestVars, TypeOK, Runners
<1>4. /\ leaked'[u] = leaked[u] + (IF HoldsOuter(w) THEN 1 ELSE 0)
                                + (IF HoldsInner(w) THEN 1 ELSE 0)
      /\ \A v \in Users \ {u} : leaked'[v] = leaked[v]
  BY <1>1 DEF CrashWorker, TypeOK
<1>5. \A v \in Users : UndoingCreates(v)' = UndoingCreates(v)
  BY <1>3 DEF UndoingCreates
<1>6. ASSUME NEW v \in Users, v # u PROVE slots'[v] <= Ceiling(v)'
  <2>1. UndoingRunners(v)' = UndoingRunners(v)
    BY <1>1, <1>2, <1>3, <1>6 DEF UndoingRunners, OwnerOf
  <2> QED BY <1>3, <1>4, <1>5, <1>6, <2>1 DEF Ceiling, CounterWithinLimit
<1>7. slots'[u] <= Ceiling(u)'
  <2>1. slots[u] \in Int /\ slots[u] <= Ceiling(u)
    BY DEF TypeOK, CounterWithinLimit, Ceiling
  <2>2. CASE w \in UndoingRunners(u)
    <3>1. UndoingRunners(u)' = UndoingRunners(u) \ {w}
      BY <1>2, <1>3 DEF UndoingRunners, OwnerOf
    <3>2. Cardinality(UndoingRunners(u))' = Cardinality(UndoingRunners(u)) - 1
      BY <2>2, <3>1, UndoingFinite, CardinalityMoves
    <3>3. HoldsOuter(w)
      BY <2>2 DEF UndoingRunners, HoldsOuter
    <3>4. leaked[u] \in Nat /\ leaked'[u] \in Nat /\ leaked'[u] >= leaked[u] + 1
      BY <1>4, <3>3, CeilingTyped
    <3> QED BY <1>3, <1>5, <2>1, <3>2, <3>4, UndoingFinite, LimitAssumption DEF Ceiling
  <2>3. CASE w \notin UndoingRunners(u)
    <3>1. UndoingRunners(u)' = UndoingRunners(u)
      BY <1>2, <1>3, <2>3 DEF UndoingRunners, OwnerOf, Runners
    <3>2. leaked[u] \in Nat /\ leaked'[u] \in Nat /\ leaked'[u] >= leaked[u]
      BY <1>4, CeilingTyped
    <3> QED BY <1>3, <1>5, <2>1, <3>1, <3>2, UndoingFinite, LimitAssumption DEF Ceiling
  <2> QED BY <2>2, <2>3
<1> QED BY <1>6, <1>7 DEF CounterWithinLimit, Ceiling

\* The API process leaks at least the units its jobs and requests were undoing.
LEMMA CrashApiWithin ==
  ASSUME TypeOK, TypeOK', CounterWithinLimit, CrashApi
  PROVE  CounterWithinLimit'
<1> SUFFICES ASSUME NEW u \in Users PROVE slots'[u] <= Ceiling(u)'
  BY DEF CounterWithinLimit, Ceiling
<1> DEFINE Jobs == UndoingRunners(u) \cap Tasks
<1>1. slots[u] \in Int /\ slots[u] <= Ceiling(u) /\ slots' = slots
  BY DEF TypeOK, CounterWithinLimit, Ceiling, CrashApi
<1>2. /\ \A w \in Workers : pc'[w] = pc[w] /\ job'[w] = job[w]
      /\ \A t \in Tasks : pc'[t] = "idle" /\ create'[t] \in {"new", "done"}
  BY RunnersAssumption DEF CrashApi, Runners
<1>3. UndoingRunners(u)' = UndoingRunners(u) \ Jobs /\ UndoingCreates(u)' = {}
  BY <1>2, RunnersAssumption DEF UndoingRunners, UndoingCreates, OwnerOf, Runners
<1>4. Cardinality(UndoingRunners(u))'
        = Cardinality(UndoingRunners(u)) - Cardinality(Jobs)
  <2>1. UndoingRunners(u) \cap Jobs = Jobs
    OBVIOUS
  <2> QED BY <1>3, <2>1, UndoingFinite, FS_Difference
<1>5. Cardinality(UndoingCreates(u))' = 0
  BY <1>3, FS_EmptySet
<1>6. Cardinality(Jobs) <= Cardinality(JobHolders(u)) /\ Cardinality(Jobs) \in Nat
  <2>1. Jobs \subseteq JobHolders(u)
    BY DEF UndoingRunners, JobHolders, HoldsInner, TypeOK
  <2> QED BY <2>1, HoldersFinite, FS_Subset, FS_CardinalityType
<1>7. Cardinality(UndoingCreates(u)) <= Cardinality(CreateHolders(u))
  <2>1. UndoingCreates(u) \subseteq CreateHolders(u)
    BY DEF UndoingCreates, CreateHolders
  <2> QED BY <2>1, HoldersFinite, FS_Subset
<1>8. leaked'[u] = leaked[u] + Cardinality(JobHolders(u)) + Cardinality(CreateHolders(u))
  BY DEF CrashApi
<1> HIDE DEF Jobs
<1> QED BY <1>1, <1>4, <1>5, <1>6, <1>7, <1>8, UndoingFinite, HoldersFinite, CeilingTyped,
           LimitAssumption DEF Ceiling

\* The counter of a user exceeds the limit only by callers about to take their
\* unit back and by what dead processes leaked, whatever the number of callers.
THEOREM CounterStaysWithinLimit == Spec => []CounterWithinLimit
<1>1. Init => CounterWithinLimit
  <2> SUFFICES ASSUME Init, NEW u \in Users PROVE slots[u] <= Ceiling(u)
    BY DEF CounterWithinLimit, Ceiling
  <2> QED BY InitTypeOK, CeilingTyped, LimitAssumption DEF Init
<1>2. TypeOK /\ TypeOK' /\ JobAfterCreate /\ CounterWithinLimit /\ [Next]_vars
        => CounterWithinLimit'
  <2> SUFFICES ASSUME TypeOK, TypeOK', JobAfterCreate, CounterWithinLimit, [Next]_vars
               PROVE  CounterWithinLimit'
    OBVIOUS
  <2>1. ASSUME NEW u \in Users, SlotExpires(u) PROVE CounterWithinLimit'
    <3>1. /\ slots' = [slots EXCEPT ![u] = 0] /\ leaked' = [leaked EXCEPT ![u] = 0]
          /\ UNCHANGED <<pc, job, create>>
      BY <2>1 DEF SlotExpires, history, runnerVars, requestVars
    <3>2. ASSUME NEW v \in Users PROVE slots'[v] <= Ceiling(v)'
      <4>1. CASE v = u
        <5>1. slots'[u] = 0 /\ leaked'[u] = 0
          BY <3>1 DEF TypeOK
        <5>2. /\ UndoingRunners(u)' = UndoingRunners(u)
              /\ UndoingCreates(u)' = UndoingCreates(u)
          BY <3>1 DEF UndoingRunners, UndoingCreates, OwnerOf
        <5> QED BY <4>1, <5>1, <5>2, UndoingFinite, LimitAssumption DEF Ceiling
      <4>2. CASE v # u
        <5>1. slots'[v] = slots[v] /\ Ceiling(v)' = Ceiling(v)
          BY <3>1, <4>2 DEF Ceiling, UndoingRunners, UndoingCreates, OwnerOf, TypeOK
        <5> QED BY <5>1 DEF CounterWithinLimit, Ceiling
      <4> QED BY <4>1, <4>2
    <3> QED BY <3>2 DEF CounterWithinLimit, Ceiling
  <2>2. CASE UNCHANGED vars
    BY <2>2 DEF vars, history, runnerVars, requestVars, CounterWithinLimit, UndoingRunners,
                UndoingCreates, OwnerOf
  <2> QED BY <2>1, <2>2, CreateWithin, RequestWithin, WorkerWithin, ProcessWithin,
             CrashWorkerWithin, CrashApiWithin DEF Next, Environment
<1> QED BY <1>1, <1>2, JobStartsAfterCreate, TypeCorrect, PTL DEF Spec

-----------------------------------------------------------------------------
(* The limit on what is generated at a time *)

\* The runs of a user that are generating.
Generating(u) == {p \in Runners : pc[p] \in {"llm", "react"} /\ OwnerOf(p) = u}

\* A task that is generated has a run that generates it, so there are at least
\* as many of these.
LEMMA TasksHaveRuns ==
  ASSUME TypeOK, NEW u \in Users
  PROVE  /\ IsFiniteSet(Generating(u)) /\ Cardinality(Generating(u)) \in Nat
         /\ Cardinality(RunningTasks(u)) \in Nat
         /\ Cardinality(RunningTasks(u)) <= Cardinality(Generating(u))
<1> DEFINE taskOf == [p \in Generating(u) |-> job[p]]
<1>1. IsFiniteSet(Generating(u)) /\ Cardinality(Generating(u)) \in Nat
  <2>1. IsFiniteSet(Runners) /\ Generating(u) \subseteq Runners
    BY FiniteAssumption, FS_Union DEF Runners, Generating
  <2> QED BY <2>1, FS_Subset, FS_CardinalityType
<1>2. \A p \in Generating(u) : job[p] \in RunningTasks(u)
  BY DEF Generating, RunningTasks, RunnersOn, ClaimPc, OwnerOf, TypeOK
<1>3. \A t \in RunningTasks(u) : \E p \in Generating(u) : job[p] = t
  BY DEF Generating, RunningTasks, RunnersOn, OwnerOf
<1>4. taskOf \in Surjection(Generating(u), RunningTasks(u))
  <2>1. taskOf \in [Generating(u) -> RunningTasks(u)]
    BY <1>2
  <2>2. \A t \in RunningTasks(u) : \E p \in Generating(u) : taskOf[p] = t
    BY <1>3
  <2> QED BY <2>1, <2>2 DEF Surjection
<1>5. IsFiniteSet(RunningTasks(u)) /\ Cardinality(RunningTasks(u)) <= Cardinality(Generating(u))
  BY <1>1, <1>4, FS_Surjection
<1> QED BY <1>1, <1>5, FS_CardinalityType

\* Runs that generate and runs about to take a refused unit back each hold the
\* inner unit of a different runner; the other undoing callers hold an outer or
\* a create unit.
LEMMA UnitsOfRuns ==
  ASSUME TypeOK, NEW u \in Users
  PROVE  Cardinality(Generating(u)) + Cardinality(UndoingRunners(u)) + Cardinality(UndoingCreates(u))
           <= Cardinality(OuterHolders(u)) + Cardinality(WorkerHolders(u))
              + Cardinality(JobHolders(u)) + Cardinality(CreateHolders(u))
<1> DEFINE undoOuter == {p \in UndoingRunners(u) : pc[p] = "outerUndo"}
           undoInner == {p \in UndoingRunners(u) : pc[p] = "innerUndo"}
           inner     == WorkerHolders(u) \cup JobHolders(u)
<1>1. /\ undoOuter \subseteq OuterHolders(u)
      /\ undoInner \subseteq inner /\ Generating(u) \subseteq inner
      /\ undoInner \cap Generating(u) = {} /\ undoOuter \cap undoInner = {}
      /\ UndoingRunners(u) = undoOuter \cup undoInner
      /\ UndoingCreates(u) \subseteq CreateHolders(u)
  BY DEF UndoingRunners, UndoingCreates, Generating, OuterHolders, WorkerHolders, JobHolders,
         CreateHolders, HoldsOuter, HoldsInner, OwnerOf, Runners, TypeOK
<1> HIDE DEF undoOuter, undoInner, inner
<1>2. Cardinality(undoOuter) <= Cardinality(OuterHolders(u)) /\ IsFiniteSet(undoOuter)
  BY <1>1, HoldersFinite, FS_Subset
<1>3. Cardinality(UndoingCreates(u)) <= Cardinality(CreateHolders(u))
  BY <1>1, HoldersFinite, FS_Subset
<1>4. /\ IsFiniteSet(inner) /\ Cardinality(inner) \in Nat
      /\ Cardinality(inner) <= Cardinality(WorkerHolders(u)) + Cardinality(JobHolders(u))
  <2>1. /\ IsFiniteSet(inner)
        /\ Cardinality(inner) = Cardinality(WorkerHolders(u)) + Cardinality(JobHolders(u))
                                - Cardinality(WorkerHolders(u) \cap JobHolders(u))
    BY HoldersFinite, FS_Union DEF inner
  <2>2. Cardinality(WorkerHolders(u) \cap JobHolders(u)) \in Nat
    BY HoldersFinite, FS_Intersection, FS_CardinalityType
  <2> QED BY <2>1, <2>2, HoldersFinite, FS_CardinalityType
<1>5. /\ IsFiniteSet(undoInner) /\ IsFiniteSet(Generating(u))
      /\ Cardinality(Generating(u)) + Cardinality(undoInner) <= Cardinality(inner)
  <2>1. IsFiniteSet(undoInner) /\ IsFiniteSet(Generating(u))
    BY <1>1, <1>4, FS_Subset
  <2>2. Cardinality(Generating(u) \cup undoInner)
          = Cardinality(Generating(u)) + Cardinality(undoInner)
    <3>1. Generating(u) \cap undoInner = {} /\ Cardinality({}) = 0
      BY <1>1, FS_EmptySet
    <3>2. Cardinality(Generating(u) \cup undoInner)
            = Cardinality(Generating(u)) + Cardinality(undoInner) - Cardinality({})
      BY <2>1, <3>1, FS_Union
    <3>3. Cardinality(Generating(u)) \in Nat /\ Cardinality(undoInner) \in Nat
      BY <2>1, FS_CardinalityType
    <3> QED BY <3>1, <3>2, <3>3
  <2>3. Cardinality(Generating(u) \cup undoInner) <= Cardinality(inner)
    BY <1>1, <1>4, FS_Subset
  <2> QED BY <2>1, <2>2, <2>3
<1>6. Cardinality(UndoingRunners(u)) = Cardinality(undoOuter) + Cardinality(undoInner)
  <2>1. undoOuter \cap undoInner = {} /\ Cardinality({}) = 0
    BY <1>1, FS_EmptySet
  <2> QED BY <1>1, <1>2, <1>5, <2>1, FS_Union, FS_CardinalityType
<1>7. /\ Cardinality(undoOuter) \in Nat /\ Cardinality(undoInner) \in Nat
      /\ Cardinality(Generating(u)) \in Nat
  BY <1>2, <1>5, FS_CardinalityType
<1> QED BY <1>2, <1>3, <1>4, <1>5, <1>6, <1>7, HoldersFinite, UndoingFinite

\* As long as no run of a user went on after a refused acquire, the tasks of that
\* user generated at a time are within the limit, for any number of workers, of
\* background jobs and of deaths: the ignored answer is the one hole in the gate.
THEOREM LimitHoldsUnlessUnpaid == Spec => []LimitUnlessUnpaid
<1>1. TypeOK /\ CounterExact /\ CounterWithinLimit => LimitUnlessUnpaid
  <2> SUFFICES ASSUME TypeOK, CounterExact, CounterWithinLimit,
                      NEW u \in Users, unpaid[u] = 0
               PROVE  Cardinality(RunningTasks(u)) <= Limit
    BY DEF LimitUnlessUnpaid
  <2>1. slots[u] = Owed(u) - unpaid[u]
    BY DEF CounterExact
  <2>2. slots[u] <= Limit + Cardinality(UndoingRunners(u)) + Cardinality(UndoingCreates(u))
                    + leaked[u]
    BY DEF CounterWithinLimit
  <2>3. Cardinality(OuterHolders(u)) + Cardinality(WorkerHolders(u))
          + Cardinality(JobHolders(u)) + Cardinality(CreateHolders(u))
            <= Limit + Cardinality(UndoingRunners(u)) + Cardinality(UndoingCreates(u))
    BY <2>1, <2>2, TermsTyped, UndoingFinite, LimitAssumption DEF Owed
  <2> QED BY <2>3, UnitsOfRuns, TasksHaveRuns, TermsTyped, UndoingFinite, LimitAssumption
<1> QED BY <1>1, CounterIsExact, CounterStaysWithinLimit, TypeCorrect, PTL

=============================================================================
