------------------------ MODULE GenerationQueueProofs ------------------------
(***************************************************************************)
(* Proofs about GenerationQueue, for any sets of tasks, users and workers, *)
(* any limit and any bounds on the environment.                            *)
(***************************************************************************)
EXTENDS GenerationQueue, FiniteSetTheorems, TLAPS

-----------------------------------------------------------------------------
(* Type correctness *)

\* The initial state is well typed.
LEMMA InitTypeOK == Init => TypeOK
  BY OwnerAssumption, RunnersAssumption, BoundsAssumption
  DEF Init, TypeOK, Status, RunnerPc, CreatePc, RequestPc, Runners

\* What a step of a runner needs of its task.
LEMMA OwnerTyped ==
  ASSUME TypeOK, NEW p \in Runners, pc[p] # "idle"
  PROVE  job[p] \in Tasks /\ OwnerOf(p) \in Users
  BY OwnerAssumption DEF TypeOK, OwnerOf

\* A create request keeps the types.
LEMMA CreateTypeOK ==
  ASSUME TypeOK, NEW t \in Tasks, CreateEnqueue(t) \/ CreateStep(t)
  PROVE  TypeOK'
<1>0. Owner[t] \in Users
  BY OwnerAssumption
<1> USE <1>0 DEF TypeOK, budget, history, taskVars, redisVars, runnerVars, requestVars, CreatePc,
                 RunnerPc, Status, Incr, Decr, SetStatus, Runners
<1>1. CASE CreateEnqueue(t)
  BY <1>1 DEF CreateEnqueue, Enqueue
<1>2. CASE CreateCommit(t)
  BY <1>2 DEF CreateCommit
<1>3. CASE CreateGate(t)
  <2>1. CASE Admitted(Owner[t])
    BY <1>3, <2>1 DEF CreateGate
  <2>2. CASE ~Admitted(Owner[t])
    BY <1>3, <2>2 DEF CreateGate
  <2> QED BY <2>1, <2>2
<1>4. CASE CreateGateUndo(t)
  BY <1>4, SMTT(30) DEF CreateGateUndo
<1>5. CASE CreateSchedule(t)
  BY <1>5 DEF CreateSchedule
<1> QED BY <1>1, <1>2, <1>3, <1>4, <1>5 DEF CreateStep

\* Cancel and redo requests keep the types.
LEMMA RequestTypeOK ==
  ASSUME TypeOK, NEW t \in Tasks,
         CancelLoad(t) \/ CancelStep(t) \/ RedoLoad(t) \/ RedoStep(t)
  PROVE  TypeOK'
<1> USE BoundsAssumption
    DEF TypeOK, budget, history, taskVars, redisVars, runnerVars, requestVars, RequestPc, Status,
        SetStatus, Enqueue
<1>1. CASE CancelLoad(t)
  BY <1>1 DEF CancelLoad
<1>2. CASE CancelCommit(t)
  BY <1>2 DEF CancelCommit
<1>3. CASE CancelMark(t)
  BY <1>3 DEF CancelMark
<1>4. CASE RedoLoad(t)
  BY <1>4, SMTT(30) DEF RedoLoad
<1>5. CASE RedoCommit(t)
  BY <1>5 DEF RedoCommit
<1>6. CASE RedoEnqueue(t)
  BY <1>6 DEF RedoEnqueue
<1> QED BY <1>1, <1>2, <1>3, <1>4, <1>5, <1>6 DEF CancelStep, RedoStep

\* The loop of a worker keeps the types.
LEMMA WorkerTypeOK ==
  ASSUME TypeOK, NEW w \in Workers, WorkerStep(w)
  PROVE  TypeOK'
<1>1. w \in Runners /\ w \notin Tasks
  BY RunnersAssumption DEF Runners
<1>2. ASSUME pc[w] # "idle" PROVE OwnerOf(w) \in Users
  BY <1>1, <1>2, OwnerTyped
<1> USE <1>1, OwnerAssumption
    DEF TypeOK, budget, history, taskVars, redisVars, runnerVars, requestVars, RunnerPc, Status,
        Incr, Decr, Goto, Stop, Runners
<1>3. CASE CreateGroup(w)
  BY <1>3 DEF CreateGroup
<1>4. CASE Dequeue(w)
  <2>1. Head(stream) \in Tasks /\ stream' \in Seq(Tasks)
    BY <1>4 DEF Dequeue
  <2>2. job' = [job EXCEPT ![w] = Head(stream)] /\ pc' = [pc EXCEPT ![w] = "marker"]
        /\ UNCHANGED <<taskVars, group, marker, slots, loaded, requestVars, history, budget>>
    BY <1>4 DEF Dequeue
  <2> QED BY <2>1, <2>2
<1>5. CASE CheckMarker(w)
  <2>1. CASE Stop(w)
    BY <1>5, <2>1 DEF CheckMarker
  <2>2. CASE Goto(w, "outer")
    BY <1>5, <2>2 DEF CheckMarker
  <2> QED BY <1>5, <2>1, <2>2 DEF CheckMarker
<1>6. CASE OuterAcquire(w)
  <2>1. CASE Admitted(OwnerOf(w))
    BY <1>2, <1>6, <2>1, SMTT(30) DEF OuterAcquire
  <2>2. CASE ~Admitted(OwnerOf(w))
    BY <1>2, <1>6, <2>2, SMTT(30) DEF OuterAcquire
  <2> QED BY <2>1, <2>2
<1>7. CASE OuterUndo(w)
  BY <1>2, <1>7, SMTT(30) DEF OuterUndo
<1>8. CASE OuterRelease(w)
  BY <1>2, <1>8, SMTT(30) DEF OuterRelease
<1> QED BY <1>3, <1>4, <1>5, <1>6, <1>7, <1>8 DEF WorkerStep

\* process_generation_task keeps the types.
LEMMA ProcessTypeOK ==
  ASSUME TypeOK, NEW p \in Runners, ProcessStep(p)
  PROVE  TypeOK'
<1>1. pc[p] # "idle"
  BY DEF ProcessStep, InnerAcquire, InnerUndo, Load, Expire, Start, BuildClient, RunFails,
         RunFinishes, CommitSuccess, TimeOut, CommitTimeout, InnerRelease
<1>2. job[p] \in Tasks /\ OwnerOf(p) \in Users
  BY <1>1, OwnerTyped
<1> USE <1>1, <1>2, OwnerAssumption, RunnersAssumption
    DEF TypeOK, budget, history, taskVars, redisVars, runnerVars, requestVars, RunnerPc, Status,
        Incr, Decr, Goto, Stop, SetStatus, Runners
<1>3. CASE InnerAcquire(p)
  BY <1>3, SMTT(30) DEF InnerAcquire
<1>4. CASE InnerUndo(p)
  BY <1>4, SMTT(30) DEF InnerUndo
<1>5. CASE Load(p)
  BY <1>5 DEF Load, AfterLoad
<1>6. CASE Expire(p)
  BY <1>6 DEF Expire
<1>7. CASE Start(p)
  BY <1>7 DEF Start
<1>8. CASE BuildClient(p)
  <2>1. PICK to \in {"react", "release"} : Goto(p, to)
    BY <1>8 DEF BuildClient
  <2>2. UNCHANGED <<taskVars, redisVars, slots, requestVars, leaked, unpaid, budget>>
    BY <1>8 DEF BuildClient
  <2>3. silent' \in SUBSET Silences
    BY <1>8 DEF BuildClient, Silences, SilentEnds
  <2> QED BY <2>1, <2>2, <2>3
<1>9. CASE RunFails(p)
  BY <1>9 DEF RunFails
<1>10. CASE RunFinishes(p)
  BY <1>10 DEF RunFinishes
<1>11. CASE CommitSuccess(p)
  BY <1>11 DEF CommitSuccess
<1>12. CASE TimeOut(p)
  BY <1>12 DEF TimeOut
<1>13. CASE CommitTimeout(p)
  BY <1>13 DEF CommitTimeout
<1>14. CASE InnerRelease(p)
  <2>1. CASE p \in Workers /\ Goto(p, "outerRelease")
    BY <1>14, <2>1, SMTT(30) DEF InnerRelease
  <2>2. CASE Stop(p)
    <3>1. slots' \in [Users -> Int]
      BY <1>14 DEF InnerRelease
    <3>2. UNCHANGED <<taskVars, redisVars, requestVars, history, budget>>
      BY <1>14 DEF InnerRelease
    <3> QED BY <2>2, <3>1, <3>2
  <2> QED BY <1>14, <2>1, <2>2 DEF InnerRelease
<1> QED BY <1>3, <1>4, <1>5, <1>6, <1>7, <1>8, <1>9, <1>10, <1>11, <1>12, <1>13, <1>14
        DEF ProcessStep

\* The sets of holders are finite, so their sizes are natural numbers.
LEMMA HoldersFinite ==
  ASSUME NEW u
  PROVE  /\ IsFiniteSet(OuterHolders(u)) /\ Cardinality(OuterHolders(u)) \in Nat
         /\ IsFiniteSet(WorkerHolders(u)) /\ Cardinality(WorkerHolders(u)) \in Nat
         /\ IsFiniteSet(JobHolders(u)) /\ Cardinality(JobHolders(u)) \in Nat
         /\ IsFiniteSet(CreateHolders(u)) /\ Cardinality(CreateHolders(u)) \in Nat
<1>1. /\ OuterHolders(u) \subseteq Workers /\ WorkerHolders(u) \subseteq Workers
      /\ JobHolders(u) \subseteq Tasks /\ CreateHolders(u) \subseteq Tasks
  BY DEF OuterHolders, WorkerHolders, JobHolders, CreateHolders
<1>2. /\ IsFiniteSet(OuterHolders(u)) /\ IsFiniteSet(WorkerHolders(u))
      /\ IsFiniteSet(JobHolders(u)) /\ IsFiniteSet(CreateHolders(u))
  BY <1>1, FiniteAssumption, FS_Subset
<1> QED BY <1>2, FS_CardinalityType

\* Runners work on tasks.
LEMMA WorkTyped ==
  ASSUME TypeOK
  PROVE  WorkOf(Tasks) \subseteq Tasks /\ \A w \in Workers : WorkOf({w}) \subseteq Tasks
  BY OwnerTyped DEF WorkOf, ClaimPc, Runners

\* Time, key expiry and process deaths keep the types.
LEMMA EnvironmentTypeOK ==
  ASSUME TypeOK, Environment
  PROVE  TypeOK'
<1> USE DEF TypeOK, budget, history, taskVars, redisVars, runnerVars, requestVars, RunnerPc,
            RequestPc, CreatePc, Status, Stop, Runners
<1>1. ASSUME NEW t \in Tasks, DeadlinePasses(t) PROVE TypeOK'
  BY <1>1 DEF DeadlinePasses
<1>2. ASSUME NEW t \in Tasks, MarkerExpires(t) PROVE TypeOK'
  BY <1>2 DEF MarkerExpires
<1>3. ASSUME NEW u \in Users, SlotExpires(u) PROVE TypeOK'
  BY <1>3 DEF SlotExpires
<1>4. ASSUME NEW w \in Workers, CrashWorker(w) PROVE TypeOK'
  <2>1. OwnerOf(w) \in Users /\ w \in Runners /\ w \notin Tasks
    BY <1>4, OwnerTyped, RunnersAssumption DEF CrashWorker
  <2>2. leaked' \in [Users -> Nat]
    BY <1>4, <2>1 DEF CrashWorker
  <2>3. crashesLeft' \in 0..MaxCrashes
    BY <1>4, BoundsAssumption DEF CrashWorker
  <2>4. silent' \in SUBSET Silences
    BY <1>4, WorkTyped DEF CrashWorker, Silences, SilentEnds
  <2> QED BY <1>4, <2>1, <2>2, <2>3, <2>4 DEF CrashWorker
<1>5. ASSUME CrashApi PROVE TypeOK'
  <2>1. leaked' \in [Users -> Nat]
    BY <1>5, HoldersFinite DEF CrashApi
  <2>2. crashesLeft' \in 0..MaxCrashes
    BY <1>5, BoundsAssumption DEF CrashApi
  <2>3. silent' \in SUBSET Silences
    BY <1>5, WorkTyped DEF CrashApi, Silences, SilentEnds
  <2> QED BY <1>5, <2>1, <2>2, <2>3, RunnersAssumption DEF CrashApi
<1> QED BY <1>1, <1>2, <1>3, <1>4, <1>5 DEF Environment

\* The state of the queue is well typed in every reachable state; in
\* particular a runner at work has a task in hand, and a background job never
\* runs the clean-up of a worker.
THEOREM TypeCorrect == Spec => []TypeOK
<1>1. TypeOK /\ [Next]_vars => TypeOK'
  <2> SUFFICES ASSUME TypeOK, [Next]_vars PROVE TypeOK'
    OBVIOUS
  <2>1. CASE Next
    BY <2>1, CreateTypeOK, RequestTypeOK, WorkerTypeOK, ProcessTypeOK, EnvironmentTypeOK
    DEF Next
  <2>2. CASE UNCHANGED vars
    BY <2>2 DEF vars, budget, history, taskVars, redisVars, runnerVars, requestVars, TypeOK
  <2> QED BY <2>1, <2>2
<1> QED BY InitTypeOK, <1>1, PTL DEF Spec

-----------------------------------------------------------------------------
(* The background job starts once *)

\* The background job of a task does not run before the create handler has
\* scheduled it, so scheduling never restarts a job that is at work.
JobAfterCreate == \A t \in Tasks : create[t] # "done" => pc[t] = "idle"

LEMMA JobAfterCreateStep ==
  ASSUME TypeOK, JobAfterCreate, [Next]_vars
  PROVE  JobAfterCreate'
<1> USE DEF JobAfterCreate
<1>1. ASSUME NEW t \in Tasks, CreateEnqueue(t) \/ CreateStep(t) PROVE JobAfterCreate'
  BY <1>1 DEF CreateEnqueue, CreateStep, CreateCommit, CreateGate, CreateGateUndo,
              CreateSchedule, runnerVars, TypeOK, Runners
<1>2. ASSUME NEW t \in Tasks,
             \/ CancelLoad(t) \/ CancelStep(t) \/ RedoLoad(t) \/ RedoStep(t)
             \/ DeadlinePasses(t) \/ MarkerExpires(t)
      PROVE  JobAfterCreate'
  BY <1>2 DEF CancelLoad, CancelStep, CancelCommit, CancelMark, RedoLoad, RedoStep, RedoCommit,
              RedoEnqueue, DeadlinePasses, MarkerExpires, runnerVars, requestVars
<1>3. ASSUME NEW w \in Workers, WorkerStep(w) \/ CrashWorker(w) PROVE JobAfterCreate'
  <2>1. create' = create /\ \A t \in Tasks : pc'[t] = pc[t]
    BY <1>3, RunnersAssumption
    DEF WorkerStep, CreateGroup, Dequeue, CheckMarker, OuterAcquire, OuterUndo, OuterRelease,
        CrashWorker, Goto, Stop, runnerVars, requestVars, TypeOK, Runners
  <2> QED BY <2>1
<1>4. ASSUME NEW p \in Runners, ProcessStep(p) PROVE JobAfterCreate'
  <2>1. create' = create /\ pc[p] # "idle" /\ \A q \in Runners \ {p} : pc'[q] = pc[q]
    BY <1>4
    DEF ProcessStep, InnerAcquire, InnerUndo, Load, Expire, Start, BuildClient, RunFails,
        RunFinishes, CommitSuccess, TimeOut, CommitTimeout, InnerRelease, Goto, Stop,
        requestVars, TypeOK
  <2> QED BY <2>1 DEF Runners
<1>5. ASSUME NEW u \in Users, SlotExpires(u) PROVE JobAfterCreate'
  BY <1>5 DEF SlotExpires, runnerVars, requestVars
<1>6. ASSUME CrashApi PROVE JobAfterCreate'
  BY <1>6 DEF CrashApi, Runners
<1>7. CASE UNCHANGED vars
  BY <1>7 DEF vars, runnerVars, requestVars
<1> QED BY <1>1, <1>2, <1>3, <1>4, <1>5, <1>6, <1>7 DEF Next, Environment

LEMMA JobStartsAfterCreate == Spec => []JobAfterCreate
<1>1. Init => JobAfterCreate
  BY DEF Init, JobAfterCreate, Runners
<1>2. TypeOK /\ JobAfterCreate /\ [Next]_vars => JobAfterCreate'
  BY JobAfterCreateStep
<1> QED BY <1>1, <1>2, TypeCorrect, PTL DEF Spec

-----------------------------------------------------------------------------
(* The slot counter *)

\* A finite set with one element more or one less.
LEMMA CardinalityMoves ==
  ASSUME NEW S, IsFiniteSet(S), NEW x
  PROVE  /\ x \notin S => Cardinality(S \cup {x}) = Cardinality(S) + 1
         /\ x \in S => Cardinality(S \ {x}) = Cardinality(S) - 1
  BY FS_AddElement, FS_RemoveElement

\* The terms of what a user's processes owe are natural numbers.
LEMMA TermsTyped ==
  ASSUME TypeOK, NEW u \in Users
  PROVE  /\ Cardinality(OuterHolders(u)) \in Nat /\ Cardinality(WorkerHolders(u)) \in Nat
         /\ Cardinality(JobHolders(u)) \in Nat /\ Cardinality(CreateHolders(u)) \in Nat
         /\ leaked[u] \in Nat /\ unpaid[u] \in Nat /\ Owed(u) \in Int
<1>1. /\ Cardinality(OuterHolders(u)) \in Nat /\ Cardinality(WorkerHolders(u)) \in Nat
      /\ Cardinality(JobHolders(u)) \in Nat /\ Cardinality(CreateHolders(u)) \in Nat
  BY HoldersFinite
<1>2. leaked[u] \in Nat /\ unpaid[u] \in Nat
  BY DEF TypeOK
<1> QED BY <1>1, <1>2 DEF Owed

\* Nobody takes or gives back a unit.
SameHolders ==
  \A u \in Users : /\ OuterHolders(u)' = OuterHolders(u)
                   /\ WorkerHolders(u)' = WorkerHolders(u)
                   /\ JobHolders(u)' = JobHolders(u)
                   /\ CreateHolders(u)' = CreateHolders(u)

\* A step that moves neither the counter nor the holders keeps the invariant.
LEMMA ExactKept ==
  ASSUME CounterExact, SameHolders, slots' = slots, UNCHANGED <<leaked, unpaid>>
  PROVE  CounterExact'
  BY DEF CounterExact, SameHolders, Owed

\* A step that moves the counter of u by d moves what is owed by d.
LEMMA ExactMoves ==
  ASSUME TypeOK, CounterExact, NEW u \in Users, NEW d \in {-1, 1},
         slots' = [slots EXCEPT ![u] = @ + d], unpaid' = unpaid,
         Owed(u)' = Owed(u) + d,
         \A v \in Users \ {u} : Owed(v)' = Owed(v)
  PROVE  CounterExact'
<1> SUFFICES ASSUME NEW v \in Users PROVE slots'[v] = Owed(v)' - unpaid'[v]
  BY DEF CounterExact
<1>1. slots[v] \in Int /\ slots[v] = Owed(v) - unpaid[v] /\ Owed(v) \in Int /\ unpaid[v] \in Nat
  BY TermsTyped DEF TypeOK, CounterExact
<1>2. CASE v = u
  BY <1>1, <1>2 DEF TypeOK
<1>3. CASE v # u
  BY <1>1, <1>3 DEF TypeOK
<1> QED BY <1>2, <1>3

\* The gate of a create request.
LEMMA CreateExact ==
  ASSUME TypeOK, JobAfterCreate, CounterExact, NEW t \in Tasks,
         CreateEnqueue(t) \/ CreateStep(t)
  PROVE  CounterExact'
<1>1. Owner[t] \in Users
  BY OwnerAssumption
<1>2. CASE CreateEnqueue(t) \/ CreateCommit(t)
  <2>1. SameHolders
    BY <1>2 DEF CreateEnqueue, CreateCommit, SameHolders, OuterHolders, WorkerHolders,
                JobHolders, CreateHolders, HoldsOuter, HoldsInner, OwnerOf, runnerVars, TypeOK
  <2> QED BY <1>2, <2>1, ExactKept DEF CreateEnqueue, CreateCommit, history
<1>3. CASE CreateGate(t)
  <2>1. \A v \in Users : /\ OuterHolders(v)' = OuterHolders(v)
                         /\ WorkerHolders(v)' = WorkerHolders(v)
                         /\ JobHolders(v)' = JobHolders(v)
                         /\ leaked'[v] = leaked[v]
    BY <1>3 DEF CreateGate, history, OuterHolders, WorkerHolders, JobHolders, HoldsOuter, HoldsInner,
                OwnerOf, runnerVars
  <2>2. create'[t] \in {"gateHeld", "gateUndo"} /\ \A s \in Tasks \ {t} : create'[s] = create[s]
    BY <1>3 DEF CreateGate, TypeOK
  <2>3. /\ t \notin CreateHolders(Owner[t])
        /\ CreateHolders(Owner[t])' = CreateHolders(Owner[t]) \cup {t}
        /\ \A v \in Users \ {Owner[t]} : CreateHolders(v)' = CreateHolders(v)
    BY <1>3, <2>2 DEF CreateGate, CreateHolders
  <2>4. Owed(Owner[t])' = Owed(Owner[t]) + 1
    <3>1. Cardinality(CreateHolders(Owner[t]))' = Cardinality(CreateHolders(Owner[t])) + 1
      BY <2>3, HoldersFinite, CardinalityMoves
    <3> QED BY <1>1, <2>1, <3>1, TermsTyped DEF Owed
  <2>5. \A v \in Users \ {Owner[t]} : Owed(v)' = Owed(v)
    BY <2>1, <2>3 DEF Owed
  <2> QED BY <1>1, <1>3, <2>4, <2>5, ExactMoves DEF CreateGate, Incr, history
<1>4. CASE CreateGateUndo(t) \/ CreateSchedule(t)
  <2>1. \A v \in Users : /\ OuterHolders(v)' = OuterHolders(v)
                         /\ WorkerHolders(v)' = WorkerHolders(v)
                         /\ JobHolders(v)' = JobHolders(v)
                         /\ leaked'[v] = leaked[v]
    <3>1. CASE CreateGateUndo(t)
      BY <3>1 DEF CreateGateUndo, history, OuterHolders, WorkerHolders, JobHolders, HoldsOuter,
                  HoldsInner, OwnerOf, runnerVars
    <3>2. CASE CreateSchedule(t)
      <4>1. /\ \A w \in Workers : pc'[w] = pc[w] /\ job'[w] = job[w]
            /\ \A s \in Tasks \ {t} : pc'[s] = pc[s] /\ job'[s] = job[s]
            /\ pc'[t] = "inner"
        BY <3>2, RunnersAssumption DEF CreateSchedule, TypeOK, Runners
      <4>2. \A v \in Users : OuterHolders(v)' = OuterHolders(v) /\ WorkerHolders(v)' = WorkerHolders(v)
        BY <4>1 DEF OuterHolders, WorkerHolders, HoldsOuter, HoldsInner, OwnerOf
      <4>3. ~HoldsInner(t) /\ ~HoldsInner(t)'
        BY <3>2, <4>1 DEF CreateSchedule, HoldsInner, JobAfterCreate
      <4>4. \A v \in Users : JobHolders(v)' = JobHolders(v)
        BY <4>1, <4>3 DEF JobHolders, HoldsInner, OwnerOf
      <4> QED BY <3>2, <4>2, <4>4 DEF CreateSchedule, history
    <3> QED BY <1>4, <3>1, <3>2
  <2>2. create'[t] = "done" /\ \A s \in Tasks \ {t} : create'[s] = create[s]
    BY <1>4 DEF CreateGateUndo, CreateSchedule, TypeOK
  <2>3. /\ t \in CreateHolders(Owner[t])
        /\ CreateHolders(Owner[t])' = CreateHolders(Owner[t]) \ {t}
        /\ \A v \in Users \ {Owner[t]} : CreateHolders(v)' = CreateHolders(v)
    BY <1>4, <2>2 DEF CreateGateUndo, CreateSchedule, CreateHolders
  <2>4. Owed(Owner[t])' = Owed(Owner[t]) + (-1)
    <3>1. Cardinality(CreateHolders(Owner[t]))' = Cardinality(CreateHolders(Owner[t])) - 1
      BY <2>3, HoldersFinite, CardinalityMoves
    <3> QED BY <1>1, <2>1, <3>1, TermsTyped DEF Owed
  <2>5. \A v \in Users \ {Owner[t]} : Owed(v)' = Owed(v)
    BY <2>1, <2>3 DEF Owed
  <2>6. slots' = [slots EXCEPT ![Owner[t]] = @ + (-1)] /\ unpaid' = unpaid
    BY <1>1, <1>4 DEF CreateGateUndo, CreateSchedule, Decr, history, TypeOK
  <2> QED BY <1>1, <2>4, <2>5, <2>6, ExactMoves
<1> QED BY <1>2, <1>3, <1>4 DEF CreateStep

\* Requests that do not pass the gate, and time.
LEMMA RequestExact ==
  ASSUME CounterExact, NEW t \in Tasks,
         \/ CancelLoad(t) \/ CancelStep(t) \/ RedoLoad(t) \/ RedoStep(t)
         \/ DeadlinePasses(t) \/ MarkerExpires(t)
  PROVE  CounterExact'
<1>1. UNCHANGED <<slots, leaked, unpaid, pc, job, create>>
  BY DEF history, CancelLoad, CancelStep, CancelCommit, CancelMark, RedoLoad, RedoStep, RedoCommit,
         RedoEnqueue, DeadlinePasses, MarkerExpires, runnerVars, requestVars
<1>2. SameHolders
  BY <1>1 DEF SameHolders, OuterHolders, WorkerHolders, JobHolders, CreateHolders,
              HoldsOuter, HoldsInner, OwnerOf
<1> QED BY <1>1, <1>2, ExactKept

\* The outer gate of a worker.
LEMMA WorkerExact ==
  ASSUME TypeOK, CounterExact, NEW w \in Workers, WorkerStep(w)
  PROVE  CounterExact'
<1>1. w \in Runners /\ w \notin Tasks /\ create' = create /\ UNCHANGED <<leaked, unpaid>>
  BY RunnersAssumption
  DEF Runners, WorkerStep, CreateGroup, Dequeue, CheckMarker, OuterAcquire, OuterUndo,
      OuterRelease, requestVars, history
<1>2. \A p \in Runners \ {w} : pc'[p] = pc[p] /\ job'[p] = job[p]
  BY <1>1 DEF WorkerStep, CreateGroup, Dequeue, CheckMarker, OuterAcquire, OuterUndo,
              OuterRelease, runnerVars, Goto, Stop, TypeOK
<1>3. ~HoldsInner(w) /\ ~HoldsInner(w)'
  BY <1>1 DEF HoldsInner, WorkerStep, CreateGroup, Dequeue, CheckMarker, OuterAcquire, OuterUndo,
              OuterRelease, runnerVars, Goto, Stop, TypeOK
<1>4. \A v \in Users : /\ WorkerHolders(v)' = WorkerHolders(v)
                       /\ JobHolders(v)' = JobHolders(v)
                       /\ CreateHolders(v)' = CreateHolders(v)
  <2>1. \A v \in Users : CreateHolders(v)' = CreateHolders(v)
    BY <1>1 DEF CreateHolders
  <2>2. \A v \in Users : JobHolders(v)' = JobHolders(v)
    BY <1>1, <1>2 DEF JobHolders, HoldsInner, OwnerOf, Runners
  <2>3. \A v \in Users : WorkerHolders(v)' = WorkerHolders(v)
    BY <1>2, <1>3 DEF WorkerHolders, HoldsInner, OwnerOf, Runners
  <2> QED BY <2>1, <2>2, <2>3
<1>5. CASE CreateGroup(w) \/ Dequeue(w) \/ CheckMarker(w)
  <2>1. ~HoldsOuter(w) /\ ~HoldsOuter(w)' /\ slots' = slots
    BY <1>1, <1>5 DEF HoldsOuter, CreateGroup, Dequeue, CheckMarker, runnerVars, Goto, Stop, TypeOK
  <2>2. \A v \in Users : OuterHolders(v)' = OuterHolders(v)
    BY <1>2, <2>1 DEF OuterHolders, HoldsOuter, OwnerOf, Runners
  <2> QED BY <1>1, <1>4, <2>1, <2>2, ExactKept DEF SameHolders
<1>6. CASE OuterAcquire(w)
  <2>1. OwnerOf(w) \in Users /\ OwnerOf(w)' = OwnerOf(w) /\ ~HoldsOuter(w) /\ HoldsOuter(w)'
    BY <1>1, <1>6, OwnerTyped DEF OuterAcquire, HoldsOuter, OwnerOf, Goto, TypeOK
  <2>2. /\ w \notin OuterHolders(OwnerOf(w))
        /\ OuterHolders(OwnerOf(w))' = OuterHolders(OwnerOf(w)) \cup {w}
        /\ \A v \in Users \ {OwnerOf(w)} : OuterHolders(v)' = OuterHolders(v)
    BY <1>2, <2>1 DEF OuterHolders, HoldsOuter, OwnerOf, Runners
  <2>3. Cardinality(OuterHolders(OwnerOf(w)))' = Cardinality(OuterHolders(OwnerOf(w))) + 1
    BY <2>2, HoldersFinite, CardinalityMoves
  <2>4. Owed(OwnerOf(w))' = Owed(OwnerOf(w)) + 1
    BY <1>1, <1>4, <2>1, <2>3, TermsTyped DEF Owed
  <2>5. \A v \in Users \ {OwnerOf(w)} : Owed(v)' = Owed(v)
    BY <1>1, <1>4, <2>2 DEF Owed
  <2> QED BY <1>1, <1>6, <2>1, <2>4, <2>5, ExactMoves DEF OuterAcquire, Incr
<1>7. CASE OuterUndo(w) \/ OuterRelease(w)
  <2>0. OwnerOf(w) \in Users /\ HoldsOuter(w) /\ ~HoldsOuter(w)'
    BY <1>1, <1>7, OwnerTyped DEF OuterUndo, OuterRelease, HoldsOuter, Stop, TypeOK
  <2>1. PICK u \in Users : u = OwnerOf(w)
    BY <2>0
  <2>2. /\ w \in OuterHolders(u)
        /\ OuterHolders(u)' = OuterHolders(u) \ {w}
        /\ \A v \in Users \ {u} : OuterHolders(v)' = OuterHolders(v)
    BY <1>2, <2>0, <2>1 DEF OuterHolders, HoldsOuter, OwnerOf, Runners
  <2>3. Cardinality(OuterHolders(u))' = Cardinality(OuterHolders(u)) - 1
    BY <2>2, HoldersFinite, CardinalityMoves
  <2>4. Owed(u)' = Owed(u) + (-1)
    BY <1>1, <1>4, <2>1, <2>3, TermsTyped DEF Owed
  <2>5. \A v \in Users \ {u} : Owed(v)' = Owed(v)
    BY <1>1, <1>4, <2>2 DEF Owed
  <2>6. slots' = [slots EXCEPT ![u] = @ + (-1)]
    BY <1>7, <2>1 DEF OuterUndo, OuterRelease, Decr, TypeOK
  <2> QED BY <1>1, <2>1, <2>4, <2>5, <2>6, ExactMoves
<1> QED BY <1>5, <1>6, <1>7 DEF WorkerStep

\* The inner acquire and release of process_generation_task, and its body.
LEMMA ProcessExact ==
  ASSUME TypeOK, CounterExact, NEW p \in Runners, ProcessStep(p)
  PROVE  CounterExact'
<1>1. pc[p] # "idle" /\ create' = create /\ leaked' = leaked
      /\ (~InnerUndo(p) => unpaid' = unpaid)
  BY DEF ProcessStep, InnerAcquire, InnerUndo, Load, Expire, Start, BuildClient, RunFails,
         RunFinishes, CommitSuccess, TimeOut, CommitTimeout, InnerRelease, requestVars, history
<1>2. PICK u \in Users : u = OwnerOf(p)
  BY <1>1, OwnerTyped
<1>3. \A q \in Runners \ {p} : pc'[q] = pc[q] /\ job'[q] = job[q]
  BY DEF ProcessStep, InnerAcquire, InnerUndo, Load, Expire, Start, BuildClient, RunFails,
         RunFinishes, CommitSuccess, TimeOut, CommitTimeout, InnerRelease, Goto, Stop, TypeOK
<1>4. \A v \in Users : CreateHolders(v)' = CreateHolders(v)
  BY <1>1 DEF CreateHolders
<1>5. p \in Workers => job'[p] = job[p] /\ HoldsOuter(p) /\ HoldsOuter(p)'
  BY RunnersAssumption
  DEF ProcessStep, InnerAcquire, InnerUndo, Load, Expire, Start, BuildClient, RunFails,
      RunFinishes, CommitSuccess, TimeOut, CommitTimeout, InnerRelease, Goto, Stop, TypeOK,
      HoldsOuter, AfterLoad
<1>6. \A v \in Users : OuterHolders(v)' = OuterHolders(v)
  BY <1>3, <1>5 DEF OuterHolders, HoldsOuter, OwnerOf, Runners
<1>7. CASE InnerAcquire(p)
  <2>1. OwnerOf(p) = u /\ OwnerOf(p)' = u /\ ~HoldsInner(p) /\ HoldsInner(p)'
    BY <1>2, <1>7 DEF InnerAcquire, HoldsInner, OwnerOf, Goto, TypeOK
  <2>2. slots' = [slots EXCEPT ![u] = @ + 1] /\ unpaid' = unpaid
    BY <1>7, <2>1 DEF InnerAcquire, Incr, history
  <2>3. CASE p \in Workers
    <3>1. \A v \in Users : JobHolders(v)' = JobHolders(v)
      BY <1>3, <2>3, RunnersAssumption DEF JobHolders, HoldsInner, OwnerOf, Runners
    <3>2. /\ p \notin WorkerHolders(u)
          /\ WorkerHolders(u)' = WorkerHolders(u) \cup {p}
          /\ \A v \in Users \ {u} : WorkerHolders(v)' = WorkerHolders(v)
      BY <1>3, <2>1, <2>3 DEF WorkerHolders, HoldsInner, OwnerOf, Runners
    <3>3. Cardinality(WorkerHolders(u))' = Cardinality(WorkerHolders(u)) + 1
      BY <3>2, HoldersFinite, CardinalityMoves
    <3>4. Owed(u)' = Owed(u) + 1
      BY <1>1, <1>4, <1>6, <3>1, <3>3, TermsTyped DEF Owed
    <3>5. \A v \in Users \ {u} : Owed(v)' = Owed(v)
      BY <1>1, <1>4, <1>6, <3>1, <3>2 DEF Owed
    <3> QED BY <2>2, <3>4, <3>5, ExactMoves
  <2>4. CASE p \in Tasks
    <3>1. \A v \in Users : WorkerHolders(v)' = WorkerHolders(v)
      BY <1>3, <2>4, RunnersAssumption DEF WorkerHolders, HoldsInner, OwnerOf, Runners
    <3>2. /\ p \notin JobHolders(u)
          /\ JobHolders(u)' = JobHolders(u) \cup {p}
          /\ \A v \in Users \ {u} : JobHolders(v)' = JobHolders(v)
      BY <1>3, <2>1, <2>4 DEF JobHolders, HoldsInner, OwnerOf, Runners
    <3>3. Cardinality(JobHolders(u))' = Cardinality(JobHolders(u)) + 1
      BY <3>2, HoldersFinite, CardinalityMoves
    <3>4. Owed(u)' = Owed(u) + 1
      BY <1>1, <1>4, <1>6, <3>1, <3>3, TermsTyped DEF Owed
    <3>5. \A v \in Users \ {u} : Owed(v)' = Owed(v)
      BY <1>1, <1>4, <1>6, <3>1, <3>2 DEF Owed
    <3> QED BY <2>2, <3>4, <3>5, ExactMoves
  <2> QED BY <2>3, <2>4 DEF Runners
<1>8. CASE InnerUndo(p) \/ InnerRelease(p)
  <2>1. OwnerOf(p) = u /\ HoldsInner(p) /\ slots' = [slots EXCEPT ![u] = @ - 1]
    BY <1>2, <1>8 DEF InnerUndo, InnerRelease, HoldsInner, Decr
  <2>2. CASE InnerUndo(p)
    (* The unit is taken back but the release still comes: one more is unpaid. *)
    <3>1. HoldsInner(p)' /\ job' = job
      BY <2>2 DEF InnerUndo, HoldsInner, Goto, TypeOK
    <3>2. \A v \in Users : WorkerHolders(v)' = WorkerHolders(v) /\ JobHolders(v)' = JobHolders(v)
      BY <1>3, <2>1, <3>1 DEF WorkerHolders, JobHolders, HoldsInner, OwnerOf, Runners
    <3>3. \A v \in Users : Owed(v)' = Owed(v)
      BY <1>1, <1>4, <1>6, <3>2 DEF Owed
    <3>4. unpaid' = [unpaid EXCEPT ![u] = @ + 1]
      BY <2>1, <2>2 DEF InnerUndo
    <3> SUFFICES ASSUME NEW v \in Users PROVE slots'[v] = Owed(v)' - unpaid'[v]
      BY DEF CounterExact
    <3>5. /\ slots[v] = Owed(v) - unpaid[v] /\ Owed(v) \in Int /\ unpaid[v] \in Nat
          /\ Owed(v)' = Owed(v)
      BY <3>3, TermsTyped DEF CounterExact
    <3>6. CASE v = u
      BY <2>1, <3>4, <3>5, <3>6 DEF TypeOK
    <3>7. CASE v # u
      BY <2>1, <3>4, <3>5, <3>7 DEF TypeOK
    <3> QED BY <3>6, <3>7
  <2>3. CASE InnerRelease(p) /\ p \in Workers
    <3>0. ~HoldsInner(p)'
      BY <2>3, RunnersAssumption DEF InnerRelease, HoldsInner, Goto, TypeOK
    <3>1. \A v \in Users : JobHolders(v)' = JobHolders(v)
      BY <1>3, <2>3, RunnersAssumption DEF JobHolders, HoldsInner, OwnerOf, Runners
    <3>2. /\ p \in WorkerHolders(u)
          /\ WorkerHolders(u)' = WorkerHolders(u) \ {p}
          /\ \A v \in Users \ {u} : WorkerHolders(v)' = WorkerHolders(v)
      BY <1>3, <2>1, <2>3, <3>0 DEF WorkerHolders, HoldsInner, OwnerOf, Runners
    <3>3. Cardinality(WorkerHolders(u))' = Cardinality(WorkerHolders(u)) - 1
      BY <3>2, HoldersFinite, CardinalityMoves
    <3>4. Owed(u)' = Owed(u) + (-1)
      BY <1>1, <1>4, <1>6, <3>1, <3>3, TermsTyped DEF Owed
    <3>5. \A v \in Users \ {u} : Owed(v)' = Owed(v)
      BY <1>1, <1>4, <1>6, <3>1, <3>2 DEF Owed
    <3>6. slots' = [slots EXCEPT ![u] = @ + (-1)] /\ unpaid' = unpaid
      BY <2>1, <2>3 DEF InnerRelease, history, TypeOK
    <3> QED BY <3>4, <3>5, <3>6, ExactMoves
  <2>4. CASE InnerRelease(p) /\ p \in Tasks
    <3>0. ~HoldsInner(p)'
      BY <2>4, RunnersAssumption DEF InnerRelease, HoldsInner, Stop, TypeOK
    <3>1. \A v \in Users : WorkerHolders(v)' = WorkerHolders(v)
      BY <1>3, <2>4, RunnersAssumption DEF WorkerHolders, HoldsInner, OwnerOf, Runners
    <3>2. /\ p \in JobHolders(u)
          /\ JobHolders(u)' = JobHolders(u) \ {p}
          /\ \A v \in Users \ {u} : JobHolders(v)' = JobHolders(v)
      BY <1>3, <2>1, <2>4, <3>0 DEF JobHolders, HoldsInner, OwnerOf, Runners
    <3>3. Cardinality(JobHolders(u))' = Cardinality(JobHolders(u)) - 1
      BY <3>2, HoldersFinite, CardinalityMoves
    <3>4. Owed(u)' = Owed(u) + (-1)
      BY <1>1, <1>4, <1>6, <3>1, <3>3, TermsTyped DEF Owed
    <3>5. \A v \in Users \ {u} : Owed(v)' = Owed(v)
      BY <1>1, <1>4, <1>6, <3>1, <3>2 DEF Owed
    <3>6. slots' = [slots EXCEPT ![u] = @ + (-1)] /\ unpaid' = unpaid
      BY <2>1, <2>4 DEF InnerRelease, history, TypeOK
    <3> QED BY <3>4, <3>5, <3>6, ExactMoves
  <2> QED BY <1>8, <2>2, <2>3, <2>4 DEF Runners
<1>9. CASE \/ Load(p) \/ Expire(p) \/ Start(p) \/ BuildClient(p) \/ RunFails(p)
           \/ RunFinishes(p) \/ CommitSuccess(p) \/ TimeOut(p) \/ CommitTimeout(p)
  <2>1. UNCHANGED <<slots, job, unpaid>> /\ HoldsInner(p) /\ HoldsInner(p)'
    BY <1>9 DEF history, Load, Expire, Start, BuildClient, RunFails, RunFinishes, CommitSuccess, TimeOut,
                CommitTimeout, Goto, HoldsInner, AfterLoad, TypeOK
  <2>2. \A v \in Users : WorkerHolders(v)' = WorkerHolders(v) /\ JobHolders(v)' = JobHolders(v)
    BY <1>3, <2>1 DEF WorkerHolders, JobHolders, HoldsInner, OwnerOf, Runners
  <2> QED BY <1>1, <1>4, <1>6, <2>1, <2>2, ExactKept DEF SameHolders
<1> QED BY <1>7, <1>8, <1>9 DEF ProcessStep

\* Key expiry and process deaths: what a dead process held becomes a leak.
LEMMA EnvironmentExact ==
  ASSUME TypeOK, CounterExact, Environment
  PROVE  CounterExact'
<1>1. ASSUME NEW t \in Tasks, DeadlinePasses(t) \/ MarkerExpires(t) PROVE CounterExact'
  BY <1>1, RequestExact
<1>2. ASSUME NEW u \in Users, SlotExpires(u) PROVE CounterExact'
  <2>1. \A v \in Users : slots'[v] = (IF v = u THEN 0 ELSE slots[v])
    BY <1>2 DEF SlotExpires, TypeOK
  <2>2. \A v \in Users : leaked'[v] = (IF v = u THEN 0 ELSE leaked[v])
    BY <1>2 DEF SlotExpires, TypeOK
  <2>3. SameHolders
    BY <1>2 DEF SlotExpires, SameHolders, OuterHolders, WorkerHolders, JobHolders,
                CreateHolders, HoldsOuter, HoldsInner, OwnerOf, runnerVars, requestVars
  <2>4. ASSUME NEW v \in Users, v # u PROVE slots'[v] = Owed(v)' - unpaid'[v]
    <3>1. unpaid'[v] = unpaid[v]
      BY <1>2, <2>4 DEF SlotExpires, TypeOK
    <3> QED BY <2>1, <2>2, <2>3, <2>4, <3>1 DEF CounterExact, Owed, SameHolders
  <2>5. Owed(u)' = 0 /\ unpaid'[u] = 0
    <3>1. /\ OuterHolders(u) = {} /\ WorkerHolders(u) = {}
          /\ JobHolders(u) = {} /\ CreateHolders(u) = {}
      BY <1>2 DEF SlotExpires
    <3>2. unpaid'[u] = 0
      BY <1>2 DEF SlotExpires, TypeOK
    <3> QED BY <2>2, <2>3, <3>1, <3>2, FS_EmptySet DEF Owed, SameHolders
  <2> QED BY <2>1, <2>4, <2>5 DEF CounterExact
<1>3. ASSUME NEW w \in Workers, CrashWorker(w) PROVE CounterExact'
  <2>1. OwnerOf(w) \in Users /\ w \in Runners /\ w \notin Tasks
    BY <1>3, OwnerTyped, RunnersAssumption DEF CrashWorker, Runners
  <2>2. PICK u \in Users : u = OwnerOf(w)
    BY <2>1
  <2>3. \A p \in Runners \ {w} : pc'[p] = pc[p] /\ job'[p] = job[p]
    BY <1>3 DEF CrashWorker, Stop, TypeOK
  <2>4. ~HoldsOuter(w)' /\ ~HoldsInner(w)'
    BY <1>3, <2>1 DEF CrashWorker, Stop, HoldsOuter, HoldsInner, TypeOK
  <2>5. \A v \in Users : JobHolders(v)' = JobHolders(v) /\ CreateHolders(v)' = CreateHolders(v)
    BY <1>3, <2>1, <2>3 DEF CrashWorker, requestVars, JobHolders, CreateHolders, HoldsInner,
                            OwnerOf, Runners
  <2>6. /\ \A v \in Users \ {u} : /\ OuterHolders(v)' = OuterHolders(v)
                                  /\ WorkerHolders(v)' = WorkerHolders(v)
        /\ OuterHolders(u)' = OuterHolders(u) \ {w}
        /\ WorkerHolders(u)' = WorkerHolders(u) \ {w}
    BY <2>2, <2>3, <2>4 DEF OuterHolders, WorkerHolders, HoldsOuter, HoldsInner, OwnerOf, Runners
  <2>7. Cardinality(OuterHolders(u))'
          = Cardinality(OuterHolders(u)) - (IF HoldsOuter(w) THEN 1 ELSE 0)
    <3>1. CASE HoldsOuter(w)
      <4>1. w \in OuterHolders(u)
        BY <2>2, <3>1 DEF OuterHolders
      <4> QED BY <2>6, <3>1, <4>1, HoldersFinite, CardinalityMoves
    <3>2. CASE ~HoldsOuter(w)
      <4>1. OuterHolders(u)' = OuterHolders(u)
        BY <2>6, <3>2 DEF OuterHolders
      <4> QED BY <3>2, <4>1, HoldersFinite
    <3> QED BY <3>1, <3>2
  <2>8. Cardinality(WorkerHolders(u))'
          = Cardinality(WorkerHolders(u)) - (IF HoldsInner(w) THEN 1 ELSE 0)
    <3>1. CASE HoldsInner(w)
      <4>1. w \in WorkerHolders(u)
        BY <2>2, <3>1 DEF WorkerHolders
      <4> QED BY <2>6, <3>1, <4>1, HoldersFinite, CardinalityMoves
    <3>2. CASE ~HoldsInner(w)
      <4>1. WorkerHolders(u)' = WorkerHolders(u)
        BY <2>6, <3>2 DEF WorkerHolders
      <4> QED BY <3>2, <4>1, HoldersFinite
    <3> QED BY <3>1, <3>2
  <2>9. /\ leaked'[u] = leaked[u] + (IF HoldsOuter(w) THEN 1 ELSE 0)
                                  + (IF HoldsInner(w) THEN 1 ELSE 0)
        /\ \A v \in Users \ {u} : leaked'[v] = leaked[v]
    BY <1>3, <2>2 DEF CrashWorker, TypeOK
  <2>10. Owed(u)' = Owed(u)
    <3>1. PICK o \in Nat : o = (IF HoldsOuter(w) THEN 1 ELSE 0)
      OBVIOUS
    <3>2. PICK i \in Nat : i = (IF HoldsInner(w) THEN 1 ELSE 0)
      OBVIOUS
    <3>3. /\ Cardinality(OuterHolders(u))' = Cardinality(OuterHolders(u)) - o
          /\ Cardinality(WorkerHolders(u))' = Cardinality(WorkerHolders(u)) - i
          /\ leaked'[u] = leaked[u] + o + i
      BY <2>7, <2>8, <2>9, <3>1, <3>2
    <3> QED BY <2>5, <3>3, TermsTyped DEF Owed
  <2>11. \A v \in Users \ {u} : Owed(v)' = Owed(v)
    BY <2>5, <2>6, <2>9 DEF Owed
  <2> QED BY <1>3, <2>10, <2>11 DEF CounterExact, CrashWorker
<1>4. ASSUME CrashApi PROVE CounterExact'
  <2>1. \A w \in Workers : pc'[w] = pc[w] /\ job'[w] = job[w]
    BY <1>4, RunnersAssumption DEF CrashApi, Runners
  <2>2. \A v \in Users : OuterHolders(v)' = OuterHolders(v) /\ WorkerHolders(v)' = WorkerHolders(v)
    BY <2>1 DEF OuterHolders, WorkerHolders, HoldsOuter, HoldsInner, OwnerOf
  <2>3. \A v \in Users : JobHolders(v)' = {} /\ CreateHolders(v)' = {}
    BY <1>4 DEF CrashApi, JobHolders, CreateHolders, HoldsInner, Runners
  <2>4. \A v \in Users : Cardinality(JobHolders(v))' = 0 /\ Cardinality(CreateHolders(v))' = 0
    BY <2>3, FS_EmptySet
  <2>5. \A v \in Users : leaked'[v] = leaked[v] + Cardinality(JobHolders(v))
                                                + Cardinality(CreateHolders(v))
    BY <1>4 DEF CrashApi
  <2>6. ASSUME NEW v \in Users PROVE Owed(v)' = Owed(v)
    BY <2>2, <2>4, <2>5, TermsTyped DEF Owed
  <2> QED BY <1>4, <2>6 DEF CounterExact, CrashApi
<1> QED BY <1>1, <1>2, <1>3, <1>4 DEF Environment

\* A user's slot counter is what its live processes owe and dead ones leaked,
\* less the runs that went on after a refused acquire, for any number of tasks,
\* users and workers and any limit.
THEOREM CounterIsExact == Spec => []CounterExact
<1>1. Init => CounterExact
  <2> SUFFICES ASSUME Init, NEW u \in Users PROVE slots[u] = Owed(u) - unpaid[u]
    BY DEF CounterExact
  <2>1. slots[u] = 0 /\ leaked[u] = 0 /\ unpaid[u] = 0
    BY DEF Init
  <2>2. /\ OuterHolders(u) = {} /\ WorkerHolders(u) = {}
        /\ JobHolders(u) = {} /\ CreateHolders(u) = {}
    BY DEF Init, OuterHolders, WorkerHolders, JobHolders, CreateHolders, HoldsOuter,
           HoldsInner, Runners
  <2> QED BY <2>1, <2>2, FS_EmptySet DEF Owed
<1>2. TypeOK /\ JobAfterCreate /\ CounterExact /\ [Next]_vars => CounterExact'
  <2> SUFFICES ASSUME TypeOK, JobAfterCreate, CounterExact, [Next]_vars
               PROVE  CounterExact'
    OBVIOUS
  <2>1. ASSUME Next PROVE CounterExact'
    BY <2>1, CreateExact, RequestExact, WorkerExact, ProcessExact, EnvironmentExact
    DEF Next
  <2>2. ASSUME UNCHANGED vars PROVE CounterExact'
    <3>1. SameHolders
      BY <2>2 DEF vars, runnerVars, requestVars, SameHolders, OuterHolders, WorkerHolders,
                  JobHolders, CreateHolders, HoldsOuter, HoldsInner, OwnerOf
    <3> QED BY <2>2, <3>1, ExactKept DEF vars, history
  <2> QED BY <2>1, <2>2
<1> QED BY <1>1, <1>2, JobStartsAfterCreate, TypeCorrect, PTL DEF Spec

\* A user none of whose requests or runs is in progress is never refused a slot,
\* unless a process died while it held one: the answer acquire_user_slot gives.
IdleUserAdmitted ==
  \A u \in Users :
    /\ OuterHolders(u) \cup WorkerHolders(u) \cup JobHolders(u) \cup CreateHolders(u) = {}
    /\ leaked[u] = 0
    => Admitted(u)

\* No run ever leaves the counter of an idle user above zero.
THEOREM IdleUserIsAdmitted == Spec => []IdleUserAdmitted
<1>1. TypeOK /\ CounterExact => IdleUserAdmitted
  <2> SUFFICES ASSUME TypeOK, CounterExact, NEW u \in Users, leaked[u] = 0,
                      OuterHolders(u) = {}, WorkerHolders(u) = {},
                      JobHolders(u) = {}, CreateHolders(u) = {}
               PROVE  slots[u] < Limit
    BY DEF IdleUserAdmitted, Admitted
  <2>1. Owed(u) = 0
    BY FS_EmptySet DEF Owed
  <2> QED BY <2>1, TermsTyped, LimitAssumption DEF CounterExact
<1> QED BY <1>1, CounterIsExact, TypeCorrect, PTL

=============================================================================
