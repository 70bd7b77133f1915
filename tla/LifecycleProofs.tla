--------------------------- MODULE LifecycleProofs ---------------------------
(***************************************************************************)
(* GenerationQueue implements TaskLifecycle.  Every step of the queue maps *)
(* to one of: a submission or redo, a claim, a write by a claimant, claims *)
(* given up, or a stutter.  Only typing is needed of the queue's state.    *)
(***************************************************************************)
EXTENDS GenerationQueueProofs

\* The mapped claims.
Claims == [t \in Tasks |-> ClaimsOn(t)]
Agents == (Runners \X {"run"}) \cup (Tasks \X {"cancel"})

\* A runner's and a cancel request's membership of the claims on a task.
LEMMA ClaimMembers ==
  ASSUME NEW t
  PROVE  /\ \A p : <<p, "run">> \in ClaimsOn(t) <=> p \in RunnersOn(t)
         /\ \A s : <<s, "cancel">> \in ClaimsOn(t) <=> (s = t /\ cancel[t] = "loaded")
         /\ \A c \in ClaimsOn(t) : \/ \E p \in RunnersOn(t) : c = <<p, "run">>
                                   \/ c = <<t, "cancel">> /\ cancel[t] = "loaded"
  BY DEF ClaimsOn

\* Steps that leave the pieces of the mapping alone leave the claims alone.
LEMMA ClaimsKept ==
  ASSUME \A t \in Tasks : RunnersOn(t)' = RunnersOn(t),
         \A t \in Tasks : (cancel'[t] = "loaded") <=> (cancel[t] = "loaded")
  PROVE  Claims' = Claims
<1>1. ASSUME NEW t \in Tasks PROVE ClaimsOn(t)' = ClaimsOn(t)
  BY DEF ClaimsOn
<1> QED BY <1>1 DEF Claims

\* A runner that claims its task or gives its claim up.
LEMMA RunnerMoves ==
  ASSUME TypeOK, NEW p \in Runners, NEW t \in Tasks, job[p] = t,
         job'[p] = t \/ pc'[p] \notin ClaimPc,
         \A q \in Runners \ {p} : pc'[q] = pc[q] /\ job'[q] = job[q],
         pc' \in [Runners -> RunnerPc],
         cancel' = cancel
  PROVE  /\ pc'[p] \in ClaimPc => Claims' = [Claims EXCEPT ![t] = @ \cup {<<p, "run">>}]
         /\ pc'[p] \notin ClaimPc => /\ Claims' = [Claims EXCEPT ![t] = @ \ {<<p, "run">>}]
                                     /\ Claims' = [s \in Tasks |-> Claims[s] \ {<<p, "run">>}]
<1>1. ASSUME NEW s \in Tasks, s # t PROVE RunnersOn(s)' = RunnersOn(s) /\ p \notin RunnersOn(s)
  BY <1>1 DEF RunnersOn
<1>2. ASSUME NEW s \in Tasks, s # t PROVE ClaimsOn(s)' = ClaimsOn(s)
  BY <1>1, <1>2 DEF ClaimsOn
<1>3. CASE pc'[p] \in ClaimPc
  <2>1. RunnersOn(t)' = RunnersOn(t) \cup {p}
    BY <1>3 DEF RunnersOn, ClaimPc
  <2>2. ClaimsOn(t)' = ClaimsOn(t) \cup {<<p, "run">>}
    BY <2>1 DEF ClaimsOn
  <2> QED BY <1>2, <1>3, <2>2 DEF Claims
<1>4. CASE pc'[p] \notin ClaimPc
  <2>1. RunnersOn(t)' = RunnersOn(t) \ {p}
    BY <1>4 DEF RunnersOn
  <2>2. ClaimsOn(t)' = ClaimsOn(t) \ {<<p, "run">>}
    BY <2>1 DEF ClaimsOn
  <2>3. ASSUME NEW s \in Tasks, s # t PROVE <<p, "run">> \notin ClaimsOn(s)
    BY <1>1, <2>3, ClaimMembers
  <2>4. Claims' = [Claims EXCEPT ![t] = @ \ {<<p, "run">>}]
    BY <1>2, <2>2 DEF Claims
  <2>5. ASSUME NEW s \in Tasks, s # t PROVE ClaimsOn(s)' = ClaimsOn(s) \ {<<p, "run">>}
    BY <1>2, <2>3, <2>5
  <2>6. Claims' = [s \in Tasks |-> Claims[s] \ {<<p, "run">>}]
    BY <2>2, <2>5 DEF Claims
  <2> QED BY <1>4, <2>4, <2>6
<1> QED BY <1>3, <1>4

-----------------------------------------------------------------------------
(* The abstract actions, in terms of the queue's state *)

LEMMA IsSubmitOrRequeue ==
  ASSUME NEW t \in Tasks, status' = [status EXCEPT ![t] = "queued"], Claims' = Claims
  PROVE  Lifecycle!Next
<1>1. CASE status[t] = "absent"
  BY <1>1 DEF Claims, Lifecycle!Next, Lifecycle!Submit
<1>2. CASE status[t] # "absent"
  BY <1>2 DEF Claims, Lifecycle!Next, Lifecycle!Requeue
<1> QED BY <1>1, <1>2

LEMMA IsClaim ==
  ASSUME NEW t \in Tasks, NEW a \in Agents, status[t] \in Active, status' = status,
         Claims' = [Claims EXCEPT ![t] = @ \cup {a}]
  PROVE  Lifecycle!Next
  BY DEF Claims, Agents, Active, Lifecycle!Next, Lifecycle!Claim, Lifecycle!Active

LEMMA IsBegin ==
  ASSUME NEW t \in Tasks, NEW a \in Agents, a \in ClaimsOn(t), Claims' = Claims,
         status' = [status EXCEPT ![t] = "running"]
  PROVE  Lifecycle!Next
  BY DEF Claims, Agents, Lifecycle!Next, Lifecycle!Begin

LEMMA IsSettle ==
  ASSUME NEW t \in Tasks, NEW a \in Agents, NEW s \in Settled, a \in ClaimsOn(t),
         status' = [status EXCEPT ![t] = s], Claims' = [Claims EXCEPT ![t] = @ \ {a}]
  PROVE  Lifecycle!Next
  BY DEF Claims, Agents, Settled, Lifecycle!Next, Lifecycle!Settle, Lifecycle!Settled

LEMMA IsAbandon ==
  ASSUME NEW lost \in SUBSET Agents, status' = status,
         Claims' = [t \in Tasks |-> Claims[t] \ lost]
  PROVE  Lifecycle!Next
<1>1. Claims' = [t \in Tasks |-> ClaimsOn(t) \ lost]
  BY DEF Claims
<1>2. Lifecycle!Abandon(lost)
  BY <1>1 DEF Claims, Lifecycle!Abandon
<1> QED BY <1>2 DEF Agents, Lifecycle!Next

LEMMA IsStutter ==
  ASSUME status' = status, Claims' = Claims
  PROVE  UNCHANGED Lifecycle!vars
  BY DEF Claims, Lifecycle!vars

-----------------------------------------------------------------------------
(* The steps of the queue *)

LEMMA CreateMaps ==
  ASSUME NEW t \in Tasks, CreateEnqueue(t) \/ CreateStep(t), TypeOK, JobAfterCreate
  PROVE  [Lifecycle!Next]_(Lifecycle!vars)
<1>1. Claims' = Claims
  <2>1. cancel' = cancel /\ \A s \in Tasks : RunnersOn(s)' = RunnersOn(s)
    <3>1. CASE CreateSchedule(t)
      <4>1. pc[t] = "idle" /\ pc'[t] = "inner" /\ t \in Runners /\ cancel' = cancel
        BY <3>1 DEF CreateSchedule, JobAfterCreate, TypeOK, Runners
      <4>2. \A q \in Runners \ {t} : pc'[q] = pc[q] /\ job'[q] = job[q]
        BY <3>1 DEF CreateSchedule, TypeOK
      <4> QED BY <4>1, <4>2 DEF RunnersOn, ClaimPc
    <3>2. CASE CreateEnqueue(t) \/ CreateCommit(t) \/ CreateGate(t) \/ CreateGateUndo(t)
      BY <3>2 DEF CreateEnqueue, CreateCommit, CreateGate, CreateGateUndo, runnerVars, RunnersOn
    <3> QED BY <3>1, <3>2 DEF CreateStep
  <2> QED BY <2>1, ClaimsKept
<1>2. CASE CreateCommit(t)
  BY <1>1, <1>2, IsSubmitOrRequeue DEF CreateCommit, SetStatus
<1>3. CASE CreateEnqueue(t) \/ CreateGate(t) \/ CreateGateUndo(t) \/ CreateSchedule(t)
  <2>1. status' = status
    BY <1>3 DEF CreateEnqueue, CreateGate, CreateGateUndo, CreateSchedule, taskVars
  <2> QED BY <1>1, <2>1, IsStutter
<1> QED BY <1>2, <1>3 DEF CreateStep

LEMMA RequestMaps ==
  ASSUME TypeOK, NEW t \in Tasks,
         CancelLoad(t) \/ CancelStep(t) \/ RedoLoad(t) \/ RedoStep(t)
  PROVE  [Lifecycle!Next]_(Lifecycle!vars)
<1>1. \A s \in Tasks : RunnersOn(s)' = RunnersOn(s)
  BY DEF CancelLoad, CancelStep, CancelCommit, CancelMark, RedoLoad, RedoStep, RedoCommit,
         RedoEnqueue, runnerVars, RunnersOn
<1>2. CASE CancelLoad(t)
  <2>1. \A s \in Tasks : ClaimsOn(s)' = IF s = t THEN ClaimsOn(s) \cup {<<t, "cancel">>}
                                                 ELSE ClaimsOn(s)
    BY <1>1, <1>2 DEF CancelLoad, ClaimsOn, TypeOK
  <2>2. Claims' = [Claims EXCEPT ![t] = @ \cup {<<t, "cancel">>}]
    BY <2>1 DEF Claims
  <2>3. <<t, "cancel">> \in Agents
    BY DEF Agents
  <2> QED BY <1>2, <2>2, <2>3, IsClaim DEF CancelLoad, taskVars
<1>3. CASE CancelCommit(t)
  <2>1. <<t, "cancel">> \in ClaimsOn(t)
    BY <1>3 DEF CancelCommit, ClaimsOn
  <2>2. \A s \in Tasks : cancel'[s] = (IF s = t THEN "committed" ELSE cancel[s])
    BY <1>3 DEF CancelCommit, TypeOK
  <2>3. ASSUME NEW s \in Tasks, s # t PROVE ClaimsOn(s)' = ClaimsOn(s)
    BY <1>1, <2>2, <2>3 DEF ClaimsOn
  <2>4. ClaimsOn(t)' = ClaimsOn(t) \ {<<t, "cancel">>}
    BY <1>1, <2>2 DEF ClaimsOn
  <2>5. Claims' = [Claims EXCEPT ![t] = @ \ {<<t, "cancel">>}]
    BY <2>3, <2>4 DEF Claims
  <2>6. <<t, "cancel">> \in Agents /\ "cancelled" \in Settled
    BY DEF Agents, Settled
  <2> QED BY <1>3, <2>1, <2>5, <2>6, IsSettle DEF CancelCommit, SetStatus
<1>4. CASE CancelMark(t) \/ RedoLoad(t) \/ RedoStep(t)
  <2>1. \A s \in Tasks : cancel'[s] = "loaded" <=> cancel[s] = "loaded"
    BY <1>4 DEF CancelMark, RedoLoad, RedoStep, RedoCommit, RedoEnqueue, TypeOK
  <2>2. Claims' = Claims
    BY <1>1, <2>1, ClaimsKept
  <2>3. status' = status \/ status' = [status EXCEPT ![t] = "queued"]
    BY <1>4 DEF CancelMark, RedoLoad, RedoStep, RedoCommit, RedoEnqueue, taskVars, SetStatus
  <2> QED BY <2>2, <2>3, IsStutter, IsSubmitOrRequeue
<1> QED BY <1>2, <1>3, <1>4 DEF CancelStep

LEMMA WorkerMaps ==
  ASSUME TypeOK, NEW w \in Workers, WorkerStep(w)
  PROVE  [Lifecycle!Next]_(Lifecycle!vars)
<1>1. w \in Runners /\ pc[w] \notin ClaimPc /\ status' = status /\ cancel' = cancel
  BY DEF Runners, ClaimPc, WorkerStep, CreateGroup, Dequeue, CheckMarker, OuterAcquire, OuterUndo,
         OuterRelease, taskVars, requestVars
<1>2. pc'[w] \notin ClaimPc
  BY <1>1 DEF ClaimPc, WorkerStep, CreateGroup, Dequeue, CheckMarker, OuterAcquire, OuterUndo,
         OuterRelease, runnerVars, Goto, Stop, TypeOK
<1>3. \A q \in Runners \ {w} : pc'[q] = pc[q] /\ job'[q] = job[q]
  BY <1>1 DEF WorkerStep, CreateGroup, Dequeue, CheckMarker, OuterAcquire, OuterUndo,
              OuterRelease, runnerVars, Goto, Stop, TypeOK
<1>4. \A s \in Tasks : RunnersOn(s)' = RunnersOn(s)
  BY <1>1, <1>2, <1>3 DEF RunnersOn
<1> QED BY <1>1, <1>4, ClaimsKept, IsStutter

LEMMA ProcessMaps ==
  ASSUME TypeOK, TypeOK', NEW p \in Runners, ProcessStep(p)
  PROVE  [Lifecycle!Next]_(Lifecycle!vars)
<1>1. /\ pc[p] # "idle" /\ cancel' = cancel
      /\ \A q \in Runners \ {p} : pc'[q] = pc[q] /\ job'[q] = job[q]
  BY DEF ProcessStep, InnerAcquire, InnerUndo, Load, Expire, Start, BuildClient, RunFails,
         RunFinishes, CommitSuccess, TimeOut, CommitTimeout, InnerRelease, Goto, Stop,
         requestVars, TypeOK
<1>2. PICK t \in Tasks : t = job[p]
  BY <1>1 DEF TypeOK
<1>3. pc' \in [Runners -> RunnerPc]
  BY DEF TypeOK
<1>4. <<p, "run">> \in Agents
  BY DEF Agents
<1>5. pc[p] \in ClaimPc => <<p, "run">> \in ClaimsOn(t)
  BY <1>2, ClaimMembers DEF RunnersOn
<1>6. CASE InnerAcquire(p) \/ InnerUndo(p) \/ InnerRelease(p)
  <2>1. status' = status /\ pc[p] \notin ClaimPc /\ pc'[p] \notin ClaimPc
    BY <1>6 DEF InnerAcquire, InnerUndo, InnerRelease, Goto, Stop, ClaimPc, taskVars, TypeOK
  <2>2. \A s \in Tasks : RunnersOn(s)' = RunnersOn(s)
    BY <1>1, <2>1 DEF RunnersOn
  <2> QED BY <1>1, <2>1, <2>2, ClaimsKept, IsStutter
<1>7. CASE Load(p)
  <2>1. status' = status /\ job'[p] = t /\ pc'[p] = AfterLoad(t)
    BY <1>2, <1>7 DEF Load, taskVars, TypeOK
  <2>2. CASE status[t] \in Active
    <3>1. pc'[p] \in ClaimPc
      BY <2>1, <2>2 DEF AfterLoad, ClaimPc
    <3>2. Claims' = [Claims EXCEPT ![t] = @ \cup {<<p, "run">>}]
      BY <1>1, <1>2, <1>3, <2>1, <3>1, RunnerMoves
    <3> QED BY <1>4, <2>1, <2>2, <3>2, IsClaim
  <2>3. CASE status[t] \notin Active
    <3>1. pc[p] \notin ClaimPc /\ pc'[p] \notin ClaimPc
      BY <1>7, <2>1, <2>3 DEF Load, AfterLoad, ClaimPc
    <3>2. \A s \in Tasks : RunnersOn(s)' = RunnersOn(s)
      BY <1>1, <3>1 DEF RunnersOn
    <3> QED BY <1>1, <2>1, <3>2, ClaimsKept, IsStutter
  <2> QED BY <2>2, <2>3
<1>8. CASE Expire(p) \/ RunFails(p) \/ CommitSuccess(p) \/ CommitTimeout(p)
  <2>1. /\ pc[p] \in ClaimPc /\ pc'[p] \notin ClaimPc
        /\ \E s \in Settled : status' = [status EXCEPT ![t] = s]
    BY <1>2, <1>8 DEF Expire, RunFails, CommitSuccess, CommitTimeout, Goto, SetStatus, ClaimPc,
                      Settled, TypeOK
  <2>2. Claims' = [Claims EXCEPT ![t] = @ \ {<<p, "run">>}]
    BY <1>1, <1>2, <1>3, <2>1, RunnerMoves
  <2> QED BY <1>4, <1>5, <2>1, <2>2, IsSettle
<1>9. CASE Start(p) \/ RunFinishes(p) \/ TimeOut(p) \/ BuildClient(p)
  <2>1. job' = job /\ pc[p] \in ClaimPc
    BY <1>9 DEF Start, RunFinishes, TimeOut, BuildClient, Goto, ClaimPc
  <2>2. CASE pc'[p] \in ClaimPc
    <3>1. \A s \in Tasks : RunnersOn(s)' = RunnersOn(s)
      BY <1>1, <2>1, <2>2 DEF RunnersOn
    <3>2. Claims' = Claims
      BY <1>1, <3>1, ClaimsKept
    <3>3. status' = status \/ status' = [status EXCEPT ![t] = "running"]
      BY <1>2, <1>9 DEF Start, RunFinishes, TimeOut, BuildClient, SetStatus, taskVars
    <3> QED BY <1>4, <1>5, <2>1, <3>2, <3>3, IsBegin, IsStutter
  <2>3. CASE pc'[p] \notin ClaimPc
    <3>1. status' = status
      BY <1>9, <2>3 DEF Start, RunFinishes, TimeOut, BuildClient, Goto, ClaimPc, taskVars, TypeOK
    <3>2. Claims' = [s \in Tasks |-> Claims[s] \ {<<p, "run">>}]
      BY <1>1, <1>2, <1>3, <2>3, RunnerMoves
    <3>3. {<<p, "run">>} \in SUBSET Agents
      BY <1>4
    <3> QED BY <3>1, <3>2, <3>3, IsAbandon
  <2> QED BY <2>2, <2>3
<1> QED BY <1>6, <1>7, <1>8, <1>9 DEF ProcessStep

LEMMA EnvironmentMaps ==
  ASSUME TypeOK, TypeOK', Environment
  PROVE  [Lifecycle!Next]_(Lifecycle!vars)
<1>1. CASE \/ \E t \in Tasks : DeadlinePasses(t) \/ MarkerExpires(t)
           \/ \E u \in Users : SlotExpires(u)
  <2>1. status' = status /\ cancel' = cancel /\ \A s \in Tasks : RunnersOn(s)' = RunnersOn(s)
    BY <1>1 DEF DeadlinePasses, MarkerExpires, SlotExpires, taskVars, runnerVars, requestVars,
                RunnersOn
  <2> QED BY <2>1, ClaimsKept, IsStutter
<1>2. ASSUME NEW w \in Workers, CrashWorker(w) PROVE [Lifecycle!Next]_(Lifecycle!vars)
  <2>1. w \in Runners /\ status' = status /\ cancel' = cancel
    BY <1>2 DEF CrashWorker, Runners, taskVars, requestVars
  <2>2. PICK t \in Tasks : t = job[w]
    BY <1>2, <2>1 DEF CrashWorker, TypeOK
  <2>3. \A q \in Runners \ {w} : pc'[q] = pc[q] /\ job'[q] = job[q]
    BY <1>2 DEF CrashWorker, Stop, TypeOK
  <2>4. pc'[w] \notin ClaimPc /\ pc' \in [Runners -> RunnerPc]
    BY <1>2, <2>1 DEF CrashWorker, Stop, ClaimPc, TypeOK
  <2>5. Claims' = [s \in Tasks |-> Claims[s] \ {<<w, "run">>}]
    BY <2>1, <2>2, <2>3, <2>4, RunnerMoves
  <2>6. {<<w, "run">>} \in SUBSET Agents
    BY <2>1 DEF Agents
  <2> QED BY <2>1, <2>5, <2>6, IsAbandon
<1>3. CASE CrashApi
  <2> DEFINE lost == (Tasks \X {"run"}) \cup (Tasks \X {"cancel"})
  <2>1. /\ \A w \in Workers : pc'[w] = pc[w] /\ job'[w] = job[w]
        /\ \A t \in Tasks : pc'[t] = "idle" /\ cancel'[t] = "idle"
    BY <1>3, RunnersAssumption DEF CrashApi, Runners
  <2>2. ASSUME NEW t \in Tasks PROVE RunnersOn(t)' = RunnersOn(t) \ Tasks
    BY <2>1, RunnersAssumption DEF RunnersOn, Runners, ClaimPc
  <2>3. ASSUME NEW t \in Tasks PROVE ClaimsOn(t)' = ClaimsOn(t) \ lost
    BY <2>1, <2>2 DEF ClaimsOn
  <2>4. Claims' = [t \in Tasks |-> Claims[t] \ lost]
    BY <2>3 DEF Claims
  <2>5. lost \in SUBSET Agents
    BY DEF Agents, Runners
  <2>6. status' = status
    BY <1>3 DEF CrashApi, taskVars
  <2> HIDE DEF lost
  <2> QED BY <2>4, <2>5, <2>6, IsAbandon
<1> QED BY <1>1, <1>2, <1>3 DEF Environment

\* The queue implements the abstract task lifecycle, for any constants: no
\* status is written by anyone who has not read the task as active, and a
\* settled task nobody works on stays settled until it is redone.
THEOREM QueueRefinesLifecycle == Spec => RefinesLifecycle
<1>1. Init => Lifecycle!Init
  <2> SUFFICES ASSUME Init PROVE Lifecycle!Init
    OBVIOUS
  <2>1. ASSUME NEW t \in Tasks PROVE ClaimsOn(t) = {}
    BY DEF Init, ClaimsOn, RunnersOn, ClaimPc
  <2> QED BY <2>1 DEF Init, Lifecycle!Init
<1>2. TypeOK /\ TypeOK' /\ JobAfterCreate /\ [Next]_vars => [Lifecycle!Next]_(Lifecycle!vars)
  <2> SUFFICES ASSUME TypeOK, TypeOK', JobAfterCreate, [Next]_vars
               PROVE  [Lifecycle!Next]_(Lifecycle!vars)
    OBVIOUS
  <2>1. CASE Next
    BY <2>1, CreateMaps, RequestMaps, WorkerMaps, ProcessMaps, EnvironmentMaps DEF Next
  <2>2. CASE UNCHANGED vars
    <3>1. status' = status /\ cancel' = cancel /\ \A s \in Tasks : RunnersOn(s)' = RunnersOn(s)
      BY <2>2 DEF vars, taskVars, runnerVars, requestVars, RunnersOn
    <3> QED BY <3>1, ClaimsKept, IsStutter
  <2> QED BY <2>1, <2>2
<1> QED BY <1>1, <1>2, JobStartsAfterCreate, TypeCorrect, PTL DEF Spec, RefinesLifecycle, Lifecycle!Spec

\* A settled task without claims keeps its status until it is redone: a late
\* or repeated message never revives it, for any constants.
THEOREM SettledTasksStay == Spec => SettledIsStable
<1>1. ASSUME TypeOK, [Lifecycle!Next]_(Lifecycle!vars) PROVE Lifecycle!KeepsSettled
  <2> SUFFICES ASSUME NEW t \in Tasks, status[t] \in Settled, ClaimsOn(t) = {}
               PROVE  status'[t] \in {status[t], "queued"} /\ ClaimsOn(t)' = {}
    BY DEF Settled, Lifecycle!Settled, Lifecycle!KeepsSettled
  <2>1. Claims[t] = {} /\ Claims'[t] = ClaimsOn(t)' /\ status[t] \notin Active
    BY DEF Claims, Settled, Active
  <2>2. ASSUME NEW s \in Tasks, Lifecycle!Submit(s) \/ Lifecycle!Requeue(s)
        PROVE  status'[t] \in {status[t], "queued"} /\ Claims'[t] = {}
    <3>1. Claims' = Claims
      BY <2>2 DEF Claims, Lifecycle!Submit, Lifecycle!Requeue
    <3>2. status' = [status EXCEPT ![s] = "queued"]
      BY <2>2 DEF Lifecycle!Submit, Lifecycle!Requeue
    <3> QED BY <2>1, <3>1, <3>2 DEF TypeOK
  <2>3. ASSUME NEW s \in Tasks, NEW a, Lifecycle!Claim(a, s)
        PROVE  status'[t] \in {status[t], "queued"} /\ Claims'[t] = {}
    BY <2>1, <2>3 DEF Claims, Active, Lifecycle!Claim, Lifecycle!Active
  <2>4. ASSUME NEW s \in Tasks, NEW a, Lifecycle!Begin(a, s) \/ Lifecycle!Settle(a, s)
        PROVE  status'[t] \in {status[t], "queued"} /\ Claims'[t] = {}
    <3>1. a \in Claims[s]
      BY <2>4 DEF Claims, Lifecycle!Begin, Lifecycle!Settle
    <3>2. s # t
      BY <2>1, <3>1
    <3>3. PICK x : status' = [status EXCEPT ![s] = x]
      BY <2>4 DEF Lifecycle!Begin, Lifecycle!Settle
    <3>4. Claims' = Claims \/ Claims' = [Claims EXCEPT ![s] = @ \ {a}]
      BY <2>4 DEF Claims, Lifecycle!Begin, Lifecycle!Settle
    <3>5. Claims'[t] = Claims[t]
      BY <3>2, <3>4 DEF Claims
    <3> QED BY <2>1, <3>2, <3>3, <3>5 DEF TypeOK
  <2>5. ASSUME NEW lost, Lifecycle!Abandon(lost)
        PROVE  status'[t] \in {status[t], "queued"} /\ Claims'[t] = {}
    BY <2>1, <2>5 DEF Claims, Lifecycle!Abandon
  <2>6. ASSUME UNCHANGED Lifecycle!vars
        PROVE  status'[t] \in {status[t], "queued"} /\ Claims'[t] = {}
    BY <2>1, <2>6 DEF Claims, Lifecycle!vars
  <2> QED BY <1>1, <2>1, <2>2, <2>3, <2>4, <2>5, <2>6 DEF Lifecycle!Next
<1>2. TypeOK /\ [Lifecycle!Next]_(Lifecycle!vars) => [Lifecycle!KeepsSettled]_(Lifecycle!vars)
  BY <1>1
<1> QED BY <1>2, TypeCorrect, QueueRefinesLifecycle, PTL
        DEF RefinesLifecycle, Lifecycle!Spec, SettledIsStable, Lifecycle!SettledIsStable

-----------------------------------------------------------------------------
(* Nobody leaves a task running *)

\* Nobody takes up or lets go of a task, and no status becomes "running".
LEMMA RunnerStays ==
  ASSUME RunningHasRunner, silent \subseteq silent',
         \A t \in Tasks : RunnersOn(t)' = RunnersOn(t),
         \A t \in Tasks : status'[t] = status[t] \/ status'[t] # "running"
  PROVE  RunningHasRunner'
  BY DEF RunningHasRunner, EndsOf

LEMMA CreateLeavesRunner ==
  ASSUME TypeOK, JobAfterCreate, RunningHasRunner, NEW t \in Tasks,
         CreateEnqueue(t) \/ CreateStep(t)
  PROVE  RunningHasRunner'
<1>1. \A s \in Tasks : status'[s] = status[s] \/ status'[s] # "running"
  BY DEF CreateEnqueue, CreateStep, CreateCommit, CreateGate, CreateGateUndo, CreateSchedule,
         taskVars, SetStatus, TypeOK
<1>2. silent' = silent
  BY DEF CreateEnqueue, CreateStep, CreateCommit, CreateGate, CreateGateUndo, CreateSchedule,
         history
<1>3. \A s \in Tasks : RunnersOn(s)' = RunnersOn(s)
  <2>1. CASE CreateSchedule(t)
    <3>1. /\ pc[t] = "idle" /\ pc'[t] = "inner" /\ t \in Runners
          /\ \A q \in Runners \ {t} : pc'[q] = pc[q] /\ job'[q] = job[q]
      BY <2>1 DEF CreateSchedule, JobAfterCreate, TypeOK, Runners
    <3> QED BY <3>1 DEF RunnersOn, ClaimPc
  <2>2. CASE ~CreateSchedule(t)
    BY <2>2 DEF CreateEnqueue, CreateStep, CreateCommit, CreateGate, CreateGateUndo, runnerVars,
                RunnersOn
  <2> QED BY <2>1, <2>2
<1> QED BY <1>1, <1>2, <1>3, RunnerStays

LEMMA RequestLeavesRunner ==
  ASSUME TypeOK, RunningHasRunner, NEW t \in Tasks,
         \/ CancelLoad(t) \/ CancelStep(t) \/ RedoLoad(t) \/ RedoStep(t)
         \/ DeadlinePasses(t) \/ MarkerExpires(t)
  PROVE  RunningHasRunner'
<1>1. \A s \in Tasks : status'[s] = status[s] \/ status'[s] # "running"
  BY DEF CancelLoad, CancelStep, CancelCommit, CancelMark, RedoLoad, RedoStep, RedoCommit,
         RedoEnqueue, DeadlinePasses, MarkerExpires, taskVars, SetStatus, TypeOK
<1>2. UNCHANGED <<silent, pc, job>>
  BY DEF CancelLoad, CancelStep, CancelCommit, CancelMark, RedoLoad, RedoStep, RedoCommit,
         RedoEnqueue, DeadlinePasses, MarkerExpires, history, runnerVars
<1>3. \A s \in Tasks : RunnersOn(s)' = RunnersOn(s)
  BY <1>2 DEF RunnersOn
<1> QED BY <1>1, <1>2, <1>3, RunnerStays

LEMMA WorkerLeavesRunner ==
  ASSUME TypeOK, RunningHasRunner, NEW w \in Workers, WorkerStep(w)
  PROVE  RunningHasRunner'
<1>1. w \in Runners /\ pc[w] \notin ClaimPc /\ status' = status /\ silent' = silent
  BY DEF Runners, ClaimPc, WorkerStep, CreateGroup, Dequeue, CheckMarker, OuterAcquire, OuterUndo,
         OuterRelease, taskVars, history
<1>2. /\ pc'[w] \notin ClaimPc
      /\ \A q \in Runners \ {w} : pc'[q] = pc[q] /\ job'[q] = job[q]
  BY <1>1 DEF ClaimPc, WorkerStep, CreateGroup, Dequeue, CheckMarker, OuterAcquire, OuterUndo,
         OuterRelease, runnerVars, Goto, Stop, TypeOK
<1>3. \A s \in Tasks : RunnersOn(s)' = RunnersOn(s)
  BY <1>1, <1>2 DEF RunnersOn
<1> QED BY <1>1, <1>3, RunnerStays

\* A run stays on its task until it has written its end or fallen silent.
LEMMA ProcessLeavesRunner ==
  ASSUME TypeOK, RunningHasRunner, NEW p \in Runners, ProcessStep(p)
  PROVE  RunningHasRunner'
<1>1. /\ pc[p] # "idle" /\ silent \subseteq silent'
      /\ \A q \in Runners \ {p} : pc'[q] = pc[q] /\ job'[q] = job[q]
  BY DEF ProcessStep, InnerAcquire, InnerUndo, Load, Expire, Start, BuildClient, RunFails,
         RunFinishes, CommitSuccess, TimeOut, CommitTimeout, InnerRelease, Goto, Stop, history,
         TypeOK
<1>2. PICK t \in Tasks : t = job[p]
  BY <1>1 DEF TypeOK
<1>3. job'[p] = t \/ job'[p] = NoTask
  BY <1>2 DEF ProcessStep, InnerAcquire, InnerUndo, Load, Expire, Start, BuildClient, RunFails,
         RunFinishes, CommitSuccess, TimeOut, CommitTimeout, InnerRelease, Goto, Stop, TypeOK
<1>4. ASSUME NEW s \in Tasks, s # t
      PROVE  RunnersOn(s)' = RunnersOn(s) /\ status'[s] = status[s]
  <2>1. RunnersOn(s)' = RunnersOn(s)
    BY <1>1, <1>2, <1>3, <1>4, RunnersAssumption DEF RunnersOn
  <2>2. status'[s] = status[s]
    BY <1>2, <1>4 DEF ProcessStep, InnerAcquire, InnerUndo, Load, Expire, Start, BuildClient,
         RunFails, RunFinishes, CommitSuccess, TimeOut, CommitTimeout, InnerRelease, SetStatus,
         taskVars, TypeOK
  <2> QED BY <2>1, <2>2
<1>5. status'[t] = "running" /\ EndsOf(t)' = {} => RunnersOn(t)' # {}
  <2>1. CASE pc'[p] \in ClaimPc
    <3>1. job'[p] = t
      BY <1>2, <2>1 DEF ProcessStep, InnerAcquire, InnerUndo, Load, Expire, Start, BuildClient,
         RunFails, RunFinishes, CommitSuccess, TimeOut, CommitTimeout, InnerRelease, Goto, Stop,
         ClaimPc, TypeOK
    <3> QED BY <2>1, <3>1 DEF RunnersOn
  <2>2. CASE pc[p] \in ClaimPc /\ pc'[p] \notin ClaimPc
    <3>1. status'[t] \in Settled \/ <<t, "client">> \in silent'
      BY <1>2, <2>2 DEF ProcessStep, InnerAcquire, InnerUndo, Load, Expire, Start, BuildClient,
         RunFails, RunFinishes, CommitSuccess, TimeOut, CommitTimeout, InnerRelease, Goto,
         ClaimPc, Settled, SetStatus, TypeOK
    <3> QED BY <3>1 DEF Settled, EndsOf, SilentEnds
  <2>3. CASE pc[p] \notin ClaimPc /\ pc'[p] \notin ClaimPc
    <3>1. RunnersOn(t)' = RunnersOn(t)
      BY <1>1, <2>3 DEF RunnersOn
    <3>2. status'[t] = status[t]
      BY <2>3 DEF ProcessStep, InnerAcquire, InnerUndo, Load, Expire, Start, BuildClient,
         RunFails, RunFinishes, CommitSuccess, TimeOut, CommitTimeout, InnerRelease, taskVars,
         ClaimPc
    <3> QED BY <1>1, <3>1, <3>2 DEF RunningHasRunner, EndsOf
  <2> QED BY <2>1, <2>2, <2>3
<1> QED BY <1>1, <1>4, <1>5 DEF RunningHasRunner, EndsOf

LEMMA EnvironmentLeavesRunner ==
  ASSUME TypeOK, RunningHasRunner, Environment
  PROVE  RunningHasRunner'
<1>1. ASSUME NEW u \in Users, SlotExpires(u) PROVE RunningHasRunner'
  BY <1>1 DEF SlotExpires, taskVars, runnerVars, RunningHasRunner, RunnersOn, EndsOf
<1>2. ASSUME NEW w \in Workers, CrashWorker(w) PROVE RunningHasRunner'
  <2>1. /\ w \in Runners /\ status' = status /\ silent' = silent \cup (WorkOf({w}) \X {"worker"})
        /\ \A q \in Runners \ {w} : pc'[q] = pc[q] /\ job'[q] = job[q]
    BY <1>2 DEF CrashWorker, Stop, taskVars, Runners, TypeOK
  <2>2. ASSUME NEW t \in Tasks, EndsOf(t)' = {} PROVE RunnersOn(t) \subseteq RunnersOn(t)'
    <3>1. t \notin WorkOf({w})
      BY <2>1, <2>2 DEF EndsOf, SilentEnds
    <3>2. w \notin RunnersOn(t)
      BY <3>1 DEF RunnersOn, WorkOf
    <3> QED BY <2>1, <3>2 DEF RunnersOn
  <2> QED BY <2>1, <2>2 DEF RunningHasRunner, EndsOf
<1>3. CASE CrashApi
  <2>1. /\ status' = status /\ silent' = silent \cup (WorkOf(Tasks) \X {"api"})
        /\ \A w \in Workers : pc'[w] = pc[w] /\ job'[w] = job[w]
    BY <1>3, RunnersAssumption DEF CrashApi, taskVars, Runners
  <2>2. ASSUME NEW t \in Tasks, EndsOf(t)' = {} PROVE RunnersOn(t) \subseteq RunnersOn(t)'
    <3>1. t \notin WorkOf(Tasks)
      BY <2>1, <2>2 DEF EndsOf, SilentEnds
    <3>2. \A q \in RunnersOn(t) : q \in Workers
      BY <3>1 DEF RunnersOn, WorkOf, Runners
    <3> QED BY <2>1, <3>2 DEF RunnersOn
  <2> QED BY <2>1, <2>2 DEF RunningHasRunner, EndsOf
<1> QED BY <1>1, <1>2, <1>3, RequestLeavesRunner DEF Environment

\* A task is left running by nobody only after a run of it died or could not
\* build its client, whatever was timed out, cancelled, redelivered or redone.
THEOREM RunningIsWorkedOn == Spec => []RunningHasRunner
<1>1. Init => RunningHasRunner
  BY DEF Init, RunningHasRunner
<1>2. TypeOK /\ JobAfterCreate /\ RunningHasRunner /\ [Next]_vars => RunningHasRunner'
  <2> SUFFICES ASSUME TypeOK, JobAfterCreate, RunningHasRunner, [Next]_vars
               PROVE  RunningHasRunner'
    OBVIOUS
  <2>1. CASE UNCHANGED vars
    BY <2>1 DEF vars, taskVars, runnerVars, history, RunningHasRunner, RunnersOn, EndsOf
  <2> QED BY <2>1, CreateLeavesRunner, RequestLeavesRunner, WorkerLeavesRunner,
             ProcessLeavesRunner, EnvironmentLeavesRunner DEF Next
<1> QED BY <1>1, <1>2, JobStartsAfterCreate, TypeCorrect, PTL DEF Spec

-----------------------------------------------------------------------------
(* What an admitted task is promised *)

\* Where the background job of a task can no longer find it queued: after its
\* first write, or before a start that writes nothing because it read "running".
PastQueued(t) == \/ pc[t] \in {"llm", "react", "finish", "release"}
                 \/ pc[t] = "start" /\ loaded[t] = "running"

\* The job works on its own task, and as long as that has not been redone its
\* status is not "queued" any more once the job is past its first write.
JobInv ==
  \A t \in Tasks :
    /\ pc[t] # "idle" => job[t] = t
    /\ redosLeft[t] = MaxRedos => redo[t] = "idle" /\ ~(PastQueued(t) /\ status[t] = "queued")

\* Steps that leave the job of every task where it is.
LEMMA JobKept ==
  ASSUME JobInv,
         \A t \in Tasks : pc'[t] = pc[t] /\ job'[t] = job[t] /\ loaded'[t] = loaded[t],
         \A t \in Tasks : redosLeft'[t] = MaxRedos =>
                            /\ redosLeft[t] = MaxRedos
                            /\ redo[t] = "idle" => redo'[t] = "idle",
         \A t \in Tasks : status'[t] = "queued" =>
                            status[t] = "queued" \/ pc[t] = "idle" \/ redo[t] # "idle"
  PROVE  JobInv'
<1> SUFFICES ASSUME NEW t \in Tasks
             PROVE  /\ pc'[t] # "idle" => job'[t] = t
                    /\ redosLeft'[t] = MaxRedos
                         => redo'[t] = "idle" /\ ~(PastQueued(t)' /\ status'[t] = "queued")
  BY DEF JobInv
<1>1. PastQueued(t)' <=> PastQueued(t)
  BY DEF PastQueued
<1>2. pc[t] = "idle" => ~PastQueued(t)
  BY DEF PastQueued
<1> QED BY <1>1, <1>2 DEF JobInv

LEMMA CreateKeepsJob ==
  ASSUME TypeOK, JobAfterCreate, JobInv, NEW t \in Tasks, CreateEnqueue(t) \/ CreateStep(t)
  PROVE  JobInv'
<1>1. UNCHANGED <<redo, redosLeft>>
  BY DEF CreateEnqueue, CreateStep, CreateCommit, CreateGate, CreateGateUndo, CreateSchedule,
         budget
<1>2. CASE CreateSchedule(t)
  <2>1. /\ status' = status /\ loaded' = loaded
        /\ pc'[t] = "inner" /\ job'[t] = t
        /\ \A s \in Tasks \ {t} : pc'[s] = pc[s] /\ job'[s] = job[s]
    BY <1>2 DEF CreateSchedule, taskVars, TypeOK, Runners
  <2> QED BY <1>1, <2>1 DEF JobInv, PastQueued
<1>3. CASE CreateEnqueue(t) \/ CreateCommit(t) \/ CreateGate(t) \/ CreateGateUndo(t)
  <2>1. UNCHANGED <<pc, job, loaded>>
    BY <1>3 DEF CreateEnqueue, CreateCommit, CreateGate, CreateGateUndo, runnerVars
  <2>2. \A s \in Tasks : status'[s] = "queued" => status[s] = "queued" \/ pc[s] = "idle"
    BY <1>3 DEF CreateEnqueue, CreateCommit, CreateGate, CreateGateUndo, taskVars, SetStatus,
                JobAfterCreate, TypeOK
  <2> QED BY <1>1, <2>1, <2>2, JobKept
<1> QED BY <1>2, <1>3 DEF CreateStep

LEMMA RequestKeepsJob ==
  ASSUME TypeOK, JobInv, NEW t \in Tasks,
         \/ CancelLoad(t) \/ CancelStep(t) \/ RedoLoad(t) \/ RedoStep(t)
         \/ DeadlinePasses(t) \/ MarkerExpires(t)
  PROVE  JobInv'
<1>1. UNCHANGED <<pc, job, loaded>>
  BY DEF CancelLoad, CancelStep, CancelCommit, CancelMark, RedoLoad, RedoStep, RedoCommit,
         RedoEnqueue, DeadlinePasses, MarkerExpires, runnerVars
<1>2. \A s \in Tasks : redosLeft'[s] = MaxRedos =>
                         /\ redosLeft[s] = MaxRedos
                         /\ redo[s] = "idle" => redo'[s] = "idle"
  <2>1. CASE RedoLoad(t)
    <3>1. redosLeft'[t] = redosLeft[t] - 1 /\ redosLeft[t] \in 0..MaxRedos
      BY <2>1 DEF RedoLoad, TypeOK
    <3>2. \A s \in Tasks \ {t} : redosLeft'[s] = redosLeft[s] /\ redo'[s] = redo[s]
      BY <2>1 DEF RedoLoad, TypeOK
    <3>3. redosLeft'[t] # MaxRedos
      BY <3>1, BoundsAssumption
    <3> QED BY <3>2, <3>3
  <2>2. CASE ~RedoLoad(t)
    BY <2>2 DEF CancelLoad, CancelStep, CancelCommit, CancelMark, RedoStep, RedoCommit,
         RedoEnqueue, DeadlinePasses, MarkerExpires, requestVars, budget, TypeOK
  <2> QED BY <2>1, <2>2
<1>3. \A s \in Tasks : status'[s] = "queued" => status[s] = "queued" \/ redo[s] # "idle"
  BY DEF CancelLoad, CancelStep, CancelCommit, CancelMark, RedoLoad, RedoStep, RedoCommit,
         RedoEnqueue, DeadlinePasses, MarkerExpires, taskVars, SetStatus, TypeOK
<1> QED BY <1>1, <1>2, <1>3, JobKept

LEMMA WorkerKeepsJob ==
  ASSUME TypeOK, JobInv, NEW w \in Workers, WorkerStep(w) \/ CrashWorker(w)
  PROVE  JobInv'
<1>1. UNCHANGED <<status, redo, redosLeft>>
  BY DEF WorkerStep, CreateGroup, Dequeue, CheckMarker, OuterAcquire, OuterUndo, OuterRelease,
         CrashWorker, taskVars, requestVars, budget
<1>2. \A t \in Tasks : pc'[t] = pc[t] /\ job'[t] = job[t] /\ loaded'[t] = loaded[t]
  BY RunnersAssumption
  DEF WorkerStep, CreateGroup, Dequeue, CheckMarker, OuterAcquire, OuterUndo, OuterRelease,
      CrashWorker, Goto, Stop, runnerVars, TypeOK, Runners
<1> QED BY <1>1, <1>2, JobKept

\* Refused acquire or not, the job reads its task and writes its status.
LEMMA ProcessKeepsJob ==
  ASSUME TypeOK, JobInv, NEW p \in Runners, ProcessStep(p)
  PROVE  JobInv'
<1>1. UNCHANGED <<redo, redosLeft>> /\ pc[p] # "idle"
  BY DEF ProcessStep, InnerAcquire, InnerUndo, Load, Expire, Start, BuildClient, RunFails,
         RunFinishes, CommitSuccess, TimeOut, CommitTimeout, InnerRelease, requestVars, budget
<1>2. \A q \in Runners \ {p} : pc'[q] = pc[q] /\ job'[q] = job[q] /\ loaded'[q] = loaded[q]
  BY DEF ProcessStep, InnerAcquire, InnerUndo, Load, Expire, Start, BuildClient, RunFails,
         RunFinishes, CommitSuccess, TimeOut, CommitTimeout, InnerRelease, Goto, Stop, TypeOK
<1>3. \A t \in Tasks : status'[t] = "queued" => status[t] = "queued"
  BY DEF ProcessStep, InnerAcquire, InnerUndo, Load, Expire, Start, BuildClient, RunFails,
         RunFinishes, CommitSuccess, TimeOut, CommitTimeout, InnerRelease, SetStatus, taskVars,
         TypeOK
<1>4. CASE p \notin Tasks
  BY <1>1, <1>2, <1>3, <1>4, JobKept DEF Runners
<1>5. ASSUME p \in Tasks PROVE JobInv'
  <2>1. job[p] = p
    BY <1>1, <1>5 DEF JobInv
  <2>2. pc'[p] # "idle" => job'[p] = p
    BY <2>1 DEF ProcessStep, InnerAcquire, InnerUndo, Load, Expire, Start, BuildClient, RunFails,
         RunFinishes, CommitSuccess, TimeOut, CommitTimeout, InnerRelease, Goto, Stop, TypeOK
  <2>3. redosLeft[p] = MaxRedos => ~(PastQueued(p)' /\ status'[p] = "queued")
    <3>1. CASE Load(p)
      BY <2>1, <3>1 DEF Load, AfterLoad, PastQueued, Active, taskVars, TypeOK
    <3>2. CASE Start(p)
      <4>1. CASE loaded[p] = "running"
        BY <1>3, <1>5, <3>2, <4>1 DEF Start, PastQueued, JobInv
      <4>2. CASE loaded[p] # "running"
        BY <1>5, <2>1, <3>2, <4>2 DEF Start, SetStatus, TypeOK
      <4> QED BY <4>1, <4>2
    <3>3. CASE BuildClient(p) \/ RunFinishes(p)
      BY <1>3, <1>5, <3>3 DEF BuildClient, RunFinishes, Goto, PastQueued, JobInv
    <3>4. CASE Expire(p) \/ RunFails(p) \/ CommitSuccess(p) \/ CommitTimeout(p)
      BY <1>5, <2>1, <3>4 DEF Expire, RunFails, CommitSuccess, CommitTimeout, SetStatus, TypeOK
    <3>5. CASE InnerAcquire(p) \/ InnerUndo(p) \/ TimeOut(p) \/ InnerRelease(p)
      BY <1>5, <3>5, RunnersAssumption
      DEF InnerAcquire, InnerUndo, TimeOut, InnerRelease, Goto, Stop, PastQueued, TypeOK
    <3> QED BY <3>1, <3>2, <3>3, <3>4, <3>5 DEF ProcessStep
  <2>4. \A t \in Tasks \ {p} : PastQueued(t)' <=> PastQueued(t)
    BY <1>2 DEF PastQueued, Runners
  <2> QED BY <1>1, <1>2, <1>3, <2>2, <2>3, <2>4 DEF JobInv, Runners
<1> QED BY <1>4, <1>5

\* The background job of a task never lets it go as queued unless it has been
\* redone: an admitted task needs neither its stream entry nor a free slot.
THEOREM JobTakesTaskUp == Spec => []JobTakesUp
<1>1. Init => JobInv
  BY DEF Init, JobInv, PastQueued, Runners
<1>2. TypeOK /\ JobAfterCreate /\ JobInv /\ [Next]_vars => JobInv'
  <2> SUFFICES ASSUME TypeOK, JobAfterCreate, JobInv, [Next]_vars PROVE JobInv'
    OBVIOUS
  <2>1. CASE CrashApi
    BY <2>1 DEF CrashApi, JobInv, PastQueued, budget, Runners
  <2>2. ASSUME NEW u \in Users, SlotExpires(u) PROVE JobInv'
    BY <2>2 DEF SlotExpires, taskVars, runnerVars, requestVars, budget, JobInv, PastQueued
  <2>3. CASE UNCHANGED vars
    BY <2>3 DEF vars, taskVars, runnerVars, requestVars, budget, JobInv, PastQueued
  <2> QED BY <2>1, <2>2, <2>3, CreateKeepsJob, RequestKeepsJob, WorkerKeepsJob, ProcessKeepsJob
          DEF Next, Environment
<1>3. TypeOK /\ JobInv => JobTakesUp
  <2> SUFFICES ASSUME TypeOK, JobInv, NEW t \in Tasks, pc[t] = "release", status[t] = "queued"
               PROVE  redosLeft[t] < MaxRedos
    BY DEF JobTakesUp
  <2>1. redosLeft[t] # MaxRedos /\ redosLeft[t] \in 0..MaxRedos
    BY DEF JobInv, PastQueued, TypeOK
  <2> QED BY <2>1, BoundsAssumption
<1> QED BY <1>1, <1>2, <1>3, JobStartsAfterCreate, TypeCorrect, PTL DEF Spec

=============================================================================
