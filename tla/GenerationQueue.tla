--------------------------- MODULE GenerationQueue ---------------------------
(***************************************************************************)
(* The generation queue of the backend: the API handlers that create,      *)
(* cancel and redo a task, the Redis stream that carries task ids, the     *)
(* per-user slot counter, and the runners of process_generation_task: the  *)
(* stand-alone workers and the background job the create handler           *)
(* schedules in the API process.                                           *)
(*                                                                         *)
(* The interleaving points are the awaits of the code: an action is the    *)
(* code between two awaits that touch Redis or the database.  What happens *)
(* inside the ReAct loop is one program counter value here ("react"): none *)
(* of its steps touches the status, the slots or the stream.               *)
(***************************************************************************)
EXTENDS Integers, Sequences, FiniteSets

CONSTANTS
  Tasks,        \* generation tasks that may be created
  Users,        \* their owners
  Owner,        \* Owner[t]: the user that creates t
  Workers,      \* processes running run_worker_loop
  Limit,        \* user_concurrency_limit, and the literal 2 of the other callers
  NoTask,       \* a runner has no task in hand
  MaxCancels,   \* bound: cancel requests per task
  MaxRedos,     \* bound: redo requests per task
  MaxCrashes    \* bound: process deaths in a behaviour

ASSUME OwnerAssumption == Owner \in [Tasks -> Users]
ASSUME LimitAssumption == Limit \in Nat \ {0}
ASSUME RunnersAssumption == Tasks \cap Workers = {} /\ NoTask \notin Tasks
ASSUME FiniteAssumption == IsFiniteSet(Tasks) /\ IsFiniteSet(Workers)
ASSUME BoundsAssumption == {MaxCancels, MaxRedos, MaxCrashes} \subseteq Nat

\* A task id also names the background job the create handler schedules for it.
Runners == Workers \cup Tasks

Status  == {"absent", "queued", "running", "success", "failed", "cancelled"}
Active  == {"queued", "running"}
Settled == {"success", "failed", "cancelled"}

VARIABLES
  status,     \* committed GenerationTask.status; "absent": no committed row
  overdue,    \* tasks whose queue_deadline_at has passed
  stream,     \* entries of the stream not yet delivered to the group
  group,      \* the consumer group exists
  marker,     \* tasks with a cancel:{id} key
  slots,      \* the slot:{user} counters
  pc,         \* where each runner is
  job,        \* the task a runner has in hand
  loaded,     \* the status a runner read when it loaded the task
  create,     \* progress of the create request of each task
  cancel,     \* progress of a cancel request of each task
  redo,       \* progress of a redo request of each task
  redoSaw,    \* the status the redo request read
  leaked,     \* history: slot units held by processes that died
  unpaid,     \* history: runs that went on after a refused acquire
  silent,     \* history: tasks a run of which ended without a word in the row, and why
  cancelsLeft, redosLeft, crashesLeft    \* requests and crashes still allowed

taskVars    == <<status, overdue>>
redisVars   == <<stream, group, marker>>
runnerVars  == <<pc, job, loaded>>
requestVars == <<create, cancel, redo, redoSaw>>
history     == <<leaked, unpaid, silent>>
budget      == <<cancelsLeft, redosLeft, crashesLeft>>
vars == <<taskVars, redisVars, slots, runnerVars, requestVars, history, budget>>

RunnerPc == {"idle", "marker", "outer", "outerUndo", "inner", "innerUndo",
             "load", "expire", "start", "llm", "react", "finish", "timeout",
             "release", "outerRelease"}
CreatePc == {"new", "enqueued", "committed", "gateUndo", "gateHeld", "done"}
RequestPc == {"idle", "loaded", "committed"}

\* How a run may end without a word: its worker or the API process died, or
\* the LLM client could not be built.
SilentEnds == {"worker", "api", "client"}
Silences == Tasks \X SilentEnds

\* One type invariant.  A runner that is not idle has a task in hand, and
\* only the workers visit the steps of run_worker_loop.
TypeOK ==
  /\ status \in [Tasks -> Status]
  /\ overdue \in SUBSET Tasks
  /\ stream \in Seq(Tasks)
  /\ group \in BOOLEAN
  /\ marker \in SUBSET Tasks
  /\ slots \in [Users -> Int]
  /\ pc \in [Runners -> RunnerPc]
  /\ job \in [Runners -> Tasks \cup {NoTask}]
  /\ loaded \in [Runners -> Status]
  /\ \A p \in Runners : pc[p] # "idle" => job[p] \in Tasks
  /\ \A t \in Tasks : pc[t] \notin {"marker", "outer", "outerUndo", "outerRelease"}
  /\ create \in [Tasks -> CreatePc]
  /\ cancel \in [Tasks -> RequestPc]
  /\ redo \in [Tasks -> RequestPc]
  /\ redoSaw \in [Tasks -> Status]
  /\ leaked \in [Users -> Nat]
  /\ unpaid \in [Users -> Nat]
  /\ silent \in SUBSET Silences
  /\ cancelsLeft \in [Tasks -> 0..MaxCancels]
  /\ redosLeft \in [Tasks -> 0..MaxRedos]
  /\ crashesLeft \in 0..MaxCrashes

Init ==
  /\ status = [t \in Tasks |-> "absent"]
  /\ overdue = {}
  /\ stream = <<>>
  /\ group \in BOOLEAN      \* left by an earlier worker, or not yet created
  /\ marker = {}
  /\ slots = [u \in Users |-> 0]
  /\ pc = [p \in Runners |-> "idle"]
  /\ job = [p \in Runners |-> NoTask]
  /\ loaded = [p \in Runners |-> "absent"]
  /\ create = [t \in Tasks |-> "new"]
  /\ cancel = [t \in Tasks |-> "idle"]
  /\ redo = [t \in Tasks |-> "idle"]
  /\ redoSaw = [t \in Tasks |-> "absent"]
  /\ leaked = [u \in Users |-> 0]
  /\ unpaid = [u \in Users |-> 0]
  /\ silent = {}
  /\ cancelsLeft = [t \in Tasks |-> MaxCancels]
  /\ redosLeft = [t \in Tasks |-> MaxRedos]
  /\ crashesLeft = MaxCrashes

-----------------------------------------------------------------------------
\* Redis primitives.

\* XADD.  The entry stays undelivered until a worker reads it.
Enqueue(t) == stream' = Append(stream, t)

\* acquire_user_slot is two commands: INCR, and DECR when the result is over
\* the limit.  Between them every other caller sees the extra unit.
Incr(u) == slots' = [slots EXCEPT ![u] = @ + 1]
Decr(u) == slots' = [slots EXCEPT ![u] = @ - 1]
\* Mutant of Admitted: the limit is one too high.
AdmittedOneMore(u) == slots[u] <= Limit

Admitted(u) == slots[u] < Limit

OwnerOf(p) == Owner[job[p]]

SetStatus(t, s) == status' = [status EXCEPT ![t] = s]

Goto(p, to) == /\ pc' = [pc EXCEPT ![p] = to]
               /\ UNCHANGED <<job, loaded>>

Stop(p) == /\ pc' = [pc EXCEPT ![p] = "idle"]
           /\ job' = [job EXCEPT ![p] = NoTask]
           /\ loaded' = [loaded EXCEPT ![p] = "absent"]

-----------------------------------------------------------------------------
\* POST /generations.

\* The row is flushed but not committed when the id is put on the stream.
CreateEnqueue(t) ==
  /\ create[t] = "new"
  /\ create' = [create EXCEPT ![t] = "enqueued"]
  /\ Enqueue(t)
  /\ UNCHANGED <<taskVars, group, marker, slots, runnerVars, cancel, redo, redoSaw, history, budget>>

CreateCommit(t) ==
  /\ create[t] = "enqueued"
  /\ create' = [create EXCEPT ![t] = "committed"]
  /\ SetStatus(t, "queued")
  /\ UNCHANGED <<overdue, redisVars, slots, runnerVars, cancel, redo, redoSaw, history, budget>>

CreateGate(t) ==
  /\ create[t] = "committed"
  /\ create' = [create EXCEPT ![t] = IF Admitted(Owner[t]) THEN "gateHeld" ELSE "gateUndo"]
  /\ Incr(Owner[t])
  /\ UNCHANGED <<taskVars, redisVars, runnerVars, cancel, redo, redoSaw, history, budget>>

\* The gate is full: the caller is told the task waits in the queue.
CreateGateUndo(t) ==
  /\ create[t] = "gateUndo"
  /\ create' = [create EXCEPT ![t] = "done"]
  /\ Decr(Owner[t])
  /\ UNCHANGED <<taskVars, redisVars, runnerVars, cancel, redo, redoSaw, history, budget>>

\* Mutant of CreateSchedule: the slot is not given back.
CreateScheduleKeepsSlot(t) ==
  /\ create[t] = "gateHeld"
  /\ create' = [create EXCEPT ![t] = "done"]
  /\ pc' = [pc EXCEPT ![t] = "inner"]
  /\ job' = [job EXCEPT ![t] = t]
  /\ UNCHANGED <<taskVars, redisVars, slots, loaded, cancel, redo, redoSaw, history, budget>>

\* The gate is open: the background job is scheduled and the slot given back
\* at once; the job starts when the response has been sent.
CreateSchedule(t) ==
  /\ create[t] = "gateHeld"
  /\ create' = [create EXCEPT ![t] = "done"]
  /\ Decr(Owner[t])
  /\ pc' = [pc EXCEPT ![t] = "inner"]
  /\ job' = [job EXCEPT ![t] = t]
  /\ UNCHANGED <<taskVars, redisVars, loaded, cancel, redo, redoSaw, history, budget>>

-----------------------------------------------------------------------------
\* DELETE /generations/{id}.

\* Only an active task passes the status check; the others are no-ops.
CancelLoad(t) ==
  /\ cancel[t] = "idle"
  /\ cancelsLeft[t] > 0
  /\ status[t] \in Active
  /\ cancel' = [cancel EXCEPT ![t] = "loaded"]
  /\ cancelsLeft' = [cancelsLeft EXCEPT ![t] = @ - 1]
  /\ UNCHANGED <<taskVars, redisVars, slots, runnerVars, create, redo, redoSaw, history,
                 redosLeft, crashesLeft>>

\* The status the request read is not read again: whatever a runner has
\* committed since is overwritten.
CancelCommit(t) ==
  /\ cancel[t] = "loaded"
  /\ cancel' = [cancel EXCEPT ![t] = "committed"]
  /\ SetStatus(t, "cancelled")
  /\ UNCHANGED <<overdue, redisVars, slots, runnerVars, create, redo, redoSaw, history, budget>>

CancelMark(t) ==
  /\ cancel[t] = "committed"
  /\ cancel' = [cancel EXCEPT ![t] = "idle"]
  /\ marker' = marker \cup {t}
  /\ UNCHANGED <<taskVars, stream, group, slots, runnerVars, create, redo, redoSaw, history, budget>>

-----------------------------------------------------------------------------
\* POST /traces/{id}/stages/{stage}/redo.

\* Any committed task may be redone, whatever its status.
RedoLoad(t) ==
  /\ redo[t] = "idle"
  /\ redosLeft[t] > 0
  /\ status[t] # "absent"
  /\ redo' = [redo EXCEPT ![t] = "loaded"]
  /\ redoSaw' = [redoSaw EXCEPT ![t] = status[t]]
  /\ redosLeft' = [redosLeft EXCEPT ![t] = @ - 1]
  /\ UNCHANGED <<taskVars, redisVars, slots, runnerVars, create, cancel, history,
                 cancelsLeft, crashesLeft>>

\* The session writes the status only if it differs from the one it read.
\* queue_deadline_at and the cancel marker are left as they are.
RedoCommit(t) ==
  /\ redo[t] = "loaded"
  /\ redo' = [redo EXCEPT ![t] = "committed"]
  /\ redoSaw' = [redoSaw EXCEPT ![t] = "absent"]
  /\ IF redoSaw[t] = "queued" THEN UNCHANGED status ELSE SetStatus(t, "queued")
  /\ UNCHANGED <<overdue, redisVars, slots, runnerVars, create, cancel, history, budget>>

RedoEnqueue(t) ==
  /\ redo[t] = "committed"
  /\ redo' = [redo EXCEPT ![t] = "idle"]
  /\ Enqueue(t)
  /\ UNCHANGED <<taskVars, group, marker, slots, runnerVars, create, cancel, redoSaw, history, budget>>

-----------------------------------------------------------------------------
\* run_worker_loop.

\* The first worker creates the group at "$": entries already on the stream
\* are never delivered to it.
CreateGroup(w) ==
  /\ pc[w] = "idle"
  /\ ~group
  /\ group' = TRUE
  /\ stream' = <<>>
  /\ UNCHANGED <<taskVars, marker, slots, runnerVars, requestVars, history, budget>>

\* The entry is acknowledged as soon as it is read.
Dequeue(w) ==
  /\ pc[w] = "idle"
  /\ group
  /\ stream # <<>>
  /\ stream' = Tail(stream)
  /\ pc' = [pc EXCEPT ![w] = "marker"]
  /\ job' = [job EXCEPT ![w] = Head(stream)]
  /\ UNCHANGED <<taskVars, group, marker, slots, loaded, requestVars, history, budget>>

CheckMarker(w) ==
  /\ pc[w] = "marker"
  /\ \/ job[w] \in marker /\ Stop(w)
     \/ job[w] \notin marker /\ Goto(w, "outer")
  /\ UNCHANGED <<taskVars, redisVars, slots, requestVars, history, budget>>

OuterAcquire(w) ==
  /\ pc[w] = "outer"
  /\ Incr(OwnerOf(w))
  /\ Goto(w, IF Admitted(OwnerOf(w)) THEN "inner" ELSE "outerUndo")
  /\ UNCHANGED <<taskVars, redisVars, requestVars, history, budget>>

\* Mutant of OuterUndo: the unit taken above the limit is kept.
OuterUndoKeepsSlot(w) ==
  /\ pc[w] = "outerUndo"
  /\ Stop(w)
  /\ UNCHANGED <<taskVars, redisVars, slots, requestVars, history, budget>>

\* The gate is full: the worker drops the entry it has acknowledged.
OuterUndo(w) ==
  /\ pc[w] = "outerUndo"
  /\ Decr(OwnerOf(w))
  /\ Stop(w)
  /\ UNCHANGED <<taskVars, redisVars, requestVars, history, budget>>

OuterRelease(w) ==
  /\ pc[w] = "outerRelease"
  /\ Decr(OwnerOf(w))
  /\ Stop(w)
  /\ UNCHANGED <<taskVars, redisVars, requestVars, history, budget>>

-----------------------------------------------------------------------------
\* process_generation_task, the same code for a worker and a background job.

\* The result of this acquire is ignored.
InnerAcquire(p) ==
  /\ pc[p] = "inner"
  /\ Incr(OwnerOf(p))
  /\ Goto(p, IF Admitted(OwnerOf(p)) THEN "load" ELSE "innerUndo")
  /\ UNCHANGED <<taskVars, redisVars, requestVars, history, budget>>

\* Mutant of InnerUndo: a refused runner gives up.
InnerUndoGivesUp(p) ==
  /\ pc[p] = "innerUndo"
  /\ Decr(OwnerOf(p))
  /\ Goto(p, "release")
  /\ UNCHANGED <<taskVars, redisVars, requestVars, history, budget>>

\* Refused or not, the run goes on.
InnerUndo(p) ==
  /\ pc[p] = "innerUndo"
  /\ Decr(OwnerOf(p))
  /\ unpaid' = [unpaid EXCEPT ![OwnerOf(p)] = @ + 1]
  /\ Goto(p, "load")
  /\ UNCHANGED <<taskVars, redisVars, requestVars, leaked, silent, budget>>

\* Mutant of AfterLoad: the status is not checked.
AfterLoadUnchecked(t) ==
  IF status[t] = "absent" THEN "release"
  ELSE IF t \in overdue THEN "expire" ELSE "start"

\* What the task just loaded calls for.
AfterLoad(t) ==
  IF status[t] \notin Active THEN "release"
  ELSE IF t \in overdue THEN "expire" ELSE "start"

Load(p) ==
  /\ pc[p] = "load"
  /\ loaded' = [loaded EXCEPT ![p] = status[job[p]]]
  /\ pc' = [pc EXCEPT ![p] = AfterLoad(job[p])]
  /\ UNCHANGED <<taskVars, redisVars, slots, job, requestVars, history, budget>>

Expire(p) ==
  /\ pc[p] = "expire"
  /\ SetStatus(job[p], "cancelled")
  /\ Goto(p, "release")
  /\ UNCHANGED <<overdue, redisVars, slots, requestVars, history, budget>>

\* OrchestratorAgent.run: the session writes "running" unless it loaded it.
Start(p) ==
  /\ pc[p] = "start"
  /\ IF loaded[p] = "running" THEN UNCHANGED status ELSE SetStatus(job[p], "running")
  /\ loaded' = [loaded EXCEPT ![p] = "running"]
  /\ pc' = [pc EXCEPT ![p] = "llm"]
  /\ UNCHANGED <<overdue, redisVars, slots, job, requestVars, history, budget>>

\* The LLM client is built outside any try of the orchestrator, before the loop
\* and again when _finalize has to package the slides itself: an error there,
\* or in announcing the result, reaches process_generation_task, which logs it.
BuildClient(p) ==
  /\ \/ pc[p] = "llm" /\ Goto(p, "react") /\ UNCHANGED silent
     \/ pc[p] \in {"llm", "react"} /\ Goto(p, "release") /\ silent' = silent \cup {<<job[p], "client">>}
  /\ UNCHANGED <<taskVars, redisVars, slots, requestVars, leaked, unpaid, budget>>

\* The loop raised, rendered nothing, or packaging failed.
RunFails(p) ==
  /\ pc[p] = "react"
  /\ SetStatus(job[p], "failed")
  /\ Goto(p, "release")
  /\ UNCHANGED <<overdue, redisVars, slots, requestVars, history, budget>>

\* The deck is packaged; "success" is set in memory and announced.  Any runner
\* may get here: that packaging needs a client of the object store, which a
\* worker does not have, is the business of DeckRun.
RunFinishes(p) ==
  /\ pc[p] = "react"
  /\ Goto(p, "finish")
  /\ UNCHANGED <<taskVars, redisVars, slots, requestVars, history, budget>>

CommitSuccess(p) ==
  /\ pc[p] = "finish"
  /\ SetStatus(job[p], "success")
  /\ Goto(p, "release")
  /\ UNCHANGED <<overdue, redisVars, slots, requestVars, history, budget>>

\* asyncio.wait_for cancels the run wherever it is; what it had not
\* committed is lost with its session.
TimeOut(p) ==
  /\ pc[p] \in {"start", "llm", "react", "finish"}
  /\ Goto(p, "timeout")
  /\ UNCHANGED <<taskVars, redisVars, slots, requestVars, history, budget>>

\* Mutant of CommitTimeout: the write is lost with the cancelled session.
CommitTimeoutLost(p) ==
  /\ pc[p] = "timeout"
  /\ Goto(p, "release")
  /\ UNCHANGED <<taskVars, redisVars, slots, requestVars, history, budget>>

\* A new session reads the task and marks it failed.
CommitTimeout(p) ==
  /\ pc[p] = "timeout"
  /\ SetStatus(job[p], "failed")
  /\ Goto(p, "release")
  /\ UNCHANGED <<overdue, redisVars, slots, requestVars, history, budget>>

\* Mutant of InnerRelease: a background job runs the worker's clean-up.
InnerReleaseAsWorker(p) ==
  /\ pc[p] = "release"
  /\ Decr(OwnerOf(p))
  /\ Goto(p, "outerRelease")
  /\ UNCHANGED <<taskVars, redisVars, requestVars, history, budget>>

\* The finally clause releases whether or not the acquire was granted.
InnerRelease(p) ==
  /\ pc[p] = "release"
  /\ Decr(OwnerOf(p))
  /\ \/ p \in Workers /\ Goto(p, "outerRelease")
     \/ p \in Tasks /\ Stop(p)
  /\ UNCHANGED <<taskVars, redisVars, requestVars, history, budget>>

-----------------------------------------------------------------------------
\* Slot units a process owes the counter.  A runner inside
\* process_generation_task owes one whether its acquire was granted or not.

HoldsOuter(w) == pc[w] \notin {"idle", "marker", "outer"}
HoldsInner(p) == pc[p] \notin {"idle", "marker", "outer", "outerUndo", "inner", "outerRelease"}

OuterHolders(u)  == {w \in Workers : HoldsOuter(w) /\ OwnerOf(w) = u}
WorkerHolders(u) == {w \in Workers : HoldsInner(w) /\ OwnerOf(w) = u}
JobHolders(u)    == {t \in Tasks : HoldsInner(t) /\ OwnerOf(t) = u}
CreateHolders(u) == {t \in Tasks : create[t] \in {"gateUndo", "gateHeld"} /\ Owner[t] = u}

\* Between the read of an active task and the last write of its status.
ClaimPc == {"expire", "start", "llm", "react", "finish", "timeout"}

\* The tasks some runners are at work on.
WorkOf(P) == {job[p] : p \in {q \in P : pc[q] \in ClaimPc}}

\* The environment: time, key expiry and process deaths.

DeadlinePasses(t) ==
  /\ status[t] # "absent"
  /\ t \notin overdue
  /\ overdue' = overdue \cup {t}
  /\ UNCHANGED <<status, redisVars, slots, runnerVars, requestVars, history, budget>>

MarkerExpires(t) ==
  /\ t \in marker
  /\ marker' = marker \ {t}
  /\ UNCHANGED <<taskVars, stream, group, slots, runnerVars, requestVars, history, budget>>

\* The key lives 1800 s after the last granted acquire, longer than any run,
\* and every run starts right after a granted one: no holder is left.
SlotExpires(u) ==
  /\ slots[u] # 0
  /\ OuterHolders(u) \cup WorkerHolders(u) \cup JobHolders(u) \cup CreateHolders(u) = {}
  /\ slots' = [slots EXCEPT ![u] = 0]
  /\ leaked' = [leaked EXCEPT ![u] = 0]
  /\ unpaid' = [unpaid EXCEPT ![u] = 0]
  /\ UNCHANGED <<taskVars, redisVars, runnerVars, requestVars, silent, budget>>

\* A worker dies and is started again: its entry is acknowledged, hence gone,
\* and its slot units are not given back.
CrashWorker(w) ==
  /\ pc[w] # "idle"
  /\ crashesLeft > 0
  /\ crashesLeft' = crashesLeft - 1
  /\ leaked' = [leaked EXCEPT ![OwnerOf(w)] =
                  @ + (IF HoldsOuter(w) THEN 1 ELSE 0) + (IF HoldsInner(w) THEN 1 ELSE 0)]
  /\ silent' = silent \cup (WorkOf({w}) \X {"worker"})
  /\ Stop(w)
  /\ UNCHANGED <<taskVars, redisVars, slots, requestVars, unpaid, cancelsLeft, redosLeft>>

\* The API process dies with its requests and background jobs.  A create
\* that had not committed leaves no row behind, but its entry is on the stream.
CrashApi ==
  /\ crashesLeft > 0
  /\ \E t \in Tasks : \/ pc[t] # "idle" \/ create[t] \notin {"new", "done"}
                      \/ cancel[t] # "idle" \/ redo[t] # "idle"
  /\ crashesLeft' = crashesLeft - 1
  /\ leaked' = [u \in Users |->
                  leaked[u] + Cardinality(JobHolders(u)) + Cardinality(CreateHolders(u))]
  /\ silent' = silent \cup (WorkOf(Tasks) \X {"api"})
  /\ pc' = [p \in Runners |-> IF p \in Tasks THEN "idle" ELSE pc[p]]
  /\ job' = [p \in Runners |-> IF p \in Tasks THEN NoTask ELSE job[p]]
  /\ loaded' = [p \in Runners |-> IF p \in Tasks THEN "absent" ELSE loaded[p]]
  /\ create' = [t \in Tasks |-> IF create[t] = "new" THEN "new" ELSE "done"]
  /\ cancel' = [t \in Tasks |-> "idle"]
  /\ redo' = [t \in Tasks |-> "idle"]
  /\ redoSaw' = [t \in Tasks |-> "absent"]
  /\ UNCHANGED <<taskVars, redisVars, slots, unpaid, cancelsLeft, redosLeft>>

-----------------------------------------------------------------------------
\* The rest of a request that has begun.
CreateStep(t) == CreateCommit(t) \/ CreateGate(t) \/ CreateGateUndo(t) \/ CreateSchedule(t)
CancelStep(t) == CancelCommit(t) \/ CancelMark(t)
RedoStep(t)   == RedoCommit(t) \/ RedoEnqueue(t)

WorkerStep(w) == \/ CreateGroup(w) \/ Dequeue(w) \/ CheckMarker(w)
                 \/ OuterAcquire(w) \/ OuterUndo(w) \/ OuterRelease(w)

ProcessStep(p) ==
  \/ InnerAcquire(p) \/ InnerUndo(p) \/ Load(p) \/ Expire(p) \/ Start(p)
  \/ BuildClient(p) \/ RunFails(p) \/ RunFinishes(p) \/ CommitSuccess(p)
  \/ TimeOut(p) \/ CommitTimeout(p) \/ InnerRelease(p)

Environment ==
  \/ \E t \in Tasks : DeadlinePasses(t) \/ MarkerExpires(t)
  \/ \E u \in Users : SlotExpires(u)
  \/ \E w \in Workers : CrashWorker(w)
  \/ CrashApi

Next ==
  \/ \E t \in Tasks : CreateEnqueue(t) \/ CreateStep(t)
  \/ \E t \in Tasks : CancelLoad(t) \/ CancelStep(t)
  \/ \E t \in Tasks : RedoLoad(t) \/ RedoStep(t)
  \/ \E w \in Workers : WorkerStep(w)
  \/ \E p \in Runners : ProcessStep(p)
  \/ Environment

Spec == Init /\ [][Next]_vars

\* The event loops run on: a request that has begun, a worker and a runner
\* are never suspended for ever.  Nothing makes a user send a request, a
\* deadline pass or a key expire.
Fairness ==
  /\ \A t \in Tasks : WF_vars(CreateStep(t)) /\ WF_vars(CancelStep(t)) /\ WF_vars(RedoStep(t))
  /\ \A w \in Workers : WF_vars(WorkerStep(w))
  /\ \A p \in Runners : WF_vars(ProcessStep(p))

FairSpec == Spec /\ Fairness

-----------------------------------------------------------------------------
\* Properties.

\* Callers of acquire_user_slot between their INCR and their DECR.
UndoingRunners(u) == {p \in Runners : pc[p] \in {"outerUndo", "innerUndo"} /\ OwnerOf(p) = u}
UndoingCreates(u) == {t \in Tasks : create[t] = "gateUndo" /\ Owner[t] = u}

\* The counter of a user exceeds the limit only by the callers that are about
\* to take their unit back and the units dead processes never gave back: no
\* interleaving of INCR, DECR and release grants a slot above the limit.
CounterWithinLimit ==
  \A u \in Users :
    slots[u] <= Limit + Cardinality(UndoingRunners(u)) + Cardinality(UndoingCreates(u))
                + leaked[u]

\* The units processes owe the counter of a user, the dead ones included.
Owed(u) == Cardinality(OuterHolders(u)) + Cardinality(WorkerHolders(u))
           + Cardinality(JobHolders(u)) + Cardinality(CreateHolders(u)) + leaked[u]

\* The counter falls short of what is owed by exactly the runs that went on
\* after a refused acquire: each of them takes its unit back twice, in
\* acquire_user_slot and in the finally clause (worker.py:59 and :119).  No other
\* step, death or expiry makes the counter drift: no unit is kept that nobody
\* owes, which would lock an idle user out.
CounterExact == \A u \in Users : slots[u] = Owed(u) - unpaid[u]

\* A runner holds a claim on the task it loaded as active until it finishes
\* with it, a cancel request until it has committed.
RunnersOn(t) == {p \in Runners : job[p] = t /\ pc[p] \in ClaimPc}
ClaimsOn(t) == (RunnersOn(t) \X {"run"}) \cup
               (IF cancel[t] = "loaded" THEN {<<t, "cancel">>} ELSE {})

Lifecycle == INSTANCE TaskLifecycle WITH
  Agents <- (Runners \X {"run"}) \cup (Tasks \X {"cancel"}),
  claims <- [t \in Tasks |-> ClaimsOn(t)]

\* The queue implements the abstract lifecycle: whoever writes a status read
\* the task as active before, and a settled task nobody still works on stays
\* settled until it is redone, whichever messages arrive late or twice.
RefinesLifecycle == Lifecycle!Spec

\* In particular a late or repeated message never takes up a settled task
\* that no runner and no cancel request had read as active.
SettledIsStable == Lifecycle!SettledIsStable

Crashed == crashesLeft < MaxCrashes

\* A task the create handler admitted through the gate leaves the status
\* queued even if its stream entry is read too early, dropped at a full gate
\* or never delivered: the background job takes it up.
AdmittedIsPickedUp ==
  \A t \in Tasks : (create[t] = "gateHeld" /\ status[t] = "queued")
                     ~> (status[t] # "queued" \/ Crashed)

\* A run that announced its result, or that the time limit cut short wherever
\* it was, leaves the task settled.
RunSettles ==
  \A p \in Runners, t \in Tasks :
    (pc[p] \in {"finish", "timeout"} /\ job[p] = t) ~> (status[t] \in Settled \/ Crashed)

\* The tasks of a user that are being generated.
RunningTasks(u) == {t \in Tasks : Owner[t] = u /\ \E p \in RunnersOn(t) : pc[p] \in {"llm", "react"}}

\* The ignored answer is the only way past the limit: as long as no run of a
\* user went on after a refused acquire, no more tasks of that user are generated
\* at a time than the limit allows, deaths and leaks included (worker.py:59).
LimitUnlessUnpaid ==
  \A u \in Users : unpaid[u] = 0 => Cardinality(RunningTasks(u)) <= Limit

\* How runs of a task have ended without a word.
EndsOf(t) == {e \in SilentEnds : <<t, e>> \in silent}

\* A task is left running by nobody only after a run of it died or could not
\* build its client: no time-out, cancellation, late delivery or redo leaves one
\* behind (worker.py:98-119).
RunningHasRunner ==
  \A t \in Tasks : status[t] = "running" /\ EndsOf(t) = {} => RunnersOn(t) # {}

\* The background job of a task never lets it go as queued, refused acquire or
\* not, unless the task has been redone meanwhile: what an admitted task is
\* promised needs no stream entry (worker.py:59-97).
JobTakesUp ==
  \A t \in Tasks : pc[t] = "release" /\ status[t] = "queued" => redosLeft[t] < MaxRedos

\* What the documents promise and the code does not do.

\* FR-029: at most two tasks of a user are generated at the same time.
AtMostLimitRunning == \A u \in Users : Cardinality(RunningTasks(u)) <= Limit

\* FR-003: once a cancellation is committed only a redo revives the task.
CancelledStays ==
  [][\A t \in Tasks : status[t] = "cancelled" => status'[t] \in {"cancelled", "queued"}]_status

\* REACT_REFACTOR FAQ: the task of a worker that died half way is marked failed,
\* so it does not stay running when nobody works on it any more.
AbandonedLeavesRunning ==
  \A t \in Tasks : (status[t] = "running" /\ RunnersOn(t) = {} /\ EndsOf(t) = {"worker"})
                     ~> (status[t] # "running")

\* redo.py: a redo enqueues the task so that the worker picks it up.
RedoIsPickedUp ==
  \A t \in Tasks : (redo[t] = "committed" /\ group /\ status[t] = "queued")
                     ~> (status[t] # "queued")

=============================================================================
