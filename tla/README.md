# TLA+ models of PPT Agent

PPT Agent turns a prompt into a slide deck: a FastAPI backend queues a generation task in
Redis, a worker or a background job of the API process runs an LLM agent that renders
slides, packages them into a PPTX file and stores it. The directory holds TLA+ models
of the backend's control logic, TLC configurations and TLAPS proofs. Paths below are
relative to `src/backend/src/` unless they start with `src/`.

`PROJECT.json` lists components, runs, mutants, the map from definitions to source lines,
findings, hazards and theorems. To run a configuration:
`tlc -config QueueSafety.cfg MCGenerationQueue.tla`; to check proofs: `tlapm DeckRunProofs.tla`.

## 1. Inventory

| Component | State it keeps | Operations | Status |
|---|---|---|---|
| Generation API (`api/generations.py`) | task rows (Postgres) | create, get, cancel, download | modelled |
| Queue and slots (`scheduler/queue.py`) | stream `stream:generation:tasks`, group `workers`, `cancel:{id}` markers, `slot:{user}` counters, rate-limit buckets | enqueue, dequeue+ack, mark cancelled, acquire, release, rate limit, pub/sub | partly: no trimming, no rate limit, no pub/sub |
| Worker process (`scheduler/run_worker.py`) | none but the entry in hand | loop: dequeue, marker, slot, process | modelled |
| Task runner (`scheduler/worker.py`) | a database session | load, expire, run under a time limit, clean up | modelled |
| Redo (`services/generation/redo.py`) | trace stages, task row | reset stages, requeue | partly: no trace stages |
| Orchestrator (`agents/orchestrator.py`) | task row in its session | mark running, loop, finalize, auto-package, fail | modelled |
| Agent tools (`agents/agent_tools.py`) | `rendered_slides` checkpoint, token count | plan, points, render batch, redo slide, package, query, bill | partly: no stages, no events |
| ReAct loop, LLM adapter (`integrations/agentscope_compat.py`, `agents/llm_adapter.py`) | message list, step number | ask the LLM, dispatch a tool, stop | partly: no text parsing |
| Deck storage (`tools/pptx_renderer.py`, `storage/minio.py`) | object `results/{task}.pptx` | render, put | partly: content only |
| LLM client (`services/generation/llm_client.py`) | usage counter | post with retry, count tokens, read the user's credential | partly: no vision calls |
| Drafts (`services/draft/`, `api/drafts.py`) | draft, slides, editor lock, revision | update, insert, delete, lock, unlock | partly: no slide texts |
| Draft export (`services/export/`) | export job | create, run | not modelled: never gets started (section 5) |
| Idempotency (`middleware/idempotency.py`) | stored responses | prune, look up, replay, process, store | modelled |
| Credentials (`api/credentials.py`) | default flag per provider | create, update, delete | modelled |
| Sessions, authentication (`db/session.py`, `core/security.py`) | a transaction per request | begin, commit after the response, roll back; refuse | partly: refusal as one outcome |
| Samples and knowledge base | samples, chunks, embeddings | upload, parse, index | not modelled |
| Material library, search, preferences, scoring | assets, weights | import, query, score | not modelled |
| Data lifecycle, cron | deletion dates | export, delete, archive | not modelled |
| WebSocket relay, PII, observability | subscriptions | relay, redact, log | not modelled |
| Rendering engine, web client, vendored AgentScope, migrations | - | - | not modelled |

### How they interact

- *Create.* The handler flushes the row, puts the id on the stream, and only then commits. It
  takes a slot as a gate; if it gets one it schedules `process_generation_task` as a background
  job **and gives the slot back**. The entry on the stream stays, so a worker
  normally gets the same task as well.
- *Worker.* It acknowledges an entry when it reads it, drops it when the cancel marker is set or
  the gate is full, else calls `process_generation_task` between an acquire and a release.
- *Runner.* `process_generation_task` takes a slot (ignoring the answer), reads the row once,
  runs the orchestrator on that copy under `asyncio.wait_for`, and releases the slot in all cases.
- *Run.* The LLM chooses the tools. Each render batch is merged into the slide list the session
  holds and the whole list is committed. `_finalize` packages the slides unless the row has
  a result path, then commits success.
- *Render batch.* `render_svg_batch` makes one LLM call per page, all at once, behind a semaphore of
  its own. All calls of a run, the reasoning calls of the loop included, go through one `LLMClient`, which
  counts their tokens until a tool drains the count into the row.
- *Drafts.* A request reads the draft at one await and writes it at a later one, from a session of its own,
  without a row lock or a version check by the database.
- *Write requests.* The idempotency middleware wraps the handler: it looks a key up in one session, runs the
  handler, whose session commits after the response has left the application, and stores the
  response in a third session, concurrently with that commit.
- *Cancel* and *redo* write the row from their own sessions, then the marker or the stream.
- Rows are shared through Postgres only. Sessions are created with
  `expire_on_commit=False` and nobody refreshes: each works on the copy it read, and SQLAlchemy
  writes only the attributes that differ from what it loaded. There is no row lock
  and no version column on tasks.

### What is hard

Two runners on one task; writes from stale copies; lost and late stream entries; a counter
kept by INCR/DECR pairs with unconditional releases; process deaths between any two awaits; a
time limit that may cancel a run anywhere; redo of a task that is still being worked on. The full
list, line by line, is under `hazards` in `PROJECT.json`.

What makes the components right:

- *Queue and slots:* no slot above the limit, no unit without an owner, a task that was admitted is taken
  up, a settled task stays settled.
- *Runs:* the checkpoint only grows, success stands for a stored deck that is the
  checkpoint, a run that has announced its result or timed out is settled.
- *Render batch:* calls in flight stay within the semaphore, pictures of a batch are stored together, every
  token is accounted for, every call ends.
- *Drafts:* no blind overwrite, slide orders stay distinct, a held lock has an end, a deletion is final.
- *Idempotency and credentials:* an answered attempt is not repeated; a replay returns what was stored for the same
  body; who was told of a success finds it committed; one default per provider.

## 2. Modules

| Module | Models | Checked by |
|---|---|---|
| `GenerationQueue` | create/cancel/redo handlers, stream, slots, workers, background jobs | `MCGenerationQueue` with `Queue*.cfg` |
| `TaskLifecycle` | abstract: who may write a task's status | as `RefinesLifecycle` of `GenerationQueue` and `FollowsLifecycle` of `DeckRun` |
| `DeckRun` | the runs of one task: loop, checkpoint, deck, path, redo | `MCDeckRun` with `Deck*.cfg` |
| `RenderBatch` | the LLM calls of a run: retries, semaphore, checkpoint, billing | itself with `BatchSafety.cfg` |
| `DraftEditing` | one draft, edited from several tabs | `MCDraftEditing` with `DraftSafety.cfg` |
| `RequestReplay` | idempotency middleware around the credential handlers | `MCRequestReplay` with `ReplaySafety.cfg` |
| `KeyRegister` | abstract: what a table of keys promises | as `RefinesRegister` of `RequestReplay` |
| `GenerationQueueProofs` | typing, the exact account of the slots | TLAPS |
| `GateProofs` | the counter and the running tasks against the limit | TLAPS |
| `LifecycleProofs` | refinement of `TaskLifecycle`, who is at work on a task | TLAPS |
| `DeckRunProofs` | typing, checkpoint, deck, packaging, the steps of `TaskLifecycle` | TLAPS |
| `RenderBatchProofs` | permits, calls in flight and waiting, tokens, whole batches | TLAPS |
| `DraftEditingProofs` | revision, orders, lock, deletion | TLAPS |
| `RequestReplayProofs` | replays, successes told, refinement of `KeyRegister`, defaults | TLAPS |

### GenerationQueue

An action is the code between two awaits that touch Redis or the database. A runner is a
worker or the background job of a task (named by the task id); both go through
`process_generation_task`, the program counter values `inner` ... `release`; only workers
visit `marker`, `outer`, `outerUndo` and `outerRelease` of `run_worker_loop`.

| Code | Actions |
|---|---|
| `create_generation` | `CreateEnqueue`, `CreateCommit`, `CreateGate`, `CreateGateUndo` or `CreateSchedule` |
| `cancel_generation` | `CancelLoad`, `CancelCommit`, `CancelMark` |
| `redo_stage` | `RedoLoad`, `RedoCommit`, `RedoEnqueue` |
| `dequeue_generation_task` | `CreateGroup` (at `$`), `Dequeue` (read and ack) |
| `run_worker_loop` | `CheckMarker`, `OuterAcquire`, `OuterUndo`, `OuterRelease` |
| `process_generation_task` | `InnerAcquire`, `InnerUndo`, `Load`, `Expire`, `TimeOut`, `CommitTimeout`, `InnerRelease` |
| `OrchestratorAgent` | `Start`, `BuildClient`, `RunFails`, `RunFinishes`, `CommitSuccess` |
| time, TTLs, deaths | `DeadlinePasses`, `MarkerExpires`, `SlotExpires`, `CrashWorker`, `CrashApi` |

`Incr` and `Decr` are separate steps, as the two Redis commands of `acquire_user_slot` are. `Start` and
`RedoCommit` write the status only when it differs from what their session loaded.

Three history variables keep what the properties speak of and no code can see. `leaked`: units of processes that
died. `unpaid`: runs that went on after `acquire_user_slot` had refused them (`InnerUndo`), each of which
makes the counter one too low, as its `finally` releases a unit it was never granted. `silent`: which tasks
had a run that ended without a word in the row, and how: with the worker, with the API process, or by an error while its
LLM client was built.

Abstractions, all named in comments: the ReAct loop is the one place `react` (`DeckRun` has its steps);
the read and the write of the time-out handler are one step; a commit either takes
effect or is cut short, never both (a cancellation that arrives while the
database applies a commit counts as one of the two); database errors are not modelled, Redis errors
only as deaths; a slot key expires only when nobody holds a unit of it, because
its life of 1800 s starts at a granted acquire right before each run and no run lasts that
long; queue positions, stages, events, titles and token counts are left out, and so is `archived`,
which only the cron job sets and no process starts it.

### TaskLifecycle

An agent (a runner, or a cancel request) may write the status only while it holds a claim, obtained by
reading the task as queued or running. Claims are neither exclusive nor revoked: this is
exactly as much as the code promises. The refinement maps the claims to the runners that have
loaded the task and are between `expire`/`start` and the final write, and to the cancel
requests between load and commit.

`DeckRun` takes the same steps: there the one task's claims are the runs that are not idle and the cancel
requests in flight. What goes on inside a run is a stutter, its end an `Abandon` or a `Settle`.

### DeckRun

One task, any number of workers, the background job. A deck is a function from pages to the number of
the render call that made the slide (0: missing). `held` and `heldPath` are the session's copy of
`rendered_slides` and `result_pptx_path`.

| Code | Actions |
|---|---|
| stream entry or background task, row read, deadline | `Load`, `Expire` |
| `OrchestratorAgent.run` up to the loop | `Start`, `ClientFails` |
| `ReActAgent.invoke` and the tools | `CallOther`, `CallRender`+`Persist`, `CallPackage`, `Finish`, `LoopFails` |
| `_finalize`, `_auto_package`, `_fail` | `NothingRendered`, `AutoPackage`, `AutoPackageFails`, `AlreadyPackaged`, `CommitSuccess`, `ClientFails` |
| `asyncio.wait_for`, its handler | `TimeOut`, `CommitTimeout` |
| cancel, redo, process death | `CancelLoad`, `CancelCommit`, `Redo`, `CrashWorker`, `CrashApi` |

The LLM is arbitrary: any tool in any order, any set of pages, and any slides for
`package_pptx`. A picture made by the fallback of a failed rendering is a content like any other. `CanStore`:
only the API process calls `init_minio` (`core/lifespan.py:33`), `run_worker.py:38-39` does not, and
`get_minio` raises without it, so uploads succeed only in the background job. The
entry may never be delivered (no fairness), which covers gates and lost entries. A cancel request reads the
row and writes it later, so it may overwrite a success; cancel requests differ in nothing and are counted. A death of
the API takes the background job, whether it runs or is still to start, and the cancel requests with it.

### RenderBatch

One run again, seen from its LLM calls. `DeckRun` takes a render call for two steps, `CallRender` and
`Persist`; here are the steps in between. A call has a place of its own per batch and page, because calls may outlive
their batch: `asyncio.gather` is called with `return_exceptions=False`, so a call that raises
(null content reaches `_strip_code_fences` outside the `try`) ends the tool at once, the loop turns the error into
an observation, and the other calls run on with nobody waiting, sharing the client and its count with the next batch.

| Code | Actions |
|---|---|
| reasoning calls, `plan_outline`, `enrich_points` | `Complete` (tokens stay in the client), `Plan` (drained) |
| `render_svg_batch`, `redo_slide` | `StartBatch`, `Enter`, `Persist`, `ToolRaises` |
| `_post_with_retry`, `complete` | `Enter`/`Wake` (a request), `Answer`, `Refused`, `Transient` |
| `bill_tokens`, `_persist_rendered_slides` | `Persist` (drain and first commit), `ChargeEstimate` (second) |
| end of the run, `asyncio.wait_for` | `Over` |

Tokens are counted only for an answer with choices, as in the code, and `reported` is the sum of those. Left out:
commits that fail, two slides of one order in a batch, the session's copy of the row (it is
`DeckRun`'s), and process deaths, after which nothing is left but what was committed. A fallback picture
replaces a good one on a second rendering, as in the code.

### DraftEditing

Every handler passes the owner both as owner and as editor, so `is_locked_by_other` is false for every request that
finds the draft: the lock excludes nobody, and what competes for a draft are tabs (or clients) of one user. A request is
two steps, what it reads (`...Read`) and its commit (`...Write`); an insert has a third in between
(`InsertPlace`), where it reads the last order. The ORM writes an attribute only if it differs from what was loaded, hence
`AcquireWrite` and `ReleaseWrite` depend on the copy; `lock_acquired_at` follows `lock_expires_at` and is left
out. `token` and `known` are what the tab has last been told. Refused requests change nothing and are no steps.

`content` is one of the two columns an update may name, `title` or `overall_style`; they are written independently, so
the model says of each what it says of one. An update that does not name it (or names neither) leaves it alone and adds one to the
revision all the same (`draft_service.py:94`). The handlers commit before they answer; at any point a statement or
the commit may fail, and the session is rolled back (`Fails`). An answer that is lost on the way is no step of its
own: the tab then holds an older token, as it does after a write of another tab.
`apart` is history: no update or insert has begun while another was in work.

### RequestReplay

A request is one HTTP request; a client that tries again makes another with the same key and operation. The
program counter is the request's place in the middleware and the handler, `tx` its database transaction, which
may still be open when the client has its answer.

| Code | Actions |
|---|---|
| `IdempotencyMiddleware.dispatch`, before | `Replay`, `Mismatch`, `Process` |
| authentication, rate limit, 404, 422 | `Refuse` |
| `create_/update_/delete_credential` | `BeginCreate`, `Load`, `UnsetStart`, `Unset`, `FlushInsert`, `FlushUpdate`, `FlushDelete`, `Fail` |
| `get_db_session` | `EndSession`: `Commit` or `CommitFails` |
| `dispatch`, after | `Store`, `NoStore`, `StoreConflict`, `Reply` |
| expiry, process death | `Expire`, `Crash` |

Rows are locked and read as under READ COMMITTED: an UPDATE picks its rows from the snapshot it starts with,
waits for those another transaction has written, and looks at them again (`UnsetStart`, `Unset`, `Locked`). Of
the answers only the class counts: ok, refused (4xx), error (5xx). A lookup deletes expired records before it
looks, so `Expire` removes the record at once. Left out: a body that changes both name and default.

The handlers only flush; `session.commit()` (`session.py:80`) runs when the response has left the application, and it may
raise: the transaction is undone, or the database has applied it and only the confirmation is lost. A middleware that still reads
the response then raises too and the client is told 500; one that has read it stores the answer and returns it
(`CommitFails`). `failed` is history: the requests whose transaction was undone that way.

### KeyRegister

A slot (key, method, path) is free or holds a body and its answer; it is bound once, until it is
forgotten, and whoever is answered from it gets what it holds at that moment, for the body it
holds. `RequestReplay` implements it with `bound` computed from the stored records and `given` from the replays.

## 3. Runs

| Run | Checks | Result |
|---|---|---|
| `queue_safety` | `TypeOK`, `CounterWithinLimit`, `CounterExact`, `LimitUnlessUnpaid` | hold |
| `queue_lifecycle` | `RunningHasRunner`, `JobTakesUp`, `RefinesLifecycle`, `SettledIsStable`, `AdmittedIsPickedUp`, `RunSettles` | hold |
| `deck_safety` | `TypeOK`, `CheckpointGrows`, `DeckIsCheckpoint`, `SuccessHasDeck`, `PackagedUnlessRedone`, `FollowsLifecycle` | hold |
| `draft_safety` | `TypeOK`, `RevisionCountsWrites`, `NoBlindOverwrite`, `LossStaysVisible`, `OrdersUnique`, `HeldLockExpires`, `DeletedIsFinal` | hold |
| `request_replay` | `TypeOK`, `AnsweredNotRedone`, `OneDefault`, `OkNotUndone`, `RefinesRegister`, `OkIsApplied` | hold |
| `render_batch` | `TypeOK`, `InFlightBounded`, `BatchAllOrNothing`, `UsageAccounted`, `NobodyStuck`, `CallsEnd` | hold |
| `queue_gate` | `AtMostLimitRunning` (FR-029) | violated |
| `queue_cancel` | `CancelledStays` (FR-003) | violated |
| `queue_dead_worker` | `AbandonedLeavesRunning` (`src/docs/REACT_REFACTOR.md`) | violated |
| `queue_redo` | `RedoIsPickedUp` (comment in `redo.py`) | violated |
| `deck_overlap` | `ReplacesOnlyAffected` (docstring in `agent_tools.py`) | violated |
| `deck_redo` | `FinishedRunPackaged` (comment in `orchestrator.py`) | violated |

What the passing runs say:

- `CounterWithinLimit`: the counter exceeds the limit only by callers between their INCR and DECR and by units
  of dead processes.
- `CounterExact`: the counter is what processes owe it, the dead ones included, less one for each run that went
  on after a refused acquire. It may well be *below* what is owed, even negative: that is why more than two tasks
  run (`queue_gate`). Nothing else makes it drift, in either direction.
- `LimitUnlessUnpaid`: what holds in place of `AtMostLimitRunning`. The ignored answer is the *only* way past the
  limit: the two commands of an acquire, releases, expiries and deaths are not.
- `RunningHasRunner`: what holds in place of `AbandonedLeavesRunning`. A task is left running by nobody only by a
  death or by an error while the client is built, never by a time-out, a cancellation or a late entry: if no run of a
  task has ended silently, in whatever way, a running task has a run at work.
- `JobTakesUp`: the safety half of `AdmittedIsPickedUp`: the background job does not let its task go as queued.
- `RefinesLifecycle`, `SettledIsStable`: late and repeated entries do not revive a settled
  task nobody works on.
- `AdmittedIsPickedUp`: if the gate was open, the task leaves `queued` even when its entry is read before the
  row is committed, dropped, or never delivered. No such promise holds for a task that found the
  gate full, or for a redo.
- `RunSettles`: a run that announced its result or ran out of time ends settled unless a process died.
- `CheckpointGrows`: while runs do not overlap, no death, time-out, cancellation or redo takes a page away.
- `DeckIsCheckpoint`, `SuccessHasDeck`: what success stands for; the first without overlap or redo,
  the second always.
- `PackagedUnlessRedone`: what holds in place of `FinishedRunPackaged`: only a redo brings a run to a path that is
  set already. Late deliveries and overlapping runs do not.
- `FollowsLifecycle`: the inside of a run keeps what the queue promises about the status.
- `RevisionCountsWrites`: as long as no two updates or inserts overlap, the revision is the number of accepted
  writes; locks, deletions and removals may overlap with them as they like.
- `NoBlindOverwrite`, `LossStaysVisible`: what optimistic locking still gives when they do overlap. Check and write are
  not one step, so a second update may overwrite what its tab was never shown; but then the revision falls short of
  the accepted writes, and no later request, failing ones included, ever closes the gap. A lost edit can be told from the revision, for good.
- `OrdersUnique`, `HeldLockExpires`, `DeletedIsFinal` hold for every overlap, the first thanks to the unique
  constraint, the others thanks to column-wise writes.
- `AnsweredNotRedone`, `RefinesRegister`: replays. Two requests that are both in work are both processed; the
  properties speak of a retry after an answer.
- `OkIsApplied`: a success told, by the handler or by a replay, is committed in the end, unless the process died
  in the gap or the commit itself failed there: the response leaves first. A record that expires, a conflict at the
  index, a client that goes away do not take it back.
- `OkNotUndone`: its safety half. The conflict at the unique index may cancel a commit, but then the client has been
  told 500 and no record repeats the success.
- `OneDefault`: an operation that sets the default against those that clear it or delete the row. Two that set it for the
  same provider and overlap do leave two defaults; the property names them (`raced`).
- `InFlightBounded`: the bound is per batch; two batches overlap only if a tool raised.
- `BatchAllOrNothing`: justifies `DeckRun.Merge` as one step.
- `UsageAccounted`: no interleaving of answers, drains and orphans loses or doubles a token. What is still in
  the client when the run is over is never billed.
- `CallsEnd`: no failure keeps a permit. `NobodyStuck` is its safety half: whoever waits has a permit to take or
  a call that will give one back.

What the violated ones show (details under `findings`): the second acquire is ignored and the create
handler's slot is given back at once, so three tasks run under a limit of two; a run in
progress never reads the cancellation; a worker takes a task, starts its run and dies, and
the task stays running for ever, as its entry is acknowledged and the gate had refused a background job; a redo
is dropped at an old marker or a full gate; two runs of a task overwrite each other's slides; a redone run
keeps the old deck.

### Bounds

- `queue_safety`: 2 tasks of 1 user, 1 worker, limit 1, 1 crash. Three runners, two create gates
  and a limit of one make every pair of INCR, DECR and release meet; cancel and redo do not
  touch the counter, so they are off.
- `queue_lifecycle`: 1 task, 1 worker, 1 cancel, 1 redo, 1 crash. The properties
  speak of one task; two runners, two deliveries, and a cancel overlap in every order.
  No symmetry, since liveness is checked.
- `queue_gate`: 3 tasks, limit 2: the smallest instance that can break the limit.
- `Deck*`: 2 pages, 1 worker and the job, 2 steps per run, 2 render calls, at most 1 redo and 1 crash. Two pages
  tell a lost page from a replaced one; one cancel request at a time, any number in a row; two render calls tell an old picture from a new one; the redo gives a third run.
  Pages are symmetric. Steps and render calls stand for `MAX_REACT_STEPS = 32` and unbounded.
- `draft_safety`: 2 tabs, 2 slides, orders 0 and 1, 3 accepted writes. Every property speaks of two
  requests or two slides; three writes let a revision repeat and be used as a token once more. Tabs and slides are symmetric. The
  model has no other bound.
- `request_replay`: 2 requests, 1 key or none, 2 credentials of 1 provider, create/update/clear/delete. Two requests make every
  race of lookup, processing, commit and store; expiry and the crash come at any point. No symmetry (liveness).
- `render_batch`: 2 batches of up to 2 pages, 1 permit, 2 requests per call, 1 token per answer, 1 other call, an
  estimate (100) no sum of answers reaches. One permit for two pages makes a page wait; two batches let orphans
  of the first meet the second; failures alone give a batch without a count.

`CHECK_DEADLOCK FALSE` is set in all: with every request and crash used up the system is idle,
which is not an error.

### Fairness

`FairSpec` assumes weak fairness of each request that has begun, each worker loop and each runner:
an event loop resumes a coroutine whose await has completed, and all awaits in question are
bounded (Redis and database calls, the LLM loop by `MAX_REACT_STEPS` and `wait_for`). A worker
that died is started again by its supervisor, as the `idle` state of the model. No fairness is
assumed of users, deadlines or key expiry. Because a death may cut anything short, liveness is stated up to
`Crashed`; `AbandonedLeavesRunning` is about what happens then.

`RequestReplay`: weak fairness of `EndSession` only, that is, of a commit or a failing one. The exit stack of the request
runs whatever the middleware and the client do; that the commit succeeds is not assumed.
`RenderBatch`: weak fairness of taking a free permit, of the end of a request (the HTTP client has a time limit
of 180 s), of the end of a sleep, and of the coroutine that waits for `gather`. Nothing is assumed of the LLM's choices.
`DraftEditing` has no liveness property.

## 4. Proofs

The proofs hold for all values of the constants under the named assumptions (`OwnerAssumption`,
`LimitAssumption`, `RunnersAssumption`, `FiniteAssumption`, `BoundsAssumption` of `GenerationQueue`;
`StepsAssumption`, `BudgetAssumption`, `JobAssumption` of `DeckRun`): types of the parameters, finite sets,
and that task ids, workers and the job have different names. TLC evaluates them in each run.

- `TypeCorrect` (`GenerationQueueProofs`): typing, including that a runner that is not idle has a task.
- `CounterIsExact`: `CounterExact` alone is not inductive: a background job that starts twice
  would add a holder without a unit. The invariant adds `JobAfterCreate`: a job is not idle only once its create request
  is done. With it, every action changes the counter and the cardinalities of the holder sets
  by the same amount, the refused acquire excepted, which `unpaid` counts; lemmas on adding and removing one
  element of a finite set carry the argument.
- `IdleUserIsAdmitted` is a corollary that speaks of what a user sees: with no request or run of theirs in progress and
  no unit leaked, the gate admits them.
- `CounterStaysWithinLimit` (`GateProofs`): an INCR either finds the counter below the limit or makes its caller
  a member of the undoing set; releases only lower the left side. Inductive with typing.
- `LimitHoldsUnlessUnpaid` (`GateProofs`) puts the two together: a running task owes a unit, and without unpaid runs the
  counter, less what is about to be taken back and what was leaked, is what is owed.
- `QueueRefinesLifecycle`, `SettledTasksStay` (`LifecycleProofs`): each action maps to a step of
  `TaskLifecycle` or a stutter, one lemma per group of actions; the action property follows from the abstract one.
- `RunningIsWorkedOn`: inductive with typing and `JobAfterCreate`. Only a run writes `running`, and a run that ends either
  writes another status or makes its task silent.
- `JobTakesTaskUp`: `JobTakesUp` is not inductive, as nothing in it speaks of the job before its last step. `JobInv`
  adds that a job works on its own task, that past its first write the task is not queued, and that without a
  redo nobody puts it back. TLC checked `JobInv` on the instance of `queue_lifecycle` before it was proved.
- `DeckTypeCorrect`, `SuccessAlwaysHasDeck`, `DeckIsTheCheckpoint`, `CheckpointOnlyGrows`
  (`DeckRunProofs`): the inductive invariant is `DeckInv`. `OneRun`: without overlap the session's slides are the
  row's. `CallsAreReal`: a render call has pages and a number. `PathHasDeck`: a path stands for a
  stored deck and a checkpoint. `PathIsKnown`: a session knows a path the row lacks only right before its
  commit. `FirstDeck`: before any redo or overlap, the first path ends the task. `DeckIsCheckpoint` needs
  all of them: nothing in the step that commits success mentions the slides.
- `PackagedBeforeRedo`: the invariant `OneDelivery` accounts for the deliveries before a redo. One entry and one job are all
  there is, and only the job can store a deck; so once it has committed a path, nobody is left who could
  load the row with that path in it and then succeed.
- `RunFollowsLifecycle`: one lemma per kind of step, under the mapping of claims above, from typing alone: a step of
  a run either leaves the status and the claims alone, writes while the claim is held, or gives it up.

- `DraftEditingProofs`: `OrdersStayUnique`, `HeldLocksExpire` and `DeletionIsFinal` follow from typing and
  one more fact each (`Latest`, `SeenInv` and `ApartInv` name the invariants below). `LossesStayVisible` and
  `NoSilentLoss` hold under every overlap. Typing bounds the revision and every
  copy of it by the accepted writes, and `Latest` adds that a copy which is not behind was read from a row that is not: a
  revision that is behind is only ever raised to a number that is behind (`NeverCatchesUp`). `SeenInv`: while the revision is not
  behind, a token, or the copy of an update, that equals it goes with the content that is in the row. `RevisionCounts`
  rests on `ApartInv`: without overlap a request that counts has the row's revision in its copy.
- `RequestReplayProofs`: `AnsweredAttemptsHold` rests on `Book`, which says where an answer came from: a request
  answered by the middleware itself was stored, replayed, or left no record because it was an error or has
  expired. `TableIsRegister` adds that two records never share a slot, so that the CHOOSE of the mapping has one value.
  `OneDefaultHolds` needs an account of the open transactions: which row each is about, which it has unset, and that a
  default it does not see was set by one that overlaps with it. `SuccessIsNotUndone` needs `Book` again: a
  request that is rolled back after its flush (`StoreConflict`) has no record, so no replay can have its answer. A
  commit that fails may have a record; then the request is in `failed`, which the statement names, for its own answer and for
  every replay of it.
- `RenderBatchProofs`: `TypeInv` counts permits (free plus held is `Parallelism`) with lemmas on adding and
  removing one element of a finite set; without the count neither the type of the semaphore nor
  `CallsInFlight` is inductive. `NoStrays`: a call that has not ended belongs to the batch that is gathered or to one
  that has raised. `NoneCancelled`: only the end of the run cancels calls, so a gather never waits for one that was
  cancelled; with the count of permits it gives `NobodyIsStuck`. `EndedIsFinal`: an answered call keeps its end, on which `BatchesWhole` rests.

The assumptions of these modules are `OrdersAssumption`, `WritesAssumption`, `SlidesAssumption`; `OpsAssumption`,
`ProviderAssumption`, `FirstAssumption`, `NoneAssumption`; `PagesAssumption`, `LimitsAssumption`, `TokensAssumption`,
`BoundsAssumption`: types, finite pages, names that differ, and at least one permit and one request.

Only model-checked: the four liveness properties, as TLAPS proves nothing about fairness or ENABLED, and
of course the violations. What remains of the liveness properties once their safety halves are proved is the fairness of
the scheduler: `JobTakesTaskUp` for `AdmittedIsPickedUp`, `SuccessIsNotUndone` for `OkIsApplied`, `NobodyIsStuck` for
`CallsEnd`. Of `RunSettles`, `RunningIsWorkedOn` has the part that a run which ends does not leave its task running.

## 5. Not modelled

- *Draft export:* `DraftExporter.create_job` reads the lazy relationship `draft.slides` outside a greenlet
  (`services/export/draft_exporter.py:36`, `db/models/draft.py:61`), which raises on an AsyncSession. No export job is ever
  created, so there is no behaviour to model.
- *Samples:* `KnowledgeBaseService.enqueue_parse` imports `publish_event` and `async_session_factory`, names that
  do not exist (`services/knowledge_base/service.py:33,46`), so an upload fails before anything is parsed.
- *Cron and deletion:* no process starts `main_cron_loop`; `delete_all_user_data` calls `session.query` on an
  AsyncSession. `archived` is thus never reached.
- *Dead code:* `main_worker_loop`, `redo_slide_checkpoint`, `_run_redo`, `services/generation/pipeline.py`,
  `DraftService.reorder_slides`, `release_expired_locks` (called by the cron loop only).
- *Search, scoring, preferences, PII, rendering:* sequential computation without shared state.
- *WebSocket relay:* no state; events may be lost, and nothing depends on them.
- *Web client, vendored AgentScope, migrations, scripts:* outside the backend's control logic.

- *Coverage.* Most of the repository's lines are the vendored AgentScope framework, of which the backend
  uses a compatibility layer of its own, and the SVG-to-DrawingML engine, which is sequential layout
  code without control worth a state machine. The models cover the backend's control logic, a small share of all lines.

### Differences between text and code seen while modelling

Those with a run are under `findings`. The others, all visible in the models:

- `middleware/idempotency.py:7` promises 422 for a key used again with another body; the exception is raised in a
  middleware, outside the application's handlers, and the client gets 500 (`Mismatch`). Both of two concurrent
  requests with one key are processed, and the second is told 500 (`StoreConflict`). Refusals are stored as well, so a 429 is replayed for 24 hours.
- `api/drafts.py:130` and `src/docs/user-guide/material-and-draft.md:63-69` promise that the second of two writers
  gets 412; two updates that overlap are both accepted, and the revision may go back (`UpdateRead`, `UpdateWrite`).
- The editor lock excludes nobody (see `DraftEditing`).
- `PATCH /drafts/{id}` with neither a title nor a style changes nothing but the revision (`draft_service.py:94`), and the other
  tabs' next save is refused with 412 (`UpdateWrite`).
- A commit that fails after the response has been sent (`session.py:80`) leaves a success that was told and, with a key, stored: the
  retry that should repair it is answered from the record for 24 hours, and the change is never made (`CommitFails`).
- Two overlapping requests that set the default of one provider leave two (`credentials.py:148`, `raced`).
- `agents/agent_tools.py:216-219` says `token_consumed` is the real number, not a fixed estimate, and the
  comment at 519 that the estimate is for a client that reports nothing; the count has just been reset, so the estimate is added to
  the real one (`Persist`, `ChargeEstimate`). Tokens of the last reasoning call and of a run cut short are never billed.
- `agents/agent_tools.py:469` says calls are bounded by the semaphore; it is one per batch, and calls left behind by a tool that
  raised come on top (`InFlightBounded` says when).
- `LLMClient.from_user_credential` asks for *the* default credential; there is one per provider, and with two the
  query raises.

## 6. Plan

The modules of section 2 with their proofs are done. What would come next:

1. `RenderBatch` as an implementation of the render step of `DeckRun`, with the session's copy of the row.
2. A bound on the estimate: charged at most once per page of a stored batch.
3. The other write handlers behind the middleware (create and cancel of a generation), whose
   commits come before the response.
