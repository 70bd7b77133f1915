------------------------------- MODULE DeckRun -------------------------------
(***************************************************************************)
(* What happens inside the runs of one task: the checkpoint of rendered    *)
(* slides (rendered_slides), the deck in the object store, the result path *)
(* of the row, and the run itself: OrchestratorAgent.run, the ReAct loop   *)
(* that calls whatever tool the LLM asks for, and _finalize.  The queue    *)
(* around it is GenerationQueue; here a run starts when a stream entry     *)
(* reaches a worker or the API process starts the background job.          *)
(*                                                                         *)
(* A slide's content is the number of the render call that produced it     *)
(* (an LLM failure gives a fallback picture, a content like any other),    *)
(* so a deck is a function from pages to numbers, 0 for a missing page.    *)
(***************************************************************************)
EXTENDS Integers, FiniteSets

CONSTANTS
  Workers,      \* processes running run_worker_loop
  Job,          \* the background job of the create handler
  Pages,        \* slide orders the LLM may ask for
  MaxSteps,     \* MAX_REACT_STEPS: steps of one run
  MaxRenders,   \* bound: render calls in a behaviour
  MaxCancels,   \* bound: cancel requests in flight at a time
  MaxRedos,     \* bound: redo requests
  MaxCrashes    \* bound: process deaths

ASSUME StepsAssumption == MaxSteps \in Nat \ {0}
ASSUME BudgetAssumption == {MaxRenders, MaxCancels, MaxRedos, MaxCrashes} \subseteq Nat
ASSUME JobAssumption == Job \notin Workers

Runners == Workers \cup {Job}

\* put_object needs the client that init_minio makes.  The API process calls
\* it at start-up, run_worker does not: in a worker every upload raises.
CanStore(r) == r = Job

Missing == 0
Deck == [Pages -> Nat]
NoSlides == [p \in Pages |-> Missing]
Rendered(d) == {p \in Pages : d[p] # Missing}

Active == {"queued", "running"}

VARIABLES
  status,      \* committed status of the task
  saved,       \* committed rendered_slides
  path,        \* result_pptx_path is committed
  deck,        \* the object results/{task}.pptx
  entries,     \* stream entries of the task not yet delivered to a worker
  scheduled,   \* the background job has yet to start
  cancels,     \* cancel requests that have read the task as active
  pc,          \* where each runner is
  held,        \* rendered_slides in the session of each runner
  heldPath,    \* result_pptx_path in the session of each runner
  batch,       \* pages of the render call a runner awaits
  version,     \* the number of that call
  step,        \* steps of the ReAct loop done
  packed,      \* history: the run has packaged a deck
  renders,     \* render calls made
  alone,       \* history: no two runs have overlapped
  redone,      \* history: the task has been redone
  redosLeft, crashesLeft

row     == <<status, saved, path>>
queue   == <<entries, scheduled, cancels>>
session == <<held, heldPath>>
loop    == <<batch, version, step>>
history == <<alone, redone>>
budget  == <<redosLeft, crashesLeft>>
vars == <<row, deck, queue, pc, session, loop, packed, renders, history, budget>>

RunPc == {"idle", "loaded", "resumed", "think", "render", "finalize", "commit", "timeout"}

TypeOK ==
  /\ status \in {"queued", "running", "success", "failed", "cancelled"}
  /\ saved \in Deck
  /\ path \in BOOLEAN
  /\ deck \in Deck
  /\ entries \in Nat
  /\ scheduled \in BOOLEAN
  /\ cancels \in 0..MaxCancels
  /\ pc \in [Runners -> RunPc]
  /\ held \in [Runners -> Deck]
  /\ heldPath \in [Runners -> BOOLEAN]
  /\ batch \in [Runners -> SUBSET Pages]
  /\ version \in [Runners -> Nat]
  /\ step \in [Runners -> 0..MaxSteps]
  /\ \A r \in Runners : pc[r] = "render" => step[r] < MaxSteps
  /\ packed \in [Runners -> BOOLEAN]
  /\ renders \in 0..MaxRenders
  /\ alone \in BOOLEAN
  /\ redone \in BOOLEAN
  /\ redosLeft \in 0..MaxRedos
  /\ crashesLeft \in 0..MaxCrashes

Init ==
  /\ status = "queued"
  /\ saved = NoSlides
  /\ path = FALSE
  /\ deck = NoSlides
  /\ entries = 1
  /\ scheduled \in BOOLEAN      \* the concurrency gate was open or full
  /\ cancels = 0
  /\ pc = [r \in Runners |-> "idle"]
  /\ held = [r \in Runners |-> NoSlides]
  /\ heldPath = [r \in Runners |-> FALSE]
  /\ batch = [r \in Runners |-> {}]
  /\ version = [r \in Runners |-> 0]
  /\ step = [r \in Runners |-> 0]
  /\ packed = [r \in Runners |-> FALSE]
  /\ renders = 0
  /\ alone = TRUE
  /\ redone = FALSE
  /\ redosLeft = MaxRedos
  /\ crashesLeft = MaxCrashes

Goto(r, to) == pc' = [pc EXCEPT ![r] = to]

\* The session of a run is closed: what it held is gone.
Stop(r) ==
  /\ Goto(r, "idle")
  /\ held' = [held EXCEPT ![r] = NoSlides]
  /\ heldPath' = [heldPath EXCEPT ![r] = FALSE]
  /\ batch' = [batch EXCEPT ![r] = {}]
  /\ version' = [version EXCEPT ![r] = 0]
  /\ step' = [step EXCEPT ![r] = 0]
  /\ packed' = [packed EXCEPT ![r] = FALSE]

NextStep(r) == step' = [step EXCEPT ![r] = @ + 1]

-----------------------------------------------------------------------------
\* Mutant of Deliver: an entry is delivered again and again.
DeliverAgain(r) ==
  IF r = Job THEN scheduled /\ scheduled' = FALSE /\ UNCHANGED entries
             ELSE entries' = entries - 1 /\ UNCHANGED scheduled

\* A stream entry reaches a worker, or the background job starts.
Deliver(r) ==
  IF r = Job THEN scheduled /\ scheduled' = FALSE /\ UNCHANGED entries
             ELSE entries > 0 /\ entries' = entries - 1 /\ UNCHANGED scheduled

\* Mutant of Wanted: a cancelled task is taken up as well.
WantedOrCancelled == status \in Active \cup {"cancelled"}

\* A settled task is left alone.
Wanted == status \in Active

\* The row is read once: the run works on this copy until it ends.
Load(r) ==
  /\ pc[r] = "idle"
  /\ Deliver(r)
  /\ IF Wanted
       THEN /\ Goto(r, IF status = "running" THEN "resumed" ELSE "loaded")
            /\ held' = [held EXCEPT ![r] = saved]
            /\ heldPath' = [heldPath EXCEPT ![r] = path]
            /\ alone' = (alone /\ \A q \in Runners : pc[q] = "idle")
       ELSE UNCHANGED <<pc, session, alone>>
  /\ UNCHANGED <<row, deck, cancels, loop, packed, renders, redone, budget>>

\* The queue deadline had passed when the task was read.
Expire(r) ==
  /\ pc[r] \in {"loaded", "resumed"}
  /\ status' = "cancelled"
  /\ Stop(r)
  /\ UNCHANGED <<saved, path, deck, queue, renders, history, budget>>

\* The session writes "running" unless that is what it read.
Start(r) ==
  /\ pc[r] \in {"loaded", "resumed"}
  /\ Goto(r, "think")
  /\ status' = IF pc[r] = "resumed" THEN status ELSE "running"
  /\ UNCHANGED <<saved, path, deck, queue, session, loop, packed, renders, history, budget>>

\* The LLM client cannot be built, before the first step of the loop or to
\* package the slides after it: the run ends without a word in the row.
ClientFails(r) ==
  /\ \/ pc[r] = "think" /\ step[r] = 0
     \/ pc[r] = "finalize" /\ Rendered(held[r]) # {} /\ ~heldPath[r]
  /\ Stop(r)
  /\ UNCHANGED <<row, deck, queue, renders, history, budget>>

-----------------------------------------------------------------------------
\* The ReAct loop: the LLM picks the next tool.

MayCall(r) == pc[r] = "think" /\ step[r] < MaxSteps

\* plan_outline, enrich_points, query_knowledge_base, a tool that raises (as
\* package_pptx does in a worker) or is unknown: nothing kept here is changed.
CallOther(r) ==
  /\ MayCall(r)
  /\ NextStep(r)
  /\ UNCHANGED <<row, deck, queue, pc, session, batch, version, packed, renders, history, budget>>

\* render_svg_batch, and redo_slide for one page.
CallRender(r) ==
  /\ MayCall(r)
  /\ renders < MaxRenders
  /\ renders' = renders + 1
  /\ \E S \in (SUBSET Pages) \ {{}} : batch' = [batch EXCEPT ![r] = S]
  /\ version' = [version EXCEPT ![r] = renders + 1]
  /\ Goto(r, "render")
  /\ UNCHANGED <<row, deck, queue, session, step, packed, history, budget>>

\* Mutant of Merge: the batch replaces the checkpoint.
MergeBatchOnly(old, S, v) == [p \in Pages |-> IF p \in S THEN v ELSE Missing]

\* The slides of a checkpoint with those of a batch in their place.
Merge(old, S, v) == [p \in Pages |-> IF p \in S THEN v ELSE old[p]]

\* The merged list is written whole, over whatever the row holds by now.
Persist(r) ==
  /\ pc[r] = "render"
  /\ held' = [held EXCEPT ![r] = Merge(@, batch[r], version[r])]
  /\ saved' = Merge(held[r], batch[r], version[r])
  /\ batch' = [batch EXCEPT ![r] = {}]
  /\ version' = [version EXCEPT ![r] = 0]
  /\ NextStep(r)
  /\ Goto(r, "think")
  /\ UNCHANGED <<status, path, deck, queue, heldPath, packed, renders, history, budget>>

\* package_pptx stores the slides the LLM passes to it, whatever they are.
\* It does not set result_pptx_path.
CallPackage(r) ==
  /\ MayCall(r)
  /\ CanStore(r)
  /\ deck' \in {d \in [Pages -> 0..renders] : Rendered(d) # {}}
  /\ packed' = [packed EXCEPT ![r] = TRUE]
  /\ NextStep(r)
  /\ UNCHANGED <<row, queue, pc, session, batch, version, renders, history, budget>>

\* A final answer, an LLM error (the adapter turns it into one), or no step left.
Finish(r) ==
  /\ pc[r] = "think"
  /\ Goto(r, "finalize")
  /\ UNCHANGED <<row, deck, queue, session, loop, packed, renders, history, budget>>

\* _fail.
Fail(r) ==
  /\ status' = "failed"
  /\ Stop(r)
  /\ UNCHANGED <<saved, path, queue, renders, history, budget>>

\* The loop raised.
LoopFails(r) ==
  /\ pc[r] = "think"
  /\ Fail(r)
  /\ UNCHANGED deck

-----------------------------------------------------------------------------
\* _finalize.

NothingRendered(r) ==
  /\ pc[r] = "finalize"
  /\ Rendered(held[r]) = {}
  /\ Fail(r)
  /\ UNCHANGED deck

\* Mutant of AutoPackage: a deck the LLM has packaged is good enough.
AutoPackageUnlessPacked(r) ==
  /\ pc[r] = "finalize"
  /\ CanStore(r)
  /\ Rendered(held[r]) # {}
  /\ ~heldPath[r]
  /\ deck' = IF packed[r] THEN deck ELSE held[r]
  /\ heldPath' = [heldPath EXCEPT ![r] = TRUE]
  /\ packed' = [packed EXCEPT ![r] = TRUE]
  /\ Goto(r, "commit")
  /\ UNCHANGED <<row, queue, held, loop, renders, history, budget>>

\* Mutant of AutoPackage: the empty deck is packaged too.
AutoPackageUnchecked(r) ==
  /\ pc[r] = "finalize"
  /\ CanStore(r)
  /\ ~heldPath[r]
  /\ deck' = held[r]
  /\ heldPath' = [heldPath EXCEPT ![r] = TRUE]
  /\ packed' = [packed EXCEPT ![r] = TRUE]
  /\ Goto(r, "commit")
  /\ UNCHANGED <<row, queue, held, loop, renders, history, budget>>

AutoPackage(r) ==
  /\ pc[r] = "finalize"
  /\ CanStore(r)
  /\ Rendered(held[r]) # {}
  /\ ~heldPath[r]
  /\ deck' = held[r]
  /\ heldPath' = [heldPath EXCEPT ![r] = TRUE]
  /\ packed' = [packed EXCEPT ![r] = TRUE]
  /\ Goto(r, "commit")
  /\ UNCHANGED <<row, queue, held, loop, renders, history, budget>>

\* Packaging raises, before or after the deck is stored: no path, hence failed.
AutoPackageFails(r) ==
  /\ pc[r] = "finalize"
  /\ Rendered(held[r]) # {}
  /\ ~heldPath[r]
  /\ deck' \in {deck} \cup (IF CanStore(r) THEN {held[r]} ELSE {})
  /\ Fail(r)

\* The row had a path when it was loaded: nothing is packaged.
AlreadyPackaged(r) ==
  /\ pc[r] = "finalize"
  /\ Rendered(held[r]) # {}
  /\ heldPath[r]
  /\ Goto(r, "commit")
  /\ UNCHANGED <<row, deck, queue, session, loop, packed, renders, history, budget>>

CommitSuccess(r) ==
  /\ pc[r] = "commit"
  /\ status' = "success"
  /\ path' = TRUE
  /\ Stop(r)
  /\ UNCHANGED <<saved, deck, queue, renders, history, budget>>

-----------------------------------------------------------------------------
\* asyncio.wait_for gives up on the run: its session and what it had not
\* committed are lost, the slides it persisted are not.
TimeOut(r) ==
  /\ pc[r] \in {"loaded", "resumed", "think", "render", "finalize", "commit"}
  /\ Goto(r, "timeout")
  /\ UNCHANGED <<row, deck, queue, session, loop, packed, renders, history, budget>>

CommitTimeout(r) ==
  /\ pc[r] = "timeout"
  /\ Fail(r)
  /\ UNCHANGED deck

\* A worker dies; its delivery was acknowledged and does not come back.
CrashWorker(w) ==
  /\ pc[w] # "idle"
  /\ crashesLeft > 0
  /\ crashesLeft' = crashesLeft - 1
  /\ Stop(w)
  /\ UNCHANGED <<row, deck, queue, renders, history, redosLeft>>

\* The API process dies with its background job, whether that runs or is still
\* to start, and with its cancel requests.
CrashApi ==
  /\ pc[Job] # "idle" \/ scheduled \/ cancels > 0
  /\ crashesLeft > 0
  /\ crashesLeft' = crashesLeft - 1
  /\ scheduled' = FALSE
  /\ cancels' = 0
  /\ Stop(Job)
  /\ UNCHANGED <<row, deck, entries, renders, history, redosLeft>>

\* DELETE /generations/{id} goes on only for an active task.
CancelLoad ==
  /\ status \in Active
  /\ cancels < MaxCancels
  /\ cancels' = cancels + 1
  /\ UNCHANGED <<row, deck, entries, scheduled, pc, session, loop, packed, renders, history,
                 budget>>

\* The status is not read again: whatever has been committed since is
\* overwritten, and a run in progress goes on.
CancelCommit ==
  /\ cancels > 0
  /\ cancels' = cancels - 1
  /\ status' = "cancelled"
  /\ UNCHANGED <<saved, path, deck, entries, scheduled, pc, session, loop, packed, renders,
                 history, budget>>

\* redo_stage takes the task from any status.  The checkpoint and the path of
\* the last deck stay in the row.
Redo ==
  /\ redosLeft > 0
  /\ redosLeft' = redosLeft - 1
  /\ status' = "queued"
  /\ entries' = entries + 1
  /\ redone' = TRUE
  /\ UNCHANGED <<saved, path, deck, scheduled, cancels, pc, session, loop, packed, renders, alone,
                 crashesLeft>>

-----------------------------------------------------------------------------
RunStep(r) ==
  \/ Expire(r) \/ Start(r) \/ ClientFails(r)
  \/ CallOther(r) \/ CallRender(r) \/ Persist(r) \/ CallPackage(r)
  \/ Finish(r) \/ LoopFails(r)
  \/ NothingRendered(r) \/ AutoPackage(r) \/ AutoPackageFails(r) \/ AlreadyPackaged(r)
  \/ CommitSuccess(r) \/ TimeOut(r) \/ CommitTimeout(r)

Next == \/ \E r \in Runners : Load(r) \/ RunStep(r)
        \/ \E w \in Workers : CrashWorker(w)
        \/ CrashApi
        \/ CancelLoad \/ CancelCommit
        \/ Redo

Spec == Init /\ [][Next]_vars

-----------------------------------------------------------------------------
\* Properties.

\* A step that changes the checkpoint only puts the slides of a finished
\* render call in the place of the pages of that call.
ReplacesBatch ==
  \A p \in Pages : saved'[p] # saved[p] =>
    \E r \in Runners : pc[r] = "render" /\ p \in batch[r] /\ saved'[p] = version[r]

\* As long as no two runs of the task have overlapped, no time-out, crash,
\* cancellation, redo or later run takes a page out of the checkpoint or puts
\* an older picture back: a run resumes from all that was rendered before.
CheckpointGrows == [][alone => ReplacesBatch]_vars

\* A task that succeeded without a redo and without overlapping runs has a deck
\* in store that is its checkpoint, whatever the LLM packaged on the way.
DeckIsCheckpoint ==
  status = "success" /\ alone /\ ~redone => deck = saved

\* Even with overlapping runs and redos, a task in success has a path, a deck
\* behind it and a checkpoint, none of them empty.
SuccessHasDeck ==
  status = "success" => path /\ Rendered(deck) # {} /\ Rendered(saved) # {}

\* orchestrator.py: a run whose LLM did not package the slides does it itself.
FinishedRunPackaged == \A r \in Runners : pc[r] = "commit" => packed[r]

\* Only a redo lets a run succeed with the deck of an earlier one: before it, no
\* late delivery, time-out, crash or cancellation makes a run find a path in the
\* row it loads, overlapping runs included (orchestrator.py:207).
PackagedUnlessRedone == ~redone => FinishedRunPackaged

\* The same lifecycle as in GenerationQueue, of this one task: a run claims it
\* from its load to its end, a cancel request until its commit.
Claims == ({r \in Runners : pc[r] # "idle"} \X {"run"}) \cup ((1..cancels) \X {"cancel"})

Lifecycle == INSTANCE TaskLifecycle WITH
  Tasks  <- {"task"},
  Agents <- (Runners \X {"run"}) \cup ((1..MaxCancels) \X {"cancel"}),
  status <- [t \in {"task"} |-> status],
  claims <- [t \in {"task"} |-> Claims]

\* What happens inside a run keeps the promise the queue makes about the status:
\* every step, checkpoints, packaging and closed sessions included, is one of
\* the lifecycle, and nobody writes who had not read the task as active.
FollowsLifecycle == [][Lifecycle!Next]_(Lifecycle!vars)

\* What the documents promise and the code does not do.

\* agent_tools.py: a partial retry replaces only the affected slide.
ReplacesOnlyAffected == [][ReplacesBatch]_vars

=============================================================================
