--------------------------- MODULE TaskLifecycle ---------------------------
(***************************************************************************)
(* What the queue promises about the status of a task, whatever the        *)
(* interleaving of requests, workers and background jobs.  An agent (a     *)
(* runner or a cancel request) may write the status of a task only while   *)
(* it holds a claim on it, and it obtains a claim only by reading the task *)
(* in an active status.  Claims are not exclusive, and may be stale.       *)
(***************************************************************************)
CONSTANTS Tasks, Agents

VARIABLES
  status,   \* committed status of each task
  claims    \* agents that have read the task as active and not yet finished

vars == <<status, claims>>

Status  == {"absent", "queued", "running", "success", "failed", "cancelled"}
Active  == {"queued", "running"}
Settled == {"success", "failed", "cancelled"}

TypeOK == /\ status \in [Tasks -> Status]
          /\ claims \in [Tasks -> SUBSET Agents]

Init == /\ status = [t \in Tasks |-> "absent"]
        /\ claims = [t \in Tasks |-> {}]

Submit(t) ==
  /\ status[t] = "absent"
  /\ status' = [status EXCEPT ![t] = "queued"]
  /\ UNCHANGED claims

\* A redo takes the task from whatever status it has.
Requeue(t) ==
  /\ status[t] # "absent"
  /\ status' = [status EXCEPT ![t] = "queued"]
  /\ UNCHANGED claims

Claim(a, t) ==
  /\ status[t] \in Active
  /\ claims' = [claims EXCEPT ![t] = @ \cup {a}]
  /\ UNCHANGED status

Begin(a, t) ==
  /\ a \in claims[t]
  /\ status' = [status EXCEPT ![t] = "running"]
  /\ UNCHANGED claims

Settle(a, t) ==
  /\ a \in claims[t]
  /\ \E s \in Settled : status' = [status EXCEPT ![t] = s]
  /\ claims' = [claims EXCEPT ![t] = @ \ {a}]

\* Agents give up, or die together, without writing.
Abandon(lost) ==
  /\ claims' = [t \in Tasks |-> claims[t] \ lost]
  /\ UNCHANGED status

Next ==
  \/ \E t \in Tasks : Submit(t) \/ Requeue(t)
  \/ \E t \in Tasks, a \in Agents : Claim(a, t) \/ Begin(a, t) \/ Settle(a, t)
  \/ \E lost \in SUBSET Agents : Abandon(lost)

Spec == Init /\ [][Next]_vars

\* A step leaves alone a settled task nobody holds a claim on, unless it is
\* redone: no cancelled or failed task is taken up again by a late message.
KeepsSettled ==
  \A t \in Tasks : status[t] \in Settled /\ claims[t] = {}
                     => status'[t] \in {status[t], "queued"} /\ claims'[t] = {}
SettledIsStable == [][KeepsSettled]_vars

=============================================================================
