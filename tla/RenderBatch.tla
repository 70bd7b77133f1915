----------------------------- MODULE RenderBatch -----------------------------
(***************************************************************************)
(* The calls to the LLM of one run and what becomes of their answers: the  *)
(* retry loop of the client, the parallel calls of render_svg_batch, the   *)
(* checkpoint they fill, and the tokens billed to the task.  The run around*)
(* them is DeckRun, which takes a render call for one step.                *)
(*                                                                         *)
(* A call that raises where nothing catches it (an answer whose content is *)
(* null) ends the tool, and the other calls of its batch run on with nobody*)
(* waiting for them.  They share the client, hence its count of tokens,    *)
(* with the batches that follow.                                           *)
(***************************************************************************)
EXTENDS Integers, FiniteSets

CONSTANTS
  Pages,
  Parallelism,  \* calls of a batch at a time, max(1, ctx.parallelism)
  MaxRetries,   \* requests per call
  Estimate,     \* tokens charged per page without a count, 1200
  Tokens,       \* total_tokens of an answer
  MaxBatches,   \* bound: render calls of the run
  MaxOthers     \* bound: other calls to the LLM

ASSUME PagesAssumption == IsFiniteSet(Pages)
ASSUME LimitsAssumption == Parallelism \in Nat \ {0} /\ MaxRetries \in Nat \ {0}
ASSUME TokensAssumption == Tokens \subseteq Nat /\ Estimate \in Nat
ASSUME BoundsAssumption == {MaxBatches, MaxOthers} \subseteq Nat

Batches == 1..MaxBatches

VARIABLES
  phase,      \* of the run: between tools, in a batch, or over
  batch,      \* batches begun
  asked,      \* pages of each batch
  call,       \* the call for each page of each batch
  attempt,    \* requests each of them has made
  free,       \* permits left of the semaphore of each batch
  saved,      \* committed: the batch whose picture each page has
  usage,      \* last_usage_total of the client
  consumed,   \* committed: token_consumed of the task
  reported,   \* history: tokens of the answers so far
  estimated,  \* history: pages charged by the estimate
  others      \* other calls so far

calls == <<asked, call, attempt, free>>
bill  == <<usage, consumed, reported, estimated>>
vars  == <<phase, batch, calls, saved, bill, others>>

Holding == {"post", "sleep"}
Drawn   == {"picture", "fallback"}
Ended   == Drawn \cup {"raised", "cancelled"}

TypeOK ==
  /\ phase \in {"think", "gather", "estimate", "over"}
  /\ batch \in 0..MaxBatches
  /\ asked \in [Batches -> SUBSET Pages]
  /\ call \in [Batches -> [Pages -> {"none", "wait"} \cup Holding \cup Ended]]
  /\ attempt \in [Batches -> [Pages -> 0..MaxRetries]]
  /\ free \in [Batches -> 0..Parallelism]
  /\ saved \in [Pages -> 0..batch]
  /\ {usage, consumed, reported, estimated} \subseteq Nat
  /\ others \in 0..MaxOthers

Init ==
  /\ phase = "think"
  /\ batch = 0
  /\ asked = [b \in Batches |-> {}]
  /\ call = [b \in Batches |-> [p \in Pages |-> "none"]]
  /\ attempt = [b \in Batches |-> [p \in Pages |-> 0]]
  /\ free = [b \in Batches |-> Parallelism]
  /\ saved = [p \in Pages |-> 0]
  /\ usage = 0 /\ consumed = 0 /\ reported = 0 /\ estimated = 0
  /\ others = 0

-----------------------------------------------------------------------------
\* Calls outside a batch are made one at a time; their retries only take time.

\* The LLM picks a tool, or plans something that cannot be used: its tokens
\* stay in the client.
Complete(t) ==
  /\ phase = "think" /\ others < MaxOthers
  /\ others' = others + 1
  /\ usage' = usage + t
  /\ reported' = reported + t
  /\ UNCHANGED <<phase, batch, calls, saved, consumed, estimated>>

\* plan_outline and enrich_points drain it after a usable answer.
Plan(t) ==
  /\ phase = "think" /\ others < MaxOthers
  /\ others' = others + 1
  /\ consumed' = consumed + usage + t
  /\ usage' = 0
  /\ reported' = reported + t
  /\ UNCHANGED <<phase, batch, calls, saved, estimated>>

-----------------------------------------------------------------------------
\* A batch: every page has a call of its own, which waits for a permit.
StartBatch(S) ==
  /\ phase = "think" /\ batch < MaxBatches
  /\ phase' = "gather"
  /\ batch' = batch + 1
  /\ asked' = [asked EXCEPT ![batch + 1] = S]
  /\ call' = [call EXCEPT ![batch + 1] = [p \in Pages |-> IF p \in S THEN "wait" ELSE "none"]]
  /\ UNCHANGED <<attempt, free, saved, bill, others>>

Turn(b, p, to) == call' = [call EXCEPT ![b][p] = to]

Request(b, p) ==
  /\ Turn(b, p, "post")
  /\ attempt' = [attempt EXCEPT ![b][p] = @ + 1]

Enter(b, p) ==
  /\ call[b][p] = "wait" /\ free[b] > 0
  /\ free' = [free EXCEPT ![b] = @ - 1]
  /\ Request(b, p)
  /\ UNCHANGED <<phase, batch, asked, saved, bill, others>>

\* The permit goes back, whatever the call ends with.
End(b, p, with) ==
  /\ Turn(b, p, with)
  /\ free' = [free EXCEPT ![b] = @ + 1]

\* An answer: its tokens count, even if it is not a picture.  Null content is
\* not caught.
Answer(b, p, t) ==
  /\ call[b][p] = "post"
  /\ \E with \in {"picture", "fallback", "raised"} : End(b, p, with)
  /\ usage' = usage + t
  /\ reported' = reported + t
  /\ UNCHANGED <<phase, batch, asked, attempt, saved, consumed, estimated, others>>

\* Mutant of Refused: the permit is kept.
RefusedKeepsPermit(b, p) ==
  /\ call[b][p] = "post"
  /\ Turn(b, p, "fallback")
  /\ UNCHANGED <<phase, batch, asked, attempt, free, saved, bill, others>>

\* A status that is not tried again, or an answer without choices or JSON.
Refused(b, p) ==
  /\ call[b][p] = "post"
  /\ End(b, p, "fallback")
  /\ UNCHANGED <<phase, batch, asked, attempt, saved, bill, others>>

\* Mutant of Transient: the permit goes back while the call sleeps.
TransientReleases(b, p) ==
  /\ call[b][p] = "post"
  /\ End(b, p, IF attempt[b][p] < MaxRetries THEN "sleep" ELSE "fallback")
  /\ UNCHANGED <<phase, batch, asked, attempt, saved, bill, others>>

\* Mutant of Transient: one request too many.
TransientOnceMore(b, p) ==
  /\ call[b][p] = "post"
  /\ \/ attempt[b][p] <= MaxRetries /\ Turn(b, p, "sleep") /\ UNCHANGED free
     \/ attempt[b][p] > MaxRetries /\ End(b, p, "fallback")
  /\ UNCHANGED <<phase, batch, asked, attempt, saved, bill, others>>

\* A transport error or a status worth another try.  A call that sleeps keeps
\* its permit.
Transient(b, p) ==
  /\ call[b][p] = "post"
  /\ \/ attempt[b][p] < MaxRetries /\ Turn(b, p, "sleep") /\ UNCHANGED free
     \/ attempt[b][p] = MaxRetries /\ End(b, p, "fallback")
  /\ UNCHANGED <<phase, batch, asked, attempt, saved, bill, others>>

Wake(b, p) ==
  /\ call[b][p] = "sleep"
  /\ Request(b, p)
  /\ UNCHANGED <<phase, batch, asked, free, saved, bill, others>>

-----------------------------------------------------------------------------
\* Mutant of Drained: the count stays in the client.
DrainedTwice == consumed' = consumed + usage /\ UNCHANGED usage

\* bill_tokens, with what else the session holds.
Drained == consumed' = consumed + usage /\ usage' = 0

Charged(S) ==
  /\ consumed' = consumed + Estimate * Cardinality(S)
  /\ estimated' = estimated + Cardinality(S)

\* Mutant of AllDrawn: the first picture is enough.
AllDrawnFirst == \E p \in asked[batch] : call[batch][p] \in Drawn

\* gather has a result for every page.
AllDrawn == \A p \in asked[batch] : call[batch][p] \in Drawn

\* Pages that failed get their fallback, over a better picture too.  The
\* drained client now looks as if nothing had been reported, and the estimate
\* is charged on top.
Persist ==
  /\ phase = "gather" /\ AllDrawn
  /\ saved' = [p \in Pages |-> IF p \in asked[batch] THEN batch ELSE saved[p]]
  /\ \/ usage > 0 /\ Drained /\ phase' = "estimate" /\ UNCHANGED estimated
     \/ usage = 0 /\ Charged(asked[batch]) /\ phase' = "think" /\ UNCHANGED usage
  /\ UNCHANGED <<batch, calls, reported, others>>

\* Unless a call nobody waits for has been counted meanwhile.
ChargeEstimate ==
  /\ phase = "estimate"
  /\ phase' = "think"
  /\ \/ usage = 0 /\ Charged(asked[batch])
     \/ usage > 0 /\ UNCHANGED <<consumed, estimated>>
  /\ UNCHANGED <<batch, calls, saved, usage, reported, others>>

SomeRaised == \E p \in asked[batch] : call[batch][p] = "raised"

\* One call has raised: so does gather, without a look at the others.
ToolRaises ==
  /\ phase = "gather" /\ SomeRaised
  /\ phase' = "think"
  /\ UNCHANGED <<batch, calls, saved, bill, others>>

\* The calls a gather waits for are cancelled with it and give their permits
\* back.
CancelCalls ==
  /\ call' = [call EXCEPT ![batch] =
       [p \in Pages |-> IF @[p] \in {"wait"} \cup Holding THEN "cancelled" ELSE @[p]]]
  /\ free' = [free EXCEPT ![batch] = Parallelism]

\* The run ends, at its own end or by the time limit.  Nothing cancels the calls
\* of a gather that has raised.  What the client has counted by then is never
\* billed.
Over ==
  /\ phase # "over"
  /\ phase' = "over"
  /\ \/ phase = "gather" /\ CancelCalls
     \/ (phase = "gather" => SomeRaised) /\ UNCHANGED <<call, free>>
  /\ UNCHANGED <<batch, asked, attempt, saved, bill, others>>

-----------------------------------------------------------------------------
Respond(b, p) == (\E t \in Tokens : Answer(b, p, t)) \/ Refused(b, p) \/ Transient(b, p)

Call(b, p) == Enter(b, p) \/ Respond(b, p) \/ Wake(b, p)

Gathered == Persist \/ ToolRaises

Next ==
  \/ \E t \in Tokens : Complete(t) \/ Plan(t)
  \/ \E S \in (SUBSET Pages) \ {{}} : StartBatch(S)
  \/ \E b \in Batches, p \in Pages : Call(b, p)
  \/ Gathered \/ ChargeEstimate \/ Over

Spec == Init /\ [][Next]_vars

\* The event loop runs what can run, a sleep ends, and the client's time limit
\* gives every request an end.
Fairness ==
  /\ \A b \in Batches, p \in Pages :
       WF_vars(Enter(b, p)) /\ WF_vars(Respond(b, p)) /\ WF_vars(Wake(b, p))
  /\ WF_vars(Gathered)

FairSpec == Spec /\ Fairness

-----------------------------------------------------------------------------
\* Properties.

Holders(b) == {p \in Pages : call[b][p] \in Holding}

\* Batches whose tool has raised, or is about to.
Raised == {b \in Batches : \E p \in Pages : call[b][p] = "raised"}

\* A batch has no more calls at the LLM than the semaphore allows, retries
\* included, and no other batch has any unless its tool has raised
\* (agent_tools.py:469, "parallelism-bounded by the semaphore").
InFlightBounded ==
  \A b \in Batches :
    /\ Cardinality(Holders(b)) <= Parallelism
    /\ Holders(b) # {} => b \in Raised \/ (b = batch /\ phase = "gather")

\* The pictures of a batch are stored together or not at all: where one of them
\* is, every other page has its own or that of a later batch, and no call of the
\* batch has been left out; a batch that is over and has not raised is stored
\* (agent_tools.py:470-480).
BatchAllOrNothing ==
  \A b \in 1..batch :
    /\ (\E p \in Pages : saved[p] = b)
         => \A p \in asked[b] : saved[p] >= b /\ call[b][p] \in Drawn
    /\ b \notin Raised /\ (b < batch \/ phase \in {"think", "estimate"})
         => \A p \in asked[b] : saved[p] >= b

\* Every token of an answer is billed once or waits in the client, however the
\* calls of batches, orphans and the loop interleave; what is billed beyond that
\* is the estimate (agent_tools.py:221-225 and :518-522).
UsageAccounted == consumed + usage = reported + Estimate * estimated

\* No permit is lost and no gather waits for nothing: while a call waits, a
\* permit of its batch is free or held by a call that is under way, and a gather
\* that cannot end yet waits for such a call (agent_tools.py:430-449, :469).
NobodyStuck ==
  /\ \A b \in Batches, p \in Pages : call[b][p] = "wait" => free[b] > 0 \/ Holders(b) # {}
  /\ phase = "gather" =>
       \/ AllDrawn \/ SomeRaised
       \/ \E p \in asked[batch] : call[batch][p] \in {"wait"} \cup Holding

\* Every call of a batch ends, orphans too, and gather with it: no retry, no
\* failure and no cancellation keeps a permit others wait for
\* (agent_tools.py:430-449, llm_client.py:73-117).
CallsEnd ==
  /\ \A b \in Batches, p \in Pages : call[b][p] = "wait" ~> call[b][p] \in Ended
  /\ phase = "gather" ~> phase # "gather"

=============================================================================
