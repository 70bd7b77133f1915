-------------------------- MODULE RenderBatchProofs --------------------------
(***************************************************************************)
(* RenderBatch for any number of pages, permits, retries, batches and      *)
(* tokens.  TypeInv carries the count of permits, without which the        *)
(* semaphore has no bound; the other invariants rest on it.                *)
(***************************************************************************)
EXTENDS RenderBatch, FiniteSetTheorems, TLAPS

\* A call that waits has asked nothing yet, one that sleeps may ask again.
Attempts ==
  \A b \in Batches, p \in Pages :
    /\ call[b][p] \in {"none", "wait"} => attempt[b][p] = 0
    /\ call[b][p] = "sleep" => attempt[b][p] < MaxRetries

AskedPages ==
  \A b \in Batches :
    /\ b > batch => asked[b] = {}
    /\ \A p \in Pages : call[b][p] = "none" <=> p \notin asked[b]

\* The pages of a batch are those with a call; one is begun before it ends.
Asked ==
  /\ phase \in {"gather", "estimate"} => batch > 0
  /\ AskedPages

\* A permit is free or held.
Permits == \A b \in Batches : free[b] + Cardinality(Holders(b)) = Parallelism

TypeInv == TypeOK /\ Attempts /\ Asked /\ Permits

\* Sets of pages are finite.
LEMMA PagesFinite ==
  ASSUME NEW S \in SUBSET Pages
  PROVE  IsFiniteSet(S) /\ Cardinality(S) \in Nat
BY PagesAssumption, FS_Subset, FS_CardinalityType

\* A call that takes a permit is counted as a holder.
LEMMA PermitTaken ==
  ASSUME TypeInv, NEW b \in Batches, NEW p \in Pages, NEW to \in Holding,
         call[b][p] \notin Holding,
         Turn(b, p, to),
         free' = [free EXCEPT ![b] = @ - 1]
  PROVE  Permits'
<1> USE DEF TypeInv, TypeOK
<1> SUFFICES ASSUME NEW c \in Batches PROVE (free[c] + Cardinality(Holders(c)) = Parallelism)'
  BY DEF Permits
<1>1. CASE c = b
  <2>1. Holders(b)' = Holders(b) \cup {p}
    BY DEF Holders, Turn
  <2>2. p \notin Holders(b) /\ Holders(b) \in SUBSET Pages
    BY DEF Holders
  <2>3. Cardinality(Holders(b)') = Cardinality(Holders(b)) + 1
    BY <2>1, <2>2, PagesFinite, FS_AddElement
  <2> QED  BY <1>1, <2>2, <2>3, PagesFinite, LimitsAssumption DEF Permits
<1>2. CASE c # b
  <2>1. Holders(c)' = Holders(c)
    BY <1>2 DEF Holders, Turn
  <2> QED  BY <1>2, <2>1 DEF Permits
<1> QED  BY <1>1, <1>2

\* A call that ends gives its permit back.
LEMMA PermitReturned ==
  ASSUME TypeInv, NEW b \in Batches, NEW p \in Pages, NEW with \in Ended,
         call[b][p] \in Holding, End(b, p, with)
  PROVE  Permits'
<1> USE DEF TypeInv, TypeOK
<1> SUFFICES ASSUME NEW c \in Batches PROVE (free[c] + Cardinality(Holders(c)) = Parallelism)'
  BY DEF Permits
<1>1. CASE c = b
  <2>1. Holders(b)' = Holders(b) \ {p}
    BY DEF Holders, End, Turn, Holding, Ended, Drawn
  <2>2. p \in Holders(b) /\ Holders(b) \in SUBSET Pages
    BY DEF Holders
  <2>3. Cardinality(Holders(b)') = Cardinality(Holders(b)) - 1
    BY <2>1, <2>2, PagesFinite, FS_RemoveElement
  <2>4. free'[b] = free[b] + 1
    BY DEF End
  <2> QED  BY <1>1, <2>2, <2>3, <2>4, PagesFinite, LimitsAssumption DEF Permits
<1>2. CASE c # b
  <2>1. Holders(c)' = Holders(c) /\ free'[c] = free[c]
    BY <1>2 DEF Holders, End, Turn
  <2> QED  BY <1>2, <2>1 DEF Permits
<1> QED  BY <1>1, <1>2

\* Nothing else moves a permit.
LEMMA PermitsKept ==
  ASSUME TypeInv, UNCHANGED free, \A b \in Batches : Holders(b)' = Holders(b)
  PROVE  Permits'
BY DEF TypeInv, Permits

\* The semaphore is bounded because its permits are counted.
LEMMA FreeBounded ==
  ASSUME Permits', free' \in [Batches -> Nat]
  PROVE  free' \in [Batches -> 0..Parallelism]
<1> SUFFICES ASSUME NEW b \in Batches PROVE free'[b] \in 0..Parallelism
  OBVIOUS
<1>1. Holders(b)' \in SUBSET Pages
  BY DEF Holders
<1> QED  BY <1>1, PagesFinite, LimitsAssumption DEF Permits

\* A step of one call that leaves the rest of the run alone.
LEMMA CallSteps ==
  ASSUME TypeInv, NEW b \in Batches, NEW p \in Pages, Call(b, p)
  PROVE  TypeInv'
<1> USE DEF TypeInv, TypeOK
<1>1. CASE Enter(b, p)
  <2>1. Permits'
    BY <1>1, PermitTaken DEF Enter, Request, Holding
  <2>2. free' \in [Batches -> 0..Parallelism]
    <3>1. free' \in [Batches -> Nat]
      BY <1>1 DEF Enter
    <3> QED  BY <2>1, <3>1, FreeBounded
  <2>3. call[b][p] = "wait" /\ attempt[b][p] = 0
    BY <1>1 DEF Enter, Attempts
  <2>4. Attempts' /\ attempt' \in [Batches -> [Pages -> 0..MaxRetries]]
    BY <1>1, <2>3, LimitsAssumption DEF Enter, Request, Turn, Attempts
  <2>5. Asked'
    BY <1>1, <2>3 DEF Enter, Request, Turn, Asked, AskedPages
  <2> QED  BY <1>1, <2>1, <2>2, <2>4, <2>5 DEF Enter, Request, Turn, Holding, bill
<1>2. ASSUME NEW with \in Ended, call[b][p] = "post", End(b, p, with),
             UNCHANGED <<phase, batch, asked, attempt, saved, others>>,
             {usage', consumed', reported', estimated'} \subseteq Nat
      PROVE  TypeInv'
  <2>1. Permits'
    BY <1>2, PermitReturned DEF Holding
  <2>2. free' \in [Batches -> 0..Parallelism]
    <3>1. free' \in [Batches -> Nat]
      BY <1>2 DEF End
    <3> QED  BY <2>1, <3>1, FreeBounded
  <2>3. Attempts'
    BY <1>2 DEF End, Turn, Attempts, Ended, Drawn
  <2>4. Asked'
    BY <1>2 DEF End, Turn, Asked, AskedPages, Ended, Drawn
  <2>5. call' \in [Batches -> [Pages -> {"none", "wait"} \cup Holding \cup Ended]]
    BY <1>2 DEF End, Turn
  <2> QED  BY <1>2, <2>1, <2>2, <2>3, <2>4, <2>5
<1>3. CASE \E t \in Tokens : Answer(b, p, t)
  <2> PICK t \in Tokens : Answer(b, p, t)
    BY <1>3
  <2>1. {usage', consumed', reported', estimated'} \subseteq Nat
    BY TokensAssumption DEF Answer
  <2> QED  BY <1>2, <2>1 DEF Answer, Ended, Drawn
<1>4. CASE Refused(b, p)
  BY <1>2, <1>4 DEF Refused, bill, Ended, Drawn
<1>5. CASE Transient(b, p)
  <2>1. CASE attempt[b][p] = MaxRetries /\ End(b, p, "fallback")
    BY <1>2, <1>5, <2>1 DEF Transient, bill, Ended, Drawn
  <2>2. CASE attempt[b][p] < MaxRetries /\ Turn(b, p, "sleep") /\ UNCHANGED free
    <3>1. \A c \in Batches : Holders(c)' = Holders(c)
      BY <1>5, <2>2 DEF Transient, Turn, Holders, Holding
    <3>2. Permits'
      BY <2>2, <3>1, PermitsKept
    <3>3. Attempts' /\ Asked'
      BY <1>5, <2>2 DEF Transient, Turn, Attempts, Asked, AskedPages
    <3> QED  BY <1>5, <2>2, <3>2, <3>3 DEF Transient, Turn, Holding, bill
  <2> QED  BY <1>5, <2>1, <2>2 DEF Transient
<1>6. CASE Wake(b, p)
  <2>1. \A c \in Batches : Holders(c)' = Holders(c)
    BY <1>6 DEF Wake, Request, Turn, Holders, Holding
  <2>2. Permits'
    BY <1>6, <2>1, PermitsKept DEF Wake
  <2>3. attempt[b][p] < MaxRetries
    BY <1>6 DEF Wake, Attempts
  <2>4. Attempts' /\ Asked' /\ attempt' \in [Batches -> [Pages -> 0..MaxRetries]]
    BY <1>6, <2>3, LimitsAssumption DEF Wake, Request, Turn, Attempts, Asked, AskedPages
  <2> QED  BY <1>6, <2>2, <2>4 DEF Wake, Request, Turn, Holding, bill
<1> QED  BY <1>1, <1>3, <1>4, <1>5, <1>6 DEF Call, Respond

\* The estimate is a number of tokens.
LEMMA ChargeIsNat ==
  ASSUME TypeInv, NEW S \in SUBSET Pages, Charged(S)
  PROVE  {consumed', estimated'} \subseteq Nat
<1>1. Cardinality(S) \in Nat /\ Estimate \in Nat
  BY PagesFinite, TokensAssumption
<1>2. Estimate * Cardinality(S) \in Nat
  BY <1>1
<1> QED  BY <1>1, <1>2 DEF Charged, TypeInv, TypeOK

\* A batch whose calls are cancelled holds no permit any more.
LEMMA CancelIsType ==
  ASSUME TypeInv, Over, phase = "gather", CancelCalls
  PROVE  TypeInv'
<1> USE DEF TypeInv, TypeOK, Over
<1>1. batch \in Batches
  BY BoundsAssumption DEF Asked, Batches
<1>2. call' \in [Batches -> [Pages -> {"none", "wait"} \cup Holding \cup Ended]]
  BY <1>1 DEF CancelCalls, Ended
<1>3. Permits' /\ free' \in [Batches -> 0..Parallelism]
  <2>1. Holders(batch)' = {}
    BY <1>1 DEF CancelCalls, Holders, Holding
  <2>2. \A b \in Batches : b # batch => Holders(b)' = Holders(b)
    BY <1>1 DEF CancelCalls, Holders
  <2>3. Cardinality(Holders(batch)') = 0
    BY <2>1, FS_EmptySet
  <2>4. free' \in [Batches -> 0..Parallelism]
    BY <1>1, LimitsAssumption DEF CancelCalls
  <2> SUFFICES ASSUME NEW b \in Batches
               PROVE  (free[b] + Cardinality(Holders(b)) = Parallelism)'
    BY <2>4 DEF Permits
  <2>5. CASE b = batch
    BY <2>3, <2>5, LimitsAssumption DEF CancelCalls
  <2>6. CASE b # batch
    BY <2>2, <2>6 DEF CancelCalls, Permits
  <2> QED  BY <2>5, <2>6
<1>4. Attempts'
  BY <1>1 DEF CancelCalls, Attempts
<1>5. Asked'
  <2>1. \A b \in Batches, p \in Pages : call'[b][p] = "none" <=> call[b][p] = "none"
    BY <1>1 DEF CancelCalls, Holding
  <2> QED  BY <2>1 DEF Asked, AskedPages
<1> QED  BY <1>2, <1>3, <1>4, <1>5 DEF bill

LEMMA TypeInvHolds == Spec => []TypeInv
<1> USE DEF TypeInv, TypeOK
<1>1. Init => TypeInv
  <2> SUFFICES ASSUME Init PROVE TypeInv
    OBVIOUS
  <2>1. \A b \in Batches : Holders(b) = {}
    BY DEF Init, Holders, Holding
  <2>2. Permits
    <3>1. \A b \in Batches : free[b] = Parallelism /\ Cardinality(Holders(b)) = 0
      BY <2>1, FS_EmptySet DEF Init
    <3> QED  BY <3>1, LimitsAssumption DEF Permits
  <2>3. Attempts /\ Asked
    BY DEF Init, Attempts, Asked, AskedPages
  <2> QED  BY <2>2, <2>3, LimitsAssumption, BoundsAssumption DEF Init
<1>2. TypeInv /\ [Next]_vars => TypeInv'
  <2> SUFFICES ASSUME TypeInv, [Next]_vars PROVE TypeInv'
    OBVIOUS
  <2>same. ASSUME UNCHANGED calls, batch' = batch,
                  phase' \in {"think", "gather", "estimate", "over"},
                  saved' \in [Pages -> 0..batch],
                  {usage', consumed', reported', estimated'} \subseteq Nat,
                  others' \in 0..MaxOthers,
                  phase' \in {"gather", "estimate"} => batch > 0
           PROVE  TypeInv'
    <3>1. \A b \in Batches : Holders(b)' = Holders(b)
      BY <2>same DEF calls, Holders
    <3>2. Permits'
      BY <2>same, <3>1, PermitsKept DEF calls
    <3>3. Attempts' /\ Asked'
      BY <2>same DEF calls, Attempts, Asked, AskedPages
    <3> QED  BY <2>same, <3>2, <3>3 DEF calls
  <2>1. ASSUME NEW t \in Tokens, Complete(t) \/ Plan(t) PROVE TypeInv'
    <3>1. others' \in 0..MaxOthers
      BY <2>1, BoundsAssumption DEF Complete, Plan
    <3> QED  BY <2>1, <2>same, <3>1, TokensAssumption DEF Complete, Plan
  <2>2. ASSUME NEW S \in SUBSET Pages, StartBatch(S) PROVE TypeInv'
    <3> DEFINE n == batch + 1
    <3>1. n \in Batches /\ n > batch
      BY <2>2, BoundsAssumption DEF StartBatch, Batches
    <3>2. \A p \in Pages : call[n][p] = "none" /\ attempt[n][p] = 0
      BY <3>1 DEF Asked, AskedPages, Attempts
    <3>3. \A b \in Batches : Holders(b)' = Holders(b)
      BY <2>2, <3>1, <3>2 DEF StartBatch, Holders, Holding
    <3>4. Permits'
      BY <2>2, <3>3, PermitsKept DEF StartBatch
    <3>5. Attempts'
      BY <2>2, <3>1, <3>2 DEF StartBatch, Attempts
    <3>6. Asked'
      BY <2>2, <3>1 DEF StartBatch, Asked, AskedPages, Batches
    <3>7. batch' \in 0..MaxBatches /\ saved' \in [Pages -> 0..batch']
      BY <2>2, <3>1, BoundsAssumption DEF StartBatch, Batches
    <3> QED  BY <2>2, <3>1, <3>4, <3>5, <3>6, <3>7 DEF StartBatch, bill
  <2>3. ASSUME NEW b \in Batches, NEW p \in Pages, Call(b, p) PROVE TypeInv'
    BY <2>3, CallSteps
  <2>4. CASE Persist
    <3>1. batch \in Batches
      BY <2>4, BoundsAssumption DEF Persist, Asked, Batches
    <3>2. saved' \in [Pages -> 0..batch]
      BY <2>4 DEF Persist
    <3>3. CASE usage > 0 /\ Drained /\ phase' = "estimate" /\ UNCHANGED estimated
      BY <2>4, <2>same, <3>1, <3>2, <3>3 DEF Persist, Drained, Batches
    <3>4. CASE usage = 0 /\ Charged(asked[batch]) /\ phase' = "think" /\ UNCHANGED usage
      BY <2>4, <2>same, <3>1, <3>2, <3>4, ChargeIsNat DEF Persist
    <3> QED  BY <2>4, <3>3, <3>4 DEF Persist
  <2>5. CASE ChargeEstimate
    <3>1. batch \in Batches
      BY <2>5, BoundsAssumption DEF ChargeEstimate, Asked, Batches
    <3>2. {usage', consumed', reported', estimated'} \subseteq Nat
      BY <2>5, <3>1, ChargeIsNat DEF ChargeEstimate
    <3> QED  BY <2>5, <2>same, <3>2 DEF ChargeEstimate
  <2>6. CASE ToolRaises
    BY <2>6, <2>same DEF ToolRaises, bill
  <2>7. CASE Over
    <3>1. CASE phase = "gather" /\ CancelCalls
      BY <2>7, <3>1, CancelIsType
    <3>2. CASE (phase = "gather" => SomeRaised) /\ UNCHANGED <<call, free>>
      BY <2>7, <2>same, <3>2 DEF Over, calls, bill
    <3> QED  BY <2>7, <3>1, <3>2 DEF Over
  <2>8. CASE UNCHANGED vars
    BY <2>8, <2>same DEF vars, bill, Asked
  <2> QED  BY <2>1, <2>2, <2>3, <2>4, <2>5, <2>6, <2>7, <2>8 DEF Next, Gathered
<1> QED  BY <1>1, <1>2, PTL DEF Spec

\* All state stays in its type: no semaphore has more permits than it was made
\* with, and no call makes more requests than MaxRetries.
THEOREM BatchTypeCorrect == Spec => []TypeOK
<1>1. TypeInv => TypeOK
  BY DEF TypeInv
<1> QED  BY <1>1, TypeInvHolds, PTL

-----------------------------------------------------------------------------
\* A call that has not ended belongs to the batch that is gathered or to one
\* whose tool has raised.
Waiting(b) == \E p \in Pages : call[b][p] \in {"wait"} \cup Holding

NoStrays ==
  \A b \in Batches : Waiting(b) => b \in Raised \/ (b = batch /\ phase = "gather")

LEMMA NoStraysHolds == Spec => []NoStrays
<1> USE DEF Waiting, Raised, Holding
<1>1. Init => NoStrays
  BY DEF Init, NoStrays
<1>2. TypeInv /\ NoStrays /\ [Next]_vars => NoStrays'
  <2> SUFFICES ASSUME TypeInv, NoStrays, [Next]_vars PROVE NoStrays'
    OBVIOUS
  <2>type. call \in [Batches -> [Pages -> {"none", "wait"} \cup Holding \cup Ended]]
           /\ (phase \in {"gather", "estimate"} => batch \in Batches)
           /\ AskedPages
    BY BoundsAssumption DEF TypeInv, TypeOK, Asked, Batches
  <2>1. ASSUME NEW t \in Tokens, Complete(t) \/ Plan(t) PROVE NoStrays'
    BY <2>1 DEF Complete, Plan, calls, NoStrays
  <2>2. ASSUME NEW S \in SUBSET Pages, StartBatch(S) PROVE NoStrays'
    <3>1. batch + 1 \in Batches
      BY <2>2, BoundsAssumption DEF StartBatch, TypeInv, TypeOK, Batches
    <3>2. \A b \in Batches : b # batch + 1 => call'[b] = call[b]
      BY <2>2, <2>type DEF StartBatch
    <3> QED  BY <2>2, <2>type, <3>1, <3>2 DEF StartBatch, NoStrays
  <2>3. ASSUME NEW b \in Batches, NEW p \in Pages, Call(b, p) PROVE NoStrays'
    <3>1. call[b][p] \in {"wait"} \cup Holding
      BY <2>3 DEF Call, Respond, Enter, Answer, Refused, Transient, Wake
    <3>2. \A c \in Batches, q \in Pages : c # b \/ q # p => call'[c][q] = call[c][q]
      BY <2>3, <2>type DEF Call, Respond, Enter, Answer, Refused, Transient, Wake, Request, Turn, End
    <3>3. UNCHANGED <<batch, phase>>
      BY <2>3 DEF Call, Respond, Enter, Answer, Refused, Transient, Wake
    <3> QED  BY <3>1, <3>2, <3>3 DEF NoStrays
  <2>4. CASE Persist
    <3>1. ~Waiting(batch)
      BY <2>4, <2>type DEF Persist, AllDrawn, AskedPages, Drawn
    <3> QED  BY <2>4, <3>1 DEF Persist, calls, NoStrays
  <2>5. CASE ChargeEstimate
    BY <2>5 DEF ChargeEstimate, calls, NoStrays
  <2>6. CASE ToolRaises
    BY <2>6, <2>type DEF ToolRaises, SomeRaised, calls, NoStrays, TypeInv, TypeOK
  <2>7. CASE Over
    <3>1. CASE phase = "gather" /\ CancelCalls
      <4>1. \A b \in Batches \ {batch} : call'[b] = call[b]
        BY <2>type, <3>1 DEF CancelCalls
      <4>2. ~Waiting(batch)'
        BY <2>7, <2>type, <3>1 DEF Over, CancelCalls
      <4> QED  BY <2>7, <4>1, <4>2 DEF Over, NoStrays
    <3>2. CASE (phase = "gather" => SomeRaised) /\ UNCHANGED <<call, free>>
      BY <2>7, <2>type, <3>2 DEF Over, SomeRaised, NoStrays, TypeInv, TypeOK
    <3> QED  BY <2>7, <3>1, <3>2 DEF Over
  <2>8. CASE UNCHANGED vars
    BY <2>8 DEF vars, calls, NoStrays
  <2> QED  BY <2>1, <2>2, <2>3, <2>4, <2>5, <2>6, <2>7, <2>8 DEF Next, Gathered
<1> QED  BY <1>1, <1>2, TypeInvHolds, PTL DEF Spec

\* However batches, retries and cancellations interleave, a batch never has more
\* than Parallelism calls at the LLM, and batches only overlap if a tool raised.
THEOREM CallsInFlight == Spec => []InFlightBounded
<1>1. TypeInv /\ NoStrays => InFlightBounded
  <2> SUFFICES ASSUME TypeInv, NoStrays, NEW b \in Batches
               PROVE  /\ Cardinality(Holders(b)) <= Parallelism
                      /\ Holders(b) # {} => b \in Raised \/ (b = batch /\ phase = "gather")
    BY DEF InFlightBounded
  <2>1. Holders(b) \in SUBSET Pages
    BY DEF Holders
  <2>2. Cardinality(Holders(b)) <= Parallelism
    BY <2>1, PagesFinite, LimitsAssumption DEF TypeInv, TypeOK, Permits
  <2>3. Holders(b) # {} => Waiting(b)
    BY DEF Holders, Waiting
  <2> QED  BY <2>2, <2>3 DEF NoStrays
<1> QED  BY <1>1, TypeInvHolds, NoStraysHolds, PTL

-----------------------------------------------------------------------------
\* What the task was charged and what waits in the client is what the answers
\* reported and the estimate, for any interleaving of calls, orphans and commits.
THEOREM TokensAccounted == Spec => []UsageAccounted
<1> USE DEF UsageAccounted
<1>1. Init => UsageAccounted
  BY TokensAssumption DEF Init
<1>2. TypeInv /\ UsageAccounted /\ [Next]_vars => UsageAccounted'
  <2> SUFFICES ASSUME TypeInv, UsageAccounted, [Next]_vars PROVE UsageAccounted'
    OBVIOUS
  <2>nat. {usage, consumed, reported, estimated} \subseteq Nat /\ Estimate \in Nat
    BY TokensAssumption DEF TypeInv, TypeOK
  <2>charged. ASSUME NEW S \in SUBSET Pages, Charged(S), usage = 0, usage' = 0, UNCHANGED reported
              PROVE  UsageAccounted'
    <3>1. Cardinality(S) \in Nat
      BY PagesFinite
    <3>2. Estimate * (estimated + Cardinality(S)) = Estimate * estimated + Estimate * Cardinality(S)
      BY <2>nat, <3>1
    <3>3. Estimate * estimated \in Nat /\ Estimate * Cardinality(S) \in Nat
      BY <2>nat, <3>1
    <3> QED  BY <2>nat, <2>charged, <3>2, <3>3 DEF Charged
  <2>asked. phase \in {"gather", "estimate"} => asked[batch] \in SUBSET Pages
    <3>1. phase \in {"gather", "estimate"} => batch \in Batches
      BY BoundsAssumption DEF TypeInv, TypeOK, Asked, Batches
    <3> QED  BY <3>1 DEF TypeInv, TypeOK
  <2>more. Estimate * estimated \in Nat
    BY <2>nat
  <2>1. ASSUME NEW t \in Tokens, Complete(t) \/ Plan(t) PROVE UsageAccounted'
    BY <2>1, <2>nat, <2>more, TokensAssumption DEF Complete, Plan
  <2>2. ASSUME NEW S \in SUBSET Pages, StartBatch(S) PROVE UsageAccounted'
    BY <2>2 DEF StartBatch, bill
  <2>3. ASSUME NEW b \in Batches, NEW p \in Pages, Call(b, p) PROVE UsageAccounted'
    <3>1. ASSUME NEW t \in Tokens, Answer(b, p, t) PROVE UsageAccounted'
      BY <3>1, <2>nat, <2>more, TokensAssumption DEF Answer
    <3>2. CASE UNCHANGED bill
      BY <3>2 DEF bill
    <3> QED  BY <2>3, <3>1, <3>2 DEF Call, Respond, Enter, Refused, Transient, Wake
  <2>4. CASE Persist
    <3>1. CASE usage > 0 /\ Drained /\ UNCHANGED estimated
      BY <2>4, <2>nat, <3>1 DEF Persist, Drained
    <3>2. CASE usage = 0 /\ Charged(asked[batch]) /\ UNCHANGED usage
      BY <2>4, <2>asked, <2>charged, <3>2 DEF Persist
    <3> QED  BY <2>4, <3>1, <3>2 DEF Persist
  <2>5. CASE ChargeEstimate
    <3>1. CASE usage = 0 /\ Charged(asked[batch])
      BY <2>5, <2>asked, <2>charged, <3>1 DEF ChargeEstimate
    <3>2. CASE UNCHANGED <<consumed, estimated>>
      BY <2>5, <3>2 DEF ChargeEstimate
    <3> QED  BY <2>5, <3>1, <3>2 DEF ChargeEstimate
  <2>6. CASE ToolRaises \/ Over \/ UNCHANGED vars
    BY <2>6 DEF ToolRaises, Over, vars, bill
  <2> QED  BY <2>1, <2>2, <2>3, <2>4, <2>5, <2>6 DEF Next, Gathered
<1> QED  BY <1>1, <1>2, TypeInvHolds, PTL DEF Spec

-----------------------------------------------------------------------------
\* A call that has been answered, or has raised, keeps what it ended with.
LEMMA EndedIsFinal ==
  ASSUME TypeInv, [Next]_vars, NEW b \in Batches, NEW p \in Pages,
         call[b][p] \in Drawn \cup {"raised"}
  PROVE  call'[b][p] = call[b][p]
<1> USE DEF Drawn, Holding
<1>type. call \in [Batches -> [Pages -> {"none", "wait"} \cup Holding \cup Ended]]
         /\ (phase \in {"gather", "estimate"} => batch \in Batches)
         /\ (batch < MaxBatches => batch + 1 \in Batches)
  BY BoundsAssumption DEF TypeInv, TypeOK, Asked, Batches
<1>1. ASSUME NEW S \in SUBSET Pages, StartBatch(S) PROVE call'[b][p] = call[b][p]
  <2>1. call[batch + 1][p] = "none"
    BY <1>1, <1>type DEF StartBatch, TypeInv, TypeOK, Asked, AskedPages
  <2> QED  BY <1>1, <1>type, <2>1 DEF StartBatch
<1>2. ASSUME NEW c \in Batches, NEW q \in Pages, Call(c, q) PROVE call'[b][p] = call[b][p]
  BY <1>2, <1>type DEF Call, Respond, Enter, Answer, Refused, Transient, Wake, Request, Turn, End
<1>3. CASE Over
  <2>1. CASE phase = "gather" /\ CancelCalls
    BY <1>type, <2>1 DEF CancelCalls
  <2>2. CASE UNCHANGED call
    BY <2>2
  <2> QED  BY <1>3, <2>1, <2>2 DEF Over
<1>4. CASE UNCHANGED call
  BY <1>4
<1> QED  BY <1>1, <1>2, <1>3, <1>4
         DEF Next, Gathered, Complete, Plan, Persist, ChargeEstimate, ToolRaises, vars, calls

\* A picture is stored with all pictures of its batch, however its calls ended,
\* and a batch that did not raise is never dropped.
THEOREM BatchesWhole == Spec => []BatchAllOrNothing
<1>1. Init => BatchAllOrNothing
  BY DEF Init, BatchAllOrNothing
<1>2. TypeInv /\ TypeInv' /\ BatchAllOrNothing /\ [Next]_vars => BatchAllOrNothing'
  <2> SUFFICES ASSUME TypeInv, TypeInv', BatchAllOrNothing, [Next]_vars
               PROVE  BatchAllOrNothing'
    OBVIOUS
  <2> SUFFICES ASSUME NEW b \in Batches, b <= batch'
               PROVE  /\ (\E p \in Pages : saved'[p] = b)
                           => \A p \in asked'[b] : saved'[p] >= b /\ call'[b][p] \in Drawn
                      /\ b \notin Raised' /\ (b < batch' \/ phase' \in {"think", "estimate"})
                           => \A p \in asked'[b] : saved'[p] >= b
    <3>1. batch' \in 0..MaxBatches
      BY DEF TypeInv, TypeOK
    <3>2. \A c \in 1..batch' : c \in Batches /\ c <= batch'
      BY <3>1, BoundsAssumption DEF Batches
    <3> QED  BY <3>2 DEF BatchAllOrNothing
  <2>type. /\ batch \in Nat /\ saved \in [Pages -> 0..batch]
           /\ asked \in [Batches -> SUBSET Pages]
           /\ (b <= batch => b \in 1..batch)
           /\ b \in Nat
    BY BoundsAssumption DEF TypeInv, TypeOK, Batches
  <2>raised. b \notin Raised' => b \notin Raised
    BY EndedIsFinal DEF Raised
  <2>1. ASSUME b <= batch, UNCHANGED <<saved, asked>>,
               b < batch' \/ phase' \in {"think", "estimate"}
                 => b \in Raised \/ b < batch \/ phase \in {"think", "estimate"}
        PROVE  /\ (\E p \in Pages : saved'[p] = b)
                    => \A p \in asked'[b] : saved'[p] >= b /\ call'[b][p] \in Drawn
               /\ b \notin Raised' /\ (b < batch' \/ phase' \in {"think", "estimate"})
                    => \A p \in asked'[b] : saved'[p] >= b
    BY <2>1, <2>type, <2>raised, EndedIsFinal DEF BatchAllOrNothing
  <2> DEFINE Whole ==
        /\ (\E p \in Pages : saved'[p] = b)
             => \A p \in asked'[b] : saved'[p] >= b /\ call'[b][p] \in Drawn
        /\ b \notin Raised' /\ (b < batch' \/ phase' \in {"think", "estimate"})
             => \A p \in asked'[b] : saved'[p] >= b
  <2> HIDE DEF Whole
  <2> SUFFICES Whole
    BY DEF Whole
  <2>keep. ASSUME b <= batch, UNCHANGED <<saved, asked>>,
                  b < batch' \/ phase' \in {"think", "estimate"}
                    => b \in Raised \/ b < batch \/ phase \in {"think", "estimate"}
           PROVE  Whole
    BY <2>1, <2>keep DEF Whole
  <2>2. ASSUME NEW t \in Tokens, Complete(t) \/ Plan(t) PROVE Whole
    BY <2>2, <2>keep DEF Complete, Plan, calls
  <2>3. ASSUME NEW S \in SUBSET Pages, StartBatch(S) PROVE Whole
    <3>1. CASE b = batch + 1
      BY <2>3, <2>type, <3>1 DEF StartBatch, Whole
    <3>2. CASE b <= batch
      <4>1. asked'[b] = asked[b]
        BY <2>3, <2>type, <3>2 DEF StartBatch
      <4>2. b \in 1..batch /\ phase = "think" /\ saved' = saved
        BY <2>3, <2>type, <3>2 DEF StartBatch
      <4> QED  BY <2>type, <2>raised, <4>1, <4>2, EndedIsFinal DEF BatchAllOrNothing, Whole
    <3> QED  BY <2>3, <2>type, <3>1, <3>2 DEF StartBatch
  <2>4. ASSUME NEW c \in Batches, NEW p \in Pages, Call(c, p) PROVE Whole
    BY <2>4, <2>keep DEF Call, Respond, Enter, Answer, Refused, Transient, Wake
  <2>5. CASE Persist
    <3>1. b \in 1..batch /\ asked' = asked /\ call' = call /\ batch' = batch /\ phase = "gather"
      BY <2>5, <2>type DEF Persist, calls
    <3>2. \A p \in Pages : saved'[p] = IF p \in asked[batch] THEN batch ELSE saved[p]
      BY <2>5 DEF Persist
    <3>3. asked[b] \subseteq Pages
      BY <2>type
    <3>4. CASE b = batch
      <4>1. \A p \in asked[b] : saved'[p] = b /\ call[b][p] \in Drawn
        BY <2>5, <3>2, <3>3, <3>4 DEF Persist, AllDrawn
      <4> QED  BY <2>type, <3>1, <4>1 DEF Whole
    <3>5. CASE b # batch
      <4>1. \A p \in Pages : saved'[p] = b => saved[p] = b
        BY <3>2, <3>5
      <4>2. \A p \in asked[b] : saved[p] >= b => saved'[p] >= b
        BY <2>type, <3>1, <3>2, <3>3, <3>5
      <4>3. b < batch
        BY <2>type, <3>1, <3>5
      <4> QED  BY <2>raised, <3>1, <4>1, <4>2, <4>3 DEF BatchAllOrNothing, Whole
    <3> QED  BY <3>4, <3>5
  <2>6. CASE ChargeEstimate
    BY <2>6, <2>type, <2>keep DEF ChargeEstimate, calls
  <2>7. CASE ToolRaises
    <3>1. batch \in Batches => (SomeRaised => batch \in Raised)
      BY DEF SomeRaised, Raised, TypeInv, TypeOK
    <3> QED  BY <2>7, <2>type, <2>keep, <3>1 DEF ToolRaises, calls
  <2>8. CASE Over
    BY <2>8, <2>keep DEF Over, calls
  <2>9. CASE UNCHANGED vars
    BY <2>9, <2>keep DEF vars, calls
  <2> QED  BY <2>2, <2>3, <2>4, <2>5, <2>6, <2>7, <2>8, <2>9 DEF Next, Gathered
<1> QED  BY <1>1, <1>2, TypeInvHolds, PTL DEF Spec

-----------------------------------------------------------------------------
\* Only the end of the run cancels a call.
NoneCancelled ==
  phase # "over" => \A b \in Batches, p \in Pages : call[b][p] # "cancelled"

LEMMA NoneCancelledHolds == Spec => []NoneCancelled
<1>1. Init => NoneCancelled
  BY DEF Init, NoneCancelled
<1>2. TypeInv /\ NoneCancelled /\ [Next]_vars => NoneCancelled'
  <2> SUFFICES ASSUME TypeInv, NoneCancelled, [Next]_vars PROVE NoneCancelled'
    OBVIOUS
  <2>type. call \in [Batches -> [Pages -> {"none", "wait"} \cup Holding \cup Ended]]
    BY DEF TypeInv, TypeOK
  <2>1. ASSUME NEW t \in Tokens, Complete(t) \/ Plan(t) PROVE NoneCancelled'
    BY <2>1 DEF Complete, Plan, calls, NoneCancelled
  <2>2. ASSUME NEW S \in SUBSET Pages, StartBatch(S) PROVE NoneCancelled'
    <3>1. \A b \in Batches, p \in Pages : call'[b][p] \in {call[b][p], "wait", "none"}
      BY <2>2, <2>type DEF StartBatch
    <3> QED  BY <2>2, <3>1 DEF StartBatch, NoneCancelled
  <2>3. ASSUME NEW b \in Batches, NEW p \in Pages, Call(b, p) PROVE NoneCancelled'
    <3>1. \A c \in Batches, q \in Pages :
            call'[c][q] \in {call[c][q], "post", "sleep", "raised"} \cup Drawn
      BY <2>3, <2>type
      DEF Call, Respond, Enter, Answer, Refused, Transient, Wake, Request, Turn, End, Drawn
    <3>2. phase' = phase
      BY <2>3 DEF Call, Respond, Enter, Answer, Refused, Transient, Wake
    <3> QED  BY <3>1, <3>2 DEF NoneCancelled, Drawn
  <2>4. CASE Persist
    BY <2>4 DEF Persist, calls, NoneCancelled
  <2>5. CASE ChargeEstimate \/ ToolRaises
    BY <2>5 DEF ChargeEstimate, ToolRaises, calls, NoneCancelled
  <2>6. CASE Over
    BY <2>6 DEF Over, NoneCancelled
  <2>7. CASE UNCHANGED vars
    BY <2>7 DEF vars, calls, NoneCancelled
  <2> QED  BY <2>1, <2>2, <2>3, <2>4, <2>5, <2>6, <2>7 DEF Next, Gathered
<1> QED  BY <1>1, <1>2, TypeInvHolds, PTL DEF Spec

\* A permit a call waits for is free or held by a call that is under way, and a
\* gather that cannot end waits for one of its own calls: what is left to the end
\* of a batch is the fairness of the event loop.
THEOREM NobodyIsStuck == Spec => []NobodyStuck
<1>1. TypeInv /\ NoneCancelled => NobodyStuck
  <2> SUFFICES ASSUME TypeInv, NoneCancelled PROVE NobodyStuck
    OBVIOUS
  <2>1. ASSUME NEW b \in Batches, Holders(b) = {} PROVE free[b] > 0
    <3>1. Cardinality(Holders(b)) = 0
      BY <2>1, FS_EmptySet
    <3> QED  BY <3>1, LimitsAssumption DEF TypeInv, TypeOK, Permits
  <2>2. ASSUME phase = "gather", ~AllDrawn, ~SomeRaised
        PROVE  \E p \in asked[batch] : call[batch][p] \in {"wait"} \cup Holding
    <3>1. batch \in Batches /\ asked[batch] \subseteq Pages
      <4>1. batch \in Batches
        BY <2>2, BoundsAssumption DEF TypeInv, TypeOK, Asked, Batches
      <4> QED  BY <4>1 DEF TypeInv, TypeOK
    <3>2. PICK p \in asked[batch] : call[batch][p] \notin Drawn
      BY <2>2 DEF AllDrawn
    <3>3. call[batch][p] \notin {"none", "raised", "cancelled"}
      BY <2>2, <3>1, <3>2 DEF SomeRaised, NoneCancelled, TypeInv, Asked, AskedPages
    <3>4. call[batch][p] \in {"none", "wait"} \cup Holding \cup Ended
      BY <3>1, <3>2 DEF TypeInv, TypeOK
    <3> QED  BY <3>2, <3>3, <3>4 DEF Ended
  <2> QED  BY <2>1, <2>2 DEF NobodyStuck
<1> QED  BY <1>1, TypeInvHolds, NoneCancelledHolds, PTL
=============================================================================
