---------------------------- MODULE DeckRunProofs ----------------------------
(***************************************************************************)
(* What DeckRun's run checks on two pages and two runners, for any number  *)
(* of pages, runners, steps, redos and crashes.                            *)
(***************************************************************************)
EXTENDS DeckRun, TLAPS

LEMMA MergeIsDeck ==
  ASSUME NEW d \in Deck, NEW S \in SUBSET Pages, NEW v \in Nat
  PROVE  Merge(d, S, v) \in Deck
BY DEF Merge, Deck

\* A merge with a finished, non-empty batch is not empty.
LEMMA MergeRenders ==
  ASSUME NEW d \in Deck, NEW S \in SUBSET Pages, S # {}, NEW v \in Nat \ {0}
  PROVE  Rendered(Merge(d, S, v)) # {}
<1>1. PICK p \in S : TRUE
  OBVIOUS
<1>2. p \in Rendered(Merge(d, S, v))
  BY DEF Rendered, Merge, Missing
<1> QED
  BY <1>2

-----------------------------------------------------------------------------
\* Every reachable state of DeckRun is well typed, whichever tools the LLM
\* calls and however deliveries, redos and crashes fall.
THEOREM DeckTypeCorrect == Spec => []TypeOK
<1>1. Init => TypeOK
  <2> SUFFICES ASSUME Init PROVE TypeOK
    OBVIOUS
  <2>1. NoSlides \in Deck
    BY DEF NoSlides, Deck, Missing
  <2>2. 0 \in 0..MaxSteps /\ 0 \in 0..MaxRenders /\ MaxRedos \in 0..MaxRedos
        /\ MaxCrashes \in 0..MaxCrashes /\ 0 \in 0..MaxCancels
    BY StepsAssumption, BudgetAssumption
  <2>3. pc \in [Runners -> RunPc] /\ \A r \in Runners : pc[r] = "idle"
    BY DEF Init, RunPc
  <2> QED
    BY <2>1, <2>2, <2>3 DEF Init, TypeOK
<1>2. TypeOK /\ [Next]_vars => TypeOK'
  <2> SUFFICES ASSUME TypeOK, [Next]_vars PROVE TypeOK'
    OBVIOUS
  <2> USE DEF TypeOK, row, queue, session, loop, history, budget, RunPc
  <2>stop. ASSUME NEW r \in Runners, Stop(r)
           PROVE  /\ pc' \in [Runners -> RunPc]
                  /\ held' \in [Runners -> Deck]
                  /\ heldPath' \in [Runners -> BOOLEAN]
                  /\ batch' \in [Runners -> SUBSET Pages]
                  /\ version' \in [Runners -> Nat]
                  /\ step' \in [Runners -> 0..MaxSteps]
                  /\ \A q \in Runners : pc'[q] = "render" => step'[q] < MaxSteps
                  /\ packed' \in [Runners -> BOOLEAN]
    <3>1. NoSlides \in Deck
      BY DEF NoSlides, Deck, Missing
    <3> QED
      BY <2>stop, <3>1, StepsAssumption DEF Stop, Goto
  <2>1. ASSUME NEW r \in Runners, Load(r) PROVE TypeOK'
    <3>1. entries' \in Nat /\ scheduled' \in BOOLEAN
      <4>1. CASE r = Job
        BY <2>1, <4>1 DEF Load, Deliver
      <4>2. CASE r # Job
        BY <2>1, <4>2 DEF Load, Deliver
      <4> QED
        BY <4>1, <4>2
    <3>2. CASE Wanted
      BY <2>1, <3>1, <3>2 DEF Load, Goto
    <3>3. CASE ~Wanted
      BY <2>1, <3>1, <3>3 DEF Load
    <3> QED
      BY <3>2, <3>3
  <2>2. ASSUME NEW r \in Runners, Start(r) PROVE TypeOK'
    BY <2>2 DEF Start, Goto
  <2>3. ASSUME NEW r \in Runners, ClientFails(r) \/ Expire(r) PROVE TypeOK'
    BY <2>3, <2>stop DEF ClientFails, Expire
  <2>4. ASSUME NEW r \in Runners, CallOther(r) PROVE TypeOK'
    BY <2>4, StepsAssumption DEF CallOther, MayCall, NextStep
  <2>5. ASSUME NEW r \in Runners, CallRender(r) PROVE TypeOK'
    BY <2>5, BudgetAssumption DEF CallRender, MayCall, Goto
  <2>6. ASSUME NEW r \in Runners, Persist(r) PROVE TypeOK'
    <3>1. Merge(held[r], batch[r], version[r]) \in Deck
      BY MergeIsDeck
    <3>2. step[r] + 1 \in 0..MaxSteps
      BY <2>6, StepsAssumption DEF Persist
    <3> QED
      BY <2>6, <3>1, <3>2 DEF Persist, NextStep, Goto
  <2>7. ASSUME NEW r \in Runners, CallPackage(r) PROVE TypeOK'
    <3>1. deck' \in Deck
      BY <2>7 DEF CallPackage, Deck
    <3> QED
      BY <2>7, <3>1, StepsAssumption DEF CallPackage, MayCall, NextStep
  <2>8. ASSUME NEW r \in Runners, Finish(r) PROVE TypeOK'
    BY <2>8 DEF Finish, Goto
  <2>9. ASSUME NEW r \in Runners,
               LoopFails(r) \/ NothingRendered(r) \/ AutoPackageFails(r) \/ CommitTimeout(r)
        PROVE  TypeOK'
    <3>1. Fail(r) /\ deck' \in Deck
      BY <2>9 DEF LoopFails, NothingRendered, AutoPackageFails, CommitTimeout
    <3> QED
      BY <3>1, <2>stop DEF Fail
  <2>10. ASSUME NEW r \in Runners, AutoPackage(r) \/ AlreadyPackaged(r) PROVE TypeOK'
    <3>1. CASE AutoPackage(r)
      BY <3>1 DEF AutoPackage, Goto
    <3>2. CASE AlreadyPackaged(r)
      BY <3>2 DEF AlreadyPackaged, Goto
    <3> QED
      BY <2>10, <3>1, <3>2
  <2>11. ASSUME NEW r \in Runners, CommitSuccess(r) PROVE TypeOK'
    BY <2>11, <2>stop DEF CommitSuccess
  <2>12. ASSUME NEW r \in Runners, TimeOut(r) PROVE TypeOK'
    BY <2>12 DEF TimeOut, Goto
  <2>13. ASSUME NEW w \in Workers, CrashWorker(w) PROVE TypeOK'
    BY <2>13, <2>stop, BudgetAssumption DEF CrashWorker, Runners
  <2>api. CASE CrashApi
    <3>1. Stop(Job) /\ Job \in Runners
      BY <2>api DEF CrashApi, Runners
    <3>2. crashesLeft' \in 0..MaxCrashes /\ cancels' \in 0..MaxCancels /\ scheduled' \in BOOLEAN
      <4>1. crashesLeft' \in 0..MaxCrashes
        BY <2>api, BudgetAssumption DEF CrashApi
      <4>2. 0 \in 0..MaxCancels
        BY BudgetAssumption
      <4> QED
        BY <2>api, <4>1, <4>2 DEF CrashApi
    <3> QED
      BY <2>api, <2>stop, <3>1, <3>2 DEF CrashApi
  <2>14. CASE CancelLoad \/ CancelCommit
    BY <2>14, BudgetAssumption DEF CancelLoad, CancelCommit
  <2>15. CASE Redo
    BY <2>15, BudgetAssumption DEF Redo
  <2>16. CASE UNCHANGED vars
    BY <2>16 DEF vars
  <2> QED
    BY <2>1, <2>2, <2>3, <2>4, <2>5, <2>6, <2>7, <2>8, <2>9, <2>10, <2>11, <2>12,
       <2>13, <2>api, <2>14, <2>15, <2>16 DEF Next, RunStep
<1> QED
  BY <1>1, <1>2, PTL DEF Spec

-----------------------------------------------------------------------------
\* The inductive invariant.

\* While runs have not overlapped, the runner at work is the only one, and the
\* slides in its session are those of the row.
OneRun ==
  alone => \A r \in Runners : pc[r] # "idle" =>
    /\ held[r] = saved
    /\ \A q \in Runners : pc[q] # "idle" => q = r

\* A render call in progress has pages and a number.
CallsAreReal == \A r \in Runners : pc[r] = "render" => batch[r] # {} /\ version[r] # 0

\* A path, committed or in a session, stands for a deck; a session's slides
\* and a deck stand for a checkpoint.
PathHasDeck ==
  /\ \A r \in Runners : Rendered(held[r]) # {} => Rendered(saved) # {}
  /\ \A r \in Runners : heldPath[r] \/ pc[r] = "commit" =>
       heldPath[r] /\ Rendered(deck) # {} /\ Rendered(saved) # {}
  /\ path => Rendered(deck) # {} /\ Rendered(saved) # {}
  /\ status = "success" => path

\* A session knows a path the row does not have only when it is about to
\* commit it.
PathIsKnown ==
  \A r \in Runners : heldPath[r] /\ pc[r] \notin {"idle", "commit", "timeout"} => path

\* Before any overlap or redo, the first path ends the task: from then on the
\* deck is the checkpoint and nobody works on the task.
FirstDeck ==
  alone /\ ~redone =>
    /\ \A r \in Runners : pc[r] = "commit" => deck = saved
    /\ path => status \notin Active /\ deck = saved /\ \A r \in Runners : pc[r] = "idle"

DeckInv == OneRun /\ CallsAreReal /\ PathHasDeck /\ PathIsKnown /\ FirstDeck

LEMMA NoSlidesRendered == NoSlides \in Deck /\ Rendered(NoSlides) = {}
BY DEF NoSlides, Deck, Rendered, Missing

\* What closing a session leaves of the invariant.
LEMMA StopClears ==
  ASSUME TypeOK, NEW r \in Runners, Stop(r)
  PROVE  /\ pc' = [pc EXCEPT ![r] = "idle"]
         /\ ~heldPath'[r] /\ Rendered(held'[r]) = {}
         /\ \A q \in Runners \ {r} : /\ held'[q] = held[q] /\ heldPath'[q] = heldPath[q]
                                     /\ batch'[q] = batch[q] /\ version'[q] = version[q]
BY NoSlidesRendered DEF Stop, Goto, TypeOK

LEMMA DeckInvInit == Init => DeckInv
BY NoSlidesRendered
   DEF Init, DeckInv, OneRun, CallsAreReal, PathHasDeck, PathIsKnown, FirstDeck

LEMMA DeckInvKept == TypeOK /\ DeckInv /\ [Next]_vars => DeckInv'
<1> SUFFICES ASSUME TypeOK, DeckInv, [Next]_vars PROVE DeckInv'
  OBVIOUS
<1> USE DEF row, queue, session, loop, history, budget, Active
<1>typed. /\ pc \in [Runners -> RunPc] /\ held \in [Runners -> Deck]
          /\ heldPath \in [Runners -> BOOLEAN] /\ saved \in Deck /\ deck \in Deck
          /\ batch \in [Runners -> SUBSET Pages] /\ version \in [Runners -> Nat]
  BY DEF TypeOK
<1>inv. OneRun /\ CallsAreReal /\ PathHasDeck /\ PathIsKnown /\ FirstDeck
  BY DEF DeckInv
\* A run that ends without success: the session is closed, the row keeps its
\* checkpoint and path, and a stored deck is not empty.
<1>ends. ASSUME NEW r \in Runners, Stop(r), UNCHANGED <<saved, path, alone, redone>>,
                \/ deck' = deck
                \/ pc[r] \notin {"idle", "commit"} /\ deck' = held[r] /\ Rendered(held[r]) # {},
                status' \in {status, "failed", "cancelled"}
         PROVE  DeckInv'
  <2>1. OneRun'
    BY <1>ends, <1>inv, <1>typed, StopClears DEF OneRun
  <2>2. CallsAreReal'
    BY <1>ends, <1>inv, <1>typed, StopClears DEF CallsAreReal
  <2>3. PathHasDeck'
    BY <1>ends, <1>inv, <1>typed, StopClears DEF PathHasDeck
  <2>4. PathIsKnown'
    BY <1>ends, <1>inv, <1>typed, StopClears DEF PathIsKnown
  <2>5. FirstDeck'
    BY <1>ends, <1>inv, <1>typed, StopClears DEF FirstDeck, OneRun
  <2> QED
    BY <2>1, <2>2, <2>3, <2>4, <2>5 DEF DeckInv
\* A step that only moves a runner between two places of its run.
<1>moves. ASSUME NEW r \in Runners, NEW to \in RunPc \ {"idle", "render", "commit"},
                 Goto(r, to), pc[r] \notin {"idle"},
                 to # "timeout" => pc[r] \notin {"commit", "timeout"},
                 UNCHANGED <<saved, path, deck, session, batch, version, alone, redone>>,
                 status' = status \/ status' = "running"
          PROVE  DeckInv'
  <2>1. OneRun'
    BY <1>moves, <1>inv, <1>typed DEF OneRun, Goto
  <2>2. CallsAreReal'
    BY <1>moves, <1>inv, <1>typed DEF CallsAreReal, Goto
  <2>3. PathHasDeck'
    BY <1>moves, <1>inv, <1>typed DEF PathHasDeck, Goto
  <2>4. PathIsKnown'
    BY <1>moves, <1>inv, <1>typed DEF PathIsKnown, Goto
  <2>5. FirstDeck'
    BY <1>moves, <1>inv, <1>typed DEF FirstDeck, Goto
  <2> QED
    BY <2>1, <2>2, <2>3, <2>4, <2>5 DEF DeckInv
<1>1. ASSUME NEW r \in Runners, Load(r) PROVE DeckInv'
  <2>1. CASE ~Wanted
    BY <1>1, <2>1, <1>inv
       DEF Load, DeckInv, OneRun, CallsAreReal, PathHasDeck, PathIsKnown, FirstDeck
  <2>2. CASE Wanted
    <3> DEFINE to == IF status = "running" THEN "resumed" ELSE "loaded"
    <3>0. to \notin {"idle", "render", "commit", "timeout"}
      OBVIOUS
    <3>1. /\ pc' = [pc EXCEPT ![r] = to] /\ pc[r] = "idle"
          /\ held' = [held EXCEPT ![r] = saved] /\ heldPath' = [heldPath EXCEPT ![r] = path]
          /\ alone' = (alone /\ \A q \in Runners : pc[q] = "idle")
          /\ UNCHANGED <<row, deck, loop, redone>>
      BY <1>1, <2>2 DEF Load, Goto
    <3> HIDE DEF to
    <3>2. OneRun'
      BY <3>1, <1>typed DEF OneRun
    <3>3. CallsAreReal'
      BY <3>0, <3>1, <1>inv, <1>typed DEF CallsAreReal
    <3>4. PathHasDeck'
      BY <3>0, <3>1, <1>inv, <1>typed DEF PathHasDeck
    <3>5. PathIsKnown'
      BY <3>0, <3>1, <1>inv, <1>typed DEF PathIsKnown
    <3>6. FirstDeck'
      BY <3>0, <3>1, <2>2, <1>inv, <1>typed DEF FirstDeck, Wanted
    <3> QED
      BY <3>2, <3>3, <3>4, <3>5, <3>6 DEF DeckInv
  <2> QED
    BY <2>1, <2>2
<1>2. ASSUME NEW r \in Runners, Start(r) PROVE DeckInv'
  <2>1. OneRun'
    BY <1>2, <1>inv, <1>typed DEF Start, Goto, OneRun
  <2>2. CallsAreReal'
    BY <1>2, <1>inv, <1>typed DEF Start, Goto, CallsAreReal
  <2>3. PathHasDeck'
    BY <1>2, <1>inv, <1>typed DEF Start, Goto, PathHasDeck
  <2>4. PathIsKnown'
    BY <1>2, <1>inv, <1>typed DEF Start, Goto, PathIsKnown
  <2>5. FirstDeck'
    BY <1>2, <1>inv, <1>typed DEF Start, Goto, FirstDeck
  <2> QED
    BY <2>1, <2>2, <2>3, <2>4, <2>5 DEF DeckInv
<1>3. ASSUME NEW r \in Runners, ClientFails(r) \/ Expire(r) PROVE DeckInv'
  BY <1>3, <1>ends DEF ClientFails, Expire
<1>4. ASSUME NEW r \in Runners, CallOther(r) PROVE DeckInv'
  BY <1>4, <1>inv
     DEF CallOther, DeckInv, OneRun, CallsAreReal, PathHasDeck, PathIsKnown, FirstDeck
<1>5. ASSUME NEW r \in Runners, CallRender(r) PROVE DeckInv'
  <2>0. renders \in Nat /\ pc[r] = "think"
    BY <1>5 DEF TypeOK, CallRender, MayCall
  <2>1. OneRun'
    BY <1>5, <2>0, <1>inv, <1>typed DEF CallRender, Goto, OneRun
  <2>2. CallsAreReal'
    <3>1. PICK S \in (SUBSET Pages) \ {{}} : batch' = [batch EXCEPT ![r] = S]
      BY <1>5 DEF CallRender
    <3>2. version' = [version EXCEPT ![r] = renders + 1] /\ renders + 1 # 0
      BY <1>5, <2>0 DEF CallRender
    <3>3. pc' = [pc EXCEPT ![r] = "render"]
      BY <1>5 DEF CallRender, Goto
    <3>4. batch'[r] # {} /\ version'[r] # 0
      BY <3>1, <3>2, <1>typed
    <3>5. \A q \in Runners \ {r} : /\ pc'[q] = pc[q] /\ batch'[q] = batch[q]
                                  /\ version'[q] = version[q]
      BY <3>1, <3>2, <3>3, <1>typed
    <3> QED
      BY <3>4, <3>5, <1>inv DEF CallsAreReal
  <2>3. PathHasDeck'
    BY <1>5, <2>0, <1>inv, <1>typed DEF CallRender, Goto, PathHasDeck
  <2>4. PathIsKnown'
    BY <1>5, <2>0, <1>inv, <1>typed DEF CallRender, Goto, PathIsKnown
  <2>5. FirstDeck'
    BY <1>5, <2>0, <1>inv, <1>typed DEF CallRender, Goto, FirstDeck
  <2> QED
    BY <2>1, <2>2, <2>3, <2>4, <2>5 DEF DeckInv
<1>6. ASSUME NEW r \in Runners, Persist(r) PROVE DeckInv'
  <2> DEFINE merged == Merge(held[r], batch[r], version[r])
  <2>0. /\ pc[r] = "render" /\ pc' = [pc EXCEPT ![r] = "think"]
        /\ held' = [held EXCEPT ![r] = merged] /\ saved' = merged
        /\ batch' = [batch EXCEPT ![r] = {}] /\ version' = [version EXCEPT ![r] = 0]
        /\ UNCHANGED <<status, path, deck, heldPath, alone, redone>>
    BY <1>6 DEF Persist, Goto
  <2>m. Rendered(merged) # {}
    BY <2>0, <1>inv, <1>typed, MergeRenders DEF CallsAreReal
  <2> HIDE DEF merged
  <2>1. OneRun'
    BY <2>0, <1>inv, <1>typed DEF OneRun
  <2>2. CallsAreReal'
    BY <2>0, <1>inv, <1>typed DEF CallsAreReal
  <2>3. PathHasDeck'
    BY <2>0, <2>m, <1>inv, <1>typed DEF PathHasDeck
  <2>4. PathIsKnown'
    BY <2>0, <1>inv, <1>typed DEF PathIsKnown
  <2>5. FirstDeck'
    BY <2>0, <1>inv, <1>typed DEF FirstDeck, OneRun
  <2> QED
    BY <2>1, <2>2, <2>3, <2>4, <2>5 DEF DeckInv
<1>7. ASSUME NEW r \in Runners, CallPackage(r) PROVE DeckInv'
  <2>0. /\ pc[r] = "think" /\ Rendered(deck') # {}
        /\ UNCHANGED <<row, pc, session, batch, version, alone, redone>>
    BY <1>7 DEF CallPackage, MayCall
  <2>1. OneRun' /\ CallsAreReal' /\ PathIsKnown'
    BY <2>0, <1>inv DEF OneRun, CallsAreReal, PathIsKnown
  <2>2. PathHasDeck'
    BY <2>0, <1>inv DEF PathHasDeck
  <2>3. FirstDeck'
    BY <2>0, <1>inv, <1>typed DEF FirstDeck, OneRun
  <2> QED
    BY <2>1, <2>2, <2>3 DEF DeckInv
<1>8. ASSUME NEW r \in Runners, Finish(r) \/ TimeOut(r) PROVE DeckInv'
  <2>1. CASE Finish(r)
    BY <2>1, <1>moves DEF Finish, RunPc
  <2>2. CASE TimeOut(r)
    BY <2>2, <1>moves DEF TimeOut, RunPc
  <2> QED
    BY <1>8, <2>1, <2>2
<1>9. ASSUME NEW r \in Runners,
             LoopFails(r) \/ NothingRendered(r) \/ AutoPackageFails(r) \/ CommitTimeout(r)
      PROVE  DeckInv'
  BY <1>9, <1>ends DEF LoopFails, NothingRendered, AutoPackageFails, CommitTimeout, Fail
<1>10. ASSUME NEW r \in Runners, AutoPackage(r) PROVE DeckInv'
  <2>0. /\ pc[r] = "finalize" /\ pc' = [pc EXCEPT ![r] = "commit"]
        /\ Rendered(held[r]) # {} /\ deck' = held[r]
        /\ heldPath' = [heldPath EXCEPT ![r] = TRUE]
        /\ UNCHANGED <<row, held, batch, version, alone, redone>>
    BY <1>10 DEF AutoPackage, Goto
  <2>1. OneRun'
    BY <2>0, <1>inv, <1>typed DEF OneRun
  <2>2. CallsAreReal'
    BY <2>0, <1>inv, <1>typed DEF CallsAreReal
  <2>3. PathHasDeck'
    BY <2>0, <1>inv, <1>typed DEF PathHasDeck
  <2>4. PathIsKnown'
    BY <2>0, <1>inv, <1>typed DEF PathIsKnown
  <2>5. FirstDeck'
    BY <2>0, <1>inv, <1>typed DEF FirstDeck, OneRun
  <2> QED
    BY <2>1, <2>2, <2>3, <2>4, <2>5 DEF DeckInv
<1>11. ASSUME NEW r \in Runners, AlreadyPackaged(r) PROVE DeckInv'
  <2>0. /\ pc[r] = "finalize" /\ pc' = [pc EXCEPT ![r] = "commit"]
        /\ heldPath[r]
        /\ UNCHANGED <<row, deck, session, batch, version, alone, redone>>
    BY <1>11 DEF AlreadyPackaged, Goto
  <2>p. path
    BY <2>0, <1>inv DEF PathIsKnown
  <2>1. OneRun'
    BY <2>0, <1>inv, <1>typed DEF OneRun
  <2>2. CallsAreReal'
    BY <2>0, <1>inv, <1>typed DEF CallsAreReal
  <2>3. PathHasDeck'
    BY <2>0, <1>inv, <1>typed DEF PathHasDeck
  <2>4. PathIsKnown'
    BY <2>0, <1>inv, <1>typed DEF PathIsKnown
  <2>5. FirstDeck'
    BY <2>0, <2>p, <1>inv, <1>typed DEF FirstDeck
  <2> QED
    BY <2>1, <2>2, <2>3, <2>4, <2>5 DEF DeckInv
<1>12. ASSUME NEW r \in Runners, CommitSuccess(r) PROVE DeckInv'
  <2>0. /\ pc[r] = "commit" /\ Stop(r) /\ status' = "success" /\ path' = TRUE
        /\ UNCHANGED <<saved, deck, alone, redone>>
    BY <1>12 DEF CommitSuccess
  <2>1. OneRun'
    BY <2>0, <1>inv, <1>typed, StopClears DEF OneRun
  <2>2. CallsAreReal'
    BY <2>0, <1>inv, <1>typed, StopClears DEF CallsAreReal
  <2>3. PathHasDeck'
    BY <2>0, <1>inv, <1>typed, StopClears DEF PathHasDeck
  <2>4. PathIsKnown'
    BY <2>0 DEF PathIsKnown
  <2>5. FirstDeck'
    BY <2>0, <1>inv, <1>typed, StopClears DEF FirstDeck, OneRun
  <2> QED
    BY <2>1, <2>2, <2>3, <2>4, <2>5 DEF DeckInv
<1>dies. ASSUME NEW w \in Workers, CrashWorker(w) PROVE DeckInv'
  BY <1>dies, <1>ends DEF CrashWorker, Runners
<1>api. CASE CrashApi
  BY <1>api, <1>ends DEF CrashApi, Runners
<1>13. CASE CancelLoad \/ CancelCommit
  BY <1>13, <1>inv
     DEF CancelLoad, CancelCommit, DeckInv, OneRun, CallsAreReal, PathHasDeck, PathIsKnown, FirstDeck
<1>14. CASE Redo
  BY <1>14, <1>inv
     DEF Redo, DeckInv, OneRun, CallsAreReal, PathHasDeck, PathIsKnown, FirstDeck
<1>15. CASE UNCHANGED vars
  BY <1>15, <1>inv
     DEF vars, DeckInv, OneRun, CallsAreReal, PathHasDeck, PathIsKnown, FirstDeck
<1> QED
  BY <1>1, <1>2, <1>3, <1>4, <1>5, <1>6, <1>7, <1>8, <1>9, <1>10, <1>11, <1>12,
     <1>dies, <1>api, <1>13, <1>14, <1>15 DEF Next, RunStep

LEMMA DeckInvHolds == Spec => [](TypeOK /\ DeckInv)
BY DeckTypeCorrect, DeckInvInit, DeckInvKept, PTL DEF Spec

-----------------------------------------------------------------------------
\* A task in success has a path, a deck and a checkpoint (_finalize), in every
\* behaviour, overlapping runs and redos included.
THEOREM SuccessAlwaysHasDeck == Spec => []SuccessHasDeck
<1>1. DeckInv => SuccessHasDeck
  BY DEF DeckInv, PathHasDeck, SuccessHasDeck
<1> QED
  BY <1>1, DeckInvHolds, PTL

\* The deck of a task that succeeded at the first attempt is its checkpoint:
\* _finalize packages what _persist_rendered_slides has committed.
THEOREM DeckIsTheCheckpoint == Spec => []DeckIsCheckpoint
<1>1. DeckInv => DeckIsCheckpoint
  BY DEF DeckInv, PathHasDeck, FirstDeck, DeckIsCheckpoint
<1> QED
  BY <1>1, DeckInvHolds, PTL

\* While runs do not overlap, the checkpoint changes only by the pages of a
\* finished render call (_persist_rendered_slides), through any sequence of
\* time-outs, crashes, cancellations and redos.
THEOREM CheckpointOnlyGrows == Spec => CheckpointGrows
<1>1. TypeOK /\ DeckInv /\ [Next]_vars => [alone => ReplacesBatch]_vars
  <2> SUFFICES ASSUME TypeOK, DeckInv, [Next]_vars, alone,
                      NEW p \in Pages, saved'[p] # saved[p]
               PROVE  \E r \in Runners : /\ pc[r] = "render" /\ p \in batch[r]
                                         /\ saved'[p] = version[r]
    BY DEF ReplacesBatch
  <2>1. PICK r \in Runners : Persist(r)
    BY DEF Next, RunStep, vars, row, Load, Start, ClientFails, CallOther, CallRender,
           CallPackage, Finish, LoopFails, NothingRendered, AutoPackage, AutoPackageFails,
           AlreadyPackaged, CommitSuccess, TimeOut, CommitTimeout, Fail, Expire, CrashWorker,
           CrashApi, CancelLoad, CancelCommit, Redo
  <2>2. pc[r] = "render" /\ held[r] = saved
    BY <2>1 DEF Persist, DeckInv, OneRun
  <2>3. saved' = Merge(saved, batch[r], version[r])
    BY <2>1, <2>2 DEF Persist
  <2>4. p \in batch[r] /\ saved'[p] = version[r]
    BY <2>3 DEF Merge
  <2> QED
    BY <2>2, <2>4
<1> QED
  BY <1>1, DeckInvHolds, PTL DEF Spec, CheckpointGrows

-----------------------------------------------------------------------------
(* A run before any redo packages its own deck *)

\* Deliveries before the first redo: one entry and one job, each used once, so
\* that by the time the job has committed a path nobody loads the row any more.
\* Only the job stores a deck, so only the job can get to a path.
OneDelivery ==
  ~redone =>
    /\ entries <= 1
    /\ \A w \in Workers : pc[w] # "idle" => entries = 0
    /\ pc[Job] # "idle" => ~scheduled
    /\ path => ~scheduled /\ pc[Job] = "idle" /\ (entries = 0 \/ ~Wanted)
    /\ \A w \in Workers : ~heldPath[w]
    /\ heldPath[Job] => packed[Job]

LEMMA OneDeliveryKept ==
  ASSUME TypeOK, DeckInv, OneDelivery, [Next]_vars
  PROVE  OneDelivery'
<1> SUFFICES ASSUME ~redone' PROVE OneDelivery'
  BY DEF OneDelivery
<1> USE DEF row, queue, session, loop, history, budget, Active, Wanted
<1>0. ~redone
  BY DEF Next, RunStep, vars, Load, Start, ClientFails, CallOther, CallRender, Persist,
         CallPackage, Finish, LoopFails, NothingRendered, AutoPackage, AutoPackageFails,
         AlreadyPackaged, CommitSuccess, TimeOut, CommitTimeout, Fail, Expire, CrashWorker,
         CrashApi, CancelLoad, CancelCommit, Redo
<1>inv. /\ entries \in Nat /\ entries <= 1
        /\ \A w \in Workers : pc[w] # "idle" => entries = 0
        /\ pc[Job] # "idle" => ~scheduled
        /\ path => ~scheduled /\ pc[Job] = "idle" /\ (entries = 0 \/ status \notin Active)
        /\ \A w \in Workers : ~heldPath[w]
        /\ heldPath[Job] => packed[Job]
  BY <1>0 DEF OneDelivery, TypeOK
<1>typed. /\ pc \in [Runners -> RunPc] /\ heldPath \in [Runners -> BOOLEAN]
          /\ packed \in [Runners -> BOOLEAN]
          /\ Job \in Runners /\ Job \notin Workers /\ Runners = Workers \cup {Job}
  BY JobAssumption DEF TypeOK, Runners
\* The end of a run.
<1>ends. ASSUME NEW r \in Runners, Stop(r), UNCHANGED <<entries, path>>,
                scheduled' \in {scheduled, FALSE}, status' \in {status, "failed", "cancelled"}
         PROVE  OneDelivery'
  <2>1. /\ pc' = [pc EXCEPT ![r] = "idle"] /\ heldPath' = [heldPath EXCEPT ![r] = FALSE]
        /\ packed' = [packed EXCEPT ![r] = FALSE]
    BY <1>ends DEF Stop, Goto
  <2> QED
    BY <1>ends, <2>1, <1>inv, <1>typed DEF OneDelivery
\* A step within a run: it may mark the run as packaged, and a worker's "running"
\* comes after the only entry was used.
<1>moves. ASSUME NEW r \in Runners, pc[r] # "idle",
                 \A q \in Runners \ {r} : pc'[q] = pc[q],
                 UNCHANGED <<entries, scheduled, path, heldPath>>,
                 \A q \in Runners : packed[q] => packed'[q],
                 status' \in {status, "running"}
          PROVE  OneDelivery'
  <2>1. CASE r = Job
    BY <1>moves, <2>1, <1>inv, <1>typed DEF OneDelivery
  <2>2. CASE r \in Workers
    BY <1>moves, <2>2, <1>inv, <1>typed DEF OneDelivery
  <2> QED
    BY <2>1, <2>2, <1>typed
<1>1. ASSUME NEW r \in Runners, Load(r) PROVE OneDelivery'
  <2>1. /\ pc[r] = "idle" /\ UNCHANGED <<status, path, packed>>
        /\ \A q \in Runners \ {r} : pc'[q] = pc[q] /\ heldPath'[q] = heldPath[q]
        /\ pc'[r] # "idle" => status \in Active /\ heldPath'[r] = path
        /\ pc'[r] = "idle" => heldPath'[r] = heldPath[r]
    BY <1>1, <1>typed DEF Load, Goto
  <2>2. CASE r = Job
    <3>1. scheduled /\ ~scheduled' /\ entries' = entries
      BY <1>1, <2>2 DEF Load, Deliver
    <3>2. ~heldPath'[r] \/ heldPath'[r] = heldPath[r]
      BY <2>1, <3>1, <1>inv, <1>typed
    <3> QED
      BY <2>1, <2>2, <3>1, <3>2, <1>inv, <1>typed DEF OneDelivery
  <2>3. CASE r \in Workers
    <3>1. entries = 1 /\ entries' = 0 /\ scheduled' = scheduled
      BY <1>1, <2>3, <1>inv, <1>typed DEF Load, Deliver
    <3>2. ~heldPath'[r]
      BY <2>1, <2>3, <3>1, <1>inv
    <3> QED
      BY <2>1, <2>3, <3>1, <3>2, <1>inv, <1>typed DEF OneDelivery
  <2> QED
    BY <2>2, <2>3, <1>typed
<1>2. ASSUME NEW r \in Runners,
             \/ Start(r) \/ CallOther(r) \/ CallRender(r) \/ Persist(r) \/ CallPackage(r)
             \/ Finish(r) \/ AlreadyPackaged(r) \/ TimeOut(r)
      PROVE  OneDelivery'
  <2>1. /\ pc[r] # "idle" /\ UNCHANGED <<entries, scheduled, path, heldPath>>
        /\ \A q \in Runners \ {r} : pc'[q] = pc[q]
        /\ \A q \in Runners : packed[q] => packed'[q]
        /\ status' \in {status, "running"}
    BY <1>2, <1>typed
    DEF Start, CallOther, CallRender, Persist, CallPackage, Finish, AlreadyPackaged, TimeOut,
        MayCall, Goto
  <2> QED
    BY <2>1, <1>moves
<1>3. ASSUME NEW r \in Runners,
             \/ ClientFails(r) \/ Expire(r) \/ LoopFails(r) \/ NothingRendered(r)
             \/ AutoPackageFails(r) \/ CommitTimeout(r)
      PROVE  OneDelivery'
  BY <1>3, <1>ends
  DEF ClientFails, Expire, LoopFails, NothingRendered, AutoPackageFails, CommitTimeout, Fail
<1>4. ASSUME NEW r \in Runners, AutoPackage(r) PROVE OneDelivery'
  <2>1. /\ r = Job /\ pc[r] = "finalize"
        /\ \A q \in Runners \ {r} : pc'[q] = pc[q] /\ heldPath'[q] = heldPath[q]
        /\ packed'[r] /\ UNCHANGED <<status, path, entries, scheduled>>
    BY <1>4, <1>typed DEF AutoPackage, CanStore, Goto
  <2> QED
    BY <2>1, <1>inv, <1>typed DEF OneDelivery
<1>5. ASSUME NEW r \in Runners, CommitSuccess(r) PROVE OneDelivery'
  <2>1. heldPath[r]
    BY <1>5 DEF CommitSuccess, DeckInv, PathHasDeck
  <2>2. r = Job
    BY <2>1, <1>inv, <1>typed
  <2>3. /\ status' = "success" /\ UNCHANGED <<entries, scheduled>> /\ ~scheduled
        /\ pc' = [pc EXCEPT ![r] = "idle"] /\ heldPath' = [heldPath EXCEPT ![r] = FALSE]
    BY <1>5, <2>2, <1>inv DEF CommitSuccess, Stop, Goto
  <2> QED
    BY <2>2, <2>3, <1>inv, <1>typed DEF OneDelivery
<1>6. ASSUME NEW w \in Workers, CrashWorker(w) PROVE OneDelivery'
  BY <1>6, <1>ends, <1>typed DEF CrashWorker
<1>7. CASE CrashApi
  BY <1>7, <1>ends, <1>typed DEF CrashApi
<1>8. CASE CancelLoad \/ CancelCommit
  BY <1>8, <1>inv DEF CancelLoad, CancelCommit, OneDelivery
<1>9. CASE Redo
  BY <1>9 DEF Redo
<1>10. CASE UNCHANGED vars
  BY <1>10, <1>inv DEF vars, OneDelivery
<1> QED
  BY <1>1, <1>2, <1>3, <1>4, <1>5, <1>6, <1>7, <1>8, <1>9, <1>10 DEF Next, RunStep

\* Before any redo a run that is about to succeed has packaged its own deck
\* (_finalize), for any number of workers, pages and steps, whether or not the
\* worker and the background job overlap: only a redo inherits an earlier deck.
THEOREM PackagedBeforeRedo == Spec => []PackagedUnlessRedone
<1>1. Init => OneDelivery
  BY JobAssumption DEF Init, OneDelivery, Runners
<1>2. TypeOK /\ DeckInv /\ OneDelivery /\ [Next]_vars => OneDelivery'
  BY OneDeliveryKept
<1>3. TypeOK /\ DeckInv /\ OneDelivery => PackagedUnlessRedone
  <2> SUFFICES ASSUME DeckInv, OneDelivery, ~redone, NEW r \in Runners, pc[r] = "commit"
               PROVE  packed[r]
    BY DEF PackagedUnlessRedone, FinishedRunPackaged
  <2>1. heldPath[r]
    BY DEF DeckInv, PathHasDeck
  <2> QED
    BY <2>1 DEF OneDelivery, Runners
<1> QED
  BY <1>1, <1>2, <1>3, DeckInvHolds, PTL DEF Spec

-----------------------------------------------------------------------------
(* The steps of a run are steps of the task lifecycle *)

Agents == (Runners \X {"run"}) \cup ((1..MaxCancels) \X {"cancel"})

LEMMA IsRequeue ==
  ASSUME TypeOK, status' = "queued", Claims' = Claims
  PROVE  Lifecycle!Next
<1>1. Lifecycle!Requeue("task")
  BY DEF TypeOK, Lifecycle!Requeue
<1> QED
  BY <1>1 DEF Lifecycle!Next

LEMMA IsClaim ==
  ASSUME NEW a \in Agents, status \in Active, status' = status, Claims' = Claims \cup {a}
  PROVE  Lifecycle!Next
<1>1. Lifecycle!Claim(a, "task")
  BY DEF Active, Lifecycle!Claim, Lifecycle!Active
<1> QED
  BY <1>1 DEF Lifecycle!Next, Agents

LEMMA IsBegin ==
  ASSUME NEW a \in Agents, a \in Claims, status' = "running", Claims' = Claims
  PROVE  Lifecycle!Next
<1>1. Lifecycle!Begin(a, "task")
  BY DEF Lifecycle!Begin
<1> QED
  BY <1>1 DEF Lifecycle!Next, Agents

LEMMA IsSettle ==
  ASSUME NEW a \in Agents, a \in Claims, status' \in {"success", "failed", "cancelled"},
         Claims' = Claims \ {a}
  PROVE  Lifecycle!Next
<1>1. Lifecycle!Settle(a, "task")
  BY DEF Lifecycle!Settle, Lifecycle!Settled
<1> QED
  BY <1>1 DEF Lifecycle!Next, Agents

LEMMA IsAbandon ==
  ASSUME NEW lost \in SUBSET Agents, status' = status, Claims' = Claims \ lost
  PROVE  Lifecycle!Next
<1>1. Lifecycle!Abandon(lost)
  BY DEF Lifecycle!Abandon
<1> QED
  BY <1>1 DEF Lifecycle!Next, Agents

LEMMA IsStutter ==
  ASSUME status' = status, Claims' = Claims
  PROVE  UNCHANGED Lifecycle!vars
  BY DEF Lifecycle!vars

\* What a runner does to the claims: it takes the task, keeps it, or ends.
LEMMA RunnerClaims ==
  ASSUME NEW r \in Runners, \A q \in Runners \ {r} : pc'[q] = pc[q], cancels' = cancels
  PROVE  /\ <<r, "run">> \in Agents
         /\ pc[r] # "idle" => <<r, "run">> \in Claims
         /\ (pc'[r] = "idle" <=> pc[r] = "idle") => Claims' = Claims
         /\ pc'[r] # "idle" => Claims' = Claims \cup {<<r, "run">>}
         /\ pc'[r] = "idle" => Claims' = Claims \ {<<r, "run">>}
  BY DEF Agents, Claims

LEMMA RunFollows ==
  ASSUME TypeOK, NEW r \in Runners, Load(r) \/ RunStep(r) \/ (r \in Workers /\ CrashWorker(r))
  PROVE  [Lifecycle!Next]_(Lifecycle!vars)
<1> USE DEF row, queue, session, loop, history, budget
<1>0. /\ cancels' = cancels /\ pc \in [Runners -> RunPc]
      /\ \A q \in Runners \ {r} : pc'[q] = pc[q]
  BY DEF TypeOK, Load, RunStep, Start, ClientFails, CallOther, CallRender, Persist, CallPackage,
         Finish, LoopFails, NothingRendered, AutoPackage, AutoPackageFails, AlreadyPackaged,
         CommitSuccess, TimeOut, CommitTimeout, Fail, Expire, CrashWorker, Stop, Goto
<1>1. CASE Load(r) /\ Wanted
  <2>1. status \in Active /\ status' = status /\ pc'[r] # "idle"
    BY <1>0, <1>1 DEF Load, Goto, Wanted
  <2> QED
    BY <1>0, <2>1, RunnerClaims, IsClaim
<1>2. CASE Load(r) /\ ~Wanted
  <2>1. status' = status /\ pc' = pc
    BY <1>2 DEF Load
  <2> QED
    BY <1>0, <2>1, RunnerClaims, IsStutter
<1>3. CASE Start(r)
  <2>1. pc[r] # "idle" /\ pc'[r] # "idle" /\ status' \in {status, "running"}
    BY <1>0, <1>3 DEF Start, Goto
  <2>2. Claims' = Claims /\ <<r, "run">> \in Claims /\ <<r, "run">> \in Agents
    BY <1>0, <2>1, RunnerClaims
  <2> QED
    BY <2>1, <2>2, IsBegin, IsStutter
<1>4. CASE \/ CallOther(r) \/ CallRender(r) \/ Persist(r) \/ CallPackage(r) \/ Finish(r)
           \/ AutoPackage(r) \/ AlreadyPackaged(r) \/ TimeOut(r)
  <2>1. pc[r] # "idle" /\ pc'[r] # "idle" /\ status' = status
    BY <1>0, <1>4
    DEF CallOther, CallRender, Persist, CallPackage, Finish, AutoPackage, AlreadyPackaged,
        TimeOut, MayCall, Goto
  <2> QED
    BY <1>0, <2>1, RunnerClaims, IsStutter
<1>5. CASE \/ Expire(r) \/ LoopFails(r) \/ NothingRendered(r) \/ AutoPackageFails(r)
           \/ CommitSuccess(r) \/ CommitTimeout(r)
  <2>1. /\ pc[r] # "idle" /\ pc'[r] = "idle"
        /\ status' \in {"success", "failed", "cancelled"}
    BY <1>0, <1>5
    DEF Expire, LoopFails, NothingRendered, AutoPackageFails, CommitSuccess, CommitTimeout, Fail,
        Stop, Goto
  <2> QED
    BY <1>0, <2>1, RunnerClaims, IsSettle
<1>6. CASE ClientFails(r) \/ (r \in Workers /\ CrashWorker(r))
  <2>1. pc'[r] = "idle" /\ status' = status
    BY <1>0, <1>6 DEF ClientFails, CrashWorker, Stop, Goto
  <2>2. Claims' = Claims \ {<<r, "run">>} /\ {<<r, "run">>} \in SUBSET Agents
    BY <1>0, <2>1, RunnerClaims
  <2> QED
    BY <2>1, <2>2, IsAbandon
<1> QED
  BY <1>1, <1>2, <1>3, <1>4, <1>5, <1>6 DEF RunStep

LEMMA RequestFollows ==
  ASSUME TypeOK, CancelLoad \/ CancelCommit \/ Redo \/ CrashApi
  PROVE  [Lifecycle!Next]_(Lifecycle!vars)
<1> USE DEF row, queue, session, loop, history, budget
<1>0. MaxCancels \in Nat /\ cancels \in 0..MaxCancels
  BY BudgetAssumption DEF TypeOK
<1>1. CASE CancelLoad
  <2>1. /\ status \in Active /\ status' = status /\ pc' = pc
        /\ cancels < MaxCancels /\ cancels' = cancels + 1
    BY <1>1 DEF CancelLoad
  <2>2. 1..(cancels + 1) = (1..cancels) \cup {cancels + 1} /\ cancels + 1 \in 1..MaxCancels
    BY <1>0, <2>1
  <2>3. Claims' = Claims \cup {<<cancels + 1, "cancel">>} /\ <<cancels + 1, "cancel">> \in Agents
    BY <2>1, <2>2 DEF Claims, Agents
  <2> QED
    BY <2>1, <2>3, IsClaim
<1>2. CASE CancelCommit
  <2>1. status' = "cancelled" /\ pc' = pc /\ cancels > 0 /\ cancels' = cancels - 1
    BY <1>2 DEF CancelCommit
  <2>2. /\ 1..(cancels - 1) = (1..cancels) \ {cancels}
        /\ cancels \in 1..cancels /\ cancels \in 1..MaxCancels
    BY <1>0, <2>1
  <2>3. /\ Claims' = Claims \ {<<cancels, "cancel">>}
        /\ <<cancels, "cancel">> \in Claims /\ <<cancels, "cancel">> \in Agents
    BY <2>1, <2>2 DEF Claims, Agents
  <2> QED
    BY <2>1, <2>3, IsSettle
<1>3. CASE Redo
  <2>1. status' = "queued" /\ pc' = pc /\ cancels' = cancels
    BY <1>3 DEF Redo
  <2> QED
    BY <2>1, IsRequeue DEF Claims
<1>4. CASE CrashApi
  <2> DEFINE lost == {<<Job, "run">>} \cup ((1..MaxCancels) \X {"cancel"})
  <2>1. /\ status' = status /\ cancels' = 0 /\ pc'[Job] = "idle"
        /\ \A q \in Runners \ {Job} : pc'[q] = pc[q]
    BY <1>4 DEF CrashApi, Stop, Goto, TypeOK, Runners
  <2>2. 1..0 = {} /\ 1..cancels \subseteq 1..MaxCancels
    BY <1>0
  <2>3. {r \in Runners : pc'[r] # "idle"} = {r \in Runners : pc[r] # "idle"} \ {Job}
    BY <2>1
  <2>4. Claims' = Claims \ lost
    BY <2>1, <2>2, <2>3 DEF Claims
  <2>5. lost \in SUBSET Agents
    BY DEF Agents, Runners
  <2> HIDE DEF lost
  <2> QED
    BY <2>1, <2>4, <2>5, IsAbandon
<1> QED
  BY <1>1, <1>2, <1>3, <1>4

\* Inside its runs, too, a task follows the lifecycle the queue promises: every
\* write of its status is by a run or a cancel request that had read it as active
\* and has not finished, or by a redo, for any constants.
THEOREM RunFollowsLifecycle == Spec => FollowsLifecycle
<1>1. TypeOK /\ [Next]_vars => [Lifecycle!Next]_(Lifecycle!vars)
  <2> SUFFICES ASSUME TypeOK, [Next]_vars PROVE [Lifecycle!Next]_(Lifecycle!vars)
    OBVIOUS
  <2>1. CASE UNCHANGED vars
    <3>1. status' = status /\ Claims' = Claims
      BY <2>1 DEF vars, row, queue, Claims
    <3> QED
      BY <3>1, IsStutter
  <2>2. ASSUME NEW w \in Workers, CrashWorker(w) PROVE [Lifecycle!Next]_(Lifecycle!vars)
    BY <2>2, RunFollows DEF Runners
  <2> QED
    BY <2>1, <2>2, RunFollows, RequestFollows DEF Next
<1> QED
  BY <1>1, DeckTypeCorrect, PTL DEF Spec, FollowsLifecycle
=============================================================================
