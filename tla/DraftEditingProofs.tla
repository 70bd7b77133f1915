------------------------- MODULE DraftEditingProofs -------------------------
(***************************************************************************)
(* What DraftEditing's run checks on two tabs and two slides, for any      *)
(* number of tabs, slides and accepted writes.                             *)
(***************************************************************************)
EXTENDS DraftEditing, TLAPS

\* The order an append chooses is one the column takes.
LEMMA AppendedIsOrder == TypeOK => Appended \subseteq Nat
<1> SUFFICES ASSUME TypeOK, NEW o \in Taken \cup {New} PROVE NextOrder(o) \in Nat
  BY DEF Appended
<1>1. CASE o = New
  BY <1>1 DEF NextOrder, New
<1>2. CASE o \in Taken
  BY <1>2 DEF NextOrder, Taken, TypeOK
<1> QED
  BY <1>1, <1>2

\* The revision never exceeds the number of accepted writes: a request adds
\* one to a number that was read when there were no more writes than now.
RevisionBounded ==
  /\ rev <= writes
  /\ content <= writes
  /\ \A t \in Tabs : copy[t].rev <= writes

TypeInv == TypeOK /\ RevisionBounded

LEMMA TypeInvHolds == Spec => []TypeInv
<1> USE DEF TypeInv, TypeOK, RevisionBounded, Row, ReqPc
<1>1. Init => TypeInv
  <2> SUFFICES ASSUME Init PROVE TypeInv
    OBVIOUS
  <2>1. pc \in [Tabs -> ReqPc] /\ \A t \in Tabs : pc[t] = "idle"
    BY DEF Init
  <2>2. copy \in [Tabs -> Row] /\ \A t \in Tabs : copy[t].rev = 0
    BY DEF Init, NoRow
  <2>3. slide \in [Tabs -> Slides \cup {NoSlide}] /\ order \in [Slides -> Nat \cup {New, Gone}]
    BY DEF Init
  <2>4. place \in [Tabs -> Nat] /\ token \in [Tabs -> Nat] /\ known \in [Tabs -> Nat]
    BY DEF Init
  <2>5. rev = 0 /\ content = 0 /\ writes = 0 /\ 0 \in 0..MaxWrites
    BY WritesAssumption DEF Init
  <2>6. \A t \in Tabs : pc[t] \in {"placed", "remove"} => slide[t] \in Slides
    BY <2>1
  <2>7. deleted \in BOOLEAN /\ editor \in BOOLEAN /\ expiry \in BOOLEAN /\ apart \in BOOLEAN
    BY DEF Init
  <2>8. RevisionBounded
    BY <2>2, <2>5
  <2> QED
    BY <2>1, <2>2, <2>3, <2>4, <2>5, <2>6, <2>7, <2>8
<1>2. TypeInv /\ [Next]_vars => TypeInv'
  <2> SUFFICES ASSUME TypeInv, [Next]_vars PROVE TypeInv'
    OBVIOUS
  <2> USE DEF row, lock, request, tab
  <2>begin. ASSUME NEW t \in Tabs, NEW op \in ReqPc \ {"placed"}, Begin(t, op),
                   slide' \in [Tabs -> Slides \cup {NoSlide}],
                   \A u \in Tabs \ {t} : slide'[u] = slide[u],
                   op = "remove" => slide'[t] \in Slides
            PROVE  TypeInv'
    <3>1. copy' \in [Tabs -> Row] /\ \A u \in Tabs : copy'[u].rev <= writes
      BY <2>begin DEF Begin, TheRow
    <3>2. pc' \in [Tabs -> ReqPc]
          /\ \A u \in Tabs : pc'[u] \in {"placed", "remove"} => slide'[u] \in Slides
      BY <2>begin DEF Begin
    <3> QED
      BY <2>begin, <3>1, <3>2 DEF Begin
  <2>end. ASSUME NEW t \in Tabs, End(t)
          PROVE  /\ pc' \in [Tabs -> ReqPc]
                 /\ copy' \in [Tabs -> Row]
                 /\ \A u \in Tabs : copy'[u].rev <= writes
                 /\ slide' \in [Tabs -> Slides \cup {NoSlide}]
                 /\ \A u \in Tabs : pc'[u] \in {"placed", "remove"} => slide'[u] \in Slides
                 /\ place' \in [Tabs -> Nat]
    BY <2>end DEF End, NoRow
  <2>1. ASSUME NEW t \in Tabs, Get(t) PROVE TypeInv'
    BY <2>1 DEF Get, Tell
  <2>2. ASSUME NEW t \in Tabs, UpdateRead(t) \/ DeleteRead(t) \/ AcquireRead(t)
                               \/ ReleaseRead(t) \/ InsertRead(t)
        PROVE  TypeInv'
    BY <2>2, <2>begin DEF UpdateRead, DeleteRead, AcquireRead, ReleaseRead, InsertRead
  <2>3. ASSUME NEW t \in Tabs, RemoveRead(t) PROVE TypeInv'
    BY <2>3, <2>begin DEF RemoveRead
  <2>4. ASSUME NEW t \in Tabs, UpdateWrite(t) PROVE TypeInv'
    <3>1. rev' \in 0..MaxWrites /\ rev' <= writes' /\ writes' \in 0..MaxWrites
          /\ content' \in 0..MaxWrites /\ content' <= writes'
      BY <2>4, WritesAssumption DEF UpdateWrite, CountWrite
    <3>2. \A u \in Tabs : copy'[u].rev <= writes'
      BY <2>4, <2>end DEF UpdateWrite, CountWrite
    <3>3. token' \in [Tabs -> Nat] /\ known' \in [Tabs -> Nat]
      <4>1. writes + 1 \in Nat /\ copy[t].rev + 1 \in Nat /\ copy[t].content \in Nat
        BY WritesAssumption
      <4>2. CASE Tell(t, copy[t].rev + 1, writes + 1)
        BY <4>1, <4>2 DEF Tell
      <4>3. CASE Tell(t, copy[t].rev + 1, copy[t].content)
        BY <4>1, <4>3 DEF Tell
      <4> QED
        BY <2>4, <4>2, <4>3 DEF UpdateWrite
    <3> QED
      BY <2>4, <2>end, <3>1, <3>2, <3>3 DEF UpdateWrite
  <2>5. ASSUME NEW t \in Tabs, DeleteWrite(t) PROVE TypeInv'
    BY <2>5, <2>end DEF DeleteWrite
  <2>6. ASSUME NEW t \in Tabs, AcquireWrite(t) PROVE TypeInv'
    BY <2>6, <2>end DEF AcquireWrite, Tell
  <2>7. ASSUME NEW t \in Tabs, ReleaseWrite(t) PROVE TypeInv'
    BY <2>7, <2>end DEF ReleaseWrite
  <2>8. ASSUME NEW t \in Tabs, InsertPlace(t) PROVE TypeInv'
    <3>1. place' \in [Tabs -> Nat]
      BY <2>8, AppendedIsOrder, OrdersAssumption DEF InsertPlace
    <3>2. pc' \in [Tabs -> ReqPc] /\ slide' \in [Tabs -> Slides \cup {NoSlide}]
          /\ \A u \in Tabs : pc'[u] \in {"placed", "remove"} => slide'[u] \in Slides
      BY <2>8 DEF InsertPlace
    <3> QED
      BY <2>8, <3>1, <3>2 DEF InsertPlace
  <2>9. ASSUME NEW t \in Tabs, InsertWrite(t) PROVE TypeInv'
    <3>1. rev' \in 0..MaxWrites /\ rev' <= writes' /\ writes' \in 0..MaxWrites
          /\ content' <= writes'
      BY <2>9, WritesAssumption DEF InsertWrite, CountWrite
    <3>2. \A u \in Tabs : copy'[u].rev <= writes'
      BY <2>9, <2>end DEF InsertWrite, CountWrite
    <3>3. order' \in [Slides -> Nat \cup {New, Gone}]
      BY <2>9 DEF InsertWrite
    <3> QED
      BY <2>9, <2>end, <3>1, <3>2, <3>3 DEF InsertWrite
  <2>10. ASSUME NEW t \in Tabs, InsertFails(t) \/ Fails(t) PROVE TypeInv'
    BY <2>10, <2>end DEF InsertFails, Fails
  <2>11. ASSUME NEW t \in Tabs, RemoveWrite(t) PROVE TypeInv'
    BY <2>11, <2>end DEF RemoveWrite
  <2>12. CASE UNCHANGED vars
    BY <2>12 DEF vars
  <2> QED
    BY <2>1, <2>2, <2>3, <2>4, <2>5, <2>6, <2>7, <2>8, <2>9, <2>10, <2>11, <2>12
    DEF Next, TabStep
<1> QED
  BY <1>1, <1>2, PTL DEF Spec

\* Every reachable state of DraftEditing is well typed: an append never
\* chooses an order below zero and the revision stays within the writes.
THEOREM DraftTypeCorrect == Spec => []TypeOK
<1>1. TypeInv => TypeOK
  BY DEF TypeInv
<1> QED
  BY <1>1, TypeInvHolds, PTL

-----------------------------------------------------------------------------
\* Whatever requests overlap, two slides never have the same order.
THEOREM OrdersStayUnique == Spec => []OrdersUnique
<1>1. Init => OrdersUnique
  BY DEF Init, OrdersUnique, New
<1>2. TypeInv /\ OrdersUnique /\ [Next]_vars => OrdersUnique'
  <2> SUFFICES ASSUME TypeInv, OrdersUnique, [Next]_vars PROVE OrdersUnique'
    OBVIOUS
  <2> USE DEF TypeInv, TypeOK, OrdersUnique
  <2>1. ASSUME NEW t \in Tabs, InsertWrite(t) PROVE OrdersUnique'
    <3>1. /\ \A s \in Slides : order[s] # place[t]
          /\ \A s \in Slides : order'[s] = IF s = slide[t] THEN place[t] ELSE order[s]
      BY <2>1 DEF InsertWrite, Taken, New, Gone
    <3> QED
      BY <3>1
  <2>2. ASSUME NEW t \in Tabs, RemoveWrite(t) PROVE OrdersUnique'
    BY <2>2 DEF RemoveWrite, Gone
  <2> QED
    BY <2>1, <2>2
    DEF Next, TabStep, vars, row, Get, UpdateRead, UpdateWrite, DeleteRead, DeleteWrite, AcquireRead,
        AcquireWrite, ReleaseRead, ReleaseWrite, InsertRead, InsertPlace, InsertFails, Fails, RemoveRead, Begin
<1> QED
  BY <1>1, <1>2, TypeInvHolds, PTL DEF Spec

\* Whatever requests overlap, a lock that is held has an end.
THEOREM HeldLocksExpire == Spec => []HeldLockExpires
<1>1. Init => HeldLockExpires
  BY DEF Init, HeldLockExpires
<1>2. TypeInv /\ HeldLockExpires /\ [Next]_vars => HeldLockExpires'
  BY DEF TypeInv, TypeOK, HeldLockExpires, Next, TabStep, vars, row, lock, Get, UpdateRead, UpdateWrite,
         DeleteRead, DeleteWrite, AcquireRead, AcquireWrite, ReleaseRead, ReleaseWrite, InsertRead,
         InsertPlace, InsertWrite, InsertFails, Fails, RemoveRead, RemoveWrite, Begin
<1> QED
  BY <1>1, <1>2, TypeInvHolds, PTL DEF Spec

\* No request brings a deleted draft back.
THEOREM DeletionIsFinal == Spec => DeletedIsFinal
<1>1. [Next]_vars => [deleted => deleted']_vars
  BY DEF Next, TabStep, vars, row, Get, UpdateRead, UpdateWrite,
         DeleteRead, DeleteWrite, AcquireRead, AcquireWrite, ReleaseRead, ReleaseWrite, InsertRead,
         InsertPlace, InsertWrite, InsertFails, Fails, RemoveRead, RemoveWrite, Begin
<1> QED
  BY <1>1, PTL DEF Spec, DeletedIsFinal

-----------------------------------------------------------------------------
\* The revision falls short of the accepted writes for good.  A request that
\* read as many revisions as there are writes read the latest.
Latest ==
  /\ \A t \in Tabs : pc[t] # "idle" /\ copy[t].rev = writes => rev = writes
  /\ \A t \in Tabs : token[t] <= writes
  /\ \A t \in Tabs : pc[t] = "update" => token[t] = copy[t].rev

LEMMA LatestHolds == Spec => []Latest
<1>1. Init => Latest
  BY DEF Init, Latest
<1>2. TypeInv /\ Latest /\ [Next]_vars => Latest'
  <2> SUFFICES ASSUME TypeInv, Latest, [Next]_vars PROVE Latest'
    OBVIOUS
  <2> USE DEF TypeInv, TypeOK, RevisionBounded, Row, Latest
  <2>begin. ASSUME NEW t \in Tabs, NEW op \in ReqPc, Begin(t, op), op = "update" => token[t] = rev
            PROVE  Latest'
    BY <2>begin DEF Begin, TheRow, row, tab
  <2>end. ASSUME NEW t \in Tabs, End(t)
          PROVE  \A u \in Tabs : IF u = t THEN pc'[u] = "idle"
                                          ELSE pc'[u] = pc[u] /\ copy'[u] = copy[u]
    BY <2>end DEF End
  <2>1. ASSUME NEW t \in Tabs, Get(t) PROVE Latest'
    BY <2>1 DEF Get, Tell, row, request
  <2>2. ASSUME NEW t \in Tabs, UpdateRead(t) PROVE Latest'
    BY <2>2, <2>begin DEF UpdateRead, ReqPc
  <2>3. ASSUME NEW t \in Tabs, DeleteRead(t) \/ AcquireRead(t) \/ ReleaseRead(t)
                               \/ InsertRead(t) \/ RemoveRead(t)
        PROVE  Latest'
    BY <2>3, <2>begin DEF DeleteRead, AcquireRead, ReleaseRead, InsertRead, RemoveRead, ReqPc
  <2>4. ASSUME NEW t \in Tabs, UpdateWrite(t) PROVE Latest'
    <3>1. End(t) /\ writes' = writes + 1
      BY <2>4 DEF UpdateWrite, CountWrite
    <3>2. \A u \in Tabs : token'[u] = IF u = t THEN copy[t].rev + 1 ELSE token[u]
      BY <2>4 DEF UpdateWrite, Tell
    <3> QED
      BY <2>end, <3>1, <3>2
  <2>5. ASSUME NEW t \in Tabs, End(t), UNCHANGED <<rev, writes, tab>> PROVE Latest'
    BY <2>5, <2>end DEF tab
  <2>6. ASSUME NEW t \in Tabs, AcquireWrite(t) PROVE Latest'
    BY <2>6, <2>end DEF AcquireWrite, Tell
  <2>7. ASSUME NEW t \in Tabs, InsertPlace(t) PROVE Latest'
    BY <2>7 DEF InsertPlace, row, tab
  <2>8. ASSUME NEW t \in Tabs, InsertWrite(t) PROVE Latest'
    BY <2>8, <2>end DEF InsertWrite, CountWrite, tab
  <2>9. CASE UNCHANGED vars
    BY <2>9 DEF vars, row, request, tab
  <2> QED
    BY <2>1, <2>2, <2>3, <2>4, <2>5, <2>6, <2>7, <2>8, <2>9
    DEF Next, TabStep, DeleteWrite, ReleaseWrite, InsertFails, Fails, RemoveWrite, row, tab
<1> QED
  BY <1>1, <1>2, TypeInvHolds, PTL DEF Spec

LEMMA NeverCatchesUp ==
  ASSUME TypeInv, Latest, Next, rev < writes
  PROVE  rev' < writes' /\ rev' # writes'
<1> USE DEF TypeInv, TypeOK, RevisionBounded, Latest
<1>1. ASSUME NEW t \in Tabs, UpdateWrite(t) \/ InsertWrite(t) PROVE rev' < writes' /\ rev' # writes'
  <2>1. pc[t] # "idle" /\ rev' = copy[t].rev + 1 /\ writes' = writes + 1
    BY <1>1 DEF UpdateWrite, InsertWrite, CountWrite
  <2>2. copy[t].rev \in Nat /\ copy[t].rev <= writes /\ copy[t].rev # writes
    BY <2>1 DEF Row
  <2> QED
    BY <2>1, <2>2
<1> QED
  BY <1>1
  DEF Next, TabStep, row, Get, UpdateRead, DeleteRead, DeleteWrite, AcquireRead, AcquireWrite,
      ReleaseRead, ReleaseWrite, InsertRead, InsertPlace, InsertFails, Fails, RemoveRead, RemoveWrite, Begin

\* Whatever requests overlap, a revision that has fallen short of the accepted
\* writes never catches up.
THEOREM LossesStayVisible == Spec => LossStaysVisible
<1>1. TypeInv /\ Latest /\ [Next]_vars => [rev < writes => rev' < writes']_vars
  BY NeverCatchesUp
<1> QED
  BY <1>1, TypeInvHolds, LatestHolds, PTL DEF Spec, LossStaysVisible

-----------------------------------------------------------------------------
\* As long as the revision counts the writes, whoever holds it was given the
\* content with it.
SeenInv ==
  rev = writes =>
    /\ \A t \in Tabs : pc[t] # "idle" /\ copy[t].rev = rev => copy[t].content = content
    /\ \A t \in Tabs : token[t] = rev => known[t] = content

LEMMA SeenInvHolds == Spec => []SeenInv
<1>1. Init => SeenInv
  BY DEF Init, SeenInv
<1>2. TypeInv /\ Latest /\ SeenInv /\ [Next]_vars => SeenInv'
  <2> SUFFICES ASSUME TypeInv, Latest, SeenInv, [Next]_vars, rev' = writes' PROVE SeenInv'
    BY DEF SeenInv
  <2> USE DEF TypeInv, TypeOK, RevisionBounded, Row
  <2>0. rev = writes
    <3>1. CASE Next
      BY <3>1, NeverCatchesUp, WritesAssumption DEF TypeInv
    <3>2. CASE UNCHANGED vars
      BY <3>2 DEF vars, row
    <3> QED
      BY <3>1, <3>2
  <2>begin. ASSUME NEW t \in Tabs, NEW op \in ReqPc, Begin(t, op) PROVE SeenInv'
    BY <2>0, <2>begin DEF Begin, TheRow, SeenInv, row, tab
  <2>end. ASSUME NEW t \in Tabs, End(t)
          PROVE  \A u \in Tabs : IF u = t THEN pc'[u] = "idle"
                                          ELSE pc'[u] = pc[u] /\ copy'[u] = copy[u]
    BY <2>end DEF End
  <2>1. ASSUME NEW t \in Tabs, Get(t) PROVE SeenInv'
    BY <2>0, <2>1 DEF Get, Tell, SeenInv, row, request
  <2>2. ASSUME NEW t \in Tabs, UpdateRead(t) \/ DeleteRead(t) \/ AcquireRead(t) \/ ReleaseRead(t)
                               \/ InsertRead(t) \/ RemoveRead(t)
        PROVE  SeenInv'
    BY <2>2, <2>begin DEF UpdateRead, DeleteRead, AcquireRead, ReleaseRead, InsertRead, RemoveRead, ReqPc
  <2>3. ASSUME NEW t \in Tabs, UpdateWrite(t) PROVE SeenInv'
    <3>0. End(t) /\ pc[t] = "update" /\ rev' = copy[t].rev + 1 /\ writes' = writes + 1
      BY <2>3 DEF UpdateWrite, CountWrite
    <3>1. rev' = writes + 1 /\ copy[t].rev = rev /\ copy[t].content = content
      <4>1. rev' = writes + 1 /\ copy[t].rev + 1 = writes + 1
        BY <3>0
      <4>2. copy[t].rev \in Nat /\ writes \in Nat
        BY WritesAssumption
      <4> HIDE DEF TypeInv, TypeOK, RevisionBounded, Row
      <4>3. copy[t].rev = writes
        BY <4>1, <4>2
      <4> QED
        BY <2>0, <3>0, <4>1, <4>3 DEF SeenInv
    <3>2. \A u \in Tabs : /\ token'[u] = IF u = t THEN writes + 1 ELSE token[u]
                          /\ u = t => known'[u] = content'
      BY <2>0, <2>3, <3>1 DEF UpdateWrite, Tell
    <3> QED
      BY <2>end, <3>0, <3>1, <3>2 DEF SeenInv, Latest
  <2>4. ASSUME NEW t \in Tabs, End(t), UNCHANGED <<rev, content, tab>> PROVE SeenInv'
    BY <2>0, <2>4, <2>end DEF SeenInv, tab
  <2>5. ASSUME NEW t \in Tabs, AcquireWrite(t) PROVE SeenInv'
    BY <2>0, <2>5, <2>end DEF AcquireWrite, Tell, SeenInv
  <2>6. ASSUME NEW t \in Tabs, InsertPlace(t) PROVE SeenInv'
    BY <2>0, <2>6 DEF InsertPlace, SeenInv, row, tab
  <2>7. ASSUME NEW t \in Tabs, InsertWrite(t) PROVE SeenInv'
    <3>1. End(t) /\ rev' = writes + 1 /\ UNCHANGED tab
      BY <2>0, <2>7 DEF InsertWrite, CountWrite
    <3> QED
      BY <2>end, <3>1 DEF SeenInv, Latest, tab
  <2>8. CASE UNCHANGED vars
    BY <2>0, <2>8 DEF vars, row, request, tab, SeenInv
  <2> QED
    BY <2>1, <2>2, <2>3, <2>4, <2>5, <2>6, <2>7, <2>8
    DEF Next, TabStep, DeleteWrite, ReleaseWrite, InsertFails, Fails, RemoveWrite, row, tab
<1> QED
  BY <1>1, <1>2, TypeInvHolds, LatestHolds, PTL DEF Spec

\* Whatever requests overlap, an update that replaces what its tab has not been
\* shown leaves the revision short of the accepted writes.
THEOREM NoSilentLoss == Spec => NoBlindOverwrite
<1>1. TypeInv /\ Latest /\ SeenInv /\ [Next]_vars => [rev' = writes' => SeenByWriter]_vars
  <2> SUFFICES ASSUME TypeInv, Latest, SeenInv, Next, rev' = writes', content' # content
               PROVE  SeenByWriter
    BY DEF SeenByWriter
  <2> USE DEF TypeInv, TypeOK, RevisionBounded
  <2>1. PICK t \in Tabs : UpdateWrite(t)
    BY DEF Next, TabStep, row, Get, UpdateRead, DeleteRead, DeleteWrite, AcquireRead, AcquireWrite,
           ReleaseRead, ReleaseWrite, InsertRead, InsertPlace, InsertWrite, InsertFails, Fails,
           RemoveRead, RemoveWrite, Begin
  <2>2. pc[t] = "update" /\ pc'[t] = "idle" /\ rev' = copy[t].rev + 1 /\ writes' = writes + 1
    BY <2>1 DEF UpdateWrite, CountWrite, End
  <2>3. token[t] = rev /\ rev = writes
    <3>1. copy[t].rev \in Nat
      BY DEF Row
    <3>2. copy[t].rev + 1 = writes + 1
      BY <2>2
    <3>3. copy[t].rev = writes
      BY <3>1, <3>2, WritesAssumption
    <3> QED
      BY <2>2, <3>3 DEF Latest
  <2>4. known[t] = content
    BY <2>3 DEF SeenInv
  <2> QED
    BY <2>2, <2>4 DEF SeenByWriter
<1> QED
  BY <1>1, TypeInvHolds, LatestHolds, SeenInvHolds, PTL DEF Spec, NoBlindOverwrite

-----------------------------------------------------------------------------
\* As long as updates and inserts have not overlapped there is at most one, and
\* the revision it read is still there.
ApartInv ==
  apart =>
    /\ rev = writes
    /\ \A t, u \in Tabs : pc[t] \in Counting /\ pc[u] \in Counting => t = u
    /\ \A t \in Tabs : pc[t] \in Counting => copy[t].rev = rev

LEMMA ApartInvHolds == Spec => []ApartInv
<1>1. Init => ApartInv
  BY DEF Init, ApartInv, Counting
<1>2. TypeInv /\ ApartInv /\ [Next]_vars => ApartInv'
  <2> SUFFICES ASSUME TypeInv, ApartInv, [Next]_vars, apart' PROVE ApartInv'
    BY DEF ApartInv
  <2> USE DEF TypeInv, TypeOK, Row, Counting
  <2>0. apart
    BY DEF Next, TabStep, vars, Get, UpdateRead, UpdateWrite,
           DeleteRead, DeleteWrite, AcquireRead, AcquireWrite, ReleaseRead, ReleaseWrite, InsertRead,
           InsertPlace, InsertWrite, InsertFails, Fails, RemoveRead, RemoveWrite, Begin
  <2>begin. ASSUME NEW t \in Tabs, NEW op \in ReqPc, Begin(t, op) PROVE ApartInv'
    BY <2>0, <2>begin DEF Begin, TheRow, ApartInv, row
  <2>end. ASSUME NEW t \in Tabs, End(t)
          PROVE  \A u \in Tabs : IF u = t THEN pc'[u] = "idle"
                                          ELSE pc'[u] = pc[u] /\ copy'[u] = copy[u]
    BY <2>end DEF End
  <2>1. ASSUME NEW t \in Tabs, Get(t) PROVE ApartInv'
    BY <2>0, <2>1 DEF Get, ApartInv, row, request
  <2>2. ASSUME NEW t \in Tabs, UpdateRead(t) \/ DeleteRead(t) \/ AcquireRead(t) \/ ReleaseRead(t)
                               \/ InsertRead(t) \/ RemoveRead(t)
        PROVE  ApartInv'
    BY <2>2, <2>begin DEF UpdateRead, DeleteRead, AcquireRead, ReleaseRead, InsertRead, RemoveRead, ReqPc
  <2>3. ASSUME NEW t \in Tabs, UpdateWrite(t) \/ InsertWrite(t) PROVE ApartInv'
    <3>1. End(t) /\ pc[t] \in Counting /\ rev' = copy[t].rev + 1 /\ writes' = writes + 1
      BY <2>3 DEF UpdateWrite, InsertWrite, CountWrite
    <3>2. rev' = writes' /\ \A u \in Tabs : pc'[u] \notin Counting
      BY <2>0, <2>end, <3>1 DEF ApartInv
    <3> QED
      BY <3>2 DEF ApartInv
  <2>4. ASSUME NEW t \in Tabs, End(t), UNCHANGED <<rev, writes>> PROVE ApartInv'
    BY <2>0, <2>4, <2>end DEF ApartInv
  <2>5. ASSUME NEW t \in Tabs, InsertPlace(t) PROVE ApartInv'
    BY <2>0, <2>5 DEF InsertPlace, ApartInv, row
  <2>6. CASE UNCHANGED vars
    BY <2>0, <2>6 DEF vars, row, request, ApartInv
  <2> QED
    BY <2>1, <2>2, <2>3, <2>4, <2>5, <2>6
    DEF Next, TabStep, DeleteWrite, AcquireWrite, ReleaseWrite, InsertFails, Fails, RemoveWrite, row
<1> QED
  BY <1>1, <1>2, TypeInvHolds, PTL DEF Spec

\* As long as no two updates or inserts overlap, the revision counts every
\* accepted update and every inserted slide.
THEOREM RevisionCounts == Spec => []RevisionCountsWrites
<1>1. ApartInv => RevisionCountsWrites
  BY DEF ApartInv, RevisionCountsWrites
<1> QED
  BY <1>1, ApartInvHolds, PTL
=============================================================================
