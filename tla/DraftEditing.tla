----------------------------- MODULE DraftEditing -----------------------------
(***************************************************************************)
(* One draft, edited from several tabs of its owner: DraftService, the     *)
(* editor lock, and the handlers of api/drafts.py that commit what they    *)
(* do.  A request reads the row at one await and writes it at a later one; *)
(* the ORM writes only the columns the request changed, over whatever has  *)
(* been committed since, and never checks the version it read.             *)
(*                                                                         *)
(* A refused request (404, 412, 423) changes nothing and has no action.    *)
(* The lock refuses nobody: every handler passes the owner both as owner   *)
(* and as editor, so is_locked_by_other is never true.                     *)
(***************************************************************************)
EXTENDS Integers, FiniteSets

CONSTANTS
  Tabs,        \* open pages of the owner, each with at most one request
  Slides,      \* slides that may be inserted
  InsertAts,   \* values of insert_at
  MaxWrites    \* bound: accepted updates and inserts

ASSUME OrdersAssumption == InsertAts \subseteq Nat
ASSUME WritesAssumption == MaxWrites \in Nat

VARIABLES
  rev,         \* last_saved_revision
  content,     \* title or overall_style, either of them: the update that wrote it
  deleted,     \* deleted_at is set
  editor,      \* editor_user_id is the owner
  expiry,      \* lock_expires_at is set
  order,       \* slide_order of each slide
  pc,          \* the request each tab waits for
  copy,        \* the row as that request read it
  slide,       \* the slide that request is about
  place,       \* the order an insert has chosen
  token,       \* the revision the tab has last been told
  known,       \* the content it has been told with it
  writes,      \* history: accepted updates and inserts
  apart        \* history: no two updates or inserts have overlapped

row     == <<rev, content, deleted, editor, expiry>>
lock    == <<editor, expiry>>
request == <<pc, copy, slide, place>>
tab     == <<token, known>>
vars == <<row, order, request, tab, writes, apart>>

New  == -1        \* not inserted yet
Gone == -2        \* removed: its id does not come back
NoSlide == "none"

ASSUME SlidesAssumption == NoSlide \notin Slides

Row == [rev : Nat, content : Nat, editor : BOOLEAN, expiry : BOOLEAN]
TheRow == [rev |-> rev, content |-> content, editor |-> editor, expiry |-> expiry]
NoRow == [rev |-> 0, content |-> 0, editor |-> FALSE, expiry |-> FALSE]

ReqPc == {"idle", "update", "delete", "acquire", "release", "insert", "placed", "remove"}

TypeOK ==
  /\ rev \in 0..MaxWrites
  /\ content \in 0..MaxWrites
  /\ deleted \in BOOLEAN /\ editor \in BOOLEAN /\ expiry \in BOOLEAN /\ apart \in BOOLEAN
  /\ order \in [Slides -> Nat \cup {New, Gone}]
  /\ pc \in [Tabs -> ReqPc]
  /\ copy \in [Tabs -> Row]
  /\ slide \in [Tabs -> Slides \cup {NoSlide}]
  /\ \A t \in Tabs : pc[t] \in {"placed", "remove"} => slide[t] \in Slides
  /\ place \in [Tabs -> Nat]
  /\ token \in [Tabs -> Nat]
  /\ known \in [Tabs -> Nat]
  /\ writes \in 0..MaxWrites

Init ==
  /\ rev = 0
  /\ content = 0
  /\ deleted = FALSE
  /\ editor = FALSE
  /\ expiry = FALSE
  /\ order = [s \in Slides |-> New]
  /\ pc = [t \in Tabs |-> "idle"]
  /\ copy = [t \in Tabs |-> NoRow]
  /\ slide = [t \in Tabs |-> NoSlide]
  /\ place = [t \in Tabs |-> 0]
  /\ token = [t \in Tabs |-> 0]
  /\ known = [t \in Tabs |-> 0]
  /\ writes = 0
  /\ apart = TRUE

-----------------------------------------------------------------------------
\* Requests that add one to the revision they have read.
Counting == {"update", "insert", "placed"}

\* A request has read the row.
Begin(t, op) ==
  /\ pc[t] = "idle"
  /\ pc' = [pc EXCEPT ![t] = op]
  /\ copy' = [copy EXCEPT ![t] = TheRow]
  /\ apart' = (apart /\ (op \in Counting => \A u \in Tabs : pc[u] \notin Counting))
  /\ UNCHANGED <<row, order, place, tab, writes>>

\* Its transaction is over.
End(t) ==
  /\ pc' = [pc EXCEPT ![t] = "idle"]
  /\ copy' = [copy EXCEPT ![t] = NoRow]
  /\ slide' = [slide EXCEPT ![t] = NoSlide]
  /\ place' = [place EXCEPT ![t] = 0]

Tell(t, r, c) ==
  /\ token' = [token EXCEPT ![t] = r]
  /\ known' = [known EXCEPT ![t] = c]

CountWrite ==
  /\ writes < MaxWrites
  /\ writes' = writes + 1

\* GET /drafts/{id}.
Get(t) ==
  /\ pc[t] = "idle"
  /\ ~deleted
  /\ Tell(t, rev, content)
  /\ UNCHANGED <<row, order, request, writes, apart>>

-----------------------------------------------------------------------------
\* Mutant of UpdateRead: the revision is not compared.
UpdateReadUnchecked(t) ==
  /\ ~deleted
  /\ Begin(t, "update")
  /\ UNCHANGED slide

\* DraftService.update, first half: the row is read and its revision compared
\* with the one the tab sends.
UpdateRead(t) ==
  /\ ~deleted
  /\ token[t] = rev
  /\ Begin(t, "update")
  /\ UNCHANGED slide

\* Mutant of UpdateWrite: the whole row is written back.
UpdateWriteWhole(t) ==
  /\ pc[t] = "update"
  /\ CountWrite
  /\ \E c \in {writes + 1, copy[t].content} :
       content' = c /\ Tell(t, copy[t].rev + 1, c)
  /\ rev' = copy[t].rev + 1
  /\ deleted' = FALSE
  /\ End(t)
  /\ UNCHANGED <<lock, order, apart>>

\* The second half writes the column if the request names it, and in any case
\* one more than the revision that was read.  The answer shows the
\* session's copy of the row.
UpdateWrite(t) ==
  /\ pc[t] = "update"
  /\ CountWrite
  /\ \/ content' = writes + 1 /\ Tell(t, copy[t].rev + 1, writes + 1)
     \/ UNCHANGED content /\ Tell(t, copy[t].rev + 1, copy[t].content)
  /\ rev' = copy[t].rev + 1
  /\ End(t)
  /\ UNCHANGED <<deleted, lock, order, apart>>

\* soft_delete does not look at the lock or the revision.
DeleteRead(t) ==
  /\ ~deleted
  /\ Begin(t, "delete")
  /\ UNCHANGED slide

DeleteWrite(t) ==
  /\ pc[t] = "delete"
  /\ deleted' = TRUE
  /\ End(t)
  /\ UNCHANGED <<rev, content, lock, order, tab, writes, apart>>

-----------------------------------------------------------------------------
AcquireRead(t) ==
  /\ ~deleted
  /\ Begin(t, "acquire")
  /\ UNCHANGED slide

\* Mutant of AcquireWrite: the editor is always written, an end that was there
\* when the row was read is not.
AcquireWriteOnce(t) ==
  /\ pc[t] = "acquire"
  /\ editor' = TRUE
  /\ expiry' = (expiry \/ ~copy[t].expiry)
  /\ Tell(t, copy[t].rev, copy[t].content)
  /\ End(t)
  /\ UNCHANGED <<rev, content, deleted, order, writes, apart>>

\* The end of the lock is always written, the editor only if the row that was
\* read did not have it.
AcquireWrite(t) ==
  /\ pc[t] = "acquire"
  /\ editor' = (editor \/ ~copy[t].editor)
  /\ expiry' = TRUE
  /\ Tell(t, copy[t].rev, copy[t].content)
  /\ End(t)
  /\ UNCHANGED <<rev, content, deleted, order, writes, apart>>

\* release_lock: any tab of the owner counts as the holder.
ReleaseRead(t) ==
  /\ editor
  /\ Begin(t, "release")
  /\ UNCHANGED slide

ReleaseWrite(t) ==
  /\ pc[t] = "release"
  /\ editor' = FALSE
  /\ expiry' = (expiry /\ ~copy[t].expiry)
  /\ End(t)
  /\ UNCHANGED <<rev, content, deleted, order, tab, writes, apart>>

-----------------------------------------------------------------------------
Taken == {order[s] : s \in Slides} \ {New, Gone}

\* The last order of the draft, New if it has no slide.
IsLast(o) == IF Taken = {} THEN o = New
                           ELSE o \in Taken /\ \A x \in Taken : x <= o

\* Mutant of NextOrder: the last order itself.
NextOrderSame(o) == o

\* (max_order or -1) + 1: a draft whose last order is 0 gets 0 again.
NextOrder(o) == IF o = 0 THEN 0 ELSE o + 1

Appended == {NextOrder(o) : o \in {x \in Taken \cup {New} : IsLast(x)}}

\* insert_slide reads the row, then (after the material or the stage) the
\* orders, and writes at the end.
InsertRead(t) ==
  /\ ~deleted
  /\ Begin(t, "insert")
  /\ UNCHANGED slide

InsertPlace(t) ==
  /\ pc[t] = "insert"
  /\ pc' = [pc EXCEPT ![t] = "placed"]
  /\ \E o \in InsertAts \cup Appended : place' = [place EXCEPT ![t] = o]
  /\ \E s \in Slides :
       /\ order[s] = New
       /\ \A u \in Tabs : slide[u] # s
       /\ slide' = [slide EXCEPT ![t] = s]
  /\ UNCHANGED <<row, order, copy, tab, writes, apart>>

\* Mutant of InsertWrite: no unique constraint on draft and order.
InsertWriteAnywhere(t) ==
  /\ pc[t] = "placed"
  /\ CountWrite
  /\ order' = [order EXCEPT ![slide[t]] = place[t]]
  /\ rev' = copy[t].rev + 1
  /\ End(t)
  /\ UNCHANGED <<content, deleted, lock, tab, apart>>

\* Mutant of InsertWrite: the slide is inserted, the revision is forgotten.
InsertWriteUncounted(t) ==
  /\ pc[t] = "placed"
  /\ place[t] \notin Taken
  /\ CountWrite
  /\ order' = [order EXCEPT ![slide[t]] = place[t]]
  /\ End(t)
  /\ UNCHANGED <<row, tab, apart>>

\* The unique constraint compares with what is committed when the insert
\* gets through.
InsertWrite(t) ==
  /\ pc[t] = "placed"
  /\ place[t] \notin Taken
  /\ CountWrite
  /\ order' = [order EXCEPT ![slide[t]] = place[t]]
  /\ rev' = copy[t].rev + 1
  /\ End(t)
  /\ UNCHANGED <<content, deleted, lock, tab, apart>>

\* Mutant of InsertFails: the conflict is handled and the rest is committed.
InsertFailsHalfway(t) ==
  /\ pc[t] = "placed"
  /\ place[t] \in Taken
  /\ rev' = copy[t].rev + 1
  /\ End(t)
  /\ UNCHANGED <<content, deleted, lock, order, tab, writes, apart>>

\* The order is taken: the transaction is rolled back, the client gets a 500.
InsertFails(t) ==
  /\ pc[t] = "placed"
  /\ place[t] \in Taken
  /\ End(t)
  /\ UNCHANGED <<row, order, tab, writes, apart>>

\* delete_slide looks at neither the lock nor the revision, and finds the
\* slides of a deleted draft too.
RemoveRead(t) ==
  /\ \E s \in Slides : order[s] \in Nat /\ slide' = [slide EXCEPT ![t] = s]
  /\ Begin(t, "remove")

\* A slide that is gone by now is gone.
RemoveWrite(t) ==
  /\ pc[t] = "remove"
  /\ order' = [order EXCEPT ![slide[t]] = Gone]
  /\ End(t)
  /\ UNCHANGED <<row, tab, writes, apart>>

\* A statement or the commit of a request fails: its session is rolled back.
Fails(t) ==
  /\ pc[t] # "idle"
  /\ End(t)
  /\ UNCHANGED <<row, order, tab, writes, apart>>

-----------------------------------------------------------------------------
TabStep(t) ==
  \/ Get(t)
  \/ UpdateRead(t) \/ UpdateWrite(t)
  \/ DeleteRead(t) \/ DeleteWrite(t)
  \/ AcquireRead(t) \/ AcquireWrite(t)
  \/ ReleaseRead(t) \/ ReleaseWrite(t)
  \/ InsertRead(t) \/ InsertPlace(t) \/ InsertWrite(t) \/ InsertFails(t)
  \/ RemoveRead(t) \/ RemoveWrite(t) \/ Fails(t)

Next == \E t \in Tabs : TabStep(t)

Spec == Init /\ [][Next]_vars

-----------------------------------------------------------------------------
\* Properties.

\* As long as no two updates or inserts overlap, the revision counts every
\* accepted update and every inserted slide, whatever locks, deletions and
\* removals overlap with them (draft_service.py:94 and :164 add one to a number
\* read earlier).
RevisionCountsWrites == apart => rev = writes

\* Whatever requests overlap, an update that replaces a title or a style its tab
\* has not been shown leaves a trace: the revision then falls short of the
\* accepted writes (draft_service.py:84 compares it at another await than it
\* writes).
SeenByWriter ==
  content' # content =>
    \E t \in Tabs : pc[t] = "update" /\ pc'[t] = "idle" /\ known[t] = content
NoBlindOverwrite == [][rev' = writes' => SeenByWriter]_vars

\* And the trace stays: a revision that has fallen short of the accepted writes
\* never catches up, neither by a write nor by an insert that fails half way
\* (drafts.py:222 commits the slide and the count or neither).
LossStaysVisible == [][rev < writes => rev' < writes']_vars

\* Whatever requests overlap, two slides never have the same order, though
\* two inserts may choose the same one (draft_service.py:145).
OrdersUnique ==
  \A s, q \in Slides : s # q /\ order[s] \in Nat => order[s] # order[q]

\* Whatever requests overlap, a lock that is held has an end, or the sweep
\* could never free it (lock.py:58 and :72 write the columns one by one).
HeldLockExpires == editor => expiry

\* A request that read the draft before it was deleted does not bring it back
\* (draft_service.py:102 and every other write of the row).
DeletedIsFinal == [][deleted => deleted']_vars

=============================================================================
