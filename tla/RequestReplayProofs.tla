-------------------------- MODULE RequestReplayProofs --------------------------
(***************************************************************************)
(* What RequestReplay's run checks on two requests, for any number of      *)
(* requests, keys, credentials, providers and operations.                  *)
(***************************************************************************)
EXTENDS RequestReplay, TLAPS

Handling == {"unset", "wait", "flush"}
Answering == {"store", "reply", "done"}

\* Type correctness without the relations between the rows.
Typed ==
  /\ pc \in [Requests -> ReqPc]
  /\ key \in [Requests -> Keys \cup {None}]
  /\ op \in [Requests -> Ops \cup {None}]
  /\ \A r \in Requests : pc[r] # "new" => op[r] \in Ops
  /\ answer \in [Requests -> {"pending", "ok", "refused", "error"}]
  /\ src \in [Requests -> Requests \cup {None}]
  /\ known \in [Requests -> BOOLEAN]
  /\ before \in [Requests -> SUBSET Requests]
  /\ records \subseteq Requests /\ expired \subseteq Requests
  /\ live \subseteq Creds /\ used \subseteq Creds /\ dflt \subseteq Creds
  /\ tx \in [Requests -> {"none", "open", "committed", "aborted"}]
  /\ cred \in [Requests -> Creds \cup {None}]
  /\ loaded \in [Requests -> BOOLEAN]
  /\ snap \in [Requests -> SUBSET Creds]
  /\ cleared \in [Requests -> SUBSET Creds]
  /\ write \in [Requests -> {"nothing", "insert", "update", "delete"}]
  /\ raced \subseteq Providers /\ failed \subseteq Requests
  /\ crashed \in BOOLEAN

\* How the transaction of one request follows the request.
FlowOf(r) ==
  /\ pc[r] = "new" => src[r] = None
  /\ pc[r] \in {"new", "begin"} => tx[r] = "none" /\ cred[r] = None
  /\ pc[r] \in Handling => tx[r] = "open" /\ write[r] = "nothing"
  /\ tx[r] = "open" => pc[r] \in Handling \cup Answering
  /\ tx[r] = "open" /\ op[r].kind # "create" => cred[r] = op[r].on
  /\ pc[r] \in Handling /\ op[r].kind = "create" => cred[r] = None
  /\ write[r] # "nothing" => /\ tx[r] = "open"
                             /\ cred[r] \in Creds
                             /\ ProviderOf[cred[r]] = Provider(op[r])
  /\ write[r] = "insert" => op[r].kind = "create"
  /\ write[r] = "update" => op[r].kind = "update"
  /\ write[r] = "delete" => op[r].kind = "delete"

Flow == \A r \in Requests : FlowOf(r)

TypeInv == Typed /\ Flow

\* What an operation is made of.
LEMMA OpFacts ==
  ASSUME NEW o \in Ops
  PROVE  /\ o.kind \in Kinds /\ o.to \in {"set", "clear", "keep"}
         /\ o.kind = "create" => o.on \in Providers /\ o.to # "clear"
         /\ o.kind # "create" => o.on \in Creds
         /\ o.kind = "delete" => o.to = "keep"
         /\ Provider(o) \in Providers
         /\ o.kind # "create" => ProviderOf[o.on] = Provider(o)
         /\ o.kind = "create" => o.on = Provider(o)
<1>1. o \in Operation
  BY OpsAssumption
<1>2. /\ o.on \in IF o.kind = "create" THEN Providers ELSE Creds
      /\ o.kind = "create" => o.to # "clear"
      /\ o.kind = "delete" => o.to = "keep"
  BY OpsAssumption
<1>3. o.kind \in Kinds /\ o.to \in {"set", "clear", "keep"}
  BY <1>1 DEF Operation
<1> QED
  BY <1>2, <1>3, ProviderAssumption DEF Provider

LEMMA TypeInvHolds == Spec => []TypeInv
<1>1. Init => TypeInv
  <2> SUFFICES ASSUME Init PROVE TypeInv
    OBVIOUS
  <2>1. Typed
    <3>1. pc \in [Requests -> ReqPc] /\ \A r \in Requests : pc[r] = "new"
      BY DEF Init, ReqPc
    <3>2. live \subseteq Creds /\ used \subseteq Creds /\ dflt \subseteq Creds
      BY FirstAssumption DEF Init
    <3> QED
      BY <3>1, <3>2 DEF Init, Typed
  <2>2. Flow
    BY DEF Init, Flow, FlowOf, Handling, Answering
  <2> QED
    BY <2>1, <2>2 DEF TypeInv
<1>2. TypeInv /\ [Next]_vars => TypeInv'
  <2> SUFFICES ASSUME TypeInv, [Next]_vars PROVE TypeInv'
    OBVIOUS
  <2>0. Typed /\ Flow
    BY DEF TypeInv
  <2> USE DEF asked, told, table, rows, work
  \* A step of r that leaves the others alone leaves their flow alone.
  <2>only. ASSUME NEW r \in Requests, Typed', FlowOf(r)',
                  \A q \in Requests \ {r} :
                    /\ pc'[q] = pc[q] /\ tx'[q] = tx[q] /\ src'[q] = src[q] /\ op'[q] = op[q]
                    /\ cred'[q] = cred[q] /\ write'[q] = write[q]
           PROVE  TypeInv'
    BY <2>0, <2>only DEF TypeInv, Flow, FlowOf, Provider
  <2>1. ASSUME NEW r \in Requests, NEW k \in Keys \cup {None}, NEW o \in Ops,
               Replay(r, k, o) \/ Mismatch(r, k, o) \/ Process(r, k, o)
        PROVE  TypeInv'
    <3>1. Typed'
      <4>1. Arrive(r, k, o)
        BY <2>1 DEF Replay, Mismatch, Process
      <4>2. /\ pc' \in [Requests -> ReqPc]
            /\ answer' \in [Requests -> {"pending", "ok", "refused", "error"}]
            /\ src' \in [Requests -> Requests \cup {None}]
        BY <2>0, <2>1 DEF Typed, Replay, Mismatch, Process, Answered, Move, Holder, ReqPc
      <4>3. \A q \in Requests : pc'[q] # "new" => op'[q] \in Ops
        BY <2>0, <2>1, <4>1 DEF Typed, Replay, Mismatch, Process, Move, Arrive
      <4> QED
        BY <2>0, <4>1, <4>2, <4>3 DEF Typed, Arrive
    <3>2. FlowOf(r)'
      BY <2>0, <2>1 DEF Typed, Flow, FlowOf, Replay, Mismatch, Process, Arrive, Answered, Move,
                        Handling, Answering
    <3> QED
      BY <2>0, <2>1, <2>only, <3>1, <3>2
      DEF Typed, Replay, Mismatch, Process, Arrive, Answered, Move
  <2>2. ASSUME NEW r \in Requests, Refuse(r) PROVE TypeInv'
    <3>1. Typed'
      BY <2>0, <2>2 DEF Typed, Refuse, Move, ReqPc
    <3>2. FlowOf(r)'
      BY <2>0, <2>2 DEF Typed, Flow, FlowOf, Refuse, Move, Handling, Answering
    <3> QED
      BY <2>0, <2>2, <2>only, <3>1, <3>2 DEF Typed, Refuse, Move
  <2>3. ASSUME NEW r \in Requests, BeginCreate(r) PROVE TypeInv'
    <3>1. op[r] \in Ops
      BY <2>0, <2>3 DEF Typed, BeginCreate
    <3>2. Typed'
      BY <2>0, <2>3, <3>1, OpFacts DEF Typed, BeginCreate, Open, Move, ReqPc
    <3>3. FlowOf(r)'
      BY <2>0, <2>3 DEF Typed, Flow, FlowOf, BeginCreate, Open, Move, Handling, Answering
    <3> QED
      BY <2>0, <2>3, <2>only, <3>2, <3>3 DEF Typed, BeginCreate, Open, Move
  <2>4. ASSUME NEW r \in Requests, Load(r) PROVE TypeInv'
    <3>1. op[r] \in Ops
      BY <2>0, <2>4 DEF Typed, Load
    <3>2. Typed'
      BY <2>0, <2>4, <3>1, OpFacts DEF Typed, Load, Open, Move, ReqPc
    <3>3. FlowOf(r)'
      BY <2>0, <2>4 DEF Typed, Flow, FlowOf, Load, Open, Move, Handling, Answering
    <3> QED
      BY <2>0, <2>4, <2>only, <3>2, <3>3 DEF Typed, Load, Open, Move
  <2>5. ASSUME NEW r \in Requests, UnsetStart(r) \/ Unset(r) PROVE TypeInv'
    <3>1. Typed'
      BY <2>0, <2>5 DEF Typed, UnsetStart, Unset, Move, Defaults, ReqPc
    <3>2. FlowOf(r)'
      BY <2>0, <2>5 DEF Typed, Flow, FlowOf, UnsetStart, Unset, Move, Handling, Answering
    <3> QED
      BY <2>0, <2>5, <2>only, <3>1, <3>2 DEF Typed, UnsetStart, Unset, Move
  <2>6. ASSUME NEW r \in Requests, FlushInsert(r) \/ FlushUpdate(r) \/ FlushDelete(r) PROVE TypeInv'
    <3>1. op[r] \in Ops /\ pc[r] = "flush"
      BY <2>0, <2>6 DEF Typed, FlushInsert, FlushUpdate, FlushDelete
    <3>2. /\ used' \subseteq Creds /\ cred' \in [Requests -> Creds \cup {None}]
          /\ \A q \in Requests \ {r} : cred'[q] = cred[q]
      BY <2>0, <2>6 DEF Typed, FlushInsert, FlushUpdate, FlushDelete
    <3>3. PICK w \in {"nothing", "insert", "update", "delete"} : Flushed(r, w)
      BY <2>6 DEF FlushInsert, FlushUpdate, FlushDelete
    <3>4. Typed'
      BY <2>0, <3>1, <3>2, <3>3 DEF Typed, Flushed, Move, ReqPc
    <3>5. FlowOf(r)'
      <4>1. tx'[r] = "open" /\ pc'[r] = "store" /\ op' = op
        BY <2>0, <3>1, <3>3 DEF Typed, Flow, FlowOf, Flushed, Move, Handling
      <4>2. CASE FlushInsert(r)
        <5>1. /\ op[r].kind = "create" /\ write'[r] = "insert" /\ cred'[r] \in Creds
              /\ ProviderOf[cred'[r]] = op[r].on
          BY <2>0, <4>2 DEF Typed, FlushInsert, Flushed
        <5> QED
          BY <3>1, <4>1, <5>1, OpFacts DEF FlowOf, Handling, Answering, Provider
      <4>3. CASE FlushUpdate(r)
        <5>1. op[r].kind = "update" /\ write'[r] \in {"nothing", "update"} /\ cred'[r] = op[r].on
          BY <2>0, <3>1, <4>3 DEF Typed, Flow, FlowOf, FlushUpdate, Flushed, Handling
        <5> QED
          BY <3>1, <4>1, <5>1, OpFacts DEF FlowOf, Handling, Answering, Provider
      <4>4. CASE FlushDelete(r)
        <5>1. op[r].kind = "delete" /\ write'[r] = "delete" /\ cred'[r] = op[r].on
          BY <2>0, <3>1, <4>4 DEF Typed, Flow, FlowOf, FlushDelete, Flushed, Handling
        <5> QED
          BY <3>1, <4>1, <5>1, OpFacts DEF FlowOf, Handling, Answering, Provider
      <4> QED
        BY <2>6, <4>2, <4>3, <4>4
    <3> QED
      BY <2>0, <3>2, <3>3, <3>4, <3>5, <2>only DEF Typed, Flushed, Move
  <2>7. ASSUME NEW r \in Requests, Fail(r) PROVE TypeInv'
    <3>1. Typed'
      BY <2>0, <2>7 DEF Typed, Fail, Close, Move, ReqPc
    <3>2. FlowOf(r)'
      BY <2>0, <2>7 DEF Typed, Flow, FlowOf, Fail, Close, Move, Handling, Answering
    <3> QED
      BY <2>0, <2>7, <2>only, <3>1, <3>2 DEF Typed, Fail, Close, Move
  <2>8. ASSUME NEW r \in Requests, EndSession(r) PROVE TypeInv'
    <3>0. PICK end \in {"committed", "aborted"} : Close(r, end)
      BY <2>8 DEF EndSession, Commit, CommitFails, Applied, Undone
    <3>1. dflt' \subseteq Creds /\ live' \subseteq Creds
      <4>1. dflt \subseteq Creds /\ live \subseteq Creds /\ (write[r] # "nothing" => cred[r] \in Creds)
        BY <2>0 DEF Typed, Flow, FlowOf
      <4>2. dflt' \subseteq dflt \cup IF write[r] # "nothing" THEN {cred[r]} ELSE {}
        BY <2>8 DEF EndSession, Commit, CommitFails, Applied, Undone, DefaultsAfter, SetsOwn
      <4>3. live' \subseteq live \cup IF write[r] # "nothing" THEN {cred[r]} ELSE {}
        BY <2>8 DEF EndSession, Commit, CommitFails, Applied, Undone, RowsAfter
      <4> QED
        BY <4>1, <4>2, <4>3
    <3>2. /\ answer' \in [Requests -> {"pending", "ok", "refused", "error"}]
          /\ failed' \subseteq Requests
      BY <2>0, <2>8 DEF Typed, EndSession, Commit, CommitFails, Applied, Undone
    <3>3. UNCHANGED <<pc, asked, src, known, table, used, raced, crashed>>
      BY <2>8 DEF EndSession
    <3>4. Typed'
      BY <2>0, <3>0, <3>1, <3>2, <3>3 DEF Typed, Close
    <3>5. FlowOf(r)'
      BY <2>0, <2>8, <3>0, <3>3 DEF Typed, Flow, FlowOf, EndSession, Close, Handling, Answering
    <3> QED
      BY <2>0, <2>only, <3>0, <3>3, <3>4, <3>5 DEF Typed, Close
  <2>9. ASSUME NEW r \in Requests, Store(r) \/ NoStore(r) \/ Reply(r) \/ Expire(r) PROVE TypeInv'
    <3>1. Typed'
      BY <2>0, <2>9 DEF Typed, Store, NoStore, Reply, Expire, Move, ReqPc
    <3>2. FlowOf(r)'
      BY <2>0, <2>9 DEF Typed, Flow, FlowOf, Store, NoStore, Reply, Expire, Move, Handling, Answering
    <3> QED
      BY <2>0, <2>9, <2>only, <3>1, <3>2 DEF Typed, Store, NoStore, Reply, Expire, Move
  <2>10. ASSUME NEW r \in Requests, StoreConflict(r) PROVE TypeInv'
    <3>1. Typed'
      <4>1. CASE UNCHANGED <<tx, work>>
        BY <2>0, <2>10, <4>1 DEF Typed, StoreConflict, Move, ReqPc
      <4>2. CASE Close(r, "aborted")
        BY <2>0, <2>10, <4>2 DEF Typed, StoreConflict, Close, Move, ReqPc
      <4> QED
        BY <2>10, <4>1, <4>2 DEF StoreConflict
    <3>2. FlowOf(r)'
      BY <2>0, <2>10 DEF Typed, Flow, FlowOf, StoreConflict, Close, Move, Handling, Answering
    <3> QED
      BY <2>0, <2>10, <2>only, <3>1, <3>2 DEF Typed, StoreConflict, Close, Move
  <2>11. CASE Crash
    <3>1. Typed'
      BY <2>0, <2>11 DEF Typed, Crash, ReqPc
    <3>2. Flow'
      BY <2>0, <2>11 DEF Typed, Flow, FlowOf, Crash, Handling, Answering
    <3> QED
      BY <3>1, <3>2 DEF TypeInv
  <2>12. CASE UNCHANGED vars
    BY <2>0, <2>12 DEF vars, TypeInv, Typed, Flow, FlowOf, Provider
  <2> QED
    BY <2>1, <2>2, <2>3, <2>4, <2>5, <2>6, <2>7, <2>8, <2>9, <2>10, <2>11, <2>12
    DEF Next, Lookup, Handle, Finish
<1> QED
  BY <1>1, <1>2, PTL DEF Spec

-----------------------------------------------------------------------------
\* Who is in the table, and who was answered from it.
Kept == records \cup expired

BookOf(r) ==
  /\ pc[r] \notin {"new", "done"} => src[r] = r
  /\ pc[r] = "done" => src[r] \in Requests
  /\ pc[r] \in Answering => answer[r] # "pending"
  /\ r \in Kept => /\ pc[r] \in {"reply", "done", "lost"}
                   /\ src[r] = r /\ key[r] \in Keys /\ known[r]
                   /\ answer[r] \in {"ok", "refused"}
  /\ pc[r] \in {"reply", "done"} /\ src[r] = r /\ key[r] \in Keys /\ answer[r] # "error" /\ known[r]
       => r \in Kept
  /\ src[r] \in Requests \ {r} =>
       /\ pc[r] = "done" /\ src[r] \in Kept /\ key[r] = key[src[r]]
       /\ op[r] = op[src[r]] /\ answer[r] = answer[src[r]]

\* No two records have one slot (the unique index).
SlotsUnique ==
  \A q, r \in records : Slot(key[q], op[q]) = Slot(key[r], op[r]) => q = r

Book ==
  /\ \A r \in Requests : BookOf(r)
  /\ records \cap expired = {}
  /\ SlotsUnique

LEMMA BookHolds == Spec => []Book
<1>1. Init => Book
  BY NoneAssumption DEF Init, Book, BookOf, Kept, SlotsUnique, Answering
<1>2. TypeInv /\ Book /\ [Next]_vars => Book'
  <2> SUFFICES ASSUME TypeInv, Book, [Next]_vars PROVE Book'
    OBVIOUS
  <2>0. Typed /\ Flow
    BY DEF TypeInv
  <2> USE NoneAssumption DEF asked, told, table, rows, work
  \* A step of r that neither answers for others nor changes the table.
  <2>only. ASSUME NEW r \in Requests, BookOf(r)', UNCHANGED table, r \notin Kept \/ UNCHANGED <<key, op, answer>>,
                  \A q \in Requests \ {r} :
                    /\ pc'[q] = pc[q] /\ src'[q] = src[q] /\ key'[q] = key[q] /\ op'[q] = op[q]
                    /\ answer'[q] = answer[q] /\ known'[q] = known[q]
           PROVE  Book'
    <3>1. SlotsUnique'
      BY <2>0, <2>only DEF Typed, Book, SlotsUnique, Kept
    <3>2. \A q \in Requests \ {r} : BookOf(q)'
      BY <2>0, <2>only DEF Typed, Book, BookOf, Kept
    <3> QED
      BY <2>only, <3>1, <3>2 DEF Book
  \* A step that only works on the rows.
  <2>still. ASSUME NEW r \in Requests, UNCHANGED <<asked, src, table>>,
                   \A q \in Requests \ {r} : pc'[q] = pc[q] /\ answer'[q] = answer[q] /\ known'[q] = known[q],
                   pc[r] \in {"begin"} \cup Handling,
                   pc'[r] \in Handling \/ (pc'[r] = "store" /\ answer'[r] # "pending")
            PROVE  Book'
    <3>1. BookOf(r) /\ r \notin Kept
      BY <2>still DEF Book, BookOf, Handling
    <3>2. BookOf(r)'
      BY <3>1, <2>still DEF BookOf, Kept, Handling, Answering
    <3> QED
      BY <2>still, <2>only, <3>1, <3>2
  <2>1. ASSUME NEW r \in Requests, NEW k \in Keys \cup {None}, NEW o \in Ops,
               Replay(r, k, o) \/ Mismatch(r, k, o) \/ Process(r, k, o)
        PROVE  Book'
    <3>1. Arrive(r, k, o) /\ pc[r] = "new" /\ r \notin Kept /\ src[r] = None
      BY <2>0, <2>1 DEF Replay, Mismatch, Process, Arrive, Book, BookOf, Flow, FlowOf
    <3>2. /\ key'[r] = k /\ op'[r] = o
          /\ \A q \in Requests \ {r} : pc'[q] = pc[q] /\ src'[q] = src[q] /\ key'[q] = key[q]
                                       /\ op'[q] = op[q] /\ answer'[q] = answer[q]
      BY <2>0, <2>1, <3>1 DEF Typed, Replay, Mismatch, Process, Arrive, Answered, Move
    <3>3. BookOf(r)'
      <4>1. CASE Replay(r, k, o)
        <5>1. PICK q \in Holder(k, o) : op[q] = o /\ Answered(r, answer[q], q)
          BY <4>1 DEF Replay
        <5>2. q \in records /\ q # r /\ key[q] = k /\ q \in Requests
          BY <2>0, <3>1, <5>1 DEF Typed, Holder, Slot, Kept
        <5>3. pc'[r] = "done" /\ src'[r] = q /\ answer'[r] = answer[q]
          BY <2>0, <4>1, <5>1 DEF Typed, Replay, Answered, Move
        <5>4. answer[q] \in {"ok", "refused"} /\ q \in Kept
          BY <5>2 DEF Book, BookOf, Kept
        <5> QED
          BY <3>1, <3>2, <5>1, <5>2, <5>3, <5>4 DEF BookOf, Kept, Arrive, Answering
      <4>2. CASE Mismatch(r, k, o)
        <5>1. pc'[r] = "done" /\ src'[r] = r /\ answer'[r] = "error"
          BY <2>0, <4>2 DEF Typed, Mismatch, Answered, Move
        <5> QED
          BY <3>1, <5>1 DEF BookOf, Kept, Arrive, Answering
      <4>3. CASE Process(r, k, o)
        <5>1. pc'[r] = "begin" /\ src'[r] = r
          BY <2>0, <4>3 DEF Typed, Process, Move
        <5> QED
          BY <3>1, <5>1 DEF BookOf, Kept, Arrive, Answering
      <4> QED
        BY <2>1, <4>1, <4>2, <4>3
    <3> QED
      BY <2>only, <3>1, <3>2, <3>3 DEF Arrive
  <2>2. ASSUME NEW r \in Requests, Refuse(r) PROVE Book'
    BY <2>0, <2>2, <2>still DEF Typed, Refuse, Move
  <2>3. ASSUME NEW r \in Requests, BeginCreate(r) \/ Load(r) PROVE Book'
    BY <2>0, <2>3, <2>still DEF Typed, BeginCreate, Load, Move, Handling
  <2>4. ASSUME NEW r \in Requests, UnsetStart(r) \/ Unset(r) PROVE Book'
    BY <2>0, <2>4, <2>still DEF Typed, UnsetStart, Unset, Move, Handling
  <2>5. ASSUME NEW r \in Requests, FlushInsert(r) \/ FlushUpdate(r) \/ FlushDelete(r) PROVE Book'
    <3>1. pc[r] = "flush" /\ \E w \in {"nothing", "insert", "update", "delete"} : Flushed(r, w)
      BY <2>5 DEF FlushInsert, FlushUpdate, FlushDelete
    <3>2. PICK w \in {"nothing", "insert", "update", "delete"} : Flushed(r, w)
      BY <3>1
    <3>3. /\ UNCHANGED <<asked, src, table>>
          /\ \A q \in Requests \ {r} : pc'[q] = pc[q] /\ answer'[q] = answer[q] /\ known'[q] = known[q]
          /\ pc'[r] = "store" /\ answer'[r] # "pending"
      BY <2>0, <3>2 DEF Typed, Flushed, Move
    <3> QED
      BY <3>1, <3>3, <2>still DEF Handling
  <2>6. ASSUME NEW r \in Requests, Fail(r) PROVE Book'
    BY <2>0, <2>6, <2>still DEF Typed, Fail, Move, Handling
  <2>7. ASSUME NEW r \in Requests, EndSession(r) PROVE Book'
    <3>1. UNCHANGED <<pc, asked, src, known, table>>
      BY <2>7 DEF EndSession
    <3>2. CASE UNCHANGED answer
      BY <3>1, <3>2 DEF Book, BookOf, Kept, SlotsUnique
    <3>3. CASE pc[r] = "store" /\ answer' = [answer EXCEPT ![r] = "error"]
      <4>1. r \notin Kept /\ BookOf(r)
        BY <3>3 DEF Book, BookOf
      <4>2. answer'[r] = "error" /\ \A q \in Requests \ {r} : answer'[q] = answer[q]
        BY <2>0, <3>3 DEF Typed
      <4>3. BookOf(r)'
        BY <3>1, <3>3, <4>1, <4>2 DEF BookOf, Kept, Answering
      <4> QED
        BY <2>only, <3>1, <4>1, <4>2, <4>3
    <3> QED
      BY <2>7, <3>2, <3>3 DEF EndSession, Commit, CommitFails
  <2>8. ASSUME NEW r \in Requests, Store(r) PROVE Book'
    <3>1. /\ r \notin Kept /\ src[r] = r /\ key[r] \in Keys /\ known[r] /\ answer[r] \in {"ok", "refused"}
          /\ Holder(key[r], op[r]) = {}
      BY <2>0, <2>8 DEF Typed, Store, Storable, Book, BookOf, Answering
    <3>2. /\ pc'[r] = "reply" /\ records' = records \cup {r} /\ Kept' = Kept \cup {r}
          /\ UNCHANGED <<asked, told, expired>>
          /\ \A q \in Requests \ {r} : pc'[q] = pc[q]
      BY <2>0, <2>8 DEF Typed, Store, Move, Kept
    <3>3. SlotsUnique'
      BY <3>1, <3>2 DEF SlotsUnique, Holder, Book
    <3>4. \A q \in Requests : BookOf(q)'
      BY <3>1, <3>2 DEF Book, BookOf, Answering
    <3> QED
      BY <3>1, <3>2, <3>3, <3>4 DEF Book, Kept
  <2>9. ASSUME NEW r \in Requests, NoStore(r) PROVE Book'
    <3>1. BookOf(r) /\ r \notin Kept /\ BookOf(r)'
      BY <2>0, <2>9 DEF Typed, NoStore, Storable, Move, Book, BookOf, Kept, Answering
    <3> QED
      BY <2>0, <2>9, <2>only, <3>1 DEF Typed, NoStore, Move
  <2>10. ASSUME NEW r \in Requests, StoreConflict(r) PROVE Book'
    <3>1. BookOf(r) /\ r \notin Kept /\ BookOf(r)'
      BY <2>0, <2>10 DEF Typed, StoreConflict, Move, Book, BookOf, Kept, Answering
    <3> QED
      BY <2>0, <2>10, <2>only, <3>1 DEF Typed, StoreConflict, Move
  <2>11. ASSUME NEW r \in Requests, Reply(r) PROVE Book'
    <3>1. BookOf(r)'
      BY <2>0, <2>11 DEF Typed, Reply, Move, Book, BookOf, Kept, Answering
    <3> QED
      BY <2>0, <2>11, <2>only, <3>1 DEF Typed, Reply, Move
  <2>12. ASSUME NEW r \in Requests, Expire(r) PROVE Book'
    <3>1. Kept' = Kept /\ records' \subseteq records /\ records' \cap expired' = {}
      BY <2>12 DEF Expire, Kept, Book
    <3> QED
      BY <2>12, <3>1 DEF Expire, Book, BookOf, SlotsUnique
  <2>13. CASE Crash
    BY <2>0, <2>13 DEF Typed, Crash, Book, BookOf, SlotsUnique, Kept, Answering
  <2>14. CASE UNCHANGED vars
    BY <2>14 DEF vars, Book, BookOf, SlotsUnique, Kept
  <2> QED
    BY <2>1, <2>2, <2>3, <2>4, <2>5, <2>6, <2>7, <2>8, <2>9, <2>10, <2>11, <2>12, <2>13, <2>14
    DEF Next, Lookup, Handle, Finish
<1> QED
  BY <1>1, <1>2, TypeInvHolds, PTL DEF Spec

\* The attempts that were answered before stay answered.
Earlier ==
  \A r \in Requests : \A q \in before[r] :
    pc[q] = "done" /\ pc[r] # "new" /\ key[q] = key[r] /\ key[r] \in Keys /\ op[q] = op[r]

\* A client that was answered below 500 and tries again with its key and
\* operation is not processed a second time while the record lives.
THEOREM AnsweredAttemptsHold == Spec => []AnsweredNotRedone
<1>1. Init => Earlier /\ AnsweredNotRedone
  BY DEF Init, Earlier, AnsweredNotRedone
<1>2. TypeInv /\ Book /\ Book' /\ Earlier /\ AnsweredNotRedone /\ [Next]_vars
        => (Earlier /\ AnsweredNotRedone)'
  <2> SUFFICES ASSUME TypeInv, Book, Book', Earlier, AnsweredNotRedone, [Next]_vars
               PROVE  (Earlier /\ AnsweredNotRedone)'
    OBVIOUS
  <2>0. Typed /\ Flow
    BY DEF TypeInv
  <2> USE DEF asked, told, table, rows, work
  <2>1. ASSUME NEW r \in Requests, NEW k \in Keys \cup {None}, NEW o \in Ops,
               Replay(r, k, o) \/ Mismatch(r, k, o) \/ Process(r, k, o)
        PROVE  (Earlier /\ AnsweredNotRedone)'
    <3>1. /\ Arrive(r, k, o) /\ pc[r] = "new" /\ pc'[r] # "new"
          /\ key'[r] = k /\ op'[r] = o
          /\ before'[r] = {q \in Requests : pc[q] = "done" /\ k # None /\ key[q] = k /\ op[q] = o}
          /\ \A q \in Requests \ {r} : pc'[q] = pc[q] /\ src'[q] = src[q] /\ key'[q] = key[q]
                                       /\ op'[q] = op[q] /\ answer'[q] = answer[q] /\ before'[q] = before[q]
          /\ known' = known /\ expired' = expired
      BY <2>0, <2>1 DEF Typed, Replay, Mismatch, Process, Arrive, Answered, Move
    <3>2. Earlier'
      BY <2>0, <3>1 DEF Typed, Earlier
    <3>3. ASSUME NEW q \in before'[r], answer[q] # "error", known[src[q]], src[q] \notin expired,
                 src[q] \in Requests
          PROVE  \E p \in Holder(k, o) : op[p] = o
      <4>1. q \in Requests /\ pc[q] = "done" /\ k \in Keys /\ key[q] = k /\ op[q] = o
        BY <3>1, <3>3
      <4>2. src[q] \in records /\ key[src[q]] = k /\ op[src[q]] = o
        BY <4>1, <3>3 DEF Book, BookOf, Kept
      <4> QED
        BY <4>2 DEF Holder
    <3>4. ASSUME NEW q \in before'[r], answer'[q] # "error", known'[src'[q]], src'[q] \notin expired'
          PROVE  src'[r] # r
      <4>1. q \in Requests \ {r} /\ pc[q] = "done"
        BY <3>1
      <4>2. answer'[q] = answer[q] /\ src'[q] = src[q] /\ src[q] \in Requests
        BY <3>1, <4>1 DEF Book, BookOf
      <4>3. PICK p \in Holder(k, o) : op[p] = o
        BY <3>1, <3>3, <3>4, <4>2
      <4>4. CASE Replay(r, k, o)
        <5>1. PICK s \in Holder(k, o) : Answered(r, answer[s], s)
          BY <4>4 DEF Replay
        <5>2. s \in records /\ s # r
          BY <3>1, <5>1 DEF Holder, Book, BookOf, Kept
        <5> QED
          BY <2>0, <5>1, <5>2 DEF Typed, Answered
      <4>5. CASE Mismatch(r, k, o)
        <5>1. PICK s \in Holder(k, o) : op[s] # o
          BY <4>5 DEF Mismatch
        <5> QED
          BY <4>3, <5>1 DEF Holder, Book, SlotsUnique
      <4>6. CASE Process(r, k, o)
        BY <4>3, <4>6 DEF Process
      <4> QED
        BY <2>1, <4>4, <4>5, <4>6
    <3>5. ASSUME NEW u \in Requests \ {r}, NEW q \in before'[u],
                 answer'[q] # "error", known'[src'[q]], src'[q] \notin expired'
          PROVE  src'[u] # u
      <4>1. q \in before[u] /\ q \in Requests
        BY <2>0, <3>1, <3>5 DEF Typed
      <4>2. q # r
        BY <3>1, <4>1 DEF Earlier
      <4> QED
        BY <3>1, <3>5, <4>1, <4>2 DEF AnsweredNotRedone
    <3> QED
      BY <3>2, <3>4, <3>5 DEF AnsweredNotRedone
  \* A step that changes the answer only of requests that are not done.
  <2>2. ASSUME UNCHANGED <<asked, src>>, expired \subseteq expired',
               \A q \in Requests : pc[q] = "done" => pc'[q] = "done" /\ answer'[q] = answer[q],
               \A q \in Requests : pc[q] # "new" => pc'[q] # "new",
               \A q \in Requests : pc[q] \in {"done", "reply", "lost"} => known'[q] = known[q]
        PROVE  (Earlier /\ AnsweredNotRedone)'
    <3>1. Earlier'
      BY <2>0, <2>2 DEF Typed, Earlier
    <3>2. ASSUME NEW u \in Requests, NEW q \in before[u],
                 answer'[q] # "error", known'[src[q]], src[q] \notin expired'
          PROVE  src[u] # u
      <4>1. q \in Requests /\ pc[q] = "done"
        BY <2>0, <3>2 DEF Typed, Earlier
      <4>2. src[q] \in Requests /\ pc[src[q]] \in {"done", "reply", "lost"}
        BY <4>1 DEF Book, BookOf
      <4> QED
        BY <2>2, <3>2, <4>1, <4>2 DEF AnsweredNotRedone
    <3> QED
      BY <2>2, <3>1, <3>2 DEF AnsweredNotRedone
  <2>3. ASSUME NEW r \in Requests, Refuse(r) PROVE (Earlier /\ AnsweredNotRedone)'
    BY <2>0, <2>2, <2>3 DEF Typed, Refuse, Move
  <2>4. ASSUME NEW r \in Requests, BeginCreate(r) \/ Load(r) \/ UnsetStart(r) \/ Unset(r)
        PROVE  (Earlier /\ AnsweredNotRedone)'
    BY <2>0, <2>2, <2>4 DEF Typed, BeginCreate, Load, UnsetStart, Unset, Move
  <2>5. ASSUME NEW r \in Requests, FlushInsert(r) \/ FlushUpdate(r) \/ FlushDelete(r)
        PROVE  (Earlier /\ AnsweredNotRedone)'
    <3>1. PICK w \in {"nothing", "insert", "update", "delete"} : Flushed(r, w) /\ pc[r] = "flush"
      BY <2>5 DEF FlushInsert, FlushUpdate, FlushDelete
    <3> QED
      BY <2>0, <2>2, <3>1 DEF Typed, Flushed, Move
  <2>6. ASSUME NEW r \in Requests, Fail(r) \/ EndSession(r) PROVE (Earlier /\ AnsweredNotRedone)'
    BY <2>0, <2>2, <2>6 DEF Typed, Fail, EndSession, Commit, CommitFails, Move
  <2>7. ASSUME NEW r \in Requests, Store(r) \/ NoStore(r) \/ StoreConflict(r) \/ Reply(r)
        PROVE  (Earlier /\ AnsweredNotRedone)'
    BY <2>0, <2>2, <2>7 DEF Typed, Store, NoStore, StoreConflict, Reply, Move
  <2>8. ASSUME NEW r \in Requests, Expire(r) PROVE (Earlier /\ AnsweredNotRedone)'
    BY <2>0, <2>2, <2>8 DEF Typed, Expire
  <2>9. CASE Crash
    BY <2>0, <2>2, <2>9 DEF Typed, Crash
  <2>10. CASE UNCHANGED vars
    BY <2>2, <2>10 DEF vars
  <2> QED
    BY <2>1, <2>3, <2>4, <2>5, <2>6, <2>7, <2>8, <2>9, <2>10
    DEF Next, Lookup, Handle, Finish
<1> QED
  BY <1>1, <1>2, TypeInvHolds, BookHolds, PTL DEF Spec

-----------------------------------------------------------------------------
\* What a slot is bound to.
LEMMA BoundIs ==
  ASSUME SlotsUnique, NEW s \in Slots
  PROVE  /\ \A q \in records : Slot(key[q], op[q]) = s => Bound[s] = Held(q)
         /\ (\A q \in records : Slot(key[q], op[q]) # s) => Bound[s] = None
<1>1. ASSUME NEW q \in records, Slot(key[q], op[q]) = s
      PROVE  Bound[s] = Held(q)
  <2> DEFINE p == CHOOSE x \in records : Slot(key[x], op[x]) = s
  <2>1. p \in records /\ Slot(key[p], op[p]) = s
    BY <1>1
  <2>2. p = q
    BY <1>1, <2>1 DEF SlotsUnique
  <2>3. Bound[s] = Held(p)
    BY <1>1 DEF Bound
  <2> QED
    BY <2>2, <2>3
<1>2. (\A q \in records : Slot(key[q], op[q]) # s) => Bound[s] = None
  BY DEF Bound
<1> QED
  BY <1>1, <1>2

\* The same of the next state.
LEMMA BoundIsNext ==
  ASSUME SlotsUnique', NEW s \in Slots
  PROVE  /\ \A q \in records' : Slot(key'[q], op'[q]) = s => Bound'[s] = Held(q)'
         /\ (\A q \in records' : Slot(key'[q], op'[q]) # s) => Bound'[s] = None
<1>1. ASSUME NEW q \in records', Slot(key'[q], op'[q]) = s
      PROVE  Bound'[s] = Held(q)'
  <2>1. PICK p \in records' : /\ p = CHOOSE x \in records' : Slot(key'[x], op'[x]) = s
                              /\ Slot(key'[p], op'[p]) = s
    BY <1>1
  <2>2. p = q
    BY <1>1, <2>1 DEF SlotsUnique, Slot, Endpoint
  <2>3. Bound'[s] = [op |-> op'[p], answer |-> answer'[p]]
    BY <1>1, <2>1 DEF Bound, Slot, Endpoint, Held
  <2> QED
    BY <2>2, <2>3 DEF Held
<1>2. (\A q \in records' : Slot(key'[q], op'[q]) # s) => Bound'[s] = None
  BY DEF Bound, Slot, Endpoint
<1> QED
  BY <1>1, <1>2

\* A slot whose record is as it was is bound to what it was.
LEMMA BoundSame ==
  ASSUME SlotsUnique, SlotsUnique', NEW s \in Slots,
         \A q \in records \cup records' :
           \/ q \in records /\ q \in records'
              /\ key'[q] = key[q] /\ op'[q] = op[q] /\ answer'[q] = answer[q]
           \/ key'[q] = key[q] /\ op'[q] = op[q] /\ Slot(key[q], op[q]) # s
  PROVE  Bound'[s] = Bound[s]
<1>1. CASE \E q \in records : Slot(key[q], op[q]) = s
  <2>1. PICK q \in records : Slot(key[q], op[q]) = s
    BY <1>1
  <2>2. Bound[s] = Held(q)
    BY <2>1, BoundIs
  <2>3. q \in records' /\ Slot(key'[q], op'[q]) = s /\ Held(q)' = Held(q)
    BY <2>1 DEF Held
  <2>4. Bound'[s] = Held(q)'
    BY <2>3, BoundIsNext
  <2> QED
    BY <2>2, <2>3, <2>4
<1>2. CASE \A q \in records : Slot(key[q], op[q]) # s
  <2>1. \A q \in records' : Slot(key'[q], op'[q]) # s
    BY <1>2
  <2> QED
    BY <1>2, <2>1, BoundIs, BoundIsNext
<1> QED
  BY <1>1, <1>2

\* The table of idempotency keys is a register that is written once per slot
\* until it expires, and a replay gives what it holds to who asked for it.
THEOREM TableIsRegister == Spec => RefinesRegister
<1>1. Init => Register!Init
  <2> SUFFICES ASSUME Init PROVE Register!Init
    OBVIOUS
  <2>1. Bound = [s \in Slots |-> None]
    BY DEF Init, Bound
  <2>2. Given = [r \in Requests |-> None]
    BY NoneAssumption DEF Init, Given
  <2> QED
    BY <2>1, <2>2 DEF Register!Init
<1>2. TypeInv /\ Book /\ Book' /\ [Next]_vars => [Register!Next]_<<Bound, Given>>
  <2> SUFFICES ASSUME TypeInv, Book, Book', [Next]_vars
               PROVE  Register!Next \/ UNCHANGED <<Bound, Given>>
    OBVIOUS
  <2>0. Typed /\ Flow /\ SlotsUnique /\ SlotsUnique'
    BY DEF TypeInv, Book
  <2> USE DEF asked, told, table, rows, work
  <2>fun. /\ DOMAIN Bound = Slots /\ DOMAIN Bound' = Slots
          /\ Bound = [s \in Slots |-> Bound[s]] /\ Bound' = [s \in Slots |-> Bound'[s]]
    BY DEF Bound
  \* A step that keeps the table and what its records are.
  <2>same. ASSUME UNCHANGED records,
                  \A q \in records : key'[q] = key[q] /\ op'[q] = op[q] /\ answer'[q] = answer[q]
           PROVE  UNCHANGED Bound
    <3>1. \A s \in Slots : Bound'[s] = Bound[s]
      BY <2>0, <2>same, BoundSame
    <3> QED
      BY <2>fun, <3>1
  \* A step that only changes the answer of requests that are at work.
  <2>still. ASSUME UNCHANGED <<asked, src>>,
                   \A q \in Requests : pc[q] = "done" => answer'[q] = answer[q]
            PROVE  UNCHANGED Given
    <3>1. \A q \in Requests : src[q] \in Requests \ {q} => pc[q] = "done"
      BY DEF Book, BookOf
    <3> QED
      BY <2>still, <3>1 DEF Given, Held
  <2>1. ASSUME NEW r \in Requests, NEW k \in Keys \cup {None}, NEW o \in Ops,
               Replay(r, k, o) \/ Mismatch(r, k, o) \/ Process(r, k, o)
        PROVE  Register!Next \/ UNCHANGED <<Bound, Given>>
    <3>1. /\ Arrive(r, k, o) /\ r \notin records /\ src[r] = None /\ records' = records
          /\ key'[r] = k /\ op'[r] = o
          /\ \A q \in Requests \ {r} : src'[q] = src[q] /\ key'[q] = key[q] /\ op'[q] = op[q]
                                       /\ answer'[q] = answer[q]
      BY <2>0, <2>1 DEF Typed, Flow, FlowOf, Book, BookOf, Kept, Replay, Mismatch, Process, Arrive, Answered
    <3>2. UNCHANGED Bound
      BY <2>0, <2>same, <3>1 DEF Typed
    <3>3. Given[r] = None /\ \A q \in Requests \ {r} : Given'[q] = Given[q]
      BY <3>1, NoneAssumption DEF Given, Held
    <3>4. CASE Replay(r, k, o)
      <4>1. PICK q \in Holder(k, o) : op[q] = o /\ Answered(r, answer[q], q)
        BY <3>4 DEF Replay
      <4>2. q \in records /\ q \in Requests /\ q # r /\ key[q] = k /\ k \in Keys
        BY <2>0, <3>1, <4>1 DEF Typed, Holder, Slot, Book, BookOf, Kept
      <4>3. src'[r] = q /\ answer'[r] = answer[q]
        BY <2>0, <4>1 DEF Typed, Answered
      <4>4. Slot(k, o) \in Slots /\ Bound[Slot(k, o)] = Held(q)
        BY <2>0, <4>1, <4>2, BoundIs DEF Slots
      <4>5. Held(q) # None /\ Held(r)' = Held(q)
        BY <2>0, <3>1, <4>1, <4>2, <4>3, NoneAssumption DEF Typed, Held, Book, BookOf, Kept
      <4>6. Given'[r] = <<Slot(k, o), Bound[Slot(k, o)]>>
        BY <3>1, <4>2, <4>3, <4>4, <4>5 DEF Given, Slot, Endpoint
      <4>7. Given' = [Given EXCEPT ![r] = <<Slot(k, o), Bound[Slot(k, o)]>>]
        BY <3>3, <4>6 DEF Given
      <4> QED
        BY <3>2, <3>3, <4>4, <4>5, <4>7 DEF Register!Next, Register!Give
    <3>5. CASE Mismatch(r, k, o) \/ Process(r, k, o)
      <4>1. src'[r] = r
        BY <2>0, <3>5 DEF Typed, Mismatch, Process, Answered
      <4>2. Given'[r] = None
        BY <4>1 DEF Given
      <4>3. UNCHANGED Given
        BY <3>3, <4>2 DEF Given
      <4> QED
        BY <3>2, <4>3
    <3> QED
      BY <2>1, <3>4, <3>5
  <2>2. ASSUME NEW r \in Requests, Refuse(r) \/ Fail(r) PROVE UNCHANGED <<Bound, Given>>
    <3>1. r \notin records
      BY <2>2 DEF Book, BookOf, Kept, Refuse, Fail
    <3> QED
      BY <2>0, <2>2, <2>same, <2>still, <3>1 DEF Typed, Refuse, Fail
  <2>3. ASSUME NEW r \in Requests, BeginCreate(r) \/ Load(r) \/ UnsetStart(r) \/ Unset(r)
                                   \/ NoStore(r) \/ Reply(r)
        PROVE  UNCHANGED <<Bound, Given>>
    BY <2>3, <2>same, <2>still DEF BeginCreate, Load, UnsetStart, Unset, NoStore, Reply
  <2>4. ASSUME NEW r \in Requests, FlushInsert(r) \/ FlushUpdate(r) \/ FlushDelete(r)
        PROVE  UNCHANGED <<Bound, Given>>
    <3>1. PICK w \in {"nothing", "insert", "update", "delete"} : Flushed(r, w) /\ pc[r] = "flush"
      BY <2>4 DEF FlushInsert, FlushUpdate, FlushDelete
    <3>2. r \notin records
      BY <3>1 DEF Book, BookOf, Kept
    <3> QED
      BY <2>0, <3>1, <3>2, <2>same, <2>still DEF Typed, Flushed
  <2>5. ASSUME NEW r \in Requests, StoreConflict(r) PROVE UNCHANGED <<Bound, Given>>
    <3>1. r \notin records
      BY <2>5 DEF Book, BookOf, Kept, StoreConflict
    <3> QED
      BY <2>0, <2>5, <2>same, <2>still, <3>1 DEF Typed, StoreConflict
  <2>6. ASSUME NEW r \in Requests, Store(r) PROVE Register!Next
    <3> DEFINE s == Slot(key[r], op[r])
    <3>1. key[r] \in Keys /\ op[r] \in Ops /\ answer[r] \in {"ok", "refused"} /\ Holder(key[r], op[r]) = {}
      BY <2>0, <2>6 DEF Typed, Store, Storable, Book, BookOf, Answering
    <3>2. s \in Slots /\ Held(r) \in Values
      BY <3>1 DEF Slots, Values, Held
    <3>3. Bound[s] = None
      BY <2>0, <3>1, <3>2, BoundIs DEF Holder
    <3>4. records' = records \cup {r} /\ UNCHANGED <<asked, src, answer>>
      BY <2>6 DEF Store
    <3>5. \A x \in Slots : Bound'[x] = IF x = s THEN Held(r) ELSE Bound[x]
      <4>1. Bound'[s] = Held(r)
        BY <2>0, <3>2, <3>4, BoundIsNext DEF Held
      <4>2. ASSUME NEW x \in Slots, x # s PROVE Bound'[x] = Bound[x]
        BY <2>0, <3>4, <4>2, BoundSame
      <4> QED
        BY <4>1, <4>2
    <3>6. Bound' = [Bound EXCEPT ![s] = Held(r)]
      BY <2>fun, <3>5
    <3>7. UNCHANGED Given
      BY <2>still, <3>4
    <3> QED
      BY <3>2, <3>3, <3>6, <3>7 DEF Register!Next, Register!Bind
  <2>7. ASSUME NEW r \in Requests, Expire(r) PROVE Register!Next
    <3> DEFINE s == Slot(key[r], op[r])
    <3>1. r \in records /\ records' = records \ {r} /\ UNCHANGED <<asked, src, answer>>
      BY <2>7 DEF Expire
    <3>2. s \in Slots
      BY <2>0, <3>1 DEF Typed, Book, BookOf, Kept, Slots
    <3>3. \A x \in Slots : Bound'[x] = IF x = s THEN None ELSE Bound[x]
      <4>1. \A q \in records' : Slot(key[q], op[q]) # s
        BY <2>0, <3>1 DEF SlotsUnique
      <4>2. Bound'[s] = None
        BY <2>0, <3>1, <3>2, <4>1, BoundIsNext
      <4>3. ASSUME NEW x \in Slots, x # s PROVE Bound'[x] = Bound[x]
        BY <2>0, <3>1, <4>3, BoundSame
      <4> QED
        BY <4>2, <4>3
    <3>4. Bound' = [Bound EXCEPT ![s] = None]
      BY <2>fun, <3>3
    <3>5. UNCHANGED Given
      BY <2>still, <3>1
    <3> QED
      BY <3>2, <3>4, <3>5 DEF Register!Next, Register!Forget
  <2>8. ASSUME NEW r \in Requests, EndSession(r) PROVE UNCHANGED <<Bound, Given>>
    <3>1. UNCHANGED <<asked, src, records>>
      BY <2>8 DEF EndSession
    <3>2. pc[r] = "store" => r \notin records
      BY DEF Book, BookOf, Kept
    <3>3. UNCHANGED answer \/ (pc[r] = "store" /\ answer' = [answer EXCEPT ![r] = "error"])
      BY <2>8 DEF EndSession, Commit, CommitFails
    <3> QED
      BY <2>0, <2>same, <2>still, <3>1, <3>2, <3>3 DEF Typed
  <2>9. CASE Crash
    BY <2>9, <2>same, <2>still DEF Crash
  <2>10. CASE UNCHANGED vars
    BY <2>10, <2>same, <2>still DEF vars
  <2> QED
    BY <2>1, <2>2, <2>3, <2>4, <2>5, <2>6, <2>7, <2>8, <2>9, <2>10
    DEF Next, Lookup, Handle, Finish
<1> QED
  BY <1>1, <1>2, TypeInvHolds, BookHolds, PTL DEF Spec, RefinesRegister, Register!Spec

-----------------------------------------------------------------------------
\* What transactions may have flushed about rows: a row that is inserted is
\* known to no one else, one that is updated is not deleted meanwhile.
RowOf(r) ==
  /\ cred[r] \in Creds => cred[r] \in used
  /\ write[r] = "insert" => cred[r] \notin live /\ \A q \in Requests \ {r} : cred[q] # cred[r]
  /\ write[r] = "update" => cred[r] \in live /\ \A q \in Requests : write[q] = "delete" => cred[q] # cred[r]

Rows ==
  /\ live \subseteq used
  /\ dflt \subseteq live
  /\ \A r \in Requests : RowOf(r)

LEMMA RowsHold == Spec => []Rows
<1>1. Init => Rows
  BY NoneAssumption DEF Init, Rows, RowOf
<1>2. TypeInv /\ Rows /\ [Next]_vars => Rows'
  <2> SUFFICES ASSUME TypeInv, Rows, [Next]_vars PROVE Rows'
    OBVIOUS
  <2>0. Typed /\ Flow
    BY DEF TypeInv
  <2>own. \A r \in Requests : write[r] # "nothing" => cred[r] \in Creds /\ cred[r] # None
    BY <2>0, NoneAssumption DEF Flow, FlowOf
  <2> USE NoneAssumption DEF asked, told, table, rows, work
  \* A step that leaves the rows and the sessions alone.
  <2>same. ASSUME UNCHANGED <<rows, used, cred, write>> PROVE Rows'
    BY <2>same DEF Rows, RowOf
  \* A session that closes without a commit.
  <2>close. ASSUME NEW r \in Requests, NEW end, Close(r, end), UNCHANGED <<rows, used>> PROVE Rows'
    <3>1. /\ cred'[r] = None /\ write'[r] = "nothing"
          /\ \A q \in Requests \ {r} : cred'[q] = cred[q] /\ write'[q] = write[q]
      BY <2>0, <2>close DEF Typed, Close
    <3> QED
      BY <2>own, <2>close, <3>1 DEF Rows, RowOf
  <2>1. ASSUME NEW r \in Requests, NEW k \in Keys \cup {None}, NEW o \in Ops,
               Replay(r, k, o) \/ Mismatch(r, k, o) \/ Process(r, k, o)
        PROVE  Rows'
    BY <2>1, <2>same DEF Replay, Mismatch, Process, Arrive
  <2>2. ASSUME NEW r \in Requests, Refuse(r) \/ BeginCreate(r) \/ UnsetStart(r) \/ Unset(r)
                                   \/ Store(r) \/ NoStore(r) \/ Reply(r) \/ Expire(r)
        PROVE  Rows'
    BY <2>2, <2>same DEF Refuse, BeginCreate, UnsetStart, Unset, Store, NoStore, Reply, Expire
  <2>3. ASSUME NEW r \in Requests, Load(r) PROVE Rows'
    <3>1. /\ cred'[r] \in live /\ write[r] = "nothing" /\ UNCHANGED <<rows, used, write>>
          /\ \A q \in Requests \ {r} : cred'[q] = cred[q]
      BY <2>0, <2>3 DEF Typed, Flow, FlowOf, Load
    <3> QED
      BY <3>1 DEF Rows, RowOf
  <2>4. ASSUME NEW r \in Requests, FlushInsert(r) PROVE Rows'
    <3>1. PICK c \in Creds \ used : cred' = [cred EXCEPT ![r] = c] /\ used' = used \cup {c}
      BY <2>4 DEF FlushInsert
    <3>2. write' = [write EXCEPT ![r] = "insert"] /\ UNCHANGED rows
      BY <2>4 DEF FlushInsert, Flushed
    <3>3. /\ cred'[r] = c /\ write'[r] = "insert"
          /\ \A q \in Requests \ {r} : cred'[q] = cred[q] /\ write'[q] = write[q] /\ cred[q] # c
      BY <2>0, <3>1, <3>2 DEF Typed, Rows, RowOf
    <3> QED
      BY <2>0, <3>1, <3>2, <3>3 DEF Typed, Rows, RowOf
  <2>5. ASSUME NEW r \in Requests, FlushUpdate(r) PROVE Rows'
    <3>1. UNCHANGED <<rows, used, cred>> /\ pc[r] = "flush" /\ write[r] = "nothing" /\ op[r].kind = "update"
      BY <2>0, <2>5 DEF FlushUpdate, Flushed, Flow, FlowOf, Handling
    <3>2. CASE Flushed(r, "nothing")
      BY <2>0, <3>1, <3>2 DEF Typed, Flushed, Rows, RowOf
    <3>3. CASE cred[r] \in live \ Locked(r) /\ Flushed(r, "update")
      <4>1. write'[r] = "update" /\ \A q \in Requests \ {r} : write'[q] = write[q]
        BY <2>0, <3>3 DEF Typed, Flushed
      <4>2. ASSUME NEW q \in Requests, write'[q] = "delete" PROVE cred[q] # cred[r]
        <5>1. q # r /\ write[q] = "delete" /\ tx[q] = "open"
          BY <2>0, <4>1, <4>2 DEF Flow, FlowOf
        <5>2. cred[q] = cred[r] => cred[r] \in Locked(r)
          BY <5>1 DEF Locked
        <5> QED
          BY <3>3, <5>2
      <4> QED
        BY <3>1, <3>3, <4>1, <4>2 DEF Rows, RowOf
    <3> QED
      BY <2>5, <3>2, <3>3 DEF FlushUpdate
  <2>6. ASSUME NEW r \in Requests, FlushDelete(r) PROVE Rows'
    <3>1. /\ UNCHANGED <<rows, used, cred>> /\ cred[r] \notin Locked(r)
          /\ write'[r] = "delete" /\ \A q \in Requests \ {r} : write'[q] = write[q]
      BY <2>0, <2>6 DEF Typed, FlushDelete, Flushed
    <3>2. ASSUME NEW q \in Requests, write'[q] = "update" PROVE cred[q] # cred[r]
      <4>1. q # r /\ write[q] = "update" /\ tx[q] = "open"
        BY <2>0, <3>1, <3>2 DEF Flow, FlowOf
      <4>2. cred[q] = cred[r] => cred[r] \in Locked(r)
        BY <4>1 DEF Locked
      <4> QED
        BY <3>1, <4>2
    <3> QED
      BY <3>1, <3>2 DEF Rows, RowOf
  <2>7. ASSUME NEW r \in Requests, Fail(r) PROVE Rows'
    BY <2>7, <2>close DEF Fail
  <2>8. ASSUME NEW r \in Requests, Applied(r), UNCHANGED used PROVE Rows'
    <3>1. /\ cred'[r] = None /\ write'[r] = "nothing" /\ used' = used
          /\ \A q \in Requests \ {r} : cred'[q] = cred[q] /\ write'[q] = write[q]
      BY <2>0, <2>8 DEF Typed, Applied, Close
    <3>2. CASE write[r] = "nothing"
      <4>1. live' = live /\ dflt' \subseteq dflt
        BY <2>8, <3>2 DEF Applied, RowsAfter, DefaultsAfter, SetsOwn
      <4> QED
        BY <2>own, <3>1, <4>1 DEF Rows, RowOf
    <3>3. CASE write[r] = "insert"
      <4>1. live' = live \cup {cred[r]} /\ dflt' \subseteq dflt \cup {cred[r]} /\ cred[r] \in used
        BY <2>0, <2>8, <3>3 DEF Applied, RowsAfter, DefaultsAfter, Flow, FlowOf, Rows, RowOf
      <4>2. \A q \in Requests \ {r} : cred[q] # cred[r]
        BY <3>3 DEF Rows, RowOf
      <4> QED
        BY <2>own, <3>1, <4>1, <4>2 DEF Rows, RowOf
    <3>4. CASE write[r] = "update"
      <4>1. live' = live /\ dflt' \subseteq dflt \cup {cred[r]} /\ cred[r] \in live
        BY <2>8, <3>4 DEF Applied, RowsAfter, DefaultsAfter, Rows, RowOf
      <4> QED
        BY <2>own, <3>1, <4>1 DEF Rows, RowOf
    <3>5. CASE write[r] = "delete"
      <4>1. live' = live \ {cred[r]} /\ dflt' \subseteq dflt \ {cred[r]}
        BY <2>8, <3>5 DEF Applied, RowsAfter, DefaultsAfter, SetsOwn, DeletesOwn
      <4>2. \A q \in Requests : write[q] = "update" => cred[q] # cred[r]
        BY <3>5 DEF Rows, RowOf
      <4> QED
        BY <2>own, <3>1, <4>1, <4>2 DEF Rows, RowOf
    <3> QED
      BY <2>0, <3>2, <3>3, <3>4, <3>5 DEF Typed
  <2>end. ASSUME NEW r \in Requests, EndSession(r) PROVE Rows'
    <3>1. CASE Applied(r)
      BY <2>8, <2>end, <3>1 DEF EndSession
    <3>2. CASE Undone(r)
      BY <2>close, <2>end, <3>2 DEF EndSession, Undone
    <3> QED
      BY <2>end, <3>1, <3>2 DEF EndSession, Commit, CommitFails
  <2>9. ASSUME NEW r \in Requests, StoreConflict(r) PROVE Rows'
    BY <2>9, <2>same, <2>close DEF StoreConflict
  <2>10. CASE Crash
    BY <2>10 DEF Crash, Rows, RowOf
  <2>11. CASE UNCHANGED vars
    BY <2>11, <2>same DEF vars
  <2> QED
    BY <2>1, <2>2, <2>3, <2>4, <2>5, <2>6, <2>7, <2>9, <2>10, <2>11, <2>end
    DEF Next, Lookup, Handle, Finish
<1> QED
  BY <1>1, <1>2, TypeInvHolds, PTL DEF Spec

\* Every reachable state is well typed; in particular a default is a row that
\* exists, whatever deletes and updates overlap.
THEOREM ReplayTypeCorrect == Spec => []TypeOK
<1>1. TypeInv /\ Rows => TypeOK
  BY DEF TypeInv, Typed, Rows, TypeOK
<1> QED
  BY <1>1, TypeInvHolds, RowsHold, PTL

-----------------------------------------------------------------------------
\* Two open transactions that set the default of one provider race; one that
\* does not has taken all other defaults of its provider into account.
SetsDefault(r) == tx[r] = "open" /\ op[r].to = "set"

RaceSeen ==
  \A q, r \in Requests :
    q # r /\ SetsDefault(q) /\ SetsDefault(r) /\ Provider(op[q]) = Provider(op[r])
      => Provider(op[r]) \in raced

SeesDefaults(r) ==
  SetsDefault(r) /\ Provider(op[r]) \notin raced =>
    \A c \in dflt : ProviderOf[c] = Provider(op[r]) /\ c # cred[r] =>
      /\ pc[r] = "wait" => c \in snap[r]
      /\ pc[r] \in {"flush"} \cup Answering => c \in cleared[r]

DefaultInv == RaceSeen /\ (\A r \in Requests : SeesDefaults(r)) /\ OneDefault

\* A provider has at most one default as long as no two transactions that set
\* it overlapped.
THEOREM OneDefaultHolds == Spec => []OneDefault
<1>1. Init => DefaultInv
  BY DEF Init, DefaultInv, RaceSeen, SetsDefault, SeesDefaults, OneDefault
<1>2. TypeInv /\ Rows /\ DefaultInv /\ [Next]_vars => DefaultInv'
  <2> SUFFICES ASSUME TypeInv, Rows, DefaultInv, [Next]_vars PROVE DefaultInv'
    OBVIOUS
  <2>0. Typed /\ Flow
    BY DEF TypeInv
  <2> USE DEF asked, told, table, rows, work
  \* A step of r that opens no transaction and changes no default.
  <2>only. ASSUME NEW r \in Requests, UNCHANGED dflt, raced \subseteq raced', SeesDefaults(r)',
                  SetsDefault(r)' => SetsDefault(r) /\ op'[r] = op[r],
                  \A q \in Requests \ {r} :
                    /\ pc'[q] = pc[q] /\ op'[q] = op[q] /\ tx'[q] = tx[q] /\ cred'[q] = cred[q]
                    /\ snap'[q] = snap[q] /\ cleared'[q] = cleared[q]
           PROVE  DefaultInv'
    <3>1. RaceSeen'
      BY <2>only DEF DefaultInv, RaceSeen, SetsDefault, Provider
    <3>2. \A q \in Requests \ {r} : SeesDefaults(q)'
      BY <2>only DEF DefaultInv, SeesDefaults, SetsDefault, Provider
    <3>3. OneDefault'
      BY <2>only DEF DefaultInv, OneDefault
    <3> QED
      BY <2>only, <3>1, <3>2, <3>3 DEF DefaultInv
  <2>1. ASSUME NEW r \in Requests, NEW k \in Keys \cup {None}, NEW o \in Ops,
               Replay(r, k, o) \/ Mismatch(r, k, o) \/ Process(r, k, o)
        PROVE  DefaultInv'
    <3>1. tx'[r] # "open"
      BY <2>0, <2>1 DEF Typed, Flow, FlowOf, Replay, Mismatch, Process, Arrive
    <3> QED
      BY <2>0, <2>1, <2>only, <3>1
      DEF Typed, Replay, Mismatch, Process, Arrive, Answered, Move, SeesDefaults, SetsDefault
  <2>2. ASSUME NEW r \in Requests, Refuse(r) PROVE DefaultInv'
    <3>1. tx'[r] # "open"
      BY <2>0, <2>2 DEF Flow, FlowOf, Refuse
    <3> QED
      BY <2>0, <2>2, <2>only, <3>1 DEF Typed, Refuse, Move, SeesDefaults, SetsDefault
  <2>3. ASSUME NEW r \in Requests, BeginCreate(r) \/ Load(r) PROVE DefaultInv'
    <3>1. /\ tx' = [tx EXCEPT ![r] = "open"] /\ UNCHANGED <<op, dflt, snap, cleared>>
          /\ raced \subseteq raced'
          /\ \A q \in Requests \ {r} : pc'[q] = pc[q] /\ cred'[q] = cred[q]
          /\ op[r].to = "set" => pc'[r] = "unset"
      BY <2>0, <2>3 DEF Typed, BeginCreate, Load, Open, Move
    <3>2. RaceSeen'
      <4>1. ASSUME NEW q \in Requests \ {r}, tx[q] = "open", op[q].to = "set", op[r].to = "set",
                   Provider(op[q]) = Provider(op[r])
            PROVE  Provider(op[r]) \in raced'
        BY <2>3, <4>1 DEF BeginCreate, Load, Open
      <4> QED
        BY <2>0, <3>1, <4>1 DEF Typed, DefaultInv, RaceSeen, SetsDefault, Provider
    <3>3. \A q \in Requests : SeesDefaults(q)'
      BY <2>0, <3>1 DEF Typed, DefaultInv, SeesDefaults, SetsDefault, Provider, Answering
    <3>4. OneDefault'
      BY <3>1 DEF DefaultInv, OneDefault
    <3> QED
      BY <3>2, <3>3, <3>4 DEF DefaultInv
  <2>4. ASSUME NEW r \in Requests, UnsetStart(r) PROVE DefaultInv'
    <3>1. SeesDefaults(r)'
      BY <2>0, <2>4 DEF Typed, UnsetStart, Move, SeesDefaults, SetsDefault, Provider, Defaults, Answering
    <3> QED
      BY <2>0, <2>4, <2>only, <3>1 DEF Typed, UnsetStart, Move, SetsDefault
  <2>5. ASSUME NEW r \in Requests, Unset(r) PROVE DefaultInv'
    <3>1. SeesDefaults(r)'
      BY <2>0, <2>5 DEF Typed, DefaultInv, Unset, Move, SeesDefaults, SetsDefault, Provider, Answering
    <3> QED
      BY <2>0, <2>5, <2>only, <3>1 DEF Typed, Unset, Move, SetsDefault
  <2>6. ASSUME NEW r \in Requests, FlushInsert(r) \/ FlushUpdate(r) \/ FlushDelete(r) PROVE DefaultInv'
    <3>1. PICK w \in {"nothing", "insert", "update", "delete"} : Flushed(r, w) /\ pc[r] = "flush"
      BY <2>6 DEF FlushInsert, FlushUpdate, FlushDelete
    <3>2. cred'[r] = cred[r] \/ (op[r].kind = "create" /\ cred'[r] \notin used)
      <4>1. CASE FlushInsert(r)
        BY <2>0, <4>1 DEF Typed, FlushInsert
      <4>2. CASE FlushUpdate(r) \/ FlushDelete(r)
        BY <4>2 DEF FlushUpdate, FlushDelete
      <4> QED
        BY <2>6, <4>1, <4>2
    <3>3. \A q \in Requests \ {r} : cred'[q] = cred[q]
      BY <2>0, <2>6 DEF Typed, FlushInsert, FlushUpdate, FlushDelete
    <3>4. op[r].kind = "create" => cred[r] = None
      BY <2>0, <3>1 DEF Flow, FlowOf, Handling
    <3>5. ASSUME NEW c \in dflt, c # cred'[r] PROVE c # cred[r]
      BY <2>0, <3>2, <3>4, <3>5, NoneAssumption DEF Typed
    <3>6. SeesDefaults(r)'
      BY <2>0, <3>1, <3>5 DEF Typed, DefaultInv, Flushed, Move, SeesDefaults, SetsDefault, Provider, Answering
    <3> QED
      BY <2>0, <2>only, <3>1, <3>3, <3>6 DEF Typed, Flushed, Move, SetsDefault
  <2>7. ASSUME NEW r \in Requests, Fail(r) PROVE DefaultInv'
    <3>1. tx'[r] # "open"
      BY <2>0, <2>7 DEF Typed, Fail, Close
    <3> QED
      BY <2>0, <2>7, <2>only, <3>1 DEF Typed, Fail, Close, Move, SeesDefaults, SetsDefault
  <2>8. ASSUME NEW r \in Requests, EndSession(r), Applied(r) PROVE DefaultInv'
    <3>1. /\ tx[r] = "open" /\ tx'[r] # "open" /\ pc[r] \in Answering /\ UNCHANGED <<pc, op, raced>>
          /\ \A q \in Requests \ {r} : tx'[q] = tx[q] /\ cred'[q] = cred[q]
                                       /\ snap'[q] = snap[q] /\ cleared'[q] = cleared[q]
      BY <2>0, <2>8 DEF Typed, EndSession, Applied, Close, Answering
    <3>2. ASSUME NEW c \in dflt'
          PROVE  \/ c \in dflt \ cleared[r]
                 \/ c = cred[r] /\ op[r].to = "set" /\ ProviderOf[c] = Provider(op[r])
      BY <2>0, <2>8, <3>2 DEF Applied, DefaultsAfter, SetsOwn, Flow, FlowOf
    <3>3. RaceSeen'
      BY <3>1 DEF DefaultInv, RaceSeen, SetsDefault, Provider
    <3>4. ASSUME NEW q \in Requests PROVE SeesDefaults(q)'
      <4>1. CASE q = r
        BY <3>1, <4>1 DEF SeesDefaults, SetsDefault
      <4>2. CASE q # r
        <5> SUFFICES ASSUME SetsDefault(q), Provider(op[q]) \notin raced,
                            NEW c \in dflt', ProviderOf[c] = Provider(op[q]), c # cred[q]
                     PROVE  /\ pc[q] = "wait" => c \in snap[q]
                            /\ pc[q] \in {"flush"} \cup Answering => c \in cleared[q]
          BY <3>1, <4>2 DEF SeesDefaults, SetsDefault, Provider
        <5>1. ~(c = cred[r] /\ op[r].to = "set" /\ ProviderOf[c] = Provider(op[r]))
          BY <3>1, <4>2 DEF DefaultInv, RaceSeen, SetsDefault
        <5>2. c \in dflt
          BY <3>2, <5>1
        <5> QED
          BY <5>2 DEF DefaultInv, SeesDefaults
      <4> QED
        BY <4>1, <4>2
    <3>5. OneDefault'
      <4> SUFFICES ASSUME NEW c \in dflt', NEW d \in dflt', c # d, ProviderOf[c] = ProviderOf[d],
                          ProviderOf[c] \notin raced
                   PROVE  FALSE
        BY <3>1 DEF OneDefault
      <4>1. ASSUME NEW x \in dflt \ cleared[r], x # cred[r], op[r].to = "set",
                   ProviderOf[x] = Provider(op[r]), ProviderOf[x] \notin raced
            PROVE  FALSE
        BY <3>1, <4>1 DEF DefaultInv, SeesDefaults, SetsDefault
      <4>2. c \in dflt /\ d \in dflt
        BY <3>2, <4>1
      <4> QED
        BY <4>2 DEF DefaultInv, OneDefault
    <3> QED
      BY <3>3, <3>4, <3>5 DEF DefaultInv
  <2>end. ASSUME NEW r \in Requests, EndSession(r) PROVE DefaultInv'
    <3>1. CASE Applied(r)
      BY <2>8, <2>end, <3>1
    <3>2. CASE Undone(r)
      <4>1. tx'[r] # "open" /\ UNCHANGED <<pc, op, dflt, raced>>
        BY <2>0, <2>end, <3>2 DEF Typed, EndSession, Undone, Close
      <4>2. \A q \in Requests \ {r} : tx'[q] = tx[q] /\ cred'[q] = cred[q]
                                      /\ snap'[q] = snap[q] /\ cleared'[q] = cleared[q]
        BY <2>0, <3>2 DEF Typed, Undone, Close
      <4> QED
        BY <2>only, <4>1, <4>2 DEF SeesDefaults, SetsDefault
    <3> QED
      BY <2>end, <3>1, <3>2 DEF EndSession, Commit, CommitFails
  <2>9. ASSUME NEW r \in Requests, Store(r) \/ NoStore(r) \/ Reply(r) \/ Expire(r) PROVE DefaultInv'
    <3>1. /\ UNCHANGED <<op, tx, dflt, cred, snap, cleared, raced>>
          /\ \A q \in Requests \ {r} : pc'[q] = pc[q]
          /\ pc'[r] = pc[r] \/ (pc[r] \in Answering /\ pc'[r] \in Answering)
      BY <2>0, <2>9 DEF Typed, Store, NoStore, Reply, Expire, Move, Answering
    <3>2. SeesDefaults(r)'
      BY <3>1 DEF DefaultInv, SeesDefaults, SetsDefault, Provider, Answering
    <3> QED
      BY <2>only, <3>1, <3>2 DEF SetsDefault
  <2>10. ASSUME NEW r \in Requests, StoreConflict(r) PROVE DefaultInv'
    <3>1. /\ UNCHANGED <<op, dflt, raced>> /\ pc[r] \in Answering /\ pc'[r] \in Answering
          /\ \A q \in Requests \ {r} : pc'[q] = pc[q]
      BY <2>0, <2>10 DEF Typed, StoreConflict, Move, Answering
    <3>2. CASE UNCHANGED <<tx, work>>
      <4>1. SeesDefaults(r)'
        BY <3>1, <3>2 DEF DefaultInv, SeesDefaults, SetsDefault, Provider, Answering
      <4> QED
        BY <2>only, <3>1, <3>2, <4>1 DEF SetsDefault
    <3>3. CASE Close(r, "aborted")
      <4>1. tx'[r] # "open"
        BY <2>0, <3>3 DEF Typed, Close
      <4> QED
        BY <2>0, <2>only, <3>1, <3>3, <4>1 DEF Typed, Close, SeesDefaults, SetsDefault
    <3> QED
      BY <2>10, <3>2, <3>3 DEF StoreConflict
  <2>11. CASE Crash
    <3>1. \A r \in Requests : tx'[r] # "open"
      BY <2>0, <2>11 DEF Typed, Crash
    <3> QED
      BY <2>11, <3>1 DEF Crash, DefaultInv, RaceSeen, SeesDefaults, SetsDefault, OneDefault
  <2>12. CASE UNCHANGED vars
    BY <2>12 DEF vars, DefaultInv, RaceSeen, SeesDefaults, SetsDefault, OneDefault, Provider
  <2> QED
    BY <2>1, <2>2, <2>3, <2>4, <2>5, <2>6, <2>7, <2>9, <2>10, <2>11, <2>12, <2>end
    DEF Next, Lookup, Handle, Finish
<1>3. DefaultInv => OneDefault
  BY DEF DefaultInv
<1> QED
  BY <1>1, <1>2, <1>3, TypeInvHolds, RowsHold, PTL DEF Spec

-----------------------------------------------------------------------------
\* An answer is only given by a handler that has come to its end, and no
\* success outlives its transaction, unless the commit itself fails.
SuccessOf(r) ==
  /\ pc[r] \in {"new", "begin"} \cup Handling => answer[r] = "pending"
  /\ answer[r] = "ok" /\ ~crashed
       => \E q \in Requests : q = src[r] /\ (tx[q] \in {"open", "committed"} \/ q \in failed)

Successes == \A r \in Requests : SuccessOf(r)

\* Nobody is told of a success that has been undone: until the process dies the
\* transaction behind an answer, given or replayed, is committed, still open, or
\* undone by its own failing commit after the answer had left.
THEOREM SuccessIsNotUndone == Spec => []OkNotUndone
<1>1. Init => Successes
  BY DEF Init, Successes, SuccessOf
<1>2. TypeInv /\ Book /\ Successes /\ [Next]_vars => Successes'
  <2> SUFFICES ASSUME TypeInv, Book, Successes, [Next]_vars PROVE Successes'
    OBVIOUS
  <2>0. Typed /\ Flow
    BY DEF TypeInv
  <2> USE DEF asked, told, table, rows, work
  \* A step of r that undoes no transaction an answer of another rests on.
  <2>only. ASSUME NEW r \in Requests, SuccessOf(r)', crashed' = crashed, failed \subseteq failed',
                  \/ r \notin Kept
                  \/ tx'[r] = tx[r]
                  \/ tx'[r] \in {"open", "committed"}
                  \/ r \in failed',
                  \A q \in Requests \ {r} :
                    pc'[q] = pc[q] /\ tx'[q] = tx[q] /\ src'[q] = src[q] /\ answer'[q] = answer[q]
           PROVE  Successes'
    <3> SUFFICES ASSUME NEW u \in Requests \ {r} PROVE SuccessOf(u)'
      BY <2>only DEF Successes
    <3>1. SuccessOf(u) /\ (src[u] = r => r \in Kept)
      BY DEF Successes, Book, BookOf
    <3>2. ASSUME NEW q \in Requests, q = src[u], tx[q] \in {"open", "committed"} \/ q \in failed
          PROVE  tx'[q] \in {"open", "committed"} \/ q \in failed'
      BY <2>only, <3>1, <3>2
    <3> QED
      BY <2>only, <3>1, <3>2 DEF SuccessOf
  <2>1. ASSUME NEW r \in Requests, NEW k \in Keys \cup {None}, NEW o \in Ops,
               Replay(r, k, o) \/ Mismatch(r, k, o) \/ Process(r, k, o)
        PROVE  Successes'
    <3>1. /\ pc[r] = "new" /\ answer[r] = "pending" /\ tx' = tx /\ UNCHANGED <<failed, crashed>>
          /\ \A q \in Requests \ {r} : pc'[q] = pc[q] /\ src'[q] = src[q] /\ answer'[q] = answer[q]
      BY <2>0, <2>1 DEF Typed, Replay, Mismatch, Process, Arrive, Answered, Move, Successes, SuccessOf
    <3>2. SuccessOf(r)'
      <4>1. CASE Replay(r, k, o)
        <5>1. PICK q \in Holder(k, o) : op[q] = o /\ Answered(r, answer[q], q)
          BY <4>1 DEF Replay
        <5>2. q \in Requests /\ src[q] = q
          BY <2>0, <5>1 DEF Typed, Holder, Book, BookOf, Kept
        <5>3. pc'[r] = "done" /\ src'[r] = q /\ answer'[r] = answer[q]
          BY <2>0, <4>1, <5>1 DEF Typed, Replay, Answered, Move
        <5> QED
          BY <3>1, <5>2, <5>3 DEF Successes, SuccessOf, Handling
      <4>2. CASE Mismatch(r, k, o)
        BY <2>0, <4>2 DEF Typed, Mismatch, Answered, Move, SuccessOf, Handling
      <4>3. CASE Process(r, k, o)
        BY <3>1, <4>3 DEF Process, SuccessOf
      <4> QED
        BY <2>1, <4>1, <4>2, <4>3
    <3> QED
      BY <2>only, <3>1, <3>2
  <2>2. ASSUME NEW r \in Requests, Refuse(r) PROVE Successes'
    <3>1. SuccessOf(r)'
      BY <2>0, <2>2 DEF Typed, Refuse, Move, SuccessOf, Handling
    <3> QED
      BY <2>0, <2>2, <2>only, <3>1 DEF Typed, Refuse, Move
  <2>3. ASSUME NEW r \in Requests, BeginCreate(r) \/ Load(r) \/ UnsetStart(r) \/ Unset(r)
        PROVE  Successes'
    <3>1. pc[r] \in {"begin"} \cup Handling /\ r \notin Kept /\ answer[r] = "pending"
      BY <2>3 DEF BeginCreate, Load, UnsetStart, Unset, Handling, Book, BookOf, Successes, SuccessOf
    <3>2. SuccessOf(r)'
      BY <2>3, <3>1 DEF BeginCreate, Load, UnsetStart, Unset, SuccessOf
    <3> QED
      BY <2>0, <2>3, <2>only, <3>1, <3>2
      DEF Typed, BeginCreate, Load, Open, UnsetStart, Unset, Move
  <2>4. ASSUME NEW r \in Requests, FlushInsert(r) \/ FlushUpdate(r) \/ FlushDelete(r)
        PROVE  Successes'
    <3>1. PICK w \in {"nothing", "insert", "update", "delete"} : Flushed(r, w) /\ pc[r] = "flush"
      BY <2>4 DEF FlushInsert, FlushUpdate, FlushDelete
    <3>2. tx[r] = "open" /\ src[r] = r
      BY <3>1 DEF Book, BookOf, Handling, TypeInv, Flow, FlowOf
    <3>3. SuccessOf(r)'
      BY <2>0, <3>1, <3>2 DEF Typed, Flushed, Move, SuccessOf, Handling
    <3> QED
      BY <2>0, <2>only, <3>1, <3>3 DEF Typed, Flushed, Move
  <2>5. ASSUME NEW r \in Requests, Fail(r) PROVE Successes'
    <3>1. r \notin Kept
      BY <2>5 DEF Fail, Book, BookOf
    <3>2. SuccessOf(r)'
      BY <2>0, <2>5 DEF Typed, Fail, Move, SuccessOf, Handling
    <3> QED
      BY <2>0, <2>5, <2>only, <3>1, <3>2 DEF Typed, Fail, Close, Move
  <2>6. ASSUME NEW r \in Requests, EndSession(r) PROVE Successes'
    <3>1. /\ UNCHANGED <<pc, src, crashed>> /\ failed \subseteq failed'
          /\ tx'[r] = "committed" \/ r \in failed'
          /\ \A q \in Requests \ {r} : tx'[q] = tx[q]
      BY <2>0, <2>6 DEF Typed, EndSession, Commit, CommitFails, Applied, Undone, Close
    <3>2. /\ answer'[r] = answer[r] \/ answer'[r] = "error"
          /\ \A q \in Requests \ {r} : answer'[q] = answer[q]
      BY <2>0, <2>6 DEF Typed, EndSession, Commit, CommitFails
    <3>3. pc[r] \notin {"new", "begin"} \cup Handling
      BY <2>6 DEF EndSession, Handling
    <3>4. ASSUME answer'[r] = "ok", ~crashed
          PROVE  \E q \in Requests : q = src[r] /\ (tx'[q] \in {"open", "committed"} \/ q \in failed')
      <4>1. answer[r] = "ok"
        BY <3>2, <3>4
      <4>2. PICK q \in Requests : q = src[r] /\ (tx[q] \in {"open", "committed"} \/ q \in failed)
        BY <3>4, <4>1 DEF Successes, SuccessOf
      <4>3. tx'[q] \in {"open", "committed"} \/ q \in failed'
        BY <3>1, <4>2
      <4> QED
        BY <4>2, <4>3
    <3>5. SuccessOf(r)'
      BY <3>1, <3>3, <3>4 DEF SuccessOf
    <3> QED
      BY <2>only, <3>1, <3>2, <3>5
  <2>7. ASSUME NEW r \in Requests, Store(r) \/ NoStore(r) \/ Reply(r) \/ Expire(r) PROVE Successes'
    <3>1. /\ UNCHANGED <<answer, src, tx, failed, crashed>>
          /\ \A q \in Requests \ {r} : pc'[q] = pc[q]
          /\ pc'[r] = pc[r] \/ pc'[r] \in {"reply", "done"}
      BY <2>0, <2>7 DEF Typed, Store, NoStore, Reply, Expire, Move
    <3>2. SuccessOf(r)'
      BY <3>1 DEF Successes, SuccessOf, Handling
    <3> QED
      BY <2>only, <3>1, <3>2
  <2>8. ASSUME NEW r \in Requests, StoreConflict(r) PROVE Successes'
    <3>1. /\ r \notin Kept /\ pc'[r] = "reply" /\ answer'[r] = "error" /\ UNCHANGED <<src, failed, crashed>>
          /\ \A q \in Requests \ {r} : pc'[q] = pc[q] /\ answer'[q] = answer[q] /\ tx'[q] = tx[q]
      BY <2>0, <2>8 DEF Typed, StoreConflict, Close, Move, Book, BookOf
    <3> QED
      BY <2>only, <3>1 DEF SuccessOf, Handling
  <2>9. CASE Crash
    BY <2>0, <2>9 DEF Typed, Crash, Successes, SuccessOf, Handling
  <2>10. CASE UNCHANGED vars
    BY <2>10 DEF vars, Successes, SuccessOf
  <2> QED
    BY <2>1, <2>2, <2>3, <2>4, <2>5, <2>6, <2>7, <2>8, <2>9, <2>10
    DEF Next, Lookup, Handle, Finish
<1>3. Successes => OkNotUndone
  BY DEF Successes, SuccessOf, OkNotUndone
<1> QED
  BY <1>1, <1>2, <1>3, TypeInvHolds, BookHolds, PTL DEF Spec
=============================================================================
