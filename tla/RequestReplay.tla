----------------------------- MODULE RequestReplay -----------------------------
(***************************************************************************)
(* Write requests to /credentials behind the idempotency middleware.  The  *)
(* middleware looks a key up, lets the handler run, and stores the answer  *)
(* in a session of its own; the handler only flushes, and the dependency   *)
(* that gave it its session commits once the response has left the         *)
(* application, while the middleware is already storing it.                *)
(*                                                                         *)
(* A request is made once; a client that tries again makes another one     *)
(* with the same key and operation.  Rows are read and locked as under     *)
(* READ COMMITTED.                                                         *)
(***************************************************************************)
EXTENDS FiniteSets

CONSTANTS
  Requests,
  Keys,        \* values of Idempotency-Key
  Creds,       \* credentials of one user, existing or to be created
  First,       \* those that exist from the start
  Providers,
  ProviderOf,  \* the provider_type of each credential, never changed
  Ops,         \* the operations asked for
  None

Kinds == {"create", "update", "delete"}

\* to: is_default is set, cleared or left alone.  on: the credential, or for
\* create the provider.
Operation == [kind : Kinds, on : Creds \cup Providers, to : {"set", "clear", "keep"}]

ASSUME OpsAssumption ==
  /\ Ops \subseteq Operation
  /\ \A o \in Ops :
       /\ o.on \in IF o.kind = "create" THEN Providers ELSE Creds
       /\ o.kind = "create" => o.to # "clear"
       /\ o.kind = "delete" => o.to = "keep"
ASSUME ProviderAssumption == ProviderOf \in [Creds -> Providers]
ASSUME FirstAssumption == First \subseteq Creds
ASSUME NoneAssumption ==
  /\ None \notin Requests \cup Keys \cup Ops \cup Creds
  /\ None \notin [op : Ops, answer : {"ok", "refused"}]

VARIABLES
  pc,        \* where each request is
  key, op,   \* what it asks
  answer,    \* what the handler, later the client, was told
  src,       \* the request whose handling gave that answer
  known,     \* the middleware knows an owner for the record
  before,    \* history: the attempts of the same that had been answered before
  records,   \* requests whose answer is in idempotency_keys
  expired,   \* history: requests whose record has expired
  live,      \* rows of credentials
  dflt,      \* those with is_default
  used,      \* ids given to rows so far
  tx,        \* the transaction of each request
  cred,      \* the row it is about
  loaded,    \* is_default as it was read
  snap,      \* rows its UPDATE has found and waits for
  cleared,   \* rows whose default it has unset
  write,     \* what it has flushed to its own row
  raced,     \* history: providers with overlapping changes of the default
  failed,    \* history: requests whose commit failed and was undone
  crashed    \* history

asked == <<key, op, before>>
told  == <<answer, src, known>>
table == <<records, expired>>
rows  == <<live, dflt>>
work  == <<cred, loaded, snap, cleared, write>>
vars  == <<pc, asked, told, table, rows, used, tx, work, raced, failed, crashed>>

ReqPc == {"new", "begin", "unset", "wait", "flush", "store", "reply", "done", "lost"}

TypeOK ==
  /\ pc \in [Requests -> ReqPc]
  /\ key \in [Requests -> Keys \cup {None}]
  /\ op \in [Requests -> Ops \cup {None}]
  /\ \A r \in Requests : pc[r] # "new" => op[r] \in Ops
  /\ answer \in [Requests -> {"pending", "ok", "refused", "error"}]
  /\ src \in [Requests -> Requests \cup {None}]
  /\ known \in [Requests -> BOOLEAN]
  /\ before \in [Requests -> SUBSET Requests]
  /\ records \subseteq Requests /\ expired \subseteq Requests
  /\ live \subseteq used /\ used \subseteq Creds
  /\ dflt \subseteq live
  /\ tx \in [Requests -> {"none", "open", "committed", "aborted"}]
  /\ cred \in [Requests -> Creds \cup {None}]
  /\ loaded \in [Requests -> BOOLEAN]
  /\ snap \in [Requests -> SUBSET Creds]
  /\ cleared \in [Requests -> SUBSET Creds]
  /\ write \in [Requests -> {"nothing", "insert", "update", "delete"}]
  /\ raced \subseteq Providers
  /\ failed \subseteq Requests
  /\ crashed \in BOOLEAN

\* At most one default per provider.
Init ==
  /\ pc = [r \in Requests |-> "new"]
  /\ key = [r \in Requests |-> None]
  /\ op = [r \in Requests |-> None]
  /\ answer = [r \in Requests |-> "pending"]
  /\ src = [r \in Requests |-> None]
  /\ known = [r \in Requests |-> FALSE]
  /\ before = [r \in Requests |-> {}]
  /\ records = {} /\ expired = {}
  /\ live = First
  /\ used = live
  /\ dflt \in SUBSET live
  /\ \A c, d \in dflt : c # d => ProviderOf[c] # ProviderOf[d]
  /\ tx = [r \in Requests |-> "none"]
  /\ cred = [r \in Requests |-> None]
  /\ loaded = [r \in Requests |-> FALSE]
  /\ snap = [r \in Requests |-> {}]
  /\ cleared = [r \in Requests |-> {}]
  /\ write = [r \in Requests |-> "nothing"]
  /\ raced = {} /\ failed = {}
  /\ crashed = FALSE

-----------------------------------------------------------------------------
\* Where an operation is sent.
Endpoint(o) == IF o.kind = "create" THEN [kind |-> o.kind, on |-> None]
                                    ELSE [kind |-> o.kind, on |-> o.on]

Slot(k, o) == <<k, Endpoint(o)>>

Holder(k, o) == {q \in records : Slot(key[q], op[q]) = Slot(k, o)}

Provider(o) == IF o.kind = "create" THEN o.on ELSE ProviderOf[o.on]

Defaults(p) == {c \in dflt : ProviderOf[c] = p}

\* A request with key k (or none) and operation o reaches the lookup.
Arrive(r, k, o) ==
  /\ pc[r] = "new"
  /\ key' = [key EXCEPT ![r] = k]
  /\ op' = [op EXCEPT ![r] = o]
  /\ before' = [before EXCEPT ![r] =
                   {q \in Requests : pc[q] = "done" /\ k # None /\ key[q] = k /\ op[q] = o}]
  /\ UNCHANGED <<known, table, rows, used, tx, work, raced, failed, crashed>>

Answered(r, a, q) ==
  /\ answer' = [answer EXCEPT ![r] = a]
  /\ src' = [src EXCEPT ![r] = q]

Move(r, to) == pc' = [pc EXCEPT ![r] = to]

\* Mutant of Replay: the body is not compared.
ReplayAnyBody(r, k, o) ==
  /\ Arrive(r, k, o)
  /\ \E q \in Holder(k, o) : Answered(r, answer[q], q)
  /\ Move(r, "done")

\* The key is there with the same body: the stored answer is given.
Replay(r, k, o) ==
  /\ Arrive(r, k, o)
  /\ \E q \in Holder(k, o) : op[q] = o /\ Answered(r, answer[q], q)
  /\ Move(r, "done")

\* It is there with another body: an error raised in a middleware does not
\* reach the handler of its type, and the client is told 500.
Mismatch(r, k, o) ==
  /\ Arrive(r, k, o)
  /\ \E q \in Holder(k, o) : op[q] # o
  /\ Answered(r, "error", r)
  /\ Move(r, "done")

\* Without a key, or with a new one, the request goes to its handler.
Process(r, k, o) ==
  /\ Arrive(r, k, o)
  /\ Holder(k, o) = {}
  /\ src' = [src EXCEPT ![r] = r]
  /\ UNCHANGED answer
  /\ Move(r, "begin")

-----------------------------------------------------------------------------
\* Refused before a transaction has changed anything: no valid API key, too
\* many requests (no owner is known then, unless the development user exists),
\* not found or not valid.
Refuse(r) ==
  /\ pc[r] = "begin"
  /\ answer' = [answer EXCEPT ![r] = "refused"]
  /\ \E b \in BOOLEAN : known' = [known EXCEPT ![r] = b]
  /\ Move(r, "store")
  /\ UNCHANGED <<asked, src, table, rows, used, tx, work, raced, failed, crashed>>

\* The transaction begins; two that set the default of one provider race.
Open(r) ==
  /\ tx' = [tx EXCEPT ![r] = "open"]
  /\ raced' = raced \cup
       {p \in {Provider(op[r])} :
          /\ op[r].to = "set"
          /\ \E q \in Requests : tx[q] = "open" /\ op[q].to = "set" /\ Provider(op[q]) = p}

\* Mutant of BeginCreate: the other defaults are left alone.
BeginCreateNoUnset(r) ==
  /\ pc[r] = "begin" /\ op[r].kind = "create"
  /\ Open(r)
  /\ Move(r, "flush")
  /\ UNCHANGED <<asked, told, table, rows, used, work, failed, crashed>>

BeginCreate(r) ==
  /\ pc[r] = "begin" /\ op[r].kind = "create"
  /\ Open(r)
  /\ Move(r, IF op[r].to = "set" THEN "unset" ELSE "flush")
  /\ UNCHANGED <<asked, told, table, rows, used, work, failed, crashed>>

\* update_credential and delete_credential read the row first.
Load(r) ==
  /\ pc[r] = "begin" /\ op[r].kind # "create"
  /\ op[r].on \in live
  /\ Open(r)
  /\ cred' = [cred EXCEPT ![r] = op[r].on]
  /\ loaded' = [loaded EXCEPT ![r] = op[r].on \in dflt]
  /\ Move(r, IF op[r].to = "set" THEN "unset" ELSE "flush")
  /\ UNCHANGED <<asked, told, table, rows, used, snap, cleared, write, failed, crashed>>

\* Rows another transaction has changed and not committed.
Locked(r) ==
  UNION {cleared[q] \cup IF write[q] \in {"update", "delete"} THEN {cred[q]} ELSE {} :
           q \in {p \in Requests \ {r} : tx[p] = "open"}}

\* The UPDATE of the other defaults finds its rows in the snapshot it starts
\* with, waits for those that are locked, and then changes the ones that
\* still are defaults.
UnsetStart(r) ==
  /\ pc[r] = "unset"
  /\ snap' = [snap EXCEPT ![r] = Defaults(Provider(op[r])) \ {cred[r]}]
  /\ Move(r, "wait")
  /\ UNCHANGED <<asked, told, table, rows, used, tx, cred, loaded, cleared, write, raced, failed, crashed>>

Unset(r) ==
  /\ pc[r] = "wait"
  /\ snap[r] \cap Locked(r) = {}
  /\ cleared' = [cleared EXCEPT ![r] = snap[r] \cap dflt]
  /\ Move(r, "flush")
  /\ UNCHANGED <<asked, told, table, rows, used, tx, cred, loaded, snap, write, raced, failed, crashed>>

\* The ORM leaves a default alone that is to become what it was read as.
SameAsLoaded(r) == op[r].to = IF loaded[r] THEN "set" ELSE "clear"

Flushed(r, w) ==
  /\ write' = [write EXCEPT ![r] = w]
  /\ answer' = [answer EXCEPT ![r] = "ok"]
  /\ known' = [known EXCEPT ![r] = TRUE]
  /\ Move(r, "store")
  /\ UNCHANGED <<asked, src, table, rows, tx, loaded, snap, cleared, raced, failed, crashed>>

FlushInsert(r) ==
  /\ pc[r] = "flush" /\ op[r].kind = "create"
  /\ \E c \in Creds \ used :
       /\ ProviderOf[c] = op[r].on
       /\ cred' = [cred EXCEPT ![r] = c]
       /\ used' = used \cup {c}
  /\ Flushed(r, "insert")

FlushUpdate(r) ==
  /\ pc[r] = "flush" /\ op[r].kind = "update"
  /\ \/ SameAsLoaded(r) /\ Flushed(r, "nothing")
     \/ ~SameAsLoaded(r) /\ cred[r] \in live \ Locked(r) /\ Flushed(r, "update")
  /\ UNCHANGED <<used, cred>>

\* A row that is gone already is only warned about.
FlushDelete(r) ==
  /\ pc[r] = "flush" /\ op[r].kind = "delete"
  /\ cred[r] \notin Locked(r)
  /\ Flushed(r, "delete")
  /\ UNCHANGED <<used, cred>>

\* The session is closed, what it held is gone.
Close(r, end) ==
  /\ tx' = [tx EXCEPT ![r] = end]
  /\ cred' = [cred EXCEPT ![r] = None]
  /\ loaded' = [loaded EXCEPT ![r] = FALSE]
  /\ snap' = [snap EXCEPT ![r] = {}]
  /\ cleared' = [cleared EXCEPT ![r] = {}]
  /\ write' = [write EXCEPT ![r] = "nothing"]

\* A statement fails: the row to update is gone, the wait for a lock would
\* never end, the connection is lost.  The session is rolled back.
Fail(r) ==
  /\ pc[r] \in {"unset", "wait", "flush"}
  /\ Close(r, "aborted")
  /\ answer' = [answer EXCEPT ![r] = "error"]
  /\ Move(r, "store")
  /\ UNCHANGED <<asked, src, known, table, rows, used, raced, failed, crashed>>

\* What the transaction does to the flag of its own row.  Where nothing was
\* written, it stays what others made of it.
SetsOwn(r)    == write[r] \in {"insert", "update"} /\ op[r].to = "set"
ClearsOwn(r)  == write[r] = "update" /\ op[r].to = "clear"
DeletesOwn(r) == write[r] = "delete"

\* Mutant of DefaultsAfter: a deleted row keeps its flag.
DefaultsAfterDelete(r) ==
  {c \in dflt \ cleared[r] : c = cred[r] => ~ClearsOwn(r)}
    \cup {c \in {cred[r]} : SetsOwn(r)}

DefaultsAfter(r) ==
  {c \in dflt \ cleared[r] : c = cred[r] => ~ClearsOwn(r) /\ ~DeletesOwn(r)}
    \cup {c \in {cred[r]} : SetsOwn(r)}

RowsAfter(r) ==
  CASE write[r] = "insert" -> live \cup {cred[r]}
    [] write[r] = "delete" -> live \ {cred[r]}
    [] OTHER               -> live

Applied(r) ==
  /\ Close(r, "committed")
  /\ dflt' = DefaultsAfter(r)
  /\ live' = RowsAfter(r)
  /\ UNCHANGED failed

Undone(r) ==
  /\ Close(r, "aborted")
  /\ failed' = failed \cup {r}
  /\ UNCHANGED rows

Commit(r) == Applied(r) /\ UNCHANGED answer

\* The commit raises: it is undone, or only its confirmation is lost.  The
\* response has left the application; a middleware that still reads it raises
\* the same error, one that has read it goes on with the answer it has.
CommitFails(r) ==
  /\ Applied(r) \/ Undone(r)
  /\ \/ UNCHANGED answer
     \/ pc[r] = "store" /\ key[r] # None /\ answer' = [answer EXCEPT ![r] = "error"]

\* Mutant of EndSession: it only happens if the middleware is still at work.
EndSessionInTime(r) ==
  /\ tx[r] = "open" /\ pc[r] \in {"store", "reply"}
  /\ Commit(r) \/ CommitFails(r)
  /\ UNCHANGED <<pc, asked, src, known, table, used, raced, crashed>>

\* The end of get_db_session, after the response has been sent.
EndSession(r) ==
  /\ tx[r] = "open" /\ pc[r] \in {"store", "reply", "done"}
  /\ Commit(r) \/ CommitFails(r)
  /\ UNCHANGED <<pc, asked, src, known, table, used, raced, crashed>>

-----------------------------------------------------------------------------
\* Mutant of Storable: only successes are stored.
StorableSuccess(r) == key[r] # None /\ answer[r] = "ok" /\ known[r]

\* Answers below 500 with a known owner are stored, if there is a key.
Storable(r) == key[r] # None /\ answer[r] # "error" /\ known[r]

Store(r) ==
  /\ pc[r] = "store" /\ Storable(r)
  /\ Holder(key[r], op[r]) = {}
  /\ records' = records \cup {r}
  /\ Move(r, "reply")
  /\ UNCHANGED <<asked, told, expired, rows, used, tx, work, raced, failed, crashed>>

NoStore(r) ==
  /\ pc[r] = "store" /\ ~Storable(r)
  /\ Move(r, "reply")
  /\ UNCHANGED <<asked, told, table, rows, used, tx, work, raced, failed, crashed>>

\* Mutant of StoreConflict: the client is given the answer all the same.
StoreConflictIgnored(r) ==
  /\ pc[r] = "store" /\ Storable(r)
  /\ Holder(key[r], op[r]) # {}
  /\ \/ UNCHANGED <<tx, work>>
     \/ tx[r] = "open" /\ Close(r, "aborted")
  /\ Move(r, "reply")
  /\ UNCHANGED <<asked, told, table, rows, used, raced, failed, crashed>>

\* Another request has taken the slot since the lookup: the unique index
\* refuses the record, the client is told 500, and the application is
\* cancelled, which may be before it has committed.
StoreConflict(r) ==
  /\ pc[r] = "store" /\ Storable(r)
  /\ Holder(key[r], op[r]) # {}
  /\ answer' = [answer EXCEPT ![r] = "error"]
  /\ \/ UNCHANGED <<tx, work>>
     \/ tx[r] = "open" /\ Close(r, "aborted")
  /\ Move(r, "reply")
  /\ UNCHANGED <<asked, src, known, table, rows, used, raced, failed, crashed>>

Reply(r) ==
  /\ pc[r] = "reply"
  /\ Move(r, "done")
  /\ UNCHANGED <<asked, told, table, rows, used, tx, work, raced, failed, crashed>>

\* 24 hours after it was stored.  Every lookup removes such records first.
Expire(q) ==
  /\ q \in records
  /\ records' = records \ {q}
  /\ expired' = expired \cup {q}
  /\ UNCHANGED <<pc, asked, told, rows, used, tx, work, raced, failed, crashed>>

\* The process dies: its requests get no answer, its transactions are undone.
Crash ==
  /\ \E r \in Requests : tx[r] = "open" \/ pc[r] \notin {"new", "done", "lost"}
  /\ pc' = [r \in Requests |-> IF pc[r] \in {"new", "done"} THEN pc[r] ELSE "lost"]
  /\ tx' = [r \in Requests |-> IF tx[r] = "open" THEN "aborted" ELSE tx[r]]
  /\ cred' = [r \in Requests |-> None]
  /\ loaded' = [r \in Requests |-> FALSE]
  /\ snap' = [r \in Requests |-> {}]
  /\ cleared' = [r \in Requests |-> {}]
  /\ write' = [r \in Requests |-> "nothing"]
  /\ crashed' = TRUE
  /\ UNCHANGED <<asked, told, table, rows, used, raced, failed>>

-----------------------------------------------------------------------------
Lookup(r) ==
  \/ \E k \in Keys, o \in Ops : Replay(r, k, o) \/ Mismatch(r, k, o)
  \/ \E k \in Keys \cup {None}, o \in Ops : Process(r, k, o)

Handle(r) ==
  \/ Refuse(r) \/ BeginCreate(r) \/ Load(r) \/ UnsetStart(r) \/ Unset(r)
  \/ FlushInsert(r) \/ FlushUpdate(r) \/ FlushDelete(r) \/ Fail(r) \/ EndSession(r)

Finish(r) == Store(r) \/ NoStore(r) \/ StoreConflict(r) \/ Reply(r)

Next ==
  \/ \E r \in Requests : Lookup(r) \/ Handle(r) \/ Finish(r) \/ Expire(r)
  \/ Crash

Spec == Init /\ [][Next]_vars

\* What is left of a request after its handler needs nothing but the process:
\* the exit stack commits or fails to, whatever the middleware does.
Fairness == \A r \in Requests : WF_vars(EndSession(r))

FairSpec == Spec /\ Fairness

-----------------------------------------------------------------------------
\* Properties.

\* What each slot of the table holds, and from what each replay was given.
Slots == {Slot(k, o) : k \in Keys, o \in Ops}
Values == [op : Ops, answer : {"ok", "refused"}]
Held(r) == [op |-> op[r], answer |-> answer[r]]
Bound == [s \in Slots |->
            IF \E q \in records : Slot(key[q], op[q]) = s
              THEN Held(CHOOSE q \in records : Slot(key[q], op[q]) = s)
              ELSE None]
Given == [r \in Requests |->
            IF src[r] \in Requests \ {r} THEN <<Slot(key[r], op[r]), Held(r)>> ELSE None]

Register == INSTANCE KeyRegister WITH
  Askers <- Requests, Free <- None, bound <- Bound, given <- Given

\* The table behaves as a register that is written once per slot until it
\* expires; a replay gives the stored answer and only to the same operation
\* (idempotency.py:77 and the unique index).
RefinesRegister == Register!Spec

\* A client that was answered below 500 and tries again with its key and
\* operation is not processed a second time while the record lives, whatever
\* other requests do (idempotency.py:67 looks before it processes).
AnsweredNotRedone ==
  \A r \in Requests : \A q \in before[r] :
    answer[q] # "error" /\ known[src[q]] /\ src[q] \notin expired
    => src[r] # r

\* A provider has at most one default as long as no two transactions that set
\* it overlapped; those that clear or delete may (credentials.py:149 and :208
\* unset what the statement sees).
OneDefault ==
  \A c, d \in dflt : c # d /\ ProviderOf[c] = ProviderOf[d] => ProviderOf[c] \in raced

\* Nobody is told of a success that the middleware has undone, by the handler
\* or by a replay: while the process lives, the transaction behind the answer
\* is committed or still to be, unless its own commit failed after the answer
\* had left (session.py:80, idempotency.py:127).
OkNotUndone ==
  \A r \in Requests :
    pc[r] = "done" /\ answer[r] = "ok" /\ ~crashed
    => \E q \in Requests : q = src[r] /\ (tx[q] \in {"open", "committed"} \/ q \in failed)

\* Who was told of a success, by the handler or by a replay of it, finds it
\* committed in the end, unless the process died or the commit failed: the
\* answer leaves before the commit (session.py:80).
OkIsApplied ==
  \A r \in Requests :
    pc[r] = "done" /\ answer[r] = "ok" ~>
      crashed \/ (\E q \in Requests : q = src[r] /\ (tx[q] = "committed" \/ q \in failed))

=============================================================================
