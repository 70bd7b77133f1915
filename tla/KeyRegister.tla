------------------------------ MODULE KeyRegister ------------------------------
(***************************************************************************)
(* What a table of idempotency keys promises: a slot (key, method and      *)
(* path) is free or holds one request body with its answer; what it holds  *)
(* is never replaced, only forgotten, and whoever is answered from it asks *)
(* with the body it holds and gets the answer it holds.                    *)
(***************************************************************************)
CONSTANTS Slots, Values, Askers, Free

VARIABLES
  bound,   \* what each slot holds
  given    \* the slot and the value each asker was answered from

Init ==
  /\ bound = [s \in Slots |-> Free]
  /\ given = [r \in Askers |-> Free]

Bind(s, v) ==
  /\ bound[s] = Free
  /\ bound' = [bound EXCEPT ![s] = v]
  /\ UNCHANGED given

Give(r, s) ==
  /\ given[r] = Free
  /\ bound[s] # Free
  /\ given' = [given EXCEPT ![r] = <<s, bound[s]>>]
  /\ UNCHANGED bound

Forget(s) ==
  /\ bound' = [bound EXCEPT ![s] = Free]
  /\ UNCHANGED given

Next ==
  \E s \in Slots :
    \/ \E v \in Values : Bind(s, v)
    \/ \E r \in Askers : Give(r, s)
    \/ Forget(s)

Spec == Init /\ [][Next]_<<bound, given>>
=============================================================================
