--------------------------- MODULE MCRequestReplay ---------------------------
(* The operations RequestReplay is checked with: one provider, a create and  *)
(* an update that set the default, one that clears it, and a delete.         *)
EXTENDS RequestReplay

CONSTANTS c1, c2, p

OneProvider == [c \in Creds |-> p]

MCOps == {[kind |-> "create", on |-> p,  to |-> "set"],
          [kind |-> "update", on |-> c1, to |-> "set"],
          [kind |-> "update", on |-> c1, to |-> "clear"],
          [kind |-> "delete", on |-> c1, to |-> "keep"]}
=============================================================================
