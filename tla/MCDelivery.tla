----------------------------- MODULE MCDelivery -----------------------------
(* Instances of Delivery for TLC.                                          *)
EXTENDS Delivery

\* Every work runs on the first worker.
MCAssigned == [w \in Works |-> CHOOSE k \in Workers : TRUE]
=============================================================================
