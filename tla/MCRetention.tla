----------------------------- MODULE MCRetention ----------------------------
(* Instances of Retention for TLC.                                         *)
EXTENDS Retention, TLC

CONSTANTS w1, w2, k1, k2, p1

\* Rows 1 and 3 name one key of the first work, row 2 the only key of the second.
MCWorkOf == (k1 :> w1) @@ (k2 :> w2)
MCKeyOf == [a \in Artifacts |-> IF a = 2 THEN k2 ELSE k1]

\* Bytes have size 1; a client that gives no size registers 0.
MCFileSize == [k \in Keys |-> 1]
=============================================================================
