------------------------------ MODULE MCBackup ------------------------------
(* Instances of Backup for TLC.                                            *)
EXTENDS Backup, TLC

CONSTANTS w1, k1, k2, p1

\* One work with two files; odd rows name the first, so a third row would be an alias.
MCWorkOf == (k1 :> w1) @@ (k2 :> w1)
MCKeyOf == [a \in Artifacts |-> IF a = 2 THEN k2 ELSE k1]

\* Bytes have size 1; a client that gives no size registers 0.
MCFileSize == [k \in Keys |-> 1]
=============================================================================
