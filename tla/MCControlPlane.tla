--------------------------- MODULE MCControlPlane ---------------------------
(* Instances of ControlPlane for TLC.                                      *)
EXTENDS ControlPlane, TLC

\* Each worker has room for two runs.
MCCapacity == [k \in Workers |-> 2]

\* Works and workers are interchangeable: nothing orders them.
Symmetry == Permutations(Works) \cup Permutations(Workers)
=============================================================================
