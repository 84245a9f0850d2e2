----------------------------- MODULE Occupancy -----------------------------
(***************************************************************************)
(* What a worker host promises about its room, seen from outside: never    *)
(* more virtual machines than it has slots, a run is booted at most until  *)
(* its room is returned, and room is returned only once its machine is     *)
(* gone.                                                                   *)
(***************************************************************************)
EXTENDS Integers, FiniteSets

CONSTANTS Works, Slots

VARIABLES
  occupied,  \* the runs that have a virtual machine on the host
  returned   \* the runs whose room the control plane has got back

vars == <<occupied, returned>>

Init == occupied = {} /\ returned = {}

Boot(w) ==
  /\ w \notin occupied \cup returned
  /\ Cardinality(occupied) < Slots
  /\ occupied' = occupied \cup { w }
  /\ UNCHANGED returned

Vanish(w) ==
  /\ w \in occupied
  /\ occupied' = occupied \ { w }
  /\ UNCHANGED returned

GiveBack(w) ==
  /\ w \notin occupied \cup returned
  /\ returned' = returned \cup { w }
  /\ UNCHANGED occupied

Next == \E w \in Works : Boot(w) \/ Vanish(w) \/ GiveBack(w)

Spec == Init /\ [][Next]_vars
=============================================================================
