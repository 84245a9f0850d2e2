---------------------------- MODULE Reservation ----------------------------
(***************************************************************************)
(* What the leases of the control plane promise, seen from outside: a work *)
(* is run by one worker only, holds one slot of that worker from its claim *)
(* on, and gives the slot back once, after it has finished.  A worker that *)
(* is shut out finishes all its runs at once and keeps their slots taken.  *)
(***************************************************************************)
CONSTANTS Works, Workers, None

VARIABLES
  owner,  \* the worker that runs each work, or None
  phase,  \* "waiting", "running" or "finished"
  slot    \* "free", "held", "returned" or "kept"

vars == <<owner, phase, slot>>

Init ==
  /\ owner = [w \in Works |-> None]
  /\ phase = [w \in Works |-> "waiting"]
  /\ slot = [w \in Works |-> "free"]

Take(w, k) ==
  /\ phase[w] = "waiting"
  /\ owner' = [owner EXCEPT ![w] = k]
  /\ phase' = [phase EXCEPT ![w] = "running"]
  /\ slot' = [slot EXCEPT ![w] = "held"]

\* A run ends; work nobody took can be withdrawn.
Finish(w) ==
  /\ phase[w] # "finished"
  /\ phase' = [phase EXCEPT ![w] = "finished"]
  /\ UNCHANGED <<owner, slot>>

GiveBack(w) ==
  /\ phase[w] = "finished"
  /\ slot[w] = "held"
  /\ slot' = [slot EXCEPT ![w] = "returned"]
  /\ UNCHANGED <<owner, phase>>

\* Worker k is shut out: its runs finish and the slots it holds are never given back.
ShutOut(k) ==
  /\ phase' = [w \in Works |-> IF owner[w] = k THEN "finished" ELSE phase[w]]
  /\ slot' = [w \in Works |-> IF owner[w] = k /\ slot[w] = "held" THEN "kept" ELSE slot[w]]
  /\ UNCHANGED owner

Next ==
  \/ \E w \in Works, k \in Workers : Take(w, k)
  \/ \E w \in Works : Finish(w) \/ GiveBack(w)
  \/ \E k \in Workers : ShutOut(k)

Spec == Init /\ [][Next]_vars
=============================================================================
