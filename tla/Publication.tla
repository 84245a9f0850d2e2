---------------------------- MODULE Publication ----------------------------
(***************************************************************************)
(* What the review gate promises, seen from outside: for each work item,   *)
(* a person approves at most one patch, only that patch is ever published, *)
(* it is published at most once, and the work is reported as completed     *)
(* only after publication.  A publication may surface after the work has   *)
(* ended without success: a remote host may accept a request late.         *)
(***************************************************************************)
CONSTANTS Works, Digests, None

VARIABLES
  decision,   \* the approved patch of each work, or None
  published,  \* the patch behind the pull request of each work, or None
  outcome     \* "open", "succeeded" or "ended"

vars == <<decision, published, outcome>>

Init ==
  /\ decision  = [w \in Works |-> None]
  /\ published = [w \in Works |-> None]
  /\ outcome   = [w \in Works |-> "open"]

\* A person approves patch d while the work is still open.
Approve(w, d) ==
  /\ decision[w] = None
  /\ outcome[w] = "open"
  /\ decision' = [decision EXCEPT ![w] = d]
  /\ UNCHANGED <<published, outcome>>

\* The approved patch, and no other, becomes a pull request.
Publish(w) ==
  /\ decision[w] # None
  /\ published[w] = None
  /\ published' = [published EXCEPT ![w] = decision[w]]
  /\ UNCHANGED <<decision, outcome>>

Succeed(w) ==
  /\ outcome[w] = "open"
  /\ published[w] # None
  /\ outcome' = [outcome EXCEPT ![w] = "succeeded"]
  /\ UNCHANGED <<decision, published>>

\* Works end together when the worker they share is quarantined.
Abandon(S) ==
  /\ \A w \in S : outcome[w] = "open"
  /\ outcome' = [w \in Works |-> IF w \in S THEN "ended" ELSE outcome[w]]
  /\ UNCHANGED <<decision, published>>

Next ==
  \/ \E w \in Works, d \in Digests : Approve(w, d)
  \/ \E w \in Works : Publish(w) \/ Succeed(w)
  \/ \E S \in SUBSET Works : Abandon(S)

Spec == Init /\ [][Next]_vars
=============================================================================
