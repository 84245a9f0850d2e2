----------------------------- MODULE WorkStates -----------------------------
(***************************************************************************)
(* The lifecycle of a work item: the control plane's transition graph      *)
(* (state_machine.py), the narrower graph a worker's lease may use         *)
(* (worker_transitions.py), and the status classes the handlers test.      *)
(***************************************************************************)
EXTENDS Integers

WorkStatus ==
  { "queued", "provisioning", "analyzing", "implementing", "verifying",
    "awaiting_feedback", "awaiting_approval", "awaiting_input",
    "budget_exhausted", "committing", "pr_created", "completed", "failed",
    "cancelled" }

TerminalWork == { "completed", "failed", "cancelled" }

\* ALLOWED_TRANSITIONS: the edges ensure_transition accepts, whoever asks.
AllowedTransitions ==
  [ s \in WorkStatus |->
      CASE s = "queued"            -> { "provisioning", "cancelled" }
        [] s = "provisioning"      -> { "analyzing", "failed", "cancelled" }
        [] s = "analyzing"         -> { "implementing", "awaiting_input",
                                        "budget_exhausted", "failed", "cancelled" }
        [] s = "implementing"      -> { "verifying", "awaiting_input",
                                        "budget_exhausted", "failed", "cancelled" }
        [] s = "verifying"         -> { "implementing", "awaiting_feedback",
                                        "awaiting_approval", "budget_exhausted",
                                        "failed", "cancelled" }
        [] s = "awaiting_feedback" -> { "implementing", "awaiting_approval", "cancelled" }
        [] s = "awaiting_approval" -> { "implementing", "committing", "cancelled" }
        [] s = "awaiting_input"    -> { "implementing", "cancelled" }
        [] s = "budget_exhausted"  -> { "implementing", "cancelled" }
        [] s = "committing"        -> { "pr_created", "failed" }
        [] s = "pr_created"        -> { "completed", "failed" }
        [] s = "failed"            -> { "queued", "cancelled" }
        [] OTHER                   -> {} ]

\* WORKER_TRANSITIONS: the edges a validated lease may take, listed one by one so that
\* a new edge of the graph above is not granted to workers by default.
WorkerTransitions ==
  [ s \in WorkStatus |->
      CASE s = "provisioning"      -> { "analyzing", "failed", "cancelled" }
        [] s = "analyzing"         -> { "implementing", "awaiting_input",
                                        "budget_exhausted", "failed", "cancelled" }
        [] s = "implementing"      -> { "verifying", "awaiting_input",
                                        "budget_exhausted", "failed", "cancelled" }
        [] s = "verifying"         -> { "implementing", "awaiting_feedback",
                                        "awaiting_approval", "budget_exhausted",
                                        "failed", "cancelled" }
        [] s = "awaiting_feedback" -> { "awaiting_approval", "cancelled" }
        [] s \in { "awaiting_approval", "awaiting_input", "budget_exhausted" } -> { "cancelled" }
        [] s = "committing"        -> { "pr_created", "failed" }
        [] s = "pr_created"        -> { "completed", "failed" }
        [] OTHER                   -> {} ]

\* The edges that additionally need an approved mock run (authorize_worker_transition).
MockOnly == { "pr_created", "completed" }

\* ensure_feedback_allowed: the work can still take human feedback.
FeedbackAllowed == WorkStatus \ ({ "committing", "pr_created" } \cup TerminalWork)

\* add_feedback and the Slack command: feedback resumes these, and is only queued in the others.
ResumedByFeedback == { "awaiting_feedback", "awaiting_approval", "awaiting_input" }

\* quarantine_worker: the outcome a quarantine gives to work that is not terminal.
QuarantineOutcome(s) ==
  IF s \in { "committing", "pr_created" } THEN "failed" ELSE "cancelled"
=============================================================================
