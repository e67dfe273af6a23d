-------------------------- MODULE MissionLifecycle --------------------------
(***************************************************************************)
(* The status vocabulary of a mission run and of its parent mission, the   *)
(* sets every decision point consults, and the classes of stop reasons the *)
(* finalizer routes on.                                                    *)
(*                                                                         *)
(* Source: src/src/vex-agent/engine/types/mission-lifecycle.ts and         *)
(*         src/src/vex-agent/engine/types/stop-reasons.ts                  *)
(***************************************************************************)

MissionStatus ==
  {"draft", "ready", "running", "completed", "failed", "cancelled"}

ACTIVE_RUN_STATUSES == {"running"}

\* paused_user_form is left out: the tool that asks for it is not modelled.
PAUSED_RUN_STATUSES ==
  {"paused_approval", "paused_wake", "paused_error", "paused_user",
   "paused_plan_acceptance"}

TERMINAL_RUN_STATUSES == {"completed", "failed", "stopped", "cancelled"}

ACTIVE_OR_PAUSED_RUN_STATUSES == ACTIVE_RUN_STATUSES \cup PAUSED_RUN_STATUSES

MISSION_RUN_STATUSES == ACTIVE_OR_PAUSED_RUN_STATUSES \cup TERMINAL_RUN_STATUSES

APPROVAL_RESUME_CLAIMABLE_RUN_STATUSES == {"paused_approval", "running"}

\* Business stops that end a run on the model's own word.  The five members
\* that map a run to "failed" are indistinguishable to the finalizer:
\* "max_loss_hit" stands for them.
BUSINESS_OUTCOMES == {"goal_reached", "max_loss_hit"}

\* Runtime stops the scheduler continues by itself, and those an operator has
\* to review.  One member stands for each class.
CONTINUABLE_STOPS == {"iteration_limit"}
REVIEW_STOPS == {"no_progress"}

\* Stops whose park has already been written when the loop returns: the
\* finalizer has nothing left to write for them.
PARKED_STOPS ==
  {"user_paused", "approval_required", "waiting_for_wake",
   "plan_acceptance_required"}

STOP_REASONS ==
  BUSINESS_OUTCOMES \cup CONTINUABLE_STOPS \cup REVIEW_STOPS \cup PARKED_STOPS
    \cup {"user_stopped", "system_error"}

\* Reasons a row may carry that no loop result names.
ROW_REASONS == STOP_REASONS \cup {"none", "provider_error", "restart_orphan"}

\* The mission status a finished run gives its mission.
OutcomeStatus(reason) ==
  IF reason = "goal_reached" THEN "completed" ELSE "failed"
=============================================================================
