----------------------------- MODULE RunStatus -----------------------------
(***************************************************************************)
(* The two status machines of a Run: RunStatus and RunStepStatus with      *)
(* their transition_to tables (vestrace-domain/src/run/status.rs).  Every  *)
(* status change made through the domain asks these tables; two of the     *)
(* worker's handlers assign a step status without asking, which is why     *)
(* they are kept apart from the commits that use them.                     *)
(***************************************************************************)

RunStatuses ==
    {"created", "preparing", "running",
     "waiting_for_input", "waiting_for_approval", "waiting_for_dependency",
     "paused", "paused_policy_changed",
     "succeeded", "succeeded_with_warnings", "partial",
     "failed", "cancelled", "expired"}

\* RunStatus::is_terminal.
TerminalRun ==
    {"succeeded", "succeeded_with_warnings", "partial",
     "failed", "cancelled", "expired"}

\* The target list of RunStatus::transition_to for each source status.
RunTargets(s) ==
    CASE s = "created"   -> {"preparing", "cancelled"}
      [] s = "preparing" -> {"running", "waiting_for_input", "failed", "cancelled"}
      [] s = "running"   -> {"waiting_for_input", "waiting_for_approval",
                             "waiting_for_dependency", "paused",
                             "paused_policy_changed", "succeeded",
                             "succeeded_with_warnings", "partial",
                             "failed", "cancelled"}
      [] s \in {"waiting_for_input", "waiting_for_approval"} ->
                            {"running", "paused", "cancelled", "expired"}
      [] s = "waiting_for_dependency" ->
                            {"running", "paused", "failed", "cancelled", "expired"}
      [] s \in {"paused", "paused_policy_changed"} ->
                            {"running", "cancelled", "expired"}
      [] OTHER           -> {}

\* RunStatus::transition_to: a status may always "move" to itself, terminal
\* ones included.
RunTransition(from, to) == from = to \/ to \in RunTargets(from)

\* RunStatus::can_resume.
CanResume == {"paused", "paused_policy_changed"}

StepStatuses ==
    {"pending", "ready", "running", "waiting", "succeeded",
     "failed", "cancelled", "skipped", "unknown"}

\* RunStepStatus::is_terminal: `unknown` is not terminal.
TerminalStep == {"succeeded", "failed", "cancelled", "skipped"}

StepTargets(s) ==
    CASE s = "pending" -> {"ready", "skipped", "cancelled"}
      [] s = "ready"   -> {"running", "skipped", "cancelled"}
      [] s = "running" -> {"waiting", "succeeded", "failed", "cancelled", "unknown"}
      [] s = "waiting" -> {"ready", "running", "failed", "cancelled", "unknown"}
      [] s = "unknown" -> {"waiting", "succeeded", "failed", "cancelled"}
      [] OTHER         -> {}

\* RunStepStatus::transition_to.
StepTransition(from, to) == from = to \/ to \in StepTargets(from)
=============================================================================
