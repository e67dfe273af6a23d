-------------------------- MODULE MissionOperator ---------------------------
(***************************************************************************)
(* The operator's commands.  Every one reads the rows without a lock, then *)
(* acts on what it read; the steps in between are separate actions.        *)
(***************************************************************************)
EXTENDS MissionRows

Ask(cmd) == cmd \in Commands /\ op.pc = "idle"
Proceed(pc, r, st) == op' = [pc |-> pc, run |-> r, st |-> st]
Done == op' = IdleOp

\* signalMissionRunAbortLocal: whoever shares the run's controller sees it.
Signal(r) ==
  task' = [s \in Slices |->
             IF s \in ctl[r] THEN [task[s] EXCEPT !.signal = "aborted"] ELSE task[s]]

\* requestPause: refused for a parked run and for one nobody runs - except for
\* a run parked on its plan, which none of the refusals lists ...
PauseAsked ==
  /\ Ask("pause")
  /\ \E r \in ActiveRuns :
       /\ \/ run[r].st = "running" /\ LeaseLive
          \/ run[r].st = "paused_plan_acceptance"
       /\ Proceed("pause", r, run[r].st)
  /\ UNCHANGED <<rowVars, task, ctl, intent, orphan>>

\* ... then inserted by a plain statement, once.
EnqueuePause ==
  /\ op.pc = "pause"
  /\ IF \E q \in reqs : q.kind = "pause_after_step"
     THEN UNCHANGED reqs
     ELSE Enqueue("pause_after_step", op.run)
  /\ Done
  /\ UNCHANGED <<run, mission, lease, wake, approval, plan, task, ctl, intent, orphan>>

\* runStopDispatch: no run goes to the session stop; a live runner gets a
\* queued request; anything else is aborted directly.
StopRoute(st) == IF st = "running" /\ LeaseLive THEN "queue" ELSE "abort"

StopAsked ==
  /\ Ask("stop")
  /\ \/ ActiveRuns = {} /\ Proceed("session", NoRun, "absent")
     \/ \E r \in ActiveRuns : Proceed(StopRoute(run[r].st), r, run[r].st)
  /\ UNCHANGED <<rowVars, task, ctl, intent, orphan>>

\* Mutant: the request is inserted without looking at the run again.
EnqueueStopUnchecked ==
  /\ op.pc = "queue"
  /\ Enqueue("stop_terminal", op.run)
  /\ Proceed("signal", op.run, op.st)
  /\ UNCHANGED <<run, mission, lease, wake, approval, plan, task, ctl, intent, orphan>>

\* enqueueOperatorStopRequest refuses a run that is terminal under its lock.
EnqueueStop ==
  /\ op.pc = "queue"
  /\ \/ Terminal(op.run) /\ Done /\ UNCHANGED reqs
     \/ /\ ~Terminal(op.run)
        /\ Enqueue("stop_terminal", op.run)
        /\ Proceed("signal", op.run, op.st)
  /\ UNCHANGED <<run, mission, lease, wake, approval, plan, task, ctl, intent, orphan>>

SignalStop ==
  /\ op.pc = "signal"
  /\ Signal(op.run)
  /\ Done
  /\ UNCHANGED <<rowVars, ctl, intent, orphan>>

\* enqueueSessionStopRequest: hands an active run back to the run-scoped path;
\* otherwise ends the session's standing work, and retains a request only if
\* something is left to observe it.
SomethingObserves == LeaseLive \/ approval.st = "decided"

StopSession ==
  /\ op.pc = "session"
  /\ UNCHANGED <<run, mission, lease, plan, task, ctl, intent, orphan>>
  /\ \/ /\ \E r \in ActiveRuns : Proceed("reroute", r, run[r].st)
        /\ UNCHANGED <<wake, reqs, approval>>
     \/ /\ ActiveRuns = {} /\ OpenStop(NoRun)
        /\ Done
        /\ UNCHANGED <<wake, reqs, approval>>
     \/ /\ ActiveRuns = {} /\ ~OpenStop(NoRun)
        /\ wake' = NoWake
        /\ approval' = RejectPending
        /\ IF SomethingObserves
           THEN Enqueue("stop_terminal", NoRun)
           ELSE UNCHANGED reqs
        /\ Done

StopRerouted ==
  /\ op.pc = "reroute"
  /\ Proceed(StopRoute(op.st), op.run, op.st)
  /\ UNCHANGED <<rowVars, task, ctl, intent, orphan>>

\* abortActiveMissionForSession / abortMissionRun: read the run, retire its
\* wakes and approvals, then signal a loop that the READ said was running and
\* that has a controller in this process - or end the run directly.
AbortReads ==
  /\ op.pc = "abort"
  /\ \/ ActiveRuns = {} /\ Done
     \/ \E r \in ActiveRuns : Proceed("abort_wakes", r, run[r].st)
  /\ UNCHANGED <<rowVars, task, ctl, intent, orphan>>

AbortCancelsWakes ==
  /\ op.pc = "abort_wakes"
  /\ wake' = NoWake
  /\ Proceed("abort_approvals", op.run, op.st)
  /\ UNCHANGED <<run, mission, lease, reqs, approval, plan, task, ctl, intent, orphan>>

AbortRejectsApprovals ==
  /\ op.pc = "abort_approvals"
  /\ approval' = RejectPending
  /\ Proceed("abort_signal", op.run, op.st)
  /\ UNCHANGED <<run, mission, lease, wake, reqs, plan, task, ctl, intent, orphan>>

SeenLooping == op.st = "running" /\ ctl[op.run] # {}

AbortSignals ==
  /\ op.pc = "abort_signal"
  /\ IF SeenLooping
     THEN Signal(op.run) /\ Done
     ELSE Proceed("abort_apply", op.run, op.st) /\ UNCHANGED task
  /\ UNCHANGED <<rowVars, ctl, intent, orphan>>

AbortApplies ==
  /\ op.pc = "abort_apply"
  /\ ApplyUserStop(op.run, "cancelled")
  /\ Done
  /\ UNCHANGED <<plan, task, ctl, intent, orphan>>

\* stopMissionRunForEdit.
EditAsked ==
  /\ Ask("edit")
  /\ \E r \in ActiveRuns : Proceed("edit_wakes", r, run[r].st)
  /\ UNCHANGED <<rowVars, task, ctl, intent, orphan>>

EditCancelsWakes ==
  /\ op.pc = "edit_wakes"
  /\ wake' = NoWake
  /\ Proceed("edit_signal", op.run, op.st)
  /\ UNCHANGED <<run, mission, lease, reqs, approval, plan, task, ctl, intent, orphan>>

EditSignals ==
  /\ op.pc = "edit_signal"
  /\ IF SeenLooping
     THEN Signal(op.run) /\ intent' = intent \cup {op.run}
     ELSE UNCHANGED <<task, intent>>
  /\ Proceed("edit_apply", op.run, op.st)
  /\ UNCHANGED <<rowVars, ctl, orphan>>

\* applyStopForEditTransaction: the mission becomes a draft again only if this
\* transaction ended the run.
EditApplies ==
  /\ op.pc = "edit_apply"
  /\ ApplyUserStop(op.run, "draft")
  /\ IF Terminal(op.run) THEN Done ELSE Proceed("edit_reconcile", op.run, op.st)
  /\ UNCHANGED <<plan, task, ctl, intent, orphan>>

EditReconciles ==
  /\ op.pc = "edit_reconcile"
  /\ mission' = ReconciledMission
  /\ Done
  /\ UNCHANGED <<run, lease, wake, reqs, approval, plan, task, ctl, intent, orphan>>

AcceptPlan ==
  /\ "accept" \in Commands
  /\ plan = "unaccepted" /\ plan' = "accepted"
  /\ UNCHANGED <<run, mission, lease, wake, reqs, approval, memVars>>

DecideApproval ==
  /\ "approve" \in Commands
  /\ approval.st = "pending"
  /\ approval' = [approval EXCEPT !.st = "decided"]
  /\ UNCHANGED <<run, mission, lease, wake, reqs, plan, memVars>>
=============================================================================
