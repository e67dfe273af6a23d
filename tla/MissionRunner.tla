--------------------------- MODULE MissionRunner ----------------------------
(***************************************************************************)
(* What a slice does with the run it claimed: register its AbortController, *)
(* iterate the turn loop, finalize its outcome, unregister and release.    *)
(***************************************************************************)
EXTENDS MissionClaims

-----------------------------------------------------------------------------
(* Starting the turn loop on a claimed run.                                *)

MyRun(s) == task[s].run
Aborted(s) == task[s].signal = "aborted"

Finish(s, reason) ==
  task' = [task EXCEPT ![s].pc = "finalize", ![s].reason = reason]

\* resumeMissionRun: a plain read of the row; a terminal run is left alone.
ReadRun(s) ==
  /\ task[s].pc = "claimed"
  /\ Goto(s, IF Terminal(MyRun(s)) THEN "release" ELSE "registering")
  /\ UNCHANGED <<rowVars, ctl, intent, op, orphan>>

\* Mutant: a resume that gives up without telling the row.
PrepareFailsSilently(s) ==
  /\ task[s].pc = "registering" /\ task[s].entry \notin {"start", "recover"}
  /\ "throw" \in Outcomes
  /\ Goto(s, "release")
  /\ UNCHANGED <<rowVars, ctl, intent, op, orphan>>

\* Resolving the provider, its config or the mission row fails: the resume
\* falls into finalizeMissionRunError before any controller exists.
PrepareFails(s) ==
  /\ task[s].pc = "registering" /\ task[s].entry \notin {"start", "recover"}
  /\ "throw" \in Outcomes
  /\ Goto(s, "threw")
  /\ UNCHANGED <<rowVars, ctl, intent, op, orphan>>

\* registerMissionRunAbortController hands out the controller already
\* registered for the run, if there is one.  A started run goes straight to
\* its loop; every other entry must win a compare-and-set on the row first.
Register(s) ==
  /\ task[s].pc = "registering"
  /\ LET r == MyRun(s)
         shared == \E o \in ctl[r] : Aborted(o) IN
     /\ ctl' = [ctl EXCEPT ![r] = @ \cup {s}]
     /\ task' = [task EXCEPT
                   ![s].signal = IF shared THEN "aborted" ELSE "live",
                   ![s].pc = IF task[s].entry = "start" THEN "loop" ELSE "starting"]
  /\ UNCHANGED <<rowVars, intent, op, orphan>>

\* Mutant: a plain update instead of the compare-and-set.
StartRunBlindly(s) ==
  /\ task[s].pc = "starting"
  /\ run' = [run EXCEPT ![MyRun(s)].st = "running", ![MyRun(s)].reason = "none"]
  /\ Goto(s, "loop")
  /\ UNCHANGED <<mission, lease, wake, reqs, approval, plan, ctl, intent, op, orphan>>

\* startRunIfNotTerminal: refused on a terminal row, which throws.
StartRun(s) ==
  /\ task[s].pc = "starting"
  /\ LET r == MyRun(s) IN
     \/ /\ Terminal(r)
        /\ Goto(s, "threw") /\ UNCHANGED run
     \/ /\ ~Terminal(r)
        /\ run' = [run EXCEPT ![r].st = "running", ![r].reason = "none"]
        /\ Goto(s, "loop")
  /\ UNCHANGED <<mission, lease, wake, reqs, approval, plan, ctl, intent, op, orphan>>

-----------------------------------------------------------------------------
(* One iteration: the entry guards, then a turn.                           *)

\* Mutant: the guard skips its own observations but does not end the loop.
EntryAbortedSkips(s) ==
  /\ task[s].pc = "loop" /\ Aborted(s)
  /\ Goto(s, "turn")
  /\ UNCHANGED <<rowVars, ctl, intent, op, orphan>>

\* The first guard of runIterationEntryGuards.
EntryAborted(s) ==
  /\ task[s].pc = "loop" /\ Aborted(s)
  /\ Finish(s, "user_stopped")
  /\ UNCHANGED <<rowVars, ctl, intent, op, orphan>>

\* observeAndApplyControl takes the oldest open request, whatever its kind.
\* One minted for another run is retired unapplied, and the iteration goes on.
EntryObserves(s) ==
  /\ task[s].pc = "loop" /\ ~Aborted(s)
  /\ UNCHANGED <<plan, ctl, intent, op, orphan>>
  /\ LET r == MyRun(s) IN
     \/ /\ reqs = {}
        /\ Goto(s, "turn")
        /\ UNCHANGED <<run, mission, lease, wake, reqs, approval>>
     \/ \E q \in reqs :
          /\ Oldest(q)
          /\ \/ /\ q.run # r
                /\ reqs' = reqs \ {q}
                /\ Goto(s, "turn")
                /\ UNCHANGED <<run, mission, lease, wake, approval>>
             \/ /\ q.run = r /\ q.kind = "pause_after_step"
                /\ reqs' = reqs \ {q}
                /\ IF Terminal(r) THEN UNCHANGED run ELSE Park(r, "paused_user", "user_paused")
                /\ wake' = IF run[r].st = "paused_wake" THEN NoWake ELSE wake
                /\ Finish(s, "user_paused")
                /\ UNCHANGED <<mission, lease, approval>>
             \/ /\ IsStop(q, r)
                /\ ApplyUserStop(r, "cancelled")
                /\ Finish(s, "user_stopped")

\* The mission deadline, which is checked first, and the iteration budget,
\* which also ends the loop without another look at the queue.
EntryExhausted(s) ==
  /\ task[s].pc = "loop"
  /\ \E reason \in Outcomes \cap (CONTINUABLE_STOPS \cup {"max_loss_hit"}) :
       Finish(s, reason)
  /\ UNCHANGED <<rowVars, ctl, intent, op, orphan>>

InTurn(s) == task[s].pc = "turn"

\* The signal cancels inference and is re-read at every call boundary.
TurnAborted(s) ==
  /\ InTurn(s) /\ Aborted(s)
  /\ Finish(s, "user_stopped")
  /\ UNCHANGED <<rowVars, ctl, intent, op, orphan>>

TurnContinues(s) ==
  /\ InTurn(s)
  /\ Goto(s, "loop")
  /\ UNCHANGED <<rowVars, ctl, intent, op, orphan>>

\* A mutating tool stamps the run before it executes.
TurnMutates(s) ==
  /\ InTurn(s) /\ ~Aborted(s) /\ "mutate" \in Outcomes
  /\ run' = [run EXCEPT ![MyRun(s)].unsafe = TRUE]
  /\ UNCHANGED <<mission, lease, wake, reqs, approval, plan, task, ctl, intent, op, orphan>>

\* LoopDefer enqueues the wake when the session has none; the run is parked
\* only after the batch.
TurnDefers(s) ==
  /\ InTurn(s) /\ ~Aborted(s) /\ "defer" \in Outcomes
  /\ wake = NoWake
  /\ wake' = [kind |-> "continue", run |-> MyRun(s), attempt |-> 0]
  /\ Goto(s, "deferred")
  /\ UNCHANGED <<run, mission, lease, reqs, approval, plan, ctl, intent, op, orphan>>

\* applyWaitingForWakePostBatch.
ParkDeferred(s) ==
  /\ task[s].pc = "deferred"
  /\ GatedPark(MyRun(s), "paused_wake", "waiting_for_wake")
  /\ Finish(s, "waiting_for_wake")
  /\ UNCHANGED <<plan, ctl, intent, op, orphan>>

\* enqueueApprovalIntentWithGate: a stopped run gets a card that is rejected
\* in the same transaction, and the batch ends as a stop.
TurnAsksApproval(s) ==
  /\ InTurn(s) /\ ~Aborted(s) /\ "approval" \in Outcomes
  /\ UNCHANGED <<plan, ctl, intent, op, orphan>>
  /\ LET r == MyRun(s) IN
     IF Gated(r)
     THEN LandGatedStop(r) /\ Finish(s, "user_stopped")
     ELSE /\ Park(r, "paused_approval", "approval_required")
          /\ approval' = [st |-> "pending", run |-> r]
          /\ Finish(s, "approval_required")
          /\ UNCHANGED <<mission, lease, wake, reqs>>

\* PlanWrite re-arms the acceptance gate ...
TurnWritesPlan(s) ==
  /\ InTurn(s) /\ ~Aborted(s) /\ "plan" \in Outcomes
  /\ plan' = "unaccepted"
  /\ Goto(s, "planned")
  /\ UNCHANGED <<run, mission, lease, wake, reqs, approval, ctl, intent, op, orphan>>

\* ... and the batch parks the run on it.
ParkPlanned(s) ==
  /\ task[s].pc = "planned"
  /\ GatedPark(MyRun(s), "paused_plan_acceptance", "plan_acceptance_required")
  /\ Finish(s, "plan_acceptance_required")
  /\ UNCHANGED <<plan, ctl, intent, op, orphan>>

\* MissionStop, a tripped guard or an unrecoverable batch ends the loop.
TurnEnds(s) ==
  /\ InTurn(s) /\ ~Aborted(s)
  /\ \E reason \in Outcomes \cap (BUSINESS_OUTCOMES \cup REVIEW_STOPS \cup {"system_error"}) :
       Finish(s, reason)
  /\ UNCHANGED <<rowVars, ctl, intent, op, orphan>>

TurnThrows(s) ==
  /\ InTurn(s) /\ "throw" \in Outcomes
  /\ Goto(s, "threw")
  /\ UNCHANGED <<rowVars, ctl, intent, op, orphan>>

Turn(s) ==
  \/ TurnAborted(s) \/ TurnContinues(s) \/ TurnMutates(s) \/ TurnDefers(s)
  \/ ParkDeferred(s) \/ TurnAsksApproval(s) \/ TurnWritesPlan(s) \/ ParkPlanned(s)
  \/ TurnEnds(s) \/ TurnThrows(s)

-----------------------------------------------------------------------------
(* finalizeMissionRunStatus, routed on the loop's stop reason.             *)

Finalizing(s, reasons) == task[s].pc = "finalize" /\ task[s].reason \in reasons

FinalizeParked(s) ==
  /\ Finalizing(s, PARKED_STOPS)
  /\ Goto(s, "unregister")
  /\ UNCHANGED <<rowVars, ctl, intent, op, orphan>>

\* finalizeUserStop, or finalizeStopForEdit when an edit left its intent.
FinalizeUserStop(s) ==
  /\ Finalizing(s, {"user_stopped"})
  /\ LET r == MyRun(s)
         edit == r \in intent
         won == edit /\ ~Terminal(r) IN
     /\ intent' = intent \ {r}
     /\ ApplyUserStop(r, IF edit THEN "draft" ELSE "cancelled")
     /\ Goto(s, IF won THEN "reconcile" ELSE "unregister")
  /\ UNCHANGED <<plan, ctl, op, orphan>>

\* finalizeBusinessOutcome and finalizeSystemError: the run first, by
\* compare-and-set; the mission only if the run was won, and separately.
FinalizeOutcome(s) ==
  /\ Finalizing(s, BUSINESS_OUTCOMES \cup {"system_error"})
  /\ LET r == MyRun(s) IN
     IF Terminal(r)
     THEN Goto(s, "unregister") /\ UNCHANGED run
     ELSE /\ Park(r, OutcomeStatus(task[s].reason), task[s].reason)
          /\ Goto(s, "outcome")
  /\ UNCHANGED <<mission, lease, wake, reqs, approval, plan, ctl, intent, op, orphan>>

WriteMissionOutcome(s) ==
  /\ task[s].pc = "outcome"
  /\ mission' = OutcomeStatus(task[s].reason)
  /\ Goto(s, "unregister")
  /\ UNCHANGED <<run, lease, wake, reqs, approval, plan, ctl, intent, op, orphan>>

\* finalizeRuntimeContinuationPark: enqueue, park, and take the wake back if
\* the park lost - but only a wake this slice enqueued itself.
FinalizeContinuation(s) ==
  /\ Finalizing(s, CONTINUABLE_STOPS)
  /\ wake' = IF wake = NoWake
             THEN [kind |-> "continue", run |-> MyRun(s), attempt |-> 0]
             ELSE wake
  /\ task' = [task EXCEPT ![s].pc = "continuing", ![s].mine = (wake = NoWake)]
  /\ UNCHANGED <<run, mission, lease, reqs, approval, plan, ctl, intent, op, orphan>>

ParkContinuation(s) ==
  /\ task[s].pc = "continuing"
  /\ GatedPark(MyRun(s), "paused_wake", "waiting_for_wake")
  /\ Goto(s, IF Gated(MyRun(s)) /\ task[s].mine THEN "unwaking" ELSE "unregister")
  /\ UNCHANGED <<plan, ctl, intent, op, orphan>>

TakeWakeBack(s) ==
  /\ task[s].pc = "unwaking"
  /\ wake' = NoWake
  /\ Goto(s, "unregister")
  /\ UNCHANGED <<run, mission, lease, reqs, approval, plan, ctl, intent, op, orphan>>

\* finalizeOperatorReviewPark and finalizeToolCallLoopPark.
FinalizeReview(s) ==
  /\ Finalizing(s, REVIEW_STOPS)
  /\ GatedPark(MyRun(s), "paused_error", task[s].reason)
  /\ Goto(s, "unregister")
  /\ UNCHANGED <<plan, ctl, intent, op, orphan>>

\* Something threw.  With the controller aborted the operator's stop outranks
\* the error (finalizeUserStopAfterThrow); otherwise
\* persistErrorPauseWithMaybeAutoRetry gates, parks, and may schedule a retry
\* whose wake is enqueued after the transaction.
AfterThrow(s) == IF task[s].signal = "none" THEN "release" ELSE "unregister"

ThrewAfterAbort(s) ==
  /\ task[s].pc = "threw" /\ Aborted(s)
  /\ ApplyUserStop(MyRun(s), "cancelled")
  /\ Goto(s, "unregister")
  /\ UNCHANGED <<plan, ctl, intent, op, orphan>>

RetryEligible(r) == ~run[r].unsafe /\ run[r].retries < MaxRetries

PersistErrorPause(s) ==
  /\ task[s].pc = "threw" /\ ~Aborted(s)
  /\ UNCHANGED <<plan, ctl, intent, op, orphan>>
  /\ LET r == MyRun(s) IN
     \/ /\ GatedPark(r, "paused_error", "provider_error")
        /\ Goto(s, AfterThrow(s))
     \/ /\ ~Gated(r) /\ RetryEligible(r)
        /\ run' = [run EXCEPT ![r].st = "paused_error",
                              ![r].reason = "provider_error",
                              ![r].retries = @ + 1]
        /\ Goto(s, "retrying")
        /\ UNCHANGED <<mission, lease, wake, reqs, approval>>

\* enqueueAutoRetryWake: dropped when the session already has a wake.
EnqueueRetryWake(s) ==
  /\ task[s].pc = "retrying"
  /\ LET r == MyRun(s) IN
     wake' = IF wake = NoWake
             THEN [kind |-> "retry", run |-> r, attempt |-> run[r].retries]
             ELSE wake
  /\ Goto(s, AfterThrow(s))
  /\ UNCHANGED <<run, mission, lease, reqs, approval, plan, ctl, intent, op, orphan>>

Reconcile(s) ==
  /\ task[s].pc = "reconcile"
  /\ mission' = ReconciledMission
  /\ Goto(s, "unregister")
  /\ UNCHANGED <<run, lease, wake, reqs, approval, plan, ctl, intent, op, orphan>>

Finalize(s) ==
  \/ FinalizeParked(s) \/ FinalizeUserStop(s) \/ FinalizeOutcome(s)
  \/ WriteMissionOutcome(s) \/ FinalizeContinuation(s) \/ ParkContinuation(s)
  \/ TakeWakeBack(s) \/ FinalizeReview(s) \/ ThrewAfterAbort(s)
  \/ PersistErrorPause(s) \/ EnqueueRetryWake(s) \/ Reconcile(s)

\* The finally blocks: drop whatever controller the run has, then delete the
\* lease row if it still carries this owner id.
Unregister(s) ==
  /\ task[s].pc = "unregister"
  /\ ctl' = [ctl EXCEPT ![MyRun(s)] = {}]
  /\ task' = [task EXCEPT ![s].pc = "release", ![s].signal = "none"]
  /\ UNCHANGED <<rowVars, intent, op, orphan>>

Release(s) ==
  /\ task[s].pc = "release"
  /\ lease' = IF ~task[s].lost /\ lease.owner = task[s].owner THEN NoLease ELSE lease
  /\ Quit(s)
  /\ UNCHANGED <<run, mission, wake, reqs, approval, plan, ctl, intent, op, orphan>>
=============================================================================
