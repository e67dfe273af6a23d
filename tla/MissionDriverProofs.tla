-------------------------- MODULE MissionDriverProofs --------------------------
(***************************************************************************)
(* Who answers for a run: a run that says "running" has a slice on its way *)
(* to park or end it, an error is retried only while it is safe, the stop  *)
(* of a session's first run is not retired for another's, and one caller   *)
(* at a time keeps the plan gate.                                          *)
(***************************************************************************)
EXTENDS MissionExclusionProofs

-----------------------------------------------------------------------------
(* A retry is checked when the run is claimed.                             *)

\* The only way out of "woken" with a run in hand.
LEMMA WokenClaims ==
  ASSUME Inv, [Next]_vars, NEW s \in Slices, task[s].pc = "woken", task'[s].pc = "claimed"
  PROVE  WakeClaim(s)
<1>1. ASSUME NEW t \in Slices, Claim(t)
      PROVE  FALSE
  <2>1. t = s
    BY <1>1, ClaimMoves DEF EntryMove
  <2>. QED
    BY <1>1, <2>1
    DEF Claim, AskToBegin, ReadAcceptedPlan, ResumeClaim, RetryClaim, ApprovalClaim, WakeDue,
        UserMessage
<1>2. ASSUME NEW t \in Slices, RunnerAct(t)
      PROVE  FALSE
  BY <1>2, RunnerHolds DEF RunnerHold, RunPCs, TaskPCs
<1>3. ASSUME NEW t \in Slices, Drive(t), ~RunnerAct(t)
      PROVE  WakeClaim(s)
  <2>1. t = s
    BY <1>3, BeginMoves DEF Drive, RunnerAct, EntryMove, Release, Quit, Inv, TypeOK, TaskOK
  <2>. QED
    BY <1>3, <2>1
    DEF Drive, RunnerAct, StartClaim, RecoverClaim, RecheckActive, CreateRun, ResumeAccepted,
        PreemptClaim, Release
<1>4. ASSUME \A t \in Slices : task'[t].pc = task[t].pc \/ task'[t] = IdleTask
      PROVE  FALSE
  BY <1>4 DEF IdleTask, NewTask
<1>5. CASE \/ OperatorAsks \/ OperatorProceeds \/ FindOrphan \/ ReclaimOrphan \/ UNCHANGED vars
  BY <1>4, <1>5, OperatorHolds, ReclaimHolds DEF WorldHold, SamePlace
<1>6. CASE LeaseExpires \/ Restart \/ \E t \in Slices : Heartbeat(t)
  BY <1>4, <1>6, TimeKeepsPlaces
<1>. QED
  BY <1>1, <1>2, <1>3, <1>5, <1>6 DEF Next, Step

\* claimRunForAutoRetry looks again, in the claiming transaction, at everything
\* that made the error retryable: no wake, however stale, resumes a run that
\* has executed a mutating tool since.
THEOREM RetriesAreSafe == Spec => AutoRetryIsSafe
<1>1. Inv /\ [Next]_vars =>
        [\A s \in Slices :
           task[s].pc = "woken" /\ task'[s].pc = "claimed" =>
             LET r == task'[s].run IN run[r].st = "paused_error" => ~run[r].unsafe]_vars
  <2>. SUFFICES ASSUME Inv, [Next]_vars, NEW s \in Slices,
                       task[s].pc = "woken", task'[s].pc = "claimed",
                       run[task'[s].run].st = "paused_error"
                PROVE  ~run[task'[s].run].unsafe
    OBVIOUS
  <2>. DEFINE w == task[s].wake
  <2>1. WakeClaim(s)
    BY WokenClaims
  <2>2. Wakeable(w) /\ task'[s].run = w.run
    BY <2>1 DEF WakeClaim, ClaimRun, Seize, Quit, IdleTask, NewTask, Inv, TypeOK, TaskOK
  <2>. QED
    BY <2>2 DEF Wakeable, StillRetryable
<1>. QED
  BY <1>1, InvHolds, PTL DEF Spec, AutoRetryIsSafe

-----------------------------------------------------------------------------
(* A running run has a driver, while the process lives.                    *)

\* On the way to park or end its run.
Driving(s) ==
  \/ task[s].pc \in {"claimed", "registering", "starting", "loop", "turn", "deferred",
                     "planned", "threw", "continuing"}
  \/ task[s].pc = "finalize" /\ task[s].reason \notin PARKED_STOPS

Driven ==
  \A r \in Runs : run[r].st = "running" => \E s \in Slices : Driving(s) /\ task[s].run = r

\* A step of s leaves nobody running without a driver.
LeavesDriven(s) ==
  /\ \A q \in Slices \ {s} : task'[q] = task[q]
  /\ \A r \in Runs :
       /\ run'[r].st = "running"
       /\ run[r].st # "running" \/ (Driving(s) /\ task[s].run = r)
       => Driving(s)' /\ task'[s].run = r

LEMMA DrivenKept ==
  ASSUME Driven, NEW s \in Slices, LeavesDriven(s)
  PROVE  Driven'
<1>. SUFFICES ASSUME NEW r \in Runs, run'[r].st = "running"
              PROVE  \E t \in Slices : Driving(t)' /\ task'[t].run = r
  BY DEF Driven
<1>1. CASE run[r].st # "running" \/ (Driving(s) /\ task[s].run = r)
  BY <1>1 DEF LeavesDriven
<1>2. CASE run[r].st = "running" /\ ~(Driving(s) /\ task[s].run = r)
  <2>1. PICK t \in Slices : Driving(t) /\ task[t].run = r
    BY <1>2 DEF Driven
  <2>2. task'[t] = task[t]
    BY <1>2, <2>1 DEF LeavesDriven
  <2>. QED
    BY <2>1, <2>2 DEF Driving
<1>. QED
  BY <1>1, <1>2

\* What a slice past its claim owes: if its run goes on running, it goes on.
GoesOn(s) ==
  LET r == task[s].run IN
  run'[r].st = "running" /\ (run[r].st # "running" \/ Driving(s)) => Driving(s)'

LEMMA RunnerLeavesDriven ==
  ASSUME Inv, NEW s \in Slices, RunnerHold(s), GoesOn(s)
  PROVE  LeavesDriven(s)
<1>. SUFFICES ASSUME NEW r \in Runs, run'[r].st = "running",
                     run[r].st # "running" \/ (Driving(s) /\ task[s].run = r)
              PROVE  Driving(s)' /\ task'[s].run = r
  BY DEF RunnerHold, LeavesDriven
<1>1. r = task[s].run
  BY DEF RunnerHold
<1>. QED
  BY <1>1 DEF GoesOn, RunnerHold, SameHolder

LEMMA StopHalts ==
  ASSUME Inv, NEW r \in Runs, NEW missionTo, ApplyUserStop(r, missionTo)
  PROVE  run'[r].st # "running"
BY DEF ApplyUserStop, Terminal, TERMINAL_RUN_STATUSES, Inv, TypeOK, RunOK

LEMMA ParkHalts ==
  ASSUME Inv, NEW r \in Runs, NEW status \in PAUSED_RUN_STATUSES, NEW reason,
         Park(r, status, reason) \/ GatedPark(r, status, reason)
  PROVE  run'[r].st # "running"
<1>1. CASE Park(r, status, reason)
  BY <1>1 DEF Park, PAUSED_RUN_STATUSES, Inv, TypeOK, RunOK
<1>2. CASE LandGatedStop(r)
  BY <1>2, StopHalts DEF LandGatedStop, Terminal, TERMINAL_RUN_STATUSES
<1>. QED
  BY <1>1, <1>2 DEF GatedPark

LEMMA RunnerGoesOn ==
  ASSUME Inv, NEW s \in Slices, RunnerAct(s)
  PROVE  GoesOn(s)
<1>. DEFINE r == MyRun(s)
<1>0. r \in Runs /\ r = task[s].run
  BY RunnerHolds, HoldsRun DEF RunnerHold, MyRun
<1>1. run'[r].st # "running" => GoesOn(s)
  BY <1>0 DEF GoesOn
<1>2. Driving(s)' => GoesOn(s)
  BY DEF GoesOn
<1>3. run' = run /\ ~Driving(s) => GoesOn(s)
  BY DEF GoesOn
<1>4. CASE ReadRun(s)
  BY <1>0, <1>1, <1>2, <1>4, GotoHolds
  DEF ReadRun, Driving, Terminal, TERMINAL_RUN_STATUSES, rowVars
<1>5. CASE PrepareFails(s) \/ Register(s) \/ StartRun(s)
  <2>1. CASE Register(s)
    BY <1>2, <2>1 DEF Register, Driving, Inv, TypeOK, TaskOK, Tasks
  <2>. QED
    BY <1>2, <1>5, <2>1, GotoHolds DEF PrepareFails, StartRun, Driving
<1>6. CASE EntryAborted(s) \/ EntryExhausted(s)
  BY <1>2, <1>6, FinishHolds
  DEF EntryAborted, EntryExhausted, Driving, PARKED_STOPS, CONTINUABLE_STOPS
<1>7. CASE EntryObserves(s)
  <2>1. CASE Goto(s, "turn")
    BY <1>2, <2>1, GotoHolds DEF Driving
  <2>2. CASE Finish(s, "user_stopped")
    BY <1>2, <2>2, FinishHolds DEF Driving, PARKED_STOPS
  <2>3. CASE IF Terminal(r) THEN UNCHANGED run ELSE Park(r, "paused_user", "user_paused")
    BY <1>0, <1>1, <2>3, ParkHalts DEF Terminal, TERMINAL_RUN_STATUSES, PAUSED_RUN_STATUSES
  <2>. QED
    BY <1>7, <2>1, <2>2, <2>3 DEF EntryObserves
<1>8. CASE Turn(s)
  <2>1. CASE \/ TurnContinues(s) \/ TurnDefers(s) \/ TurnWritesPlan(s) \/ TurnThrows(s)
    BY <1>2, <2>1, GotoHolds
    DEF TurnContinues, TurnDefers, TurnWritesPlan, TurnThrows, Driving
  <2>2. CASE TurnAborted(s) \/ TurnEnds(s)
    BY <1>2, <2>2, FinishHolds
    DEF TurnAborted, TurnEnds, Driving, PARKED_STOPS, BUSINESS_OUTCOMES, REVIEW_STOPS
  <2>3. CASE TurnMutates(s)
    BY <1>2, <2>3 DEF TurnMutates, InTurn, Driving
  <2>4. CASE ParkDeferred(s) \/ ParkPlanned(s)
    BY <1>0, <1>1, <2>4, ParkHalts DEF ParkDeferred, ParkPlanned, PAUSED_RUN_STATUSES
  <2>5. CASE TurnAsksApproval(s)
    <3>1. CASE Finish(s, "user_stopped")
      BY <1>2, <3>1, FinishHolds DEF Driving, PARKED_STOPS
    <3>2. CASE Park(r, "paused_approval", "approval_required")
      BY <1>0, <1>1, <3>2, ParkHalts DEF PAUSED_RUN_STATUSES
    <3>. QED
      BY <2>5, <3>1, <3>2 DEF TurnAsksApproval
  <2>. QED
    BY <1>8, <2>1, <2>2, <2>3, <2>4, <2>5 DEF Turn
<1>9. CASE Finalize(s)
  <2>1. CASE \/ FinalizeParked(s) \/ WriteMissionOutcome(s) \/ TakeWakeBack(s)
             \/ EnqueueRetryWake(s) \/ Reconcile(s)
    BY <1>3, <2>1
    DEF FinalizeParked, WriteMissionOutcome, TakeWakeBack, EnqueueRetryWake, Reconcile,
        Finalizing, Driving, rowVars
  <2>2. CASE FinalizeUserStop(s) \/ ThrewAfterAbort(s)
    BY <1>0, <1>1, <2>2, StopHalts DEF FinalizeUserStop, ThrewAfterAbort
  <2>3. CASE FinalizeOutcome(s)
    <3>1. OutcomeStatus(task[s].reason) # "running"
      BY DEF OutcomeStatus
    <3>. QED
      BY <1>0, <1>1, <2>3, <3>1, WriteKeepsOthers
      DEF FinalizeOutcome, Terminal, TERMINAL_RUN_STATUSES, Inv, TypeOK
  <2>4. CASE FinalizeContinuation(s)
    BY <1>2, <2>4 DEF FinalizeContinuation, Driving, Inv, TypeOK, TaskOK, Tasks
  <2>5. CASE ParkContinuation(s) \/ FinalizeReview(s)
    BY <1>0, <1>1, <2>5, ParkHalts
    DEF ParkContinuation, FinalizeReview, PAUSED_RUN_STATUSES
  <2>6. CASE PersistErrorPause(s)
    <3>1. CASE GatedPark(r, "paused_error", "provider_error")
      BY <1>0, <1>1, <3>1, ParkHalts DEF PAUSED_RUN_STATUSES
    <3>2. CASE run' = [run EXCEPT ![r].st = "paused_error", ![r].reason = "provider_error",
                                  ![r].retries = @ + 1]
      BY <1>0, <1>1, <3>2 DEF Inv, TypeOK, RunOK
    <3>. QED
      BY <2>6, <3>1, <3>2 DEF PersistErrorPause
  <2>. QED
    BY <1>9, <2>1, <2>2, <2>3, <2>4, <2>5, <2>6 DEF Finalize
<1>10. CASE Unregister(s)
  BY <1>3, <1>10 DEF Unregister, Driving, rowVars
<1>. QED
  BY <1>4, <1>5, <1>6, <1>7, <1>8, <1>9, <1>10 DEF RunnerAct

LEMMA ClaimRunDrives ==
  ASSUME Inv, NEW s \in Slices, ~Driving(s), NEW entry, NEW r \in Runs, NEW owner, NEW from,
         NEW retires, ClaimRun(s, entry, r, owner, from, retires)
  PROVE  LeavesDriven(s)
<1>1. /\ task'[s].pc = "claimed" /\ task'[s].run = r
      /\ \A q \in Slices \ {s} : task'[q] = task[q]
  BY DEF ClaimRun, Seize, NewTask, Inv, TypeOK, TaskOK
<1>2. \A q \in Runs \ {r} : run'[q] = run[q]
  BY DEF ClaimRun, Inv, TypeOK, RunOK
<1>. QED
  BY <1>1, <1>2 DEF LeavesDriven, Driving

LEMMA EntryLeavesDriven ==
  ASSUME Inv, NEW s \in Slices, Claim(s) \/ (Drive(s) /\ ~RunnerAct(s))
  PROVE  LeavesDriven(s)
<1>1. \A q \in Slices \ {s} : task'[q] = task[q]
  BY ClaimMoves, BeginMoves
  DEF Drive, RunnerAct, EntryMove, Release, Quit, Inv, TypeOK, TaskOK
<1>2. ~Driving(s)
  BY DEF Claim, AskToBegin, ReadAcceptedPlan, ResumeClaim, RetryClaim, ApprovalClaim,
         WakeDue, UserMessage, Drive, RunnerAct, StartClaim, RecoverClaim, RecheckActive,
         CreateRun, ResumeAccepted, WakeClaim, PreemptClaim, Release, Driving
<1>3. run' = run => LeavesDriven(s)
  BY <1>1, <1>2 DEF LeavesDriven
<1>4. CASE Claim(s)
  <2>1. CASE ResumeClaim(s) \/ RetryClaim(s)
    BY <1>2, <2>1, ClaimRunDrives DEF ResumeClaim, RetryClaim, ActiveRuns
  <2>2. CASE ApprovalClaim(s)
    <3>1. approval.run \in Runs
      BY <2>2 DEF ApprovalClaim, Inv, TypeOK, RowsOK, NoApproval
    <3>2. task'[s].pc = "claimed" /\ task'[s].run = approval.run
      BY <2>2 DEF ApprovalClaim, Seize, NewTask, Inv, TypeOK, TaskOK
    <3>3. \A q \in Runs \ {approval.run} : run'[q] = run[q]
      BY <2>2, <3>1 DEF ApprovalClaim, Inv, TypeOK, RunOK
    <3>. QED
      BY <1>1, <1>2, <3>2, <3>3 DEF LeavesDriven, Driving
  <2>. QED
    BY <1>3, <1>4, <2>1, <2>2
    DEF Claim, AskToBegin, ReadAcceptedPlan, WakeDue, UserMessage, rowVars
<1>5. CASE Drive(s) /\ ~RunnerAct(s)
  <2>1. CASE CreateRun(s)
    <3>1. ASSUME NEW r \in Runs, run' = [run EXCEPT ![r].st = "running"],
                 task' = [task EXCEPT ![s].pc = "registering", ![s].run = r]
          PROVE  LeavesDriven(s)
      <4>1. task'[s].pc = "registering" /\ task'[s].run = r
        BY <3>1 DEF Inv, TypeOK, TaskOK, Tasks
      <4>2. \A q \in Runs \ {r} : run'[q] = run[q]
        BY <3>1 DEF Inv, TypeOK, RunOK
      <4>. QED
        BY <1>1, <1>2, <4>1, <4>2 DEF LeavesDriven, Driving
    <3>. QED
      BY <1>3, <2>1, <3>1 DEF CreateRun, ApplySessionStop
  <2>2. CASE ResumeAccepted(s)
    <3>1. task[s].run \in Runs
      BY <2>2, HoldsRun DEF ResumeAccepted, RunPCs, TaskPCs
    <3>. QED
      BY <1>2, <1>3, <2>2, <3>1, ClaimRunDrives DEF ResumeAccepted, rowVars
  <2>3. CASE WakeClaim(s)
    <3>1. task[s].wake.run \in Runs
      BY <2>3 DEF WakeClaim, Inv, TypeOK, TaskOK, Tasks, WakeRows
    <3>. QED
      BY <1>2, <1>3, <2>3, <3>1, ClaimRunDrives DEF WakeClaim, rowVars
  <2>4. CASE PreemptClaim(s)
    BY <1>2, <1>3, <2>4, ClaimRunDrives DEF PreemptClaim, rowVars
  <2>. QED
    BY <1>3, <1>5, <2>1, <2>2, <2>3, <2>4
    DEF Drive, RunnerAct, StartClaim, RecoverClaim, ClaimSession, RecheckActive, Release,
        rowVars
<1>. QED
  BY <1>4, <1>5

\* Nobody else moves a slice, and what they write to a run ends it, or parks it
\* while it is running.
Bystanders ==
  /\ \A s \in Slices : /\ task'[s].pc = task[s].pc /\ task'[s].reason = task[s].reason
                       /\ task'[s].run = task[s].run
  /\ \A r \in Runs : \/ run'[r].st = run[r].st
                     \/ run'[r].st \in TERMINAL_RUN_STATUSES
                     \/ /\ run[r].st = "running"
                        /\ run'[r].st = "paused_error"
  /\ plan' \in {plan, "accepted"}

LEMMA WorldStandsBy ==
  ASSUME Inv, \/ OperatorAsks \/ OperatorProceeds \/ FindOrphan \/ ReclaimOrphan
              \/ LeaseExpires \/ UNCHANGED vars \/ \E s \in Slices : Heartbeat(s)
  PROVE  Bystanders
<1>1. \A s \in Slices : /\ task'[s].pc = task[s].pc /\ task'[s].reason = task[s].reason
                        /\ task'[s].run = task[s].run
  <2>1. CASE LeaseExpires \/ \E s \in Slices : Heartbeat(s)
    BY <2>1 DEF LeaseExpires, Heartbeat, memVars, Inv, TypeOK, TaskOK, Tasks
  <2>. QED
    BY <2>1, OperatorHolds, ReclaimHolds DEF WorldHold, SamePlace, SameHolder
<1>2. CASE AbortApplies \/ EditApplies
  BY <1>1, <1>2
  DEF AbortApplies, EditApplies, ApplyUserStop, TERMINAL_RUN_STATUSES, Bystanders, Inv,
      TypeOK, RunOK
<1>3. CASE ReclaimOrphan
  <2>1. ASSUME Orphaned(orphan), Park(orphan, "paused_error", "restart_orphan")
        PROVE  Bystanders
    BY <1>1, <1>3, <2>1 DEF ReclaimOrphan, Orphaned, Park, Bystanders, Inv, TypeOK, RunOK
  <2>2. CASE LandGatedStop(orphan)
    BY <1>1, <1>3, <2>2
    DEF ReclaimOrphan, LandGatedStop, ApplyUserStop, TERMINAL_RUN_STATUSES, Bystanders, Inv,
        TypeOK, RunOK
  <2>3. CASE run' = run
    BY <1>1, <1>3, <2>3 DEF ReclaimOrphan, Bystanders
  <2>. QED
    BY <1>3, <2>1, <2>2, <2>3 DEF ReclaimOrphan, GatedPark
<1>. QED
  BY <1>1, <1>2, <1>3
  DEF OperatorAsks, PauseAsked, StopAsked, EditAsked, AcceptPlan, DecideApproval,
      OperatorProceeds, EnqueuePause, EnqueueStop, SignalStop, StopSession, StopRerouted,
      AbortReads, AbortCancelsWakes, AbortRejectsApprovals, AbortSignals,
      EditCancelsWakes, EditSignals, EditReconciles, FindOrphan, LeaseExpires, Heartbeat,
      vars, rowVars, Bystanders

LEMMA DrivenInductive == Inv /\ Driven /\ [Step]_vars => Driven'
<1>. SUFFICES ASSUME Inv, Driven, [Step]_vars PROVE Driven'
  OBVIOUS
<1>1. ASSUME NEW s \in Slices, Claim(s) \/ Drive(s)
      PROVE  Driven'
  BY <1>1, DrivenKept, RunnerHolds, RunnerGoesOn, RunnerLeavesDriven, EntryLeavesDriven
<1>2. Bystanders => Driven'
  BY DEF Bystanders, Driven, Driving, TERMINAL_RUN_STATUSES
<1>. QED
  BY <1>1, <1>2, WorldStandsBy DEF Step

\* No finally block releases the session before the row of its run has been
\* parked or ended: every way out of the turn loop, and every throw, goes
\* through a write that takes the run out of "running".  It takes no lease to
\* see to that, and late heartbeats do not matter; only a dead process leaves
\* a running run behind.
THEOREM RunningRunsAreDriven == Init /\ [][Step]_vars => []RunningIsDriven
<1>1. Init => Driven
  BY DEF Init, NewRun, Driven
<1>2. Driven => RunningIsDriven
  BY DEF Driven, Driving, RunningIsDriven, Engaged
<1>3. [Step]_vars => [Next]_vars
  BY DEF Next
<1>. QED
  BY <1>1, <1>2, <1>3, DrivenInductive, InvHolds, PTL DEF Spec

-----------------------------------------------------------------------------
(* A stop is not retired for another run's, while there is no other run.   *)

StopsNamed == \A q \in reqs : q.kind = "stop_terminal" => q.run = NoRun \/ Born(q.run)

LEMMA StopsNamedKept == Inv /\ StopsNamed /\ [Next]_vars => StopsNamed'
<1>. SUFFICES ASSUME Inv, StopsNamed, [Next]_vars,
                     NEW q \in reqs', q.kind = "stop_terminal", q.run # NoRun
              PROVE  run'[q.run].st # "absent"
  BY DEF StopsNamed, Born
<1>1. q.run \in Runs
  BY InvInductive DEF Inv, TypeOK, RowsOK, MaybeRun
<1>2. CASE q \in reqs
  BY <1>1, <1>2, NextStep, BornStays DEF StopsNamed
<1>3. CASE q \notin reqs
  <2>1. RowsAccept
    BY <1>3, NextStep
    DEF RowStep, RowsIdle, RowsBegin, RowsWake, RowsPark, RowsEnd, Retires
  <2>2. Born(q.run)
    BY <1>3, <2>1 DEF RowsAccept, Enqueue
  <2>. QED
    BY <1>1, <2>2, NextStep, BornStays
<1>. QED
  BY <1>2, <1>3

\* In the first run of a session a queued stop leaves the queue only by ending
\* the run: every writer that clears it does so in the transaction that ends
\* the run, and the turn loop, which also retires what was minted for another
\* run, meets none.  (With a successor it does not hold: the loop of a stopped
\* run takes the oldest request, whoever it names.)
THEOREM FirstStopSurvives == Spec /\ []FirstRun => NoStopErased
<1>1. Inv /\ StopsNamed /\ FirstRun /\ [Next]_vars =>
        [\A r \in Runs : OpenStop(r) /\ ~OpenStop(r)' => Terminal(r)']_vars
  <2>. SUFFICES ASSUME Inv, StopsNamed, FirstRun, [Next]_vars, NEW r \in Runs,
                       OpenStop(r), ~OpenStop(r)'
                PROVE  Terminal(r)'
    OBVIOUS
  <2>1. PICK q \in reqs : IsStop(q, r) /\ q \notin reqs'
    BY DEF OpenStop
  <2>2. Born(r)
    BY <2>1, NoRunIsNoRun DEF IsStop, StopsNamed
  <2>3. RowStep
    BY NextStep
  <2>4. CASE RowsIdle
    <3>1. PICK x \in MaybeRun : Retires(x) /\ Spent(x)
      BY <2>4 DEF RowsIdle
    <3>2. x = r
      BY <2>1, <3>1 DEF Retires, IsStop
    <3>3. ASSUME NEW s \in Slices, task[s].pc = "loop", task[s].run # r
          PROVE  FALSE
      BY <2>2, <3>3, HoldsRun DEF FirstRun, RunPCs, TaskPCs
    <3>4. Terminal(r)
      BY <3>1, <3>2, <3>3 DEF Spent
    <3>. QED
      BY <2>3, <3>4, OverStays
  <2>5. ASSUME NEW p \in Runs, RowsEnd(p)
        PROVE  Terminal(r)'
    <3>1. p = r
      BY <2>1, <2>5 DEF RowsEnd, Retires, IsStop
    <3>. QED
      BY <2>5, <3>1 DEF RowsEnd, Terminal
  <2>. QED
    BY <2>1, <2>3, <2>4, <2>5
    DEF RowStep, RowsAccept, Enqueue, RowsBegin, RowsWake, RowsPark, IsStop
<1>2. Init => StopsNamed
  BY DEF Init, StopsNamed
<1>. QED
  BY <1>1, <1>2, StopsNamedKept, InvHolds, PTL DEF Spec, NoStopErased

-----------------------------------------------------------------------------
(* The plan gate, with one caller at a time.                               *)

OneCaller == \A s, t \in Slices : s = t

\* A slice with a run in hand holds the only one that is not over.
OnlyMine == \A s \in Slices : Engaged(s) => ActiveRuns \subseteq {task[s].run}

\* Where a slice can be while the plan is unaccepted.
Withdrawn(s) ==
  \/ task[s].pc \in {"idle", "asked", "prepare", "commit", "woken", "message", "planned",
                     "unregister", "release"}
  \/ task[s].pc = "finalize" /\ task[s].reason = "plan_acceptance_required"

PlanHeld ==
  plan = "unaccepted" =>
    \A s \in Slices :
      /\ Withdrawn(s)
      /\ \A r \in ActiveRuns : \/ run[r].st = "paused_plan_acceptance"
                               \/ task[s].pc = "planned" /\ task[s].run = r

\* A claim leaves the run it takes running.
LEMMA EntryEngages ==
  ASSUME Inv, NEW s \in Slices, Claim(s) \/ (Drive(s) /\ ~RunnerAct(s)), Engaged(s)'
  PROVE  task'[s].run \in Runs /\ run'[task'[s].run].st = "running"
<1>. DEFINE Takes == task'[s].run \in Runs /\ run'[task'[s].run].st = "running"
<1>1. ASSUME NEW entry, NEW r \in Runs, NEW owner, NEW from, NEW retires,
             ClaimRun(s, entry, r, owner, from, retires)
      PROVE  Takes
  BY <1>1 DEF ClaimRun, Seize, NewTask, Inv, TypeOK, TaskOK, RunOK
<1>2. CASE Claim(s)
  <2>1. CASE ResumeClaim(s) \/ RetryClaim(s)
    BY <1>1, <2>1 DEF ResumeClaim, RetryClaim, ActiveRuns
  <2>2. CASE ApprovalClaim(s)
    BY <2>2
    DEF ApprovalClaim, Seize, NewTask, Inv, TypeOK, TaskOK, RunOK, RowsOK, NoApproval
  <2>3. CASE AskToBegin(s) \/ ReadAcceptedPlan(s) \/ WakeDue(s)
    BY <2>3
    DEF AskToBegin, ReadAcceptedPlan, WakeDue, NewTask, Engaged, Inv, TypeOK, TaskOK
  <2>4. CASE UserMessage(s)
    BY <2>4 DEF UserMessage, Engaged, Inv, TypeOK, TaskOK, Tasks
  <2>. QED
    BY <1>2, <2>1, <2>2, <2>3, <2>4 DEF Claim
<1>3. CASE Drive(s) /\ ~RunnerAct(s)
  <2>1. CASE CreateRun(s)
    BY <2>1, GotoHolds
    DEF CreateRun, Engaged, Inv, TypeOK, TaskOK, Tasks, RunOK
  <2>2. CASE ResumeAccepted(s)
    <3>1. task[s].run \in Runs
      BY <2>2, HoldsRun DEF ResumeAccepted, RunPCs, TaskPCs
    <3>. QED
      BY <1>1, <2>2, <3>1 DEF ResumeAccepted, Quit, IdleTask, NewTask, Engaged, Inv, TypeOK,
                              TaskOK
  <2>3. CASE WakeClaim(s)
    <3>1. task[s].wake.run \in Runs
      BY <2>3 DEF WakeClaim, Inv, TypeOK, TaskOK, Tasks, WakeRows
    <3>. QED
      BY <1>1, <2>3, <3>1 DEF WakeClaim, Quit, IdleTask, NewTask, Engaged, Inv, TypeOK, TaskOK
  <2>4. CASE PreemptClaim(s)
    <3>1. Quit(s) => ~Engaged(s)'
      BY DEF Quit, IdleTask, NewTask, Engaged, Inv, TypeOK, TaskOK
    <3>. QED
      BY <1>1, <2>4, <3>1 DEF PreemptClaim
  <2>5. CASE RecheckActive(s)
    BY <2>5, GotoHolds DEF RecheckActive, Engaged
  <2>6. CASE StartClaim(s) \/ RecoverClaim(s) \/ Release(s)
    <3>1. Quit(s) => ~Engaged(s)'
      BY DEF Quit, IdleTask, NewTask, Engaged, Inv, TypeOK, TaskOK
    <3>2. ASSUME NEW owner, ClaimSession(s, owner)
          PROVE  ~Engaged(s)'
      BY <3>1, <3>2 DEF ClaimSession, Seize, NewTask, Engaged, Inv, TypeOK, TaskOK
    <3>. QED
      BY <2>6, <3>1, <3>2 DEF StartClaim, RecoverClaim, Release
  <2>. QED
    BY <1>3, <2>1, <2>2, <2>3, <2>4, <2>5, <2>6 DEF Drive, RunnerAct
<1>. QED
  BY <1>2, <1>3

LEMMA OnlyMineKept ==
  ASSUME OneCaller, "recover" \notin Entries, Inv, AtMostOneActive, OnlyMine, [Step]_vars
  PROVE  OnlyMine'
<1>1. ASSUME NEW s \in Slices, RunnerAct(s)
      PROVE  OnlyMine'
  BY <1>1, RunnerHolds DEF RunnerHold, SameHolder, OnlyMine, ActiveRuns, Active, OneCaller
<1>2. ASSUME NEW s \in Slices, Claim(s) \/ (Drive(s) /\ ~RunnerAct(s)), Engaged(s)'
      PROVE  OnlyMine'
  <2>1. AtMostOneActive'
    BY NextStep, OneActiveKept DEF Next
  <2>2. task'[s].run \in ActiveRuns'
    BY <1>2, EntryEngages DEF ActiveRuns, Active, ACTIVE_OR_PAUSED_RUN_STATUSES,
                              ACTIVE_RUN_STATUSES
  <2>. QED
    BY <1>2, <2>1, <2>2 DEF OnlyMine, AtMostOneActive, OneCaller
<1>3. CASE Bystanders
  <2>1. ActiveRuns' \subseteq ActiveRuns
    BY <1>3 DEF Bystanders, ActiveRuns, Active, ACTIVE_OR_PAUSED_RUN_STATUSES,
                ACTIVE_RUN_STATUSES, PAUSED_RUN_STATUSES, TERMINAL_RUN_STATUSES
  <2>. QED
    BY <1>3, <2>1 DEF Bystanders, OnlyMine, Engaged
<1>4. ASSUME NEW s \in Slices, ~Engaged(s)'
      PROVE  OnlyMine'
  BY <1>4 DEF OnlyMine, OneCaller
<1>. QED
  BY <1>1, <1>2, <1>3, <1>4, WorldStandsBy DEF Step

LEMMA OnlyMineHolds ==
  ASSUME OneCaller, "recover" \notin Entries
  PROVE  Init /\ [][Step]_vars => [](Inv /\ OnlyMine)
<1>1. Init => OnlyMine
  BY DEF Init, IdleTask, NewTask, OnlyMine, Engaged
<1>2. Inv /\ AtMostOneActive /\ OnlyMine /\ [Step]_vars => OnlyMine'
  BY OnlyMineKept
<1>3. [Step]_vars => [Next]_vars
  BY DEF Next
<1>. QED
  BY <1>1, <1>2, <1>3, InvHolds, OneActiveHolds, PTL DEF Spec

\* Under an unaccepted plan no claim finds a run to take, and no start is let
\* through.
LEMMA EntryWithdrawn ==
  ASSUME Entries \cap {"retry", "recover"} = {}, Inv, PlanHeld, plan = "unaccepted",
         NEW s \in Slices, Claim(s) \/ (Drive(s) /\ ~RunnerAct(s))
  PROVE  run' = run /\ Withdrawn(s)' /\ task[s].pc # "planned"
<1>1. Withdrawn(s)
  BY DEF PlanHeld
<1>2. task[s].pc # "planned"
  BY DEF Claim, AskToBegin, ReadAcceptedPlan, ResumeClaim, RetryClaim, ApprovalClaim,
         WakeDue, UserMessage, Drive, RunnerAct, StartClaim, RecoverClaim, RecheckActive,
         CreateRun, ResumeAccepted, WakeClaim, PreemptClaim, Release
<1>3. \A r \in Runs : Active(r) => run[r].st = "paused_plan_acceptance"
  BY <1>2 DEF PlanHeld, ActiveRuns
<1>4. \A r \in Runs : run[r].st \notin {"running", "paused_user", "paused_wake", "paused_error",
                                       "paused_approval"}
  BY <1>3 DEF Active, ACTIVE_OR_PAUSED_RUN_STATUSES, ACTIVE_RUN_STATUSES, PAUSED_RUN_STATUSES
<1>5. Quit(s) => Withdrawn(s)'
  BY DEF Quit, IdleTask, NewTask, Withdrawn, Inv, TypeOK, TaskOK
<1>6. CASE Claim(s)
  <2>1. CASE ResumeClaim(s) \/ RetryClaim(s) \/ ReadAcceptedPlan(s)
    BY <1>4, <2>1 DEF ResumeClaim, RetryClaim, ReadAcceptedPlan, ActiveRuns
  <2>2. CASE ApprovalClaim(s)
    <3>1. approval.run \in Runs
      BY <2>2 DEF ApprovalClaim, Inv, TypeOK, RowsOK, NoApproval
    <3>. QED
      BY <1>4, <2>2, <3>1 DEF ApprovalClaim, APPROVAL_RESUME_CLAIMABLE_RUN_STATUSES
  <2>3. CASE AskToBegin(s) \/ WakeDue(s)
    BY <1>2, <2>3
    DEF AskToBegin, WakeDue, NewTask, Withdrawn, Inv, TypeOK, TaskOK, rowVars
  <2>4. CASE UserMessage(s)
    BY <1>2, <2>4 DEF UserMessage, Withdrawn, Inv, TypeOK, TaskOK, Tasks
  <2>. QED
    BY <1>6, <2>1, <2>2, <2>3, <2>4 DEF Claim
<1>7. CASE Drive(s) /\ ~RunnerAct(s)
  <2>1. CASE CreateRun(s)
    <3>1. task[s].entry = "start"
      BY <2>1 DEF CreateRun, Inv, References
    <3>. QED
      BY <1>2, <2>1, <3>1, GotoHolds
      DEF CreateRun, StartRefused, ApplySessionStop, Withdrawn
  <2>2. CASE ResumeAccepted(s)
    BY <1>1, <2>2 DEF ResumeAccepted, Withdrawn
  <2>3. CASE WakeClaim(s)
    <3>1. task[s].wake.run \in Runs
      BY <2>3 DEF WakeClaim, Inv, TypeOK, TaskOK, Tasks, WakeRows
    <3>. QED
      BY <1>2, <1>4, <1>5, <2>3, <3>1
      DEF WakeClaim, Wakeable, StillRetryable, rowVars
  <2>4. CASE PreemptClaim(s)
    BY <1>2, <1>4, <1>5, <2>4 DEF PreemptClaim, rowVars
  <2>5. CASE RecheckActive(s)
    BY <1>2, <2>5, GotoHolds DEF RecheckActive, Withdrawn, rowVars
  <2>6. CASE StartClaim(s) \/ Release(s)
    <3>1. ASSUME NEW owner, ClaimSession(s, owner)
          PROVE  Withdrawn(s)'
      BY <1>5, <3>1 DEF ClaimSession, Seize, NewTask, Withdrawn, Inv, TypeOK, TaskOK
    <3>. QED
      BY <1>2, <1>5, <2>6, <3>1 DEF StartClaim, ClaimSession, Release
  <2>7. CASE RecoverClaim(s)
    BY <2>7 DEF RecoverClaim, Inv, References
  <2>. QED
    BY <1>7, <2>1, <2>2, <2>3, <2>4, <2>5, <2>6, <2>7 DEF Drive, RunnerAct
<1>. QED
  BY <1>6, <1>7

\* A slice that has its run only parks it on the plan.
LEMMA RunnerWithdrawn ==
  ASSUME Inv, NEW s \in Slices, RunnerAct(s), Withdrawn(s)
  PROVE  /\ Withdrawn(s)' /\ task'[s].pc # "planned"
         /\ \/ run' = run /\ task[s].pc # "planned"
            \/ /\ task[s].pc = "planned"
               /\ run'[task[s].run].st \in {"paused_plan_acceptance"} \cup TERMINAL_RUN_STATUSES
<1>1. CASE ParkPlanned(s)
  <2>1. Withdrawn(s)' /\ task'[s].pc # "planned"
    BY <1>1, FinishHolds DEF ParkPlanned, Withdrawn
  <2>2. task[s].run \in Runs
    BY <1>1, HoldsRun DEF ParkPlanned, RunPCs, TaskPCs
  <2>3. run'[task[s].run].st \in {"paused_plan_acceptance"} \cup TERMINAL_RUN_STATUSES
    BY <1>1, <2>2
    DEF ParkPlanned, MyRun, GatedPark, LandGatedStop, ApplyUserStop, Terminal, Park,
        TERMINAL_RUN_STATUSES, Inv, TypeOK, RunOK
  <2>. QED
    BY <1>1, <2>1, <2>3 DEF ParkPlanned
<1>2. CASE FinalizeParked(s)
  BY <1>2, GotoHolds DEF FinalizeParked, Finalizing, Withdrawn, rowVars
<1>3. CASE Unregister(s)
  BY <1>3 DEF Unregister, Withdrawn, Inv, TypeOK, TaskOK, Tasks, rowVars
<1>. QED
  BY <1>1, <1>2, <1>3
  DEF Withdrawn, RunnerAct, ReadRun, PrepareFails, Register, StartRun, EntryAborted,
      EntryObserves, EntryExhausted, Turn, InTurn, TurnAborted, TurnContinues, TurnMutates,
      TurnDefers, ParkDeferred, TurnAsksApproval, TurnWritesPlan, TurnEnds, TurnThrows,
      Finalize, Finalizing, FinalizeUserStop, FinalizeOutcome, WriteMissionOutcome,
      FinalizeContinuation, ParkContinuation, TakeWakeBack, FinalizeReview,
      ThrewAfterAbort, PersistErrorPause, EnqueueRetryWake, Reconcile, BUSINESS_OUTCOMES,
      CONTINUABLE_STOPS, REVIEW_STOPS

LEMMA PlanHeldKept ==
  ASSUME OneCaller, Entries \cap {"retry", "recover"} = {}, Inv, OnlyMine, PlanHeld,
         [Step]_vars
  PROVE  PlanHeld'
<1>1. ASSUME NEW s \in Slices, TurnWritesPlan(s)
      PROVE  PlanHeld'
  <2>1. ActiveRuns \subseteq {task[s].run}
    BY <1>1 DEF TurnWritesPlan, InTurn, Engaged, OnlyMine
  <2>2. task'[s].pc = "planned" /\ task'[s].run = task[s].run /\ run' = run
    BY <1>1, GotoHolds DEF TurnWritesPlan, SameHolder
  <2>. QED
    BY <2>1, <2>2 DEF PlanHeld, Withdrawn, OneCaller, ActiveRuns, Active
<1>2. ASSUME NEW s \in Slices, Claim(s) \/ Drive(s), ~TurnWritesPlan(s)
      PROVE  plan' = plan
  BY <1>2
  DEF Claim, AskToBegin, ReadAcceptedPlan, ResumeClaim, RetryClaim, ApprovalClaim, ClaimRun,
      WakeDue, UserMessage, Drive, StartClaim, RecoverClaim, ClaimSession, RecheckActive,
      CreateRun, ResumeAccepted, WakeClaim, PreemptClaim, Release, ReadRun, PrepareFails,
      Register, StartRun, EntryAborted, EntryObserves, EntryExhausted, Turn, TurnAborted,
      TurnContinues, TurnMutates, TurnDefers, ParkDeferred, TurnAsksApproval, ParkPlanned,
      TurnEnds, TurnThrows, Finalize, FinalizeParked, FinalizeUserStop, FinalizeOutcome,
      WriteMissionOutcome, FinalizeContinuation, ParkContinuation, TakeWakeBack,
      FinalizeReview, ThrewAfterAbort, PersistErrorPause, EnqueueRetryWake, Reconcile,
      Unregister, rowVars
<1>3. ASSUME NEW s \in Slices, Claim(s) \/ (Drive(s) /\ ~RunnerAct(s)), plan = "unaccepted"
      PROVE  PlanHeld'
  BY <1>3, EntryWithdrawn DEF PlanHeld, OneCaller, ActiveRuns, Active
<1>4. ASSUME NEW s \in Slices, RunnerAct(s), plan = "unaccepted"
      PROVE  PlanHeld'
  <2>1. Withdrawn(s)' /\ task'[s].pc # "planned"
    BY <1>4, RunnerWithdrawn DEF PlanHeld
  <2>2. ASSUME NEW r \in ActiveRuns'
        PROVE  run'[r].st = "paused_plan_acceptance"
    <3>1. r \in Runs /\ run'[r].st \notin TERMINAL_RUN_STATUSES
      BY <2>2
      DEF ActiveRuns, Active, ACTIVE_OR_PAUSED_RUN_STATUSES, ACTIVE_RUN_STATUSES,
          PAUSED_RUN_STATUSES, TERMINAL_RUN_STATUSES
    <3>2. CASE run'[r] = run[r] /\ (task[s].pc # "planned" \/ task[s].run # r)
      BY <1>4, <2>2, <3>1, <3>2 DEF PlanHeld, ActiveRuns, Active
    <3>3. CASE task[s].pc = "planned" /\ task[s].run = r
      BY <1>4, <3>1, <3>3, RunnerWithdrawn DEF PlanHeld
    <3>. QED
      BY <1>4, <3>1, <3>2, <3>3, RunnerWithdrawn, RunnerHolds DEF RunnerHold, PlanHeld
  <2>. QED
    BY <2>1, <2>2 DEF PlanHeld, OneCaller
<1>5. CASE Bystanders
  <2>1. ASSUME NEW r \in ActiveRuns'
        PROVE  r \in ActiveRuns /\ (run'[r].st = run[r].st \/ run[r].st = "running")
    BY <1>5, <2>1
    DEF Bystanders, ActiveRuns, Active, ACTIVE_OR_PAUSED_RUN_STATUSES, ACTIVE_RUN_STATUSES,
        PAUSED_RUN_STATUSES, TERMINAL_RUN_STATUSES
  <2>. QED
    BY <1>5, <2>1 DEF Bystanders, PlanHeld, Withdrawn
<1>6. ASSUME NEW s \in Slices, Claim(s) \/ Drive(s)
      PROVE  PlanHeld'
  <2>1. CASE plan = "unaccepted"
    BY <1>3, <1>4, <1>6, <2>1
  <2>2. CASE plan' # "unaccepted"
    BY <2>2 DEF PlanHeld
  <2>. QED
    BY <1>1, <1>2, <1>6, <2>1, <2>2
<1>. QED
  BY <1>5, <1>6, WorldStandsBy DEF Step

\* The plan gate (prepareMissionStart, parkForPlanAcceptance, runResumeDispatch)
\* holds for one caller at a time that does not use Recover or mission
\* recovery: a turn that rewrites the plan parks its run before the next one,
\* and of all the claims only the Continue that has read an accepted plan takes
\* a run so parked.  Recover and mission recovery do not look at the plan at
\* all; two callers beat the gate because the Continue looks at it before it
\* claims (the run UnacceptedPlan).
THEOREM PlanGateForOneCaller ==
  ASSUME OneCaller, Entries \cap {"retry", "recover"} = {}
  PROVE  Init /\ [][Step]_vars => []PlanGate
<1>1. "recover" \notin Entries
  OBVIOUS
<1>2. Init => PlanHeld
  BY DEF Init, PlanHeld
<1>3. Inv /\ OnlyMine /\ PlanHeld /\ [Step]_vars => PlanHeld'
  BY PlanHeldKept
<1>4. PlanHeld => PlanGate
  BY DEF PlanHeld, Withdrawn, PlanGate
<1>. QED
  BY <1>1, <1>2, <1>3, <1>4, OnlyMineHolds, PTL
=============================================================================
