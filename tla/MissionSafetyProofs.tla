------------------------ MODULE MissionSafetyProofs -------------------------
(***************************************************************************)
(* The safety of the rows, whoever writes them.  Every step of             *)
(* MissionControl is one of six kinds of step on the runs and the request  *)
(* queue (RowStep); what the operator may rely on follows from those six.  *)
(***************************************************************************)
EXTENDS MissionControlProofs, FiniteSetTheorems

-----------------------------------------------------------------------------
(* The inductive invariant.                                                *)

Born(r) == run[r].st # "absent"

\* Whatever names a run names one that has been created: a slice past its
\* claim, a wake in the table or in a slice's hands, an approval, the
\* operator's command and the candidate of the reclaim pass.  Without it a
\* claim or a park could bring to life a run that no gate ever let begin.
References ==
  /\ \A s \in Slices :
       /\ task[s].pc \in RunPCs => Born(task[s].run)
       /\ task[s].pc = "woken" => Born(task[s].wake.run)
       /\ task[s].pc \in {"asked", "prepare", "commit"} =>
            task[s].entry \in Entries \cap {"start", "recover"}
  /\ wake # NoWake => Born(wake.run)
  /\ approval # NoApproval => Born(approval.run)
  /\ op.pc \notin {"idle", "session", "abort"} => Born(op.run)
  /\ orphan # NoRun => Born(orphan)

Inv == TypeOK /\ References

-----------------------------------------------------------------------------
(* The six kinds of step.                                                  *)

Kept(r) == run'[r].st = run[r].st /\ run'[r].reason = run[r].reason
OthersKept(r) == \A q \in Runs \ {r} : Kept(q)

\* The queue loses nothing but requests that name x.
Retires(x) == reqs' \subseteq reqs /\ \A q \in reqs \ reqs' : q.run = x

\* Its requests may go though nothing happens to it: it is over, or the loop of
\* another run takes them for leftovers.
Spent(x) ==
  x \in Runs => Terminal(x) \/ \E s \in Slices : task[s].pc = "loop" /\ task[s].run # x

RowsIdle == (\A r \in Runs : Kept(r)) /\ \E x \in MaybeRun : Retires(x) /\ Spent(x)

RowsAccept ==
  /\ \A r \in Runs : Kept(r)
  /\ \/ op.pc = "pause" /\ \E r \in Runs : Enqueue("pause_after_step", r)
     \/ \E r \in Runs : Born(r) /\ ~Terminal(r) /\ Enqueue("stop_terminal", r)
     \/ ActiveRuns = {} /\ Enqueue("stop_terminal", NoRun)

RowsBegin(r) ==
  /\ ~Born(r) /\ run'[r].st = "running" /\ OthersKept(r)
  /\ ~OpenStop(NoRun) /\ reqs' = reqs
  /\ "recover" \notin Entries => ActiveRuns = {}

RowsWake(r) ==
  Active(r) /\ run'[r].st = "running" /\ OthersKept(r) /\ reqs' = reqs

RowsPark(r) ==
  /\ Active(r) /\ run'[r].st \in PAUSED_RUN_STATUSES /\ OthersKept(r)
  /\ \/ ~OpenStop(r) /\ reqs' = reqs
     \/ \E q \in reqs : q.kind = "pause_after_step" /\ q.run = r /\ reqs' = reqs \ {q}

RowsEnd(r) ==
  /\ Active(r) /\ run'[r].st \in TERMINAL_RUN_STATUSES /\ OthersKept(r)
  /\ Retires(r)

RowStep ==
  \/ RowsIdle \/ RowsAccept
  \/ \E r \in Runs : RowsBegin(r) \/ RowsWake(r) \/ RowsPark(r) \/ RowsEnd(r)

-----------------------------------------------------------------------------
(* The helpers take steps of these kinds.                                  *)

LEMMA NoRunIsNoRun == NoRun \notin Runs
BY ConstantsAssumption

LEMMA LiveIsActive ==
  ASSUME RunOK, NEW r \in Runs, Born(r), ~Terminal(r)
  PROVE  Active(r)
BY DEF RunOK, Born, Terminal, Active, MISSION_RUN_STATUSES

LEMMA UntouchedStep ==
  ASSUME run' = run, reqs' = reqs
  PROVE  RowStep
BY NoRunIsNoRun DEF RowStep, RowsIdle, Kept, Retires, MaybeRun, Spent

LEMMA WriteKeepsOthers ==
  ASSUME RunOK, NEW r \in Runs, NEW status, NEW reason, Park(r, status, reason)
  PROVE  OthersKept(r) /\ run'[r].st = status /\ run'[r].reason = reason
BY DEF RunOK, Park, OthersKept, Kept

LEMMA ClaimRunStep ==
  ASSUME Inv, NEW s, NEW entry, NEW r \in Runs, NEW owner,
         NEW from \in SUBSET ACTIVE_OR_PAUSED_RUN_STATUSES, NEW retires,
         ClaimRun(s, entry, r, owner, from, retires)
  PROVE  RowStep
<1>1. run' = [run EXCEPT ![r].st = "running"] /\ reqs' = reqs /\ Active(r)
  BY DEF ClaimRun, Active
<1>2. OthersKept(r) /\ run'[r].st = "running"
  BY <1>1 DEF Inv, TypeOK, RunOK, OthersKept, Kept
<1>. QED
  BY <1>1, <1>2 DEF RowStep, RowsWake

LEMMA UserStopStep ==
  ASSUME Inv, NEW r \in Runs, Born(r), NEW missionTo, ApplyUserStop(r, missionTo)
  PROVE  RowStep
<1>1. Retires(r)
  BY DEF ApplyUserStop, WithoutStops, IsStop, Retires
<1>2. CASE Terminal(r)
  BY <1>1, <1>2 DEF ApplyUserStop, RowStep, RowsIdle, Kept, MaybeRun, Spent
<1>3. CASE ~Terminal(r)
  <2>1. Park(r, "stopped", "user_stopped")
    BY <1>3 DEF ApplyUserStop, Park
  <2>2. Active(r)
    BY <1>3, LiveIsActive DEF Inv, TypeOK
  <2>. QED
    BY <1>1, <2>1, <2>2, WriteKeepsOthers
    DEF Inv, TypeOK, RowStep, RowsEnd, TERMINAL_RUN_STATUSES
<1>. QED
  BY <1>2, <1>3

LEMMA LandGatedStopStep ==
  ASSUME Inv, NEW r \in Runs, Born(r), LandGatedStop(r)
  PROVE  RowStep
BY UserStopStep, UntouchedStep DEF LandGatedStop

\* A park that writes has seen neither a terminal run nor an open stop.
LEMMA ParkStep ==
  ASSUME Inv, NEW r \in Runs, Born(r), NEW status \in PAUSED_RUN_STATUSES, NEW reason,
         ~Gated(r), Park(r, status, reason), reqs' = reqs
  PROVE  RowStep
<1>1. Active(r) /\ ~OpenStop(r)
  BY LiveIsActive DEF Inv, TypeOK, Gated
<1>. QED
  BY <1>1, WriteKeepsOthers DEF Inv, TypeOK, RowStep, RowsPark

LEMMA GatedParkStep ==
  ASSUME Inv, NEW r \in Runs, Born(r), NEW status \in PAUSED_RUN_STATUSES, NEW reason,
         GatedPark(r, status, reason)
  PROVE  RowStep
BY ParkStep, LandGatedStopStep DEF GatedPark

-----------------------------------------------------------------------------
(* Every action takes a step of these kinds.                               *)

LEMMA ClaimStep ==
  ASSUME Inv, NEW s \in Slices, Claim(s)
  PROVE  RowStep
<1>1. CASE AskToBegin(s) \/ ReadAcceptedPlan(s) \/ WakeDue(s) \/ UserMessage(s)
  BY <1>1, UntouchedStep DEF AskToBegin, ReadAcceptedPlan, WakeDue, UserMessage, rowVars
<1>2. CASE ResumeClaim(s)
  BY <1>2, ClaimRunStep DEF ResumeClaim, ActiveRuns, Active
<1>3. CASE RetryClaim(s)
  BY <1>3, ClaimRunStep DEF RetryClaim, ActiveRuns, Active
<1>4. CASE ApprovalClaim(s)
  <2>1. approval.run \in Runs
    BY <1>4 DEF ApprovalClaim, Inv, TypeOK, RowsOK, NoApproval
  <2>2. Active(approval.run)
    BY <1>4 DEF ApprovalClaim, Active, APPROVAL_RESUME_CLAIMABLE_RUN_STATUSES,
                ACTIVE_OR_PAUSED_RUN_STATUSES, ACTIVE_RUN_STATUSES, PAUSED_RUN_STATUSES
  <2>3. OthersKept(approval.run) /\ run'[approval.run].st = "running" /\ reqs' = reqs
    BY <1>4, <2>1 DEF ApprovalClaim, Inv, TypeOK, RunOK, OthersKept, Kept
  <2>. QED
    BY <2>1, <2>2, <2>3 DEF RowStep, RowsWake
<1>. QED
  BY <1>1, <1>2, <1>3, <1>4 DEF Claim

LEMMA CreateRunStep ==
  ASSUME Inv, NEW s \in Slices, CreateRun(s)
  PROVE  RowStep
<1>1. CASE ApplySessionStop
  <2>1. Retires(NoRun)
    BY <1>1 DEF ApplySessionStop, WithoutStops, IsStop, Retires
  <2>. QED
    BY <1>1, <2>1, NoRunIsNoRun DEF ApplySessionStop, RowStep, RowsIdle, Kept, MaybeRun, Spent
<1>2. CASE UNCHANGED <<run, mission, lease, wake, reqs, approval>>
  BY <1>2, UntouchedStep
<1>3. ASSUME NEW r \in Runs, run[r].st = "absent", run' = [run EXCEPT ![r].st = "running"],
             ~SessionStopped, ~(task[s].entry = "start" /\ StartRefused), reqs' = reqs
      PROVE  RowStep
  <2>1. OthersKept(r) /\ run'[r].st = "running"
    BY <1>3 DEF Inv, TypeOK, RunOK, OthersKept, Kept
  <2>2. "recover" \notin Entries => ActiveRuns = {}
    BY <1>3 DEF CreateRun, Inv, References, StartRefused
  <2>. QED
    BY <1>3, <2>1, <2>2 DEF RowStep, RowsBegin, Born, SessionStopped
<1>. QED
  BY <1>1, <1>2, <1>3 DEF CreateRun

LEMMA BeginStep ==
  ASSUME Inv, NEW s \in Slices,
         \/ StartClaim(s) \/ RecoverClaim(s) \/ RecheckActive(s) \/ CreateRun(s)
         \/ ResumeAccepted(s) \/ WakeClaim(s) \/ PreemptClaim(s)
  PROVE  RowStep
<1>1. CASE StartClaim(s) \/ RecoverClaim(s) \/ RecheckActive(s)
  BY <1>1, UntouchedStep DEF StartClaim, RecoverClaim, RecheckActive, ClaimSession, rowVars
<1>2. CASE CreateRun(s)
  BY <1>2, CreateRunStep
<1>3. CASE ResumeAccepted(s)
  <2>1. task[s].run \in Runs
    BY <1>3 DEF ResumeAccepted, Inv, TypeOK, TaskOK, RunPCs, TaskPCs
  <2>. QED
    BY <1>3, <2>1, ClaimRunStep, UntouchedStep
    DEF ResumeAccepted, rowVars, ACTIVE_OR_PAUSED_RUN_STATUSES, PAUSED_RUN_STATUSES
<1>4. CASE WakeClaim(s)
  <2>. DEFINE r == task[s].wake.run
  <2>1. r \in Runs
    BY <1>4 DEF WakeClaim, Inv, TypeOK, TaskOK, Tasks, WakeRows
  <2>2. Wakeable(task[s].wake) => run[r].st \in {"paused_wake", "paused_error"}
    BY DEF Wakeable, StillRetryable
  <2>. QED
    BY <1>4, <2>1, <2>2, ClaimRunStep, UntouchedStep
    DEF WakeClaim, rowVars, ACTIVE_OR_PAUSED_RUN_STATUSES, PAUSED_RUN_STATUSES
<1>5. CASE PreemptClaim(s)
  BY <1>5, ClaimRunStep, UntouchedStep
  DEF PreemptClaim, rowVars, ACTIVE_OR_PAUSED_RUN_STATUSES, PAUSED_RUN_STATUSES
<1>. QED
  BY <1>1, <1>2, <1>3, <1>4, <1>5

\* A slice past its claim holds a run that exists.
LEMMA HoldsRun ==
  ASSUME Inv, NEW s \in Slices, task[s].pc \in RunPCs
  PROVE  task[s].run \in Runs /\ Born(task[s].run)
BY DEF Inv, TypeOK, TaskOK, References

LEMMA LoopStep ==
  ASSUME Inv, NEW s \in Slices,
         \/ ReadRun(s) \/ PrepareFails(s) \/ Register(s) \/ StartRun(s)
         \/ EntryAborted(s) \/ EntryObserves(s) \/ EntryExhausted(s)
  PROVE  RowStep
<1>. DEFINE r == MyRun(s)
<1>0. r \in Runs /\ Born(r)
  BY HoldsRun DEF MyRun, RunPCs, TaskPCs, ReadRun, PrepareFails, Register, StartRun,
                  EntryAborted, EntryObserves, EntryExhausted
<1>1. CASE ReadRun(s) \/ PrepareFails(s) \/ Register(s) \/ EntryAborted(s)
             \/ EntryExhausted(s)
  BY <1>1, UntouchedStep
  DEF ReadRun, PrepareFails, Register, EntryAborted, EntryExhausted, rowVars
<1>2. CASE StartRun(s)
  <2>1. CASE Terminal(r)
    BY <1>2, <2>1, UntouchedStep DEF StartRun
  <2>2. CASE ~Terminal(r)
    <3>1. Park(r, "running", "none") /\ reqs' = reqs
      BY <1>2, <2>2 DEF StartRun, Park
    <3>. QED
      BY <1>0, <2>2, <3>1, WriteKeepsOthers, LiveIsActive DEF Inv, TypeOK, RowStep, RowsWake
  <2>. QED
    BY <2>1, <2>2
<1>3. CASE EntryObserves(s)
  <2>1. CASE run' = run /\ reqs' = reqs
    BY <2>1, UntouchedStep
  <2>2. ASSUME NEW q \in reqs, reqs' = reqs \ {q}, run' = run, q.run = r => Terminal(r)
        PROVE  RowStep
    <3>1. q.run \in MaybeRun
      BY DEF Inv, TypeOK, RowsOK
    <3>2. Spent(q.run)
      BY <1>3, <2>2 DEF Spent, EntryObserves, MyRun
    <3>. QED
      BY <2>2, <3>1, <3>2 DEF RowStep, RowsIdle, Kept, Retires
  <2>3. ASSUME NEW q \in reqs, q.run = r, q.kind = "pause_after_step", reqs' = reqs \ {q},
               ~Terminal(r), Park(r, "paused_user", "user_paused")
        PROVE  RowStep
    BY <1>0, <2>3, WriteKeepsOthers, LiveIsActive
    DEF Inv, TypeOK, RowStep, RowsPark, PAUSED_RUN_STATUSES
  <2>4. CASE ApplyUserStop(r, "cancelled")
    BY <1>0, <2>4, UserStopStep
  <2>. QED
    BY <1>3, <2>1, <2>2, <2>3, <2>4 DEF EntryObserves
<1>. QED
  BY <1>1, <1>2, <1>3

LEMMA TurnStep ==
  ASSUME Inv, NEW s \in Slices, Turn(s)
  PROVE  RowStep
<1>. DEFINE r == MyRun(s)
<1>0. r \in Runs /\ Born(r)
  BY HoldsRun DEF MyRun, RunPCs, TaskPCs, Turn, InTurn, TurnAborted, TurnContinues,
         TurnMutates, TurnDefers, ParkDeferred, TurnAsksApproval, TurnWritesPlan,
         ParkPlanned, TurnEnds, TurnThrows
<1>1. CASE \/ TurnAborted(s) \/ TurnContinues(s) \/ TurnDefers(s) \/ TurnWritesPlan(s)
           \/ TurnEnds(s) \/ TurnThrows(s)
  BY <1>1, UntouchedStep
  DEF TurnAborted, TurnContinues, TurnDefers, TurnWritesPlan, TurnEnds, TurnThrows, rowVars
<1>2. CASE TurnMutates(s)
  BY <1>2, NoRunIsNoRun
  DEF TurnMutates, Inv, TypeOK, RunOK, RowStep, RowsIdle, Kept, Retires, MaybeRun, Spent
<1>3. CASE ParkDeferred(s)
  BY <1>0, <1>3, GatedParkStep DEF ParkDeferred, PAUSED_RUN_STATUSES
<1>4. CASE TurnAsksApproval(s)
  BY <1>0, <1>4, LandGatedStopStep, ParkStep DEF TurnAsksApproval, PAUSED_RUN_STATUSES
<1>5. CASE ParkPlanned(s)
  BY <1>0, <1>5, GatedParkStep DEF ParkPlanned, PAUSED_RUN_STATUSES
<1>. QED
  BY <1>1, <1>2, <1>3, <1>4, <1>5 DEF Turn

LEMMA FinalizeStep ==
  ASSUME Inv, NEW s \in Slices, Finalize(s)
  PROVE  RowStep
<1>. DEFINE r == MyRun(s)
<1>0. r \in Runs /\ Born(r)
  BY HoldsRun DEF MyRun, RunPCs, TaskPCs, Finalize, Finalizing, FinalizeParked,
         FinalizeUserStop, FinalizeOutcome, WriteMissionOutcome, FinalizeContinuation,
         ParkContinuation, TakeWakeBack, FinalizeReview, ThrewAfterAbort,
         PersistErrorPause, EnqueueRetryWake, Reconcile
<1>1. CASE \/ FinalizeParked(s) \/ WriteMissionOutcome(s) \/ FinalizeContinuation(s)
           \/ TakeWakeBack(s) \/ EnqueueRetryWake(s) \/ Reconcile(s)
  BY <1>1, UntouchedStep
  DEF FinalizeParked, WriteMissionOutcome, FinalizeContinuation, TakeWakeBack,
      EnqueueRetryWake, Reconcile, rowVars
<1>2. CASE FinalizeUserStop(s)
  BY <1>0, <1>2, UserStopStep DEF FinalizeUserStop
<1>3. CASE FinalizeOutcome(s)
  <2>1. CASE Terminal(r)
    BY <1>3, <2>1, UntouchedStep DEF FinalizeOutcome
  <2>2. CASE ~Terminal(r)
    <3>1. Park(r, OutcomeStatus(task[s].reason), task[s].reason) /\ reqs' = reqs
      BY <1>3, <2>2 DEF FinalizeOutcome
    <3>2. OutcomeStatus(task[s].reason) \in TERMINAL_RUN_STATUSES
      BY DEF OutcomeStatus, TERMINAL_RUN_STATUSES
    <3>. QED
      BY <1>0, <2>2, <3>1, <3>2, WriteKeepsOthers, LiveIsActive
      DEF Inv, TypeOK, RowStep, RowsEnd, Retires
  <2>. QED
    BY <2>1, <2>2
<1>4. CASE ParkContinuation(s)
  BY <1>0, <1>4, GatedParkStep DEF ParkContinuation, PAUSED_RUN_STATUSES
<1>5. CASE FinalizeReview(s)
  BY <1>0, <1>5, GatedParkStep DEF FinalizeReview, PAUSED_RUN_STATUSES
<1>6. CASE ThrewAfterAbort(s)
  BY <1>0, <1>6, UserStopStep DEF ThrewAfterAbort
<1>7. CASE PersistErrorPause(s)
  <2>1. CASE GatedPark(r, "paused_error", "provider_error")
    BY <1>0, <2>1, GatedParkStep DEF PAUSED_RUN_STATUSES
  <2>2. CASE /\ ~Gated(r) /\ reqs' = reqs
             /\ run' = [run EXCEPT ![r].st = "paused_error",
                                   ![r].reason = "provider_error",
                                   ![r].retries = @ + 1]
    <3>1. OthersKept(r) /\ run'[r].st \in PAUSED_RUN_STATUSES
      BY <1>0, <2>2 DEF Inv, TypeOK, RunOK, OthersKept, Kept, PAUSED_RUN_STATUSES
    <3>2. Active(r) /\ ~OpenStop(r)
      BY <1>0, <2>2, LiveIsActive DEF Inv, TypeOK, Gated
    <3>. QED
      BY <1>0, <2>2, <3>1, <3>2 DEF RowStep, RowsPark
  <2>. QED
    BY <1>7, <2>1, <2>2 DEF PersistErrorPause
<1>. QED
  BY <1>1, <1>2, <1>3, <1>4, <1>5, <1>6, <1>7 DEF Finalize

LEMMA OperatorStep ==
  ASSUME Inv, OperatorAsks \/ OperatorProceeds
  PROVE  RowStep
<1>0. op.pc \notin {"idle", "session", "abort"} => op.run \in Runs /\ Born(op.run)
  BY DEF Inv, TypeOK, MemoryOK, References
<1>1. CASE OperatorAsks
  BY <1>1, UntouchedStep
  DEF OperatorAsks, PauseAsked, StopAsked, EditAsked, AcceptPlan, DecideApproval, rowVars
<1>2. CASE EnqueuePause
  <2>1. CASE Enqueue("pause_after_step", op.run)
    BY <1>0, <1>2, <2>1 DEF EnqueuePause, RowStep, RowsAccept, Kept
  <2>. QED
    BY <1>2, <2>1, UntouchedStep DEF EnqueuePause
<1>3. CASE EnqueueStop
  <2>1. CASE ~Terminal(op.run) /\ Enqueue("stop_terminal", op.run)
    BY <1>0, <1>3, <2>1 DEF EnqueueStop, RowStep, RowsAccept, Kept
  <2>. QED
    BY <1>3, <2>1, UntouchedStep DEF EnqueueStop
<1>4. CASE StopSession
  <2>1. CASE ActiveRuns = {} /\ Enqueue("stop_terminal", NoRun)
    BY <1>4, <2>1 DEF StopSession, RowStep, RowsAccept, Kept
  <2>. QED
    BY <1>4, <2>1, UntouchedStep DEF StopSession
<1>5. CASE AbortApplies
  BY <1>0, <1>5, UserStopStep DEF AbortApplies
<1>6. CASE EditApplies
  BY <1>0, <1>6, UserStopStep DEF EditApplies
<1>7. CASE \/ SignalStop \/ StopRerouted \/ AbortReads \/ AbortCancelsWakes
           \/ AbortRejectsApprovals \/ AbortSignals \/ EditCancelsWakes \/ EditSignals
           \/ EditReconciles
  BY <1>7, UntouchedStep
  DEF SignalStop, StopRerouted, AbortReads, AbortCancelsWakes, AbortRejectsApprovals,
      AbortSignals, EditCancelsWakes, EditSignals, EditReconciles, rowVars
<1>. QED
  BY <1>1, <1>2, <1>3, <1>4, <1>5, <1>6, <1>7 DEF OperatorProceeds

LEMMA NextStep ==
  ASSUME Inv, [Next]_vars
  PROVE  RowStep
<1>1. ASSUME NEW s \in Slices, Claim(s) \/ Drive(s) \/ Heartbeat(s)
      PROVE  RowStep
  <2>1. CASE Unregister(s) \/ Release(s) \/ Heartbeat(s)
    BY <2>1, UntouchedStep DEF Unregister, Release, Heartbeat, rowVars
  <2>. QED
    BY <1>1, <2>1, ClaimStep, BeginStep, LoopStep, TurnStep, FinalizeStep DEF Drive
<1>2. CASE OperatorAsks \/ OperatorProceeds
  BY <1>2, OperatorStep
<1>3. CASE LeaseExpires \/ FindOrphan \/ Restart \/ UNCHANGED vars
  BY <1>3, UntouchedStep DEF LeaseExpires, FindOrphan, Restart, vars, rowVars
<1>4. CASE ReclaimOrphan
  <2>1. orphan \in Runs /\ Born(orphan)
    BY <1>4 DEF ReclaimOrphan, Inv, TypeOK, MemoryOK, MaybeRun, References
  <2>. QED
    BY <1>4, <2>1, GatedParkStep, UntouchedStep DEF ReclaimOrphan, PAUSED_RUN_STATUSES
<1>. QED
  BY <1>1, <1>2, <1>3, <1>4 DEF Next, Step

-----------------------------------------------------------------------------
(* The invariant is inductive.                                             *)

\* No step of the six takes a run back to before it was created.
LEMMA BornStays ==
  ASSUME RowStep
  PROVE  \A r \in Runs : Born(r) => run'[r].st # "absent"
<1>1. CASE \A q \in Runs : Kept(q)
  BY <1>1 DEF Kept, Born
<1>2. ASSUME NEW q \in Runs, OthersKept(q), run'[q].st # "absent"
      PROVE  \A r \in Runs : Born(r) => run'[r].st # "absent"
  BY <1>2 DEF OthersKept, Kept, Born
<1>. QED
  BY <1>1, <1>2
  DEF RowStep, RowsIdle, RowsAccept, RowsBegin, RowsWake, RowsPark, RowsEnd,
      PAUSED_RUN_STATUSES, TERMINAL_RUN_STATUSES

\* The references a step leaves alone stay good.
LEMMA OldRefs ==
  ASSUME Inv, RowStep
  PROVE  /\ \A s \in Slices :
              task'[s] = task[s] =>
                /\ task'[s].pc \in RunPCs => run'[task'[s].run].st # "absent"
                /\ task'[s].pc = "woken" => run'[task'[s].wake.run].st # "absent"
                /\ task'[s].pc \in {"asked", "prepare", "commit"} =>
                     task'[s].entry \in Entries \cap {"start", "recover"}
         /\ wake' \in {NoWake, wake} =>
              (wake' # NoWake => run'[wake'.run].st # "absent")
         /\ approval' \in {NoApproval, approval} =>
              (approval' # NoApproval => run'[approval'.run].st # "absent")
         /\ op' = op =>
              (op'.pc \notin {"idle", "session", "abort"} => run'[op'.run].st # "absent")
         /\ orphan' \in {NoRun, orphan} =>
              (orphan' # NoRun => run'[orphan'].st # "absent")
<1>1. ASSUME NEW s \in Slices, task'[s] = task[s]
      PROVE  /\ task'[s].pc \in RunPCs => run'[task'[s].run].st # "absent"
             /\ task'[s].pc = "woken" => run'[task'[s].wake.run].st # "absent"
             /\ task'[s].pc \in {"asked", "prepare", "commit"} =>
                  task'[s].entry \in Entries \cap {"start", "recover"}
  <2>1. task[s].pc = "woken" => task[s].wake.run \in Runs
    BY DEF Inv, TypeOK, TaskOK, Tasks, WakeRows
  <2>2. task[s].pc \in RunPCs => task[s].run \in Runs
    BY DEF Inv, TypeOK, TaskOK
  <2>. QED
    BY <1>1, <2>1, <2>2, BornStays DEF Inv, References
<1>2. wake' \in {NoWake, wake} => (wake' # NoWake => run'[wake'.run].st # "absent")
  BY BornStays DEF Inv, TypeOK, RowsOK, WakeRows, References
<1>3. approval' \in {NoApproval, approval} =>
        (approval' # NoApproval => run'[approval'.run].st # "absent")
  BY BornStays DEF Inv, TypeOK, RowsOK, References
<1>4. op' = op => (op'.pc \notin {"idle", "session", "abort"} => run'[op'.run].st # "absent")
  BY BornStays DEF Inv, TypeOK, MemoryOK, References
<1>5. orphan' \in {NoRun, orphan} => (orphan' # NoRun => run'[orphan'].st # "absent")
  BY BornStays DEF Inv, TypeOK, MemoryOK, MaybeRun, References
<1>. QED
  BY <1>1, <1>2, <1>3, <1>4, <1>5

\* What a slice past its claim may do to the references: it keeps its run, and
\* the wakes and approvals it writes name that run.
RunnerMove(s) ==
  /\ task[s].pc \in RunPCs
  /\ \A q \in Slices \ {s} : task'[q] = task[q]
  /\ task'[s].run = task[s].run
  /\ task'[s].pc \notin {"woken", "asked", "prepare", "commit"}
  /\ wake' \in {NoWake, wake} \/ wake'.run = task[s].run
  /\ approval' \in {NoApproval, approval} \/ approval'.run = task[s].run
  /\ UNCHANGED <<op, orphan>>

LEMMA RunnerRefs ==
  ASSUME Inv, RowStep, NEW s \in Slices, RunnerMove(s)
  PROVE  References'
<1>1. run'[task[s].run].st # "absent"
  BY HoldsRun, BornStays DEF RunnerMove
<1>. QED
  BY <1>1, OldRefs DEF RunnerMove, References, Born

\* The slice half of RunnerMove.
SliceMoves(s) ==
  /\ \A q \in Slices \ {s} : task'[q] = task[q]
  /\ task'[s].run = task[s].run
  /\ task'[s].pc \notin {"woken", "asked", "prepare", "commit"}

LEMMA GotoMoves ==
  ASSUME Inv, NEW s \in Slices, NEW pc, pc \notin {"woken", "asked", "prepare", "commit"},
         Goto(s, pc)
  PROVE  SliceMoves(s)
BY DEF Inv, TypeOK, TaskOK, Tasks, Goto, SliceMoves

LEMMA FinishMoves ==
  ASSUME Inv, NEW s \in Slices, NEW reason, Finish(s, reason)
  PROVE  SliceMoves(s)
BY DEF Inv, TypeOK, TaskOK, Tasks, Finish, SliceMoves

\* The stop bodies only take references away.
LEMMA StopDropsRefs ==
  ASSUME NEW r, \/ \E m : ApplyUserStop(r, m)
                \/ LandGatedStop(r)
                \/ \E status, reason : GatedPark(r, status, reason)
  PROVE  wake' \in {NoWake, wake} /\ approval' \in {NoApproval, approval}
BY DEF ApplyUserStop, LandGatedStop, GatedPark, RejectPending

LEMMA LoopMoves ==
  ASSUME Inv, NEW s \in Slices,
         \/ ReadRun(s) \/ PrepareFails(s) \/ Register(s) \/ StartRun(s)
         \/ EntryAborted(s) \/ EntryObserves(s) \/ EntryExhausted(s)
  PROVE  RunnerMove(s)
<1>0. task[s].pc \in RunPCs
  BY DEF RunPCs, TaskPCs, ReadRun, PrepareFails, Register, StartRun, EntryAborted,
         EntryObserves, EntryExhausted
<1>1. SliceMoves(s)
  <2>1. CASE ReadRun(s) \/ PrepareFails(s) \/ StartRun(s)
    BY <2>1, GotoMoves DEF ReadRun, PrepareFails, StartRun
  <2>2. CASE EntryAborted(s) \/ EntryExhausted(s)
    BY <2>2, FinishMoves DEF EntryAborted, EntryExhausted
  <2>3. CASE Register(s)
    BY <2>3 DEF Register, Inv, TypeOK, TaskOK, Tasks, SliceMoves
  <2>4. CASE EntryObserves(s)
    BY <2>4, GotoMoves, FinishMoves DEF EntryObserves
  <2>. QED
    BY <2>1, <2>2, <2>3, <2>4
<1>2. wake' \in {NoWake, wake} /\ approval' \in {NoApproval, approval}
  BY StopDropsRefs
  DEF ReadRun, PrepareFails, Register, StartRun, EntryAborted, EntryObserves,
      EntryExhausted, rowVars
<1>3. UNCHANGED <<op, orphan>>
  BY DEF ReadRun, PrepareFails, Register, StartRun, EntryAborted, EntryObserves,
         EntryExhausted
<1>. QED
  BY <1>0, <1>1, <1>2, <1>3 DEF SliceMoves, RunnerMove

LEMMA TurnMoves ==
  ASSUME Inv, NEW s \in Slices, Turn(s)
  PROVE  RunnerMove(s)
<1>0. task[s].pc \in RunPCs
  BY DEF RunPCs, TaskPCs, Turn, InTurn, TurnAborted, TurnContinues,
         TurnMutates, TurnDefers, ParkDeferred, TurnAsksApproval, TurnWritesPlan,
         ParkPlanned, TurnEnds, TurnThrows
<1>1. SliceMoves(s)
  <2>1. CASE TurnContinues(s) \/ TurnDefers(s) \/ TurnWritesPlan(s) \/ TurnThrows(s)
    BY <2>1, GotoMoves DEF TurnContinues, TurnDefers, TurnWritesPlan, TurnThrows
  <2>2. CASE \/ TurnAborted(s) \/ ParkDeferred(s) \/ TurnAsksApproval(s)
             \/ ParkPlanned(s) \/ TurnEnds(s)
    BY <2>2, FinishMoves
    DEF TurnAborted, ParkDeferred, TurnAsksApproval, ParkPlanned, TurnEnds
  <2>3. CASE TurnMutates(s)
    BY <2>3 DEF TurnMutates, InTurn, SliceMoves
  <2>. QED
    BY <2>1, <2>2, <2>3 DEF Turn
<1>2. /\ wake' \in {NoWake, wake} \/ wake'.run = task[s].run
      /\ approval' \in {NoApproval, approval} \/ approval'.run = task[s].run
      /\ UNCHANGED <<op, orphan>>
  <2>1. CASE TurnDefers(s)
    BY <2>1 DEF TurnDefers, MyRun
  <2>2. CASE TurnAsksApproval(s)
    BY <2>2, StopDropsRefs DEF TurnAsksApproval, MyRun
  <2>3. CASE ParkDeferred(s) \/ ParkPlanned(s)
    BY <2>3, StopDropsRefs DEF ParkDeferred, ParkPlanned
  <2>4. CASE \/ TurnAborted(s) \/ TurnContinues(s) \/ TurnMutates(s)
             \/ TurnWritesPlan(s) \/ TurnEnds(s) \/ TurnThrows(s)
    BY <2>4 DEF TurnAborted, TurnContinues, TurnMutates, TurnWritesPlan, TurnEnds,
                TurnThrows, rowVars
  <2>. QED
    BY <2>1, <2>2, <2>3, <2>4 DEF Turn
<1>. QED
  BY <1>0, <1>1, <1>2 DEF SliceMoves, RunnerMove

LEMMA FinalizeMoves ==
  ASSUME Inv, NEW s \in Slices, Finalize(s) \/ Unregister(s)
  PROVE  RunnerMove(s)
<1>0. task[s].pc \in RunPCs
  BY DEF RunPCs, TaskPCs, Finalize, Finalizing, FinalizeParked,
         FinalizeUserStop, FinalizeOutcome, WriteMissionOutcome, FinalizeContinuation,
         ParkContinuation, TakeWakeBack, FinalizeReview, ThrewAfterAbort,
         PersistErrorPause, EnqueueRetryWake, Reconcile, Unregister
<1>1. SliceMoves(s)
  <2>1. CASE \/ FinalizeParked(s) \/ FinalizeUserStop(s) \/ FinalizeOutcome(s)
             \/ WriteMissionOutcome(s) \/ ParkContinuation(s) \/ TakeWakeBack(s)
             \/ FinalizeReview(s) \/ ThrewAfterAbort(s) \/ Reconcile(s)
    BY <2>1, GotoMoves
    DEF FinalizeParked, FinalizeUserStop, FinalizeOutcome, WriteMissionOutcome,
        ParkContinuation, TakeWakeBack, FinalizeReview, ThrewAfterAbort, Reconcile
  <2>2. CASE PersistErrorPause(s) \/ EnqueueRetryWake(s)
    BY <2>2, GotoMoves DEF PersistErrorPause, EnqueueRetryWake, AfterThrow
  <2>3. CASE FinalizeContinuation(s) \/ Unregister(s)
    BY <2>3 DEF FinalizeContinuation, Unregister, Inv, TypeOK, TaskOK, Tasks, SliceMoves
  <2>. QED
    BY <2>1, <2>2, <2>3 DEF Finalize
<1>2. /\ wake' \in {NoWake, wake} \/ wake'.run = task[s].run
      /\ approval' \in {NoApproval, approval}
      /\ UNCHANGED <<op, orphan>>
  <2>1. CASE \/ FinalizeParked(s) \/ FinalizeOutcome(s) \/ WriteMissionOutcome(s)
             \/ TakeWakeBack(s) \/ Reconcile(s) \/ Unregister(s)
    BY <2>1 DEF FinalizeParked, FinalizeOutcome, WriteMissionOutcome, TakeWakeBack,
                Reconcile, Unregister, rowVars
  <2>2. CASE FinalizeContinuation(s) \/ EnqueueRetryWake(s)
    BY <2>2 DEF FinalizeContinuation, EnqueueRetryWake, MyRun
  <2>3. CASE \/ FinalizeUserStop(s) \/ ParkContinuation(s) \/ FinalizeReview(s)
             \/ ThrewAfterAbort(s) \/ PersistErrorPause(s)
    BY <2>3, StopDropsRefs
    DEF FinalizeUserStop, ParkContinuation, FinalizeReview, ThrewAfterAbort,
        PersistErrorPause
  <2>. QED
    BY <2>1, <2>2, <2>3 DEF Finalize
<1>. QED
  BY <1>0, <1>1, <1>2 DEF SliceMoves, RunnerMove

\* What the entry points may do to the references: the record they give the
\* slice names nothing, or something that exists.
EntryMove(s) ==
  /\ \A q \in Slices \ {s} : task'[q] = task[q]
  /\ task'[s].pc \in RunPCs => run'[task'[s].run].st # "absent"
  /\ task'[s].pc = "woken" => run'[task'[s].wake.run].st # "absent"
  /\ task'[s].pc \in {"asked", "prepare", "commit"} =>
       task'[s].entry \in Entries \cap {"start", "recover"}
  /\ wake' \in {NoWake, wake} /\ approval' \in {NoApproval, approval}
  /\ UNCHANGED <<op, orphan>>

LEMMA EntryRefs ==
  ASSUME Inv, RowStep, NEW s \in Slices, EntryMove(s)
  PROVE  References'
BY OldRefs DEF EntryMove, References, Born

LEMMA ClaimRunMoves ==
  ASSUME Inv, NEW s \in Slices, NEW entry, NEW r \in Runs, NEW owner, NEW from,
         NEW retires, ClaimRun(s, entry, r, owner, from, retires)
  PROVE  EntryMove(s)
<1>1. task'[s].pc = "claimed" /\ task'[s].run = r /\ \A q \in Slices \ {s} : task'[q] = task[q]
  BY DEF ClaimRun, Seize, NewTask, Inv, TypeOK, TaskOK
<1>2. run'[r].st = "running"
  BY DEF ClaimRun, Inv, TypeOK, RunOK
<1>. QED
  BY <1>1, <1>2 DEF ClaimRun, EntryMove

LEMMA QuitMoves ==
  ASSUME Inv, NEW s \in Slices, Quit(s),
         wake' \in {NoWake, wake} /\ approval' \in {NoApproval, approval},
         UNCHANGED <<op, orphan>>
  PROVE  EntryMove(s)
BY DEF Inv, TypeOK, TaskOK, Quit, IdleTask, NewTask, RunPCs, EntryMove

LEMMA ClaimMoves ==
  ASSUME Inv, NEW s \in Slices, Claim(s)
  PROVE  EntryMove(s)
<1>. USE DEF Inv, TypeOK, TaskOK
<1>1. CASE AskToBegin(s)
  BY <1>1 DEF AskToBegin, NewTask, RunPCs, EntryMove, rowVars
<1>2. CASE ReadAcceptedPlan(s)
  BY <1>2 DEF ReadAcceptedPlan, NewTask, RunPCs, EntryMove, rowVars
<1>3. CASE ResumeClaim(s)
  BY <1>3, ClaimRunMoves DEF ResumeClaim, ActiveRuns
<1>4. CASE RetryClaim(s)
  BY <1>4, ClaimRunMoves DEF RetryClaim, ActiveRuns
<1>5. CASE ApprovalClaim(s)
  <2>1. approval.run \in Runs
    BY <1>5 DEF ApprovalClaim, RowsOK, NoApproval
  <2>2. run'[approval.run].st = "running"
    BY <1>5, <2>1 DEF ApprovalClaim, RunOK
  <2>. QED
    BY <1>5, <2>2 DEF ApprovalClaim, Seize, NewTask, EntryMove
<1>6. CASE WakeDue(s)
  <2>1. wake.run \in Runs /\ Born(wake.run)
    BY <1>6 DEF WakeDue, RowsOK, WakeRows, References
  <2>. QED
    BY <1>6, <2>1 DEF WakeDue, NewTask, RunPCs, EntryMove, Born
<1>7. CASE UserMessage(s)
  BY <1>7 DEF UserMessage, Tasks, RunPCs, EntryMove
<1>. QED
  BY <1>1, <1>2, <1>3, <1>4, <1>5, <1>6, <1>7 DEF Claim

LEMMA ClaimSessionMoves ==
  ASSUME Inv, NEW s \in Slices, task[s].pc = "asked", NEW owner, ClaimSession(s, owner)
  PROVE  EntryMove(s)
<1>1. CASE Seize(s, task[s].entry, NoRun, owner, "prepare")
  BY <1>1 DEF ClaimSession, Seize, NewTask, Inv, References, TypeOK, TaskOK, RunPCs, EntryMove
<1>2. CASE Quit(s)
  BY <1>2, QuitMoves DEF ClaimSession
<1>. QED
  BY <1>1, <1>2 DEF ClaimSession

LEMMA BeginMoves ==
  ASSUME Inv, NEW s \in Slices,
         \/ StartClaim(s) \/ RecoverClaim(s) \/ RecheckActive(s) \/ CreateRun(s)
         \/ ResumeAccepted(s) \/ WakeClaim(s) \/ PreemptClaim(s) \/ Release(s)
  PROVE  EntryMove(s)
<1>1. CASE StartClaim(s)
  BY <1>1, ClaimSessionMoves DEF StartClaim
<1>2. CASE RecoverClaim(s)
  BY <1>2, ClaimSessionMoves, QuitMoves DEF RecoverClaim, rowVars
<1>3. CASE RecheckActive(s)
  BY <1>3 DEF RecheckActive, Goto, Inv, References, TypeOK, TaskOK, Tasks, RunPCs, EntryMove,
              rowVars
<1>4. CASE CreateRun(s)
  <2>1. CASE Goto(s, "release") /\ wake' \in {NoWake, wake} /\ approval' \in {NoApproval, approval}
    <3>1. task'[s].pc = "release" /\ \A q \in Slices \ {s} : task'[q] = task[q]
      BY <2>1 DEF Goto, Inv, TypeOK, TaskOK, Tasks
    <3>. QED
      BY <1>4, <2>1, <3>1 DEF CreateRun, RunPCs, EntryMove
  <2>2. ASSUME NEW r \in Runs, run' = [run EXCEPT ![r].st = "running"],
               task' = [task EXCEPT ![s].pc = "registering", ![s].run = r],
               UNCHANGED <<wake, approval>>
        PROVE  EntryMove(s)
    <3>1. run'[r].st = "running"
      BY <2>2 DEF Inv, TypeOK, RunOK
    <3>2. /\ task'[s].pc = "registering" /\ task'[s].run = r
          /\ \A q \in Slices \ {s} : task'[q] = task[q]
      BY <2>2 DEF Inv, TypeOK, TaskOK, Tasks
    <3>. QED
      BY <1>4, <2>2, <3>1, <3>2 DEF CreateRun, EntryMove
  <2>. QED
    BY <1>4, <2>1, <2>2 DEF CreateRun, ApplySessionStop, RejectPending
<1>5. CASE ResumeAccepted(s)
  <2>1. task[s].run \in Runs
    BY <1>5, HoldsRun DEF ResumeAccepted, RunPCs, TaskPCs
  <2>. QED
    BY <1>5, <2>1, ClaimRunMoves, QuitMoves DEF ResumeAccepted, rowVars
<1>6. CASE WakeClaim(s)
  <2>1. task[s].wake.run \in Runs
    BY <1>6 DEF WakeClaim, Inv, TypeOK, TaskOK, Tasks, WakeRows
  <2>. QED
    BY <1>6, <2>1, ClaimRunMoves, QuitMoves DEF WakeClaim, rowVars
<1>7. CASE PreemptClaim(s)
  BY <1>7, ClaimRunMoves, QuitMoves DEF PreemptClaim, rowVars
<1>8. CASE Release(s)
  BY <1>8, QuitMoves DEF Release
<1>. QED
  BY <1>1, <1>2, <1>3, <1>4, <1>5, <1>6, <1>7, <1>8

LEMMA SliceRefs ==
  ASSUME Inv, RowStep, NEW s \in Slices, Claim(s) \/ Drive(s) \/ Heartbeat(s)
  PROVE  References'
<1>1. CASE Claim(s)
  BY <1>1, ClaimMoves, EntryRefs
<1>2. CASE Drive(s)
  BY <1>2, BeginMoves, EntryRefs, LoopMoves, TurnMoves, FinalizeMoves, RunnerRefs DEF Drive
<1>3. CASE Heartbeat(s)
  <2>1. \A q \in Slices : /\ task'[q].pc = task[q].pc /\ task'[q].run = task[q].run
                          /\ task'[q].wake = task[q].wake /\ task'[q].entry = task[q].entry
    <3>1. task' = task \/ task' = [task EXCEPT ![s].lost = TRUE]
      BY <1>3 DEF Heartbeat
    <3>2. \A q \in Slices : task[q] \in [pc : TaskPCs, entry : ALL_ENTRIES \cup {"none"},
             run : MaybeRun, owner : Owners, wake : WakeRows,
             signal : {"none", "live", "aborted"}, reason : ROW_REASONS,
             mine : BOOLEAN, lost : BOOLEAN]
      BY DEF Inv, TypeOK, TaskOK, Tasks
    <3>3. task \in [Slices -> Tasks]
      BY DEF Inv, TypeOK, TaskOK
    <3>. QED
      BY <3>1, <3>2, <3>3
  <2>. QED
    BY <1>3, <2>1 DEF Heartbeat, Inv, References, Born
<1>. QED
  BY <1>1, <1>2, <1>3

LEMMA OperatorRefs ==
  ASSUME Inv, RowStep, OperatorAsks \/ OperatorProceeds
  PROVE  References'
<1>1. \A s \in Slices : /\ task'[s].pc = task[s].pc /\ task'[s].run = task[s].run
                        /\ task'[s].wake = task[s].wake /\ task'[s].entry = task[s].entry
  <2>1. CASE SignalStop \/ AbortSignals \/ EditSignals
    BY <2>1 DEF SignalStop, AbortSignals, EditSignals, Signal, Inv, TypeOK, TaskOK, Tasks
  <2>. QED
    BY <2>1
    DEF OperatorAsks, PauseAsked, StopAsked, EditAsked, AcceptPlan, DecideApproval,
        OperatorProceeds, EnqueuePause, EnqueueStop, StopSession, StopRerouted, AbortReads,
        AbortCancelsWakes, AbortRejectsApprovals, AbortApplies, EditCancelsWakes,
        EditApplies, EditReconciles, memVars
<1>2. orphan' = orphan /\ wake' \in {NoWake, wake}
  BY StopDropsRefs
  DEF OperatorAsks, PauseAsked, StopAsked, EditAsked, AcceptPlan, DecideApproval,
      OperatorProceeds, EnqueuePause, EnqueueStop, SignalStop, StopSession, StopRerouted,
      AbortReads, AbortCancelsWakes, AbortRejectsApprovals, AbortSignals, AbortApplies,
      EditCancelsWakes, EditSignals, EditApplies, EditReconciles, memVars, rowVars
<1>3. \/ approval' \in {NoApproval, approval}
      \/ approval # NoApproval /\ approval'.run = approval.run
  BY StopDropsRefs
  DEF OperatorAsks, PauseAsked, StopAsked, EditAsked, AcceptPlan, DecideApproval,
      OperatorProceeds, EnqueuePause, EnqueueStop, SignalStop, StopSession, StopRerouted,
      AbortReads, AbortCancelsWakes, AbortRejectsApprovals, AbortSignals, AbortApplies,
      EditCancelsWakes, EditSignals, EditApplies, EditReconciles, RejectPending, NoApproval,
      rowVars, Inv, TypeOK, RowsOK
<1>4. op'.pc \notin {"idle", "session", "abort"} => op'.run \in Runs /\ Born(op'.run)
  <2>1. \A r \in ActiveRuns : r \in Runs /\ Born(r)
    BY DEF ActiveRuns, Active, Born, ACTIVE_OR_PAUSED_RUN_STATUSES, ACTIVE_RUN_STATUSES,
           PAUSED_RUN_STATUSES
  <2>2. op.pc \notin {"idle", "session", "abort"} => op.run \in Runs /\ Born(op.run)
    BY DEF Inv, TypeOK, MemoryOK, References
  <2>3. CASE OperatorAsks
    BY <2>1, <2>2, <2>3
    DEF OperatorAsks, PauseAsked, StopAsked, EditAsked, AcceptPlan, DecideApproval,
        Proceed, StopRoute, memVars
  <2>4. CASE OperatorProceeds
    BY <2>1, <2>2, <2>4
    DEF OperatorProceeds, EnqueuePause, EnqueueStop, SignalStop, StopSession, StopRerouted,
        AbortReads, AbortCancelsWakes, AbortRejectsApprovals, AbortSignals, AbortApplies,
        EditCancelsWakes, EditSignals, EditApplies, EditReconciles, Proceed, Done, IdleOp,
        StopRoute
  <2>. QED
    BY <2>3, <2>4
<1>5. \A r \in Runs : Born(r) => run'[r].st # "absent"
  BY BornStays
<1>6. /\ wake' # NoWake => run'[wake'.run].st # "absent"
      /\ orphan' # NoRun => run'[orphan'].st # "absent"
  BY <1>2, OldRefs
<1>7. approval' # NoApproval => run'[approval'.run].st # "absent"
  BY <1>3, <1>5, OldRefs DEF Inv, TypeOK, RowsOK, References
<1>8. ASSUME NEW s \in Slices
      PROVE  /\ task'[s].pc \in RunPCs => run'[task'[s].run].st # "absent"
             /\ task'[s].pc = "woken" => run'[task'[s].wake.run].st # "absent"
             /\ task'[s].pc \in {"asked", "prepare", "commit"} =>
                  task'[s].entry \in Entries \cap {"start", "recover"}
  <2>1. task[s].pc = "woken" => task[s].wake.run \in Runs
    BY DEF Inv, TypeOK, TaskOK, Tasks, WakeRows
  <2>. QED
    BY <1>1, <1>5, <2>1 DEF Inv, TypeOK, TaskOK, References
<1>. QED
  BY <1>4, <1>5, <1>6, <1>7, <1>8 DEF References, Born

LEMMA InvInductive == Inv /\ [Next]_vars => Inv'
<1>. SUFFICES ASSUME Inv, [Next]_vars PROVE Inv'
  OBVIOUS
<1>1. TypeOK'
  BY StepOK DEF Inv
<1>2. RowStep
  BY NextStep
<1>3. References'
  <2>1. ASSUME NEW s \in Slices, Claim(s) \/ Drive(s) \/ Heartbeat(s)
        PROVE  References'
    BY <1>2, <2>1, SliceRefs
  <2>2. CASE OperatorAsks \/ OperatorProceeds
    BY <1>2, <2>2, OperatorRefs
  <2>3. CASE LeaseExpires \/ UNCHANGED vars
    BY <1>2, <2>3, OldRefs DEF LeaseExpires, memVars, vars, References, Born
  <2>4. CASE FindOrphan
    <3>1. orphan' \in Runs /\ run'[orphan'].st = "running"
      BY <2>4 DEF FindOrphan, Orphaned, rowVars
    <3>. QED
      BY <1>2, <2>4, <3>1, OldRefs DEF FindOrphan, rowVars, References, Born
  <2>5. CASE ReclaimOrphan
    <3>1. wake' \in {NoWake, wake} /\ approval' \in {NoApproval, approval}
      BY <2>5, StopDropsRefs DEF ReclaimOrphan
    <3>. QED
      BY <1>2, <2>5, <3>1, OldRefs DEF ReclaimOrphan, References, Born
  <2>6. CASE Restart
    BY <1>2, <2>6, OldRefs DEF Restart, IdleTask, NewTask, IdleOp, RunPCs, References, Born
  <2>. QED
    BY <2>1, <2>2, <2>3, <2>4, <2>5, <2>6 DEF Next, Step
<1>. QED
  BY <1>1, <1>3 DEF Inv

LEMMA InvInit == Init => Inv
<1>1. Init => References
  BY DEF Init, References, IdleTask, NewTask, IdleOp, RunPCs
<1>. QED
  BY <1>1, InitOK DEF Inv

LEMMA InvHolds == Spec => []Inv
BY InvInit, InvInductive, PTL DEF Spec

-----------------------------------------------------------------------------
(* What the operator may rely on.                                          *)

\* A finished run keeps its verdict, whatever races to write the row: every
\* writer of mission_runs.status compares it under the row's lock first
\* (updateStatusIfNotTerminal, startRunIfNotTerminal, the stop and claim
\* transactions), and only a run that exists is ever written.
THEOREM FinishedStaysFinished == Spec => TerminalFinal
<1>1. Inv /\ [Next]_vars =>
        [\A r \in Runs : Terminal(r) =>
           run'[r].st = run[r].st /\ run'[r].reason = run[r].reason]_vars
  <2>. SUFFICES ASSUME Inv, [Next]_vars, NEW r \in Runs, Terminal(r)
                PROVE  Kept(r)
    BY DEF Kept
  <2>1. ~Active(r) /\ Born(r)
    BY DEF Terminal, Active, Born, TERMINAL_RUN_STATUSES, ACTIVE_OR_PAUSED_RUN_STATUSES,
           ACTIVE_RUN_STATUSES, PAUSED_RUN_STATUSES
  <2>. QED
    BY <2>1, NextStep
    DEF RowStep, RowsIdle, RowsAccept, RowsBegin, RowsWake, RowsPark, RowsEnd, OthersKept
<1>. QED
  BY <1>1, InvHolds, PTL DEF Spec, TerminalFinal

LEMMA SessionStopKept ==
  ASSUME Inv, RowStep, SessionStopMeansNoRun
  PROVE  SessionStopMeansNoRun'
<1>. SUFFICES ASSUME OpenStop(NoRun)' PROVE ActiveRuns' = {}
  BY DEF SessionStopMeansNoRun
<1>1. ASSUME \A r \in Runs : Kept(r), ActiveRuns = {}
      PROVE  ActiveRuns' = {}
  BY <1>1 DEF Kept, ActiveRuns, Active
<1>2. ASSUME reqs' \subseteq reqs
      PROVE  OpenStop(NoRun) /\ ActiveRuns = {}
  BY <1>2 DEF OpenStop, IsStop, SessionStopMeansNoRun
<1>3. CASE RowsIdle
  BY <1>1, <1>2, <1>3 DEF RowsIdle, Retires
<1>4. CASE RowsAccept
  <2>1. CASE ActiveRuns = {}
    BY <1>1, <1>4, <2>1 DEF RowsAccept
  <2>2. CASE ActiveRuns # {}
    <3>1. PICK kind \in {"pause_after_step", "stop_terminal"}, r \in Runs : Enqueue(kind, r)
      BY <1>4, <2>2 DEF RowsAccept
    <3>2. OpenStop(NoRun)
      BY <3>1, ConstantsAssumption DEF Enqueue, OpenStop, IsStop
    <3>. QED
      BY <2>2, <3>2 DEF SessionStopMeansNoRun
  <2>. QED
    BY <2>1, <2>2
<1>5. ASSUME NEW r \in Runs, RowsBegin(r)
      PROVE  FALSE
  BY <1>2, <1>5 DEF RowsBegin
<1>6. ASSUME NEW r \in Runs, RowsWake(r) \/ RowsPark(r) \/ RowsEnd(r)
      PROVE  FALSE
  BY <1>2, <1>6 DEF RowsWake, RowsPark, RowsEnd, Retires, ActiveRuns
<1>. QED
  BY <1>3, <1>4, <1>5, <1>6 DEF RowStep

\* A stop of the session and an unfinished run never coexist: the boundary
\* inserts such a stop only when it sees no active run, and commitMissionStart
\* and prepareMissionRecover create none while it is open, all of them under
\* the session control lock.
THEOREM SessionStopExcludesRuns == Spec => []SessionStopMeansNoRun
<1>1. Init => SessionStopMeansNoRun
  BY DEF Init, SessionStopMeansNoRun, OpenStop
<1>2. Inv /\ SessionStopMeansNoRun /\ [Next]_vars => SessionStopMeansNoRun'
  BY NextStep, SessionStopKept
<1>. QED
  BY <1>1, <1>2, InvHolds, PTL DEF Spec

AtMostOneActive == \A q, r \in ActiveRuns : q = r

LEMMA OneActiveKept ==
  ASSUME "recover" \notin Entries, Inv, RowStep, AtMostOneActive
  PROVE  AtMostOneActive'
<1>1. ASSUME \A r \in Runs : Active(r)' => Active(r)
      PROVE  AtMostOneActive'
  BY <1>1 DEF AtMostOneActive, ActiveRuns
<1>2. \A r \in Runs : Kept(r) => (Active(r)' => Active(r))
  BY DEF Kept, Active
<1>3. ASSUME NEW r \in Runs, OthersKept(r), ActiveRuns = {} \/ Active(r)
      PROVE  AtMostOneActive'
  <2>1. CASE Active(r)
    BY <1>1, <1>2, <1>3, <2>1 DEF OthersKept
  <2>2. CASE ActiveRuns = {}
    BY <1>2, <1>3, <2>2 DEF OthersKept, AtMostOneActive, ActiveRuns
  <2>. QED
    BY <1>3, <2>1, <2>2
<1>. QED
  BY <1>1, <1>2, <1>3
  DEF RowStep, RowsIdle, RowsAccept, RowsBegin, RowsWake, RowsPark, RowsEnd

LEMMA OneActiveHolds ==
  ASSUME "recover" \notin Entries
  PROVE  Spec => []AtMostOneActive
<1>1. Init => AtMostOneActive
  BY DEF Init, NewRun, AtMostOneActive, ActiveRuns, Active, ACTIVE_OR_PAUSED_RUN_STATUSES,
         ACTIVE_RUN_STATUSES, PAUSED_RUN_STATUSES
<1>2. Inv /\ AtMostOneActive /\ [Next]_vars => AtMostOneActive'
  BY NextStep, OneActiveKept
<1>. QED
  BY <1>1, <1>2, InvHolds, PTL DEF Spec

\* Without mission recovery, whose transaction does not look for an active run
\* (the run TwoRecoveries), a session never has two unfinished runs: the start
\* looks for one under the session control lock.
THEOREM OneRunWithoutRecovery ==
  ASSUME "recover" \notin Entries
  PROVE  Spec => []OneActiveRun
<1>1. AtMostOneActive => OneActiveRun
  <2>. SUFFICES ASSUME AtMostOneActive PROVE OneActiveRun
    OBVIOUS
  <2>1. CASE ActiveRuns = {}
    BY <2>1, FS_EmptySet DEF OneActiveRun
  <2>2. ASSUME NEW r \in ActiveRuns
        PROVE  OneActiveRun
    <3>1. ActiveRuns = {r}
      BY <2>2 DEF AtMostOneActive
    <3>2. Cardinality({r}) = 1
      BY FS_Singleton
    <3>. QED
      BY <3>1, <3>2 DEF OneActiveRun
  <2>. QED
    BY <2>1, <2>2
<1>. QED
  BY <1>1, OneActiveHolds, PTL

\* No pause is queued or on its way.
PauseFree == op.pc # "pause" /\ \A q \in reqs : q.kind # "pause_after_step"

LEMMA PauseFreeHolds ==
  ASSUME "pause" \notin Commands
  PROVE  Spec => []PauseFree
<1>1. Init => PauseFree
  BY DEF Init, PauseFree, IdleOp
<1>2. Inv /\ PauseFree /\ [Next]_vars => PauseFree'
  <2>. SUFFICES ASSUME Inv, PauseFree, [Next]_vars PROVE PauseFree'
    OBVIOUS
  <2>1. op'.pc # "pause"
    <3>1. ASSUME NEW s \in Slices, Claim(s) \/ Drive(s) \/ Heartbeat(s)
          PROVE  op' = op
      BY <3>1, ClaimMoves, BeginMoves, LoopMoves, TurnMoves, FinalizeMoves
      DEF Drive, Heartbeat, EntryMove, RunnerMove
    <3>2. CASE OperatorAsks
      BY <3>2
      DEF OperatorAsks, PauseAsked, Ask, StopAsked, EditAsked, AcceptPlan, DecideApproval,
          Proceed, StopRoute, memVars, PauseFree
    <3>3. CASE OperatorProceeds
      BY <3>3
      DEF OperatorProceeds, EnqueuePause, EnqueueStop, SignalStop, StopSession, StopRerouted,
          AbortReads, AbortCancelsWakes, AbortRejectsApprovals, AbortSignals, AbortApplies,
          EditCancelsWakes, EditSignals, EditApplies, EditReconciles, Proceed, Done, IdleOp,
          StopRoute, PauseFree
    <3>4. CASE LeaseExpires \/ FindOrphan \/ ReclaimOrphan \/ Restart \/ UNCHANGED vars
      BY <3>4
      DEF LeaseExpires, FindOrphan, ReclaimOrphan, Restart, IdleOp, memVars, vars, PauseFree
    <3>. QED
      BY <3>1, <3>2, <3>3, <3>4 DEF Next, Step, PauseFree
  <2>2. \A q \in reqs' : q.kind # "pause_after_step"
    <3>1. reqs' \subseteq reqs => \A q \in reqs' : q.kind # "pause_after_step"
      BY DEF PauseFree
    <3>2. RowsAccept => \A q \in reqs' : q.kind # "pause_after_step"
      BY DEF RowsAccept, Enqueue, PauseFree
    <3>3. RowsIdle => reqs' \subseteq reqs
      BY DEF RowsIdle, Retires
    <3>4. \A r \in Runs :
            RowsBegin(r) \/ RowsWake(r) \/ RowsPark(r) \/ RowsEnd(r) => reqs' \subseteq reqs
      BY DEF RowsBegin, RowsWake, RowsPark, RowsEnd, Retires
    <3>. QED
      BY <3>1, <3>2, <3>3, <3>4, NextStep DEF RowStep
  <2>. QED
    BY <2>1, <2>2 DEF PauseFree
<1>. QED
  BY <1>1, <1>2, InvHolds, PTL DEF Spec

\* Whatever parks a run - the turn loop, the finalizer, an approval, the
\* reclaim pass - gates on the operator's stop in the same transaction.  The
\* one park that does not is the operator's own pause, which the loop applies
\* when it is the older of two open requests.
THEOREM ParksAreGated ==
  ASSUME "pause" \notin Commands
  PROVE  Spec => ParkConsumesStop
<1>1. Inv /\ PauseFree /\ [Next]_vars =>
        [\A r \in Runs :
           run[r].st = "running" /\ run'[r].st \in PAUSED_RUN_STATUSES => ~OpenStop(r)]_vars
  <2>. SUFFICES ASSUME Inv, PauseFree, [Next]_vars, NEW r \in Runs,
                       run[r].st = "running", run'[r].st \in PAUSED_RUN_STATUSES
                PROVE  ~OpenStop(r)
    OBVIOUS
  <2>1. ~Kept(r)
    BY DEF Kept, PAUSED_RUN_STATUSES
  <2>2. PICK q \in Runs : RowsBegin(q) \/ RowsWake(q) \/ RowsPark(q) \/ RowsEnd(q)
    BY <2>1, NextStep DEF RowStep, RowsIdle, RowsAccept
  <2>3. q = r
    BY <2>1, <2>2 DEF RowsBegin, RowsWake, RowsPark, RowsEnd, OthersKept
  <2>4. RowsPark(r)
    BY <2>2, <2>3
    DEF RowsBegin, RowsWake, RowsEnd, PAUSED_RUN_STATUSES, TERMINAL_RUN_STATUSES
  <2>. QED
    BY <2>4 DEF RowsPark, PauseFree
<1>. QED
  BY <1>1, InvHolds, PauseFreeHolds, PTL DEF Spec, ParkConsumesStop
=============================================================================
