----------------------- MODULE MissionExclusionProofs ------------------------
(***************************************************************************)
(* The runner lease keeps a run to one slice at a time, and what follows:  *)
(* the reclaim pass spares the driven, no card outlives its run, mission   *)
(* and run agree.  That takes more than the lease: heartbeats in time,     *)
(* owner ids nobody shares, and starts that still hold the lease when they *)
(* create their run.                                                       *)
(***************************************************************************)
EXTENDS MissionSafetyProofs

\* The owner id a slice mints for its own claim.
Mine(s) == <<"fresh", s>>

HoldsLease(s) ==
  /\ lease = [owner |-> Mine(s), fresh |-> TRUE]
  /\ task[s].owner = Mine(s) /\ ~task[s].lost

\* Leases do not lapse under a living holder, and the two entry points that
\* derive their owner id from the run (ingress.ts, recover-prepare.ts) are not
\* used.
Punctual == ~LateHeartbeats /\ Entries \cap {"preempt", "recover"} = {}

\* commitMissionStart does not compare the lease's owner.  This is what it
\* would guarantee if it did.
StartsHoldTheLease ==
  [][\A s \in Slices :
       task[s].pc = "commit" /\ task'[s].pc = "registering" => HoldsLease(s)]_vars

\* So far the session has had one run at most.
FirstRun == \A q, r \in Runs : Born(q) /\ Born(r) => q = r

-----------------------------------------------------------------------------
(* The inductive invariant.                                                *)

OwnersMinted ==
  \A s \in Slices : task[s].owner \in {NoOwner, Mine(s)} /\ task[s].pc # "message"

\* A run that is not over is driven under the lease ...
DriversHold == \A s \in Slices : Engaged(s) /\ ~Terminal(task[s].run) => HoldsLease(s)

\* ... and by one slice, which may outlive it.
OnePerRun ==
  \A s, t \in Slices : Engaged(s) /\ Engaged(t) /\ task[s].run = task[t].run => s = t

\* A run whose card is pending is parked on it, and the slice that raised the
\* card has nothing left to write.
Asking(s) == task[s].pc = "finalize" /\ task[s].reason = "approval_required"

CardParked ==
  approval.st = "pending" =>
    /\ run[approval.run].st = "paused_approval"
    /\ \A s \in Slices : Engaged(s) /\ task[s].run = approval.run => Asking(s)

Exclusion ==
  /\ Inv /\ AtMostOneActive
  /\ OwnersMinted /\ DriversHold /\ OnePerRun /\ CardParked

\* Before the first run, nothing takes the lease from a start.
Prepared ==
  (\A r \in Runs : ~Born(r)) =>
    \A s \in Slices : task[s].pc \in {"prepare", "commit"} => HoldsLease(s)

-----------------------------------------------------------------------------
(* How a slice changes itself and the lease.                               *)

SameHolder(s) ==
  task'[s].run = task[s].run /\ task'[s].owner = task[s].owner /\ task'[s].lost = task[s].lost

\* The lease goes with a run that is stopped.
LeaseStopped(r) == lease' = NoLease /\ Active(r) /\ run'[r].st \in TERMINAL_RUN_STATUSES

\* A slice past its claim keeps what it holds; it writes no run but its own.
RunnerHold(s) ==
  /\ task[s].pc \in RunPCs
  /\ \A q \in Slices \ {s} : task'[q] = task[q]
  /\ SameHolder(s)
  /\ Engaged(s)' => Engaged(s)
  /\ task'[s].pc \notin {"message", "prepare", "commit"}
  /\ \A q \in Runs \ {task[s].run} : run'[q] = run[q]
  /\ lease' = lease \/ LeaseStopped(task[s].run)

LEMMA GotoHolds ==
  ASSUME Inv, NEW s \in Slices, NEW pc, Goto(s, pc)
  PROVE  SameHolder(s) /\ task'[s].pc = pc /\ task'[s].reason = task[s].reason
BY DEF Inv, TypeOK, TaskOK, Tasks, Goto, SameHolder

LEMMA FinishHolds ==
  ASSUME Inv, NEW s \in Slices, NEW reason, Finish(s, reason)
  PROVE  SameHolder(s) /\ task'[s].pc = "finalize" /\ task'[s].reason = reason
BY DEF Inv, TypeOK, TaskOK, Tasks, Finish, SameHolder

LEMMA ParkWritesOne ==
  ASSUME Inv, NEW r \in Runs, NEW status, NEW reason, Park(r, status, reason)
  PROVE  \A q \in Runs \ {r} : run'[q] = run[q]
BY DEF Inv, TypeOK, RunOK, Park

LEMMA UserStopHolds ==
  ASSUME Inv, NEW r \in Runs, Born(r), NEW missionTo, ApplyUserStop(r, missionTo)
  PROVE  /\ \A q \in Runs \ {r} : run'[q] = run[q]
         /\ lease' = lease \/ LeaseStopped(r)
<1>1. CASE Terminal(r)
  BY <1>1 DEF ApplyUserStop
<1>2. CASE ~Terminal(r)
  <2>1. Park(r, "stopped", "user_stopped") /\ lease' = NoLease
    BY <1>2 DEF ApplyUserStop, Park
  <2>2. Active(r) /\ run'[r].st = "stopped"
    BY <1>2, <2>1, LiveIsActive, WriteKeepsOthers DEF Inv, TypeOK
  <2>. QED
    BY <2>1, <2>2, ParkWritesOne DEF LeaseStopped, TERMINAL_RUN_STATUSES
<1>. QED
  BY <1>1, <1>2

LEMMA LandGatedStopHolds ==
  ASSUME Inv, NEW r \in Runs, Born(r), LandGatedStop(r)
  PROVE  /\ \A q \in Runs \ {r} : run'[q] = run[q]
         /\ lease' = lease \/ LeaseStopped(r)
BY UserStopHolds DEF LandGatedStop

LEMMA GatedParkHolds ==
  ASSUME Inv, NEW r \in Runs, Born(r), NEW status, NEW reason, GatedPark(r, status, reason)
  PROVE  /\ \A q \in Runs \ {r} : run'[q] = run[q]
         /\ lease' = lease \/ LeaseStopped(r)
BY LandGatedStopHolds, ParkWritesOne DEF GatedPark

LEMMA LoopHolds ==
  ASSUME Inv, NEW s \in Slices,
         \/ ReadRun(s) \/ PrepareFails(s) \/ Register(s) \/ StartRun(s)
         \/ EntryAborted(s) \/ EntryObserves(s) \/ EntryExhausted(s)
  PROVE  RunnerHold(s)
<1>. DEFINE r == MyRun(s)
<1>0. RunnerMove(s) /\ Engaged(s) /\ r \in Runs /\ Born(r)
  BY LoopMoves, HoldsRun
  DEF RunnerMove, Engaged, MyRun, ReadRun, PrepareFails, Register, StartRun, EntryAborted,
      EntryObserves, EntryExhausted
<1>1. SameHolder(s) /\ task'[s].pc # "message"
  <2>1. CASE ReadRun(s) \/ PrepareFails(s) \/ StartRun(s)
    BY <2>1, GotoHolds DEF ReadRun, PrepareFails, StartRun
  <2>2. CASE EntryAborted(s) \/ EntryExhausted(s)
    BY <2>2, FinishHolds DEF EntryAborted, EntryExhausted
  <2>3. CASE Register(s)
    BY <2>3 DEF Register, Inv, TypeOK, TaskOK, Tasks, SameHolder
  <2>4. CASE EntryObserves(s)
    BY <2>4, GotoHolds, FinishHolds DEF EntryObserves
  <2>. QED
    BY <2>1, <2>2, <2>3, <2>4
<1>2. /\ \A q \in Runs \ {r} : run'[q] = run[q]
      /\ lease' = lease \/ LeaseStopped(r)
  <2>1. CASE \/ ReadRun(s) \/ PrepareFails(s) \/ Register(s) \/ EntryAborted(s)
             \/ EntryExhausted(s)
    BY <2>1 DEF ReadRun, PrepareFails, Register, EntryAborted, EntryExhausted, rowVars
  <2>2. CASE StartRun(s)
    <3>1. run' = run \/ Park(r, "running", "none")
      BY <2>2 DEF StartRun, Park
    <3>. QED
      BY <1>0, <2>2, <3>1, ParkWritesOne DEF StartRun
  <2>3. CASE EntryObserves(s)
    BY <1>0, <2>3, ParkWritesOne, UserStopHolds DEF EntryObserves
  <2>. QED
    BY <2>1, <2>2, <2>3
<1>. QED
  BY <1>0, <1>1, <1>2 DEF RunnerHold, RunnerMove, MyRun

LEMMA TurnHolds ==
  ASSUME Inv, NEW s \in Slices, Turn(s)
  PROVE  RunnerHold(s)
<1>. DEFINE r == MyRun(s)
<1>0. RunnerMove(s) /\ Engaged(s) /\ r \in Runs /\ Born(r)
  BY TurnMoves, HoldsRun
  DEF RunnerMove, Engaged, MyRun, Turn, InTurn, TurnAborted, TurnContinues, TurnMutates,
      TurnDefers, ParkDeferred, TurnAsksApproval, TurnWritesPlan, ParkPlanned, TurnEnds,
      TurnThrows
<1>1. SameHolder(s) /\ task'[s].pc # "message"
  <2>1. CASE TurnContinues(s) \/ TurnDefers(s) \/ TurnWritesPlan(s) \/ TurnThrows(s)
    BY <2>1, GotoHolds DEF TurnContinues, TurnDefers, TurnWritesPlan, TurnThrows
  <2>2. CASE \/ TurnAborted(s) \/ ParkDeferred(s) \/ TurnAsksApproval(s)
             \/ ParkPlanned(s) \/ TurnEnds(s)
    BY <2>2, FinishHolds
    DEF TurnAborted, ParkDeferred, TurnAsksApproval, ParkPlanned, TurnEnds
  <2>3. CASE TurnMutates(s)
    BY <2>3 DEF TurnMutates, InTurn, SameHolder
  <2>. QED
    BY <2>1, <2>2, <2>3 DEF Turn
<1>2. /\ \A q \in Runs \ {r} : run'[q] = run[q]
      /\ lease' = lease \/ LeaseStopped(r)
  <2>1. CASE \/ TurnAborted(s) \/ TurnContinues(s) \/ TurnDefers(s) \/ TurnWritesPlan(s)
             \/ TurnEnds(s) \/ TurnThrows(s)
    BY <2>1
    DEF TurnAborted, TurnContinues, TurnDefers, TurnWritesPlan, TurnEnds, TurnThrows, rowVars
  <2>2. CASE TurnMutates(s)
    BY <2>2 DEF TurnMutates, Inv, TypeOK, RunOK
  <2>3. CASE ParkDeferred(s) \/ ParkPlanned(s)
    BY <1>0, <2>3, GatedParkHolds DEF ParkDeferred, ParkPlanned
  <2>4. CASE TurnAsksApproval(s)
    BY <1>0, <2>4, LandGatedStopHolds, ParkWritesOne DEF TurnAsksApproval
  <2>. QED
    BY <2>1, <2>2, <2>3, <2>4 DEF Turn
<1>. QED
  BY <1>0, <1>1, <1>2 DEF RunnerHold, RunnerMove, MyRun

LEMMA FinalizeHolds ==
  ASSUME Inv, NEW s \in Slices, Finalize(s) \/ Unregister(s)
  PROVE  RunnerHold(s)
<1>. DEFINE r == MyRun(s)
<1>0. RunnerMove(s) /\ r \in Runs /\ Born(r)
  BY FinalizeMoves, HoldsRun DEF RunnerMove, MyRun
<1>1. SameHolder(s) /\ task'[s].pc # "message" /\ (Engaged(s)' => Engaged(s))
  <2>1. CASE \/ FinalizeParked(s) \/ FinalizeUserStop(s) \/ FinalizeOutcome(s)
             \/ WriteMissionOutcome(s) \/ ParkContinuation(s) \/ TakeWakeBack(s)
             \/ FinalizeReview(s) \/ ThrewAfterAbort(s) \/ Reconcile(s)
    BY <2>1, GotoHolds
    DEF FinalizeParked, FinalizeUserStop, FinalizeOutcome, WriteMissionOutcome, Engaged,
        ParkContinuation, TakeWakeBack, FinalizeReview, ThrewAfterAbort, Reconcile
  <2>2. CASE PersistErrorPause(s) \/ EnqueueRetryWake(s)
    BY <2>2, GotoHolds DEF PersistErrorPause, EnqueueRetryWake, AfterThrow, Engaged
  <2>3. CASE FinalizeContinuation(s) \/ Unregister(s)
    BY <2>3
    DEF FinalizeContinuation, Finalizing, Unregister, Inv, TypeOK, TaskOK, Tasks, SameHolder,
        Engaged
  <2>. QED
    BY <2>1, <2>2, <2>3 DEF Finalize
<1>2. /\ \A q \in Runs \ {r} : run'[q] = run[q]
      /\ lease' = lease \/ LeaseStopped(r)
  <2>1. CASE \/ FinalizeParked(s) \/ WriteMissionOutcome(s) \/ FinalizeContinuation(s)
             \/ TakeWakeBack(s) \/ EnqueueRetryWake(s) \/ Reconcile(s) \/ Unregister(s)
    BY <2>1
    DEF FinalizeParked, WriteMissionOutcome, FinalizeContinuation, TakeWakeBack,
        EnqueueRetryWake, Reconcile, Unregister, rowVars
  <2>2. CASE FinalizeUserStop(s) \/ ThrewAfterAbort(s)
    BY <1>0, <2>2, UserStopHolds DEF FinalizeUserStop, ThrewAfterAbort
  <2>3. CASE FinalizeOutcome(s)
    BY <1>0, <2>3, ParkWritesOne DEF FinalizeOutcome
  <2>4. CASE ParkContinuation(s) \/ FinalizeReview(s)
    BY <1>0, <2>4, GatedParkHolds DEF ParkContinuation, FinalizeReview
  <2>5. CASE PersistErrorPause(s)
    <3>1. CASE GatedPark(r, "paused_error", "provider_error")
      BY <1>0, <3>1, GatedParkHolds
    <3>2. CASE /\ lease' = lease
               /\ run' = [run EXCEPT ![r].st = "paused_error",
                                     ![r].reason = "provider_error",
                                     ![r].retries = @ + 1]
      BY <1>0, <3>2 DEF Inv, TypeOK, RunOK
    <3>. QED
      BY <2>5, <3>1, <3>2 DEF PersistErrorPause
  <2>. QED
    BY <2>1, <2>2, <2>3, <2>4, <2>5 DEF Finalize
<1>. QED
  BY <1>0, <1>1, <1>2 DEF RunnerHold, RunnerMove, MyRun

RunnerAct(s) ==
  \/ ReadRun(s) \/ PrepareFails(s) \/ Register(s) \/ StartRun(s)
  \/ EntryAborted(s) \/ EntryObserves(s) \/ EntryExhausted(s)
  \/ Turn(s) \/ Finalize(s) \/ Unregister(s)

LEMMA RunnerHolds ==
  ASSUME Inv, NEW s \in Slices, RunnerAct(s)
  PROVE  RunnerHold(s)
BY LoopHolds, TurnHolds, FinalizeHolds DEF RunnerAct

\* A slice that waits for its card, or has finished with its run, writes no run.
LEMMA SpentRunner ==
  ASSUME Inv, NEW s \in Slices, RunnerAct(s), Asking(s) \/ ~Engaged(s)
  PROVE  run' = run /\ ~Engaged(s)'
<1>1. /\ ~(ReadRun(s) \/ PrepareFails(s) \/ Register(s) \/ StartRun(s))
      /\ ~(EntryAborted(s) \/ EntryObserves(s) \/ EntryExhausted(s))
  BY DEF Asking, Engaged, ReadRun, PrepareFails, Register, StartRun, EntryAborted,
         EntryObserves, EntryExhausted
<1>2. ~Turn(s)
  BY DEF Asking, Engaged, Turn, InTurn, TurnAborted, TurnContinues, TurnMutates, TurnDefers,
         ParkDeferred, TurnAsksApproval, TurnWritesPlan, ParkPlanned, TurnEnds, TurnThrows
<1>3. CASE FinalizeParked(s) \/ WriteMissionOutcome(s) \/ TakeWakeBack(s) \/ Reconcile(s)
  BY <1>3, GotoHolds
  DEF FinalizeParked, WriteMissionOutcome, TakeWakeBack, Reconcile, Engaged, rowVars
<1>4. CASE Unregister(s)
  BY <1>4 DEF Unregister, Engaged, Inv, TypeOK, TaskOK, Tasks, rowVars
<1>5. CASE \/ FinalizeUserStop(s) \/ FinalizeOutcome(s) \/ FinalizeContinuation(s)
           \/ ParkContinuation(s) \/ FinalizeReview(s) \/ ThrewAfterAbort(s)
           \/ PersistErrorPause(s) \/ EnqueueRetryWake(s)
  BY <1>5
  DEF Asking, Engaged, Finalizing, FinalizeUserStop, FinalizeOutcome, FinalizeContinuation,
      ParkContinuation, FinalizeReview, ThrewAfterAbort, PersistErrorPause,
      EnqueueRetryWake, BUSINESS_OUTCOMES, CONTINUABLE_STOPS, REVIEW_STOPS
<1>. QED
  BY <1>1, <1>2, <1>3, <1>4, <1>5 DEF RunnerAct, Finalize

LEMMA StopRejectsCard ==
  ASSUME NEW r, \/ \E m : ApplyUserStop(r, m)
                \/ LandGatedStop(r)
                \/ \E status, reason : GatedPark(r, status, reason)
  PROVE  approval'.st = "pending" => approval' = approval
BY DEF ApplyUserStop, LandGatedStop, GatedPark, RejectPending, NoApproval

\* The only slice that leaves a new card parks its run on it.
LEMMA NewCard ==
  ASSUME Inv, NEW s \in Slices, RunnerAct(s), approval'.st = "pending", approval' # approval
  PROVE  /\ Engaged(s) /\ Asking(s)'
         /\ approval'.run = task[s].run /\ run'[task[s].run].st = "paused_approval"
<1>1. CASE TurnAsksApproval(s)
  <2>1. ~Gated(MyRun(s))
    BY <1>1, StopRejectsCard DEF TurnAsksApproval
  <2>2. /\ Park(MyRun(s), "paused_approval", "approval_required")
        /\ approval' = [st |-> "pending", run |-> MyRun(s)]
        /\ Finish(s, "approval_required") /\ task[s].pc = "turn"
    BY <1>1, <2>1 DEF TurnAsksApproval, InTurn
  <2>3. MyRun(s) \in Runs
    BY <2>2, HoldsRun DEF RunPCs, TaskPCs, MyRun
  <2>. QED
    BY <2>2, <2>3, FinishHolds, WriteKeepsOthers
    DEF Asking, Engaged, MyRun, Inv, TypeOK
<1>2. CASE \/ ReadRun(s) \/ PrepareFails(s) \/ Register(s) \/ StartRun(s)
           \/ EntryAborted(s) \/ EntryObserves(s) \/ EntryExhausted(s) \/ Unregister(s)
  BY <1>2, StopRejectsCard
  DEF ReadRun, PrepareFails, Register, StartRun, EntryAborted, EntryObserves,
      EntryExhausted, Unregister, rowVars
<1>3. CASE Turn(s) /\ ~TurnAsksApproval(s)
  BY <1>3, StopRejectsCard
  DEF Turn, TurnAborted, TurnContinues, TurnMutates, TurnDefers, ParkDeferred,
      TurnWritesPlan, ParkPlanned, TurnEnds, TurnThrows, rowVars
<1>4. CASE Finalize(s)
  BY <1>4, StopRejectsCard
  DEF Finalize, FinalizeParked, FinalizeUserStop, FinalizeOutcome, WriteMissionOutcome,
      FinalizeContinuation, ParkContinuation, TakeWakeBack, FinalizeReview,
      ThrewAfterAbort, PersistErrorPause, EnqueueRetryWake, Reconcile, rowVars
<1>. QED
  BY <1>1, <1>2, <1>3, <1>4 DEF RunnerAct

-----------------------------------------------------------------------------
(* How a slice comes by the lease, and how it gives it back.               *)

Starting(s) == task[s].pc \in {"prepare", "commit"}

StaysOut(s) ==
  lease' = lease /\ ~Engaged(s)' /\ (Starting(s)' => Starting(s) /\ SameHolder(s))

Seizes(s) ==
  /\ Claimable(Mine(s)) /\ lease' = [owner |-> Mine(s), fresh |-> TRUE]
  /\ task'[s].owner = Mine(s) /\ ~task'[s].lost /\ task'[s].pc \in {"prepare", "claimed"}
  /\ Engaged(s)' => Active(task'[s].run) /\ run'[task'[s].run].st = "running"

Creates(s) ==
  /\ task[s].pc = "commit" /\ task'[s].pc = "registering"
  /\ task'[s].owner = task[s].owner /\ task'[s].lost = task[s].lost
  /\ ~Born(task'[s].run) /\ run'[task'[s].run].st = "running" /\ lease' = lease

GivesBack(s) ==
  /\ lease.owner = task[s].owner /\ ~task[s].lost
  /\ lease' = NoLease /\ task'[s] = IdleTask

EntryHold(s) ==
  /\ \A q \in Slices \ {s} : task'[q] = task[q]
  /\ task'[s].owner \in {NoOwner, Mine(s)} /\ task'[s].pc \notin {"message", "outcome"}
  /\ approval' \in {NoApproval, approval}
  /\ \/ approval' = NoApproval
     \/ \A q \in Runs : run[q].st = "paused_approval" => run'[q] = run[q]
  /\ StaysOut(s) \/ Seizes(s) \/ Creates(s) \/ GivesBack(s)

LEMMA ClaimRunHolds ==
  ASSUME Inv, NEW s \in Slices, NEW entry, NEW r \in Runs,
         NEW from \in SUBSET (ACTIVE_OR_PAUSED_RUN_STATUSES \ {"paused_approval"}),
         NEW retires, ClaimRun(s, entry, r, Mine(s), from, retires)
  PROVE  EntryHold(s)
<1>1. /\ task'[s] = NewTask("claimed", entry, r, Mine(s), NoWake)
      /\ \A q \in Slices \ {s} : task'[q] = task[q]
  BY DEF ClaimRun, Seize, Inv, TypeOK, TaskOK
<1>2. Seizes(s)
  BY <1>1 DEF ClaimRun, Seize, Seizes, NewTask, Active, Inv, TypeOK, RunOK
<1>3. \A q \in Runs : run[q].st = "paused_approval" => run'[q] = run[q]
  BY DEF ClaimRun, Inv, TypeOK, RunOK
<1>. QED
  BY <1>1, <1>2, <1>3 DEF EntryHold, ClaimRun, NewTask

LEMMA QuitHolds ==
  ASSUME Inv, NEW s \in Slices, Quit(s), lease' = lease, run' = run, approval' = approval
  PROVE  EntryHold(s)
BY DEF Quit, IdleTask, NewTask, EntryHold, StaysOut, Engaged, Starting, Inv, TypeOK, TaskOK

LEMMA ClaimHolds ==
  ASSUME Punctual, Inv, OwnersMinted, NEW s \in Slices, Claim(s)
  PROVE  EntryHold(s)
<1>. USE DEF Inv, TypeOK, TaskOK
<1>1. CASE AskToBegin(s)
  BY <1>1 DEF AskToBegin, NewTask, EntryHold, StaysOut, Engaged, Starting, rowVars
<1>2. CASE ReadAcceptedPlan(s)
  BY <1>2 DEF ReadAcceptedPlan, NewTask, EntryHold, StaysOut, Engaged, Starting, rowVars
<1>3. CASE ResumeClaim(s)
  BY <1>3, ClaimRunHolds
  DEF ResumeClaim, ActiveRuns, Mine, ACTIVE_OR_PAUSED_RUN_STATUSES, ACTIVE_RUN_STATUSES,
      PAUSED_RUN_STATUSES
<1>4. CASE RetryClaim(s)
  BY <1>4, ClaimRunHolds
  DEF RetryClaim, ActiveRuns, Mine, ACTIVE_OR_PAUSED_RUN_STATUSES, ACTIVE_RUN_STATUSES,
      PAUSED_RUN_STATUSES
<1>5. CASE ApprovalClaim(s)
  <2>1. approval.run \in Runs /\ Active(approval.run)
    BY <1>5
    DEF ApprovalClaim, RowsOK, NoApproval, Active, APPROVAL_RESUME_CLAIMABLE_RUN_STATUSES,
        ACTIVE_OR_PAUSED_RUN_STATUSES, ACTIVE_RUN_STATUSES, PAUSED_RUN_STATUSES
  <2>2. Seizes(s)
    BY <1>5, <2>1 DEF ApprovalClaim, Seize, NewTask, Seizes, Mine, RunOK
  <2>. QED
    BY <1>5, <2>2 DEF ApprovalClaim, Seize, NewTask, EntryHold, Mine
<1>6. CASE WakeDue(s)
  BY <1>6 DEF WakeDue, NewTask, EntryHold, StaysOut, Engaged, Starting
<1>7. CASE UserMessage(s)
  BY <1>7 DEF UserMessage, Punctual
<1>. QED
  BY <1>1, <1>2, <1>3, <1>4, <1>5, <1>6, <1>7 DEF Claim

LEMMA BeginHolds ==
  ASSUME Punctual, Inv, OwnersMinted, NEW s \in Slices,
         \/ StartClaim(s) \/ RecoverClaim(s) \/ RecheckActive(s) \/ CreateRun(s)
         \/ ResumeAccepted(s) \/ WakeClaim(s) \/ PreemptClaim(s) \/ Release(s)
  PROVE  EntryHold(s)
<1>1. CASE StartClaim(s)
  <2>1. CASE Seize(s, task[s].entry, NoRun, Mine(s), "prepare")
    <3>1. /\ task'[s] = NewTask("prepare", task[s].entry, NoRun, Mine(s), NoWake)
          /\ \A q \in Slices \ {s} : task'[q] = task[q]
      BY <2>1 DEF Seize, Inv, TypeOK, TaskOK
    <3>. QED
      BY <1>1, <2>1, <3>1
      DEF StartClaim, ClaimSession, Seize, Seizes, NewTask, EntryHold, Engaged
  <2>2. CASE Quit(s) /\ UNCHANGED lease
    BY <1>1, <2>2, QuitHolds DEF StartClaim, ClaimSession
  <2>. QED
    BY <1>1, <2>1, <2>2 DEF StartClaim, ClaimSession, Mine
<1>2. CASE RecoverClaim(s) \/ PreemptClaim(s)
  BY <1>2 DEF RecoverClaim, PreemptClaim, Punctual, Inv, References, OwnersMinted
<1>3. CASE RecheckActive(s)
  <2>1. SameHolder(s) /\ task'[s].pc \in {"commit", "release"}
    BY <1>3, GotoHolds DEF RecheckActive
  <2>2. \A q \in Slices \ {s} : task'[q] = task[q]
    BY <1>3, BeginMoves DEF EntryMove
  <2>. QED
    BY <1>3, <2>1, <2>2
    DEF RecheckActive, OwnersMinted, EntryHold, StaysOut, Engaged, Starting, SameHolder,
        rowVars
<1>4. CASE CreateRun(s)
  <2>0. EntryMove(s)
    BY <1>4, BeginMoves
  <2>1. CASE Goto(s, "release") /\ run' = run /\ lease' = lease
    <3>1. SameHolder(s) /\ task'[s].pc = "release"
      BY <2>1, GotoHolds
    <3>. QED
      BY <2>0, <2>1, <3>1
      DEF EntryMove, OwnersMinted, EntryHold, StaysOut, Engaged, Starting, SameHolder
  <2>2. ASSUME NEW r \in Runs, run[r].st = "absent", run' = [run EXCEPT ![r].st = "running"],
               task' = [task EXCEPT ![s].pc = "registering", ![s].run = r], lease' = lease
        PROVE  EntryHold(s)
    <3>1. /\ task'[s].pc = "registering" /\ task'[s].run = r
          /\ task'[s].owner = task[s].owner /\ task'[s].lost = task[s].lost
      BY <2>2 DEF Inv, TypeOK, TaskOK, Tasks
    <3>2. /\ run'[r].st = "running"
          /\ \A q \in Runs : run[q].st = "paused_approval" => run'[q] = run[q]
      BY <2>2 DEF Inv, TypeOK, RunOK
    <3>3. Creates(s)
      BY <1>4, <2>2, <3>1, <3>2 DEF CreateRun, Creates, Born
    <3>. QED
      BY <2>0, <3>1, <3>2, <3>3 DEF EntryMove, OwnersMinted, EntryHold
  <2>. QED
    BY <1>4, <2>1, <2>2 DEF CreateRun, ApplySessionStop
<1>5. CASE ResumeAccepted(s)
  <2>1. task[s].run \in Runs
    BY <1>5, HoldsRun DEF ResumeAccepted, RunPCs, TaskPCs
  <2>. QED
    BY <1>5, <2>1, ClaimRunHolds, QuitHolds
    DEF ResumeAccepted, Mine, rowVars, ACTIVE_OR_PAUSED_RUN_STATUSES, PAUSED_RUN_STATUSES
<1>6. CASE WakeClaim(s)
  <2>1. task[s].wake.run \in Runs
    BY <1>6 DEF WakeClaim, Inv, TypeOK, TaskOK, Tasks, WakeRows
  <2>2. Wakeable(task[s].wake) => run[task[s].wake.run].st \in {"paused_wake", "paused_error"}
    BY DEF Wakeable, StillRetryable
  <2>. QED
    BY <1>6, <2>1, <2>2, ClaimRunHolds, QuitHolds
    DEF WakeClaim, Mine, rowVars, ACTIVE_OR_PAUSED_RUN_STATUSES, PAUSED_RUN_STATUSES
<1>7. CASE Release(s)
  <2>1. task'[s] = IdleTask /\ \A q \in Slices \ {s} : task'[q] = task[q]
    BY <1>7 DEF Release, Quit, Inv, TypeOK, TaskOK
  <2>2. GivesBack(s) \/ StaysOut(s)
    BY <1>7, <2>1 DEF Release, GivesBack, StaysOut, Engaged, Starting, IdleTask, NewTask
  <2>. QED
    BY <1>7, <2>1, <2>2 DEF Release, EntryHold, IdleTask, NewTask
<1>. QED
  BY <1>1, <1>2, <1>3, <1>4, <1>5, <1>6, <1>7

-----------------------------------------------------------------------------
(* What everybody else does.                                               *)

SamePlace(s) ==
  SameHolder(s) /\ task'[s].pc = task[s].pc /\ task'[s].reason = task[s].reason

\* The operator and the reclaim pass leave every slice where it is, take the
\* lease only with the run it drives, and end a run only with its card.
WorldHold ==
  /\ \A s \in Slices : SamePlace(s)
  /\ lease' = lease \/ \E r \in Runs : LeaseStopped(r)
  /\ approval'.st = "pending" =>
       /\ approval' = approval
       /\ \A q \in Runs : run[q].st = "paused_approval" => run'[q] = run[q]

LEMMA StopIsWorldly ==
  ASSUME Inv, NEW r \in Runs, Born(r), NEW missionTo, ApplyUserStop(r, missionTo)
  PROVE  approval'.st = "pending" => approval' = approval /\ run' = run
<1>1. CASE Terminal(r)
  BY <1>1 DEF ApplyUserStop
<1>2. CASE ~Terminal(r)
  BY <1>2 DEF ApplyUserStop, RejectPending, NoApproval
<1>. QED
  BY <1>1, <1>2

LEMMA OperatorHolds ==
  ASSUME Inv, OperatorAsks \/ OperatorProceeds
  PROVE  WorldHold
<1>0. op.pc \notin {"idle", "session", "abort"} => op.run \in Runs /\ Born(op.run)
  BY DEF Inv, TypeOK, MemoryOK, References
<1>1. \A s \in Slices : SamePlace(s)
  <2>1. CASE SignalStop \/ AbortSignals \/ EditSignals
    BY <2>1 DEF SignalStop, AbortSignals, EditSignals, Signal, Inv, TypeOK, TaskOK, Tasks,
                SamePlace, SameHolder
  <2>. QED
    BY <2>1
    DEF OperatorAsks, PauseAsked, StopAsked, EditAsked, AcceptPlan, DecideApproval,
        OperatorProceeds, EnqueuePause, EnqueueStop, StopSession, StopRerouted, AbortReads,
        AbortCancelsWakes, AbortRejectsApprovals, AbortApplies, EditCancelsWakes,
        EditApplies, EditReconciles, memVars, SamePlace, SameHolder
<1>2. CASE AbortApplies \/ EditApplies
  BY <1>0, <1>1, <1>2, UserStopHolds, StopIsWorldly DEF AbortApplies, EditApplies, WorldHold
<1>3. CASE OperatorAsks
  <2>1. CASE DecideApproval
    <3>1. approval'.st = "decided"
      BY <2>1 DEF DecideApproval, Inv, TypeOK, RowsOK, NoApproval
    <3>. QED
      BY <1>1, <2>1, <3>1 DEF DecideApproval, WorldHold
  <2>. QED
    BY <1>1, <1>3, <2>1
    DEF OperatorAsks, PauseAsked, StopAsked, EditAsked, AcceptPlan, WorldHold, rowVars
<1>4. CASE OperatorProceeds /\ ~AbortApplies /\ ~EditApplies
  BY <1>1, <1>4
  DEF OperatorProceeds, EnqueuePause, EnqueueStop, SignalStop, StopSession, StopRerouted,
      AbortReads, AbortCancelsWakes, AbortRejectsApprovals, AbortSignals, EditCancelsWakes,
      EditSignals, EditReconciles, RejectPending, NoApproval, rowVars, WorldHold
<1>. QED
  BY <1>2, <1>3, <1>4

LEMMA ReclaimHolds ==
  ASSUME Inv, FindOrphan \/ ReclaimOrphan \/ UNCHANGED vars
  PROVE  WorldHold
<1>1. CASE FindOrphan \/ UNCHANGED vars
  BY <1>1 DEF FindOrphan, vars, rowVars, WorldHold, SamePlace, SameHolder
<1>2. CASE ReclaimOrphan
  <2>0. orphan \in Runs /\ Born(orphan)
    BY <1>2 DEF ReclaimOrphan, Inv, TypeOK, MemoryOK, MaybeRun, References
  <2>1. \A s \in Slices : SamePlace(s)
    BY <1>2 DEF ReclaimOrphan, SamePlace, SameHolder
  <2>2. CASE UNCHANGED <<run, mission, lease, wake, reqs, approval>>
    BY <2>1, <2>2 DEF WorldHold
  <2>3. CASE Gated(orphan) /\ LandGatedStop(orphan)
    BY <2>0, <2>1, <2>3, LandGatedStopHolds, StopIsWorldly DEF LandGatedStop, WorldHold
  <2>4. CASE ~Gated(orphan) /\ Orphaned(orphan) /\ Park(orphan, "paused_error", "restart_orphan")
             /\ lease' = lease /\ approval' = approval
    BY <2>0, <2>1, <2>4, ParkWritesOne DEF Orphaned, WorldHold
  <2>. QED
    BY <1>2, <2>2, <2>3, <2>4 DEF ReclaimOrphan, GatedPark
<1>. QED
  BY <1>1, <1>2

\* Every step is a runner's, an entry's, the world's, or time's.
LEMMA StepKinds ==
  ASSUME Punctual, Inv, OwnersMinted, [Next]_vars
  PROVE  \/ \E s \in Slices : RunnerHold(s) /\ RunnerAct(s)
         \/ \E s \in Slices : EntryHold(s)
         \/ WorldHold
         \/ \E s \in Slices : Heartbeat(s)
         \/ LeaseExpires
         \/ Restart
<1>1. ASSUME NEW s \in Slices, Drive(s)
      PROVE  (RunnerHold(s) /\ RunnerAct(s)) \/ EntryHold(s)
  BY <1>1, RunnerHolds, BeginHolds DEF Drive, RunnerAct
<1>. QED
  BY <1>1, ClaimHolds, OperatorHolds, ReclaimHolds DEF Next, Step

-----------------------------------------------------------------------------
(* The invariant is inductive.                                             *)

LEMMA OverStays ==
  ASSUME Inv, RowStep, NEW r \in Runs, Terminal(r)
  PROVE  Terminal(r)'
<1>1. ~Active(r) /\ Born(r)
  BY DEF Terminal, Active, Born, TERMINAL_RUN_STATUSES, ACTIVE_OR_PAUSED_RUN_STATUSES,
         ACTIVE_RUN_STATUSES, PAUSED_RUN_STATUSES
<1>2. Kept(r)
  BY <1>1 DEF RowStep, RowsIdle, RowsAccept, RowsBegin, RowsWake, RowsPark, RowsEnd, OthersKept
<1>. QED
  BY <1>2 DEF Kept, Terminal

LEMMA EngagedRun ==
  ASSUME Inv, NEW s \in Slices, Engaged(s)
  PROVE  task[s].run \in Runs /\ Born(task[s].run)
BY HoldsRun DEF Engaged, RunPCs, TaskPCs

LEMMA OneHolder ==
  ASSUME OwnersMinted, NEW s \in Slices, NEW t \in Slices, s # t, HoldsLease(t)
  PROVE  ~Claimable(Mine(s)) /\ ~HoldsLease(s) /\ lease.owner # task[s].owner
BY DEF OwnersMinted, HoldsLease, Claimable, Mine, NoOwner

\* A stop takes the lease from nobody whose run goes on.
LEMMA StillHolds ==
  ASSUME Exclusion, RowStep, NEW t \in Slices, Engaged(t), SameHolder(t),
         ~Terminal(task[t].run)', lease' = lease \/ \E r \in Runs : LeaseStopped(r),
         task'[t].run = task[t].run
  PROVE  HoldsLease(t)'
<1>. DEFINE q == task[t].run
<1>1. q \in Runs /\ Born(q) /\ ~Terminal(q)
  BY EngagedRun, OverStays DEF Exclusion, SameHolder, Terminal
<1>2. HoldsLease(t)
  BY <1>1 DEF Exclusion, DriversHold
<1>3. ASSUME NEW r \in Runs, LeaseStopped(r)
      PROVE  FALSE
  <2>1. Active(q)
    BY <1>1, LiveIsActive DEF Exclusion, Inv, TypeOK
  <2>2. q = r
    BY <1>1, <1>3, <2>1 DEF LeaseStopped, Exclusion, AtMostOneActive, ActiveRuns
  <2>. QED
    BY <1>3, <2>2 DEF LeaseStopped, Terminal, SameHolder
<1>. QED
  BY <1>2, <1>3 DEF HoldsLease, SameHolder

StartHeld == \A s \in Slices :
  task[s].pc = "commit" /\ task'[s].pc = "registering" => HoldsLease(s)

LEMMA DriversKept ==
  ASSUME Punctual, Exclusion, RowStep, StartHeld, [Next]_vars
  PROVE  DriversHold'
<1>. SUFFICES ASSUME NEW t \in Slices, Engaged(t)', ~Terminal(task[t].run)'
              PROVE  HoldsLease(t)'
  BY DEF DriversHold
<1>0. Inv /\ OwnersMinted
  BY DEF Exclusion
<1>1. ASSUME task'[t] = task[t]
      PROVE  SameHolder(t) /\ Engaged(t) /\ HoldsLease(t)
  <2>1. SameHolder(t) /\ Engaged(t) /\ ~Terminal(task[t].run)
    BY <1>0, <1>1, EngagedRun, OverStays DEF SameHolder, Engaged, Terminal
  <2>. QED
    BY <2>1 DEF Exclusion, DriversHold
<1>2. ASSUME NEW s \in Slices, RunnerHold(s)
      PROVE  HoldsLease(t)'
  <2>1. SameHolder(t) /\ Engaged(t)
    BY <1>1, <1>2 DEF RunnerHold
  <2>2. task[s].run \in Runs
    BY <1>0, <1>2, HoldsRun DEF RunnerHold
  <2>. QED
    BY <1>2, <2>1, <2>2, StillHolds DEF RunnerHold, SameHolder
<1>3. ASSUME NEW s \in Slices, EntryHold(s)
      PROVE  HoldsLease(t)'
  <2>1. CASE t = s
    BY <1>3, <2>1 DEF EntryHold, StaysOut, Seizes, Creates, GivesBack, HoldsLease, Mine,
                      StartHeld, Engaged, IdleTask, NewTask
  <2>2. CASE t # s
    <3>1. task'[t] = task[t] /\ HoldsLease(t)
      BY <1>1, <1>3, <2>2 DEF EntryHold
    <3>2. ~Seizes(s) /\ ~GivesBack(s)
      BY <1>0, <2>2, <3>1, OneHolder DEF Seizes, GivesBack
    <3>. QED
      BY <1>3, <3>1, <3>2 DEF EntryHold, StaysOut, Creates, HoldsLease
  <2>. QED
    BY <2>1, <2>2
<1>4. CASE WorldHold
  BY <1>4, StillHolds DEF WorldHold, SamePlace, SameHolder, Engaged
<1>5. ASSUME NEW s \in Slices, Heartbeat(s)
      PROVE  HoldsLease(t)'
  <2>1. CASE task' = task
    BY <1>1, <1>5, <2>1 DEF Heartbeat, HoldsLease
  <2>2. CASE task' = [task EXCEPT ![s].lost = TRUE] /\ lease.owner # task[s].owner
    <3>1. Engaged(t) /\ task'[t].run = task[t].run /\ task'[t].owner = task[t].owner
      BY <2>2 DEF Exclusion, Inv, TypeOK, TaskOK, Tasks, Engaged
    <3>2. HoldsLease(t)
      BY <1>0, <3>1, EngagedRun, OverStays DEF Exclusion, DriversHold, Terminal
    <3>3. t # s
      BY <2>2, <3>2 DEF HoldsLease
    <3>. QED
      BY <1>0, <1>5, <2>2, <3>2, <3>3 DEF Heartbeat, HoldsLease, Inv, TypeOK, TaskOK
  <2>. QED
    BY <1>5, <2>1, <2>2 DEF Heartbeat
<1>6. CASE LeaseExpires
  BY <1>1, <1>6 DEF LeaseExpires, memVars, Punctual, Held, HoldsLease, Mine, NoOwner
<1>7. CASE Restart
  BY <1>7 DEF Restart, IdleTask, NewTask, Engaged
<1>. QED
  BY <1>0, <1>2, <1>3, <1>4, <1>5, <1>6, <1>7, StepKinds

\* A heartbeat and an expiry leave every slice where it is, a restart nowhere.
LEMMA TimeKeepsPlaces ==
  ASSUME Inv, \/ \E s \in Slices : Heartbeat(s)
              \/ LeaseExpires
              \/ Restart
  PROVE  /\ run' = run /\ approval' = approval
         /\ \/ \A s \in Slices : /\ task'[s].pc = task[s].pc /\ task'[s].run = task[s].run
                                 /\ task'[s].owner = task[s].owner
                                 /\ task'[s].reason = task[s].reason
            \/ \A s \in Slices : task'[s] = IdleTask
BY DEF Heartbeat, LeaseExpires, Restart, memVars, Inv, TypeOK, TaskOK, Tasks

LEMMA OwnersKept ==
  ASSUME Punctual, Inv, OwnersMinted, [Next]_vars
  PROVE  OwnersMinted'
<1>1. ASSUME NEW s \in Slices, RunnerHold(s)
      PROVE  OwnersMinted'
  BY <1>1 DEF RunnerHold, SameHolder, OwnersMinted, Mine
<1>2. ASSUME NEW s \in Slices, EntryHold(s)
      PROVE  OwnersMinted'
  BY <1>2 DEF EntryHold, OwnersMinted, Mine
<1>3. CASE WorldHold
  BY <1>3 DEF WorldHold, SamePlace, SameHolder, OwnersMinted, Mine
<1>4. CASE \/ \E s \in Slices : Heartbeat(s)
           \/ LeaseExpires
           \/ Restart
  BY <1>4, TimeKeepsPlaces DEF OwnersMinted, Mine, IdleTask, NewTask
<1>. QED
  BY <1>1, <1>2, <1>3, <1>4, StepKinds

LEMMA OnePerRunKept ==
  ASSUME Punctual, Exclusion, RowStep, [Next]_vars
  PROVE  OnePerRun'
<1>0. Inv /\ OwnersMinted /\ OnePerRun
  BY DEF Exclusion
<1>1. ASSUME \A s \in Slices : Engaged(s)' => Engaged(s) /\ task'[s].run = task[s].run
      PROVE  OnePerRun'
  BY <1>0, <1>1 DEF OnePerRun
<1>2. ASSUME NEW s \in Slices, RunnerHold(s)
      PROVE  OnePerRun'
  BY <1>1, <1>2 DEF RunnerHold, SameHolder, Engaged
<1>3. ASSUME NEW s \in Slices, EntryHold(s)
      PROVE  OnePerRun'
  <2>1. CASE ~Engaged(s)'
    BY <1>1, <1>3, <2>1 DEF EntryHold, Engaged
  <2>2. ASSUME NEW t \in Slices \ {s}, Engaged(s)', Engaged(t), task'[s].run = task[t].run
        PROVE  FALSE
    <3>1. task[t].run \in Runs /\ Born(task[t].run)
      BY <1>0, <2>2, EngagedRun
    <3>2. CASE Creates(s)
      BY <2>2, <3>1, <3>2 DEF Creates
    <3>3. CASE Seizes(s)
      <4>1. run'[task[t].run].st = "running"
        BY <2>2, <3>3 DEF Seizes
      <4>2. ~Terminal(task[t].run)
        BY <1>0, <3>1, <4>1, OverStays DEF Terminal, TERMINAL_RUN_STATUSES
      <4>3. HoldsLease(t)
        BY <2>2, <4>2 DEF Exclusion, DriversHold
      <4>. QED
        BY <1>0, <2>2, <3>3, <4>3, OneHolder DEF Seizes
    <3>. QED
      BY <1>3, <2>2, <3>2, <3>3 DEF EntryHold, StaysOut, GivesBack, IdleTask, NewTask, Engaged
  <2>. QED
    BY <1>0, <1>3, <2>1, <2>2 DEF EntryHold, OnePerRun, Engaged
<1>4. CASE WorldHold
  BY <1>1, <1>4 DEF WorldHold, SamePlace, SameHolder, Engaged
<1>5. CASE \/ \E s \in Slices : Heartbeat(s)
           \/ LeaseExpires
           \/ Restart
  BY <1>0, <1>1, <1>5, TimeKeepsPlaces DEF Engaged, IdleTask, NewTask
<1>. QED
  BY <1>0, <1>2, <1>3, <1>4, <1>5, StepKinds

LEMMA CardKept ==
  ASSUME Punctual, Exclusion, RowStep, [Next]_vars
  PROVE  CardParked'
<1>. SUFFICES ASSUME approval'.st = "pending"
              PROVE  CardParked'
  BY DEF CardParked
<1>. DEFINE c == approval.run
<1>0. Inv /\ OwnersMinted /\ CardParked
  BY DEF Exclusion
<1>1. ASSUME approval' = approval, run'[c].st = run[c].st,
             \A s \in Slices :
               \/ /\ task'[s].pc = task[s].pc /\ task'[s].reason = task[s].reason
                  /\ task'[s].run = task[s].run
               \/ ~(Engaged(s)' /\ task'[s].run = c)
      PROVE  CardParked'
  BY <1>0, <1>1 DEF CardParked, Engaged, Asking
<1>2. ASSUME NEW s \in Slices, RunnerHold(s), RunnerAct(s)
      PROVE  CardParked'
  <2>1. CASE approval' # approval
    <3>1. /\ Engaged(s) /\ Asking(s)'
          /\ approval'.run = task[s].run /\ run'[task[s].run].st = "paused_approval"
      BY <1>0, <1>2, <2>1, NewCard
    <3>2. ASSUME NEW t \in Slices, Engaged(t)', task'[t].run = task[s].run
          PROVE  t = s
      BY <1>2, <3>1, <3>2 DEF RunnerHold, SameHolder, Engaged, Exclusion, OnePerRun
    <3>. QED
      BY <3>1, <3>2 DEF CardParked
  <2>2. CASE approval' = approval /\ task[s].run # c
    <3>1. c \in Runs
      BY <1>0, <2>2 DEF Inv, TypeOK, RowsOK, NoApproval
    <3>. QED
      BY <1>1, <1>2, <2>2, <3>1 DEF RunnerHold, SameHolder
  <2>3. CASE approval' = approval /\ task[s].run = c
    <3>1. Asking(s) \/ ~Engaged(s)
      BY <1>0, <2>3 DEF CardParked
    <3>2. run' = run /\ ~Engaged(s)'
      BY <1>0, <1>2, <3>1, SpentRunner
    <3>. QED
      BY <1>1, <1>2, <2>3, <3>2 DEF RunnerHold
  <2>. QED
    BY <2>1, <2>2, <2>3
<1>3. ASSUME NEW s \in Slices, EntryHold(s)
      PROVE  CardParked'
  <2>1. approval' = approval /\ approval # NoApproval
    BY <1>3 DEF EntryHold, NoApproval
  <2>2. c \in Runs /\ run[c].st = "paused_approval" /\ run'[c] = run[c]
    BY <1>0, <1>3, <2>1 DEF EntryHold, CardParked, Inv, TypeOK, RowsOK
  <2>3. ~(Engaged(s)' /\ task'[s].run = c)
    BY <1>3, <2>2 DEF EntryHold, StaysOut, Seizes, Creates, GivesBack, Born, IdleTask,
                      NewTask, Engaged
  <2>. QED
    BY <1>1, <1>3, <2>1, <2>2, <2>3 DEF EntryHold
<1>4. CASE WorldHold
  <2>1. approval' = approval /\ c \in Runs
    BY <1>0, <1>4 DEF WorldHold, Inv, TypeOK, RowsOK, NoApproval
  <2>. QED
    BY <1>0, <1>1, <1>4, <2>1 DEF WorldHold, SamePlace, SameHolder, CardParked
<1>5. CASE \/ \E s \in Slices : Heartbeat(s)
           \/ LeaseExpires
           \/ Restart
  BY <1>0, <1>1, <1>5, TimeKeepsPlaces DEF Engaged, IdleTask, NewTask
<1>. QED
  BY <1>0, <1>2, <1>3, <1>4, <1>5, StepKinds

LEMMA ExclusionInductive ==
  ASSUME Punctual, Exclusion, StartHeld, [Next]_vars
  PROVE  Exclusion'
<1>1. RowStep /\ Inv'
  BY NextStep, InvInductive DEF Exclusion
<1>2. AtMostOneActive'
  BY <1>1, OneActiveKept DEF Exclusion, Punctual
<1>. QED
  BY <1>1, <1>2, OwnersKept, DriversKept, OnePerRunKept, CardKept DEF Exclusion

LEMMA ExclusionInit == Init => Exclusion
<1>. SUFFICES ASSUME Init PROVE Exclusion
  OBVIOUS
<1>1. Inv
  BY InvInit
<1>2. AtMostOneActive
  BY DEF Init, NewRun, AtMostOneActive, ActiveRuns, Active, ACTIVE_OR_PAUSED_RUN_STATUSES,
         ACTIVE_RUN_STATUSES, PAUSED_RUN_STATUSES
<1>. QED
  BY <1>1, <1>2
  DEF Init, Exclusion, OwnersMinted, DriversHold, OnePerRun, CardParked, Engaged, IdleTask,
      NewTask, NoApproval

LEMMA ExclusionHolds ==
  ASSUME Punctual
  PROVE  Spec /\ StartsHoldTheLease => []Exclusion
<1>1. Exclusion /\ [Next]_vars /\ [StartHeld]_vars => Exclusion'
  <2>1. UNCHANGED vars => StartHeld
    BY DEF vars, StartHeld
  <2>. QED
    BY <2>1, ExclusionInductive
<1>. QED
  BY <1>1, ExclusionInit, PTL DEF Spec, StartsHoldTheLease, StartHeld

-----------------------------------------------------------------------------
(* When a start still holds the lease.                                     *)

LEMMA PreparedKept ==
  ASSUME Punctual, Inv, OwnersMinted, Prepared, RowStep, [Next]_vars
  PROVE  Prepared'
<1>. SUFFICES ASSUME \A r \in Runs : ~Born(r)', NEW t \in Slices, Starting(t)'
              PROVE  HoldsLease(t)'
  BY DEF Prepared, Starting
<1>0. \A r \in Runs : ~Born(r)
  BY BornStays DEF Born
<1>1. Starting(t) => HoldsLease(t)
  BY <1>0 DEF Prepared, Starting
<1>2. ASSUME NEW s \in Slices, RunnerHold(s)
      PROVE  FALSE
  BY <1>0, <1>2, HoldsRun DEF RunnerHold
<1>3. ASSUME NEW s \in Slices, EntryHold(s)
      PROVE  HoldsLease(t)'
  <2>1. CASE t = s
    BY <1>1, <1>3, <2>1 DEF EntryHold, StaysOut, Seizes, Creates, GivesBack, HoldsLease,
                            SameHolder, Starting, IdleTask, NewTask, Mine
  <2>2. CASE t # s
    <3>1. task'[t] = task[t] /\ HoldsLease(t)
      BY <1>1, <1>3, <2>2 DEF EntryHold, Starting
    <3>2. ~Seizes(s) /\ ~GivesBack(s)
      BY <2>2, <3>1, OneHolder DEF Seizes, GivesBack
    <3>. QED
      BY <1>3, <3>1, <3>2 DEF EntryHold, StaysOut, Creates, HoldsLease
  <2>. QED
    BY <2>1, <2>2
<1>4. CASE WorldHold
  <2>1. lease' = lease
    BY <1>0, <1>4 DEF WorldHold, LeaseStopped, Active, Born, ACTIVE_OR_PAUSED_RUN_STATUSES,
                      ACTIVE_RUN_STATUSES, PAUSED_RUN_STATUSES
  <2>. QED
    BY <1>1, <1>4, <2>1 DEF WorldHold, SamePlace, SameHolder, Starting, HoldsLease
<1>5. ASSUME NEW s \in Slices, Heartbeat(s)
      PROVE  HoldsLease(t)'
  <2>1. Starting(t)
    BY <1>5, TimeKeepsPlaces DEF Starting, IdleTask, NewTask
  <2>. QED
    BY <1>1, <1>5, <2>1 DEF Heartbeat, HoldsLease, Inv, TypeOK, TaskOK, Tasks
<1>6. CASE LeaseExpires
  BY <1>1, <1>6 DEF LeaseExpires, memVars, Punctual, Held, HoldsLease, Starting, Mine, NoOwner
<1>7. CASE Restart
  BY <1>7 DEF Restart, IdleTask, NewTask, Starting
<1>. QED
  BY <1>2, <1>3, <1>4, <1>5, <1>6, <1>7, StepKinds

\* The first run of a session is created under the lease: what takes the lease
\* from a start in preparation is the stop of an earlier run.
LEMMA FirstStartHeld ==
  ASSUME Punctual, Inv, OwnersMinted, Prepared, RowStep, [Next]_vars, FirstRun'
  PROVE  StartHeld
<1>. SUFFICES ASSUME NEW s \in Slices, task[s].pc = "commit", task'[s].pc = "registering"
              PROVE  HoldsLease(s)
  BY DEF StartHeld
<1>1. Creates(s)
  <2>1. ASSUME NEW t \in Slices, RunnerHold(t)
        PROVE  FALSE
    BY <2>1 DEF RunnerHold, RunPCs, TaskPCs
  <2>2. ASSUME NEW t \in Slices, EntryHold(t)
        PROVE  Creates(s)
    BY <2>2 DEF EntryHold, StaysOut, Seizes, GivesBack, Engaged, IdleTask, NewTask
  <2>3. ~WorldHold
    BY DEF WorldHold, SamePlace
  <2>. QED
    BY <2>1, <2>2, <2>3, StepKinds, TimeKeepsPlaces DEF IdleTask, NewTask
<1>2. task'[s].run \in Runs
  BY InvInductive DEF Inv, TypeOK, TaskOK, RunPCs, TaskPCs
<1>3. \A r \in Runs : ~Born(r)
  BY <1>1, <1>2, BornStays DEF Creates, FirstRun, Born
<1>. QED
  BY <1>3 DEF Prepared

LEMMA FirstRunHeld ==
  ASSUME Punctual
  PROVE  Spec /\ []FirstRun => StartsHoldTheLease
<1>1. Init => OwnersMinted /\ Prepared
  BY DEF Init, OwnersMinted, Prepared, IdleTask, NewTask
<1>2. Inv /\ OwnersMinted /\ Prepared /\ [Next]_vars => OwnersMinted' /\ Prepared'
  BY OwnersKept, PreparedKept, NextStep
<1>3. Inv /\ OwnersMinted /\ Prepared /\ [Next]_vars /\ FirstRun' => [StartHeld]_vars
  BY FirstStartHeld, NextStep
<1>. QED
  BY <1>1, <1>2, <1>3, InvHolds, PTL DEF Spec, StartsHoldTheLease, StartHeld

\* Every start holds the lease, or there is but one: nothing in between is
\* known to keep it (apply-user-stop.ts deletes the lease whoever holds it).
SafeStarts == StartsHoldTheLease \/ []FirstRun

LEMMA ExclusionSafe ==
  ASSUME Punctual
  PROVE  Spec /\ SafeStarts => []Exclusion
BY ExclusionHolds, FirstRunHeld, PTL DEF SafeStarts

-----------------------------------------------------------------------------
(* The theorems.                                                           *)

\* The lease is what runner-leases.ts says it is, as long as heartbeats come in
\* time, no two claims present the same owner id, and starts hold the lease
\* when they commit: of two slices with a run in hand, one has a run that is
\* already over.
THEOREM OneRunnerAtATime ==
  ASSUME Punctual
  PROVE  Spec /\ SafeStarts => []AtMostOneRunner
<1>1. Exclusion => AtMostOneRunner
  BY OneHolder DEF Exclusion, DriversHold, AtMostOneRunner
<1>. QED
  BY <1>1, ExclusionSafe, PTL

\* A stop rejects the session's card with the run, and nobody else resumes or
\* ends a run parked on one: no card is left to approve for a run that is over.
THEOREM NoCardOfTheDead ==
  ASSUME Punctual
  PROVE  Spec /\ SafeStarts => []NoApprovalOfTheDead
<1>1. Exclusion => NoApprovalOfTheDead
  BY DEF Exclusion, CardParked, NoApprovalOfTheDead, Terminal, TERMINAL_RUN_STATUSES
<1>. QED
  BY <1>1, ExclusionSafe, PTL

\* Nobody but the reclaim pass calls a run an orphan.
Unblamed == \A r \in Runs : run'[r].reason = "restart_orphan" => run[r].reason = "restart_orphan"

LEMMA WriteBlames ==
  ASSUME Inv, NEW r, NEW status, NEW reason, reason # "restart_orphan",
         \/ Park(r, status, reason) \/ GatedPark(r, status, reason) \/ LandGatedStop(r)
         \/ \E m : ApplyUserStop(r, m)
  PROVE  Unblamed
BY DEF Unblamed, Inv, TypeOK, RunOK, Park, GatedPark, LandGatedStop, ApplyUserStop

LEMMA RunnerBlames ==
  ASSUME Inv, NEW s \in Slices, RunnerAct(s)
  PROVE  Unblamed
<1>0. run' = run => Unblamed
  BY DEF Unblamed
<1>1. CASE \/ ReadRun(s) \/ PrepareFails(s) \/ Register(s) \/ StartRun(s)
           \/ EntryAborted(s) \/ EntryObserves(s) \/ EntryExhausted(s) \/ Unregister(s)
  <2>1. CASE StartRun(s)
    BY <1>0, <2>1, WriteBlames DEF StartRun, Park
  <2>2. CASE EntryObserves(s)
    BY <1>0, <2>2, WriteBlames DEF EntryObserves
  <2>. QED
    BY <1>0, <1>1, <2>1, <2>2
    DEF ReadRun, PrepareFails, Register, EntryAborted, EntryExhausted, Unregister, rowVars
<1>2. CASE Turn(s)
  <2>1. CASE ParkDeferred(s) \/ TurnAsksApproval(s) \/ ParkPlanned(s)
    BY <2>1, WriteBlames DEF ParkDeferred, TurnAsksApproval, ParkPlanned
  <2>2. CASE TurnMutates(s)
    BY <2>2 DEF TurnMutates, Unblamed, Inv, TypeOK, RunOK
  <2>. QED
    BY <1>0, <1>2, <2>1, <2>2
    DEF Turn, TurnAborted, TurnContinues, TurnDefers, TurnWritesPlan, TurnEnds, TurnThrows,
        rowVars
<1>3. CASE Finalize(s)
  <2>1. CASE FinalizeOutcome(s) \/ FinalizeReview(s)
    <3>1. task[s].reason # "restart_orphan"
      BY <2>1 DEF FinalizeOutcome, FinalizeReview, Finalizing, BUSINESS_OUTCOMES,
                  REVIEW_STOPS
    <3>. QED
      BY <1>0, <2>1, <3>1, WriteBlames DEF FinalizeOutcome, FinalizeReview
  <2>2. CASE FinalizeUserStop(s) \/ ParkContinuation(s) \/ ThrewAfterAbort(s)
    BY <2>2, WriteBlames DEF FinalizeUserStop, ParkContinuation, ThrewAfterAbort
  <2>3. CASE PersistErrorPause(s)
    <3>1. ASSUME NEW r, run' = [run EXCEPT ![r].st = "paused_error",
                                           ![r].reason = "provider_error",
                                           ![r].retries = @ + 1]
          PROVE  Unblamed
      BY <3>1 DEF Unblamed, Inv, TypeOK, RunOK
    <3>. QED
      BY <2>3, <3>1, WriteBlames DEF PersistErrorPause
  <2>. QED
    BY <1>0, <1>3, <2>1, <2>2, <2>3
    DEF Finalize, FinalizeParked, WriteMissionOutcome, FinalizeContinuation, TakeWakeBack,
        EnqueueRetryWake, Reconcile, rowVars
<1>. QED
  BY <1>1, <1>2, <1>3 DEF RunnerAct

LEMMA EntryBlames ==
  ASSUME Inv, NEW s \in Slices, Claim(s) \/ (Drive(s) /\ ~RunnerAct(s)) \/ Heartbeat(s)
  PROVE  Unblamed
<1>0. run' = run => Unblamed
  BY DEF Unblamed
<1>1. ASSUME NEW r, run' = [run EXCEPT ![r].st = "running"]
      PROVE  Unblamed
  BY <1>1 DEF Unblamed, Inv, TypeOK, RunOK
<1>2. CASE Claim(s)
  BY <1>0, <1>1, <1>2
  DEF Claim, AskToBegin, ReadAcceptedPlan, ResumeClaim, RetryClaim, ApprovalClaim, WakeDue,
      UserMessage, ClaimRun, rowVars
<1>3. CASE Drive(s) /\ ~RunnerAct(s)
  BY <1>0, <1>1, <1>3
  DEF Drive, RunnerAct, StartClaim, RecoverClaim, ClaimSession, RecheckActive, CreateRun,
      ApplySessionStop, ResumeAccepted, WakeClaim, PreemptClaim, Release, ClaimRun, rowVars
<1>. QED
  BY <1>0, <1>2, <1>3 DEF Heartbeat

\* Who is called an orphan is one.
LEMMA OnlyOrphansBlamed ==
  ASSUME Inv, [Next]_vars, NEW r \in Runs,
         run'[r].reason = "restart_orphan", run[r].reason # "restart_orphan"
  PROVE  Orphaned(r)
<1>0. ~Unblamed
  BY DEF Unblamed
<1>1. ASSUME NEW s \in Slices, Claim(s) \/ Drive(s) \/ Heartbeat(s)
      PROVE  FALSE
  BY <1>0, <1>1, RunnerBlames, EntryBlames
<1>2. ~OperatorAsks /\ ~OperatorProceeds
  BY <1>0, WriteBlames
  DEF OperatorAsks, PauseAsked, StopAsked, EditAsked, AcceptPlan, DecideApproval,
      OperatorProceeds, EnqueuePause, EnqueueStop, SignalStop, StopSession, StopRerouted,
      AbortReads, AbortCancelsWakes, AbortRejectsApprovals, AbortSignals, AbortApplies,
      EditCancelsWakes, EditSignals, EditApplies, EditReconciles, rowVars, Unblamed
<1>3. ~LeaseExpires /\ ~FindOrphan /\ ~Restart /\ ~UNCHANGED vars
  BY <1>0 DEF LeaseExpires, FindOrphan, Restart, rowVars, vars, Unblamed
<1>4. ReclaimOrphan
  BY <1>1, <1>2, <1>3 DEF Next, Step
<1>5. ~LandGatedStop(orphan) /\ run' # run
  BY <1>0, WriteBlames DEF Unblamed
<1>6. Orphaned(orphan) /\ Park(orphan, "paused_error", "restart_orphan")
  BY <1>4, <1>5 DEF ReclaimOrphan, GatedPark
<1>7. r = orphan
  BY <1>6 DEF Park, Inv, TypeOK, RunOK
<1>. QED
  BY <1>6, <1>7

\* The reclaim pass re-checks, under the session control lock, that the run is
\* running and the lease is not live; since a slice drives its run under a live
\* lease, that is enough to know the run has no driver, whatever the age of the
\* candidate.
THEOREM DrivenRunsAreSpared ==
  ASSUME Punctual
  PROVE  Spec /\ SafeStarts => ReclaimSparesTheDriven
<1>1. Exclusion /\ [Next]_vars =>
        [\A r \in Runs :
           run'[r].reason = "restart_orphan" /\ run[r].reason # "restart_orphan" =>
             \A s \in Slices : ~(Engaged(s) /\ task[s].run = r)]_vars
  <2>. SUFFICES ASSUME Exclusion, [Next]_vars, NEW r \in Runs, NEW s \in Slices,
                       run'[r].reason = "restart_orphan", run[r].reason # "restart_orphan",
                       Engaged(s), task[s].run = r
                PROVE  FALSE
    OBVIOUS
  <2>1. Orphaned(r)
    BY OnlyOrphansBlamed DEF Exclusion
  <2>2. HoldsLease(s)
    BY <2>1 DEF Exclusion, DriversHold, Orphaned, Terminal, TERMINAL_RUN_STATUSES
  <2>. QED
    BY <2>1, <2>2 DEF Orphaned, LeaseLive, HoldsLease, Mine, NoOwner
<1>. QED
  BY <1>1, ExclusionSafe, PTL DEF Spec, ReclaimSparesTheDriven

-----------------------------------------------------------------------------
(* Mission and run, while the process lives.                               *)

\* A slice with a verdict in hand still holds the lease, and its run was the
\* last.
VerdictHeld ==
  \A s \in Slices : task[s].pc = "outcome" => HoldsLease(s) /\ ActiveRuns = {}

Agreement == Exclusion /\ VerdictHeld /\ MissionAgrees

\* Five kinds of step on the two rows and on the verdicts in hand.
SameVerdicts == \A s \in Slices : task'[s].pc = "outcome" <=> task[s].pc = "outcome"
NobodyElse(s) == \A q \in Slices \ {s} : task'[q] = task[q]

RowsAgree ==
  /\ mission' = "running" <=> mission = "running"
  /\ \A r \in Runs : Active(r)' <=> Active(r)
  /\ SameVerdicts

StopEnds ==
  /\ \E r \in Runs : Active(r) /\ ~Active(r)' /\ OthersKept(r)
  /\ mission' # "running"
  /\ SameVerdicts

StartBegins ==
  /\ \E s \in Slices : task[s].pc = "commit" /\ task'[s].pc = "registering"
  /\ ActiveRuns = {} /\ ActiveRuns' # {}
  /\ mission' = "running"
  /\ SameVerdicts

RunGetsVerdict(s) ==
  /\ Engaged(s) /\ ~Terminal(task[s].run) /\ ~Active(task[s].run)'
  /\ OthersKept(task[s].run)
  /\ SameHolder(s) /\ lease' = lease /\ NobodyElse(s)
  /\ task'[s].pc = "outcome"

MissionGetsVerdict(s) ==
  /\ task[s].pc = "outcome" /\ task'[s].pc = "unregister" /\ NobodyElse(s)
  /\ run' = run /\ mission' # "running"

VerdictStep ==
  \/ RowsAgree \/ StopEnds \/ StartBegins
  \/ \E s \in Slices : RunGetsVerdict(s) \/ MissionGetsVerdict(s)

\* A transaction that may end a run leaves the mission alone, or ends both.
EndsBoth ==
  \/ /\ mission' = "running" <=> mission = "running"
     /\ \A r \in Runs : Active(r)' <=> Active(r)
  \/ mission' # "running" /\ \E r \in Runs : Active(r) /\ ~Active(r)' /\ OthersKept(r)

LEMMA EndsBothOr ==
  ASSUME EndsBoth, SameVerdicts
  PROVE  VerdictStep
BY DEF EndsBoth, VerdictStep, RowsAgree, StopEnds

LEMMA UserStopEndsBoth ==
  ASSUME Inv, NEW r \in Runs, Born(r), NEW missionTo \in {"cancelled", "draft"},
         ApplyUserStop(r, missionTo)
  PROVE  EndsBoth
<1>1. CASE Terminal(r)
  BY <1>1 DEF ApplyUserStop, EndsBoth, Active
<1>2. CASE ~Terminal(r)
  <2>1. Park(r, "stopped", "user_stopped") /\ mission' = missionTo
    BY <1>2 DEF ApplyUserStop, Park
  <2>2. Active(r) /\ run'[r].st = "stopped" /\ OthersKept(r)
    BY <1>2, <2>1, LiveIsActive, WriteKeepsOthers DEF Inv, TypeOK
  <2>3. ~Active(r)'
    BY <2>2 DEF Active, ACTIVE_OR_PAUSED_RUN_STATUSES, ACTIVE_RUN_STATUSES,
                PAUSED_RUN_STATUSES
  <2>. QED
    BY <2>1, <2>2, <2>3 DEF EndsBoth
<1>. QED
  BY <1>1, <1>2

LEMMA ParkEndsNothing ==
  ASSUME Inv, NEW r \in Runs, Born(r), NEW reason,
         NEW status \in ACTIVE_OR_PAUSED_RUN_STATUSES,
         \/ ~Terminal(r) /\ Park(r, status, reason) /\ mission' = mission
         \/ GatedPark(r, status, reason)
         \/ LandGatedStop(r)
  PROVE  EndsBoth
<1>1. CASE ~Terminal(r) /\ Park(r, status, reason) /\ mission' = mission
  <2>1. Active(r) /\ run'[r].st = status /\ OthersKept(r)
    BY <1>1, LiveIsActive, WriteKeepsOthers DEF Inv, TypeOK
  <2>. QED
    BY <1>1, <2>1 DEF EndsBoth, OthersKept, Kept, Active
<1>2. CASE LandGatedStop(r)
  BY <1>2, UserStopEndsBoth DEF LandGatedStop, EndsBoth, Active
<1>. QED
  BY <1>1, <1>2 DEF GatedPark, Gated

\* A slice that is not at its verdict, and does not get one.
LEMMA NoVerdict ==
  ASSUME NEW s \in Slices, task[s].pc # "outcome", task'[s].pc # "outcome", NobodyElse(s)
  PROVE  SameVerdicts
BY DEF SameVerdicts, NobodyElse

LEMMA RunnerVerdicts ==
  ASSUME Inv, NEW s \in Slices, RunnerAct(s)
  PROVE  VerdictStep
<1>. DEFINE r == MyRun(s)
<1>0. NobodyElse(s) /\ r \in Runs /\ Born(r)
  BY RunnerHolds, HoldsRun DEF RunnerHold, NobodyElse, MyRun
<1>1. run' = run /\ mission' = mission => EndsBoth
  BY DEF EndsBoth, Active
<1>2. CASE \/ ReadRun(s) \/ PrepareFails(s) \/ Register(s) \/ StartRun(s)
           \/ EntryAborted(s) \/ EntryObserves(s) \/ EntryExhausted(s) \/ Unregister(s)
  <2>1. task[s].pc # "outcome" /\ task'[s].pc # "outcome"
    <3>1. CASE Register(s) \/ Unregister(s)
      BY <3>1 DEF Register, Unregister, Inv, TypeOK, TaskOK, Tasks
    <3>. QED
      BY <1>2, <3>1, GotoHolds, FinishHolds
      DEF ReadRun, PrepareFails, StartRun, EntryAborted, EntryObserves, EntryExhausted
  <2>2. EndsBoth
    <3>1. CASE StartRun(s)
      BY <1>0, <1>1, <3>1, ParkEndsNothing
      DEF StartRun, Park, ACTIVE_OR_PAUSED_RUN_STATUSES, ACTIVE_RUN_STATUSES
    <3>2. CASE EntryObserves(s)
      BY <1>0, <1>1, <3>2, ParkEndsNothing, UserStopEndsBoth
      DEF EntryObserves, ACTIVE_OR_PAUSED_RUN_STATUSES, PAUSED_RUN_STATUSES
    <3>. QED
      BY <1>1, <1>2, <3>1, <3>2
      DEF ReadRun, PrepareFails, Register, EntryAborted, EntryExhausted, Unregister, rowVars
  <2>. QED
    BY <1>0, <2>1, <2>2, NoVerdict, EndsBothOr
<1>3. CASE Turn(s)
  <2>1. task[s].pc # "outcome" /\ task'[s].pc # "outcome"
    BY <1>3, GotoHolds, FinishHolds
    DEF Turn, InTurn, TurnAborted, TurnContinues, TurnMutates, TurnDefers, ParkDeferred,
        TurnAsksApproval, TurnWritesPlan, ParkPlanned, TurnEnds, TurnThrows
  <2>2. EndsBoth
    <3>1. CASE ParkDeferred(s) \/ ParkPlanned(s)
      BY <1>0, <3>1, ParkEndsNothing
      DEF ParkDeferred, ParkPlanned, ACTIVE_OR_PAUSED_RUN_STATUSES, PAUSED_RUN_STATUSES
    <3>2. CASE TurnAsksApproval(s)
      BY <1>0, <3>2, ParkEndsNothing
      DEF TurnAsksApproval, Gated, ACTIVE_OR_PAUSED_RUN_STATUSES, PAUSED_RUN_STATUSES
    <3>3. CASE TurnMutates(s)
      BY <3>3 DEF TurnMutates, EndsBoth, Active, Inv, TypeOK, RunOK
    <3>. QED
      BY <1>1, <1>3, <3>1, <3>2, <3>3
      DEF Turn, TurnAborted, TurnContinues, TurnDefers, TurnWritesPlan, TurnEnds, TurnThrows,
          rowVars
  <2>. QED
    BY <1>0, <2>1, <2>2, NoVerdict, EndsBothOr
<1>4. CASE FinalizeOutcome(s)
  <2>1. CASE Terminal(r)
    <3>1. task[s].pc # "outcome" /\ task'[s].pc # "outcome"
      BY <1>4, <2>1, GotoHolds DEF FinalizeOutcome, Finalizing
    <3>. QED
      BY <1>0, <1>1, <1>4, <2>1, <3>1, NoVerdict, EndsBothOr DEF FinalizeOutcome
  <2>2. CASE ~Terminal(r)
    <3>1. Park(r, OutcomeStatus(task[s].reason), task[s].reason) /\ Goto(s, "outcome")
      BY <1>4, <2>2 DEF FinalizeOutcome
    <3>2. OthersKept(r) /\ run'[r].st = OutcomeStatus(task[s].reason)
      BY <1>0, <3>1, WriteKeepsOthers DEF Inv, TypeOK
    <3>3. SameHolder(s) /\ task'[s].pc = "outcome"
      BY <3>1, GotoHolds
    <3>4. ~Active(r)'
      BY <3>2, <3>3
      DEF OutcomeStatus, Active, SameHolder, MyRun, ACTIVE_OR_PAUSED_RUN_STATUSES,
          ACTIVE_RUN_STATUSES, PAUSED_RUN_STATUSES
    <3>. QED
      BY <1>0, <1>4, <2>2, <3>2, <3>3, <3>4
      DEF FinalizeOutcome, Finalizing, Engaged, MyRun, VerdictStep, RunGetsVerdict
  <2>. QED
    BY <2>1, <2>2
<1>5. CASE WriteMissionOutcome(s)
  BY <1>0, <1>5, GotoHolds
  DEF WriteMissionOutcome, OutcomeStatus, VerdictStep, MissionGetsVerdict
<1>6. CASE Finalize(s) /\ ~FinalizeOutcome(s) /\ ~WriteMissionOutcome(s)
  <2>1. task[s].pc # "outcome" /\ task'[s].pc # "outcome"
    <3>1. CASE FinalizeContinuation(s)
      BY <3>1 DEF FinalizeContinuation, Finalizing, Inv, TypeOK, TaskOK, Tasks
    <3>. QED
      BY <1>6, <3>1, GotoHolds
      DEF Finalize, Finalizing, FinalizeParked, FinalizeUserStop, ParkContinuation,
          TakeWakeBack, FinalizeReview, ThrewAfterAbort, PersistErrorPause,
          EnqueueRetryWake, Reconcile, AfterThrow
  <2>2. EndsBoth
    <3>1. CASE FinalizeUserStop(s) \/ ThrewAfterAbort(s)
      BY <1>0, <3>1, UserStopEndsBoth DEF FinalizeUserStop, ThrewAfterAbort
    <3>2. CASE ParkContinuation(s) \/ FinalizeReview(s)
      BY <1>0, <3>2, ParkEndsNothing
      DEF ParkContinuation, FinalizeReview, ACTIVE_OR_PAUSED_RUN_STATUSES,
          PAUSED_RUN_STATUSES
    <3>3. CASE PersistErrorPause(s)
      <4>1. CASE GatedPark(r, "paused_error", "provider_error")
        BY <1>0, <4>1, ParkEndsNothing
        DEF ACTIVE_OR_PAUSED_RUN_STATUSES, PAUSED_RUN_STATUSES
      <4>2. CASE /\ ~Gated(r) /\ mission' = mission
                 /\ run' = [run EXCEPT ![r].st = "paused_error",
                                       ![r].reason = "provider_error",
                                       ![r].retries = @ + 1]
        <5>1. Active(r)
          BY <1>0, <4>2, LiveIsActive DEF Inv, TypeOK, Gated
        <5>. QED
          BY <1>0, <4>2, <5>1
          DEF EndsBoth, Active, Inv, TypeOK, RunOK, ACTIVE_OR_PAUSED_RUN_STATUSES,
              PAUSED_RUN_STATUSES
      <4>. QED
        BY <3>3, <4>1, <4>2 DEF PersistErrorPause
    <3>4. CASE Reconcile(s)
      BY <3>4 DEF Reconcile, ReconciledMission, EndsBoth, Active
    <3>. QED
      BY <1>1, <1>6, <3>1, <3>2, <3>3, <3>4
      DEF Finalize, FinalizeParked, FinalizeContinuation, TakeWakeBack, EnqueueRetryWake,
          rowVars
  <2>. QED
    BY <1>0, <2>1, <2>2, NoVerdict, EndsBothOr
<1>. QED
  BY <1>2, <1>3, <1>4, <1>5, <1>6 DEF RunnerAct

LEMMA WakeEndsNothing ==
  ASSUME Inv, NEW r \in Runs, Active(r), mission' = mission,
         run' = [run EXCEPT ![r].st = "running"]
  PROVE  EndsBoth
BY DEF EndsBoth, Active, Inv, TypeOK, RunOK, ACTIVE_OR_PAUSED_RUN_STATUSES,
       ACTIVE_RUN_STATUSES

LEMMA EntryVerdicts ==
  ASSUME Punctual, Inv, OwnersMinted, NEW s \in Slices,
         Claim(s) \/ (Drive(s) /\ ~RunnerAct(s))
  PROVE  VerdictStep
<1>0. /\ NobodyElse(s) /\ task'[s].pc # "outcome"
  BY ClaimHolds, BeginHolds DEF Drive, RunnerAct, EntryHold, NobodyElse
<1>1. run' = run /\ mission' = mission => EndsBoth
  BY DEF EndsBoth, Active
<1>2. ASSUME EndsBoth, task[s].pc # "outcome"
      PROVE  VerdictStep
  BY <1>0, <1>2, NoVerdict, EndsBothOr
<1>3. ASSUME NEW entry, NEW r \in Runs, NEW owner, NEW retires,
             NEW from \in SUBSET ACTIVE_OR_PAUSED_RUN_STATUSES,
             ClaimRun(s, entry, r, owner, from, retires)
      PROVE  EndsBoth
  BY <1>3, WakeEndsNothing DEF ClaimRun, Active
<1>4. CASE Claim(s)
  <2>1. task[s].pc # "outcome"
    BY <1>4 DEF Claim, AskToBegin, ReadAcceptedPlan, ResumeClaim, RetryClaim, ApprovalClaim,
                WakeDue, UserMessage
  <2>. SUFFICES EndsBoth
    BY <1>2, <2>1
  <2>2. CASE AskToBegin(s) \/ ReadAcceptedPlan(s) \/ WakeDue(s) \/ UserMessage(s)
    BY <1>1, <2>2 DEF AskToBegin, ReadAcceptedPlan, WakeDue, UserMessage, rowVars
  <2>3. CASE ResumeClaim(s) \/ RetryClaim(s)
    <3>1. \A r \in ActiveRuns : r \in Runs /\ {run[r].st} \in SUBSET ACTIVE_OR_PAUSED_RUN_STATUSES
      BY DEF ActiveRuns, Active
    <3>2. CASE ResumeClaim(s)
      BY <1>3, <3>1, <3>2 DEF ResumeClaim
    <3>3. CASE RetryClaim(s)
      BY <1>3, <3>1, <3>3 DEF RetryClaim
    <3>. QED
      BY <2>3, <3>2, <3>3
  <2>4. CASE ApprovalClaim(s)
    <3>1. approval.run \in Runs /\ Active(approval.run)
      BY <2>4
      DEF ApprovalClaim, Inv, TypeOK, RowsOK, NoApproval, Active, ACTIVE_RUN_STATUSES,
          APPROVAL_RESUME_CLAIMABLE_RUN_STATUSES, ACTIVE_OR_PAUSED_RUN_STATUSES,
          PAUSED_RUN_STATUSES
    <3>. QED
      BY <2>4, <3>1, WakeEndsNothing DEF ApprovalClaim
  <2>. QED
    BY <1>4, <2>2, <2>3, <2>4 DEF Claim
<1>5. CASE CreateRun(s)
  <2>1. task[s].pc = "commit"
    BY <1>5 DEF CreateRun
  <2>2. CASE run' = run /\ mission' = mission
    BY <1>1, <1>2, <2>1, <2>2
  <2>3. ASSUME NEW r \in Runs, run' = [run EXCEPT ![r].st = "running"], mission' = "running",
               task' = [task EXCEPT ![s].pc = "registering", ![s].run = r],
               ~(task[s].entry = "start" /\ StartRefused)
        PROVE  VerdictStep
    <3>1. ActiveRuns = {}
      BY <2>1, <2>3 DEF Inv, References, Punctual, StartRefused
    <3>2. task'[s].pc = "registering"
      BY <2>3 DEF Inv, TypeOK, TaskOK, Tasks
    <3>3. r \in ActiveRuns'
      BY <2>3 DEF ActiveRuns, Active, Inv, TypeOK, RunOK, ACTIVE_OR_PAUSED_RUN_STATUSES,
                  ACTIVE_RUN_STATUSES
    <3>. QED
      BY <1>0, <2>1, <2>3, <3>1, <3>2, <3>3, NoVerdict DEF VerdictStep, StartBegins
  <2>. QED
    BY <1>5, <2>2, <2>3 DEF CreateRun, ApplySessionStop
<1>6. CASE \/ StartClaim(s) \/ RecoverClaim(s) \/ RecheckActive(s) \/ ResumeAccepted(s)
           \/ WakeClaim(s) \/ PreemptClaim(s) \/ Release(s)
  <2>1. task[s].pc # "outcome"
    BY <1>6 DEF StartClaim, RecoverClaim, RecheckActive, ResumeAccepted, WakeClaim,
                PreemptClaim, Release
  <2>. SUFFICES EndsBoth
    BY <1>2, <2>1
  <2>2. CASE StartClaim(s) \/ RecoverClaim(s) \/ RecheckActive(s) \/ Release(s)
    BY <1>1, <2>2 DEF StartClaim, RecoverClaim, ClaimSession, RecheckActive, Release, rowVars
  <2>3. CASE ResumeAccepted(s)
    <3>1. task[s].run \in Runs
      BY <2>3, HoldsRun DEF ResumeAccepted, RunPCs, TaskPCs
    <3>. QED
      BY <1>1, <1>3, <2>3, <3>1
      DEF ResumeAccepted, rowVars, ACTIVE_OR_PAUSED_RUN_STATUSES, PAUSED_RUN_STATUSES
  <2>4. CASE WakeClaim(s)
    <3>1. task[s].wake.run \in Runs
      BY <2>4 DEF WakeClaim, Inv, TypeOK, TaskOK, Tasks, WakeRows
    <3>2. Wakeable(task[s].wake) => run[task[s].wake.run].st \in {"paused_wake", "paused_error"}
      BY DEF Wakeable, StillRetryable
    <3>. QED
      BY <1>1, <1>3, <2>4, <3>1, <3>2
      DEF WakeClaim, rowVars, ACTIVE_OR_PAUSED_RUN_STATUSES, PAUSED_RUN_STATUSES
  <2>5. CASE PreemptClaim(s)
    BY <2>5 DEF PreemptClaim, OwnersMinted
  <2>. QED
    BY <1>6, <2>2, <2>3, <2>4, <2>5
<1>. QED
  BY <1>4, <1>5, <1>6 DEF Drive, RunnerAct

LEMMA WorldVerdicts ==
  ASSUME Inv, \/ OperatorAsks \/ OperatorProceeds \/ FindOrphan \/ ReclaimOrphan
              \/ LeaseExpires \/ \E s \in Slices : Heartbeat(s)
  PROVE  VerdictStep
<1>1. SameVerdicts
  <2>1. CASE LeaseExpires \/ \E s \in Slices : Heartbeat(s)
    BY <2>1
    DEF LeaseExpires, Heartbeat, memVars, SameVerdicts, Inv, TypeOK, TaskOK, Tasks
  <2>. QED
    BY <2>1, OperatorHolds, ReclaimHolds DEF WorldHold, SamePlace, SameVerdicts
<1>2. run' = run /\ mission' = mission => EndsBoth
  BY DEF EndsBoth, Active
<1>3. EndsBoth
  <2>0. op.pc \notin {"idle", "session", "abort"} => op.run \in Runs /\ Born(op.run)
    BY DEF Inv, TypeOK, MemoryOK, References
  <2>1. CASE AbortApplies \/ EditApplies
    BY <2>0, <2>1, UserStopEndsBoth DEF AbortApplies, EditApplies
  <2>2. CASE EditReconciles
    BY <2>2 DEF EditReconciles, ReconciledMission, EndsBoth, Active
  <2>3. CASE ReclaimOrphan
    <3>1. orphan \in Runs /\ Born(orphan)
      BY <2>3 DEF ReclaimOrphan, Inv, TypeOK, MemoryOK, MaybeRun, References
    <3>. QED
      BY <1>2, <2>3, <3>1, ParkEndsNothing
      DEF ReclaimOrphan, ACTIVE_OR_PAUSED_RUN_STATUSES, PAUSED_RUN_STATUSES
  <2>4. CASE \/ OperatorAsks \/ FindOrphan \/ LeaseExpires
             \/ \E s \in Slices : Heartbeat(s)
             \/ OperatorProceeds /\ ~AbortApplies /\ ~EditApplies /\ ~EditReconciles
    BY <1>2, <2>4
    DEF OperatorAsks, PauseAsked, StopAsked, EditAsked, AcceptPlan, DecideApproval,
        OperatorProceeds, EnqueuePause, EnqueueStop, SignalStop, StopSession, StopRerouted,
        AbortReads, AbortCancelsWakes, AbortRejectsApprovals, AbortSignals,
        EditCancelsWakes, EditSignals, FindOrphan, LeaseExpires, Heartbeat, rowVars
  <2>. QED
    BY <2>1, <2>2, <2>3, <2>4
<1>. QED
  BY <1>1, <1>3, EndsBothOr

LEMMA VerdictSteps ==
  ASSUME Punctual, Inv, OwnersMinted, [Step]_vars
  PROVE  VerdictStep
<1>1. UNCHANGED vars => VerdictStep
  BY DEF vars, VerdictStep, RowsAgree, SameVerdicts, Active
<1>. QED
  BY <1>1, RunnerVerdicts, EntryVerdicts, WorldVerdicts DEF Step

\* Of two verdicts in hand, or a verdict and a start, one would not hold the
\* lease.
LEMMA OneVerdict ==
  ASSUME Exclusion, VerdictHeld, VerdictStep, NEW t \in Slices, task[t].pc = "outcome",
         StartHeld
  PROVE  \/ RowsAgree
         \/ MissionGetsVerdict(t)
<1>0. HoldsLease(t) /\ ActiveRuns = {} /\ OwnersMinted /\ Inv
  BY DEF VerdictHeld, Exclusion
<1>1. ~StopEnds
  BY <1>0 DEF StopEnds, ActiveRuns
<1>2. ~StartBegins
  <2>. SUFFICES ASSUME NEW s \in Slices, task[s].pc = "commit", task'[s].pc = "registering"
                PROVE  FALSE
    BY DEF StartBegins
  <2>. QED
    BY <1>0, OneHolder DEF StartHeld
<1>3. ASSUME NEW s \in Slices, RunGetsVerdict(s)
      PROVE  FALSE
  BY <1>0, <1>3, EngagedRun, LiveIsActive DEF RunGetsVerdict, ActiveRuns, Inv, TypeOK
<1>4. ASSUME NEW s \in Slices, MissionGetsVerdict(s)
      PROVE  s = t
  BY <1>0, <1>4, OneHolder DEF MissionGetsVerdict, VerdictHeld
<1>. QED
  BY <1>1, <1>2, <1>3, <1>4 DEF VerdictStep

LEMMA VerdictHeldKept ==
  ASSUME Punctual, Exclusion, VerdictHeld, StartHeld, [Step]_vars
  PROVE  VerdictHeld'
<1>. SUFFICES ASSUME NEW t \in Slices, task'[t].pc = "outcome"
              PROVE  HoldsLease(t)' /\ ActiveRuns' = {}
  BY DEF VerdictHeld
<1>0. /\ Inv /\ OwnersMinted /\ [Next]_vars
      /\ VerdictStep
  BY VerdictSteps DEF Exclusion, Next
<1>1. CASE task[t].pc = "outcome"
  <2>1. HoldsLease(t) /\ ActiveRuns = {} /\ RowsAgree
    BY <1>0, <1>1, OneVerdict DEF VerdictHeld, MissionGetsVerdict
  <2>2. ActiveRuns' = {}
    BY <2>1 DEF RowsAgree, ActiveRuns
  <2>3. \A r \in Runs : ~LeaseStopped(r)
    BY <2>1 DEF LeaseStopped, ActiveRuns
  <2>4. ASSUME NEW s \in Slices, RunnerHold(s)
        PROVE  HoldsLease(t)'
    <3>1. lease' = lease
      BY <1>0, <2>3, <2>4, HoldsRun DEF RunnerHold
    <3>. QED
      BY <2>1, <2>4, <3>1 DEF RunnerHold, SameHolder, HoldsLease
  <2>5. ASSUME NEW s \in Slices, EntryHold(s)
        PROVE  HoldsLease(t)'
    <3>1. t # s /\ task'[t] = task[t]
      BY <2>5 DEF EntryHold
    <3>2. ~Seizes(s) /\ ~GivesBack(s)
      BY <1>0, <2>1, <3>1, OneHolder DEF Seizes, GivesBack
    <3>. QED
      BY <2>1, <2>5, <3>1, <3>2 DEF EntryHold, StaysOut, Creates, HoldsLease
  <2>6. CASE WorldHold
    BY <2>1, <2>2, <2>3, <2>6 DEF WorldHold, SamePlace, SameHolder, HoldsLease
  <2>7. ASSUME NEW s \in Slices, Heartbeat(s)
        PROVE  HoldsLease(t)'
    BY <1>0, <2>1, <2>7 DEF Heartbeat, HoldsLease, Inv, TypeOK, TaskOK, Tasks
  <2>8. CASE LeaseExpires
    BY <2>1, <2>8 DEF LeaseExpires, memVars, Punctual, Held, HoldsLease, Mine, NoOwner
  <2>9. ~Restart
    BY DEF Restart, IdleTask, NewTask
  <2>. QED
    BY <1>0, <2>2, <2>4, <2>5, <2>6, <2>7, <2>8, <2>9, StepKinds
<1>2. CASE task[t].pc # "outcome"
  <2>1. RunGetsVerdict(t)
    BY <1>0, <1>2 DEF VerdictStep, RowsAgree, StopEnds, StartBegins, SameVerdicts,
                      RunGetsVerdict, MissionGetsVerdict, NobodyElse
  <2>. DEFINE r == task[t].run
  <2>2. r \in Runs /\ Active(r) /\ ~Terminal(r)
    BY <1>0, <2>1, EngagedRun, LiveIsActive DEF RunGetsVerdict, Inv, TypeOK
  <2>3. HoldsLease(t)'
    BY <2>1, <2>2 DEF RunGetsVerdict, SameHolder, Exclusion, DriversHold, HoldsLease
  <2>4. \A q \in Runs : Active(q) => q = r
    BY <2>2 DEF Exclusion, AtMostOneActive, ActiveRuns
  <2>5. run'[r].st \notin ACTIVE_OR_PAUSED_RUN_STATUSES
    BY <2>1 DEF RunGetsVerdict, SameHolder, Active
  <2>. QED
    BY <2>1, <2>3, <2>4, <2>5 DEF RunGetsVerdict, OthersKept, Kept, Active, ActiveRuns
<1>. QED
  BY <1>1, <1>2

LEMMA AgreesKept ==
  ASSUME Punctual, Agreement, StartHeld, [Step]_vars
  PROVE  MissionAgrees'
<1>. SUFFICES ASSUME \A s \in Slices : task'[s].pc # "outcome"
              PROVE  mission' = "running" <=> ActiveRuns' # {}
  BY DEF MissionAgrees
<1>0. /\ Exclusion /\ VerdictHeld /\ MissionAgrees /\ Inv
      /\ VerdictStep
  BY VerdictSteps DEF Agreement, Exclusion
<1>1. CASE \E t \in Slices : task[t].pc = "outcome"
  <2>1. PICK t \in Slices : task[t].pc = "outcome"
    BY <1>1
  <2>2. MissionGetsVerdict(t) /\ ActiveRuns = {}
    BY <1>0, <2>1, OneVerdict DEF VerdictHeld, RowsAgree, SameVerdicts
  <2>. QED
    BY <2>2 DEF MissionGetsVerdict, ActiveRuns, Active
<1>2. CASE \A s \in Slices : task[s].pc # "outcome"
  <2>1. mission = "running" <=> ActiveRuns # {}
    BY <1>0, <1>2 DEF MissionAgrees
  <2>2. CASE RowsAgree
    BY <2>1, <2>2 DEF RowsAgree, ActiveRuns
  <2>3. CASE StopEnds
    BY <1>0, <2>3 DEF StopEnds, Exclusion, AtMostOneActive, ActiveRuns, OthersKept, Kept,
                      Active
  <2>4. CASE StartBegins
    BY <2>4 DEF StartBegins
  <2>. QED
    BY <1>0, <1>2, <2>2, <2>3, <2>4 DEF VerdictStep, RunGetsVerdict, MissionGetsVerdict
<1>. QED
  BY <1>1, <1>2

\* The two rows of a mission tell one story while the process lives: the start
\* writes both in one transaction, so does a stop, and between the two
\* statements by which a verdict reaches them the finalizer has the lease.  (A
\* process that dies between the two leaves them apart.)
THEOREM MissionFollowsRun ==
  ASSUME Punctual
  PROVE  Init /\ [][Step]_vars /\ SafeStarts => []MissionAgrees
<1>1. Init => VerdictHeld /\ MissionAgrees
  BY DEF Init, VerdictHeld, MissionAgrees, IdleTask, NewTask, NewRun, ActiveRuns, Active,
         ACTIVE_OR_PAUSED_RUN_STATUSES, ACTIVE_RUN_STATUSES, PAUSED_RUN_STATUSES
<1>2. Exclusion /\ VerdictHeld /\ MissionAgrees /\ [Step]_vars /\ [StartHeld]_vars =>
        VerdictHeld' /\ MissionAgrees'
  <2>1. UNCHANGED vars => StartHeld
    BY DEF vars, StartHeld
  <2>. QED
    BY <2>1, VerdictHeldKept, AgreesKept DEF Agreement
<1>3. [Step]_vars => [Next]_vars
  BY DEF Next
<1>. QED
  BY <1>1, <1>2, <1>3, ExclusionSafe, FirstRunHeld, PTL
  DEF Spec, SafeStarts, StartsHoldTheLease, StartHeld
=============================================================================
