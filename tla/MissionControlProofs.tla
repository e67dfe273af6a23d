------------------------ MODULE MissionControlProofs ------------------------
(***************************************************************************)
(* What MissionControl guarantees for every set of runs, slices, entries,  *)
(* commands and outcomes, and every bound.                                 *)
(***************************************************************************)
EXTENDS MissionControl, TLAPS

-----------------------------------------------------------------------------
(* Type correctness: what the helpers write.                               *)

\* The values the helpers write into rows and slices are well typed.
LEMMA Values ==
  /\ NoLease \in [owner : Owners, fresh : BOOLEAN]
  /\ NoWake \in WakeRows
  /\ NoOwner \in Owners /\ DeadOwner \in Owners
  /\ \A s \in Slices : <<"fresh", s>> \in Owners
  /\ \A r \in Runs : <<"preempt", r>> \in Owners /\ <<"recover", r>> \in Owners
BY DEF NoLease, NoWake, NoOwner, DeadOwner, Owners, WakeRows

\* Every status and every reason the actions write is in the vocabulary.
LEMMA Vocabulary ==
  /\ {"running", "stopped", "completed", "failed", "paused_approval", "paused_wake",
      "paused_error", "paused_user", "paused_plan_acceptance"} \subseteq MISSION_RUN_STATUSES
  /\ STOP_REASONS \cup {"none", "provider_error", "restart_orphan"} \subseteq ROW_REASONS
  /\ {"goal_reached", "max_loss_hit", "iteration_limit", "no_progress", "user_paused",
      "approval_required", "waiting_for_wake", "plan_acceptance_required",
      "user_stopped", "system_error"} \subseteq STOP_REASONS
BY DEF MISSION_RUN_STATUSES, ACTIVE_OR_PAUSED_RUN_STATUSES, ACTIVE_RUN_STATUSES,
       PAUSED_RUN_STATUSES, TERMINAL_RUN_STATUSES, ROW_REASONS, STOP_REASONS,
       BUSINESS_OUTCOMES, CONTINUABLE_STOPS, REVIEW_STOPS, PARKED_STOPS

LEMMA NewTaskOK ==
  ASSUME NEW pc \in TaskPCs, NEW entry \in ALL_ENTRIES \cup {"none"},
         NEW r \in MaybeRun, NEW owner \in Owners, NEW w \in WakeRows
  PROVE  NewTask(pc, entry, r, owner, w) \in Tasks
BY Vocabulary DEF NewTask, Tasks

\* A slice may be given any well-typed record in which a step that needs a run
\* has one and a step that holds a wake has that.
LEMMA AssignOK ==
  ASSUME TaskOK, NEW s \in Slices, NEW t \in Tasks,
         t.pc \in RunPCs => t.run \in Runs,
         t.pc = "woken" => t.wake # NoWake,
         task' = [task EXCEPT ![s] = t]
  PROVE  TaskOK'
BY DEF TaskOK

\* Moving one slice to another step.
LEMMA GotoOK ==
  ASSUME TaskOK, NEW s \in Slices, NEW pc \in TaskPCs, pc # "woken",
         pc \in RunPCs => task[s].run \in Runs, Goto(s, pc)
  PROVE  TaskOK'
<1>. DEFINE t == [task[s] EXCEPT !.pc = pc]
<1>1. task[s] \in Tasks
  BY DEF TaskOK
<1>2. t \in Tasks /\ t.pc = pc /\ t.run = task[s].run
  BY <1>1 DEF Tasks
<1>3. task' = [task EXCEPT ![s] = t]
  BY DEF Goto, TaskOK
<1>. QED
  BY <1>2, <1>3, AssignOK

LEMMA FinishOK ==
  ASSUME TaskOK, NEW s \in Slices, NEW reason \in ROW_REASONS,
         task[s].run \in Runs, Finish(s, reason)
  PROVE  TaskOK'
<1>. DEFINE t == [task[s] EXCEPT !.pc = "finalize", !.reason = reason]
<1>1. task' = [task EXCEPT ![s] = t]
  BY DEF Finish, TaskOK
<1>2. task[s] \in Tasks /\ "finalize" \in TaskPCs
  BY DEF TaskOK, TaskPCs
<1>3. t \in Tasks /\ t.pc = "finalize" /\ t.run = task[s].run
  BY <1>2 DEF Tasks
<1>. QED
  BY <1>1, <1>3, AssignOK

LEMMA QuitOK ==
  ASSUME TaskOK, NEW s \in Slices, Quit(s)
  PROVE  TaskOK'
<1>1. IdleTask \in Tasks /\ IdleTask.pc = "idle"
  BY Values, NewTaskOK DEF IdleTask, NewTask, TaskPCs, MaybeRun
<1>. QED
  BY <1>1, AssignOK DEF Quit, RunPCs

LEMMA SeizeOK ==
  ASSUME TypeOK, NEW s \in Slices, NEW entry \in ALL_ENTRIES \cup {"none"},
         NEW r \in MaybeRun, NEW owner \in Owners, NEW pc \in {"claimed", "prepare"},
         pc = "claimed" => r \in Runs, Seize(s, entry, r, owner, pc)
  PROVE  TaskOK' /\ lease' \in [owner : Owners, fresh : BOOLEAN]
<1>. DEFINE t == NewTask(pc, entry, r, owner, NoWake)
<1>1. t \in Tasks /\ t.pc = pc /\ t.run = r
  BY Values, NewTaskOK DEF NewTask, TaskPCs
<1>. QED
  BY <1>1, AssignOK DEF Seize, TypeOK, RunPCs

LEMMA SignalOK ==
  ASSUME TypeOK, NEW r, Signal(r)
  PROVE  TaskOK'
<1>. DEFINE aborted(s) == [task[s] EXCEPT !.signal = "aborted"]
<1>1. ASSUME NEW s \in Slices
      PROVE  /\ aborted(s) \in Tasks /\ aborted(s).pc = task[s].pc
             /\ aborted(s).run = task[s].run /\ aborted(s).wake = task[s].wake
  BY DEF TypeOK, TaskOK, Tasks
<1>2. task' = [s \in Slices |-> IF s \in ctl[r] THEN aborted(s) ELSE task[s]]
  BY DEF Signal
<1>. HIDE DEF aborted
<1>. QED
  BY <1>1, <1>2 DEF TypeOK, TaskOK

LEMMA ParkOK ==
  ASSUME RunOK, NEW r, NEW status \in MISSION_RUN_STATUSES,
         NEW reason \in ROW_REASONS, Park(r, status, reason)
  PROVE  RunOK'
BY DEF RunOK, Park

LEMMA RejectPendingOK ==
  ASSUME RowsOK
  PROVE  RejectPending \in {NoApproval} \cup [st : {"pending", "decided"}, run : Runs]
BY DEF RowsOK, RejectPending

LEMMA ApplyUserStopOK ==
  ASSUME TypeOK, NEW r, NEW missionTo \in MissionStatus,
         ApplyUserStop(r, missionTo), plan' = plan
  PROVE  RunOK' /\ RowsOK'
BY Values, RejectPendingOK
DEF TypeOK, RunOK, RowsOK, ApplyUserStop, WithoutStops, MISSION_RUN_STATUSES,
    TERMINAL_RUN_STATUSES, ROW_REASONS, STOP_REASONS

LEMMA LandGatedStopOK ==
  ASSUME TypeOK, NEW r, LandGatedStop(r), plan' = plan
  PROVE  RunOK' /\ RowsOK'
<1>1. CASE Terminal(r)
  BY <1>1 DEF TypeOK, RunOK, RowsOK, LandGatedStop
<1>2. CASE ~Terminal(r)
  BY <1>2, ApplyUserStopOK DEF LandGatedStop, MissionStatus
<1>. QED
  BY <1>1, <1>2

LEMMA GatedParkOK ==
  ASSUME TypeOK, NEW r, NEW status \in MISSION_RUN_STATUSES,
         NEW reason \in ROW_REASONS, GatedPark(r, status, reason), plan' = plan
  PROVE  RunOK' /\ RowsOK'
<1>1. CASE Gated(r)
  BY <1>1, LandGatedStopOK DEF GatedPark
<1>2. CASE ~Gated(r)
  BY <1>2, ParkOK DEF GatedPark, TypeOK, RowsOK
<1>. QED
  BY <1>1, <1>2

-----------------------------------------------------------------------------
(* Type correctness: the actions of a slice.                               *)

LEMMA ClaimRunOK ==
  ASSUME TypeOK, NEW s \in Slices, NEW entry \in ALL_ENTRIES, NEW r \in Runs,
         NEW owner \in Owners, NEW from, NEW retires,
         ClaimRun(s, entry, r, owner, from, retires)
  PROVE  TypeOK'
<1>1. TaskOK' /\ lease' \in [owner : Owners, fresh : BOOLEAN]
  BY SeizeOK DEF ClaimRun, MaybeRun
<1>2. RunOK'
  BY Vocabulary DEF ClaimRun, TypeOK, RunOK
<1>. QED
  BY <1>1, <1>2, Values DEF ClaimRun, TypeOK, RowsOK, MemoryOK

LEMMA ClaimOK ==
  ASSUME TypeOK, NEW s \in Slices, Claim(s)
  PROVE  TypeOK'
<1>1. CASE AskToBegin(s)
  <2>1. PICK entry \in Entries \cap {"start", "recover"} :
          task' = [task EXCEPT ![s] = NewTask("asked", entry, NoRun, NoOwner, NoWake)]
    BY <1>1 DEF AskToBegin
  <2>2. TaskOK'
    BY <2>1, Values, NewTaskOK, AssignOK
    DEF TypeOK, NewTask, TaskPCs, RunPCs, MaybeRun, ALL_ENTRIES
  <2>. QED
    BY <1>1, <2>2 DEF AskToBegin, TypeOK, RunOK, RowsOK, MemoryOK, rowVars
<1>2. CASE ReadAcceptedPlan(s)
  <2>1. PICK r \in Runs :
          task' = [task EXCEPT ![s] = NewTask("resuming", "none", r, NoOwner, NoWake)]
    BY <1>2 DEF ReadAcceptedPlan
  <2>2. TaskOK'
    BY <2>1, Values, NewTaskOK, AssignOK
    DEF TypeOK, NewTask, TaskPCs, RunPCs, MaybeRun
  <2>. QED
    BY <1>2, <2>2 DEF ReadAcceptedPlan, TypeOK, RunOK, RowsOK, MemoryOK, rowVars
<1>3. CASE ResumeClaim(s)
  BY <1>3, Values, ClaimRunOK DEF ResumeClaim, ActiveRuns, ALL_ENTRIES
<1>4. CASE RetryClaim(s)
  BY <1>4, Values, ClaimRunOK DEF RetryClaim, ActiveRuns, ALL_ENTRIES
<1>5. CASE ApprovalClaim(s)
  <2>1. approval.run \in Runs
    BY <1>5 DEF ApprovalClaim, TypeOK, RowsOK, NoApproval
  <2>2. TaskOK' /\ lease' \in [owner : Owners, fresh : BOOLEAN]
    BY <1>5, <2>1, Values, SeizeOK DEF ApprovalClaim, MaybeRun, ALL_ENTRIES
  <2>3. RunOK'
    BY <1>5, <2>1, Vocabulary DEF ApprovalClaim, TypeOK, RunOK
  <2>. QED
    BY <1>5, <2>2, <2>3 DEF ApprovalClaim, TypeOK, RowsOK, MemoryOK
<1>6. CASE WakeDue(s)
  <2>1. TaskOK'
    BY <1>6, Values, NewTaskOK, AssignOK
    DEF WakeDue, TypeOK, RowsOK, NewTask, TaskPCs, RunPCs, MaybeRun
  <2>. QED
    BY <1>6, <2>1, Values DEF WakeDue, TypeOK, RunOK, RowsOK, MemoryOK
<1>7. CASE UserMessage(s)
  <2>1. TaskOK'
    BY <1>7, GotoOK DEF UserMessage, Goto, TypeOK, TaskPCs, RunPCs
  <2>. QED
    BY <1>7, <2>1, Values DEF UserMessage, TypeOK, RunOK, RowsOK, MemoryOK
<1>. QED
  BY <1>1, <1>2, <1>3, <1>4, <1>5, <1>6, <1>7 DEF Claim

\* A slice that only moves leaves everything else well typed.
LEMMA MoveOK ==
  ASSUME TypeOK, TaskOK', UNCHANGED <<rowVars, ctl, intent, op, orphan>>
  PROVE  TypeOK'
BY DEF TypeOK, RunOK, RowsOK, MemoryOK, rowVars

\* ApplySessionStop, like every stop, only shrinks the queue.
LEMMA ApplySessionStopOK ==
  ASSUME TypeOK, ApplySessionStop, plan' = plan
  PROVE  RunOK' /\ RowsOK'
BY Values, RejectPendingOK DEF TypeOK, RunOK, RowsOK, ApplySessionStop, WithoutStops

LEMMA ClaimSessionOK ==
  ASSUME TypeOK, NEW s \in Slices, NEW owner \in Owners, ClaimSession(s, owner)
  PROVE  TypeOK'
<1>1. CASE Seize(s, task[s].entry, NoRun, owner, "prepare")
  <2>1. task[s].entry \in ALL_ENTRIES \cup {"none"}
    BY DEF TypeOK, TaskOK, Tasks
  <2>2. TaskOK' /\ lease' \in [owner : Owners, fresh : BOOLEAN]
    BY <1>1, <2>1, SeizeOK DEF MaybeRun
  <2>. QED
    BY <2>2 DEF ClaimSession, TypeOK, RunOK, RowsOK, MemoryOK
<1>2. CASE Quit(s) /\ UNCHANGED lease
  <2>1. TaskOK'
    BY <1>2, QuitOK DEF TypeOK
  <2>. QED
    BY <1>2, <2>1, MoveOK DEF ClaimSession, rowVars
<1>. QED
  BY <1>1, <1>2 DEF ClaimSession

LEMMA CreateRunOK ==
  ASSUME TypeOK, NEW s \in Slices, CreateRun(s)
  PROVE  TypeOK'
<1>0. Goto(s, "release") => TaskOK'
  BY GotoOK DEF TypeOK, TaskPCs, RunPCs
<1>1. CASE Goto(s, "release") /\ ApplySessionStop
  BY <1>0, <1>1, ApplySessionStopOK DEF CreateRun, TypeOK, MemoryOK
<1>3. CASE Goto(s, "release") /\ UNCHANGED <<run, mission, lease, wake, reqs, approval>>
  BY <1>0, <1>3, MoveOK DEF CreateRun, rowVars
<1>2. ASSUME NEW r \in Runs, run' = [run EXCEPT ![r].st = "running"],
             task' = [task EXCEPT ![s].pc = "registering", ![s].run = r],
             mission' = "running", UNCHANGED <<lease, wake, reqs, approval>>
      PROVE  TypeOK'
  <2>. DEFINE t == [task[s] EXCEPT !.pc = "registering", !.run = r]
  <2>1. task' = [task EXCEPT ![s] = t]
    BY <1>2 DEF TypeOK, TaskOK
  <2>0. task[s] \in Tasks /\ "registering" \in TaskPCs /\ r \in MaybeRun
    BY DEF TypeOK, TaskOK, TaskPCs, MaybeRun
  <2>2. t \in Tasks /\ t.pc = "registering" /\ t.run = r
    BY <2>0 DEF Tasks
  <2>3. TaskOK'
    BY <2>1, <2>2, AssignOK DEF TypeOK
  <2>4. RunOK'
    BY <1>2, Vocabulary DEF TypeOK, RunOK
  <2>. QED
    BY <1>2, <2>3, <2>4 DEF CreateRun, TypeOK, RowsOK, MemoryOK, MissionStatus
<1>. QED
  BY <1>1, <1>2, <1>3 DEF CreateRun

\* The second half of a claim: StartClaim to PreemptClaim.
LEMMA BeginOK ==
  ASSUME TypeOK, NEW s \in Slices,
         \/ StartClaim(s) \/ RecoverClaim(s) \/ RecheckActive(s) \/ CreateRun(s)
         \/ ResumeAccepted(s) \/ WakeClaim(s) \/ PreemptClaim(s)
  PROVE  TypeOK'
<1>0. ASSUME Quit(s), UNCHANGED <<rowVars, ctl, intent, op, orphan>>
      PROVE  TypeOK'
  BY <1>0, QuitOK, MoveOK DEF TypeOK
<1>1. CASE StartClaim(s)
  BY <1>1, Values, ClaimSessionOK DEF StartClaim
<1>2. CASE RecoverClaim(s)
  BY <1>0, <1>2, Values, ClaimSessionOK DEF RecoverClaim
<1>3. CASE RecheckActive(s)
  <2>1. TaskOK'
    BY <1>3, GotoOK DEF RecheckActive, TypeOK, TaskPCs, RunPCs
  <2>. QED
    BY <1>3, <2>1, MoveOK DEF RecheckActive
<1>4. CASE CreateRun(s)
  BY <1>4, CreateRunOK
<1>5. CASE ResumeAccepted(s)
  <2>1. task[s].run \in Runs
    BY <1>5 DEF ResumeAccepted, TypeOK, TaskOK, RunPCs, TaskPCs
  <2>. QED
    BY <1>0, <1>5, <2>1, Values, ClaimRunOK DEF ResumeAccepted, ALL_ENTRIES
<1>6. CASE WakeClaim(s)
  <2>1. task[s].wake.run \in Runs
    BY <1>6 DEF WakeClaim, TypeOK, TaskOK, Tasks, WakeRows
  <2>. QED
    BY <1>0, <1>6, <2>1, Values, ClaimRunOK DEF WakeClaim, ALL_ENTRIES
<1>7. CASE PreemptClaim(s)
  BY <1>0, <1>7, Values, ClaimRunOK DEF PreemptClaim, ALL_ENTRIES
<1>. QED
  BY <1>1, <1>2, <1>3, <1>4, <1>5, <1>6, <1>7

\* ReadRun to EntryExhausted.
LEMMA LoopOK ==
  ASSUME TypeOK, NEW s \in Slices,
         \/ ReadRun(s) \/ PrepareFails(s) \/ Register(s) \/ StartRun(s)
         \/ EntryAborted(s) \/ EntryObserves(s) \/ EntryExhausted(s)
  PROVE  TypeOK'
<1>0. task[s].run \in Runs
  BY DEF TypeOK, TaskOK, RunPCs, TaskPCs, ReadRun, PrepareFails, Register, StartRun,
         EntryAborted, EntryObserves, EntryExhausted
<1>1. \A pc \in TaskPCs : Goto(s, pc) /\ pc # "woken" => TaskOK'
  BY <1>0, GotoOK DEF TypeOK
<1>2. \A reason \in ROW_REASONS : Finish(s, reason) => TaskOK'
  BY <1>0, FinishOK DEF TypeOK
<1>3. CASE ReadRun(s)
  BY <1>1, <1>3, MoveOK DEF ReadRun, TaskPCs
<1>4. CASE PrepareFails(s)
  BY <1>1, <1>4, MoveOK DEF PrepareFails, TaskPCs
<1>5. CASE Register(s)
  <2>. DEFINE signal == IF \E o \in ctl[task[s].run] : Aborted(o) THEN "aborted" ELSE "live"
              pc == IF task[s].entry = "start" THEN "loop" ELSE "starting"
              t == [task[s] EXCEPT !.signal = signal, !.pc = pc]
  <2>1. task' = [task EXCEPT ![s] = t]
    BY <1>5 DEF Register, MyRun, TypeOK, TaskOK
  <2>0. /\ task[s] \in Tasks /\ signal \in {"none", "live", "aborted"}
        /\ pc \in TaskPCs /\ pc # "woken"
    BY DEF TypeOK, TaskOK, TaskPCs
  <2>. HIDE DEF signal, pc
  <2>2. t \in Tasks /\ t.pc # "woken" /\ t.run = task[s].run
    BY <2>0 DEF Tasks
  <2>3. TaskOK'
    BY <1>0, <2>1, <2>2, AssignOK DEF TypeOK
  <2>. QED
    BY <1>5, <2>3 DEF Register, TypeOK, RunOK, RowsOK, MemoryOK, rowVars
<1>6. CASE StartRun(s)
  <2>1. RunOK'
    BY <1>6, Vocabulary DEF StartRun, TypeOK, RunOK
  <2>. QED
    BY <1>1, <1>6, <2>1 DEF StartRun, TypeOK, RowsOK, MemoryOK, TaskPCs
<1>7. CASE EntryAborted(s)
  BY <1>2, <1>7, MoveOK, Vocabulary DEF EntryAborted
<1>8. CASE EntryObserves(s)
  <2>1. CASE Goto(s, "turn") /\ run' = run /\ UNCHANGED <<mission, lease, wake, approval>>
             /\ reqs' \subseteq reqs
    BY <1>1, <1>8, <2>1 DEF EntryObserves, TypeOK, RunOK, RowsOK, MemoryOK, TaskPCs
  <2>2. CASE /\ Finish(s, "user_paused") /\ UNCHANGED <<mission, lease, approval>>
             /\ IF Terminal(MyRun(s)) THEN UNCHANGED run
                ELSE Park(MyRun(s), "paused_user", "user_paused")
             /\ wake' \in {NoWake, wake} /\ reqs' \subseteq reqs
    <3>1. RunOK'
      <4>1. CASE Terminal(MyRun(s))
        BY <2>2, <4>1 DEF TypeOK, RunOK
      <4>2. CASE ~Terminal(MyRun(s))
        BY <2>2, <4>2, ParkOK, Vocabulary DEF TypeOK
      <4>. QED
        BY <4>1, <4>2
    <3>2. TaskOK'
      BY <1>2, <2>2, Vocabulary
    <3>. QED
      BY <1>8, <2>2, <3>1, <3>2, Values DEF EntryObserves, TypeOK, RowsOK, MemoryOK
  <2>3. CASE Finish(s, "user_stopped") /\ ApplyUserStop(MyRun(s), "cancelled")
    <3>1. TaskOK'
      BY <1>2, <2>3, Vocabulary
    <3>. QED
      BY <1>8, <2>3, <3>1, ApplyUserStopOK
      DEF EntryObserves, TypeOK, MemoryOK, MissionStatus
  <2>. QED
    BY <1>8, <2>1, <2>2, <2>3 DEF EntryObserves
<1>9. CASE EntryExhausted(s)
  BY <1>2, <1>9, MoveOK, Vocabulary
  DEF EntryExhausted, CONTINUABLE_STOPS, BUSINESS_OUTCOMES
<1>. QED
  BY <1>3, <1>4, <1>5, <1>6, <1>7, <1>8, <1>9

LEMMA TurnOK ==
  ASSUME TypeOK, NEW s \in Slices, Turn(s)
  PROVE  TypeOK'
<1>0. task[s].run \in Runs
  BY DEF TypeOK, TaskOK, RunPCs, TaskPCs, Turn, InTurn, TurnAborted, TurnContinues,
         TurnMutates, TurnDefers, ParkDeferred, TurnAsksApproval, TurnWritesPlan,
         ParkPlanned, TurnEnds, TurnThrows
<1>1. \A pc \in TaskPCs : Goto(s, pc) /\ pc # "woken" => TaskOK'
  BY <1>0, GotoOK DEF TypeOK
<1>2. \A reason \in ROW_REASONS : Finish(s, reason) => TaskOK'
  BY <1>0, FinishOK DEF TypeOK
<1>3. CASE TurnAborted(s)
  BY <1>2, <1>3, MoveOK, Vocabulary DEF TurnAborted
<1>4. CASE TurnContinues(s)
  BY <1>1, <1>4, MoveOK DEF TurnContinues, TaskPCs
<1>5. CASE TurnMutates(s)
  <2>1. RunOK'
    BY <1>5 DEF TurnMutates, TypeOK, RunOK
  <2>. QED
    BY <1>5, <2>1 DEF TurnMutates, TypeOK, RowsOK, TaskOK, MemoryOK
<1>6. CASE TurnDefers(s)
  <2>1. wake' \in WakeRows
    BY <1>0, <1>6 DEF TurnDefers, MyRun, WakeRows
  <2>. QED
    BY <1>1, <1>6, <2>1 DEF TurnDefers, TypeOK, RunOK, RowsOK, MemoryOK, TaskPCs
<1>7. CASE ParkDeferred(s)
  <2>1. TaskOK'
    BY <1>2, <1>7, Vocabulary DEF ParkDeferred
  <2>. QED
    BY <1>7, <2>1, GatedParkOK, Vocabulary DEF ParkDeferred, TypeOK, MemoryOK
<1>8. CASE TurnAsksApproval(s)
  <2>1. TaskOK'
    BY <1>2, <1>8, Vocabulary DEF TurnAsksApproval
  <2>2. CASE Gated(MyRun(s))
    BY <1>8, <2>1, <2>2, LandGatedStopOK DEF TurnAsksApproval, TypeOK, MemoryOK
  <2>3. CASE ~Gated(MyRun(s))
    <3>1. RunOK'
      BY <1>8, <2>3, ParkOK, Vocabulary DEF TurnAsksApproval, TypeOK
    <3>. QED
      BY <1>0, <1>8, <2>1, <2>3, <3>1
      DEF TurnAsksApproval, MyRun, TypeOK, RowsOK, MemoryOK
  <2>. QED
    BY <2>2, <2>3
<1>9. CASE TurnWritesPlan(s)
  BY <1>1, <1>9 DEF TurnWritesPlan, TypeOK, RunOK, RowsOK, MemoryOK, TaskPCs
<1>10. CASE ParkPlanned(s)
  <2>1. TaskOK'
    BY <1>2, <1>10, Vocabulary DEF ParkPlanned
  <2>. QED
    BY <1>10, <2>1, GatedParkOK, Vocabulary DEF ParkPlanned, TypeOK, MemoryOK
<1>11. CASE TurnEnds(s)
  BY <1>2, <1>11, MoveOK, Vocabulary DEF TurnEnds, BUSINESS_OUTCOMES, REVIEW_STOPS
<1>12. CASE TurnThrows(s)
  BY <1>1, <1>12, MoveOK DEF TurnThrows, TaskPCs
<1>. QED
  BY <1>3, <1>4, <1>5, <1>6, <1>7, <1>8, <1>9, <1>10, <1>11, <1>12 DEF Turn

LEMMA FinalizeOK ==
  ASSUME TypeOK, NEW s \in Slices, Finalize(s)
  PROVE  TypeOK'
<1>0. task[s].run \in Runs
  BY DEF TypeOK, TaskOK, RunPCs, TaskPCs, Finalize, Finalizing, FinalizeParked,
         FinalizeUserStop, FinalizeOutcome, WriteMissionOutcome, FinalizeContinuation,
         ParkContinuation, TakeWakeBack, FinalizeReview, ThrewAfterAbort,
         PersistErrorPause, EnqueueRetryWake, Reconcile
<1>1. \A pc \in TaskPCs : Goto(s, pc) /\ pc # "woken" => TaskOK'
  BY <1>0, GotoOK DEF TypeOK
<1>2. OutcomeStatus(task[s].reason) \in {"completed", "failed"} /\ task[s].reason \in ROW_REASONS
  BY DEF OutcomeStatus, TypeOK, TaskOK, Tasks
<1>3. AfterThrow(s) \in TaskPCs /\ AfterThrow(s) # "woken"
  BY DEF AfterThrow, TaskPCs
<1>4. CASE FinalizeParked(s)
  BY <1>1, <1>4, MoveOK DEF FinalizeParked, TaskPCs
<1>5. CASE FinalizeUserStop(s)
  <2>1. TaskOK'
    BY <1>1, <1>5 DEF FinalizeUserStop, TaskPCs
  <2>2. PICK m \in {"draft", "cancelled"} : ApplyUserStop(MyRun(s), m)
    BY <1>5 DEF FinalizeUserStop
  <2>3. RunOK' /\ RowsOK'
    BY <1>5, <2>2, ApplyUserStopOK DEF FinalizeUserStop, MissionStatus
  <2>. QED
    BY <1>5, <2>1, <2>3 DEF FinalizeUserStop, TypeOK, MemoryOK
<1>6. CASE FinalizeOutcome(s)
  <2>1. TaskOK'
    BY <1>1, <1>6 DEF FinalizeOutcome, TaskPCs
  <2>2. RunOK'
    BY <1>2, <1>6, ParkOK, Vocabulary DEF FinalizeOutcome, TypeOK, RunOK
  <2>. QED
    BY <1>6, <2>1, <2>2 DEF FinalizeOutcome, TypeOK, RowsOK, MemoryOK
<1>7. CASE WriteMissionOutcome(s)
  <2>1. TaskOK'
    BY <1>1, <1>7 DEF WriteMissionOutcome, TaskPCs
  <2>. QED
    BY <1>2, <1>7, <2>1
    DEF WriteMissionOutcome, TypeOK, RunOK, RowsOK, MemoryOK, MissionStatus
<1>8. CASE FinalizeContinuation(s)
  <2>. DEFINE t == [task[s] EXCEPT !.pc = "continuing", !.mine = (wake = NoWake)]
  <2>1. task' = [task EXCEPT ![s] = t]
    BY <1>8 DEF FinalizeContinuation, TypeOK, TaskOK
  <2>0. task[s] \in Tasks /\ "continuing" \in TaskPCs /\ (wake = NoWake) \in BOOLEAN
    BY DEF TypeOK, TaskOK, TaskPCs
  <2>2. t \in Tasks /\ t.pc = "continuing" /\ t.run = task[s].run
    BY <2>0 DEF Tasks
  <2>3. TaskOK'
    BY <1>0, <2>1, <2>2, AssignOK DEF TypeOK
  <2>4. wake' \in WakeRows
    BY <1>0, <1>8 DEF FinalizeContinuation, MyRun, TypeOK, RowsOK, WakeRows
  <2>. QED
    BY <1>8, <2>3, <2>4 DEF FinalizeContinuation, TypeOK, RunOK, RowsOK, MemoryOK
<1>9. CASE ParkContinuation(s)
  <2>1. TaskOK'
    BY <1>1, <1>9 DEF ParkContinuation, TaskPCs
  <2>. QED
    BY <1>9, <2>1, GatedParkOK, Vocabulary DEF ParkContinuation, TypeOK, MemoryOK
<1>10. CASE TakeWakeBack(s)
  <2>1. TaskOK'
    BY <1>1, <1>10 DEF TakeWakeBack, TaskPCs
  <2>. QED
    BY <1>10, <2>1, Values DEF TakeWakeBack, TypeOK, RunOK, RowsOK, MemoryOK
<1>11. CASE FinalizeReview(s)
  <2>1. TaskOK'
    BY <1>1, <1>11 DEF FinalizeReview, TaskPCs
  <2>. QED
    BY <1>2, <1>11, <2>1, GatedParkOK, Vocabulary DEF FinalizeReview, TypeOK, MemoryOK
<1>12. CASE ThrewAfterAbort(s)
  <2>1. TaskOK'
    BY <1>1, <1>12 DEF ThrewAfterAbort, TaskPCs
  <2>. QED
    BY <1>12, <2>1, ApplyUserStopOK DEF ThrewAfterAbort, TypeOK, MemoryOK, MissionStatus
<1>13. CASE PersistErrorPause(s)
  <2>1. CASE GatedPark(MyRun(s), "paused_error", "provider_error") /\ Goto(s, AfterThrow(s))
    <3>1. TaskOK'
      BY <1>1, <1>3, <2>1
    <3>2. RunOK' /\ RowsOK'
      BY <1>2, <1>13, <2>1, GatedParkOK, Vocabulary DEF PersistErrorPause
    <3>. QED
      BY <1>13, <3>1, <3>2 DEF PersistErrorPause, TypeOK, MemoryOK
  <2>2. CASE /\ run' = [run EXCEPT ![MyRun(s)].st = "paused_error",
                                   ![MyRun(s)].reason = "provider_error",
                                   ![MyRun(s)].retries = @ + 1]
             /\ Goto(s, "retrying") /\ UNCHANGED <<mission, lease, wake, reqs, approval>>
    <3>1. RunOK'
      <4>. DEFINE r == task[s].run
                  x == [run[r] EXCEPT !.st = "paused_error", !.reason = "provider_error",
                                      !.retries = @ + 1]
      <4>1. run[r] \in [st : MISSION_RUN_STATUSES \cup {"absent"}, reason : ROW_REASONS,
                       retries : Nat, unsafe : BOOLEAN]
        BY <1>0 DEF TypeOK, RunOK
      <4>2. x \in [st : MISSION_RUN_STATUSES \cup {"absent"}, reason : ROW_REASONS,
                   retries : Nat, unsafe : BOOLEAN]
        <5>1. "paused_error" \in MISSION_RUN_STATUSES /\ "provider_error" \in ROW_REASONS
          BY Vocabulary
        <5>2. run[r].retries + 1 \in Nat
          BY <4>1
        <5>. QED
          BY <4>1, <5>1, <5>2
      <4>3. run' = [run EXCEPT ![r] = x]
        BY <1>0, <2>2 DEF MyRun, TypeOK, RunOK
      <4>. HIDE DEF x
      <4>. QED
        BY <1>0, <4>2, <4>3 DEF TypeOK, RunOK
    <3>2. TaskOK'
      BY <1>1, <2>2 DEF TaskPCs
    <3>. QED
      BY <1>13, <2>2, <3>1, <3>2 DEF PersistErrorPause, TypeOK, RowsOK, MemoryOK
  <2>. QED
    BY <1>13, <2>1, <2>2 DEF PersistErrorPause
<1>14. CASE EnqueueRetryWake(s)
  <2>1. TaskOK'
    BY <1>1, <1>3, <1>14 DEF EnqueueRetryWake
  <2>2. wake' \in WakeRows
    BY <1>0, <1>14 DEF EnqueueRetryWake, MyRun, TypeOK, RunOK, RowsOK, WakeRows
  <2>. QED
    BY <1>14, <2>1, <2>2 DEF EnqueueRetryWake, TypeOK, RunOK, RowsOK, MemoryOK
<1>15. CASE Reconcile(s)
  <2>1. TaskOK'
    BY <1>1, <1>15 DEF Reconcile, TaskPCs
  <2>. QED
    BY <1>15, <2>1
    DEF Reconcile, ReconciledMission, TypeOK, RunOK, RowsOK, MemoryOK, MissionStatus
<1>. QED
  BY <1>4, <1>5, <1>6, <1>7, <1>8, <1>9, <1>10, <1>11, <1>12, <1>13, <1>14, <1>15
  DEF Finalize

LEMMA ReleaseOK ==
  ASSUME TypeOK, NEW s \in Slices, Unregister(s) \/ Release(s)
  PROVE  TypeOK'
<1>1. CASE Unregister(s)
  <2>. DEFINE t == [task[s] EXCEPT !.pc = "release", !.signal = "none"]
  <2>1. task' = [task EXCEPT ![s] = t]
    BY <1>1 DEF Unregister, TypeOK, TaskOK
  <2>0. task[s] \in Tasks /\ "release" \in TaskPCs
    BY DEF TypeOK, TaskOK, TaskPCs
  <2>2. t \in Tasks /\ t.pc = "release"
    BY <2>0 DEF Tasks
  <2>3. TaskOK'
    BY <2>1, <2>2, AssignOK DEF TypeOK, RunPCs
  <2>. QED
    BY <1>1, <2>3 DEF Unregister, TypeOK, RunOK, RowsOK, MemoryOK, rowVars
<1>2. CASE Release(s)
  <2>1. TaskOK'
    BY <1>2, QuitOK DEF Release, TypeOK
  <2>. QED
    BY <1>2, <2>1, Values DEF Release, TypeOK, RunOK, RowsOK, MemoryOK
<1>. QED
  BY <1>1, <1>2

-----------------------------------------------------------------------------
(* Type correctness: the operator, time and crashes.                       *)

LEMMA ProceedOK ==
  ASSUME NEW pc \in OpPCs, NEW r \in MaybeRun,
         NEW st \in MISSION_RUN_STATUSES \cup {"absent"},
         pc \notin {"idle", "session", "abort"} => r \in Runs, Proceed(pc, r, st)
  PROVE  /\ op' \in [pc : OpPCs, run : MaybeRun, st : MISSION_RUN_STATUSES \cup {"absent"}]
         /\ op'.pc \notin {"idle", "session", "abort"} => op'.run \in Runs
BY DEF Proceed

LEMMA DoneOK ==
  ASSUME Done
  PROVE  /\ op' \in [pc : OpPCs, run : MaybeRun, st : MISSION_RUN_STATUSES \cup {"absent"}]
         /\ op'.pc \notin {"idle", "session", "abort"} => op'.run \in Runs
BY DEF Done, IdleOp, OpPCs, MaybeRun

LEMMA EnqueueOK ==
  ASSUME RowsOK, NEW kind \in {"pause_after_step", "stop_terminal"}, NEW r \in MaybeRun,
         Enqueue(kind, r)
  PROVE  reqs' \subseteq [kind : {"pause_after_step", "stop_terminal"}, run : MaybeRun, at : Nat]
BY ConstantsAssumption DEF RowsOK, Enqueue

\* The status the operator reads of an unfinished run.
LEMMA ReadOK ==
  ASSUME RunOK, NEW r \in ActiveRuns
  PROVE  /\ r \in Runs /\ r \in MaybeRun
         /\ run[r].st \in MISSION_RUN_STATUSES \cup {"absent"}
BY DEF RunOK, ActiveRuns, MaybeRun

LEMMA OperatorAsksOK ==
  ASSUME TypeOK, OperatorAsks
  PROVE  TypeOK'
<1>1. CASE PauseAsked
  BY <1>1, ReadOK, ProceedOK
  DEF PauseAsked, TypeOK, RunOK, RowsOK, TaskOK, MemoryOK, rowVars, OpPCs
<1>2. CASE StopAsked
  <2>1. CASE Proceed("session", NoRun, "absent")
    BY <1>2, <2>1, ProceedOK
    DEF StopAsked, TypeOK, RunOK, RowsOK, TaskOK, MemoryOK, rowVars, OpPCs, MaybeRun
  <2>2. CASE \E r \in ActiveRuns : Proceed(StopRoute(run[r].st), r, run[r].st)
    BY <1>2, <2>2, ReadOK, ProceedOK
    DEF StopAsked, StopRoute, TypeOK, RunOK, RowsOK, TaskOK, MemoryOK, rowVars, OpPCs
  <2>. QED
    BY <1>2, <2>1, <2>2 DEF StopAsked
<1>3. CASE EditAsked
  BY <1>3, ReadOK, ProceedOK
  DEF EditAsked, TypeOK, RunOK, RowsOK, TaskOK, MemoryOK, rowVars, OpPCs
<1>4. CASE AcceptPlan
  BY <1>4 DEF AcceptPlan, TypeOK, RunOK, RowsOK, TaskOK, MemoryOK, memVars
<1>5. CASE DecideApproval
  <2>1. approval' \in [st : {"pending", "decided"}, run : Runs]
    BY <1>5 DEF DecideApproval, TypeOK, RowsOK, NoApproval
  <2>. QED
    BY <1>5, <2>1 DEF DecideApproval, TypeOK, RunOK, RowsOK, TaskOK, MemoryOK, memVars
<1>. QED
  BY <1>1, <1>2, <1>3, <1>4, <1>5 DEF OperatorAsks

LEMMA OperatorProceedsOK ==
  ASSUME TypeOK, OperatorProceeds
  PROVE  TypeOK'
<1>0. /\ op.run \in MaybeRun /\ op.st \in MISSION_RUN_STATUSES \cup {"absent"}
      /\ op.pc \notin {"idle", "session", "abort"} => op.run \in Runs
  BY DEF TypeOK, MemoryOK
<1>1. CASE EnqueuePause
  BY <1>0, <1>1, DoneOK, EnqueueOK DEF EnqueuePause, TypeOK, RunOK, RowsOK, TaskOK, MemoryOK
<1>2. CASE EnqueueStop
  BY <1>0, <1>2, DoneOK, EnqueueOK, ProceedOK
  DEF EnqueueStop, TypeOK, RunOK, RowsOK, TaskOK, MemoryOK, OpPCs
<1>3. CASE SignalStop
  BY <1>3, DoneOK, SignalOK DEF SignalStop, TypeOK, RunOK, RowsOK, MemoryOK, rowVars
<1>4. CASE StopSession
  <2>1. CASE \E r \in ActiveRuns : Proceed("reroute", r, run[r].st)
              /\ UNCHANGED <<wake, reqs, approval>>
    BY <1>4, <2>1, ReadOK, ProceedOK
    DEF StopSession, TypeOK, RunOK, RowsOK, TaskOK, MemoryOK, OpPCs
  <2>2. CASE Done /\ UNCHANGED <<wake, reqs, approval>>
    BY <1>4, <2>2, DoneOK DEF StopSession, TypeOK, RunOK, RowsOK, TaskOK, MemoryOK
  <2>3. CASE /\ wake' = NoWake /\ approval' = RejectPending /\ Done
             /\ Enqueue("stop_terminal", NoRun) \/ UNCHANGED reqs
    <3>1. RowsOK'
      BY <1>4, <2>3, Values, RejectPendingOK, EnqueueOK
      DEF StopSession, TypeOK, RowsOK, MaybeRun
    <3>. QED
      BY <1>4, <2>3, <3>1, DoneOK DEF StopSession, TypeOK, RunOK, TaskOK, MemoryOK
  <2>. QED
    BY <1>4, <2>1, <2>2, <2>3 DEF StopSession
<1>5. CASE StopRerouted
  BY <1>0, <1>5, ProceedOK
  DEF StopRerouted, StopRoute, TypeOK, RunOK, RowsOK, TaskOK, MemoryOK, rowVars, OpPCs
<1>6. CASE AbortReads
  <2>1. CASE Done
    BY <1>6, <2>1, DoneOK DEF AbortReads, TypeOK, RunOK, RowsOK, TaskOK, MemoryOK, rowVars
  <2>2. CASE \E r \in ActiveRuns : Proceed("abort_wakes", r, run[r].st)
    BY <1>6, <2>2, ReadOK, ProceedOK
    DEF AbortReads, TypeOK, RunOK, RowsOK, TaskOK, MemoryOK, rowVars, OpPCs
  <2>. QED
    BY <1>6, <2>1, <2>2 DEF AbortReads
<1>7. CASE AbortCancelsWakes
  BY <1>0, <1>7, Values, ProceedOK
  DEF AbortCancelsWakes, TypeOK, RunOK, RowsOK, TaskOK, MemoryOK, OpPCs
<1>8. CASE AbortRejectsApprovals
  BY <1>0, <1>8, RejectPendingOK, ProceedOK
  DEF AbortRejectsApprovals, TypeOK, RunOK, RowsOK, TaskOK, MemoryOK, OpPCs
<1>9. CASE AbortSignals
  <2>1. CASE SeenLooping
    BY <1>9, <2>1, DoneOK, SignalOK DEF AbortSignals, TypeOK, RunOK, RowsOK, MemoryOK, rowVars
  <2>2. CASE ~SeenLooping
    BY <1>0, <1>9, <2>2, ProceedOK
    DEF AbortSignals, TypeOK, RunOK, RowsOK, TaskOK, MemoryOK, rowVars, OpPCs
  <2>. QED
    BY <2>1, <2>2
<1>10. CASE AbortApplies
  BY <1>10, ApplyUserStopOK, DoneOK
  DEF AbortApplies, TypeOK, TaskOK, MemoryOK, MissionStatus
<1>11. CASE EditCancelsWakes
  BY <1>0, <1>11, Values, ProceedOK
  DEF EditCancelsWakes, TypeOK, RunOK, RowsOK, TaskOK, MemoryOK, OpPCs
<1>12. CASE EditSignals
  <2>1. /\ op' \in [pc : OpPCs, run : MaybeRun, st : MISSION_RUN_STATUSES \cup {"absent"}]
        /\ op'.pc \notin {"idle", "session", "abort"} => op'.run \in Runs
    BY <1>0, <1>12, ProceedOK DEF EditSignals, OpPCs
  <2>2. TaskOK'
    BY <1>12, SignalOK DEF EditSignals, TypeOK, TaskOK
  <2>. QED
    BY <1>0, <1>12, <2>1, <2>2 DEF EditSignals, TypeOK, RunOK, RowsOK, MemoryOK, rowVars
<1>13. CASE EditApplies
  <2>1. /\ op' \in [pc : OpPCs, run : MaybeRun, st : MISSION_RUN_STATUSES \cup {"absent"}]
        /\ op'.pc \notin {"idle", "session", "abort"} => op'.run \in Runs
    BY <1>0, <1>13, ProceedOK, DoneOK DEF EditApplies, OpPCs
  <2>. QED
    BY <1>13, <2>1, ApplyUserStopOK DEF EditApplies, TypeOK, TaskOK, MemoryOK, MissionStatus
<1>14. CASE EditReconciles
  <2>1. mission' \in MissionStatus
    BY <1>14 DEF EditReconciles, ReconciledMission, TypeOK, RowsOK, MissionStatus
  <2>. QED
    BY <1>14, <2>1, DoneOK DEF EditReconciles, TypeOK, RunOK, RowsOK, TaskOK, MemoryOK
<1>. QED
  BY <1>1, <1>2, <1>3, <1>4, <1>5, <1>6, <1>7, <1>8, <1>9, <1>10, <1>11, <1>12, <1>13, <1>14
  DEF OperatorProceeds

LEMMA TimeOK ==
  ASSUME TypeOK,
         (\E s \in Slices : Heartbeat(s)) \/ LeaseExpires \/ FindOrphan \/ ReclaimOrphan
           \/ Restart
  PROVE  TypeOK'
<1>1. ASSUME NEW s \in Slices, Heartbeat(s)
      PROVE  TypeOK'
  <2>1. TaskOK'
    <3>1. CASE UNCHANGED task
      BY <3>1 DEF TypeOK, TaskOK
    <3>2. CASE task' = [task EXCEPT ![s].lost = TRUE]
      <4>. DEFINE t == [task[s] EXCEPT !.lost = TRUE]
      <4>1. task[s] \in Tasks /\ task' = [task EXCEPT ![s] = t]
        BY <3>2 DEF TypeOK, TaskOK
      <4>2. /\ t \in Tasks /\ t.pc = task[s].pc /\ t.run = task[s].run
            /\ t.wake = task[s].wake
        <5>1. task[s].pc \in TaskPCs /\ task[s].run \in MaybeRun
              /\ task[s].reason \in ROW_REASONS
          BY <4>1 DEF Tasks
        <5>. QED
          BY <4>1, <5>1 DEF Tasks
      <4>. HIDE DEF t
      <4>. QED
        BY <4>1, <4>2, AssignOK DEF TypeOK, TaskOK
    <3>. QED
      BY <1>1, <3>1, <3>2 DEF Heartbeat
  <2>2. lease' \in [owner : Owners, fresh : BOOLEAN]
    BY <1>1 DEF Heartbeat, TypeOK, RowsOK
  <2>. QED
    BY <1>1, <2>1, <2>2 DEF Heartbeat, TypeOK, RunOK, RowsOK, MemoryOK
<1>2. CASE LeaseExpires
  BY <1>2 DEF LeaseExpires, memVars, TypeOK, RunOK, RowsOK, TaskOK, MemoryOK
<1>3. CASE FindOrphan
  BY <1>3 DEF FindOrphan, TypeOK, RunOK, RowsOK, TaskOK, MemoryOK, MaybeRun, rowVars
<1>4. CASE ReclaimOrphan
  <2>1. RunOK' /\ RowsOK'
    <3>1. CASE GatedPark(orphan, "paused_error", "restart_orphan")
      BY <1>4, <3>1, GatedParkOK, Vocabulary DEF ReclaimOrphan
    <3>2. CASE UNCHANGED <<run, mission, lease, wake, reqs, approval>>
      BY <1>4, <3>2 DEF ReclaimOrphan, TypeOK, RunOK, RowsOK
    <3>. QED
      BY <1>4, <3>1, <3>2 DEF ReclaimOrphan
  <2>. QED
    BY <1>4, <2>1 DEF ReclaimOrphan, TypeOK, TaskOK, MemoryOK, MaybeRun
<1>5. CASE Restart
  <2>1. IdleTask \in Tasks /\ IdleTask.pc = "idle"
    BY Values, NewTaskOK DEF IdleTask, NewTask, TaskPCs, MaybeRun
  <2>2. TaskOK'
    BY <1>5, <2>1 DEF Restart, TaskOK, RunPCs
  <2>3. lease' \in [owner : Owners, fresh : BOOLEAN]
    BY <1>5, Values DEF Restart, TypeOK, RowsOK
  <2>. QED
    BY <1>5, <2>2, <2>3
    DEF Restart, TypeOK, RunOK, RowsOK, MemoryOK, IdleOp, OpPCs, MaybeRun
<1>. QED
  BY <1>1, <1>2, <1>3, <1>4, <1>5

LEMMA InitOK == Init => TypeOK
<1>. SUFFICES ASSUME Init PROVE TypeOK
  OBVIOUS
<1>1. IdleTask \in Tasks /\ IdleTask.pc = "idle"
  BY Values, NewTaskOK DEF IdleTask, NewTask, TaskPCs, MaybeRun
<1>2. RunOK
  BY Vocabulary DEF Init, RunOK, NewRun
<1>3. RowsOK
  BY Values DEF Init, RowsOK, MissionStatus
<1>4. TaskOK
  BY <1>1 DEF Init, TaskOK, RunPCs
<1>5. MemoryOK
  BY DEF Init, MemoryOK, IdleOp, OpPCs, MaybeRun
<1>. QED
  BY <1>2, <1>3, <1>4, <1>5 DEF TypeOK

LEMMA StepOK == TypeOK /\ [Next]_vars => TypeOK'
<1>. SUFFICES ASSUME TypeOK, [Next]_vars PROVE TypeOK'
  OBVIOUS
<1>1. ASSUME NEW s \in Slices, Claim(s) \/ Drive(s) \/ Heartbeat(s)
      PROVE  TypeOK'
  BY <1>1, ClaimOK, BeginOK, LoopOK, TurnOK, FinalizeOK, ReleaseOK, TimeOK DEF Drive
<1>2. CASE OperatorAsks \/ OperatorProceeds
  BY <1>2, OperatorAsksOK, OperatorProceedsOK
<1>3. CASE LeaseExpires \/ FindOrphan \/ ReclaimOrphan \/ Restart
  BY <1>3, TimeOK
<1>4. CASE UNCHANGED vars
  BY <1>4 DEF vars, TypeOK, RunOK, RowsOK, TaskOK, MemoryOK
<1>. QED
  BY <1>1, <1>2, <1>3, <1>4 DEF Next, Step

\* Whatever the entry points, the operator, time and crashes do, the rows and
\* the memory of the process stay well typed: no status or reason outside the
\* vocabulary of mission-lifecycle.ts and stop-reasons.ts is ever written, and
\* a slice past its claim always holds a run.
THEOREM TypeCorrect == Spec => []TypeOK
BY InitOK, StepOK, PTL DEF Spec
=============================================================================
