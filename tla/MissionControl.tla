--------------------------- MODULE MissionControl ---------------------------
(***************************************************************************)
(* The control plane of one mission session: the slices of MissionRunner,  *)
(* the commands of MissionOperator, and what time and crashes do to them   *)
(* (heartbeats, lease expiry, the death and restart of the process, and    *)
(* the pass that reclaims runs nobody drives any more).                    *)
(***************************************************************************)
EXTENDS MissionRunner, MissionOperator, FiniteSets

-----------------------------------------------------------------------------
(* Time and crashes.                                                       *)

Held(s) == task[s].owner # NoOwner /\ ~task[s].lost

\* heartbeatTick: renew the row while it carries this owner id.  Finding it
\* gone stops the heartbeat and tells nobody: no caller passes onLeaseLost.
Heartbeat(s) ==
  /\ Held(s)
  /\ \/ /\ lease.owner = task[s].owner /\ ~lease.fresh
        /\ lease' = [lease EXCEPT !.fresh = TRUE]
        /\ UNCHANGED task
     \/ /\ lease.owner # task[s].owner
        /\ task' = [task EXCEPT ![s].lost = TRUE]
        /\ UNCHANGED lease
  /\ UNCHANGED <<run, mission, wake, reqs, approval, plan, ctl, intent, op, orphan>>

\* expires_at passes.  A holder beats three times within one TTL, so with
\* timely heartbeats only the row of a holder that is gone expires.
LeaseExpires ==
  /\ LeaseLive
  /\ LateHeartbeats \/ \A s \in Slices : Held(s) => task[s].owner # lease.owner
  /\ lease' = [lease EXCEPT !.fresh = FALSE]
  /\ UNCHANGED <<run, mission, wake, reqs, approval, plan, memVars>>

\* The process dies at any point and comes back with empty memory.  The fresh
\* owner ids of its slices are never minted again.
Restart ==
  /\ task' = [s \in Slices |-> IdleTask]
  /\ ctl' = [r \in Runs |-> {}]
  /\ intent' = {} /\ op' = IdleOp /\ orphan' = NoRun
  /\ lease' = [lease EXCEPT !.owner =
                 IF lease.owner \in {<<"fresh", s>> : s \in Slices}
                 THEN DeadOwner ELSE lease.owner]
  /\ UNCHANGED <<run, mission, wake, reqs, approval, plan>>

\* Mutant: the lease is not part of the question.
OrphanedAnyLease(r) == run[r].st = "running"

\* findOrphanCandidates: an unlocked read.
Orphaned(r) == run[r].st = "running" /\ ~LeaseLive

FindOrphan ==
  /\ orphan = NoRun
  /\ \E r \in Runs : Orphaned(r) /\ orphan' = r
  /\ UNCHANGED <<rowVars, task, ctl, intent, op>>

\* Mutant: an expired lease row is taken for a live one.
ReclaimUnleased ==
  /\ orphan # NoRun
  /\ IF Gated(orphan) \/ (Orphaned(orphan) /\ lease = NoLease)
     THEN GatedPark(orphan, "paused_error", "restart_orphan")
     ELSE UNCHANGED <<run, mission, lease, wake, reqs, approval>>
  /\ orphan' = NoRun
  /\ UNCHANGED <<plan, task, ctl, intent, op>>

\* reclaimOrphanedRun: everything again, under the session control lock.
ReclaimOrphan ==
  /\ orphan # NoRun
  /\ IF Gated(orphan) \/ Orphaned(orphan)
     THEN GatedPark(orphan, "paused_error", "restart_orphan")
     ELSE UNCHANGED <<run, mission, lease, wake, reqs, approval>>
  /\ orphan' = NoRun
  /\ UNCHANGED <<plan, task, ctl, intent, op>>

-----------------------------------------------------------------------------
Claim(s) ==
  \/ AskToBegin(s) \/ ReadAcceptedPlan(s) \/ ResumeClaim(s) \/ RetryClaim(s)
  \/ ApprovalClaim(s) \/ WakeDue(s) \/ UserMessage(s)

\* What a slice does of its own accord once it has begun.
Drive(s) ==
  \/ StartClaim(s) \/ RecoverClaim(s) \/ RecheckActive(s) \/ CreateRun(s)
  \/ ResumeAccepted(s) \/ WakeClaim(s) \/ PreemptClaim(s)
  \/ ReadRun(s) \/ PrepareFails(s) \/ Register(s) \/ StartRun(s)
  \/ EntryAborted(s) \/ EntryObserves(s) \/ EntryExhausted(s)
  \/ Turn(s) \/ Finalize(s) \/ Unregister(s) \/ Release(s)

OperatorAsks == PauseAsked \/ StopAsked \/ EditAsked \/ AcceptPlan \/ DecideApproval

OperatorProceeds ==
  \/ EnqueuePause \/ EnqueueStop \/ SignalStop \/ StopSession \/ StopRerouted
  \/ AbortReads \/ AbortCancelsWakes \/ AbortRejectsApprovals \/ AbortSignals
  \/ AbortApplies \/ EditCancelsWakes \/ EditSignals \/ EditApplies
  \/ EditReconciles

\* Everything but the death of the process.
Step ==
  \/ \E s \in Slices : Claim(s) \/ Drive(s) \/ Heartbeat(s)
  \/ OperatorAsks \/ OperatorProceeds
  \/ LeaseExpires \/ FindOrphan \/ ReclaimOrphan

Next == Step \/ Restart

Spec == Init /\ [][Next]_vars

\* The event loop runs every pending continuation; an expiry time passes; the
\* reclaim pass runs on its timer.  Nobody is obliged to send a command or to
\* claim the session.
Fairness ==
  /\ \A s \in Slices : WF_vars(Drive(s))
  /\ WF_vars(OperatorProceeds)
  /\ WF_vars(LeaseExpires)
  /\ WF_vars(FindOrphan) /\ WF_vars(ReclaimOrphan)

FairSpec == Spec /\ Fairness

-----------------------------------------------------------------------------
(* Types.                                                                  *)

MaybeRun == Runs \cup {NoRun}

WakeRows == {NoWake} \cup [kind : {"continue", "retry"}, run : Runs, attempt : Nat]

TaskPCs ==
  {"idle", "asked", "prepare", "commit", "resuming", "woken", "message",
   "claimed", "registering", "starting", "loop", "turn", "deferred", "planned",
   "threw", "retrying", "finalize", "outcome", "continuing", "unwaking",
   "reconcile", "unregister", "release"}

OpPCs ==
  {"idle", "pause", "queue", "signal", "session", "reroute", "abort",
   "abort_wakes", "abort_approvals", "abort_signal", "abort_apply",
   "edit_wakes", "edit_signal", "edit_apply", "edit_reconcile"}

\* The steps of a slice that has, or is about to get, a run of its own.
RunPCs ==
  TaskPCs \ {"idle", "asked", "prepare", "commit", "woken", "message", "release"}

RunOK ==
  run \in [Runs -> [st : MISSION_RUN_STATUSES \cup {"absent"},
                    reason : ROW_REASONS, retries : Nat, unsafe : BOOLEAN]]

RowsOK ==
  /\ mission \in MissionStatus
  /\ lease \in [owner : Owners, fresh : BOOLEAN]
  /\ wake \in WakeRows
  /\ reqs \subseteq [kind : {"pause_after_step", "stop_terminal"}, run : MaybeRun, at : Nat]
  /\ approval \in {NoApproval} \cup [st : {"pending", "decided"}, run : Runs]
  /\ plan \in {"unaccepted", "accepted"}

Tasks ==
  [pc : TaskPCs, entry : ALL_ENTRIES \cup {"none"}, run : MaybeRun,
   owner : Owners, wake : WakeRows, signal : {"none", "live", "aborted"},
   reason : ROW_REASONS, mine : BOOLEAN, lost : BOOLEAN]

TaskOK ==
  /\ task \in [Slices -> Tasks]
  /\ \A s \in Slices :
       /\ task[s].pc \in RunPCs => task[s].run \in Runs
       /\ task[s].pc = "woken" => task[s].wake # NoWake

MemoryOK ==
  /\ ctl \in [Runs -> SUBSET Slices]
  /\ intent \subseteq Runs
  /\ op \in [pc : OpPCs, run : MaybeRun,
             st : MISSION_RUN_STATUSES \cup {"absent"}]
  /\ op.pc \notin {"idle", "session", "abort"} => op.run \in Runs
  /\ orphan \in MaybeRun

TypeOK == RunOK /\ RowsOK /\ TaskOK /\ MemoryOK

-----------------------------------------------------------------------------
(* Safety.                                                                 *)

\* Between the claim of a run and the end of its finalization.
Engaged(s) ==
  task[s].pc \in {"claimed", "registering", "starting", "loop", "turn", "deferred",
                 "planned", "threw", "retrying", "finalize", "continuing"}

\* A finished run keeps the verdict it finished with: resume, park, claim,
\* reclaim and a second stop all race to write the same row.
TerminalFinal ==
  [][\A r \in Runs : Terminal(r) =>
       run'[r].st = run[r].st /\ run'[r].reason = run[r].reason]_vars

\* A session never has two unfinished runs, although mission_runs carries no
\* unique index to that effect.
OneActiveRun == Cardinality(ActiveRuns) <= 1

\* runner-leases.ts: "One runner per session at a time".  Two slices may both
\* be on their way only if one of them holds a run that is already over.
AtMostOneRunner ==
  \A s, t \in Slices :
    s # t /\ Engaged(s) /\ Engaged(t) =>
      Terminal(task[s].run) \/ Terminal(task[t].run)

\* A run that says "running" is being driven: no finally block releases the
\* session before the row has been parked or ended.
RunningIsDriven ==
  \A r \in Runs : run[r].st = "running" =>
    \E s \in Slices : Engaged(s) /\ task[s].run = r

\* The reclaim pass never parks a run some slice is driving, however old its
\* candidate list is.
ReclaimSparesTheDriven ==
  [][\A r \in Runs :
       run'[r].reason = "restart_orphan" /\ run[r].reason # "restart_orphan" =>
         \A s \in Slices : ~(Engaged(s) /\ task[s].run = r)]_vars

\* A run the operator has a stop queued against never goes to sleep: whatever
\* parks it consumes the stop instead.
ParkConsumesStop ==
  [][\A r \in Runs :
       run[r].st = "running" /\ run'[r].st \in PAUSED_RUN_STATUSES => ~OpenStop(r)]_vars

\* An accepted stop leaves the queue only by ending the run it names.
NoStopErased ==
  [][\A r \in Runs : OpenStop(r) /\ ~OpenStop(r)' => Terminal(r)']_vars

\* A stop of the session and an unfinished run never coexist: the request is
\* refused while there is one, and no run is created while it is open.
SessionStopMeansNoRun == OpenStop(NoRun) => ActiveRuns = {}

\* Nobody is asked to approve the action of a run that is over.
NoApprovalOfTheDead == approval.st = "pending" => ~Terminal(approval.run)

\* No turn begins under a plan the operator has not accepted.
PlanGate == \A s \in Slices : task[s].pc = "turn" => plan # "unaccepted"

\* A wake never resumes an error-paused run that has executed a mutating tool,
\* however stale the wake: the stamp may have been set by a manual retry that
\* ran, and failed, between the claim of the wake and the claim of the run.
AutoRetryIsSafe ==
  [][\A s \in Slices :
       task[s].pc = "woken" /\ task'[s].pc = "claimed" =>
         LET r == task'[s].run IN run[r].st = "paused_error" => ~run[r].unsafe]_vars

\* The mission is "running" exactly while a run of it is unfinished, except
\* between the two statements by which a verdict reaches the mission row.
MissionAgrees ==
  (\A s \in Slices : task[s].pc # "outcome") =>
    (mission = "running" <=> ActiveRuns # {})

\* A run asleep has a wake to come back by, unless a slice is still (or again)
\* on its way to one of the two rows.
SleeperHasWake ==
  \A r \in Runs : run[r].st = "paused_wake" =>
    \/ wake.run = r
    \/ \E s \in Slices : task[s].pc \in {"woken", "message", "unwaking"}
    \/ op.pc # "idle"

-----------------------------------------------------------------------------
(* Liveness.                                                               *)

\* A stop queued against a running run ends it.
StopLands ==
  \A r \in Runs : run[r].st = "running" /\ OpenStop(r) ~> Terminal(r)

\* "A gate that commits first is guaranteed to have already committed the
\* irreversible step it was guarding (and the stop applies after it)"
\* (operator-stop-boundary.ts): an accepted stop ends its run.
AcceptedStopLands == \A r \in Runs : OpenStop(r) ~> Terminal(r)

\* An abort reaches the loop it is meant for, which winds down and gives the
\* session back, whatever it was doing.
AbortedSliceEnds ==
  \A s \in Slices : task[s].signal = "aborted" ~> task[s].pc = "idle"

\* A run whose driver died is not left saying "running".
OrphanResolved ==
  \A r \in Runs : Orphaned(r) ~> ~Orphaned(r)

-----------------------------------------------------------------------------
(* The promise to the operator.                                            *)

PhaseOf(st) ==
  CASE st = "absent" -> "unborn"
    [] st = "running" -> "awake"
    [] st \in PAUSED_RUN_STATUSES -> "asleep"
    [] OTHER -> "over"

Promise == INSTANCE MissionPromise WITH
  phase <- [r \in Runs |-> PhaseOf(run[r].st)],
  stops <- {r \in MaybeRun : OpenStop(r)}

\* The rows as the operator sees them follow MissionPromise, even while two
\* slices believe they hold the session.
PromiseKept == Promise!Spec
=============================================================================
