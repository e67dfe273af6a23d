--------------------------- MODULE MissionClaims ----------------------------
(***************************************************************************)
(* The seven ways a slice comes to own the session: starting and           *)
(* recovering a mission, the operator's Continue and Retry, a decided      *)
(* approval, a due wake, and a user message that preempts a sleeping run.  *)
(***************************************************************************)
EXTENDS MissionRows

Seize(s, entry, r, owner, pc) ==
  /\ Claimable(owner)
  /\ lease' = [owner |-> owner, fresh |-> TRUE]
  /\ task' = [task EXCEPT ![s] = NewTask(pc, entry, r, owner, NoWake)]

Goto(s, pc) == task' = [task EXCEPT ![s].pc = pc]
Quit(s) == task' = [task EXCEPT ![s] = IdleTask]

\* claimRunLeaseAndFlipToRunningWith: one transaction that checks the status,
\* takes the lease, flips the run and retires the wakes it supersedes.  It
\* keeps the row's stop_reason and does not look at the request queue.
ClaimRun(s, entry, r, owner, from, retires) ==
  /\ run[r].st \in from
  /\ Seize(s, entry, r, owner, "claimed")
  /\ wake' = IF run[r].st \in retires THEN NoWake ELSE wake
  /\ run' = [run EXCEPT ![r].st = "running"]
  /\ UNCHANGED <<mission, reqs, approval, plan, ctl, intent, op, orphan>>

\* prepareMissionStart and prepareMissionRecover look for an active run, load
\* the provider, and only then claim.
AskToBegin(s) ==
  /\ task[s].pc = "idle"
  /\ ActiveRuns = {}
  /\ \E entry \in Entries \cap {"start", "recover"} :
       task' = [task EXCEPT ![s] = NewTask("asked", entry, NoRun, NoOwner, NoWake)]
  /\ UNCHANGED <<rowVars, ctl, intent, op, orphan>>

\* claimSessionLease: the lease alone, under the session control lock.
ClaimSession(s, owner) ==
  /\ \/ Seize(s, task[s].entry, NoRun, owner, "prepare")
     \/ /\ ~Claimable(owner)
        /\ Quit(s)
        /\ UNCHANGED lease
  /\ UNCHANGED <<run, mission, wake, reqs, approval, plan, ctl, intent, op, orphan>>

StartClaim(s) ==
  /\ task[s].pc = "asked" /\ task[s].entry = "start"
  /\ ClaimSession(s, <<"fresh", s>>)

\* The owner id of a recovery is derived from the failed run, so two recoveries
\* of that run present the same one.
RecoverClaim(s) ==
  /\ task[s].pc = "asked" /\ task[s].entry = "recover"
  /\ \/ /\ \A f \in Runs : run[f].st # "failed"
        /\ Quit(s)
        /\ UNCHANGED <<rowVars, ctl, intent, op, orphan>>
     \/ \E f \in Runs :
          /\ run[f].st = "failed"
          /\ ClaimSession(s, <<"recover", f>>)

\* The second, unlocked look for an active run after the claim.  Only the
\* recovery relies on it: a start looks again inside its transaction.
RecheckActive(s) ==
  /\ task[s].pc = "prepare"
  /\ Goto(s, IF ActiveRuns = {} THEN "commit" ELSE "release")
  /\ UNCHANGED <<rowVars, ctl, intent, op, orphan>>

\* Mutants: a start that looks at only one of the two.
StartRefusedByRunOnly == ActiveRuns # {}
StartRefusedByPlanOnly == plan = "unaccepted"

\* commitMissionStart looks at the plan, and for an active run, under the lock.
StartRefused == plan = "unaccepted" \/ ActiveRuns # {}

\* Mutant: a transaction that does not gate on the session stop.
SessionStopIgnored == FALSE

SessionStopped == OpenStop(NoRun)

\* commitMissionStart, and the transaction of prepareMissionRecover: both gate
\* on a session stop first; only the start looks at anything else.
CreateRun(s) ==
  /\ task[s].pc = "commit"
  /\ UNCHANGED <<plan, ctl, intent, op, orphan>>
  /\ LET refused == task[s].entry = "start" /\ StartRefused IN
     \/ /\ SessionStopped
        /\ ApplySessionStop
        /\ Goto(s, "release")
     \/ /\ ~SessionStopped /\ refused
        /\ Goto(s, "release")
        /\ UNCHANGED <<run, mission, lease, wake, reqs, approval>>
     \/ /\ ~SessionStopped /\ ~refused
        /\ \E r \in Runs :
             /\ run[r].st = "absent"
             /\ run' = [run EXCEPT ![r].st = "running"]
             /\ task' = [task EXCEPT ![s].pc = "registering", ![s].run = r]
        /\ mission' = "running"
        /\ UNCHANGED <<lease, wake, reqs, approval>>

\* runResumeDispatch: the operator's Continue.  It reads the status outside the
\* claim, but the claim compares it again; what it reads of the plan stays as
\* old as it was (ReadAcceptedPlan).
ReadAcceptedPlan(s) ==
  /\ "resume" \in Entries /\ task[s].pc = "idle"
  /\ plan = "accepted"
  /\ \E r \in Runs :
       /\ run[r].st = "paused_plan_acceptance"
       /\ task' = [task EXCEPT ![s] = NewTask("resuming", "none", r, NoOwner, NoWake)]
  /\ UNCHANGED <<rowVars, ctl, intent, op, orphan>>

ResumeAccepted(s) ==
  /\ task[s].pc = "resuming"
  /\ LET r == task[s].run IN
     \/ ClaimRun(s, "resume", r, <<"fresh", s>>, {"paused_plan_acceptance"}, {})
     \/ /\ run[r].st # "paused_plan_acceptance" \/ ~Claimable(<<"fresh", s>>)
        /\ Quit(s)
        /\ UNCHANGED <<rowVars, ctl, intent, op, orphan>>

ResumeClaim(s) ==
  /\ "resume" \in Entries /\ task[s].pc = "idle"
  /\ \E r \in ActiveRuns :
       /\ \/ run[r].st \in {"paused_user", "paused_wake"}
          \/ run[r].st = "running" /\ ~LeaseLive
       /\ ClaimRun(s, "resume", r, <<"fresh", s>>, {run[r].st}, {"paused_wake"})

\* runRetryDispatch: the operator's Recover.  Its early returns leave
\* paused_error, an orphaned running run, and paused_plan_acceptance.
RetryClaim(s) ==
  /\ "retry" \in Entries /\ task[s].pc = "idle"
  /\ \E r \in ActiveRuns :
       /\ \/ run[r].st \in {"paused_error", "paused_plan_acceptance"}
          \/ run[r].st = "running" /\ ~LeaseLive
       /\ ClaimRun(s, "retry", r, <<"fresh", s>>, {run[r].st},
                   {"paused_wake", "paused_error"})

\* claimMissionRunResume: a decided approval resumes the run it parked.
ApprovalClaim(s) ==
  /\ "approval" \in Entries /\ task[s].pc = "idle"
  /\ approval.st = "decided"
  /\ run[approval.run].st \in APPROVAL_RESUME_CLAIMABLE_RUN_STATUSES
  /\ Seize(s, "approval", approval.run, <<"fresh", s>>, "claimed")
  /\ run' = [run EXCEPT ![approval.run].st = "running"]
  /\ approval' = NoApproval
  /\ UNCHANGED <<mission, wake, reqs, plan, ctl, intent, op, orphan>>

\* claimDue: the executor consumes the due wake before it looks at the run.
WakeDue(s) ==
  /\ "wake" \in Entries /\ task[s].pc = "idle"
  /\ wake # NoWake
  /\ task' = [task EXCEPT ![s] = NewTask("woken", "none", NoRun, NoOwner, wake)]
  /\ wake' = NoWake
  /\ UNCHANGED <<run, mission, lease, reqs, approval, plan, ctl, intent, op, orphan>>

\* Mutant: the stamp is only checked when the retry is scheduled.
RetryableWithoutStamp(w) ==
  /\ run[w.run].st = "paused_error" /\ run[w.run].reason = "provider_error"
  /\ run[w.run].retries = w.attempt

\* claimRunForAutoRetry re-checks, under the lock, everything that made the
\* error retryable when it was scheduled.
StillRetryable(w) ==
  /\ run[w.run].st = "paused_error" /\ run[w.run].reason = "provider_error"
  /\ ~run[w.run].unsafe
  /\ run[w.run].retries = w.attempt

Wakeable(w) ==
  IF w.kind = "retry" THEN StillRetryable(w) ELSE run[w.run].st = "paused_wake"

\* handleClaimed / handleAutoRetryClaimed: whatever refuses the claim, the
\* wake has been consumed.
WakeClaim(s) ==
  /\ task[s].pc = "woken"
  /\ LET w == task[s].wake IN
     \/ /\ Wakeable(w)
        /\ ClaimRun(s, "wake", w.run, <<"fresh", s>>, {run[w.run].st}, {"paused_wake"})
     \/ /\ ~Wakeable(w) \/ ~Claimable(<<"fresh", s>>)
        /\ Quit(s)
        /\ UNCHANGED <<rowVars, ctl, intent, op, orphan>>

\* routeUserMessage: the message cancels the pending wake first ...
UserMessage(s) ==
  /\ "preempt" \in Entries /\ task[s].pc = "idle"
  /\ wake' = NoWake
  /\ task' = [task EXCEPT ![s].pc = "message"]
  /\ UNCHANGED <<run, mission, lease, reqs, approval, plan, ctl, intent, op, orphan>>

\* ... then looks for a run sleeping on one, and claims it under an owner id
\* derived from the run.  A lost claim only records the message.
PreemptClaim(s) ==
  /\ task[s].pc = "message"
  /\ LET asleep == {r \in Runs : run[r].st = "paused_wake"} IN
     \/ \E r \in asleep :
          ClaimRun(s, "preempt", r, <<"preempt", r>>, {"paused_wake"}, {"paused_wake"})
     \/ /\ \A r \in asleep : ~Claimable(<<"preempt", r>>)
        /\ Quit(s)
        /\ UNCHANGED <<rowVars, ctl, intent, op, orphan>>
=============================================================================
