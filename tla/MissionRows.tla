---------------------------- MODULE MissionRows -----------------------------
(***************************************************************************)
(* The durable rows of one mission session and what several writers do to  *)
(* them in the same way.                                                   *)
(*                                                                         *)
(* Rows (PostgreSQL, shared): the mission, its runs, the session's runner  *)
(* lease, its single pending wake, its open control requests, its pending  *)
(* approval and its plan.  Every action that touches rows is one statement *)
(* or one transaction of the code.                                         *)
(*                                                                         *)
(* Slices (in memory, one process): asynchronous call chains that claim the *)
(* session, drive a turn loop, finalize its outcome and release.           *)
(* AbortControllers and edit intents are process memory as well and die    *)
(* with it (Restart).                                                      *)
(*                                                                         *)
(* Paths in the comments of the Mission* modules are relative to           *)
(* src/src/vex-agent/.                                                     *)
(***************************************************************************)
EXTENDS MissionLifecycle, Naturals

CONSTANTS
  Runs,          \* identifiers a mission run may be created with
  Slices,        \* slots for concurrent call chains
  NoRun,         \* "this request or read names no run" (SQL NULL)
  Entries,       \* the entry points by which a slice may claim the session
  Commands,      \* the commands the operator may send
  Outcomes,      \* what a turn may come back with
  MaxRequests,   \* bound on open control requests
  MaxRetries,    \* MAX_AUTO_RETRIES
  LateHeartbeats \* a lease may expire while its holder is alive

ALL_ENTRIES ==
  {"start", "recover", "resume", "retry", "approval", "wake", "preempt"}

ALL_COMMANDS == {"pause", "stop", "edit", "accept", "approve"}

ALL_OUTCOMES ==
  {"mutate", "defer", "approval", "plan", "throw"} \cup
    BUSINESS_OUTCOMES \cup CONTINUABLE_STOPS \cup REVIEW_STOPS \cup {"system_error"}

ASSUME ConstantsAssumption ==
  /\ NoRun \notin Runs
  /\ Entries \subseteq ALL_ENTRIES
  /\ Commands \subseteq ALL_COMMANDS
  /\ Outcomes \subseteq ALL_OUTCOMES
  /\ MaxRequests \in Nat /\ MaxRetries \in Nat
  /\ LateHeartbeats \in BOOLEAN

VARIABLES
  run,      \* mission_runs: [Runs -> status, stop_reason, retry count, unsafe stamp]
  mission,  \* missions.status
  lease,    \* runner_leases: owner of the session's row and whether it is unexpired
  wake,     \* loop_wake_requests: the one pending row
  reqs,     \* runtime_control_requests: the open rows, with their creation order
  approval, \* approval_queue: the session's latest row
  plan,     \* session_plans: (un)accepted
  task,     \* the slices
  ctl,      \* the AbortController registry: who shares the controller of a run
  intent,   \* the edit intents of abort.ts
  op,       \* the operator's command in flight
  orphan    \* the run the reclaim pass is about to look at

rowVars == <<run, mission, lease, wake, reqs, approval, plan>>
memVars == <<task, ctl, intent, op, orphan>>
vars == <<run, mission, lease, wake, reqs, approval, plan,
          task, ctl, intent, op, orphan>>

-----------------------------------------------------------------------------
(* Values of the rows.                                                     *)

\* Owner identities.  Most entry points mint a fresh id per claim; two of
\* them derive it from the run they were asked about.
NoOwner == <<"none", NoRun>>
DeadOwner == <<"dead", NoRun>>

Owners ==
  {<<"fresh", s>> : s \in Slices} \cup
    ({"preempt", "recover"} \X Runs) \cup {NoOwner, DeadOwner}

NoLease == [owner |-> NoOwner, fresh |-> FALSE]
NoWake == [kind |-> "none", run |-> NoRun, attempt |-> 0]
NoApproval == [st |-> "none", run |-> NoRun]
NewRun == [st |-> "absent", reason |-> "none", retries |-> 0, unsafe |-> FALSE]

NewTask(pc, entry, r, owner, w) ==
  [pc |-> pc, entry |-> entry, run |-> r, owner |-> owner, wake |-> w,
   signal |-> "none", reason |-> "none", mine |-> FALSE, lost |-> FALSE]

IdleTask == NewTask("idle", "none", NoRun, NoOwner, NoWake)

IdleOp == [pc |-> "idle", run |-> NoRun, st |-> "absent"]

Terminal(r) == run[r].st \in TERMINAL_RUN_STATUSES
Active(r) == run[r].st \in ACTIVE_OR_PAUSED_RUN_STATUSES
ActiveRuns == {r \in Runs : Active(r)}

\* Mutant: a claim that overwrites whatever lease row it finds.
ClaimableAlways(owner) == TRUE

\* The lease does not stop a claimant that presents this owner id.
Claimable(owner) == lease.owner = NoOwner \/ ~lease.fresh \/ lease.owner = owner

LeaseLive == lease.owner # NoOwner /\ lease.fresh

-----------------------------------------------------------------------------
(* Open control requests.                                                  *)

\* created_at is a row's place among those inserted since the queue was last
\* empty, so MaxRequests bounds both the rows and their age.
Enqueue(kind, r) ==
  \E n \in 1..MaxRequests :
    /\ \A q \in reqs : q.at < n
    /\ n = 1 \/ \E q \in reqs : q.at = n - 1
    /\ reqs' = reqs \cup {[kind |-> kind, run |-> r, at |-> n]}

Oldest(q) == \A p \in reqs : q.at <= p.at
IsStop(q, r) == q.kind = "stop_terminal" /\ q.run = r
OpenStop(r) == \E q \in reqs : IsStop(q, r)
WithoutStops(r) == {q \in reqs : ~IsStop(q, r)}

-----------------------------------------------------------------------------
(* The shared stop bodies.  Callers hold the session control lock.         *)

\* Mutants: a stop that leaves the session's card pending, or that writes a
\* status no reader of the queue knows.
RejectNothing == approval
RejectAsRejected ==
  IF approval.st = "pending" THEN [approval EXCEPT !.st = "rejected"] ELSE approval
RejectPending == IF approval.st = "pending" THEN NoApproval ELSE approval

\* Mutant: a stop that forgets the mission row.
ApplyUserStopToRunOnly(r, missionTo) ==
  /\ reqs' = WithoutStops(r)
  /\ UNCHANGED mission
  /\ IF Terminal(r)
     THEN UNCHANGED <<run, lease, wake, approval>>
     ELSE /\ run' = [run EXCEPT ![r].st = "stopped", ![r].reason = "user_stopped"]
          /\ lease' = NoLease
          /\ wake' = NoWake
          /\ approval' = RejectPending

\* applyUserStopWithClient: clear this run's stop requests; unless the run is
\* already terminal, reject approvals, cancel wakes, end run and mission, and
\* delete the lease whoever holds it.  `missionTo` is what the caller's own
\* transaction leaves on the mission row.
ApplyUserStop(r, missionTo) ==
  /\ reqs' = WithoutStops(r)
  /\ IF Terminal(r)
     THEN UNCHANGED <<run, mission, lease, wake, approval>>
     ELSE /\ run' = [run EXCEPT ![r].st = "stopped", ![r].reason = "user_stopped"]
          /\ mission' = missionTo
          /\ lease' = NoLease
          /\ wake' = NoWake
          /\ approval' = RejectPending

\* applySessionStopWithClient: a stop that names no run.
ApplySessionStop ==
  /\ reqs' = WithoutStops(NoRun)
  /\ wake' = NoWake
  /\ approval' = RejectPending
  /\ UNCHANGED <<run, mission, lease>>

\* Mutant: a gate that forgets the request queue.
GatedByStatusOnly(r) == Terminal(r)

\* gateOnOperatorStopWithClient says "stopped" ...
Gated(r) == Terminal(r) \/ OpenStop(r)

\* Mutant: a gate that consumes the request without ending the run.
ConsumeGatedStop(r) ==
  /\ reqs' = WithoutStops(r)
  /\ UNCHANGED <<run, mission, lease, wake, approval>>

\* ... having landed a queued stop in the caller's transaction.
LandGatedStop(r) ==
  IF Terminal(r)
  THEN UNCHANGED <<run, mission, lease, wake, reqs, approval>>
  ELSE ApplyUserStop(r, "cancelled")

\* reconcileDraftReadiness on a complete draft.
ReconciledMission == IF mission = "draft" THEN "ready" ELSE mission

Park(r, status, reason) ==
  run' = [run EXCEPT ![r].st = status, ![r].reason = reason]

\* Park a run in a transaction that first gates on the operator's stop.
GatedPark(r, status, reason) ==
  IF Gated(r)
  THEN LandGatedStop(r)
  ELSE /\ Park(r, status, reason)
       /\ UNCHANGED <<mission, lease, wake, reqs, approval>>

\* The contract has been accepted, and the plan with it.  A session without plan
\* mode has nothing to accept, and PlanWrite is refused: it behaves like one
\* with an accepted plan that no turn rewrites.
Init ==
  /\ run = [r \in Runs |-> NewRun]
  /\ mission = "ready"
  /\ lease = NoLease
  /\ wake = NoWake
  /\ reqs = {}
  /\ approval = NoApproval
  /\ plan = "accepted"
  /\ task = [s \in Slices |-> IdleTask]
  /\ ctl = [r \in Runs |-> {}]
  /\ intent = {}
  /\ op = IdleOp
  /\ orphan = NoRun
=============================================================================
