-------------------------- MODULE ApprovalDispatch --------------------------
(***************************************************************************)
(* From the operator's decision on an approval card to the agent turn that *)
(* observes the outcome, in one session.                                   *)
(*                                                                         *)
(* Rows: the approval intents (card), the session's runner lease, its open *)
(* stop request, and the mission run that parked on the cards - or no run  *)
(* at all, in a chat session.  Chains (process memory): the asynchronous   *)
(* call chains that carry one card forward.  A Caller is an IPC call of    *)
(* the operator, a Hook the pass that follows the release of a lease, a    *)
(* Sweep the five-minute pass.  Every action is one transaction of the     *)
(* code, except where a comment says which ones it joins.                  *)
(*                                                                         *)
(* Paths in the comments are relative to                                   *)
(* src/src/vex-agent/engine/core/approval-runtime/.                        *)
(***************************************************************************)
EXTENDS Naturals

CONSTANTS
  Cards,         \* approvals of the session
  Callers,       \* concurrent decisions of the operator
  Hooks,         \* end-of-turn passes (inFlightSessions admits one at a time)
  Sweeps,        \* scheduled passes (the timer does not wait for the last one)
  MaxTrouble     \* bound on restarts, thrown calls, late heartbeats and other turns

ASSUME DispatchConstants ==
  /\ Callers \cap Hooks = {} /\ Callers \cap Sweeps = {} /\ Hooks \cap Sweeps = {}
  /\ MaxTrouble \in Nat

VARIABLES
  card,    \* approval_intents joined with approval_queue
  session, \* the mission run's status ("none" in a chat) and the open stop
  lease,   \* runner_leases: owner of the session's row and whether it is unexpired
  chain,   \* the call chains
  trouble  \* what is left of MaxTrouble

dispatchVars == <<card, session, lease, chain, trouble>>

Chains == Callers \cup Hooks \cup Sweeps

NoCard == "nocard"
NoHolder == <<"nobody", NoCard>>

\* Owner ids are derived from the approval, `${ownerPrefix}-${approvalId}`; an
\* ordinary turn has an id of its own.
Holders == ({"approve", "refuse", "resume"} \X Cards) \cup ({"other"} \X Callers) \cup {NoHolder}

Free == [owner |-> NoHolder, live |-> FALSE]
IdleChain == [pc |-> "idle", card |-> NoCard, owner |-> NoHolder, held |-> FALSE]

\* ran counts the calls of dispatchTool, told the tool results appended to the
\* transcript (result_message_id is set in the same transaction); barred marks a
\* card the operator had approved, and nobody had dispatched, when Stop was
\* accepted.  ran and barred are history, the rest are columns.
NewCard(st) ==
  [st |-> st, exec |-> "not_started", stale |-> FALSE, told |-> 0,
   consumed |-> FALSE, ran |-> 0, barred |-> FALSE]

FINAL_EXECUTION == {"succeeded", "failed", "indeterminate"}
OVER == {"stopped", "completed"}
RESUMABLE_RUN == {"none", "paused_approval", "running"}

Put(c, r) == card' = [card EXCEPT ![c] = r]
Step(t, pc) == chain' = [chain EXCEPT ![t].pc = pc]
Leave(t) == chain' = [chain EXCEPT ![t] = IdleChain]
CardOf(t) == chain[t].card
At(t, pc) == chain[t].pc = pc
LeaseTaken == lease.owner # NoHolder /\ lease.live
Troubled == trouble > 0 /\ trouble' = trouble - 1

-----------------------------------------------------------------------------
(* The operator's stop.                                                    *)

\* rejectPendingApprovalsWithClient rejects the queue row and leaves the intent
\* undecided; no reader acts on such a card again.
RejectedByStop ==
  [c \in Cards |-> IF card[c].st = "pending"
                   THEN [card[c] EXCEPT !.st = "withdrawn"] ELSE card[c]]

\* Mutant: the gate lets a queued stop pass.
GateOnTerminalOnly == session.run \in OVER

\* gateOnOperatorStopWithClient says "stopped" ...
StopGate == session.run \in OVER \/ session.stop

\* ... having landed the stop in the same transaction.  A session stop has no
\* run row to end: it is consumed, and the pending cards with it.  `rows` is
\* what card is when the caller's own write comes after.
LandStop(rows) ==
  IF session.run \in OVER
  THEN UNCHANGED <<session, lease>> /\ rows = card
  ELSE /\ rows = RejectedByStop
       /\ IF session.run = "none"
          THEN session' = [session EXCEPT !.stop = FALSE] /\ UNCHANGED lease
          ELSE session' = [run |-> "stopped", stop |-> FALSE] /\ lease' = Free

\* What a gate followed by `park` leaves, in one transaction.
GateThenPark(status) ==
  \/ StopGate /\ LandStop(card')
  \/ /\ ~StopGate
     /\ session' = [session EXCEPT !.run = status]
     /\ UNCHANGED <<card, lease>>

Incomplete(r) ==
  \/ r.st = "approved" /\ r.exec \in {"not_started", "dispatching"}
  \/ r.told > 0 /\ ~r.consumed

Barred(r) ==
  IF r.st = "approved" /\ r.exec = "not_started" THEN [r EXCEPT !.barred = TRUE] ELSE r

\* Stop of a chat rejects the pending cards at once and leaves a request only
\* if something will observe it; Stop of a live run is queued, of a parked one
\* applied.  (The reads before the transaction are modelled in MissionOperator.)
PressStop ==
  /\ session.run \notin OVER /\ ~session.stop
  /\ card' = [c \in Cards |->
                Barred(IF session.run = "running" /\ LeaseTaken
                       THEN card[c] ELSE RejectedByStop[c])]
  /\ \/ /\ session.run = "none"
        /\ session' = [session EXCEPT !.stop =
                         LeaseTaken \/ \E c \in Cards : Incomplete(card[c])]
        /\ UNCHANGED lease
     \/ /\ session.run = "running" /\ LeaseTaken
        /\ session' = [session EXCEPT !.stop = TRUE]
        /\ UNCHANGED lease
     \/ /\ session.run # "none" /\ ~(session.run = "running" /\ LeaseTaken)
        /\ session' = [run |-> "stopped", stop |-> FALSE]
        /\ lease' = Free
  /\ UNCHANGED <<chain, trouble>>

-----------------------------------------------------------------------------
(* Deciding.                                                               *)

Open(t, pc, c, kind) ==
  /\ At(t, "idle")
  /\ chain' = [chain EXCEPT ![t] = [pc |-> pc, card |-> c, owner |-> <<kind, c>>, held |-> FALSE]]

\* buildApproveSnapshot under the session lock: a card that is expired or whose
\* permission was tightened is refused, a card of an ended run is left alone.
Approve(t, c) ==
  /\ t \in Callers
  /\ card[c].st = "pending"
  /\ session.run \notin OVER
  /\ Put(c, [card[c] EXCEPT !.st = "approved"])
  /\ Open(t, "claim", c, "approve")
  /\ UNCHANGED <<session, lease, trouble>>

\* buildRejectSnapshot, and the refusals of buildApproveSnapshot: the operator,
\* the clock (sweepExpiredApprovals) or a policy drift refuses the card.
Refuse(t, c) ==
  /\ t \in Callers \cup Sweeps
  /\ card[c].st = "pending"
  /\ Put(c, [card[c] EXCEPT !.st = "rejected"])
  /\ Open(t, "refuse", c, "refuse")
  /\ UNCHANGED <<session, lease, trouble>>

\* commitDecisionToolResult: appends the refusal and attaches it.
CommitRefusal(t) ==
  /\ At(t, "refuse")
  /\ Put(CardOf(t), [card[CardOf(t)] EXCEPT !.told = @ + 1])
  /\ Step(t, "claim")
  /\ UNCHANGED <<session, lease, trouble>>

-----------------------------------------------------------------------------
(* claimResumeContinuation.                                                *)

\* A row that is unexpired stops every owner id but its own.
Busy(owner) == LeaseTaken /\ lease.owner # owner

\* The flip of a claim, and startRunIfNotTerminal: a chat has no run to start.
StartsRun == session' = [session EXCEPT !.run = IF @ = "none" THEN "none" ELSE "running"]

AfterClaim(t) == IF chain[t].owner[1] = "approve" THEN "slot" ELSE "resume"

\* A mission's status is compared before its lease is looked at.  A run that
\* left the resumable statuses ends a resume quietly and a decision with an error.
Claim(t) ==
  /\ At(t, "claim")
  /\ \/ /\ session.run \notin RESUMABLE_RUN
        /\ IF chain[t].owner[1] = "resume" THEN Leave(t) ELSE Step(t, "failing")
        /\ UNCHANGED <<session, lease>>
     \/ /\ session.run \in RESUMABLE_RUN /\ Busy(chain[t].owner)
        /\ Leave(t)
        /\ UNCHANGED <<session, lease>>
     \/ /\ session.run \in RESUMABLE_RUN /\ ~Busy(chain[t].owner)
        /\ lease' = [owner |-> chain[t].owner, live |-> TRUE]
        /\ StartsRun
        /\ chain' = [chain EXCEPT ![t].pc = AfterClaim(t), ![t].held = TRUE]
  /\ UNCHANGED <<card, trouble>>

\* discardContinuation: the release deletes the row by its owner id.
Discard(t) ==
  /\ At(t, "discard")
  /\ lease' = IF chain[t].held /\ lease.owner = chain[t].owner THEN Free ELSE lease
  /\ Leave(t)
  /\ UNCHANGED <<card, session, trouble>>

-----------------------------------------------------------------------------
(* Dispatching an approved tool (post-tx/dispatch-approved.ts).            *)

\* Mutant: the slot is taken whatever the row says.
SlotAlwaysFree(c) == TRUE

\* casMarkDispatchingWith finds the row not_started.
SlotFree(c) == card[c].exec = "not_started"

\* Mutant: a stopped dispatch leaves the row as it was.
LeaveSlot(c, rows) == rows

TakeSlot(c, rows) == [rows EXCEPT ![c].exec = "dispatching", ![c].stale = FALSE]

\* claimDispatchSlotUnderStopGate: the gate and the slot in one transaction; the
\* slot is taken on the stopped path too.  Then the call, with nothing between, or
\* none if the stored request is no longer the one that was approved.
ClaimSlot(t) ==
  /\ At(t, "slot")
  /\ LET c == CardOf(t) IN
     \/ /\ StopGate /\ ~SlotFree(c)
        /\ LandStop(card')
        /\ Step(t, "discard")
     \/ /\ StopGate /\ SlotFree(c)
        /\ \E rows \in {card, RejectedByStop} : LandStop(rows) /\ card' = TakeSlot(c, rows)
        /\ Step(t, "abandon")
     \/ /\ ~StopGate /\ ~SlotFree(c)
        /\ Step(t, "discard")
        /\ UNCHANGED <<card, session, lease>>
     \/ /\ ~StopGate /\ SlotFree(c)
        /\ \E calls \in {0, 1} :
              card' = [TakeSlot(c, card) EXCEPT ![c].ran = @ + calls]
        /\ Step(t, "dispatch")
        /\ UNCHANGED <<session, lease>>
  /\ UNCHANGED trouble

\* Mutant: the result is written over whatever the row says.
OwnsNever(c) == TRUE

\* commitExecutionResultWith is fenced on the dispatching row.
OwnsDispatch(c) == card[c].exec = "dispatching"

Settle(c, status) ==
  IF OwnsDispatch(c)
  THEN Put(c, [card[c] EXCEPT !.exec = status, !.stale = FALSE, !.told = @ + 1])
  ELSE UNCHANGED card

\* abandonDispatchAfterOperatorStop settles the slot it took as failed; if the
\* reconciler was faster its transaction rolls back and the stop is applied again.
Abandon(t) ==
  /\ At(t, "abandon")
  /\ Settle(CardOf(t), "failed")
  /\ Step(t, IF OwnsDispatch(CardOf(t)) THEN "discard" ELSE "superseded")
  /\ UNCHANGED <<session, lease, trouble>>

\* The tool returns and commitApprovedToolResult writes what it said, or the tool
\* throws and onDispatchThrow writes that.  A dispatch the reconciler has already
\* judged is superseded: nothing is written.  (An unresolved Lighter order's
\* verdict is indeterminate at once, which nothing below tells from success.)
CommitResult(t) ==
  /\ At(t, "dispatch")
  /\ LET c == CardOf(t) IN
     \/ /\ OwnsDispatch(c)
        /\ \/ \E v \in {"succeeded", "failed"} :
                 /\ card[c].ran = 0 => v = "failed"
                 /\ Settle(c, v)
                 /\ Step(t, "settle")
           \/ card[c].ran = 1 /\ Settle(c, "failed") /\ Step(t, "failing")
     \/ /\ ~OwnsDispatch(c)
        /\ Settle(c, "failed")
        /\ Step(t, "superseded")
  /\ UNCHANGED <<session, lease, trouble>>

\* applyQueuedOperatorStop after the result: a stop that came during the dispatch
\* suppresses the resume.
StopAfterDispatch(t) ==
  /\ At(t, "settle")
  /\ \/ StopGate /\ LandStop(card') /\ Step(t, "discard")
     \/ ~StopGate /\ Step(t, "resume") /\ UNCHANGED <<card, session, lease>>
  /\ UNCHANGED trouble

\* The catch funnel when the reconciler was faster: the stop, and no parking.
StopSuperseded(t) ==
  /\ At(t, "superseded")
  /\ \/ StopGate /\ LandStop(card')
     \/ ~StopGate /\ UNCHANGED <<card, session, lease>>
  /\ Step(t, "discard")
  /\ UNCHANGED trouble

\* The catch funnel otherwise: apply the stop, then flipRunToPausedError, whose
\* own gate repeats the first (one step for both).  A refusal has only the flip.
Fail(t) ==
  /\ At(t, "failing")
  /\ \/ /\ session.run # "none"
        /\ GateThenPark("paused_error")
     \/ /\ session.run = "none"
        /\ \/ chain[t].owner[1] # "refuse" /\ StopGate /\ LandStop(card')
           \/ /\ chain[t].owner[1] = "refuse" \/ ~StopGate
              /\ UNCHANGED <<card, session, lease>>
  /\ Step(t, "discard")
  /\ UNCHANGED trouble

-----------------------------------------------------------------------------
(* Resuming the agent (continuation.ts).                                   *)

AlreadyConsumed(c) == card[c].consumed

\* runResumeAfterDecision up to the model call.  A chat consults the stop gate
\* before anything else, a mission refuses a run that is over; then the guard
\* asks whether the result has been observed; if not, a run that was parked since the
\* claim is started again.
BeginResume(t) ==
  /\ At(t, "resume")
  /\ \/ /\ session.run \in OVER
        /\ Step(t, "discard")
        /\ UNCHANGED <<card, session, lease>>
     \/ /\ session.run = "none" /\ StopGate
        /\ LandStop(card')
        /\ Step(t, "consume")
     \/ /\ session.run \notin OVER /\ ~(session.run = "none" /\ StopGate)
        /\ \/ AlreadyConsumed(CardOf(t)) /\ Step(t, "consume") /\ UNCHANGED session
           \/ ~AlreadyConsumed(CardOf(t)) /\ Step(t, "turn") /\ StartsRun
        /\ UNCHANGED <<card, lease>>
  /\ UNCHANGED trouble

IsOther(t) == chain[t].owner[1] = "other"

\* How a turn leaves the session: a stop is observed (an ordinary chat turn is
\* only interrupted and leaves it open), or the run ends or parks, here perhaps
\* on its next card.  Only the turn of a running run writes the run.
TurnEnds(t) ==
  \/ StopGate /\ LandStop(card')
  \/ /\ session.run # "running"
     /\ session.stop => IsOther(t)
     /\ UNCHANGED <<card, session, lease>>
  \/ /\ session.run = "running" /\ ~session.stop
     /\ \E st \in {"completed", "paused_wake", "paused_error"} : session' = [session EXCEPT !.run = st]
     /\ UNCHANGED <<card, lease>>
  \/ /\ session.run \in {"running", "none"} /\ ~session.stop
     /\ \E c \in Cards : card[c].st = "absent" /\ Put(c, NewCard("pending"))
     /\ session' = [session EXCEPT !.run = IF @ = "none" THEN @ ELSE "paused_approval"]
     /\ UNCHANGED lease

EndTurn(t) ==
  /\ At(t, "turn")
  /\ TurnEnds(t)
  /\ Step(t, IF IsOther(t) THEN "discard" ELSE "consume")
  /\ UNCHANGED trouble

\* casMarkResumeConsumed, while the lease is still held.
Consume(t) ==
  /\ At(t, "consume")
  /\ Put(CardOf(t), [card[CardOf(t)] EXCEPT !.consumed = TRUE])
  /\ Step(t, "discard")
  /\ UNCHANGED <<session, lease, trouble>>

-----------------------------------------------------------------------------
(* The passes (deferred-resume.ts, reconcile.ts, lifecycle-actions.ts).     *)

\* Mutants: eligibility keyed off the dispatch, or off its success.
ResumableOnceDispatched(r) == r.exec # "not_started" /\ ~r.consumed
ResumableIfSucceeded(r) == r.exec = "succeeded" /\ ~r.consumed

Resumable(r) == r.told > 0 /\ ~r.consumed
Undispatched(r) == r.st = "approved" /\ r.exec = "not_started"
Dispatching(r) == r.st = "approved" /\ r.exec = "dispatching"

\* applyResumableLifecycleRow on a row of the pass's snapshot; what follows the
\* read may be arbitrarily late.
Pick(t, c) ==
  /\ t \in Hooks \cup Sweeps
  /\ \/ Resumable(card[c]) /\ Open(t, "claim", c, "resume")
     \/ ~Resumable(card[c]) /\ Undispatched(card[c]) /\ Open(t, "claim", c, "approve")
  /\ UNCHANGED <<card, session, lease, trouble>>

\* What resolveAbandonedDispatch requires, under the row lock: still dispatching,
\* nobody on the session's lease, older than STALE_DISPATCH_THRESHOLD_MS.
Abandoned(c) == Dispatching(card[c]) /\ ~LeaseTaken /\ card[c].stale

\* reconcileRow and resolveAbandonedDispatch: everything the pass read before is
\* read again here.
Judge(t, c) ==
  /\ t \in Sweeps
  /\ Abandoned(c)
  /\ Put(c, [card[c] EXCEPT !.exec = "indeterminate", !.stale = FALSE, !.told = @ + 1])
  /\ Open(t, "claim", c, "resume")
  /\ UNCHANGED <<session, lease, trouble>>

-----------------------------------------------------------------------------
(* Time, the lease's heartbeats, other turns, and what goes wrong.          *)

\* dispatch_started_at falls behind the threshold.
Age(c) ==
  /\ card[c].exec = "dispatching" /\ ~card[c].stale
  /\ Put(c, [card[c] EXCEPT !.stale = TRUE])
  /\ UNCHANGED <<session, lease, chain, trouble>>

\* heartbeatTick: renews, or finds the row gone or another's and stops for good,
\* after which release does nothing.  The work goes on either way.
Heartbeat(t) ==
  /\ chain[t].held
  /\ \/ /\ lease.owner = chain[t].owner /\ ~lease.live
        /\ lease' = [lease EXCEPT !.live = TRUE]
        /\ UNCHANGED chain
     \/ /\ lease.owner # chain[t].owner
        /\ chain' = [chain EXCEPT ![t].held = FALSE]
        /\ UNCHANGED lease
  /\ UNCHANGED <<card, session, trouble>>

Expires == lease' = [lease EXCEPT !.live = FALSE] /\ UNCHANGED <<card, session, chain>>

\* The lease of a dead holder expires ...
Expire ==
  /\ LeaseTaken
  /\ \A t \in Chains : ~(chain[t].held /\ chain[t].owner = lease.owner)
  /\ Expires
  /\ UNCHANGED trouble

\* ... and that of a living one may, when its heartbeats come too late.
LateExpire == Troubled /\ LeaseTaken /\ Expires

\* A user message, a wake or a recovery starts an ordinary turn; a mission run
\* must be in a status one of them claims.
OtherBegins(t) ==
  /\ Troubled
  /\ t \in Callers /\ At(t, "idle")
  /\ ~LeaseTaken
  /\ session.run \in {"none", "paused_error", "paused_wake"}
  /\ lease' = [owner |-> <<"other", t>>, live |-> TRUE]
  /\ StartsRun
  /\ chain' = [chain EXCEPT ![t] =
                 [pc |-> "turn", card |-> NoCard, owner |-> <<"other", t>>, held |-> TRUE]]
  /\ UNCHANGED card

\* reclaimOrphanedRun: a running run that nobody holds.
Reclaim ==
  /\ session.run = "running" /\ ~LeaseTaken
  /\ GateThenPark("paused_error")
  /\ UNCHANGED <<chain, trouble>>

\* The process dies: chains and heartbeats are gone, rows stay.
Restart ==
  /\ Troubled
  /\ \E t \in Chains : ~At(t, "idle")
  /\ chain' = [t \in Chains |-> IdleChain]
  /\ UNCHANGED <<card, session, lease>>

\* A call of the decision's own code throws: the tool context, a transaction.
\* Its writes are rolled back, its catch funnel runs.
DecisionThrows(t) ==
  /\ Troubled
  /\ chain[t].pc \in {"refuse", "slot", "dispatch", "abandon", "settle"}
  /\ Step(t, "failing")
  /\ UNCHANGED <<card, session, lease>>

\* A resumed turn throws, or its completion marker is not written: the result
\* stays unconsumed.  A mission's turn parks the run, a chat's lands a stop.
ResumeThrows(t) ==
  /\ Troubled
  /\ ~IsOther(t)
  /\ \/ At(t, "consume") /\ UNCHANGED <<card, session, lease>>
     \/ chain[t].pc \in {"resume", "turn"} /\ session.run # "none" /\ GateThenPark("paused_error")
     \/ /\ chain[t].pc \in {"resume", "turn"} /\ session.run = "none"
        /\ IF StopGate THEN LandStop(card') ELSE UNCHANGED <<card, session, lease>>
  /\ Step(t, "discard")

-----------------------------------------------------------------------------

\* A mission parked on pending cards, or a chat with or without one.
Init ==
  /\ card \in [Cards -> {NewCard("absent"), NewCard("pending")}]
  /\ session \in [run : {"none", "paused_approval"}, stop : {FALSE}]
  /\ session.run # "none" => \E c \in Cards : card[c].st = "pending"
  /\ lease = Free
  /\ chain = [t \in Chains |-> IdleChain]
  /\ trouble = MaxTrouble

\* What a chain does without anybody's help.
Proceed(t) ==
  \/ CommitRefusal(t) \/ Claim(t) \/ Discard(t)
  \/ ClaimSlot(t) \/ Abandon(t) \/ CommitResult(t)
  \/ StopAfterDispatch(t) \/ StopSuperseded(t) \/ Fail(t)
  \/ BeginResume(t) \/ EndTurn(t) \/ Consume(t)

Next ==
  \/ PressStop \/ Expire \/ LateExpire \/ Reclaim \/ Restart
  \/ \E c \in Cards : Age(c)
  \/ \E t \in Chains :
       \/ Proceed(t) \/ Heartbeat(t)
       \/ OtherBegins(t) \/ DecisionThrows(t) \/ ResumeThrows(t)
       \/ \E c \in Cards : Approve(t, c) \/ Refuse(t, c) \/ Pick(t, c) \/ Judge(t, c)

Spec == Init /\ [][Next]_dispatchVars

\* A started chain goes on (tools and turns return), leases expire, time passes,
\* and the scheduled pass comes to every row again and again.
Fairness ==
  /\ \A t \in Chains : WF_dispatchVars(Proceed(t))
  /\ WF_dispatchVars(Expire)
  /\ WF_dispatchVars(\E c \in Cards : Age(c))
  /\ \A t \in Sweeps, c \in Cards : SF_dispatchVars(Pick(t, c) \/ Judge(t, c))

FairSpec == Spec /\ Fairness

-----------------------------------------------------------------------------
(* Properties.                                                             *)

ChainPCs == {"idle", "refuse", "claim", "slot", "dispatch", "abandon", "settle", "failing",
             "superseded", "resume", "turn", "consume", "discard"}

ChainRecords ==
  [pc : ChainPCs, card : Cards \cup {NoCard}, owner : Holders, held : BOOLEAN]

CardRecords ==
  [st : {"absent", "pending", "approved", "rejected", "withdrawn"},
   exec : {"not_started", "dispatching"} \cup FINAL_EXECUTION,
   stale : BOOLEAN, told : {0, 1}, consumed : BOOLEAN, ran : {0, 1}, barred : BOOLEAN]

\* Every row and every chain has a value of its type; in particular a card has
\* at most one result message and its tool was called at most once.
DispatchTypeOK ==
  /\ card \in [Cards -> CardRecords]
  /\ session \in [run : {"none", "paused_approval", "running", "paused_wake", "paused_error"}
                         \cup OVER, stop : BOOLEAN]
  /\ lease \in [owner : Holders, live : BOOLEAN]
  /\ chain \in [Chains -> ChainRecords]
  /\ trouble \in 0..MaxTrouble

\* The dispatch slot is exclusive: the lease is re-entrant for one owner id, so
\* two chains may be inside the same approval, but only one of them ever holds
\* its dispatch (casMarkDispatchingWith).
OneDispatcher ==
  \A t, u \in Chains :
    /\ chain[t].pc \in {"dispatch", "abandon"}
    /\ chain[u].pc \in {"dispatch", "abandon"}
    /\ CardOf(t) = CardOf(u)
    => t = u

\* An agent is only resumed for a card whose result it will find in the
\* transcript: every path to runResumeAfterDecision commits the result first.
ResumeFollowsResult ==
  \A t \in Chains :
    chain[t].pc \in {"resume", "turn", "consume"} /\ ~IsOther(t) => card[CardOf(t)].told = 1

\* Stop is a barrier for a mission: a card that was approved and not dispatched
\* when the stop was accepted is never dispatched afterwards, by whatever chain,
\* pass or later process gets to it (claimDispatchSlotUnderStopGate).
MissionStopIsABarrier ==
  session.run # "none" => \A c \in Cards : card[c].barred => card[c].ran = 0

\* The approvals of a chat reach the agent: dispatched, abandoned or judged, each
\* result is observed by a resumed turn in the end, though every chain that
\* carries it may be deferred, thrown out or killed ("A resolved approval must
\* ALWAYS end with the agent being woken", deferred-resume.ts:4).  Again and
\* again nothing is owed; and consumed is for good, by KeepsPromise.
ApprovedIsDelivered ==
  []<>(session.run = "none" => \A c \in Cards : card[c].st = "approved" => card[c].consumed)

\* Cards under ApprovalPromise.
PhaseOf(r) ==
  CASE r.st = "absent" -> "absent"
    [] r.st = "pending" -> "open"
    [] r.st \in {"rejected", "withdrawn"} -> "refused"
    [] r.st = "approved" /\ r.exec = "not_started" -> "granted"
    [] r.st = "approved" /\ r.exec = "dispatching" -> "executing"
    [] OTHER -> "settled"

ResultOf(r) ==
  CASE r.consumed -> "observed"
    [] ~r.consumed /\ r.told > 0 -> "posted"
    [] OTHER -> "none"

Promise == INSTANCE ApprovalPromise WITH
  phase <- [c \in Cards |-> PhaseOf(card[c])],
  calls <- [c \in Cards |-> card[c].ran],
  result <- [c \in Cards |-> ResultOf(card[c])]

\* The approval machinery implements the promise of a single card.
KeepsPromise == Promise!Spec

=============================================================================
