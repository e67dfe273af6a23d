# VEX: mission control, approvals and EVM nonces - TLA+ models and proofs

VEX is a desktop agent that works on *missions*: an operator accepts a contract,
starts a run, and an agent loop calls tools - some of which move money - until
it is done, parked or stopped. What the operator sees and commands, what the
loop does, what timers and other entry points start, and what is left after the
process dies all meet in a handful of database rows. This directory models that
meeting point, and the two places where money leaves through it: the dispatch of an
approved tool, and the signing of a transaction with a nonce nobody else may use.
Each is model-checked with TLC, and its main results are proved with TLAPS.

Paths below are relative to `src/src/vex-agent/` unless they begin with `vex-app`.

## 1. The system

### Components

| Component | State | Operations | Made correct by |
|---|---|---|---|
| Mission and run rows (`db/repos/mission-runs.ts`, `engine/types/mission-lifecycle.ts`) | status, stop reason, retry count, unsafe stamp | create, flip to running, park, finish | finished runs stay finished; one unfinished run per session; mission and run agree |
| Runner lease (`db/repos/runner-leases.ts`, `engine/runtime/lease-handle.ts`) | one row per session: owner, expiry | acquire, renew every TTL/3, expire, release | one runner at a time; a running row is driven by somebody |
| Operator stop boundary (`engine/runtime/lease-and-status/`) | open control requests | queue a stop or a pause, observe, gate a park on it, apply | an accepted stop ends its run; no run begins over a session stop |
| Claims (`core/runner/mission-prepare.ts`, `recover-prepare.ts`, `claim-run-lease.ts`, `claim-auto-retry.ts`, the dispatchers under `vex-app/src/main/ipc/_shared/`, `core/approval-runtime/continuation.ts`, `engine/ingress.ts`) | none of their own | start, recover, continue, retry, resume after an approval, wake, preempt | what was read before the claim still holds after it |
| Runner and turn loop (`core/runner/mission*.ts`, `core/turn-loop*.ts`) | AbortControllers and edit intents, in memory | iterate, stamp mutations, defer, ask, write a plan, end, throw | every exit leaves the row parked or finished, and releases |
| Finalizers (`core/runner/mission-finalize/`, `mission-auto-retry.ts`) | - | land the loop's outcome in the rows | compare-and-set against stops that came first |
| Wakes (`db/repos/loop-wake.ts`, `engine/wake/`) | one pending row per session | enqueue, cancel, consume | a sleeping run has a wake; a retry is still safe when it fires |
| Approvals (`core/approval-runtime/`, `db/repos/approval-intents/`) | cards: decision, execution status, result message, completion marker | ask, decide, refuse, claim, take the dispatch slot, dispatch, commit the verdict, resume; the end-of-turn hook, the sweep, reconciliation | no card of a finished run; one dispatch, one verdict, one message; none after a stop; the agent is always woken |
| Agent (chat) sessions (`core/runner/agent.ts`, `gated-session-turn.ts`) | lease and session stop, no run | turn, stop, resume after an approval | their approvals reach the agent |
| Nonce reservations (`db/repos/evm-nonce-reservations.ts`, `tools/evm-chains/nonce-*.ts`) | reservation rows and columns with leases; the in-memory turn | take the turn, reserve, guard, stage, release, abandon | no nonce held twice, or queued above a gap |
| Signing and broadcast (`tools/evm-chains/staged-broadcast.ts`, `tools/uniswap/execute.ts`, `tools/khalani/`) | - | sign, write the hash, submit, wait for the receipt | nothing leaves that no row names; nothing is sent twice |
| Activity repair (`sync/agent-activity-repair*`, `db/repos/agent-activity/`) | claims with a token and a lease, the non-inclusion clock | claim, look, conclude, reap | verdicts are true; the handler's amounts are not pre-empted; every row ends |
| Plan (`db/repos/session-plans.ts`) | accepted or not | write, accept | no turn under an unaccepted plan |
| Restart reclaim (`engine/runtime/restart-orphan-reclaim.ts`) | - | find candidates, re-check, park | abandoned runs are parked, driven runs are not |

Everything else the repository contains (compaction, memory, Lighter orders,
wallet intents, the other sync lanes, MCP, the Go bridge, Studio, the renderer) is
listed in `PROJECT.json` with the reason it is not modelled; see "Not modelled".

### How they interact

All components write the same seven rows of a session. A row changes in one
statement or in one transaction; transactions that concern stops take the
*session control lock* first. Between transactions a call chain awaits, and any
other may run: that is where everything that can go wrong goes wrong. Besides
the rows there is process memory - an AbortController per run, shared by every
call chain that registers for the run - which a crash empties.

An approved card is carried forward by *chains*: the call of the operator who
decided it, the hook that runs whenever a lease is released, and a sweep every five
minutes. None of them survives the process, any of them may be the one that
finishes, and all of them present a lease owner derived from the card, which the lease
therefore does not tell apart. What is durable is the card's own columns, each of
which is moved by a compare-and-set.

An approved tool that trades signs a transaction. Its row gets a nonce
before it is signed and a hash before it is sent; after that nobody in the process
is needed, because sweeps that only read the chain end the row. Reservations, the
handler's 90 seconds and the sweep's claims are all leases by the database's clock.

The behaviours that are hard: a decision taken on a row read before an await; a
stop that arrives while its run parks; a lease that expires under its holder; a
retry that fires late; a throw between the claim and the first turn; the death
of the process between two writes; a verdict written in two statements. Each is
listed as a hazard in `PROJECT.json`, at its line, with the properties that
would catch it.

## 2. The modules

| Module | Models |
|---|---|
| `MissionLifecycle` | the statuses, the sets of statuses the code consults, the classes of stop reasons |
| `MissionRows` | the rows and the process memory as VARIABLES, `Init`, and the bodies that several writers share: claimability, stop bodies, gates, parks |
| `MissionClaims` | the seven entry points by which a call chain (a *slice*) comes to own the session |
| `MissionRunner` | what a slice does next: read, register, start, iterate, finalize, unregister, release |
| `MissionOperator` | Pause, Stop, Edit, accepting a plan, deciding an approval |
| `MissionControl` | composes them with heartbeats, expiry, crash and restart, reclaim; states the properties and the fairness |
| `MissionPromise` | the abstract specification: what the operator is promised about runs and stops |
| `MCMissionControl` | TLC: model values, symmetry, the bound on crashes |
| `MissionControlProofs`, `MissionSafetyProofs`, `MissionPromiseProofs` | type correctness; what the rows guarantee, whoever writes them; the refinement |
| `MissionExclusionProofs` | what the lease guarantees: one runner, live cards, driven runs spared, mission and run agree |
| `MissionDriverProofs` | what slices guarantee: driven runs, safe retries, stops not lost, the plan gate |
| `ApprovalDispatch` | the cards of one session, mission or chat, from the decision to the turn that observes the result |
| `ApprovalPromise` | the abstract specification of a card |
| `MCApprovalDispatch`, `ApprovalDispatchProofs` | TLC; the inductive invariant, the safety theorems and the refinement |
| `EvmNonces` | one wallet on one chain: reservation, signature, staging, submission, and the sweeps that end the rows |
| `NoncePromise` | the abstract specification of a row and its transaction |
| `MCEvmNonces`, `EvmNonceProofs` | TLC; the inductive invariant, the safety theorems and the refinement |

`ApprovalDispatch` and `EvmNonces` are models of their own: the first takes the
mission run as one status and "a turn" as one step with the ends a turn can have, the
second does not care who asked for the signature. They meet the mission model where the
code does, at the runner lease, the stop gate and the run's status, whose bodies they
translate again at the detail they need.

### The mission model

State and code. `run`, `mission`, `lease`, `wake`, `reqs`, `approval` and `plan`
are the rows (`mission_runs`, `missions`, `runner_leases`, `loop_wake_requests`,
`runtime_control_requests`, `approval_queue`, `session_plans`). `task` holds the
slices: `pc` is the await a slice is at, `signal` its view of its AbortController,
`owner` the lease owner it presents, `lost` whether its heartbeat has given up.
`ctl` is the controller registry of `abort.ts`, `intent` its edit intents, `op`
the operator's command in flight, `orphan` the candidate the reclaim pass is
about to look at. An action is one statement or one transaction with everything
the code does up to the next await: its guard is the code's conditions, its
`UNCHANGED` what the transaction leaves alone. The refusals of a claim are
disjuncts of the action, because several of them have effects (a start that
finds a session stop lands it).

Operators whose comment begins with "Mutant" are deliberate mistakes. They are
used by no specification; `PROJECT.json` pairs each with the definition it would
replace and the property that then fails, which is how we know that the
properties depend on the code.

What the model abstracts:

- one operator command in flight at a time, one outcome per turn;
- `StartClaim`, `RecoverClaim` and `ResumeAccepted` act on what an earlier step
  read; for Retry and the rest of Continue the read is merged with the claim, which
  is exact because the claim compares the status again in its transaction;
- one member per class of stop reason: `max_loss_hit` for every outcome that
  fails a run (the mission deadline too), `no_progress` for every stop parked for
  review, `iteration_limit` for every stop the scheduler continues;
- preconditions that can only refuse (contract acceptance, the money gate of
  Recover, missing fields) are left out: the model lets a start happen whenever
  an accepted contract would;
- a pending wake may fire at any time, and an approval or a plan may be decided
  at any time;
- an owner id is fresh for its slot, except the two the code derives from a run id;
  after a crash the ids of the dead process are one value that nobody presents.

Not in the mission model: chat turns, user forms, switching plan mode during a run,
critical-band compaction.

### The approval model

`card` is `approval_intents` joined with `approval_queue`: the decision (`st`), the
execution status (`exec`, with `stale` for a dispatch older than ten minutes), the
number of result messages (`told`), the completion marker (`consumed`). `ran` counts
the calls of the tool and `barred` remembers that a stop came first; both are history.
`session` is the run's status - `"none"` in a chat - and the open stop, `lease` the
runner lease. `chain` holds the call chains with the owner id they present and
whether their heartbeat still believes in it. A chain goes through

    refuse | claim -> slot -> dispatch -> settle -> resume -> turn -> consume -> discard

with the exits the code has at each: busy, slot taken, stopped before and after the
dispatch, superseded by the reconciler, thrown. `slot` takes the gate and the
dispatch slot in one transaction, as `claimDispatchSlotUnderStopGate` does, and calls
the tool in the same step, since nothing is awaited in between. `Pick` is what the hook
and the sweep do with a row of the snapshot they read, `Judge` the reconciler's
locked verdict. An ordinary turn of the session (`OtherBegins`) is there to
hold the lease, raise cards and observe stops.

### The nonce model

`row` joins the two tables: an activity row (an *intent*, or a *bridge* leg of
Khalani, which is signed by another function) or a reservation of a *legacy* signer.
`pc` is where the signing call of a row stands, `owner` the in-memory turn per wallet
and chain, `seen` the pending count the call prepared with. `obs` are observations of
the repair sweep in progress: which row was claimed, whether it was past its
handler's window *when it was claimed*, and what the reads have shown. The rest is
the chain (external): a transaction is unsent, pooled, hidden from the node that is
asked, or mined with an outcome; a foreign transaction can use up a nonce; a
pooled transaction below the next nonce is displaced.

Time is five bits per row that expire: the reservation's lease, the handler's window, the
non-inclusion clock, the sweep's claim, and staleness of a legacy reservation.
An observation is one step per read, because what a later read shows can be newer
than what an earlier one did. `Apply` joins what an answer writes - the clock, the
verdict, the release of the claim. Each statement carries the token of the claim; a
claim lost between two of them, which fences off the later ones, is not modelled. The reaper may take any row
without a hash and without a live lease: the age it asks for besides (15 minutes) is
time a user may have spent before the signature. `HandlerKeepsItsWindow` is about the 90
seconds of `handler-window.ts` and no more: on mainnet the receipt wait may last 120
(`receipt-wait-policy.ts:9`), and in the last 30 a sweep may be first. `accepted` is joined with `staged`,
and the amounts the handler decodes are the difference between `settled` and `confirmed`.

## 3. What the runs check

| Run | Question | Instance | Result |
|---|---|---|---|
| `Lifecycle` | Do the mission and its runs agree through two successive runs, and does the plan gate hold, under pause, stop, edit and accept? | 2 runs, 1 slice | `MissionAgrees`, `PlanGate` hold |
| `Race` | Two slices and the operator race for one run: one runner, a driven row, no dead card, reclaim and retry on fresh facts, no lost stop | 1 run, 2 slices | all hold |
| `LateHeartbeats` | What survives when leases expire under their holders? | 2 runs, 2 slices | the rows still implement `MissionPromise` |
| `Crash` | Do stops land, aborts end slices and orphans get reclaimed, though the process dies at any point? | 1 run, 2 slices, 1 crash | all hold under fairness |
| `SharedOwner` | "One runner per session at a time" (`runner-leases.ts:4`) | 1 run, 2 slices | violated: preempting messages share a lease owner |
| `TwoRecoveries` | the second active-run gate of `recover-prepare.ts` | 3 runs, 2 slices | violated: two recoveries create two active runs |
| `StrandedStop` | "the stop applies after it" (`operator-stop-boundary.ts:196`) | 1 run, 1 slice | violated: a stop accepted after the park is not applied |
| `UnacceptedPlan` | "Resume is gated on plan ACCEPTANCE" (`mission-lifecycle.ts:37`) | 1 run, 1 slice | violated: Recover resumes a plan-parked run |
| `StrandedSleeper` | "whoever won the claim will read it" (`ingress.ts:309`) | 1 run, 2 slices | violated: the wake is cancelled, the claim is lost, nobody won |
| `Approvals` | Is an approved tool dispatched once, never after the mission's stop, judged once, and its result observed, whatever happens to the chains? | 2 cards, a caller, the hook, the sweep, 1 trouble | all hold |
| `Nonces` | Is a nonce held once, is every verdict true, is the handler's window kept, and does every row end whose looks are in time, and that is behind no gap? | an intent, a bridge leg, a legacy signer, 2 observers, 1 trouble | all hold |
| `QueuedGap` | "A stale local nonce must never become a queued gap" (`nonce-signing-guard.ts:4`) | the same, no trouble | violated: Khalani's signer has no such guard |

Bounds. Identities of runs are used once, so two runs show a successor (what an
old slice, stop or card does to it) and three are needed only for a failed run and
two recoveries of it. Two slices are the least that interleave. `MaxRequests` bounds
open requests *and* their age in the queue; two are enough for a request to be
overtaken. `MaxRetries` = 1 gives a first retry and its exhaustion. `MaxCrashes`
exists only in the MC module: a process that dies forever gets nothing done.
Each run names in its cfg the entry points, commands and outcomes it allows;
between them the passing runs take every action of `Next`, and every entry point
that a run leaves out is in another.

`Race` has one run and timely heartbeats, and that is part of what it says:

- with late heartbeats two slices drive one run (no caller passes `onLeaseLost` to
  the lease handle), so `AtMostOneRunner` cannot hold; the rows' own guarantees
  do, and `LateHeartbeats` checks them;
- with two runs and two slices a direct Stop deletes the lease a start in
  preparation holds, and the loop of a stopped run can retire a request meant
  for its successor. These are listed as hazards.

Likewise `Lifecycle` has one slice because Continue reads the plan outside its
claim: with two the run may be parked on a rewritten plan in between. Nor do its
two runs show everything about the plan: a recovery looks at no plan, but to meet
one left unaccepted by a stopped run it takes a failed run, the stopped one and
the recovery, three. And it has no crash: a process that dies between `PlanWrite`
and the park leaves a running run, which Continue takes over by its arm for dead
leases, without a look at the plan. All three are hazards. (The execution gate
of the dispatcher, which refuses mutating tools under an unaccepted plan, is not
modelled; `PlanGate` is about turns.)

`Approvals` and `Nonces` each hold several instances in one run; `Focus` in the MC
module says which. A *trouble* is one of the things that are rare and combine badly
with state: a restart, a thrown call, a late heartbeat, a competing turn; a
foreign transaction, a transaction out of sight, a failed read.

- `Approvals`: one card with all three kinds of chain and a trouble, in a mission and in a
  chat; and two cards with a caller and the sweep, without trouble, in either. One card
  shows every race for the card, since a chain never touches another's card but for a stop;
  two show the race for the session.
- `Nonces`: any two calls with one observer and no trouble; and any one call with a
  trouble and, once it has happened, a second observer (of an intent or a legacy row:
  the sweep treats a bridge leg as an intent). Two calls are what a shared nonce takes,
  and two observers what a claim outliving its lease takes. A row nobody has begun
  to sign counts as a call until it is reaped, so the trouble comes when the other
  activity row is gone. `QueuedGap` and the proofs do not use `Focus`.

Both runs check liveness under `Focus`, so it may withhold no step that the fairness
demands: a behaviour that never takes such a step would be unfair, and count as right
without being looked at. It withholds only steps that nothing obliges - a decision, a
call begun, trouble, the second observer's claim where the first may claim - and what
the obliged steps change never takes a state out of it.

In `ReadReceipt`, a confirmed row with the same nonce never turns up:
`NonceExclusive` says there is none. The lookup
(`nonce-sibling.ts`) would matter only for rows older than the reservations.

Deadlock is not checked: a session with nothing to do is a legitimate end.

Fairness of the mission model. Weak fairness of each slice's own steps (`Drive`: the event loop runs
every pending continuation), of the rest of an operator command once it is sent,
of the expiry of a lease, and of the reclaim pass, which runs on a timer. Nothing
obliges anyone to send a command, to claim the session, or a wake to be served,
and `Heartbeat` needs no fairness because `LeaseExpires` already excludes
punctual holders. Under it, `StopLands` says that a stop against a *running* run
ends the run, across one crash; for a run that has already parked it does not
hold (`StrandedStop`).

Fairness of the approval model. Started chains go on (tools and turns return or throw),
leases of dead holders expire, and dispatches age. The scheduled pass gets strong
fairness per card: it comes every five minutes, reads all rows, and what makes it
miss one - a busy session - is not for ever. Nothing obliges the operator, the hook,
or an ordinary turn. `ApprovedIsDelivered` is about chats; in a mission the run
may end with the card, and its agent has nobody left to wake.

Fairness of the nonce model. The lane's tick claims the rows it has not looked at for
longest (strong fairness per row), a look ends by its deadline, the reaper runs every
tick, the database's clock runs, and a transaction *in the node's pool and at the
wallet's next nonce* is included. Nothing is asked of the signing calls, which may stop
anywhere, or of a transaction no node shows. `IntentsEnd` has
two exceptions. One is a row whose transaction waits in the pool above a nonce nobody
fills: every look finds it alive and stops its clock, for ever. That is what makes
`QueuedGap` more than a nuisance. The other is a row whose looks outlast their claims for
ever: two observers can then take it from each other, each answer fenced off by
the other's claim. `observation.ts:42` excludes that ("a live worker can never outlive its
own claim"), and for a look by itself rightly: 10 seconds against a lease of 30. But a
page of 25 rows is claimed at once and looked at three at a time
(`agent-activity-repair.ts:208`), so a row at its end can be reached after its lease. It
is then the row that has waited longest, and among the first of a later page; the exception
is the assumption that this helps in the end.

## 4. What is proved

For any number of runs and slices and any queue bound; for any number of cards and
chains; for any number of signers and observers; and any amount of trouble. Unless
the last column says otherwise, crashes may happen at any time and heartbeats may be
as late as they like:

| Theorem | Says | Assumes |
|---|---|---|
| `TypeCorrect` | `Spec => []TypeOK` | - |
| `FinishedStaysFinished` | `Spec => TerminalFinal`: no writer revives or relabels a finished run | - |
| `SessionStopExcludesRuns` | `Spec => []SessionStopMeansNoRun` | - |
| `OneRunWithoutRecovery` | `Spec => []OneActiveRun` | no `recover` entry |
| `ParksAreGated` | `Spec => ParkConsumesStop` | no `pause` command |
| `ControlKeepsPromise` | `Spec => PromiseKept`: the model implements `MissionPromise` | both |
| `OneRunnerAtATime` | `Spec => []AtMostOneRunner` | punctual, safe starts |
| `NoCardOfTheDead` | `Spec => []NoApprovalOfTheDead` | punctual, safe starts |
| `DrivenRunsAreSpared` | `Spec => ReclaimSparesTheDriven` | punctual, safe starts |
| `MissionFollowsRun` | `[]MissionAgrees` | punctual, safe starts, no crash |
| `RetriesAreSafe` | `Spec => AutoRetryIsSafe` | - |
| `RunningRunsAreDriven` | `[]RunningIsDriven` | no crash |
| `FirstStopSurvives` | `Spec => NoStopErased` | first run of the session |
| `PlanGateForOneCaller` | `[]PlanGate` | one slice; no `retry` or `recover` entry; no crash |
| `DispatchTyped` | `Spec => []DispatchTypeOK`: no second call of a tool, no second result message | - |
| `DispatchExclusive` | `Spec => []OneDispatcher` | - |
| `ResumedWithResult` | `Spec => []ResumeFollowsResult` | - |
| `MissionStopBars` | `Spec => []MissionStopIsABarrier` | - |
| `DispatchKeepsPromise` | `Spec => KeepsPromise`: the model implements `ApprovalPromise` | - |
| `NonceTyped` | `Spec => []NonceTypeOK` | - |
| `NoncesExclusive` | `Spec => []NonceExclusive` | - |
| `TrueVerdicts` | `Spec => []VerdictsAreTrue` | - |
| `WindowKept` | `Spec => []HandlerKeepsItsWindow` | - |
| `GuardKeepsLine` | `Spec => NoQueuedGap`, and `[]PooledInLine`: what is signed stays in line until it is included | no bridge legs; for the second, a pool that forgets nothing |
| `NoncesKeepPromise` | `Spec => KeepsNoncePromise`: the model implements `NoncePromise` | - |

Assumptions on the constants are those of `ConstantsAssumption` (`MissionRows`),
`DispatchConstants` and `NonceConstants`, which TLC evaluates on every run of their
models. The extra ones name what the code does not ensure, and each is needed:

- *no `recover`*: `TwoRecoveries` violates `OneActiveRun`;
- *no `pause`*: a pause queued before a stop is served first and parks the run over it;
- *punctual* (`Punctual`): no lease expires under a living holder, and the two entry
  points whose owner id is derived from a run, preemption and recovery, are not used;
  `SharedOwner` violates `AtMostOneRunner` with them;
- *safe starts* (`SafeStarts`): a start still holds the lease when it creates its run, or
  the session is in its first run. `commitMissionStart` does not compare the owner, and a
  direct Stop or Edit deletes the lease whoever holds it (`apply-user-stop.ts:260`), so a
  start still in preparation may lose it to a third claimant. That takes an older run to
  stop, which is why the first run is safe: there it is proved (`FirstRunHeld`);
- *first run* (`FirstRun`): the loop of a stopped run retires the oldest request, also one
  minted for its successor;
- *no crash* (`[][Step]_vars` in place of `Spec`): a dead process leaves a running row, or
  a verdict on one of the two rows it belongs to, or a plan nobody parks on; the first
  of these is what `OrphanResolved` is about;
- *one slice* (`OneCaller`), *no `retry`*: Continue reads the plan before it claims, and
  `UnacceptedPlan` shows Recover not reading it at all;
- *no bridge legs*: `QueuedGap`. A pool that drops a transaction opens a gap below the next
  one, which no guard can prevent.

The mission argument. `TypeOK` alone is not inductive for the safety properties: a slice,
the operator or a row may hold a run's identity for a long time, and the proofs
need to know that it is a run that exists. `References` says so for every place
that can hold one, and `Inv == TypeOK /\ References` is inductive
(`MissionSafetyProofs`). The next step is to forget who acts. Every action
is shown to be one of six kinds of change to the rows: idle, a stop accepted, a
run begun, woken, parked, or ended (`RowsIdle`, `RowsAccept`, `RowsBegin`, `RowsWake`,
`RowsPark`, `RowsEnd`; the lemma `NextStep`), each with what it guarantees - a park,
for example, that the run was not finished and had no stop open. Each
safety theorem then needs six cases and not sixty. The refinement maps a run to its
phase (unborn, awake, asleep, over) and the open stops to a set; the six kinds
map to `Begin`, `Sleep`, `Rouse`, `End`, the two acceptances, `Retire`, or a stutter.

Exclusion (`MissionExclusionProofs`). That two slices do not drive one run is not
inductive: it follows from who holds the lease, and that from what owner id a slice
presents. `Exclusion` adds to `Inv` that owner ids are a slice's own
(`OwnersMinted`), that an engaged slice whose run is not over holds the lease, fresh and
under its own id (`DriversHold`), that no two engaged slices have the same run, even a
finished one (`OnePerRun`), and that a pending card belongs to a run parked on
it, whose slice has nothing left to write (`CardParked`). Again the proofs first forget who
acts: a step is of a slice that has its run (`RunnerHold`: it keeps its owner id, touches no
other run and loses the lease only to a stop that ends its run), of one on its way in
(`EntryHold`: it stays out, seizes, creates or gives back), of the world (`WorldHold`),
a heartbeat, an expiry or a restart (`StepKinds`). An operator's stop deletes the lease of
whoever holds it, and `DriversHold` survives because the same transaction ends the
only run that is not over - except for a start in preparation, whose run is not born yet:
hence the hypothesis. `Prepared` shows that before the first run nothing takes its lease.
For `MissionAgrees` the invariant also says that a slice with a verdict in hand still
holds the lease and that its run was the last (`VerdictHeld`).

Drivers (`MissionDriverProofs`). `Driven` strengthens `RunningIsDriven`: the slice of a
running run is on its way to a *write* that takes it out of "running", so a finalizer whose
loop reports a park already written does not count. No lease is needed for that.
`RetriesAreSafe` needs that only `WakeClaim` leads from a consumed wake to a claim.
`FirstStopSurvives` needs that a queued stop names a run that was created (`StopsNamed`), and
from `NextStep` that a step which retires requests without ending a run is made by the loop of
the run they name, or of another. `PlanHeld` says of an unaccepted plan that every slice is
at a place where it cannot reach a turn (`Withdrawn`), and that every unfinished run is
parked on the plan or about to be; with one caller a slice with a run in hand has the only
unfinished one (`OnlyMine`), so a turn that rewrites the plan leaves no other behind.

The approval argument. That a card's tool runs once follows from nothing one chain
knows; it follows from what the columns of the card say about each other. `CardsOK`
says it: nothing is executed or answered before the decision, and an approved card has
its one message exactly when it has a final verdict. `ChainsOK` says what a chain's
place says of its card: past the slot the card has been dispatched, past the result it
has been told, at `refuse` it is refused and not yet told. `Exclusive` is
`OneDispatcher`, with the same for the writer of a refusal. `Barrier` adds to
`MissionStopIsABarrier` that behind a barred card the stop gate is shut, and the gate
of a mission, once shut, stays shut. With the types of the rest these are
inductive, action by action, and the refinement reads each step off the card it moved.

The nonce argument. `NonceExclusive` is kept because a reservation is above every
nonce that is taken when it is made, and because a row that has lost its
nonce never gets it back: `MayStage` asks for the live lease that counts as taken.
`CallsOK` ties a call to its row (a call that holds a signature reserved a nonce; one
that is sending has a committed row), `LooksOK` ties an observation to its row: the
claimed row is committed; if the observation was late when it was claimed, the window
is over; and what a receipt showed, the chain still shows. Most actions
move one row in one of six ways (reserved, its lease lowered, staged, aged, claimed,
freed), so `RowsMoveInAStep` is proved once for all actions and the invariant is
preserved way by way. `WhoConcludes` names the two steps that end a committed row,
the handler's and a fenced observer's, and the refinement follows from it. `InLine` carries
`GuardKeepsLine`: the guard finds the pool without a gap below the nonce, and from then on
only the lowest nonce leaves the pool, by the inclusion that uses it up; a transaction that
was displaced has a nonce that is used up and does not come back.

Only model-checked: the liveness properties `StopLands`, `OrphanResolved`,
`AbortedSliceEnds`, `ApprovedIsDelivered` and `IntentsEnd`, because TLAPS has no fairness
reasoning. Every safety property that a passing run checks has a theorem, under the
hypotheses of the table. `AcceptedStopLands` and `SleeperHasWake` are stated only by runs
that violate them.

## 5. Plan and limits

Done, in this order: the mission's lifecycle and rows; claims, runner and
operator; the composition with time and crashes; the promise and its refinement; type
and safety proofs; approval dispatch; EVM nonces; the promises and proofs of both; the
remaining safety properties of the mission model, and the signing guard's.

Next, most important first:

1. More proofs: the approval and nonce models' arguments meet the mission model only in
   prose; a theorem that `ApprovalDispatch`'s view of a mission (`session`) is one that
   `MissionControl` allows would join them. `MissionAgrees` and `PlanGate` across a crash,
   with the two states a crash leaves behind named as exceptions.
2. Lighter orders and withdrawals: an intent row, a nonce of their own, and a recovery
   that must ask the venue what became of a submission.
3. Session lock order: the locks and pooled connections inside the transactions, for the
   "it never hangs" of `mission-lifecycle.ts:48`; user forms, whose stop writes through the
   pool inside a transaction.
4. The wake executor and price watch with delays, so that a wake consumed before its park
   can be judged; compaction jobs and the maintenance lease, a fenced lease to compare
   with the runner's.
5. The Go bridge's credit flow control; Studio's approval broker.

### Not modelled

- Of approvals: the cards of the Desk and of Studio, which have no turn to resume; how an
  intent is built and priced before the card is raised.
- Of chats: their wakes, and the in-memory abort of a chat's slice.
- Of broadcasts: fees, gas, calldata checks, later bridge legs, and replacement by the
  wallet itself (no modelled signer replaces a transaction). Each can only refuse, before
  the signature.
- Of sync: the Solana lane, bridge delivery, amount corrections and balances, whose
  hard part is the answers of services outside the repository.
- Most of the repository, by volume, is protocol adapters, schemas, user interface and
  client code: it builds requests, parses replies and renders rows. It keeps no shared
  state of its own that a step of another actor could find half-written, and a model of
  it would restate it. The models cover the few thousand lines on which the rest
  relies for its ordering.

Known to go wrong and listed as hazards rather than runs: resumes of one card share a
lease owner too, so two may overlap; a session stop of a chat is consumed by the first gate
that meets it, so a second approved card is dispatched after it; a transaction mined
between two reads of one observation is recorded as superseded; a refusal whose process
dies before its message is never delivered.

## 6. Running it

    tlc -config Race.cfg MCMissionControl
    tlc -config Approvals.cfg MCApprovalDispatch
    tlc -config Nonces.cfg MCEvmNonces
    tlapm MissionControlProofs.tla
    tlapm MissionSafetyProofs.tla
    tlapm MissionPromiseProofs.tla
    tlapm MissionExclusionProofs.tla
    tlapm MissionDriverProofs.tla
    tlapm ApprovalDispatchProofs.tla
    tlapm EvmNonceProofs.tla
