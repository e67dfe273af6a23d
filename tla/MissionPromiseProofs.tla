------------------------ MODULE MissionPromiseProofs ------------------------
(***************************************************************************)
(* MissionControl implements MissionPromise: each of the six kinds of step *)
(* on the rows is a step of the promise, or leaves the operator's view     *)
(* unchanged.  Left out are the two entry points that break it: a recovery *)
(* may begin a second run, and a pause may put a run with a queued stop to *)
(* sleep.                                                                  *)
(***************************************************************************)
EXTENDS MissionSafetyProofs

\* The refinement mapping of MissionControl!Promise.
phase == [r \in Runs |-> PhaseOf(run[r].st)]
stops == {r \in MaybeRun : OpenStop(r)}

LEMMA Phases ==
  ASSUME RunOK, NEW r \in Runs
  PROVE  /\ phase[r] = "unborn" <=> ~Born(r)
         /\ phase[r] = "awake" <=> run[r].st = "running"
         /\ phase[r] = "asleep" <=> run[r].st \in PAUSED_RUN_STATUSES
         /\ phase[r] = "over" <=> Terminal(r)
         /\ phase[r] \in {"awake", "asleep"} <=> Active(r)
BY DEF RunOK, phase, PhaseOf, Born, Terminal, Active, MISSION_RUN_STATUSES,
       ACTIVE_OR_PAUSED_RUN_STATUSES, ACTIVE_RUN_STATUSES, PAUSED_RUN_STATUSES,
       TERMINAL_RUN_STATUSES

LEMMA UnfinishedAreActive ==
  ASSUME RunOK
  PROVE  Promise!Unfinished = ActiveRuns
BY Phases DEF Promise!Unfinished, phase, ActiveRuns

\* When every run but r is kept, only the phase of r changes.
LEMMA PhaseChange ==
  ASSUME RunOK, RunOK', NEW r \in Runs, OthersKept(r)
  PROVE  phase' = [phase EXCEPT ![r] = PhaseOf(run'[r].st)]
BY DEF phase, OthersKept, Kept

LEMMA PhasesKept ==
  ASSUME \A r \in Runs : Kept(r)
  PROVE  phase' = phase
BY DEF phase, Kept

\* A queue that loses requests of one run loses at most the stops of that run.
LEMMA StopsRetired ==
  ASSUME NEW x, Retires(x)
  PROVE  stops' \in {stops, stops \ {x}}
<1>1. \A y \in MaybeRun \ {x} : OpenStop(y)' <=> OpenStop(y)
  BY DEF Retires, OpenStop, IsStop
<1>2. OpenStop(x)' => OpenStop(x)
  BY DEF Retires, OpenStop, IsStop
<1>. QED
  BY <1>1, <1>2 DEF stops, MaybeRun

\* A new stop request adds the run it names.
LEMMA StopsAccepted ==
  ASSUME NEW x \in MaybeRun, Enqueue("stop_terminal", x)
  PROVE  stops' = stops \cup {x}
<1>1. PICK n : reqs' = reqs \cup {[kind |-> "stop_terminal", run |-> x, at |-> n]}
  BY DEF Enqueue
<1>2. OpenStop(x)'
  <2>. DEFINE q == [kind |-> "stop_terminal", run |-> x, at |-> n]
  <2>1. q \in reqs' /\ q.kind = "stop_terminal" /\ q.run = x
    BY <1>1
  <2>. HIDE DEF q
  <2>. QED
    BY <2>1 DEF OpenStop, IsStop
<1>3. \A y \in MaybeRun \ {x} : OpenStop(y)' <=> OpenStop(y)
  BY <1>1 DEF OpenStop, IsStop
<1>. QED
  BY <1>2, <1>3 DEF stops

LEMMA PhaseOfNames == PhaseOf("absent") = "unborn" /\ PhaseOf("running") = "awake"
<1>1. "running" \notin PAUSED_RUN_STATUSES /\ "absent" \notin PAUSED_RUN_STATUSES
  BY DEF PAUSED_RUN_STATUSES
<1>. QED
  BY <1>1 DEF PhaseOf

-----------------------------------------------------------------------------
LEMMA PromiseInit == Init => Promise!Init
<1>. SUFFICES ASSUME Init PROVE Promise!Init
  OBVIOUS
<1>1. \A r \in Runs : PhaseOf(run[r].st) = "unborn"
  BY PhaseOfNames DEF Init, NewRun
<1>2. \A r \in MaybeRun : ~OpenStop(r)
  BY DEF Init, OpenStop
<1>. QED
  BY <1>1, <1>2 DEF Promise!Init

LEMMA PromiseStep ==
  ASSUME "recover" \notin Entries, Inv, Inv', PauseFree, RowStep
  PROVE  [Promise!Next]_<<phase, stops>>
<1>0. RunOK /\ RunOK'
  BY DEF Inv, TypeOK
<1>1. CASE RowsIdle
  <2>1. PICK x \in MaybeRun : Retires(x)
    BY <1>1 DEF RowsIdle
  <2>2. phase' = phase
    BY <1>1, PhasesKept DEF RowsIdle
  <2>3. CASE stops' = stops \ {x}
    <3>1. Promise!Retire(x)
      BY <2>2, <2>3 DEF Promise!Retire, phase, stops
    <3>. QED
      BY <3>1 DEF Promise!Next, MaybeRun
  <2>. QED
    BY <2>1, <2>2, <2>3, StopsRetired
<1>2. CASE RowsAccept
  <2>1. phase' = phase
    BY <1>2, PhasesKept DEF RowsAccept
  <2>2. ASSUME NEW r \in Runs, Born(r), ~Terminal(r), Enqueue("stop_terminal", r)
        PROVE  Promise!AcceptStop(r)
    <3>1. r \in Promise!Unfinished
      BY <1>0, <2>2, UnfinishedAreActive
      DEF ActiveRuns, Born, Terminal, Active, RunOK, MISSION_RUN_STATUSES
    <3>2. stops' = stops \cup {r}
      BY <2>2, StopsAccepted DEF MaybeRun
    <3>. QED
      BY <2>1, <3>1, <3>2 DEF Promise!AcceptStop, phase, stops
  <2>3. ASSUME ActiveRuns = {}, Enqueue("stop_terminal", NoRun)
        PROVE  Promise!AcceptSessionStop
    <3>1. stops' = stops \cup {NoRun}
      BY <2>3, StopsAccepted DEF MaybeRun
    <3>. QED
      BY <1>0, <2>1, <2>3, <3>1, UnfinishedAreActive
      DEF Promise!AcceptSessionStop, phase, stops
  <2>. QED
    BY <1>2, <2>2, <2>3 DEF RowsAccept, PauseFree, Promise!Next
<1>3. ASSUME NEW r \in Runs, RowsBegin(r)
      PROVE  Promise!Begin(r)
  <2>1. phase[r] = "unborn" /\ Promise!Unfinished = {} /\ NoRun \notin stops
    BY <1>0, <1>3, Phases, UnfinishedAreActive DEF RowsBegin, stops
  <2>2. phase' = [phase EXCEPT ![r] = "awake"]
    BY <1>0, <1>3, PhaseChange, PhaseOfNames DEF RowsBegin
  <2>3. stops' = stops
    BY <1>3 DEF RowsBegin, stops, OpenStop
  <2>. QED
    BY <2>1, <2>2, <2>3 DEF Promise!Begin, phase, stops
<1>4. ASSUME NEW r \in Runs, RowsWake(r)
      PROVE  Promise!Rouse(r) \/ UNCHANGED <<phase, stops>>
  <2>1. phase' = [phase EXCEPT ![r] = "awake"] /\ phase[r] \in {"awake", "asleep"}
    BY <1>0, <1>4, PhaseChange, PhaseOfNames, Phases DEF RowsWake
  <2>2. stops' = stops
    BY <1>4 DEF RowsWake, stops, OpenStop
  <2>3. CASE phase[r] = "awake"
    <3>1. phase' = phase
      BY <2>1, <2>3 DEF phase
    <3>. QED
      BY <2>2, <3>1
  <2>4. CASE phase[r] = "asleep"
    BY <2>1, <2>2, <2>4 DEF Promise!Rouse, phase, stops
  <2>. QED
    BY <2>1, <2>3, <2>4
<1>5. ASSUME NEW r \in Runs, RowsPark(r)
      PROVE  Promise!Sleep(r) \/ UNCHANGED <<phase, stops>>
  <2>1. phase' = [phase EXCEPT ![r] = "asleep"] /\ phase[r] \in {"awake", "asleep"}
    BY <1>0, <1>5, PhaseChange, Phases DEF RowsPark, PhaseOf, PAUSED_RUN_STATUSES
  <2>2. stops' = stops /\ r \notin stops
    BY <1>5 DEF RowsPark, PauseFree, stops, OpenStop
  <2>3. CASE phase[r] = "asleep"
    <3>1. phase' = phase
      BY <2>1, <2>3 DEF phase
    <3>. QED
      BY <2>2, <3>1
  <2>4. CASE phase[r] = "awake"
    BY <2>1, <2>2, <2>4 DEF Promise!Sleep, phase, stops
  <2>. QED
    BY <2>1, <2>3, <2>4
<1>6. ASSUME NEW r \in Runs, RowsEnd(r)
      PROVE  Promise!End(r)
  <2>1. phase' = [phase EXCEPT ![r] = "over"] /\ r \in Promise!Unfinished
    BY <1>0, <1>6, PhaseChange, UnfinishedAreActive
    DEF RowsEnd, PhaseOf, ActiveRuns, TERMINAL_RUN_STATUSES, PAUSED_RUN_STATUSES
  <2>2. stops' \in {stops, stops \ {r}}
    BY <1>6, StopsRetired DEF RowsEnd
  <2>. QED
    BY <2>1, <2>2 DEF Promise!End, phase, stops
<1>. QED
  BY <1>1, <1>2, <1>3, <1>4, <1>5, <1>6 DEF RowStep, Promise!Next

\* Whatever the slices, the clock and the crashes do, the operator who neither
\* recovers a failed mission nor pauses a run sees the rows follow
\* MissionPromise: one unfinished run at a time, finished runs that stay
\* finished, and no run put to sleep over an accepted stop.
THEOREM ControlKeepsPromise ==
  ASSUME "recover" \notin Entries, "pause" \notin Commands
  PROVE  Spec => PromiseKept
<1>1. Inv /\ Inv' /\ PauseFree /\ [Next]_vars => [Promise!Next]_<<phase, stops>>
  BY NextStep, PromiseStep
<1>. QED
  BY <1>1, PromiseInit, InvHolds, PauseFreeHolds, PTL
  DEF Spec, PromiseKept, Promise!Spec, phase, stops
=============================================================================
