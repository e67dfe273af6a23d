--------------------------- MODULE MissionPromise ---------------------------
(***************************************************************************)
(* What the control plane promises the operator about the runs of one      *)
(* session, whoever drives them and however late a heartbeat is:           *)
(*   - one unfinished run at a time, and a finished run stays finished;    *)
(*   - a stop is accepted only for a run that is not over, or for the      *)
(*     session when it has no unfinished run, and then no run begins until *)
(*     that stop has been served;                                          *)
(*   - a run with an accepted stop does not go to sleep.                   *)
(***************************************************************************)
CONSTANTS Runs, NoRun

VARIABLES
  phase, \* of every run: unborn, awake, asleep or over
  stops  \* the accepted stops: runs, or NoRun for the session

Unfinished == {r \in Runs : phase[r] \in {"awake", "asleep"}}

Init ==
  /\ phase = [r \in Runs |-> "unborn"]
  /\ stops = {}

Begin(r) ==
  /\ phase[r] = "unborn"
  /\ Unfinished = {} /\ NoRun \notin stops
  /\ phase' = [phase EXCEPT ![r] = "awake"]
  /\ UNCHANGED stops

Sleep(r) ==
  /\ phase[r] = "awake" /\ r \notin stops
  /\ phase' = [phase EXCEPT ![r] = "asleep"]
  /\ UNCHANGED stops

Rouse(r) ==
  /\ phase[r] = "asleep"
  /\ phase' = [phase EXCEPT ![r] = "awake"]
  /\ UNCHANGED stops

\* A run ends on its own, or because its stop is served.
End(r) ==
  /\ r \in Unfinished
  /\ phase' = [phase EXCEPT ![r] = "over"]
  /\ stops' \in {stops, stops \ {r}}

AcceptStop(r) ==
  /\ r \in Unfinished
  /\ stops' = stops \cup {r}
  /\ UNCHANGED phase

AcceptSessionStop ==
  /\ Unfinished = {}
  /\ stops' = stops \cup {NoRun}
  /\ UNCHANGED phase

\* A stop nobody needs any more is retired, and so is one that the loop of
\* another run takes for a leftover.
Retire(r) ==
  /\ stops' = stops \ {r}
  /\ UNCHANGED phase

Next ==
  \/ \E r \in Runs : Begin(r) \/ Sleep(r) \/ Rouse(r) \/ End(r) \/ AcceptStop(r)
  \/ AcceptSessionStop
  \/ \E r \in Runs \cup {NoRun} : Retire(r)

Spec == Init /\ [][Next]_<<phase, stops>>
=============================================================================
