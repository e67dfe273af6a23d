-------------------------- MODULE ApprovalPromise --------------------------
(***************************************************************************)
(* What an approval card promises, whatever chains, passes, stops, crashes *)
(* and lost leases do to it: it is decided once; an approved tool is       *)
(* called at most once, and only in the dispatch the approval led to; a    *)
(* dispatch gets one verdict, in the same step as its one result message;  *)
(* the agent observes a result that exists, and then for good.             *)
(* ApprovalDispatch implements it.                                         *)
(***************************************************************************)
EXTENDS Naturals

CONSTANT Cards

VARIABLES
  phase,  \* absent, open, refused, granted, executing, settled
  calls,  \* how often the tool was called
  result  \* none, posted to the transcript, observed by a resumed turn

promiseVars == <<phase, calls, result>>

\* A card starts absent or open.
Init ==
  /\ phase \in [Cards -> {"absent", "open"}]
  /\ calls = [c \in Cards |-> 0]
  /\ result = [c \in Cards |-> "none"]

Keeps(c, vals) ==
  /\ "phase" \in vals => phase'[c] = phase[c]
  /\ "calls" \in vals => calls'[c] = calls[c]
  /\ "result" \in vals => result'[c] = result[c]

Raise(c) == phase[c] = "absent" /\ phase'[c] = "open" /\ Keeps(c, {"calls", "result"})

Decide(c) ==
  /\ phase[c] = "open" /\ phase'[c] \in {"refused", "granted"}
  /\ Keeps(c, {"calls", "result"})

\* The one way out of granted; the tool may turn out not to be called.
Dispatch(c) ==
  /\ phase[c] = "granted" /\ phase'[c] = "executing"
  /\ calls'[c] \in {0, 1}
  /\ Keeps(c, {"result"})

\* A verdict and its message, in one step; a refusal only has the message.
Answer(c) ==
  /\ result[c] = "none" /\ result'[c] = "posted"
  /\ \/ phase[c] = "executing" /\ phase'[c] = "settled"
     \/ phase[c] = "refused" /\ phase'[c] = "refused"
  /\ Keeps(c, {"calls"})

Observe(c) ==
  /\ result[c] = "posted" /\ result'[c] = "observed"
  /\ Keeps(c, {"phase", "calls"})

Untouched(c) == Keeps(c, {"phase", "calls", "result"})

\* One transaction may move several cards (a stop refuses all the open ones),
\* each along its own promise.
Next ==
  \A c \in Cards :
    Raise(c) \/ Decide(c) \/ Dispatch(c) \/ Answer(c) \/ Observe(c) \/ Untouched(c)

Spec == Init /\ [][Next]_promiseVars
=============================================================================
