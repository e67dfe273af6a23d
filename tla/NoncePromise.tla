---------------------------- MODULE NoncePromise ----------------------------
(***************************************************************************)
(* What the durable rows promise about the transactions they stand for: a  *)
(* transaction leaves once at most, after its row was committed to it; a   *)
(* refused attempt never leaves; and a row is concluded once, with a       *)
(* success or a failure only if that is what the chain did.  Several       *)
(* attempts may move in one step.                                          *)
(***************************************************************************)
CONSTANT Attempts

VARIABLE life   \* of an attempt: the word of its row, whether it left, its outcome

Start == [phase |-> "open", sent |-> FALSE, outcome |-> "none"]

Init == life = [e \in Attempts |-> Start]

Moves(e, from, to) == life[e].phase \in from /\ life'[e] = [life[e] EXCEPT !.phase = to]

Refuses(e) == Moves(e, {"open"}, "refused")
Commits(e) == Moves(e, {"open"}, "committed")

\* Also of a row that was given up before a slow process submits.
Leaves(e) ==
  /\ life[e].phase \notin {"open", "refused"} /\ ~life[e].sent
  /\ life'[e] = [life[e] EXCEPT !.sent = TRUE]

Lands(e) ==
  /\ life[e].sent /\ life[e].outcome = "none"
  /\ \E o \in {"succeeded", "failed"} : life'[e] = [life[e] EXCEPT !.outcome = o]

Confirms(e) == life[e].outcome = "succeeded" /\ Moves(e, {"committed"}, "confirmed")
Reverts(e) == life[e].outcome = "failed" /\ Moves(e, {"committed"}, "reverted")

\* Given up: superseded, unproven, or a legacy row's end, which names no outcome.
Closes(e) == Moves(e, {"committed"}, "closed")

Step(e) ==
  \/ Refuses(e) \/ Commits(e) \/ Leaves(e) \/ Lands(e)
  \/ Confirms(e) \/ Reverts(e) \/ Closes(e)
  \/ life'[e] = life[e]

Spec == Init /\ [][\A e \in Attempts : Step(e)]_life
=============================================================================
