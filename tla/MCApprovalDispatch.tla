------------------------ MODULE MCApprovalDispatch ------------------------
(***************************************************************************)
(* ApprovalDispatch for TLC.  Two instances in one run: a single card with *)
(* a caller, the hook, the sweep and whatever goes wrong; and two cards    *)
(* competing for the session, with a caller and the sweep and no trouble.  *)
(* The second card of the first instance is never raised.                  *)
(***************************************************************************)
EXTENDS ApprovalDispatch

CONSTANTS c1, c2, u1, h1, s1

Focus ==
  card[c2].st # "absent" =>
    /\ \A t \in Hooks : At(t, "idle")
    /\ trouble = MaxTrouble

MCInit == Init /\ Focus
MCNext == Next /\ Focus'

MCFairSpec == MCInit /\ [][MCNext]_dispatchVars /\ Fairness
=============================================================================
