---------------------------- MODULE MCEvmNonces ----------------------------
(***************************************************************************)
(* EvmNonces for TLC.  Two instances in one run: two signing calls and one *)
(* observer; and, with the first trouble (a foreign transaction before the *)
(* call, say), a single call and two observers.                            *)
(*                                                                         *)
(* Focus withholds only what no fairness asks for - Begin, Refuse of a     *)
(* call that has not begun, trouble, the claims of v - so every behaviour  *)
(* it admits can go on fairly: the steps of Fairness take no row into      *)
(* InPlay, and whatever v could claim, u can.                              *)
(***************************************************************************)
EXTENDS EvmNonces, FiniteSets

CONSTANTS a, b, l, u, v

InPlay == {e \in Attempts : pc[e] # "idle" \/ (e \in Activity /\ row[e].status = "open")}

Focus ==
  \/ Cardinality(InPlay) <= 2 /\ obs[v] = Idle /\ trouble = MaxTrouble
  \/ Cardinality(InPlay) <= 1 /\ obs[v].row # b /\ trouble < MaxTrouble

MCNext == Next /\ Focus'

MCFairSpec == Init /\ [][MCNext]_nonceVars /\ Fairness
=============================================================================
