----------------------------- MODULE EvmNonces -----------------------------
(***************************************************************************)
(* One wallet on one EVM chain: how a signing attempt gets its nonce, what *)
(* is written before its transaction may leave, and how the sweeps that    *)
(* only read the chain end its row.                                        *)
(*                                                                         *)
(* row: the durable rows, agent_activity for an intent or a bridge leg,    *)
(* evm_nonce_reservations for a legacy signer.  pc, seen, owner: the       *)
(* signing calls of the process and the in-memory nonce owner.  obs: the   *)
(* observers of the repair sweep.  wire, included: the chain (external).   *)
(***************************************************************************)
EXTENDS Naturals

CONSTANTS
  Intents,     \* activity rows signed through signStageBroadcast or signUniswapTransaction
  Bridges,     \* activity rows signed by Khalani's leg signer, which has no signing guard
  Legacy,      \* signers with a reservation row and no activity row
  Observers,   \* concurrent observations of the repair sweep
  NoNonce,     \* the null of a nonce column
  MaxTrouble   \* bound on restarts, foreign transactions, lost sights, failed reads

VARIABLES
  row,       \* the durable rows
  pc,        \* where the signing call of a row stands
  seen,      \* the pending count the call prepared its request with
  owner,     \* acquireEvmNonceOwner's holder
  obs,       \* the observations in progress
  wire,      \* what the network did with the transaction of a row
  included,  \* eth_getTransactionCount(wallet, 'latest')
  trouble    \* what is left of MaxTrouble

nonceVars == <<row, pc, seen, owner, obs, wire, included, trouble>>

Activity == Intents \cup Bridges
Attempts == Activity \cup Legacy

NoAttempt == "noattempt"
NoObserver == "noobserver"

ASSUME NonceConstants ==
  /\ Intents \cap Bridges = {} /\ Intents \cap Legacy = {} /\ Bridges \cap Legacy = {}
  /\ NoNonce \notin Nat /\ NoObserver \notin Observers
  /\ MaxTrouble \in Nat

\* status joins the two tables.  open: pending without a hash, or reserved;
\* staged: pending with a hash, or staged and accepted; refused: failed as never
\* attempted, or abandoned; settled: confirmed with the amounts the handler
\* decoded; confirmed: by a status alone; superseded and unproven: the two
\* reasons of superseded_unproven; terminal: a legacy row's only end.
Verdicts == {"settled", "confirmed", "reverted", "superseded", "unproven", "terminal"}
Statuses == {"open", "staged", "refused"} \cup Verdicts

\* lease: nonce_reservation_until, and of a legacy row its 15 minutes before it is
\* stale; window: the 90 s in which the handler alone may judge; clock: the
\* non-inclusion clock, due once it has run 10 minutes; claim, held: the token of
\* the last claim and whether its lease is unexpired.
NewRow ==
  [status |-> "open", nonce |-> NoNonce, lease |-> "none", window |-> FALSE,
   clock |-> "off", claim |-> NoObserver, held |-> FALSE]

Idle == [pc |-> "idle", row |-> NoAttempt, late |-> FALSE, saw |-> "nothing"]

Init ==
  /\ row = [e \in Attempts |-> NewRow]
  /\ pc = [e \in Attempts |-> "idle"]
  /\ seen = [e \in Attempts |-> 0]
  /\ owner = NoAttempt
  /\ obs = [w \in Observers |-> Idle]
  /\ wire = [e \in Attempts |-> "unsent"]
  /\ included = 0
  /\ trouble = MaxTrouble

-----------------------------------------------------------------------------
\* The chain, as the code reads it.

Pooled(n) == \E e \in Attempts : wire[e] = "pool" /\ row[e].nonce = n

NoGapBelow(n) == \A k \in included .. n : k < n => Pooled(k)

\* n is the wallet's pending count: included transactions, and the gapless run
\* of pooled ones after them.
IsPending(n) == included <= n /\ ~Pooled(n) /\ NoGapBelow(n)

Mined == {"succeeded", "failed"}

Trouble == trouble > 0 /\ trouble' = trouble - 1

-----------------------------------------------------------------------------
\* Nonces taken: what highestOwnedOrConsumedNonce counts.

Owned(e) ==
  /\ row[e].nonce # NoNonce
  /\ \/ row[e].status = "open" /\ (e \in Activity => row[e].lease = "live")
     \/ row[e].status \in {"staged", "settled", "confirmed", "reverted", "terminal"}

\* abandonStaleLegacyReservations, in the transaction of every reservation.
Stale(e) == e \in Legacy /\ row[e].status = "open" /\ row[e].lease = "over"

\* max(node's pending count, highest taken + 1).
Fresh(e, n) ==
  LET Taken == {f \in Attempts : Owned(f) /\ ~Stale(f)}
  IN /\ seen[e] <= n
     /\ \A f \in Taken : row[f].nonce < n
     /\ n = seen[e] \/ \E f \in Taken : n = row[f].nonce + 1

-----------------------------------------------------------------------------
\* The signing call.

Leave(e) == owner' = IF owner = e THEN NoAttempt ELSE owner

\* The turn, and the keyless preparation that reads the pending count.
Begin(e) ==
  /\ pc[e] = "idle" /\ owner = NoAttempt
  /\ owner' = e
  /\ pc' = [pc EXCEPT ![e] = "prepared"]
  /\ \E n \in {included} \cup {row[f].nonce + 1 : f \in {g \in Attempts : wire[g] = "pool"}} :
       IsPending(n) /\ seen' = [seen EXCEPT ![e] = n]
  /\ UNCHANGED <<row, obs, wire, included, trouble>>

Reserve(e) ==
  /\ pc[e] = "prepared"
  /\ row[e].status = "open" /\ row[e].nonce = NoNonce
  /\ \E n \in {seen[e]} \cup {row[f].nonce + 1 : f \in {g \in Attempts : Owned(g)}} :
       /\ Fresh(e, n)
       /\ row' = [f \in Attempts |->
            IF f = e THEN [row[e] EXCEPT !.nonce = n, !.lease = "live"]
            ELSE IF Stale(f) THEN [row[f] EXCEPT !.status = "refused"]
            ELSE row[f]]
  /\ pc' = [pc EXCEPT ![e] = "reserved"]
  /\ UNCHANGED <<seen, owner, obs, wire, included, trouble>>

\* assertReservedNonceMatchesPending; a legacy reservation has no lease to
\* validate, and Khalani's signer only asks that the nonce is not behind the
\* count it prepared with.
SigningGuard(e) ==
  /\ e \in Intents => row[e].lease = "live"
  /\ e \notin Bridges => IsPending(row[e].nonce)

\* The gate, the key and the signature.  signUniswapTransaction gives the turn
\* back here, the others after the submit.
Sign(e) ==
  /\ pc[e] = "reserved" /\ SigningGuard(e)
  /\ pc' = [pc EXCEPT ![e] = "signed"]
  /\ (Leave(e) /\ e \in Intents) \/ UNCHANGED owner
  /\ UNCHANGED <<row, seen, obs, wire, included, trouble>>

\* Mutant: an expired lease may still be staged.
MayStageWithoutLease(e) == row[e].status = "open"

\* The compare-and-set of markActivityBroadcast and of stageLegacyEvmNonce.
MayStage(e) ==
  /\ row[e].status = "open"
  /\ e \in Activity => row[e].lease = "live"

\* The hash is written; the submit follows, if the process and the answer live.
Stage(e) ==
  /\ pc[e] = "signed" /\ MayStage(e)
  /\ row' = [row EXCEPT ![e].status = "staged", ![e].lease = "none",
                        ![e].window = e \in Activity]
  /\ pc' = [pc EXCEPT ![e] = "staged"]
  /\ UNCHANGED <<seen, owner, obs, wire, included, trouble>>

\* A node takes a transaction whose nonce is not used up; it may also not have
\* been reached, and the answer of one that was reached may be lost.  Nothing is
\* ever sent again.
Send(e) ==
  /\ pc[e] = "staged"
  /\ Leave(e)
  /\ \/ /\ included <= row[e].nonce /\ ~Pooled(row[e].nonce)
        /\ wire' = [wire EXCEPT ![e] = "pool"]
        /\ \E next \in {"waiting", "gone"} : pc' = [pc EXCEPT ![e] = next]
     \/ pc' = [pc EXCEPT ![e] = "gone"] /\ UNCHANGED wire
  /\ UNCHANGED <<row, seen, obs, included, trouble>>

\* Mutant: the winning update leaves the claim.
KeepClaim(r) == r

\* A terminal row holds no claim: cleared in the winning update.
ClearClaim(r) == [r EXCEPT !.claim = NoObserver, !.held = FALSE]

Judged(r, verdict) == ClearClaim([r EXCEPT !.status = verdict])

\* Mutant: the handler writes over whatever a sweep concluded.
Overwritable(r) == r.status # "open"

Undecided(r) == r.status = "staged"

\* The bounded receipt wait: the handler judges its own row without a fence, and
\* misses if a sweep was first; or it gives up, which judges nothing.
HandlerReads(e) ==
  LET verdict == IF e \in Legacy THEN "terminal"
                 ELSE IF wire[e] = "succeeded" THEN "settled" ELSE "reverted"
  IN /\ pc[e] = "waiting" /\ wire[e] \in Mined
     /\ pc' = [pc EXCEPT ![e] = "gone"]
     /\ row' = IF Undecided(row[e])
               THEN [row EXCEPT ![e] = Judged(@, verdict)] ELSE row
     /\ UNCHANGED <<seen, owner, obs, wire, included, trouble>>

GivesUp(e) ==
  /\ pc[e] = "waiting"
  /\ pc' = [pc EXCEPT ![e] = "gone"]
  /\ UNCHANGED <<row, seen, owner, obs, wire, included, trouble>>

\* Every refusal before the submit: no turn, a failed estimate, a gate, an
\* expired lease, a nonce that does not match, a staging miss.  The scope exit
\* gives an unsigned lease back, Khalani's signer has no scope; the handler
\* finalizes the row.  Both writes are best effort.
Refuse(e) ==
  /\ \/ pc[e] \in {"prepared", "reserved", "signed"}
     \/ pc[e] = "idle" /\ owner # NoAttempt
  /\ Leave(e)
  /\ pc' = [pc EXCEPT ![e] = "gone"]
  /\ \E released, finalized \in BOOLEAN :
       row' = IF row[e].status # "open" THEN row
              ELSE IF e \in Legacy
                THEN [row EXCEPT ![e].status = IF released THEN "refused" ELSE @]
              ELSE [row EXCEPT
                     ![e].lease = IF released /\ e \in Intents THEN "none" ELSE @,
                     ![e].status = IF finalized THEN "refused" ELSE @]
  /\ UNCHANGED <<seen, obs, wire, included, trouble>>

\* Mutant: the reaper does not ask whether a hash was written.
ReapableWithHash(r) == r.status \in {"open", "staged"} /\ r.lease # "live"

\* recoverStaleHashlessIntents, for a row created more than 15 minutes ago - the
\* user may have taken that long to reach the signature.
Reapable(r) == r.status = "open" /\ r.lease # "live"

Reap(e) ==
  /\ e \in Activity /\ Reapable(row[e])
  /\ row' = [row EXCEPT ![e].status = "refused"]
  /\ UNCHANGED <<pc, seen, owner, obs, wire, included, trouble>>

-----------------------------------------------------------------------------
\* The repair sweep.  It claims a page of rows and then looks at them one after
\* another, each look up to three reads.  An observer's own name stands for the
\* token of its claim: it holds one at a time.

\* Mutant: the handler's window is not looked at.
AlwaysLate(r) == TRUE

\* isPastHandlerWindow, on the row as it was claimed.
Late(r) == ~r.window

\* Mutant: a claim is never taken over, so its holder must live.
NeverClaimed(r) == r.claim = NoObserver

\* No claim, or one whose lease of 30 s is past.
Unclaimed(r) == ~r.held

Claim(w, e) ==
  /\ obs[w].pc = "idle" /\ row[e].status = "staged" /\ Unclaimed(row[e])
  /\ row' = [row EXCEPT ![e].claim = w, ![e].held = TRUE]
  /\ obs' = [obs EXCEPT ![w] =
       [pc |-> "receipt", row |-> e, late |-> Late(row[e]), saw |-> "nothing"]]
  /\ UNCHANGED <<pc, seen, owner, wire, included, trouble>>

Answer(w, saw) == obs' = [obs EXCEPT ![w].pc = "apply", ![w].saw = saw]

\* hasConfirmedEvmNonceSibling: another confirmed row with this nonce.
\* NonceExclusive leaves it nothing to find.
ConfirmedSibling(e) ==
  \E f \in Activity \ {e} : row[f].nonce = row[e].nonce /\ row[f].status \in {"settled", "confirmed"}

\* The sibling lookup in the database, then eth_getTransactionReceipt.
ReadReceipt(w) ==
  LET e == obs[w].row
  IN /\ obs[w].pc = "receipt"
     /\ \/ ConfirmedSibling(e) /\ Answer(w, "superseded")
        \/ ~ConfirmedSibling(e) /\ wire[e] \in Mined /\ Answer(w, wire[e])
        \/ /\ ~ConfirmedSibling(e) /\ wire[e] \notin Mined
           /\ obs' = [obs EXCEPT ![w].pc = "pool"]
     /\ UNCHANGED <<row, pc, seen, owner, wire, included, trouble>>

\* eth_getTransactionByHash, then eth_getTransactionCount: a transaction mined
\* since the receipt was read is in no pool, and its own nonce is used up.
ReadPool(w) ==
  LET e == obs[w].row
  IN /\ obs[w].pc = "pool"
     /\ \/ wire[e] = "pool" /\ Answer(w, "alive")
        \/ wire[e] # "pool" /\ included > row[e].nonce /\ Answer(w, "superseded")
        \/ wire[e] # "pool" /\ included <= row[e].nonce /\ Answer(w, "unknown")
     /\ UNCHANGED <<row, pc, seen, owner, wire, included, trouble>>

\* rpc_error or the deadline; or a receipt whose status nobody can read, which
\* like a transaction still alive stops the clock and concludes nothing.
ReadFails(w) ==
  /\ obs[w].pc \in {"receipt", "pool"}
  /\ Trouble
  /\ \/ Answer(w, "error")
     \/ obs[w].pc = "receipt" /\ wire[obs[w].row] \in Mined /\ Answer(w, "alive")
  /\ UNCHANGED <<row, pc, seen, owner, wire, included>>

\* COALESCE(first_noninclusion_observed_at, NOW()).
StartClock(c) == IF c = "off" THEN "run" ELSE c

\* The clock of a row after an answer: noteNonInclusionObserved, or cleared.
Noted(r, saw) ==
  [r EXCEPT !.clock = IF saw \in Mined \cup {"alive"} THEN "off"
                      ELSE IF saw = "error" THEN @ ELSE StartClock(@)]

\* resolveEvmNonceReservation.
LegacyConcluded(r, saw) ==
  IF saw \in Mined \cup {"superseded"} THEN Judged(r, "terminal") ELSE ClearClaim(r)

\* applyObservation: r is noted.  Without a verdict the row gives its claim back.
ActivityConcluded(r, o) ==
  CASE o.late /\ o.saw = "succeeded" -> Judged(r, "confirmed")
    [] o.late /\ o.saw = "failed" -> Judged(r, "reverted")
    [] o.late /\ o.saw = "superseded" /\ ~r.window -> Judged(r, "superseded")
    [] o.late /\ o.saw = "unknown" /\ ~r.window /\ r.clock = "due" -> Judged(r, "unproven")
    [] OTHER -> ClearClaim(r)

Concluded(e, o) ==
  IF e \in Legacy THEN LegacyConcluded(row[e], o.saw)
  ELSE ActivityConcluded(Noted(row[e], o.saw), o)

\* Every write of an answer carries the token.
Fenced(w, e) == row[e].claim = w /\ row[e].status = "staged"

Apply(w) ==
  LET e == obs[w].row
  IN /\ obs[w].pc = "apply"
     /\ obs' = [obs EXCEPT ![w] = Idle]
     /\ row' = IF Fenced(w, e) THEN [row EXCEPT ![e] = Concluded(e, obs[w])] ELSE row
     /\ UNCHANGED <<pc, seen, owner, wire, included, trouble>>

-----------------------------------------------------------------------------
\* Time, by the database's clock.  The clocks of an ended row are read by nobody.

LeaseEnds(e) == row[e].lease = "live" /\ row' = [row EXCEPT ![e].lease = "over"]
WindowEnds(e) == row[e].window /\ row' = [row EXCEPT ![e].window = FALSE]
ClockRuns(e) == row[e].clock = "run" /\ row' = [row EXCEPT ![e].clock = "due"]
ClaimEnds(e) == row[e].held /\ row' = [row EXCEPT ![e].held = FALSE]

Tick(e) ==
  /\ row[e].status \in {"open", "staged"}
  /\ LeaseEnds(e) \/ WindowEnds(e) \/ ClockRuns(e) \/ ClaimEnds(e)
  /\ UNCHANGED <<pc, seen, owner, obs, wire, included, trouble>>

-----------------------------------------------------------------------------
\* The network.  A transaction out of sight of the node we ask may still be known
\* to another.

Include(e) ==
  /\ wire[e] \in {"pool", "hidden"} /\ row[e].nonce = included
  /\ included' = included + 1
  /\ \E outcome \in Mined :
       wire' = [f \in Attempts |->
         IF f = e THEN outcome
         ELSE IF wire[f] = "pool" /\ row[f].nonce = included THEN "hidden" ELSE wire[f]]
  /\ UNCHANGED <<row, pc, seen, owner, obs, trouble>>

\* The user signs with this wallet somewhere else.
Foreign ==
  /\ Trouble
  /\ included' = included + 1
  /\ wire' = [f \in Attempts |->
       IF wire[f] = "pool" /\ row[f].nonce = included THEN "hidden" ELSE wire[f]]
  /\ UNCHANGED <<row, pc, seen, owner, obs>>

Hide(e) ==
  /\ wire[e] = "pool" /\ Trouble
  /\ wire' = [wire EXCEPT ![e] = "hidden"]
  /\ UNCHANGED <<row, pc, seen, owner, obs, included>>

Reappear(e) ==
  /\ wire[e] = "hidden" /\ included <= row[e].nonce /\ ~Pooled(row[e].nonce)
  /\ wire' = [wire EXCEPT ![e] = "pool"]
  /\ UNCHANGED <<row, pc, seen, owner, obs, included, trouble>>

\* The process dies: calls, the turn and the observations are gone, rows stay.
Restart ==
  /\ Trouble
  /\ pc' = [e \in Attempts |-> IF pc[e] = "idle" THEN "idle" ELSE "gone"]
  /\ owner' = NoAttempt
  /\ obs' = [w \in Observers |-> Idle]
  /\ UNCHANGED <<row, seen, wire, included>>

-----------------------------------------------------------------------------
SigningStep(e) ==
  \/ Begin(e) \/ Reserve(e) \/ Sign(e) \/ Stage(e) \/ Send(e)
  \/ HandlerReads(e) \/ GivesUp(e) \/ Refuse(e)

Look(w) == ReadReceipt(w) \/ ReadPool(w) \/ ReadFails(w) \/ Apply(w)

Next ==
  \/ \E e \in Attempts :
       SigningStep(e) \/ Reap(e) \/ Tick(e) \/ Include(e) \/ Hide(e) \/ Reappear(e)
  \/ \E w \in Observers : Look(w) \/ \E e \in Attempts : Claim(w, e)
  \/ Foreign \/ Restart

Spec == Init /\ [][Next]_nonceVars

\* The sweep runs every tick and serves the row it has not looked at for longest;
\* a look ends by its deadline; clocks run; and a transaction the node keeps in
\* its pool is included in the end.  Nothing is asked of the signing calls.
Fairness ==
  /\ \A e \in Attempts :
       /\ SF_nonceVars(\E w \in Observers : Claim(w, e))
       /\ WF_nonceVars(Reap(e))
       /\ WF_nonceVars(LeaseEnds(e) /\ Tick(e))
       /\ WF_nonceVars(WindowEnds(e) /\ Tick(e))
       /\ WF_nonceVars(ClockRuns(e) /\ Tick(e))
       /\ WF_nonceVars(ClaimEnds(e) /\ Tick(e))
       /\ WF_nonceVars(wire[e] = "pool" /\ Include(e))
  /\ \A w \in Observers : WF_nonceVars(Look(w))

FairSpec == Spec /\ Fairness

-----------------------------------------------------------------------------
\* Type correctness, with the CHECKs of migration 091 and 157: a hash has a
\* nonce, a row without one has no claim and no running clock, an ended row
\* holds no claim (evm-claim.ts, terminal-cas.ts).
RowTypes ==
  [status : Statuses, nonce : Nat \cup {NoNonce}, lease : {"none", "live", "over"},
   window : BOOLEAN, clock : {"off", "run", "due"},
   claim : Observers \cup {NoObserver}, held : BOOLEAN]

NonceTypeOK ==
  /\ row \in [Attempts -> RowTypes]
  /\ \A e \in Attempts :
       /\ row[e].status \notin {"open", "refused"} => row[e].nonce # NoNonce
       /\ row[e].claim # NoObserver => row[e].status = "staged"
       /\ row[e].held => row[e].claim # NoObserver
  /\ pc \in [Attempts -> {"idle", "prepared", "reserved", "signed", "staged", "waiting", "gone"}]
  /\ seen \in [Attempts -> Nat]
  /\ owner \in Attempts \cup {NoAttempt}
  /\ obs \in [Observers ->
       [pc : {"idle", "receipt", "pool", "apply"}, row : Attempts \cup {NoAttempt}, late : BOOLEAN,
        saw : Mined \cup {"nothing", "alive", "superseded", "unknown", "error"}]]
  /\ wire \in [Attempts -> {"unsent", "pool", "hidden"} \cup Mined]
  /\ included \in Nat
  /\ trouble \in 0 .. MaxTrouble

\* Two rows that hold a nonce, or used one up, never share it - whichever signer
\* reserved it, and although a reservation can lapse while its call still runs
\* (evm-nonce-reservations.ts:137, swap-lifecycle.ts:75).
NonceExclusive ==
  \A e, f \in Attempts : e # f /\ Owned(e) /\ Owned(f) => row[e].nonce # row[f].nonce

\* What a row claims is so: a transaction that left has a row that names it, one
\* refused as never attempted did not leave and will not, and a confirmation or a
\* revert is what the chain did - the reaper, the staging of a slow signer and
\* late observers notwithstanding (hashless-recovery.ts:214, terminal-cas.ts:213).
VerdictsAreTrue ==
  \A e \in Attempts :
    /\ wire[e] # "unsent" => row[e].status \notin {"open", "refused"}
    /\ row[e].status = "refused" => pc[e] \notin {"staged", "waiting"}
    /\ row[e].status \in {"settled", "confirmed"} => wire[e] = "succeeded"
    /\ row[e].status = "reverted" => wire[e] = "failed"

\* While its 90 s run, a row whose handler still waits for the receipt is judged
\* by nobody else, so amounts the handler decodes are never lost to a
\* confirmation that has none (terminal-cas.ts:101-125, handler-window.ts).
HandlerKeepsItsWindow ==
  \A e \in Activity : pc[e] = "waiting" /\ row[e].window => row[e].status = "staged"

\* The rows and the chain together implement NoncePromise.
Phase(status) ==
  CASE status = "staged" -> "committed"
    [] status \in {"settled", "confirmed"} -> "confirmed"
    [] status \in {"superseded", "unproven", "terminal"} -> "closed"
    [] OTHER -> status

Outcome(x) == IF x \in Mined THEN x ELSE "none"

Life(e) ==
  [phase |-> Phase(row[e].status), sent |-> wire[e] # "unsent", outcome |-> Outcome(wire[e])]

Promise == INSTANCE NoncePromise WITH life <- [e \in Attempts |-> Life(e)]

\* A transaction leaves once, and only behind a row committed to it; no sweep,
\* retry, restart or late observer makes a row say two things, or an outcome
\* the chain did not give (staged-broadcast.ts:544, terminal-cas.ts:213).
KeepsNoncePromise == Promise!Spec

\* No row waits for ever: a reservation is reaped, a staged transaction is judged
\* or given up as unproven, whatever became of the process that signed it.  There
\* are two exceptions: the transaction a node keeps behind a nonce nobody fills,
\* which the sweep finds alive at every look (applyObservation,
\* clearNonInclusionClock); and the row whose looks outlast their claims again and
\* again, each answer fenced off by the next claim.  Legacy rows have no such end
\* (resolveEvmNonceReservation).
BehindAGap(e) == wire[e] = "pool" /\ included < row[e].nonce

Overtaken(e) ==
  \E w \in Observers : obs[w].row = e /\ (row[e].claim = w => ~row[e].held)

IntentsEnd ==
  \A e \in Activity :
    \/ <>[](row[e].status \in {"refused"} \cup Verdicts \/ BehindAGap(e))
    \/ []<>Overtaken(e)

\* nonce-signing-guard.ts:4: "A stale local nonce must never become a queued gap."
NoQueuedGap ==
  [][\A e \in Attempts : pc[e] = "reserved" /\ pc'[e] = "signed" => NoGapBelow(row[e].nonce)]_nonceVars

=============================================================================
