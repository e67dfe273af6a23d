--------------------------- MODULE EvmNonceProofs ---------------------------
(***************************************************************************)
(* The safety of EvmNonces for any rows, signers and observers: proofs.    *)
(***************************************************************************)
EXTENDS EvmNonces, TLAPS

\* What a signing call may rely on: it signs for a nonce it reserved, it submits
\* for a row that names its hash, once, and during its window nobody else has
\* concluded that row.
CallsOK ==
  \A e \in Attempts :
    /\ pc[e] \in {"reserved", "signed"} => row[e].nonce # NoNonce
    /\ pc[e] \in {"staged", "waiting"} => row[e].status \notin {"open", "refused"}
    /\ e \in Activity /\ pc[e] \in {"staged", "waiting"} /\ row[e].window
         => row[e].status = "staged"
    /\ pc[e] \in {"idle", "prepared", "reserved", "signed", "staged"} => wire[e] = "unsent"

\* What an observer holds of its row stays so although it was read before: the
\* row has a hash, is past the handler's window if it was, and a receipt is final.
LooksOK ==
  \A w \in Observers :
    LET o == obs[w]
    IN o.pc # "idle" =>
         /\ o.row \in Attempts
         /\ row[o.row].status \notin {"open", "refused"}
         /\ o.late /\ o.row \in Activity => ~row[o.row].window
         /\ o.saw \in Mined => wire[o.row] = o.saw

IInv == NonceTypeOK /\ NonceExclusive /\ VerdictsAreTrue /\ CallsOK /\ LooksOK

-----------------------------------------------------------------------------
\* A step of one signing call, of one observer, or of everything else.
LEMMA Cases ==
  ASSUME Next
  PROVE  \/ \E e \in Attempts :
              \/ Begin(e) \/ Reserve(e) \/ Sign(e) \/ Stage(e) \/ Send(e)
              \/ HandlerReads(e) \/ GivesUp(e) \/ Refuse(e) \/ Reap(e) \/ Tick(e)
              \/ Include(e) \/ Hide(e) \/ Reappear(e)
         \/ \E w \in Observers :
              ReadReceipt(w) \/ ReadPool(w) \/ ReadFails(w) \/ Apply(w)
         \/ \E w \in Observers, e \in Attempts : Claim(w, e)
         \/ Foreign \/ Restart
BY DEF Next, SigningStep, Look

\* The steps that write no row.
Rowless ==
  \/ \E e \in Attempts :
       \/ Begin(e) \/ Sign(e) \/ Send(e) \/ GivesUp(e)
       \/ Include(e) \/ Hide(e) \/ Reappear(e)
  \/ \E w \in Observers : ReadReceipt(w) \/ ReadPool(w) \/ ReadFails(w)
  \/ Foreign \/ Restart

LEMMA RowlessKeepsRows == Rowless => row' = row
BY DEF Rowless, Begin, Sign, Send, GivesUp, Include, Hide, Reappear, ReadReceipt,
       ReadPool, ReadFails, Foreign, Restart

\* c is r without its claim, and with status s.
Freed(c, r, s) ==
  /\ c \in RowTypes /\ c.claim = NoObserver /\ c.held = FALSE /\ c.status = s
  /\ c.nonce = r.nonce /\ c.lease = r.lease /\ c.window = r.window

LEMMA ClearedRow == \A r \in RowTypes : Freed(ClearClaim(r), r, r.status)
BY DEF ClearClaim, RowTypes, Freed

LEMMA JudgedRow == \A r \in RowTypes, v \in Verdicts : Freed(Judged(r, v), r, v)
<1>. TAKE r \in RowTypes, v \in Verdicts
<1> DEFINE j == [r EXCEPT !.status = v]
<1>1. /\ j \in RowTypes
      /\ j.status = v /\ j.nonce = r.nonce /\ j.lease = r.lease /\ j.window = r.window
  BY DEF RowTypes, Statuses
<1>2. Freed(ClearClaim(j), j, v)
  BY <1>1, ClearedRow
<1>. QED BY <1>1, <1>2 DEF Judged, Freed

\* The verdicts an answer allows.
Allowed(o, s) ==
  \/ s = "staged"
  \/ s \in {"superseded", "unproven", "terminal"}
  \/ s = "confirmed" /\ o.saw = "succeeded"
  \/ s = "reverted" /\ o.saw = "failed"

\* What one answer makes of a staged row: it stays staged, its window and nonce
\* untouched, or it is concluded, for an intent only past the window.
LEMMA AnswerOnRow ==
  ASSUME NonceTypeOK, NEW w \in Observers, NEW e \in Attempts, Fenced(w, e)
  PROVE  \E s \in Statuses :
           /\ Freed(Concluded(e, obs[w]), row[e], s)
           /\ Allowed(obs[w], s)
           /\ e \in Activity /\ s # "staged" => obs[w].late
<1> DEFINE o == obs[w]
           n == Noted(row[e], o.saw)
<1>1. row[e] \in RowTypes /\ row[e].status = "staged"
  BY DEF NonceTypeOK, Fenced
<1>2. /\ n \in RowTypes /\ n.status = "staged" /\ n.nonce = row[e].nonce
      /\ n.window = row[e].window /\ n.lease = row[e].lease
  BY <1>1 DEF RowTypes, Noted, StartClock
<1>3. e \in Activity => e \notin Legacy
  BY NonceConstants DEF Activity
<1>4. CASE e \in Legacy
  <2>1. /\ Freed(ClearClaim(row[e]), row[e], "staged")
        /\ Freed(Judged(row[e], "terminal"), row[e], "terminal")
    BY <1>1, ClearedRow, JudgedRow DEF Verdicts
  <2>2. \/ Concluded(e, o) = ClearClaim(row[e])
        \/ Concluded(e, o) = Judged(row[e], "terminal")
    BY <1>4 DEF Concluded, LegacyConcluded
  <2>. QED BY <1>3, <1>4, <2>1, <2>2 DEF Allowed, Statuses, Verdicts
<1>5. CASE e \notin Legacy
  <2>1. \A v \in Verdicts : Freed(Judged(n, v), row[e], v)
    BY <1>2, JudgedRow DEF Freed
  <2>2. Freed(ClearClaim(n), row[e], "staged")
    BY <1>2, ClearedRow DEF Freed
  <2>3. \/ Concluded(e, o) = ClearClaim(n)
        \/ Concluded(e, o) = Judged(n, "confirmed") /\ o.late /\ o.saw = "succeeded"
        \/ Concluded(e, o) = Judged(n, "reverted") /\ o.late /\ o.saw = "failed"
        \/ Concluded(e, o) = Judged(n, "superseded") /\ o.late
        \/ Concluded(e, o) = Judged(n, "unproven") /\ o.late
    BY <1>5 DEF Concluded, ActivityConcluded
  <2> HIDE DEF n
  <2>. QED BY <2>1, <2>2, <2>3 DEF Allowed, Statuses, Verdicts
<1>. QED BY <1>4, <1>5

-----------------------------------------------------------------------------
\* What a step does to a row.

Reserves(f) ==
  /\ pc[f] = "prepared" /\ row[f].status = "open"
  /\ \E n \in Nat : row'[f] = [row[f] EXCEPT !.nonce = n, !.lease = "live"]

Lowers(f) ==
  /\ row[f].status = "open"
  /\ row'[f].status \in {"open", "refused"}
  /\ row'[f].nonce = row[f].nonce /\ row'[f].window = row[f].window
  /\ row'[f].claim = row[f].claim /\ row'[f].held = row[f].held
  /\ row'[f].lease \in {row[f].lease, "none", "over"}

Stages(f) ==
  /\ pc[f] = "signed" /\ MayStage(f)
  /\ row'[f] = [row[f] EXCEPT !.status = "staged", !.lease = "none",
                              !.window = f \in Activity]

Ages(f) ==
  /\ row'[f].status = row[f].status /\ row'[f].nonce = row[f].nonce
  /\ row'[f].claim = row[f].claim
  /\ row'[f].window => row[f].window
  /\ row'[f].held => row[f].held
  /\ row'[f].lease \in {row[f].lease, "over"}

IsClaimed(f) ==
  /\ row[f].status = "staged"
  /\ \E w \in Observers : row'[f] = [row[f] EXCEPT !.claim = w, !.held = TRUE]

IsFreed(f) == row[f].status = "staged" /\ \E s \in Statuses \ {"open", "refused"} : Freed(row'[f], row[f], s)

RowMove(f) ==
  /\ row'[f] \in RowTypes
  /\ \/ row'[f] = row[f] \/ Lowers(f) \/ Stages(f) \/ Ages(f)
     \/ IsClaimed(f) \/ IsFreed(f)

RowsMove == row' \in [Attempts -> RowTypes] /\ \A f \in Attempts : RowMove(f)

RowsChange ==
  row' \in [Attempts -> RowTypes] /\ \A f \in Attempts : Reserves(f) \/ RowMove(f)

LEMMA OneRowMoves ==
  ASSUME NonceTypeOK, NEW e \in Attempts, NEW r,
         row' = [row EXCEPT ![e] = r], r \in RowTypes, RowMove(e)
  PROVE  RowsMove
BY DEF NonceTypeOK, RowsMove, RowMove

LEMMA ReserveMoves ==
  ASSUME NonceTypeOK, NEW e \in Attempts, Reserve(e)
  PROVE  RowsChange /\ Reserves(e)
<1>1. PICK n \in {seen[e]} \cup {row[f].nonce + 1 : f \in {g \in Attempts : Owned(g)}} :
        row' = [f \in Attempts |->
                 IF f = e THEN [row[e] EXCEPT !.nonce = n, !.lease = "live"]
                 ELSE IF Stale(f) THEN [row[f] EXCEPT !.status = "refused"]
                 ELSE row[f]]
  BY DEF Reserve
<1>2. n \in Nat
  BY DEF NonceTypeOK, RowTypes, Owned
<1>3. \A f \in Attempts : row[f] \in RowTypes
  BY DEF NonceTypeOK
<1>4. row'[e] \in RowTypes /\ Reserves(e)
  <2>1. row'[e] = [row[e] EXCEPT !.nonce = n, !.lease = "live"]
    BY <1>1
  <2>2. row'[e] \in RowTypes
    BY <1>2, <1>3, <2>1 DEF RowTypes
  <2>. QED BY <1>2, <2>1, <2>2 DEF Reserves, Reserve
<1>5. ASSUME NEW f \in Attempts, f # e PROVE RowMove(f)
  <2>1. CASE Stale(f)
    <3>1. row'[f] = [row[f] EXCEPT !.status = "refused"]
      BY <1>1, <1>5, <2>1
    <3>2. row'[f] \in RowTypes
      BY <1>3, <3>1 DEF RowTypes, Statuses
    <3>. QED BY <1>3, <2>1, <3>1, <3>2 DEF RowMove, Lowers, Stale, RowTypes
  <2>2. CASE ~Stale(f)
    BY <1>1, <1>3, <1>5, <2>2 DEF RowMove
  <2>. QED BY <2>1, <2>2
<1>. QED BY <1>1, <1>4, <1>5 DEF RowsChange, RowMove

LEMMA StageMoves ==
  ASSUME NonceTypeOK, NEW e \in Attempts, Stage(e)
  PROVE  RowsMove
<1> DEFINE r == [row[e] EXCEPT !.status = "staged", !.lease = "none", !.window = e \in Activity]
<1>1. row' = [row EXCEPT ![e] = r] /\ row[e] \in RowTypes
  BY DEF Stage, NonceTypeOK
<1>2. r \in RowTypes
  <2>1. (e \in Activity) = TRUE \/ (e \in Activity) = FALSE
    OBVIOUS
  <2>2. \A b \in BOOLEAN :
          [row[e] EXCEPT !.status = "staged", !.lease = "none", !.window = b] \in RowTypes
    BY <1>1 DEF RowTypes, Statuses
  <2>. QED BY <2>1, <2>2
<1>3. RowMove(e)
  BY <1>1, <1>2 DEF NonceTypeOK, RowMove, Stages, Stage
<1>. QED BY <1>1, <1>2, <1>3, OneRowMoves

LEMMA HandlerReadsMoves ==
  ASSUME NonceTypeOK, NEW e \in Attempts, HandlerReads(e)
  PROVE  RowsMove
<1>1. CASE Undecided(row[e])
  <2> DEFINE verdict == IF e \in Legacy THEN "terminal"
                        ELSE IF wire[e] = "succeeded" THEN "settled" ELSE "reverted"
  <2>0. verdict \in Verdicts /\ row' = [row EXCEPT ![e] = Judged(row[e], verdict)]
    BY <1>1 DEF HandlerReads, Verdicts
  <2>1. PICK v \in Verdicts : row' = [row EXCEPT ![e] = Judged(row[e], v)]
    BY <2>0
  <2>2. row[e] \in RowTypes
    BY DEF NonceTypeOK
  <2>3. Freed(Judged(row[e], v), row[e], v) /\ v \in Statuses \ {"open", "refused"}
    BY <2>2, JudgedRow DEF Statuses, Verdicts
  <2>4. row'[e] = Judged(row[e], v)
    BY <2>1 DEF NonceTypeOK
  <2>. QED BY <1>1, <2>1, <2>3, <2>4, OneRowMoves DEF Undecided, RowMove, IsFreed, Freed
<1>2. CASE ~Undecided(row[e])
  BY <1>2 DEF HandlerReads, RowsMove, RowMove, NonceTypeOK
<1>. QED BY <1>1, <1>2

LEMMA RefuseMoves ==
  ASSUME NonceTypeOK, NEW e \in Attempts, Refuse(e)
  PROVE  RowsMove
<1>1. row[e] \in RowTypes
  BY DEF NonceTypeOK
<1>2. PICK released \in BOOLEAN, finalized \in BOOLEAN :
        row' = IF row[e].status # "open" THEN row
               ELSE IF e \in Legacy
                 THEN [row EXCEPT ![e].status = IF released THEN "refused" ELSE @]
               ELSE [row EXCEPT
                      ![e].lease = IF released /\ e \in Intents THEN "none" ELSE @,
                      ![e].status = IF finalized THEN "refused" ELSE @]
  BY DEF Refuse
<1>3. CASE row[e].status # "open"
  BY <1>2, <1>3 DEF RowsMove, RowMove, NonceTypeOK
<1>4. CASE row[e].status = "open" /\ e \in Legacy
  <2> DEFINE r == [row[e] EXCEPT !.status = IF released THEN "refused" ELSE @]
  <2>1. row' = [row EXCEPT ![e] = r] /\ row'[e] = r
    BY <1>2, <1>4 DEF NonceTypeOK
  <2>2. r \in RowTypes
    BY <1>1 DEF RowTypes, Statuses
  <2>3. RowMove(e)
    BY <1>1, <1>4, <2>1, <2>2 DEF RowMove, Lowers, RowTypes
  <2>. QED BY <2>1, <2>2, <2>3, OneRowMoves
<1>5. CASE row[e].status = "open" /\ e \notin Legacy
  <2> DEFINE r == [row[e] EXCEPT !.lease = IF released /\ e \in Intents THEN "none" ELSE @,
                                !.status = IF finalized THEN "refused" ELSE @]
  <2>1. row' = [row EXCEPT ![e] = r] /\ row'[e] = r
    BY <1>2, <1>5 DEF NonceTypeOK
  <2>2. r \in RowTypes
    BY <1>1 DEF RowTypes, Statuses
  <2>3. RowMove(e)
    BY <1>1, <1>5, <2>1, <2>2 DEF RowMove, Lowers, RowTypes
  <2>. QED BY <2>1, <2>2, <2>3, OneRowMoves
<1>. QED BY <1>3, <1>4, <1>5

LEMMA ReapMoves ==
  ASSUME NonceTypeOK, NEW e \in Attempts, Reap(e)
  PROVE  RowsMove
<1> DEFINE r == [row[e] EXCEPT !.status = "refused"]
<1>1. row[e] \in RowTypes /\ row' = [row EXCEPT ![e] = r] /\ row'[e] = r
  BY DEF NonceTypeOK, Reap
<1>2. r \in RowTypes
  BY <1>1 DEF RowTypes, Statuses
<1>3. RowMove(e)
  BY <1>1, <1>2 DEF RowMove, Lowers, RowTypes, Reap, Reapable
<1>. QED BY <1>1, <1>2, <1>3, OneRowMoves

LEMMA TickMoves ==
  ASSUME NonceTypeOK, NEW e \in Attempts, Tick(e)
  PROVE  RowsMove
<1>1. row[e] \in RowTypes
  BY DEF NonceTypeOK
<1>2. ASSUME NEW r, row' = [row EXCEPT ![e] = r], r \in RowTypes,
             r.status = row[e].status, r.nonce = row[e].nonce, r.claim = row[e].claim,
             r.window => row[e].window, r.held => row[e].held,
             r.lease \in {row[e].lease, "over"}
      PROVE  RowsMove
  <2>1. row'[e] = r
    BY <1>2 DEF NonceTypeOK
  <2>. QED BY <1>2, <2>1, OneRowMoves DEF RowMove, Ages
<1>3. CASE LeaseEnds(e)
  BY <1>1, <1>2, <1>3 DEF LeaseEnds, RowTypes
<1>4. CASE WindowEnds(e)
  BY <1>1, <1>2, <1>4 DEF WindowEnds, RowTypes
<1>5. CASE ClockRuns(e)
  BY <1>1, <1>2, <1>5 DEF ClockRuns, RowTypes
<1>6. CASE ClaimEnds(e)
  BY <1>1, <1>2, <1>6 DEF ClaimEnds, RowTypes
<1>. QED BY <1>3, <1>4, <1>5, <1>6 DEF Tick

LEMMA ClaimMoves ==
  ASSUME NonceTypeOK, NEW w \in Observers, NEW e \in Attempts, Claim(w, e)
  PROVE  RowsMove
<1> DEFINE r == [row[e] EXCEPT !.claim = w, !.held = TRUE]
<1>1. row[e] \in RowTypes /\ row' = [row EXCEPT ![e] = r] /\ row'[e] = r
  BY DEF NonceTypeOK, Claim
<1>2. r \in RowTypes
  BY <1>1 DEF RowTypes
<1>. QED BY <1>1, <1>2, OneRowMoves DEF RowMove, IsClaimed, Claim

LEMMA ApplyMoves ==
  ASSUME NonceTypeOK, LooksOK, NEW w \in Observers, Apply(w)
  PROVE  RowsMove
<1> DEFINE e == obs[w].row
<1>1. e \in Attempts
  BY DEF LooksOK, Apply
<1>2. CASE Fenced(w, e)
  <2>1. PICK s \in Statuses : Freed(Concluded(e, obs[w]), row[e], s) /\ Allowed(obs[w], s)
    BY <1>1, <1>2, AnswerOnRow
  <2>2. row' = [row EXCEPT ![e] = Concluded(e, obs[w])] /\ row'[e] = Concluded(e, obs[w])
    BY <1>1, <1>2 DEF Apply, NonceTypeOK
  <2>3. s \notin {"open", "refused"} /\ row[e].status = "staged"
    BY <1>2, <2>1 DEF Allowed, Fenced
  <2> HIDE DEF e
  <2>. QED BY <1>1, <2>1, <2>2, <2>3, OneRowMoves DEF RowMove, IsFreed, Freed
<1>3. CASE ~Fenced(w, e)
  BY <1>3 DEF Apply, RowsMove, RowMove, NonceTypeOK
<1>. QED BY <1>2, <1>3

LEMMA RowsMoveInAStep ==
  ASSUME NonceTypeOK, LooksOK, Next
  PROVE  RowsChange /\ (RowsMove \/ \E e \in Attempts : Reserve(e))
<1>1. CASE Rowless
  BY <1>1, RowlessKeepsRows DEF RowsChange, RowsMove, RowMove, NonceTypeOK
<1>2. CASE ~Rowless
  BY <1>2, Cases, ReserveMoves, StageMoves, HandlerReadsMoves, RefuseMoves, ReapMoves,
     TickMoves, ClaimMoves, ApplyMoves DEF Rowless, RowsChange, RowsMove
<1>. QED BY <1>1, <1>2

-----------------------------------------------------------------------------
\* The row part and the rest of the type invariant.

RowsTyped ==
  /\ row \in [Attempts -> RowTypes]
  /\ \A e \in Attempts :
       /\ row[e].status \notin {"open", "refused"} => row[e].nonce # NoNonce
       /\ row[e].claim # NoObserver => row[e].status = "staged"
       /\ row[e].held => row[e].claim # NoObserver

LookTypes ==
  [pc : {"idle", "receipt", "pool", "apply"}, row : Attempts \cup {NoAttempt}, late : BOOLEAN,
   saw : Mined \cup {"nothing", "alive", "superseded", "unknown", "error"}]

RestTyped ==
  /\ pc \in [Attempts -> {"idle", "prepared", "reserved", "signed", "staged", "waiting", "gone"}]
  /\ seen \in [Attempts -> Nat]
  /\ owner \in Attempts \cup {NoAttempt}
  /\ obs \in [Observers -> LookTypes]
  /\ wire \in [Attempts -> {"unsent", "pool", "hidden"} \cup Mined]
  /\ included \in Nat
  /\ trouble \in 0 .. MaxTrouble

LEMMA TypeParts == NonceTypeOK <=> RowsTyped /\ RestTyped
BY DEF NonceTypeOK, RowsTyped, RestTyped, LookTypes

LEMMA RowsTypedStep ==
  ASSUME NonceTypeOK, CallsOK, RowsChange
  PROVE  RowsTyped'
<1>1. ASSUME NEW f \in Attempts
      PROVE  /\ row'[f].status \notin {"open", "refused"} => row'[f].nonce # NoNonce
             /\ row'[f].claim # NoObserver => row'[f].status = "staged"
             /\ row'[f].held => row'[f].claim # NoObserver
  <2>1. /\ row[f] \in RowTypes /\ (Reserves(f) \/ RowMove(f))
        /\ row[f].status \notin {"open", "refused"} => row[f].nonce # NoNonce
        /\ row[f].claim # NoObserver => row[f].status = "staged"
        /\ row[f].held => row[f].claim # NoObserver
    BY DEF NonceTypeOK, RowsChange
  <2>2. CASE row'[f] = row[f]
    BY <2>1, <2>2
  <2>3. CASE Reserves(f)
    BY <2>1, <2>3 DEF Reserves, RowTypes
  <2>4. CASE Lowers(f)
    BY <2>1, <2>4 DEF Lowers
  <2>5. CASE Stages(f)
    <3>1. row[f].nonce # NoNonce /\ row[f].status = "open"
      BY <2>5 DEF Stages, CallsOK, MayStage
    <3>. QED BY <2>1, <2>5, <3>1 DEF Stages, RowTypes
  <2>6. CASE Ages(f)
    BY <2>1, <2>6 DEF Ages
  <2>7. CASE IsClaimed(f)
    BY <2>1, <2>7, NonceConstants DEF IsClaimed, RowTypes
  <2>8. CASE IsFreed(f)
    BY <2>1, <2>8 DEF IsFreed, Freed
  <2>. QED BY <2>1, <2>2, <2>3, <2>4, <2>5, <2>6, <2>7, <2>8 DEF RowMove
<1>. QED BY <1>1 DEF RowsTyped, RowsChange

LEMMA RestTypedStep ==
  ASSUME NonceTypeOK, VerdictsAreTrue, Next
  PROVE  RestTyped'
<1>1. RestTyped
  BY TypeParts
<1>2. ASSUME NEW e \in Attempts, Begin(e) PROVE RestTyped'
  <2>1. \A g \in Attempts : wire[g] = "pool" => row[g].nonce \in Nat
    BY DEF NonceTypeOK, RowTypes, VerdictsAreTrue
  <2>2. seen' \in [Attempts -> Nat]
    BY <1>1, <1>2, <2>1 DEF Begin, RestTyped
  <2>. QED BY <1>1, <1>2, <2>2 DEF Begin, RestTyped
<1>3. ASSUME NEW e \in Attempts,
             \/ Reserve(e) \/ Sign(e) \/ Stage(e) \/ Send(e) \/ HandlerReads(e)
             \/ GivesUp(e) \/ Refuse(e)
      PROVE  RestTyped'
  BY <1>1, <1>3 DEF RestTyped, Reserve, Sign, Stage, Send, HandlerReads, GivesUp, Refuse, Leave
<1>4. ASSUME NEW e \in Attempts, Reap(e) \/ Tick(e) PROVE RestTyped'
  BY <1>1, <1>4 DEF RestTyped, Reap, Tick
<1>5. ASSUME NEW e \in Attempts, Include(e) PROVE RestTyped'
  BY <1>1, <1>5 DEF RestTyped, Include, Mined
<1>6. ASSUME NEW e \in Attempts, Hide(e) \/ Reappear(e) PROVE RestTyped'
  BY <1>1, <1>6, NonceConstants DEF RestTyped, Hide, Reappear, Trouble
<1>7. CASE Foreign
  BY <1>1, <1>7, NonceConstants DEF RestTyped, Foreign, Trouble
<1>8. CASE Restart
  BY <1>1, <1>8, NonceConstants DEF RestTyped, LookTypes, Restart, Trouble, Idle, Mined
<1>9. ASSUME NEW w \in Observers,
             ReadReceipt(w) \/ ReadPool(w) \/ ReadFails(w) \/ Apply(w)
      PROVE  RestTyped'
  <2>1. CASE ReadReceipt(w)
    BY <1>1, <2>1 DEF RestTyped, LookTypes, ReadReceipt, Answer, Mined
  <2>2. CASE ReadPool(w)
    BY <1>1, <2>2 DEF RestTyped, LookTypes, ReadPool, Answer, Mined
  <2>3. CASE ReadFails(w)
    <3>1. trouble' \in 0 .. MaxTrouble
      BY <1>1, <2>3, NonceConstants DEF RestTyped, ReadFails, Trouble
    <3>2. UNCHANGED <<row, pc, seen, owner, wire, included>>
      BY <2>3 DEF ReadFails
    <3>3. obs' \in [Observers -> LookTypes]
      <4>1. PICK saw \in {"error", "alive"} : Answer(w, saw)
        BY <2>3 DEF ReadFails
      <4>2. obs' = [obs EXCEPT ![w] = [obs[w] EXCEPT !.pc = "apply", !.saw = saw]]
        BY <4>1 DEF Answer
      <4>3. obs \in [Observers -> LookTypes] /\ obs[w] \in LookTypes
        BY <1>1 DEF RestTyped
      <4>4. [obs[w] EXCEPT !.pc = "apply", !.saw = saw] \in LookTypes
        BY <4>3 DEF LookTypes
      <4>. QED BY <4>2, <4>3, <4>4
    <3>. QED BY <1>1, <3>1, <3>2, <3>3 DEF RestTyped, LookTypes
  <2>4. CASE Apply(w)
    BY <1>1, <2>4 DEF RestTyped, LookTypes, Apply, Idle, Mined
  <2>. QED BY <1>9, <2>1, <2>2, <2>3, <2>4
<1>10. ASSUME NEW w \in Observers, NEW e \in Attempts, Claim(w, e) PROVE RestTyped'
  <2>1. Late(row[e]) \in BOOLEAN
    BY DEF Late, NonceTypeOK, RowTypes
  <2>. QED BY <1>1, <1>10, <2>1 DEF RestTyped, LookTypes, Claim, Mined
<1>. QED BY <1>2, <1>3, <1>4, <1>5, <1>6, <1>7, <1>8, <1>9, <1>10, Cases

-----------------------------------------------------------------------------
\* No two rows own a nonce: a reservation is above every nonce owned, and what
\* else makes a row own its nonce found it owning that nonce already.

LEMMA KeptOwnership ==
  ASSUME NonceTypeOK, CallsOK, NEW f \in Attempts, RowMove(f), Owned(f)'
  PROVE  Owned(f) /\ row'[f].nonce = row[f].nonce
<1>1. row[f] \in RowTypes /\ (f \in Activity => f \notin Legacy)
  BY NonceConstants DEF NonceTypeOK, Activity
<1>2. CASE row'[f] = row[f]
  BY <1>2 DEF Owned
<1>3. CASE Lowers(f)
  BY <1>1, <1>3 DEF Lowers, Owned
<1>4. CASE Stages(f)
  <2>1. /\ row'[f].nonce = row[f].nonce
        /\ row[f].status = "open" /\ row[f].nonce # NoNonce
        /\ f \in Activity => row[f].lease = "live"
    BY <1>1, <1>4 DEF Stages, MayStage, CallsOK, RowTypes
  <2>. QED BY <2>1 DEF Owned
<1>5. CASE Ages(f)
  BY <1>1, <1>5 DEF Ages, Owned
<1>6. CASE IsClaimed(f)
  BY <1>1, <1>6 DEF IsClaimed, Owned, RowTypes
<1>7. CASE IsFreed(f)
  BY <1>1, <1>7 DEF IsFreed, Freed, Owned
<1>. QED BY <1>2, <1>3, <1>4, <1>5, <1>6, <1>7 DEF RowMove

LEMMA ReserveExclusive ==
  ASSUME NonceTypeOK, NonceExclusive, CallsOK, NEW e \in Attempts, Reserve(e)
  PROVE  NonceExclusive'
<1>1. PICK n \in {seen[e]} \cup {row[f].nonce + 1 : f \in {g \in Attempts : Owned(g)}} :
        /\ \A f \in {g \in Attempts : Owned(g) /\ ~Stale(g)} : row[f].nonce < n
        /\ row' = [f \in Attempts |->
             IF f = e THEN [row[e] EXCEPT !.nonce = n, !.lease = "live"]
             ELSE IF Stale(f) THEN [row[f] EXCEPT !.status = "refused"]
             ELSE row[f]]
  BY DEF Reserve, Fresh
<1>2. n \in Nat
  BY DEF NonceTypeOK, RowTypes, Owned
<1>3. row'[e].nonce = n
  <2>1. row'[e] = [row[e] EXCEPT !.nonce = n, !.lease = "live"] /\ row[e] \in RowTypes
    BY <1>1 DEF NonceTypeOK
  <2>. QED BY <2>1 DEF RowTypes
<1>4. ASSUME NEW f \in Attempts, f # e, Owned(f)'
      PROVE  Owned(f) /\ ~Stale(f) /\ row'[f] = row[f]
  <2>1. row[f] \in RowTypes
    BY DEF NonceTypeOK
  <2>2. ~Stale(f)
    BY <1>1, <1>4, <2>1 DEF Owned, RowTypes
  <2>. QED BY <1>1, <1>4, <2>2 DEF Owned
<1>5. ASSUME NEW f \in Attempts, f # e, Owned(f)'
      PROVE  row'[f].nonce \in Nat /\ row'[f].nonce < n
  BY <1>1, <1>4, <1>5 DEF Owned, NonceTypeOK, RowTypes
<1>. QED BY <1>2, <1>3, <1>4, <1>5 DEF NonceExclusive

LEMMA ExclusiveStep ==
  ASSUME NonceTypeOK, NonceExclusive, CallsOK, LooksOK, Next
  PROVE  NonceExclusive'
<1>1. CASE \E e \in Attempts : Reserve(e)
  BY <1>1, ReserveExclusive
<1>2. CASE RowsMove
  <2>1. \A f \in Attempts : Owned(f)' => Owned(f) /\ row'[f].nonce = row[f].nonce
    BY <1>2, KeptOwnership DEF RowsMove
  <2>. QED BY <2>1 DEF NonceExclusive
<1>. QED BY <1>1, <1>2, RowsMoveInAStep

-----------------------------------------------------------------------------
\* What is never undone: a hash stays, a window does not reopen, a transaction
\* that left has left, and what was mined is final.

LEMMA RowsMonotone ==
  ASSUME NonceTypeOK, RowsChange, NEW f \in Attempts
  PROVE  /\ row[f].nonce # NoNonce => row'[f].nonce # NoNonce
         /\ row[f].status \notin {"open", "refused"}
              => /\ row'[f].status \notin {"open", "refused"}
                 /\ row'[f].window => row[f].window
         /\ row'[f].status # row[f].status => Lowers(f) \/ Stages(f) \/ IsFreed(f)
<1>1. row[f] \in RowTypes /\ row'[f] \in RowTypes /\ (Reserves(f) \/ RowMove(f))
  BY DEF NonceTypeOK, RowsChange
<1>2. CASE row'[f] = row[f]
  BY <1>2
<1>3. CASE Reserves(f)
  BY <1>1, <1>3, NonceConstants DEF Reserves, RowTypes
<1>4. CASE Lowers(f)
  BY <1>4 DEF Lowers
<1>5. CASE Stages(f)
  BY <1>1, <1>5 DEF Stages, MayStage, RowTypes
<1>6. CASE Ages(f)
  BY <1>6 DEF Ages
<1>7. CASE IsClaimed(f)
  BY <1>1, <1>7 DEF IsClaimed, RowTypes
<1>8. CASE IsFreed(f)
  BY <1>8 DEF IsFreed, Freed
<1>. QED BY <1>1, <1>2, <1>3, <1>4, <1>5, <1>6, <1>7, <1>8 DEF RowMove

LEMMA WireMonotone ==
  ASSUME NonceTypeOK, CallsOK, Next, NEW f \in Attempts
  PROVE  /\ wire[f] \in Mined => wire'[f] = wire[f]
         /\ wire[f] # "unsent" => wire'[f] # "unsent"
         /\ wire[f] = "unsent" /\ wire'[f] # "unsent" => pc[f] = "staged" /\ Send(f)
<1>1. wire \in [Attempts -> {"unsent", "pool", "hidden"} \cup Mined]
  BY DEF NonceTypeOK
<1>2. ASSUME NEW e \in Attempts, Send(e)
      PROVE  /\ e # f => wire'[f] = wire[f]
             /\ pc[e] = "staged" /\ wire[e] = "unsent"
             /\ wire'[e] \in {"unsent", "pool"}
  BY <1>1, <1>2 DEF Send, CallsOK
<1>3. ASSUME NEW e \in Attempts, Include(e) \/ Hide(e) \/ Reappear(e)
      PROVE  /\ wire[f] \in Mined => wire'[f] = wire[f]
             /\ wire[f] # "unsent" <=> wire'[f] # "unsent"
  BY <1>1, <1>3 DEF Include, Hide, Reappear, Mined
<1>4. CASE Foreign
  BY <1>1, <1>4 DEF Foreign, Mined
<1>5. CASE /\ \A e \in Attempts : ~Send(e) /\ ~Include(e) /\ ~Hide(e) /\ ~Reappear(e)
           /\ ~Foreign
  <2>1. wire' = wire
    BY <1>5, Cases DEF Begin, Reserve, Sign, Stage, HandlerReads, GivesUp, Refuse, Reap, Tick,
       ReadReceipt, ReadPool, ReadFails, Apply, Claim, Restart
  <2>. QED BY <2>1
<1>6. CASE \E e \in Attempts : Send(e)
  BY <1>2, <1>6 DEF Mined
<1>. QED BY <1>3, <1>4, <1>5, <1>6 DEF Mined

-----------------------------------------------------------------------------
\* The signing calls.

\* Where a call may get to, with what it wrote on the way.
CallMove(f) ==
  \/ pc'[f] = pc[f]
  \/ pc'[f] = "gone"
  \/ pc'[f] = "prepared" /\ pc[f] = "idle"
  \/ pc'[f] = "reserved" /\ Reserves(f)
  \/ pc'[f] = "signed" /\ pc[f] = "reserved"
  \/ pc'[f] = "staged" /\ Stages(f)
  \/ pc'[f] = "waiting" /\ pc[f] = "staged" /\ row' = row

LEMMA CallsMove ==
  ASSUME NonceTypeOK, Next, NEW f \in Attempts
  PROVE  CallMove(f)
<1>1. pc \in [Attempts -> {"idle", "prepared", "reserved", "signed", "staged", "waiting", "gone"}]
  BY DEF NonceTypeOK
<1>2. ASSUME NEW e \in Attempts,
             Begin(e) \/ Sign(e) \/ Send(e) \/ HandlerReads(e) \/ GivesUp(e) \/ Refuse(e)
      PROVE  CallMove(f)
  BY <1>1, <1>2 DEF CallMove, Begin, Sign, Send, HandlerReads, GivesUp, Refuse
<1>3. ASSUME NEW e \in Attempts, Reserve(e) PROVE CallMove(f)
  <2>1. Reserves(e)
    BY <1>3, ReserveMoves
  <2>. QED BY <1>1, <1>3, <2>1 DEF CallMove, Reserve
<1>4. ASSUME NEW e \in Attempts, Stage(e) PROVE CallMove(f)
  <2>1. Stages(e)
    BY <1>4 DEF Stage, Stages, NonceTypeOK
  <2>. QED BY <1>1, <1>4, <2>1 DEF CallMove, Stage
<1>5. CASE Restart
  BY <1>1, <1>5 DEF CallMove, Restart
<1>6. CASE /\ \A e \in Attempts :
                /\ ~Begin(e) /\ ~Sign(e) /\ ~Send(e) /\ ~HandlerReads(e) /\ ~GivesUp(e)
                /\ ~Refuse(e) /\ ~Reserve(e) /\ ~Stage(e)
           /\ ~Restart
  <2>1. pc' = pc
    BY <1>6, Cases DEF Reap, Tick, Include, Hide, Reappear, ReadReceipt, ReadPool, ReadFails,
       Apply, Claim, Foreign
  <2>. QED BY <2>1 DEF CallMove
<1>. QED BY <1>2, <1>3, <1>4, <1>5, <1>6

\* A row is only concluded by the handler, whose call ends with it, by an observer
\* that read a receipt, or by one that gives it up; an intent only past its window.
Concludes(f) ==
  \/ /\ HandlerReads(f) /\ pc'[f] = "gone"
     /\ row'[f].status = IF f \in Legacy THEN "terminal"
                        ELSE IF wire[f] = "succeeded" THEN "settled" ELSE "reverted"
  \/ \E w \in Observers :
       /\ Apply(w) /\ obs[w].row = f /\ obs[w].pc = "apply"
       /\ f \in Activity => obs[w].late
       /\ row'[f].status # "staged" /\ Allowed(obs[w], row'[f].status)

LEMMA WhoConcludes ==
  ASSUME NonceTypeOK, LooksOK, Next, NEW f \in Attempts,
         row[f].status = "staged", row'[f].status # "staged"
  PROVE  Concludes(f)
<1>1. row \in [Attempts -> RowTypes]
  BY DEF NonceTypeOK
<1>2. ASSUME NEW e \in Attempts, HandlerReads(e) PROVE Concludes(f)
  <2>1. e = f
    BY <1>1, <1>2 DEF HandlerReads
  <2> DEFINE verdict == IF e \in Legacy THEN "terminal"
                        ELSE IF wire[e] = "succeeded" THEN "settled" ELSE "reverted"
  <2>2. row' = [row EXCEPT ![e] = Judged(row[e], verdict)] /\ verdict \in Verdicts
    BY <1>2, <2>1 DEF HandlerReads, Undecided, Verdicts
  <2>3. row'[e].status = verdict
    BY <1>1, <2>2, JudgedRow DEF Freed
  <2>4. pc'[e] = "gone"
    BY <1>2 DEF HandlerReads, NonceTypeOK
  <2>. QED BY <1>2, <2>1, <2>3, <2>4 DEF Concludes
<1>3. ASSUME NEW w \in Observers, Apply(w) PROVE Concludes(f)
  <2> DEFINE e == obs[w].row
  <2>1. e \in Attempts /\ obs[w].pc = "apply"
    BY <1>3 DEF LooksOK, Apply
  <2>2. e = f /\ Fenced(w, e) /\ row' = [row EXCEPT ![e] = Concluded(e, obs[w])]
    BY <1>1, <1>3, <2>1 DEF Apply
  <2>3. PICK s \in Statuses : /\ Freed(Concluded(e, obs[w]), row[e], s)
                              /\ Allowed(obs[w], s)
                              /\ e \in Activity /\ s # "staged" => obs[w].late
    BY <2>1, <2>2, AnswerOnRow
  <2>4. row'[e].status = s
    BY <1>1, <2>1, <2>2, <2>3 DEF Freed
  <2>. QED BY <1>3, <2>1, <2>2, <2>3, <2>4 DEF Concludes
<1>4. ASSUME NEW e \in Attempts, Reserve(e) \/ Stage(e) \/ Refuse(e) \/ Reap(e) PROVE FALSE
  BY <1>1, <1>4, NonceConstants
     DEF Reserve, Stage, MayStage, Refuse, Reap, Reapable, Stale, RowTypes
<1>5. ASSUME NEW e \in Attempts, Tick(e) PROVE FALSE
  BY <1>1, <1>5 DEF Tick, LeaseEnds, WindowEnds, ClockRuns, ClaimEnds, RowTypes
<1>6. ASSUME NEW w \in Observers, NEW e \in Attempts, Claim(w, e) PROVE FALSE
  BY <1>1, <1>6 DEF Claim, RowTypes
<1>7. ~Rowless
  BY RowlessKeepsRows
<1>. QED BY <1>2, <1>3, <1>4, <1>5, <1>6, <1>7, Cases DEF Rowless

LEMMA CallsStep ==
  ASSUME IInv, Next
  PROVE  CallsOK'
<1>. SUFFICES ASSUME NEW f \in Attempts
              PROVE  /\ pc'[f] \in {"reserved", "signed"} => row'[f].nonce # NoNonce
                     /\ pc'[f] \in {"staged", "waiting"} => row'[f].status \notin {"open", "refused"}
                     /\ f \in Activity /\ pc'[f] \in {"staged", "waiting"} /\ row'[f].window
                          => row'[f].status = "staged"
                     /\ pc'[f] \in {"idle", "prepared", "reserved", "signed", "staged"}
                          => wire'[f] = "unsent"
  BY DEF CallsOK
<1>1. NonceTypeOK /\ CallsOK /\ LooksOK /\ RowsChange /\ CallMove(f)
  BY RowsMoveInAStep, CallsMove DEF IInv
<1>2. row[f] \in RowTypes
  BY <1>1 DEF NonceTypeOK
<1>3. pc'[f] \in {"reserved", "signed"} => row'[f].nonce # NoNonce
  <2>1. Reserves(f) => row'[f].nonce # NoNonce
    BY <1>2, NonceConstants DEF Reserves, RowTypes
  <2>2. pc'[f] = "staged" \/ pc'[f] = pc[f] \/ pc[f] = "reserved" \/ Reserves(f)
        \/ pc'[f] \notin {"reserved", "signed"}
    BY <1>1 DEF CallMove
  <2>. QED BY <1>1, <2>1, <2>2, RowsMonotone DEF CallsOK
<1>4. ASSUME pc'[f] \in {"staged", "waiting"}
      PROVE  row'[f].status \notin {"open", "refused"}
  <2>1. CASE Stages(f)
    BY <1>2, <2>1 DEF Stages, RowTypes
  <2>2. CASE pc[f] \in {"staged", "waiting"}
    BY <1>1, <2>2, RowsMonotone DEF CallsOK
  <2>. QED BY <1>1, <1>4, <2>1, <2>2 DEF CallMove
<1>5. ASSUME f \in Activity, pc'[f] \in {"staged", "waiting"}, row'[f].window
      PROVE  row'[f].status = "staged"
  <2>1. CASE Stages(f)
    BY <1>2, <2>1 DEF Stages, RowTypes
  <2>2. CASE pc[f] \in {"staged", "waiting"}
    <3>1. row[f].window /\ row[f].status = "staged"
      BY <1>1, <1>5, <2>2, RowsMonotone DEF CallsOK
    <3>2. ~Concludes(f)
      BY <1>1, <1>5, <3>1 DEF Concludes, LooksOK
    <3>. QED BY <1>1, <3>1, <3>2, WhoConcludes
  <2>. QED BY <1>1, <1>5, <2>1, <2>2 DEF CallMove
<1>6. ASSUME pc'[f] \in {"idle", "prepared", "reserved", "signed", "staged"}
      PROVE  wire'[f] = "unsent"
  <2>1. ~(pc[f] = "staged" /\ Send(f))
    BY <1>1, <1>6 DEF Send, NonceTypeOK
  <2>2. pc[f] \in {"idle", "prepared", "reserved", "signed", "staged"}
    BY <1>1, <1>6 DEF CallMove, Reserves, Stages
  <2>. QED BY <1>1, <2>1, <2>2, WireMonotone DEF CallsOK
<1>. QED BY <1>3, <1>4, <1>5, <1>6

-----------------------------------------------------------------------------
\* The observers.

LookGood(o, rows, chain) ==
  o.pc # "idle" =>
    /\ o.row \in Attempts
    /\ rows[o.row].status \notin {"open", "refused"}
    /\ o.late /\ o.row \in Activity => ~rows[o.row].window
    /\ o.saw \in Mined => chain[o.row] = o.saw

LEMMA LooksStep ==
  ASSUME IInv, Next
  PROVE  LooksOK'
<1>. SUFFICES ASSUME NEW w \in Observers PROVE LookGood(obs'[w], row', wire')
  BY DEF LooksOK, LookGood
<1>1. /\ NonceTypeOK /\ CallsOK /\ LooksOK /\ RowsChange
      /\ LookGood(obs[w], row, wire)
      /\ obs \in [Observers -> LookTypes]
  BY RowsMoveInAStep DEF IInv, LooksOK, LookGood, NonceTypeOK, LookTypes
<1>2. LookGood(obs[w], row', wire')
  BY <1>1, RowsMonotone, WireMonotone DEF LookGood
<1>3. CASE obs'[w] = obs[w]
  BY <1>2, <1>3
<1>4. CASE obs'[w] = Idle
  BY <1>4 DEF LookGood, Idle
<1>5. ASSUME NEW e \in Attempts, Claim(w, e) PROVE LookGood(obs'[w], row', wire')
  <2>1. obs'[w] = [pc |-> "receipt", row |-> e, late |-> Late(row[e]), saw |-> "nothing"]
    BY <1>1, <1>5 DEF Claim
  <2>2. row[e].status = "staged"
    BY <1>5 DEF Claim
  <2>3. /\ row'[e].status \notin {"open", "refused"}
        /\ row'[e].window => row[e].window
    BY <1>1, <2>2, RowsMonotone
  <2>4. Late(row[e]) => ~row'[e].window
    BY <2>3 DEF Late
  <2>5. obs'[w].row = e /\ obs'[w].late = Late(row[e]) /\ obs'[w].saw = "nothing"
    BY <2>1
  <2>. QED BY <2>3, <2>4, <2>5 DEF LookGood, Mined
<1>6. ASSUME NEW saw, Answer(w, saw), saw \in Mined => wire[obs[w].row] = saw,
             obs[w].pc \in {"receipt", "pool"}
      PROVE  LookGood(obs'[w], row', wire')
  <2>1. obs'[w] = [obs[w] EXCEPT !.pc = "apply", !.saw = saw]
    BY <1>1, <1>6 DEF Answer
  <2>2. /\ obs'[w].row = obs[w].row /\ obs'[w].late = obs[w].late /\ obs'[w].saw = saw
    BY <1>1, <2>1 DEF LookTypes
  <2>3. obs[w].row \in Attempts
    BY <1>1, <1>6 DEF LookGood
  <2>. QED BY <1>1, <1>2, <1>6, <2>2, <2>3, WireMonotone DEF LookGood
<1>7. CASE ReadReceipt(w)
  <2>1. CASE obs' = [obs EXCEPT ![w].pc = "pool"]
    <3>1. /\ obs'[w].row = obs[w].row /\ obs'[w].late = obs[w].late
          /\ obs'[w].saw = obs[w].saw
      BY <1>1, <2>1 DEF LookTypes
    <3>2. obs[w].pc = "receipt"
      BY <1>7 DEF ReadReceipt
    <3>. QED BY <1>2, <3>1, <3>2 DEF LookGood
  <2>2. CASE Answer(w, "superseded")
    BY <1>6, <1>7, <2>2 DEF ReadReceipt, Mined
  <2>3. CASE Answer(w, wire[obs[w].row])
    BY <1>6, <1>7, <2>3 DEF ReadReceipt
  <2>. QED BY <1>7, <2>1, <2>2, <2>3 DEF ReadReceipt
<1>8. CASE ReadPool(w)
  <2>1. \E saw : Answer(w, saw) /\ saw \notin Mined
    BY <1>8 DEF ReadPool, Mined
  <2>. QED BY <1>6, <1>8, <2>1 DEF ReadPool
<1>9. CASE ReadFails(w)
  BY <1>6, <1>9 DEF ReadFails, Mined
<1>10. CASE Apply(w)
  BY <1>1, <1>4, <1>10 DEF Apply
<1>11. CASE Restart
  BY <1>4, <1>11 DEF Restart
<1>12. CASE \E x \in Observers \ {w} :
             \/ ReadReceipt(x) \/ ReadPool(x) \/ ReadFails(x) \/ Apply(x)
             \/ \E e \in Attempts : Claim(x, e)
  <2>1. obs'[w] = obs[w]
    BY <1>1, <1>12 DEF ReadReceipt, ReadPool, ReadFails, Apply, Claim, Answer
  <2>. QED BY <1>3, <2>1
<1>13. CASE obs' = obs
  BY <1>3, <1>13
<1>. QED BY <1>5, <1>7, <1>8, <1>9, <1>10, <1>11, <1>12, <1>13, Cases
     DEF Begin, Reserve, Sign, Stage, Send, HandlerReads, GivesUp, Refuse, Reap, Tick,
         Include, Hide, Reappear, Foreign

-----------------------------------------------------------------------------
\* The verdicts.

LEMMA VerdictsStep ==
  ASSUME IInv, CallsOK', Next
  PROVE  VerdictsAreTrue'
<1>. SUFFICES ASSUME NEW f \in Attempts
              PROVE  /\ wire'[f] # "unsent" => row'[f].status \notin {"open", "refused"}
                     /\ row'[f].status = "refused" => pc'[f] \notin {"staged", "waiting"}
                     /\ row'[f].status \in {"settled", "confirmed"} => wire'[f] = "succeeded"
                     /\ row'[f].status = "reverted" => wire'[f] = "failed"
  BY DEF VerdictsAreTrue
<1>1. /\ NonceTypeOK /\ CallsOK /\ LooksOK /\ VerdictsAreTrue /\ RowsChange
      /\ row[f] \in RowTypes
  BY RowsMoveInAStep DEF IInv, NonceTypeOK
<1>2. wire'[f] # "unsent" => row'[f].status \notin {"open", "refused"}
  BY <1>1, RowsMonotone, WireMonotone DEF VerdictsAreTrue, CallsOK
<1>3. row'[f].status = "refused" => pc'[f] \notin {"staged", "waiting"}
  BY DEF CallsOK
<1>4. CASE row'[f].status = row[f].status
  BY <1>1, <1>2, <1>3, <1>4, WireMonotone DEF VerdictsAreTrue, Mined
<1>5. CASE row'[f].status # row[f].status
  <2>1. CASE Lowers(f) \/ Stages(f)
    BY <1>1, <1>2, <1>3, <2>1 DEF Lowers, Stages, RowTypes
  <2>2. CASE row[f].status = "staged"
    <3>1. Concludes(f)
      BY <1>1, <1>5, <2>2, WhoConcludes
    <3>2. CASE HandlerReads(f) /\ row'[f].status = IF f \in Legacy THEN "terminal"
                        ELSE IF wire[f] = "succeeded" THEN "settled" ELSE "reverted"
      <4>1. wire[f] \in Mined
        BY <3>2 DEF HandlerReads
      <4>. QED BY <1>1, <1>2, <1>3, <3>2, <4>1, WireMonotone DEF Mined
    <3>3. ASSUME NEW w \in Observers, obs[w].row = f, obs[w].pc = "apply",
                 Allowed(obs[w], row'[f].status), row'[f].status # "staged"
          PROVE  /\ row'[f].status \in {"settled", "confirmed"} => wire'[f] = "succeeded"
                 /\ row'[f].status = "reverted" => wire'[f] = "failed"
      BY <1>1, <3>3, WireMonotone DEF LooksOK, Allowed, Mined
    <3>. QED BY <1>2, <1>3, <3>1, <3>2, <3>3 DEF Concludes
  <2>. QED BY <1>1, <1>5, <2>1, <2>2, RowsMonotone DEF IsFreed
<1>. QED BY <1>4, <1>5

-----------------------------------------------------------------------------
LEMMA InitInv == Init => IInv
BY NonceConstants
   DEF Init, IInv, NonceTypeOK, NonceExclusive, VerdictsAreTrue, CallsOK, LooksOK, Owned,
       NewRow, Idle, RowTypes, Statuses, Mined

LEMMA StepInv ==
  ASSUME IInv, [Next]_nonceVars
  PROVE  IInv'
<1>1. CASE Next
  <2>1. NonceTypeOK'
    <3>1. RowsTyped'
      BY <1>1, RowsMoveInAStep, RowsTypedStep DEF IInv
    <3>2. RestTyped'
      BY <1>1, RestTypedStep DEF IInv
    <3>. QED BY <3>1, <3>2 DEF RowsTyped, RestTyped, NonceTypeOK, RowTypes, LookTypes
  <2>2. NonceExclusive'
    BY <1>1, ExclusiveStep DEF IInv
  <2>. QED BY <1>1, <2>1, <2>2, CallsStep, LooksStep, VerdictsStep DEF IInv
<1>2. CASE UNCHANGED nonceVars
  BY <1>2 DEF IInv, nonceVars, NonceTypeOK, NonceExclusive, VerdictsAreTrue, CallsOK, LooksOK,
     Owned, RowTypes
<1>. QED BY <1>1, <1>2

LEMMA Inductive == Spec => []IInv
<1>1. IInv /\ [Next]_nonceVars => IInv'
  BY StepInv
<1>. QED BY <1>1, InitInv, PTL DEF Spec

\* The rows, calls and observers keep their types, and a row its CHECKs
\* (migrations 091 and 157).
THEOREM NonceTyped == Spec => []NonceTypeOK
BY Inductive, PTL DEF IInv

\* A nonce is owned once (reserveActivityEvmNonce, markActivityBroadcast).
THEOREM NoncesExclusive == Spec => []NonceExclusive
BY Inductive, PTL DEF IInv

\* A row says of its transaction only what is so (terminal-cas.ts).
THEOREM TrueVerdicts == Spec => []VerdictsAreTrue
BY Inductive, PTL DEF IInv

\* The handler alone judges an intent while its window is open (handler-window.ts).
THEOREM WindowKept == Spec => []HandlerKeepsItsWindow
<1>1. IInv => HandlerKeepsItsWindow
  BY DEF IInv, CallsOK, HandlerKeepsItsWindow, Activity, Attempts
<1>. QED BY <1>1, Inductive, PTL

-----------------------------------------------------------------------------
\* The signing guard, and what it is for.

\* No transaction waits above a nonce that nobody fills.
PooledInLine == \A e \in Attempts : wire[e] = "pool" => NoGapBelow(row[e].nonce)

\* From its signature on a transaction is in line; one that lost its place to
\* another has lost it for good.
InLine ==
  \A e \in Attempts :
    /\ pc[e] \in {"signed", "staged"} \/ wire[e] = "pool" => NoGapBelow(row[e].nonce)
    /\ wire[e] = "hidden" => row[e].nonce < included

\* The node loses sight of nothing in its pool, but for what another
\* transaction displaced.
NothingLost == \A e \in Attempts : ~Hide(e)

LEMMA NonceStays ==
  ASSUME NonceTypeOK, RowsChange, NEW f \in Attempts,
         pc[f] # "prepared" \/ row[f].status # "open"
  PROVE  row'[f].nonce = row[f].nonce
<1>1. row[f] \in RowTypes /\ RowMove(f)
  BY DEF NonceTypeOK, RowsChange, Reserves
<1>. QED
  BY <1>1 DEF RowMove, Lowers, Stages, Ages, IsClaimed, IsFreed, Freed, RowTypes

LEMMA SentHasNonce ==
  ASSUME IInv, NEW f \in Attempts,
         wire[f] # "unsent" \/ pc[f] \in {"reserved", "signed", "staged"}
  PROVE  row[f].nonce \in Nat
BY DEF IInv, NonceTypeOK, RowTypes, VerdictsAreTrue, CallsOK

LEMMA PoolStays ==
  ASSUME NonceTypeOK, Next, NothingLost
  PROVE  /\ included' \in {included, included + 1}
         /\ \A f \in Attempts :
              /\ wire[f] = "pool" =>
                   wire'[f] = "pool" \/ (included' = included + 1 /\ row[f].nonce = included)
              /\ wire[f] = "hidden" /\ wire'[f] = "pool" => included <= row[f].nonce
              /\ wire'[f] = "hidden" => wire[f] \in {"hidden", "pool"}
<1>1. ASSUME NEW e \in Attempts, Include(e) \/ Reappear(e) \/ Send(e)
      PROVE  /\ included' \in {included, included + 1}
             /\ \A f \in Attempts :
                  /\ wire[f] = "pool" =>
                       wire'[f] = "pool" \/ (included' = included + 1 /\ row[f].nonce = included)
                  /\ wire[f] = "hidden" /\ wire'[f] = "pool" => included <= row[f].nonce
                  /\ wire'[f] = "hidden" => wire[f] \in {"hidden", "pool"}
  BY <1>1 DEF Include, Reappear, Send, NonceTypeOK, Mined
<1>2. CASE Foreign
  BY <1>2 DEF Foreign, NonceTypeOK
<1>3. CASE \A e \in Attempts : ~Include(e) /\ ~Reappear(e) /\ ~Send(e)
  <2>1. Foreign \/ (wire' = wire /\ included' = included)
    BY <1>3, Cases
    DEF NothingLost, Begin, Reserve, Sign, Stage, HandlerReads, GivesUp, Refuse, Reap, Tick,
        ReadReceipt, ReadPool, ReadFails, Apply, Claim, Restart
  <2>. QED
    BY <1>2, <2>1
<1>. QED
  BY <1>1, <1>3

\* Below a transaction in line only the lowest nonce leaves the pool, with the
\* inclusion that uses it up.
LEMMA GapStaysClosed ==
  ASSUME IInv, Next, NothingLost, NEW n \in Nat, NoGapBelow(n)
  PROVE  NoGapBelow(n)'
<1>. SUFFICES ASSUME NEW k \in included' .. n, k < n
              PROVE  Pooled(k)'
  BY DEF NoGapBelow
<1>1. included \in Nat /\ included' \in {included, included + 1} /\ NonceTypeOK /\ RowsChange
  BY PoolStays, RowsMoveInAStep DEF IInv, NonceTypeOK
<1>2. k \in included .. n
  BY <1>1
<1>3. PICK e \in Attempts : wire[e] = "pool" /\ row[e].nonce = k
  BY <1>2 DEF NoGapBelow, Pooled
<1>4. wire'[e] = "pool"
  BY <1>1, <1>3, PoolStays
<1>5. row'[e].nonce = k
  BY <1>1, <1>3, NonceStays DEF IInv, VerdictsAreTrue
<1>. QED
  BY <1>4, <1>5 DEF Pooled

LEMMA WhoSigns ==
  ASSUME NonceTypeOK, Next, NEW f \in Attempts, pc[f] = "reserved", pc'[f] = "signed"
  PROVE  Sign(f)
<1>1. ASSUME NEW e \in Attempts, Sign(e)
      PROVE  e = f
  BY <1>1 DEF Sign, NonceTypeOK
<1>2. ASSUME NEW e \in Attempts,
             \/ Begin(e) \/ Reserve(e) \/ Stage(e) \/ Send(e) \/ HandlerReads(e)
             \/ GivesUp(e) \/ Refuse(e)
      PROVE  FALSE
  BY <1>2
  DEF Begin, Reserve, Stage, Send, HandlerReads, GivesUp, Refuse, NonceTypeOK
<1>. QED
  BY <1>1, <1>2, Cases
  DEF Reap, Tick, Include, Hide, Reappear, ReadReceipt, ReadPool, ReadFails, Apply, Claim,
      Foreign, Restart

LEMMA InLineStep ==
  ASSUME Bridges = {}, IInv, InLine, Next, NothingLost
  PROVE  InLine'
<1>1. NonceTypeOK /\ CallsOK /\ RowsChange
  BY RowsMoveInAStep DEF IInv
<1>. SUFFICES ASSUME NEW f \in Attempts
              PROVE  /\ pc'[f] \in {"signed", "staged"} \/ wire'[f] = "pool"
                          => NoGapBelow(row[f].nonce)'
                     /\ wire'[f] = "hidden" => row'[f].nonce < included'
  BY DEF InLine
<1>2. ASSUME pc[f] \in {"signed", "staged"} \/ wire[f] = "pool"
      PROVE  NoGapBelow(row[f].nonce)'
  <2>1. row'[f].nonce = row[f].nonce
    BY <1>1, <1>2, NonceStays DEF IInv, VerdictsAreTrue
  <2>2. row[f].nonce \in Nat /\ NoGapBelow(row[f].nonce)
    BY <1>2, SentHasNonce DEF InLine
  <2>. DEFINE n == row[f].nonce
  <2>3. ASSUME NEW m \in Nat, NoGapBelow(m)
        PROVE  \A k \in included' .. m : k < m => Pooled(k)'
    BY <2>3, GapStaysClosed DEF NoGapBelow
  <2>. QED
    BY <2>1, <2>2, <2>3 DEF NoGapBelow, Pooled
<1>3. CASE pc[f] = "reserved" /\ pc'[f] = "signed"
  BY <1>1, <1>3, WhoSigns DEF Sign, SigningGuard, IsPending, NoGapBelow, Pooled, CallsOK
<1>4. pc'[f] \in {"signed", "staged"} =>
        pc[f] \in {"signed", "staged"} \/ (pc[f] = "reserved" /\ pc'[f] = "signed")
  BY <1>1, CallsMove DEF CallMove, Stages
<1>5. wire'[f] = "pool" => wire[f] = "pool" \/ pc[f] = "staged"
  <2>1. wire[f] # "hidden" \/ wire'[f] # "pool"
    BY <1>1, PoolStays, SentHasNonce DEF InLine, NonceTypeOK
  <2>. QED
    BY <1>1, <2>1, WireMonotone DEF NonceTypeOK, Mined
<1>6. wire'[f] = "hidden" => row'[f].nonce < included'
  BY <1>1, PoolStays, SentHasNonce, NonceStays
  DEF InLine, IInv, VerdictsAreTrue, NonceTypeOK
<1>. QED
  BY <1>2, <1>3, <1>4, <1>5, <1>6

\* "A stale local nonce must never become a queued gap" (nonce-signing-guard.ts:4):
\* with the guard in front of every signature - Khalani's leg signer has none,
\* see the run QueuedGap - nothing is signed above a gap.  And it stays so until
\* the transaction is included, whatever restarts, foreign transactions and other
\* signers do in between, as long as the pool forgets nothing: the check is made
\* long before the submit, and every row below may be refused, judged or
\* displaced meanwhile.
THEOREM GuardKeepsLine ==
  ASSUME Bridges = {}
  PROVE  /\ Spec => NoQueuedGap
         /\ Init /\ [][Next /\ NothingLost]_nonceVars => []PooledInLine
<1>1. IInv /\ [Next]_nonceVars =>
        [\A e \in Attempts :
           pc[e] = "reserved" /\ pc'[e] = "signed" => NoGapBelow(row[e].nonce)]_nonceVars
  BY WhoSigns DEF IInv, Sign, SigningGuard, IsPending
<1>2. Init => InLine
  BY DEF Init, InLine
<1>3. IInv /\ InLine /\ [Next /\ NothingLost]_nonceVars => InLine'
  <2>1. IInv /\ InLine /\ UNCHANGED nonceVars => InLine'
    BY DEF nonceVars, InLine, NoGapBelow, Pooled
  <2>. QED
    BY <2>1, InLineStep
<1>4. InLine => PooledInLine
  BY DEF InLine, PooledInLine
<1>5. [Next /\ NothingLost]_nonceVars => [Next]_nonceVars
  OBVIOUS
<1>6. Spec => NoQueuedGap
  BY <1>1, Inductive, PTL DEF Spec, NoQueuedGap
<1>7. Init /\ [][Next /\ NothingLost]_nonceVars => []PooledInLine
  BY <1>2, <1>3, <1>4, <1>5, Inductive, PTL DEF Spec
<1>. QED
  BY <1>6, <1>7

-----------------------------------------------------------------------------
\* The promise.  A step writes rows or moves the chain, never both, and of one
\* attempt it changes the word, or that it left, or its outcome.

LEMMA PhaseSteps ==
  ASSUME IInv, VerdictsAreTrue', RowsChange, NEW f \in Attempts
  PROVE  \/ Phase(row'[f].status) = Phase(row[f].status)
         \/ Phase(row[f].status) = "open" /\ Phase(row'[f].status) \in {"refused", "committed"}
         \/ /\ Phase(row[f].status) = "committed"
            /\ \/ Phase(row'[f].status) = "closed"
               \/ Phase(row'[f].status) = "confirmed" /\ wire'[f] = "succeeded"
               \/ Phase(row'[f].status) = "reverted" /\ wire'[f] = "failed"
<1>1. /\ row[f] \in RowTypes /\ NonceTypeOK
      /\ row'[f].status # row[f].status => Lowers(f) \/ Stages(f) \/ IsFreed(f)
  BY RowsMonotone DEF IInv, NonceTypeOK
<1>2. CASE row'[f].status = row[f].status
  BY <1>2
<1>3. CASE Lowers(f)
  BY <1>3 DEF Lowers, Phase
<1>4. CASE Stages(f)
  <2>1. row[f].status = "open" /\ row'[f].status = "staged"
    BY <1>1, <1>4 DEF Stages, MayStage, RowTypes
  <2>. QED BY <2>1 DEF Phase
<1>5. CASE IsFreed(f)
  <2>1. row[f].status = "staged" /\ row'[f].status \in Verdicts \cup {"staged"}
    BY <1>5 DEF IsFreed, Freed, Statuses
  <2>2. /\ row'[f].status \in {"settled", "confirmed"} => wire'[f] = "succeeded"
        /\ row'[f].status = "reverted" => wire'[f] = "failed"
    BY DEF VerdictsAreTrue
  <2>. QED BY <2>1, <2>2 DEF Phase, Verdicts
<1>. QED BY <1>1, <1>2, <1>3, <1>4, <1>5

LEMMA RowsOrChain ==
  ASSUME Next
  PROVE  row' = row \/ wire' = wire
BY Cases DEF Begin, Reserve, Sign, Stage, Send, HandlerReads, GivesUp, Refuse, Reap, Tick,
   Include, Hide, Reappear, ReadReceipt, ReadPool, ReadFails, Apply, Claim, Foreign, Restart

LEMMA ChainSteps ==
  ASSUME IInv, Next, NEW f \in Attempts
  PROVE  \/ (wire'[f] # "unsent") = (wire[f] # "unsent") /\ Outcome(wire'[f]) = Outcome(wire[f])
         \/ /\ wire[f] = "unsent" /\ wire'[f] = "pool"
            /\ row[f].status \notin {"open", "refused"}
         \/ /\ wire[f] \notin Mined \cup {"unsent"} /\ wire'[f] \in Mined
<1>1. /\ NonceTypeOK /\ CallsOK
      /\ wire \in [Attempts -> {"unsent", "pool", "hidden"} \cup Mined]
      /\ wire'[f] \in {"unsent", "pool", "hidden"} \cup Mined
  BY StepInv DEF IInv, NonceTypeOK
<1>2. CASE wire[f] = "unsent" /\ wire'[f] # "unsent"
  <2>1. pc[f] = "staged" /\ Send(f)
    BY <1>1, <1>2, WireMonotone
  <2>2. wire'[f] = "pool"
    BY <1>1, <1>2, <2>1 DEF Send
  <2>. QED BY <1>1, <1>2, <2>1, <2>2 DEF CallsOK
<1>3. CASE wire[f] = "unsent" /\ wire'[f] = "unsent"
  BY <1>3
<1>4. CASE wire[f] # "unsent"
  BY <1>1, <1>4, WireMonotone DEF Outcome, Mined
<1>. QED BY <1>2, <1>3, <1>4

LEMMA LifeFields ==
  \A p, s, o, x :
    /\ [[phase |-> p, sent |-> s, outcome |-> o] EXCEPT !.phase = x]
         = [phase |-> x, sent |-> s, outcome |-> o]
    /\ [[phase |-> p, sent |-> s, outcome |-> o] EXCEPT !.sent = x]
         = [phase |-> p, sent |-> x, outcome |-> o]
    /\ [[phase |-> p, sent |-> s, outcome |-> o] EXCEPT !.outcome = x]
         = [phase |-> p, sent |-> s, outcome |-> x]
OBVIOUS

\* One step of one attempt, on its life before and after.
LifeMove(r, q) ==
  \/ q = r
  \/ /\ r.phase = "open"
     /\ q = [r EXCEPT !.phase = "refused"] \/ q = [r EXCEPT !.phase = "committed"]
  \/ /\ r.phase = "committed"
     /\ \/ q = [r EXCEPT !.phase = "closed"]
        \/ r.outcome = "succeeded" /\ q = [r EXCEPT !.phase = "confirmed"]
        \/ r.outcome = "failed" /\ q = [r EXCEPT !.phase = "reverted"]
  \/ r.phase \notin {"open", "refused"} /\ ~r.sent /\ q = [r EXCEPT !.sent = TRUE]
  \/ /\ r.sent /\ r.outcome = "none"
     /\ \E o \in {"succeeded", "failed"} : q = [r EXCEPT !.outcome = o]

LEMMA LifeSteps ==
  ASSUME IInv, Next, NEW f \in Attempts
  PROVE  LifeMove(Life(f), Life(f)')
<1>1. /\ VerdictsAreTrue' /\ RowsChange /\ NonceTypeOK
      /\ row[f] \in RowTypes
  BY StepInv, RowsMoveInAStep DEF IInv, NonceTypeOK
<1> DEFINE p == Phase(row[f].status)      q == Phase(row'[f].status)
           s == wire[f] # "unsent"        t == wire'[f] # "unsent"
           o == Outcome(wire[f])          z == Outcome(wire'[f])
<1>0. /\ Life(f) = [phase |-> p, sent |-> s, outcome |-> o]
      /\ Life(f)' = [phase |-> q, sent |-> t, outcome |-> z]
      /\ Life(f).phase = p /\ Life(f).sent = s /\ Life(f).outcome = o
  BY DEF Life
<1>2. CASE wire' = wire
  <2>1. t = s /\ z = o
    BY <1>2
  <2>2. \A x : [Life(f) EXCEPT !.phase = x] = [phase |-> x, sent |-> s, outcome |-> o]
    BY <1>0, LifeFields
  <2>3. \/ q = p
        \/ p = "open" /\ q \in {"refused", "committed"}
        \/ /\ p = "committed"
           /\ \/ q = "closed"
              \/ q = "confirmed" /\ o = "succeeded"
              \/ q = "reverted" /\ o = "failed"
    BY <1>1, <1>2, PhaseSteps DEF Outcome, Mined
  <2> HIDE DEF p, q, s, t, o, z
  <2>4. Life(f)' = [phase |-> q, sent |-> s, outcome |-> o]
    BY <1>0, <2>1
  <2>. QED BY <1>0, <2>2, <2>3, <2>4 DEF LifeMove
<1>3. CASE row' = row
  <2>1. CASE (wire'[f] # "unsent") = (wire[f] # "unsent") /\ Outcome(wire'[f]) = Outcome(wire[f])
    <3>1. q = p /\ t = s /\ z = o
      BY <1>3, <2>1
    <3> HIDE DEF p, q, s, t, o, z
    <3>. QED BY <1>0, <3>1 DEF LifeMove
  <2>2. CASE /\ wire[f] = "unsent" /\ wire'[f] = "pool"
             /\ row[f].status \notin {"open", "refused"}
    <3>1. p \notin {"open", "refused"}
      BY <1>1, <2>2 DEF Phase, RowTypes, Statuses, Verdicts
    <3>2. q = p /\ z = o /\ s = FALSE /\ t = TRUE
      BY <1>3, <2>2 DEF Outcome, Mined
    <3> HIDE DEF p, q, s, t, o, z
    <3>3. \A x : [Life(f) EXCEPT !.sent = x] = [phase |-> p, sent |-> x, outcome |-> o]
      BY <1>0, LifeFields
    <3>4. Life(f)' = [Life(f) EXCEPT !.sent = TRUE]
      BY <1>0, <3>2, <3>3, Zenon
    <3>5. Life(f).phase \notin {"open", "refused"} /\ ~Life(f).sent
      BY <1>0, <3>1, <3>2, Zenon
    <3>. QED BY <3>4, <3>5, Zenon DEF LifeMove
  <2>3. CASE wire[f] \notin Mined \cup {"unsent"} /\ wire'[f] \in Mined
    <3>1. q = p /\ s = TRUE /\ t = TRUE /\ o = "none" /\ z \in {"succeeded", "failed"}
      BY <1>3, <2>3 DEF Outcome, Mined
    <3> HIDE DEF p, q, s, t, o, z
    <3>2. \A x : [Life(f) EXCEPT !.outcome = x] = [phase |-> p, sent |-> s, outcome |-> x]
      BY <1>0, LifeFields
    <3>3. Life(f)' = [Life(f) EXCEPT !.outcome = z]
      BY <1>0, <3>1, <3>2, Zenon
    <3>4. Life(f).sent /\ Life(f).outcome = "none"
      BY <1>0, <3>1, Zenon
    <3>. QED BY <3>1, <3>3, <3>4, Zenon DEF LifeMove
  <2>. QED BY <2>1, <2>2, <2>3, ChainSteps
<1>. QED BY <1>2, <1>3, RowsOrChain

\* The rows and the chain implement NoncePromise (terminal-cas.ts, staged-broadcast.ts).
THEOREM NoncesKeepPromise == Spec => KeepsNoncePromise
<1>1. Init => Promise!Init
  <2>. SUFFICES ASSUME Init PROVE Promise!Init
    OBVIOUS
  <2>1. ASSUME NEW e \in Attempts PROVE Life(e) = Promise!Start
    BY DEF Init, NewRow, Phase, Mined, Life, Outcome, Promise!Start
  <2>. QED BY <2>1 DEF Promise!Init
<1>2. ASSUME IInv, [Next]_nonceVars
      PROVE  [\A e \in Attempts : Promise!Step(e)]_([e \in Attempts |-> Life(e)])
  <2>1. CASE Next
    <3>1. ASSUME NEW e \in Attempts PROVE Promise!Step(e)
      BY <1>2, <2>1, LifeSteps
         DEF LifeMove, Promise!Step, Promise!Refuses, Promise!Commits, Promise!Leaves, Promise!Lands,
             Promise!Confirms, Promise!Reverts, Promise!Closes, Promise!Moves
    <3>. QED BY <3>1
  <2>2. CASE UNCHANGED nonceVars
    BY <2>2 DEF nonceVars, Life
  <2>. QED BY <1>2, <2>1, <2>2
<1>. QED BY <1>1, <1>2, Inductive, PTL DEF Spec, KeepsNoncePromise, Promise!Spec
=============================================================================
