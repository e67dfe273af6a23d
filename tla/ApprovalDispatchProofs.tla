---------------------- MODULE ApprovalDispatchProofs ----------------------
(***************************************************************************)
(* ApprovalDispatch keeps its invariants and implements ApprovalPromise,   *)
(* for every set of cards, callers, hooks and sweeps.                      *)
(*                                                                         *)
(* The inductive invariant joins what a card row may look like (CardOK),   *)
(* what a chain's place in the code says of its card (Says), that no two   *)
(* chains are in the same critical place of one card (Exclusive), and that *)
(* a mission's stop, once accepted, is open or has ended the run (Barrier).*)
(* The proof splits every step in two: how it moves each card (Moves), and *)
(* where it leaves the chain that took it.                                 *)
(***************************************************************************)
EXTENDS ApprovalDispatch, TLAPS

RUN_STATUS ==
  {"none", "paused_approval", "running", "paused_wake", "paused_error"} \cup OVER

\* The shapes of a card: nothing is executed or answered before the decision,
\* and an approved card is answered exactly when it has a verdict.
CardOK(r) ==
  /\ r \in CardRecords
  /\ r.st # "approved" => r.exec = "not_started"
  /\ r.exec = "not_started" => r.ran = 0
  /\ r.st \in {"absent", "pending", "withdrawn"} => r.told = 0
  /\ r.st = "approved" => (r.told = 1 <=> r.exec \in FINAL_EXECUTION)
  /\ r.consumed => r.told = 1
  /\ r.barred => r.st = "approved"

\* What the place of a chain says of its card.
Says(ch, r) ==
  /\ ch.pc = "refuse" => r.st = "rejected" /\ r.told = 0
  /\ ch.pc = "claim" /\ ch.owner[1] = "approve" => r.st = "approved"
  /\ ch.pc = "claim" /\ ch.owner[1] # "approve" => r.told = 1
  /\ ch.pc = "slot" => r.st = "approved"
  /\ ch.pc \in {"dispatch", "abandon"} => r.st = "approved" /\ r.exec # "not_started"
  /\ ch.pc \in {"settle", "resume", "turn", "consume"} => r.told = 1

ChainOK(t) ==
  /\ chain[t] \in ChainRecords
  /\ IsOther(t) => chain[t].pc \in {"turn", "discard"}
  /\ At(t, "refuse") => chain[t].owner[1] = "refuse"
  /\ chain[t].pc # "idle" /\ ~IsOther(t) => CardOf(t) \in Cards /\ Says(chain[t], card[CardOf(t)])

Exclusive ==
  \A t, u \in Chains :
    /\ CardOf(t) = CardOf(u)
    /\ \/ At(t, "refuse") /\ At(u, "refuse")
       \/ chain[t].pc \in {"dispatch", "abandon"} /\ chain[u].pc \in {"dispatch", "abandon"}
    => t = u

Barrier ==
  session.run # "none" => \A c \in Cards : card[c].barred => StopGate /\ card[c].ran = 0

Rest ==
  /\ session \in [run : RUN_STATUS, stop : BOOLEAN]
  /\ lease \in [owner : Holders, live : BOOLEAN]
  /\ trouble \in 0..MaxTrouble

CardsOK == card \in [Cards -> CardRecords] /\ \A c \in Cards : CardOK(card[c])
ChainsOK == chain \in [Chains -> ChainRecords] /\ \A t \in Chains : ChainOK(t)

IInv == CardsOK /\ ChainsOK /\ Exclusive /\ Barrier /\ Rest

-----------------------------------------------------------------------------
(* How a step moves a card.                                                *)

\* Every move but the answer to a refusal, which one chain alone may make.
QuietMove(r, r2) ==
  \/ /\ r2.st = r.st /\ r2.exec = r.exec /\ r2.told = r.told
     /\ r2.consumed = r.consumed /\ r2.ran = r.ran
  \/ /\ r.st = "absent" /\ r2.st = "pending"
     /\ r2.exec = r.exec /\ r2.told = r.told /\ r2.consumed = r.consumed /\ r2.ran = r.ran
  \/ /\ r.st = "pending" /\ r2.st \in {"approved", "rejected", "withdrawn"}
     /\ r2.exec = r.exec /\ r2.told = r.told /\ r2.consumed = r.consumed /\ r2.ran = r.ran
  \/ /\ r.st = "approved" /\ r2.st = r.st
     /\ r.exec = "not_started" /\ r2.exec = "dispatching"
     /\ r2.told = r.told /\ r2.consumed = r.consumed
  \/ /\ r.st = "approved" /\ r2.st = r.st
     /\ r.exec = "dispatching" /\ r2.exec \in FINAL_EXECUTION
     /\ r.told = 0 /\ r2.told = 1 /\ r2.consumed = r.consumed /\ r2.ran = r.ran
  \/ /\ r.told = 1 /\ ~r.consumed /\ r2.consumed
     /\ r2.st = r.st /\ r2.exec = r.exec /\ r2.told = r.told /\ r2.ran = r.ran

AnswersRefusal(r, r2) ==
  /\ r.st = "rejected" /\ r.told = 0 /\ r2.told = 1
  /\ r2.st = r.st /\ r2.exec = r.exec /\ r2.consumed = r.consumed /\ r2.ran = r.ran

\* A quiet step of the cards ...
CardMoves ==
  card' \in [Cards -> CardRecords] /\ \A c \in Cards : QuietMove(card[c], card'[c])

\* ... which also bars nobody, and runs nothing while the gate is closed.
CardStep ==
  /\ CardMoves
  /\ \A c \in Cards :
       /\ card'[c].barred = card[c].barred
       /\ StopGate => card'[c].ran = card[c].ran

\* A move leaves a card in shape.
LEMMA MoveKeepsCardOK ==
  ASSUME NEW r, NEW r2 \in CardRecords, CardOK(r), QuietMove(r, r2) \/ AnswersRefusal(r, r2),
         r2.barred => r.barred \/ r2.st = "approved"
  PROVE  CardOK(r2)
  BY DEF CardOK, CardRecords, QuietMove, AnswersRefusal, FINAL_EXECUTION

\* A quiet move leaves what any chain's place says true.
LEMMA MoveKeepsSays ==
  ASSUME NEW r, NEW r2 \in CardRecords, CardOK(r), QuietMove(r, r2), NEW ch, Says(ch, r)
  PROVE  Says(ch, r2)
  BY DEF CardOK, CardRecords, QuietMove, Says, FINAL_EXECUTION

LEMMA UnchangedCards ==
  ASSUME CardsOK, UNCHANGED card
  PROVE  CardStep
  BY DEF CardsOK, CardStep, CardMoves, QuietMove

\* A write to one card.
LEMMA PutStep ==
  ASSUME CardsOK, NEW d \in Cards, NEW r2 \in CardRecords, Put(d, r2),
         QuietMove(card[d], r2), r2.barred = card[d].barred,
         StopGate => r2.ran = card[d].ran
  PROVE  CardStep
  <1>1. card' \in [Cards -> CardRecords]
    BY DEF CardsOK, Put
  <1>2. ASSUME NEW c \in Cards
        PROVE  /\ QuietMove(card[c], card'[c])
               /\ card'[c].barred = card[c].barred
               /\ StopGate => card'[c].ran = card[c].ran
    <2>1. CASE c = d
      BY <2>1 DEF Put, CardsOK
    <2>2. CASE c # d
      <3>1. card'[c] = card[c]
        BY <2>2 DEF Put, CardsOK
      <3> QED BY <3>1 DEF QuietMove
    <2> QED BY <2>1, <2>2
  <1> QED BY <1>1, <1>2 DEF CardStep, CardMoves

\* RejectedByStop row by row.
LEMMA RejectedRow ==
  ASSUME CardsOK, NEW c \in Cards
  PROVE  /\ RejectedByStop[c] \in CardRecords
         /\ QuietMove(card[c], RejectedByStop[c])
         /\ RejectedByStop[c].barred = card[c].barred
         /\ RejectedByStop[c].ran = card[c].ran
         /\ card[c].st = "approved" => RejectedByStop[c] = card[c]
  <1>1. card[c] \in CardRecords
    BY DEF CardsOK
  <1>2. CASE card[c].st = "pending"
    <2>1. RejectedByStop[c] = [card[c] EXCEPT !.st = "withdrawn"]
      BY <1>2 DEF RejectedByStop
    <2> QED BY <1>1, <1>2, <2>1 DEF CardRecords, QuietMove
  <1>3. CASE card[c].st # "pending"
    <2>1. RejectedByStop[c] = card[c]
      BY <1>3 DEF RejectedByStop
    <2> QED BY <1>1, <2>1 DEF QuietMove
  <1> QED BY <1>2, <1>3

\* Landing a stop moves the cards quietly.
LEMMA RejectStep ==
  ASSUME CardsOK, card' = RejectedByStop
  PROVE  CardStep
  <1>1. \A c \in Cards : card'[c] = RejectedByStop[c]
    OBVIOUS
  <1>2. card' \in [Cards -> CardRecords]
    BY RejectedRow DEF RejectedByStop
  <1> QED BY <1>1, <1>2, RejectedRow DEF CardStep, CardMoves

LEMMA LandStopStep ==
  ASSUME CardsOK, LandStop(card')
  PROVE  CardStep
  BY RejectStep, UnchangedCards DEF LandStop

LEMMA ParkStep ==
  ASSUME CardsOK, NEW st, GateThenPark(st)
  PROVE  CardStep
  BY LandStopStep, UnchangedCards DEF GateThenPark

\* The settlements of a dispatch: the slot's owner gives the one verdict.
LEMMA SettleStep ==
  ASSUME CardsOK, NEW c \in Cards, card[c].st = "approved", card[c].exec # "not_started",
         NEW v \in FINAL_EXECUTION, Settle(c, v)
  PROVE  CardStep
  <1>1. CASE OwnsDispatch(c)
    <2> DEFINE r2 == [card[c] EXCEPT !.exec = v, !.stale = FALSE, !.told = @ + 1]
    <2>1. CardOK(card[c]) /\ card[c] \in CardRecords
      BY DEF CardsOK
    <2>2. card[c].told = 0 /\ card[c].exec = "dispatching"
      BY <1>1, <2>1 DEF OwnsDispatch, CardOK, CardRecords, FINAL_EXECUTION
    <2>3. r2 = [card[c] EXCEPT !.exec = v, !.stale = FALSE, !.told = 1]
      BY <2>2
    <2>6. r2 \in CardRecords /\ r2.exec = v /\ r2.told = 1
            /\ r2.st = card[c].st /\ r2.consumed = card[c].consumed
            /\ r2.barred = card[c].barred /\ r2.ran = card[c].ran
      BY <2>1, <2>3 DEF CardRecords
    <2>4. Put(c, r2)
      BY <1>1 DEF Settle
    <2> HIDE DEF r2
    <2>5. QuietMove(card[c], r2)
      BY <2>2, <2>6 DEF QuietMove
    <2> QED BY <2>4, <2>5, <2>6, PutStep
  <1>2. CASE ~OwnsDispatch(c)
    BY <1>2, UnchangedCards DEF Settle
  <1> QED BY <1>1, <1>2

\* Taking the slot, the rejections of a landed stop included.
LEMMA ClaimSlotStep ==
  ASSUME CardsOK, NEW t \in Chains, ClaimSlot(t), CardOf(t) \in Cards,
         card[CardOf(t)].st = "approved"
  PROVE  CardStep
  <1> DEFINE c == CardOf(t)
  <1>1. CardOK(card[c]) /\ card[c] \in CardRecords
    BY DEF CardsOK
  <1>2. CASE LandStop(card') \/ UNCHANGED card
    BY <1>2, LandStopStep, UnchangedCards
  <1>3. ASSUME StopGate, SlotFree(c), NEW rows \in {card, RejectedByStop},
               card' = TakeSlot(c, rows)
        PROVE  CardStep
    <2>1. rows \in [Cards -> CardRecords] /\ rows[c] = card[c]
      BY <1>1, RejectedRow DEF RejectedByStop, CardsOK
    <2>2. ASSUME NEW d \in Cards
          PROVE  /\ card'[d] \in CardRecords
                 /\ QuietMove(card[d], card'[d])
                 /\ card'[d].barred = card[d].barred
                 /\ card'[d].ran = card[d].ran
      <3>1. CASE d = c
        <4>1. card'[d] = [card[c] EXCEPT !.exec = "dispatching", !.stale = FALSE]
          BY <1>3, <2>1, <3>1 DEF TakeSlot
        <4> QED BY <1>1, <1>3, <3>1, <4>1 DEF SlotFree, QuietMove, CardRecords
      <3>2. CASE d # c
        <4>1. card'[d] = rows[d]
          BY <1>3, <2>1, <3>2 DEF TakeSlot
        <4>2. CASE rows = card
          BY <2>1, <4>1, <4>2 DEF QuietMove
        <4>3. CASE rows = RejectedByStop
          BY <4>1, <4>3, RejectedRow
        <4> QED BY <4>2, <4>3
      <3> QED BY <3>1, <3>2
    <2>3. card' \in [Cards -> CardRecords]
      BY <1>3, <2>1, <2>2 DEF TakeSlot
    <2> QED BY <2>2, <2>3 DEF CardStep, CardMoves
  <1>4. ASSUME ~StopGate, SlotFree(c), NEW calls \in {0, 1},
               card' = [TakeSlot(c, card) EXCEPT ![c].ran = @ + calls]
        PROVE  CardStep
    <2> DEFINE r2 == [card[c] EXCEPT !.exec = "dispatching", !.stale = FALSE, !.ran = @ + calls]
    <2>1. card[c].ran = 0
      BY <1>1, <1>4 DEF SlotFree, CardOK
    <2>2. Put(c, r2)
      BY <1>1, <1>4 DEF TakeSlot, Put, CardsOK
    <2>3. r2 = [card[c] EXCEPT !.exec = "dispatching", !.stale = FALSE, !.ran = calls]
      <3>1. card[c].ran + calls = calls
        BY <1>4, <2>1
      <3> QED BY <3>1
    <2>5. r2 \in CardRecords /\ r2.barred = card[c].barred /\ r2.exec = "dispatching"
            /\ r2.st = card[c].st /\ r2.told = card[c].told /\ r2.consumed = card[c].consumed
      BY <1>1, <1>4, <2>3 DEF CardRecords
    <2>4. QuietMove(card[c], r2)
      BY <1>4, <2>5 DEF SlotFree, QuietMove
    <2> HIDE DEF r2
    <2> QED BY <1>4, <2>2, <2>5, <2>4, PutStep
  <1> QED BY <1>2, <1>3, <1>4 DEF ClaimSlot

-----------------------------------------------------------------------------
(* Each action as a step of the cards.                                     *)

\* The steps of a chain that are quiet on the cards: all but CommitRefusal.
LEMMA ProceedCards ==
  ASSUME CardsOK, NEW t \in Chains, ChainOK(t), Proceed(t), ~CommitRefusal(t)
  PROVE  CardStep
  <1> DEFINE c == CardOf(t)
  <1>1. /\ chain[t].pc \in {"slot", "dispatch", "abandon", "settle", "resume", "consume"} =>
             c \in Cards /\ CardOK(card[c]) /\ card[c] \in CardRecords
        /\ At(t, "slot") => card[c].st = "approved"
        /\ chain[t].pc \in {"dispatch", "abandon"} =>
             card[c].st = "approved" /\ card[c].exec # "not_started"
        /\ At(t, "consume") => card[c].told = 1
    BY DEF ChainOK, Says, IsOther, CardsOK, At
  <1>2. CASE Claim(t) \/ Discard(t)
    BY <1>2, UnchangedCards DEF Claim, Discard
  <1>3. CASE ClaimSlot(t)
    BY <1>1, <1>3, ClaimSlotStep DEF ClaimSlot, At
  <1>4. CASE Abandon(t)
    BY <1>1, <1>4, SettleStep DEF Abandon, At, FINAL_EXECUTION
  <1>5. CASE CommitResult(t)
    <2>1. \E v \in FINAL_EXECUTION : Settle(c, v)
      BY <1>5 DEF CommitResult, FINAL_EXECUTION
    <2> QED BY <1>1, <1>5, <2>1, SettleStep DEF CommitResult, At
  <1>6. CASE StopAfterDispatch(t) \/ StopSuperseded(t) \/ BeginResume(t)
    BY <1>6, UnchangedCards, LandStopStep DEF StopAfterDispatch, StopSuperseded, BeginResume
  <1>7. CASE Fail(t)
    BY <1>7, UnchangedCards, LandStopStep, ParkStep DEF Fail
  <1>8. CASE EndTurn(t)
    <2>1. CASE LandStop(card') \/ UNCHANGED card
      BY <2>1, UnchangedCards, LandStopStep
    <2>2. ASSUME NEW d \in Cards, card[d].st = "absent", Put(d, NewCard("pending"))
          PROVE  CardStep
      <3> DEFINE r2 == NewCard("pending")
      <3>1. card[d] \in CardRecords /\ CardOK(card[d])
        BY DEF CardsOK
      <3>2. r2 \in CardRecords /\ r2.barred = FALSE /\ r2.ran = 0 /\ r2.st = "pending"
              /\ r2.exec = "not_started" /\ r2.told = 0 /\ r2.consumed = FALSE
        BY DEF NewCard, CardRecords
      <3>3. card[d].barred = FALSE /\ card[d].ran = 0 /\ card[d].exec = "not_started"
              /\ card[d].told = 0 /\ card[d].consumed = FALSE
        BY <2>2, <3>1 DEF CardOK, CardRecords
      <3>4. QuietMove(card[d], r2)
        BY <2>2, <3>2, <3>3 DEF QuietMove
      <3> HIDE DEF r2
      <3> QED BY <2>2, <3>2, <3>3, <3>4, PutStep DEF r2
    <2> QED BY <1>8, <2>1, <2>2 DEF EndTurn, TurnEnds
  <1>9. CASE Consume(t)
    <2> DEFINE r2 == [card[c] EXCEPT !.consumed = TRUE]
    <2>1. c \in Cards /\ card[c] \in CardRecords /\ card[c].told = 1
      BY <1>1, <1>9 DEF Consume, At
    <2>2. r2 \in CardRecords /\ QuietMove(card[c], r2)
            /\ r2.barred = card[c].barred /\ r2.ran = card[c].ran
      BY <2>1 DEF CardRecords, QuietMove
    <2> QED BY <1>9, <2>1, <2>2, PutStep DEF Consume
  <1> QED BY <1>2, <1>3, <1>4, <1>5, <1>6, <1>7, <1>8, <1>9 DEF Proceed

\* Every other action.
LEMMA OthersCards ==
  ASSUME CardsOK, Next, ~PressStop, \A t \in Chains : ~Proceed(t)
  PROVE  CardStep
  <1>1. ASSUME UNCHANGED card
        PROVE  CardStep
    BY <1>1, UnchangedCards
  <1>2. CASE Expire \/ LateExpire \/ Restart
    BY <1>1, <1>2 DEF Expire, LateExpire, Restart, Expires
  <1>3. CASE Reclaim
    BY <1>3, ParkStep DEF Reclaim
  <1>4. ASSUME NEW c \in Cards, Age(c)
        PROVE  CardStep
    <2>1. card[c] \in CardRecords
      BY DEF CardsOK
    <2>2. [card[c] EXCEPT !.stale = TRUE] \in CardRecords
            /\ QuietMove(card[c], [card[c] EXCEPT !.stale = TRUE])
      BY <2>1 DEF CardRecords, QuietMove
    <2>3. [card[c] EXCEPT !.stale = TRUE].barred = card[c].barred
            /\ [card[c] EXCEPT !.stale = TRUE].ran = card[c].ran
      BY <2>1 DEF CardRecords
    <2> QED BY <1>4, <2>2, <2>3, PutStep DEF Age
  <1>5. ASSUME NEW t \in Chains, Heartbeat(t) \/ OtherBegins(t) \/ DecisionThrows(t)
        PROVE  CardStep
    BY <1>1, <1>5 DEF Heartbeat, OtherBegins, DecisionThrows
  <1>6. ASSUME NEW t \in Chains, ResumeThrows(t)
        PROVE  CardStep
    BY <1>1, <1>6, LandStopStep, ParkStep DEF ResumeThrows
  <1>7. ASSUME NEW t \in Chains, NEW c \in Cards, Approve(t, c) \/ Refuse(t, c)
        PROVE  CardStep
    <2>1. PICK st \in {"approved", "rejected"} : Put(c, [card[c] EXCEPT !.st = st])
      BY <1>7 DEF Approve, Refuse
    <2>2. card[c] \in CardRecords /\ card[c].st = "pending"
      BY <1>7 DEF CardsOK, Approve, Refuse
    <2>3. [card[c] EXCEPT !.st = st] \in CardRecords
            /\ QuietMove(card[c], [card[c] EXCEPT !.st = st])
      BY <2>2 DEF CardRecords, QuietMove
    <2>4. [card[c] EXCEPT !.st = st].barred = card[c].barred
            /\ [card[c] EXCEPT !.st = st].ran = card[c].ran
      BY <2>2 DEF CardRecords
    <2> QED BY <2>1, <2>3, <2>4, PutStep
  <1>8. ASSUME NEW t \in Chains, NEW c \in Cards, Pick(t, c)
        PROVE  CardStep
    BY <1>1, <1>8 DEF Pick
  <1>9. ASSUME NEW t \in Chains, NEW c \in Cards, Judge(t, c)
        PROVE  CardStep
    <2>1. card[c].st = "approved" /\ card[c].exec = "dispatching" /\ OwnsDispatch(c)
      BY <1>9 DEF Judge, Abandoned, Dispatching, OwnsDispatch
    <2>2. Settle(c, "indeterminate")
      BY <1>9, <2>1 DEF Judge, Settle
    <2> QED BY <2>1, <2>2, SettleStep DEF FINAL_EXECUTION
  <1> QED BY <1>2, <1>3, <1>4, <1>5, <1>6, <1>7, <1>8, <1>9 DEF Next

\* Pressing stop moves the cards quietly too, and bars approved ones.
LEMMA PressStopCards ==
  ASSUME CardsOK, PressStop
  PROVE  /\ CardMoves
         /\ \A c \in Cards :
              /\ card'[c].ran = card[c].ran
              /\ card'[c].barred =>
                   card[c].barred \/ (card'[c].st = "approved" /\ card'[c].exec = "not_started")
  <1>1. ASSUME NEW c \in Cards
        PROVE  /\ card'[c] \in CardRecords
               /\ QuietMove(card[c], card'[c])
               /\ card'[c].ran = card[c].ran
               /\ card'[c].barred =>
                    card[c].barred \/ (card'[c].st = "approved" /\ card'[c].exec = "not_started")
    <2>1. PICK r \in {card[c], RejectedByStop[c]} : card'[c] = Barred(r)
      BY DEF PressStop
    <2>2. r \in CardRecords /\ QuietMove(card[c], r) /\ r.ran = card[c].ran
            /\ r.barred = card[c].barred
      <3>1. CASE r = card[c]
        BY <3>1 DEF CardsOK, QuietMove
      <3>2. CASE r = RejectedByStop[c]
        BY <3>2, RejectedRow
      <3> QED BY <3>1, <3>2
    <2> DEFINE b == [r EXCEPT !.barred = TRUE]
    <2>3. CASE Barred(r) = r
      BY <2>1, <2>2, <2>3
    <2>4. CASE r.st = "approved" /\ r.exec = "not_started"
      <3>1. card'[c] = b
        BY <2>1, <2>4 DEF Barred
      <3>2. b \in CardRecords /\ b.st = r.st /\ b.exec = r.exec /\ b.told = r.told
              /\ b.consumed = r.consumed /\ b.ran = r.ran
        BY <2>2 DEF CardRecords
      <3> HIDE DEF b
      <3>3. QuietMove(card[c], b)
        BY <2>2, <3>2 DEF QuietMove
      <3> QED BY <2>2, <2>4, <3>1, <3>2, <3>3
    <2> QED BY <2>3, <2>4 DEF Barred
  <1>2. card' \in [Cards -> CardRecords]
    BY <1>1 DEF PressStop
  <1> QED BY <1>1, <1>2 DEF CardMoves

-----------------------------------------------------------------------------
(* How a step moves the session row and the lease.                         *)

\* Types, and the gate of a mission stays closed.
SessionStep ==
  /\ session' \in [run : RUN_STATUS, stop : BOOLEAN]
  /\ lease' \in [owner : Holders, live : BOOLEAN]
  /\ session'.run = "none" <=> session.run = "none"
  /\ session.run # "none" /\ StopGate => StopGate'

LEMMA UnchangedSession ==
  ASSUME Rest, UNCHANGED session, lease' \in [owner : Holders, live : BOOLEAN]
  PROVE  SessionStep
  BY DEF Rest, SessionStep, StopGate

LEMMA FreeTyped == Free \in [owner : Holders, live : BOOLEAN]
  BY DEF Free, Holders, NoHolder

\* The two ways a stop lands.
LEMMA LandStopSession ==
  ASSUME Rest, LandStop(card') \/ LandStop(card) \/ LandStop(RejectedByStop)
  PROVE  SessionStep
  <1>1. CASE UNCHANGED <<session, lease>>
    BY <1>1, UnchangedSession DEF Rest
  <1>2. CASE session.run = "none" /\ session' = [session EXCEPT !.stop = FALSE] /\ UNCHANGED lease
    <2>1. session' \in [run : RUN_STATUS, stop : BOOLEAN] /\ session'.run = "none"
      BY <1>2 DEF Rest
    <2> QED BY <1>2, <2>1 DEF Rest, SessionStep
  <1>3. CASE session.run # "none" /\ session' = [run |-> "stopped", stop |-> FALSE] /\ lease' = Free
    BY <1>3, FreeTyped DEF SessionStep, StopGate, RUN_STATUS, OVER
  <1> QED BY <1>1, <1>2, <1>3 DEF LandStop

\* A write of a mission's status that the gate let through.
LEMMA ParkSession ==
  ASSUME Rest, NEW st \in RUN_STATUS \ {"none"}, session.run # "none", ~StopGate,
         session' = [session EXCEPT !.run = st], UNCHANGED lease
  PROVE  SessionStep
  BY DEF Rest, SessionStep

LEMMA GateThenParkSession ==
  ASSUME Rest, session.run # "none", GateThenPark("paused_error")
  PROVE  SessionStep
  BY LandStopSession, ParkSession DEF GateThenPark, RUN_STATUS

\* A claim flips a mission's run to running.
LEMMA StartSession ==
  ASSUME Rest, session.run \notin OVER, StartsRun,
         lease' \in [owner : Holders, live : BOOLEAN]
  PROVE  SessionStep
  BY DEF Rest, SessionStep, StartsRun, StopGate, RUN_STATUS

LEMMA TurnEndsSession ==
  ASSUME Rest, NEW t \in Chains, TurnEnds(t)
  PROVE  SessionStep
  <1>1. CASE LandStop(card') \/ UNCHANGED <<session, lease>>
    BY <1>1, LandStopSession, UnchangedSession DEF Rest
  <1>2. CASE /\ session.run = "running" /\ ~session.stop /\ UNCHANGED lease
             /\ \E st \in {"completed", "paused_wake", "paused_error"} :
                  session' = [session EXCEPT !.run = st]
    BY <1>2, ParkSession DEF StopGate, OVER, RUN_STATUS
  <1>3. CASE /\ session.run \in {"running", "none"} /\ ~session.stop /\ UNCHANGED lease
             /\ session' = [session EXCEPT !.run = IF @ = "none" THEN @ ELSE "paused_approval"]
    <2>1. CASE session.run = "none"
      <3>1. UNCHANGED session
        BY <1>3, <2>1 DEF Rest
      <3> QED BY <1>3, <3>1, UnchangedSession DEF Rest
    <2>2. CASE session.run = "running"
      <3>1. session' = [session EXCEPT !.run = "paused_approval"]
        BY <1>3, <2>2
      <3> QED BY <1>3, <2>2, <3>1, ParkSession DEF StopGate, OVER, RUN_STATUS
    <2> QED BY <1>3, <2>1, <2>2
  <1> QED BY <1>1, <1>2, <1>3 DEF TurnEnds

LEMMA ClaimSlotSession ==
  ASSUME Rest, NEW t \in Chains, ClaimSlot(t)
  PROVE  SessionStep
  <1>1. CASE UNCHANGED <<session, lease>>
    BY <1>1, UnchangedSession DEF Rest
  <1>2. CASE LandStop(card') \/ (\E rows \in {card, RejectedByStop} : LandStop(rows))
    BY <1>2, LandStopSession
  <1> QED BY <1>1, <1>2 DEF ClaimSlot

LEMMA ProceedSession ==
  ASSUME Rest, NEW t \in Chains, ChainOK(t), Proceed(t)
  PROVE  SessionStep
  <1>1. CASE UNCHANGED <<session, lease>>
    BY <1>1, UnchangedSession DEF Rest
  <1>2. CASE CommitRefusal(t) \/ Abandon(t) \/ CommitResult(t) \/ Consume(t)
    BY <1>1, <1>2 DEF CommitRefusal, Abandon, CommitResult, Consume
  <1>3. CASE Claim(t)
    <2>1. CASE session.run \in RESUMABLE_RUN /\ ~Busy(chain[t].owner)
      <3>1. chain[t].owner \in Holders
        BY DEF ChainOK, ChainRecords
      <3>4. lease' = [owner |-> chain[t].owner, live |-> TRUE]
        BY <1>3, <2>1 DEF Claim
      <3>2. lease' \in [owner : Holders, live : BOOLEAN]
        BY <3>1, <3>4
      <3>3. StartsRun
        BY <1>3, <2>1 DEF Claim
      <3> QED BY <2>1, <3>2, <3>3, StartSession DEF RESUMABLE_RUN, OVER
    <2> QED BY <1>1, <1>3, <2>1 DEF Claim
  <1>4. CASE Discard(t)
    <2>1. lease' \in [owner : Holders, live : BOOLEAN]
      BY <1>4, FreeTyped DEF Discard, Rest
    <2> QED BY <1>4, <2>1, UnchangedSession DEF Discard
  <1>5. CASE ClaimSlot(t)
    BY <1>5, ClaimSlotSession
  <1>6. CASE StopAfterDispatch(t) \/ StopSuperseded(t)
    BY <1>1, <1>6, LandStopSession DEF StopAfterDispatch, StopSuperseded
  <1>9. CASE BeginResume(t)
    <2>1. CASE session.run \notin OVER /\ StartsRun /\ UNCHANGED lease
      BY <2>1, StartSession DEF Rest
    <2> QED BY <1>1, <1>9, <2>1, LandStopSession DEF BeginResume
  <1>7. CASE Fail(t)
    BY <1>1, <1>7, LandStopSession, GateThenParkSession DEF Fail
  <1>8. CASE EndTurn(t)
    BY <1>8, TurnEndsSession DEF EndTurn
  <1> QED BY <1>2, <1>3, <1>4, <1>5, <1>6, <1>7, <1>8, <1>9 DEF Proceed

LEMMA PressStopSession ==
  ASSUME Rest, PressStop
  PROVE  SessionStep
  <1>1. CASE session.run = "none"
    <2>1. PICK b \in BOOLEAN : session' = [session EXCEPT !.stop = b]
      BY <1>1 DEF PressStop, LeaseTaken
    <2> QED BY <1>1, <2>1 DEF PressStop, Rest, SessionStep
  <1>2. CASE session.run # "none"
    <2>1. ~StopGate
      BY DEF PressStop, StopGate
    <2>2. CASE session' = [session EXCEPT !.stop = TRUE] /\ UNCHANGED lease
      BY <1>2, <2>1, <2>2 DEF Rest, SessionStep
    <2>3. CASE session' = [run |-> "stopped", stop |-> FALSE] /\ lease' = Free
      BY <1>2, <2>3, FreeTyped DEF SessionStep, StopGate, RUN_STATUS, OVER
    <2> QED BY <1>2, <2>2, <2>3 DEF PressStop
  <1> QED BY <1>1, <1>2

\* Every step keeps the session's types and the mission's closed gate.
LEMMA NextSession ==
  ASSUME Rest, ChainsOK, Next
  PROVE  SessionStep
  <1>1. CASE UNCHANGED <<session, lease>>
    BY <1>1, UnchangedSession DEF Rest
  <1>2. CASE PressStop
    BY <1>2, PressStopSession
  <1>3. CASE Expire \/ LateExpire
    BY <1>3, UnchangedSession DEF Expire, LateExpire, Expires, Rest
  <1>4. CASE Restart
    BY <1>1, <1>4 DEF Restart
  <1>5. CASE Reclaim
    BY <1>5, GateThenParkSession DEF Reclaim
  <1>6. ASSUME NEW c \in Cards, Age(c)
        PROVE  SessionStep
    BY <1>1, <1>6 DEF Age
  <1>7. ASSUME NEW t \in Chains, Proceed(t)
        PROVE  SessionStep
    BY <1>7, ProceedSession DEF ChainsOK
  <1>8. ASSUME NEW t \in Chains, Heartbeat(t)
        PROVE  SessionStep
    <2>1. lease' \in [owner : Holders, live : BOOLEAN] /\ UNCHANGED session
      BY <1>8 DEF Heartbeat, Rest
    <2> QED BY <2>1, UnchangedSession
  <1>9. ASSUME NEW t \in Chains, OtherBegins(t)
        PROVE  SessionStep
    <2>1. lease' \in [owner : Holders, live : BOOLEAN]
      BY <1>9 DEF OtherBegins, Holders
    <2>2. StartsRun
      BY <1>9 DEF OtherBegins
    <2> QED BY <1>9, <2>1, <2>2, StartSession DEF OtherBegins, OVER
  <1>10. ASSUME NEW t \in Chains, DecisionThrows(t) \/ ResumeThrows(t)
         PROVE  SessionStep
    BY <1>1, <1>10, LandStopSession, GateThenParkSession DEF DecisionThrows, ResumeThrows
  <1>11. ASSUME NEW t \in Chains, NEW c \in Cards,
                Approve(t, c) \/ Refuse(t, c) \/ Pick(t, c) \/ Judge(t, c)
         PROVE  SessionStep
    BY <1>1, <1>11 DEF Approve, Refuse, Pick, Judge
  <1> QED BY <1>2, <1>3, <1>4, <1>5, <1>6, <1>7, <1>8, <1>9, <1>10, <1>11 DEF Next

-----------------------------------------------------------------------------
(* Where a step leaves its chain.                                          *)

\* A place that a chain may go to, or stay at: the two exclusive places are
\* entered only by the step that takes the card from everyone else.
Placed(t, ch) ==
  /\ ch \in ChainRecords
  /\ ch.owner[1] = "other" => ch.pc \in {"turn", "discard"}
  /\ ch.pc = "refuse" => ch.owner[1] = "refuse"
  /\ ch.pc # "idle" /\ ch.owner[1] # "other" => ch.card \in Cards /\ Says(ch, card'[ch.card])
  /\ \/ ch.pc = chain[t].pc /\ ch.card = chain[t].card
     \/ /\ ch.pc = "refuse" => card[ch.card].st = "pending"
        /\ ch.pc \in {"dispatch", "abandon"} => card[ch.card].exec = "not_started"

LEMMA ChainMoves ==
  ASSUME CardsOK, ChainsOK, Exclusive, CardMoves, NEW t \in Chains, NEW ch,
         chain' = [chain EXCEPT ![t] = ch], Placed(t, ch)
  PROVE  ChainsOK' /\ Exclusive'
  <1>1. chain' \in [Chains -> ChainRecords] /\ chain'[t] = ch
          /\ \A u \in Chains \ {t} : chain'[u] = chain[u]
    BY DEF ChainsOK, Placed
  <1>2. ASSUME NEW u \in Chains
        PROVE  ChainOK(u)'
    <2>1. CASE u = t
      BY <1>1, <2>1 DEF Placed, ChainOK, IsOther, At, CardOf
    <2>2. CASE u # t
      <3>1. ChainOK(u) /\ chain'[u] = chain[u]
        BY <1>1, <2>2 DEF ChainsOK
      <3>2. ASSUME chain[u].pc # "idle", ~IsOther(u)
            PROVE  CardOf(u) \in Cards /\ Says(chain[u], card'[CardOf(u)])
        <4>1. CardOf(u) \in Cards /\ Says(chain[u], card[CardOf(u)])
          BY <3>1, <3>2 DEF ChainOK
        <4>2. CardOK(card[CardOf(u)]) /\ card'[CardOf(u)] \in CardRecords
                /\ QuietMove(card[CardOf(u)], card'[CardOf(u)])
          BY <4>1 DEF CardsOK, CardMoves
        <4> QED BY <4>1, <4>2, MoveKeepsSays
      <3> QED BY <3>1, <3>2 DEF ChainOK, IsOther, At, CardOf
    <2> QED BY <2>1, <2>2
  <1>3. ASSUME NEW u \in Chains, u # t, CardOf(u)' = ch.card,
               \/ At(u, "refuse")' /\ ch.pc = "refuse"
               \/ chain'[u].pc \in {"dispatch", "abandon"} /\ ch.pc \in {"dispatch", "abandon"}
        PROVE  FALSE
    <2>1. chain'[u] = chain[u] /\ ChainOK(u)
      BY <1>1, <1>3 DEF ChainsOK
    <2>2. CASE ch.pc = chain[t].pc /\ ch.card = chain[t].card
      BY <1>3, <2>1, <2>2 DEF Exclusive, At, CardOf
    <2>3. CASE ~(ch.pc = chain[t].pc /\ ch.card = chain[t].card)
      <3>1. Says(chain[u], card[ch.card])
        BY <1>3, <2>1 DEF ChainOK, IsOther, At, CardOf
      <3> QED BY <1>3, <2>1, <2>3, <3>1 DEF Placed, Says, At
    <2> QED BY <2>2, <2>3
  <1>4. Exclusive'
    <2> SUFFICES ASSUME NEW v \in Chains, NEW u \in Chains, CardOf(v)' = CardOf(u)',
                        \/ At(v, "refuse")' /\ At(u, "refuse")'
                        \/ /\ chain'[v].pc \in {"dispatch", "abandon"}
                           /\ chain'[u].pc \in {"dispatch", "abandon"}
                 PROVE  v = u
      BY DEF Exclusive
    <2>1. CASE v # t /\ u # t
      BY <1>1, <2>1 DEF Exclusive, At, CardOf
    <2>2. CASE v = t /\ u # t
      BY <1>1, <1>3, <2>2 DEF At, CardOf
    <2>3. CASE v # t /\ u = t
      BY <1>1, <1>3, <2>3 DEF At, CardOf
    <2> QED BY <2>1, <2>2, <2>3
  <1> QED BY <1>1, <1>2, <1>4 DEF ChainsOK

\* What is in the transcript stays there.
LEMMA ToldStays ==
  ASSUME CardsOK, CardMoves, NEW c \in Cards, card[c].told = 1
  PROVE  card'[c].told = 1
  BY DEF CardsOK, CardMoves, CardOK, CardRecords, QuietMove

\* A step to a place that says nothing of the card but that it has its result.
LEMMA PlainStep ==
  ASSUME CardsOK, ChainsOK, Exclusive, CardMoves, NEW t \in Chains,
         NEW pc \in {"failing", "superseded", "discard", "settle", "resume", "turn", "consume"},
         chain[t].pc # "idle", Step(t, pc), IsOther(t) => pc = "discard",
         pc \in {"settle", "resume", "turn", "consume"} => card'[CardOf(t)].told = 1
  PROVE  ChainsOK' /\ Exclusive'
  <1> DEFINE ch == [chain[t] EXCEPT !.pc = pc]
  <1>1. chain[t] \in ChainRecords /\ ChainOK(t)
    BY DEF ChainsOK
  <1>2. ch \in ChainRecords /\ ch.pc = pc /\ ch.card = chain[t].card /\ ch.owner = chain[t].owner
    BY <1>1 DEF ChainRecords, ChainPCs
  <1>3. chain' = [chain EXCEPT ![t] = ch]
    BY DEF Step
  <1> HIDE DEF ch
  <1>4. ch.owner[1] # "other" => ch.card \in Cards /\ Says(ch, card'[ch.card])
    BY <1>1, <1>2 DEF ChainOK, IsOther, CardOf, Says
  <1>5. Placed(t, ch)
    BY <1>2, <1>4 DEF Placed, IsOther
  <1> QED BY <1>3, <1>5, ChainMoves

\* A chain that leaves.
LEMMA LeaveStep ==
  ASSUME CardsOK, ChainsOK, Exclusive, CardMoves, NEW t \in Chains, Leave(t)
  PROVE  ChainsOK' /\ Exclusive'
  <1>1. IdleChain \in ChainRecords /\ IdleChain.pc = "idle" /\ IdleChain.owner[1] = "nobody"
    BY DEF IdleChain, ChainRecords, ChainPCs, Holders, NoHolder
  <1>2. Placed(t, IdleChain)
    BY <1>1 DEF Placed
  <1> QED BY <1>2, ChainMoves DEF Leave

\* A chain that an operator or a pass starts.
LEMMA OpenStep ==
  ASSUME CardsOK, ChainsOK, Exclusive, CardMoves, NEW t \in Chains, NEW c \in Cards,
         NEW pc \in {"refuse", "claim"}, NEW kind \in {"approve", "refuse", "resume"},
         Open(t, pc, c, kind),
         pc = "refuse" => kind = "refuse" /\ card[c].st = "pending"
                            /\ card'[c].st = "rejected" /\ card'[c].told = 0,
         pc = "claim" => IF kind = "approve" THEN card'[c].st = "approved" ELSE card'[c].told = 1
  PROVE  ChainsOK' /\ Exclusive'
  <1> DEFINE ch == [pc |-> pc, card |-> c, owner |-> <<kind, c>>, held |-> FALSE]
  <1>1. ch \in ChainRecords
    BY DEF ChainRecords, ChainPCs, Holders
  <1>2. ch.pc = pc /\ ch.card = c /\ ch.owner[1] = kind
    OBVIOUS
  <1>3. chain' = [chain EXCEPT ![t] = ch]
    BY DEF Open
  <1> HIDE DEF ch
  <1>4. Says(ch, card'[c])
    BY <1>2 DEF Says
  <1>5. Placed(t, ch)
    BY <1>1, <1>2, <1>4 DEF Placed
  <1> QED BY <1>3, <1>5, ChainMoves

\* claimResumeContinuation: the chain goes to its slot or its resume, or leaves.
LEMMA ClaimChains ==
  ASSUME CardsOK, ChainsOK, Exclusive, CardMoves, NEW t \in Chains, Claim(t)
  PROVE  ChainsOK' /\ Exclusive'
  <1>1. /\ At(t, "claim") /\ ~IsOther(t) /\ chain[t] \in ChainRecords /\ chain[t].pc # "idle"
        /\ CardOf(t) \in Cards /\ Says(chain[t], card[CardOf(t)])
    BY DEF Claim, ChainsOK, ChainOK, At
  <1>2. CASE Leave(t)
    BY <1>2, LeaveStep
  <1>3. CASE Step(t, "failing")
    BY <1>1, <1>3, PlainStep
  <1>4. CASE chain' = [chain EXCEPT ![t].pc = AfterClaim(t), ![t].held = TRUE]
    <2> DEFINE ch == [chain[t] EXCEPT !.pc = AfterClaim(t), !.held = TRUE]
    <2>1. chain' = [chain EXCEPT ![t] = ch]
      BY <1>4
    <2>2. AfterClaim(t) \in {"slot", "resume"}
            /\ (AfterClaim(t) = "slot" <=> chain[t].owner[1] = "approve")
      BY DEF AfterClaim
    <2>3. ch \in ChainRecords /\ ch.pc = AfterClaim(t) /\ ch.card = CardOf(t)
            /\ ch.owner = chain[t].owner
      BY <1>1, <2>2 DEF ChainRecords, ChainPCs, CardOf
    <2> HIDE DEF ch
    <2>4. card[CardOf(t)].st = "approved" => card'[CardOf(t)].st = "approved"
      BY <1>1 DEF CardMoves, QuietMove
    <2>5. Says(ch, card'[CardOf(t)])
      BY <1>1, <2>2, <2>3, <2>4, ToldStays DEF Says, At
    <2>6. Placed(t, ch)
      BY <1>1, <2>2, <2>3, <2>5 DEF Placed, IsOther
    <2> QED BY <2>1, <2>6, ChainMoves
  <1> QED BY <1>2, <1>3, <1>4 DEF Claim

\* claimDispatchSlotUnderStopGate: at most one chain leaves it for the dispatch.
LEMMA ClaimSlotChains ==
  ASSUME CardsOK, ChainsOK, Exclusive, CardMoves, NEW t \in Chains, ClaimSlot(t)
  PROVE  ChainsOK' /\ Exclusive'
  <1> DEFINE c == CardOf(t)
  <1>1. /\ At(t, "slot") /\ ~IsOther(t) /\ chain[t] \in ChainRecords /\ chain[t].pc # "idle"
        /\ c \in Cards /\ Says(chain[t], card[c])
    BY DEF ClaimSlot, ChainsOK, ChainOK, At
  <1>2. CASE Step(t, "discard")
    BY <1>1, <1>2, PlainStep
  <1>3. ASSUME NEW pc \in {"dispatch", "abandon"}, Step(t, pc), SlotFree(c),
               card'[c].exec = "dispatching"
        PROVE  ChainsOK' /\ Exclusive'
    <2> DEFINE ch == [chain[t] EXCEPT !.pc = pc]
    <2>1. chain' = [chain EXCEPT ![t] = ch]
      BY <1>3 DEF Step
    <2>2. ch \in ChainRecords /\ ch.pc = pc /\ ch.card = c /\ ch.owner = chain[t].owner
      BY <1>1, <1>3 DEF ChainRecords, ChainPCs, CardOf
    <2> HIDE DEF ch
    <2>3. card[c].st = "approved"
      BY <1>1 DEF Says, At
    <2>4. card'[c].st = "approved"
      BY <1>1, <2>3 DEF CardMoves, QuietMove
    <2>5. Says(ch, card'[c])
      BY <1>3, <2>2, <2>4 DEF Says
    <2>6. Placed(t, ch)
      BY <1>1, <1>3, <2>2, <2>5 DEF Placed, IsOther, SlotFree
    <2> QED BY <2>1, <2>6, ChainMoves
  <1>4. ASSUME NEW rows \in {card, RejectedByStop}, card' = TakeSlot(c, rows)
        PROVE  card'[c].exec = "dispatching"
    <2>1. rows \in [Cards -> CardRecords]
      BY <1>4, RejectedRow DEF CardsOK, RejectedByStop
    <2>2. card'[c] = [rows[c] EXCEPT !.exec = "dispatching", !.stale = FALSE]
      BY <1>1, <1>4, <2>1 DEF TakeSlot
    <2>3. rows[c] \in CardRecords
      BY <1>1, <2>1
    <2> QED BY <2>2, <2>3 DEF CardRecords
  <1>5. ASSUME NEW calls \in {0, 1}, card' = [TakeSlot(c, card) EXCEPT ![c].ran = @ + calls]
        PROVE  card'[c].exec = "dispatching"
    <2>1. card \in [Cards -> CardRecords] /\ card[c] \in CardRecords
      BY <1>1 DEF CardsOK
    <2>2. card'[c] = [card[c] EXCEPT !.exec = "dispatching", !.stale = FALSE, !.ran = @ + calls]
      BY <1>1, <1>5, <2>1 DEF TakeSlot
    <2> QED BY <2>1, <2>2 DEF CardRecords
  <1> QED BY <1>2, <1>3, <1>4, <1>5 DEF ClaimSlot

\* The answer to a refusal: it is the one chain at that place of the card, and
\* nothing else any chain relies on changes.
LEMMA CommitRefusalStep ==
  ASSUME CardsOK, ChainsOK, Exclusive, NEW t \in Chains, CommitRefusal(t)
  PROVE  /\ ChainsOK' /\ Exclusive'
         /\ card' \in [Cards -> CardRecords]
         /\ \A c \in Cards : QuietMove(card[c], card'[c]) \/ AnswersRefusal(card[c], card'[c])
         /\ \A c \in Cards : card'[c].barred = card[c].barred /\ card'[c].ran = card[c].ran
  <1> DEFINE c == CardOf(t)
             r2 == [card[c] EXCEPT !.told = @ + 1]
             ch == [chain[t] EXCEPT !.pc = "claim"]
  <1>1. /\ chain[t].pc = "refuse" /\ chain[t].owner[1] = "refuse" /\ chain[t] \in ChainRecords
        /\ c \in Cards /\ card[c].st = "rejected" /\ card[c].told = 0
        /\ card[c] \in CardRecords /\ CardOK(card[c])
    BY DEF CommitRefusal, ChainsOK, ChainOK, CardsOK, At, IsOther, Says
  <1>2. r2 = [card[c] EXCEPT !.told = 1]
    BY <1>1
  <1>3. r2 \in CardRecords /\ AnswersRefusal(card[c], r2)
          /\ r2.barred = card[c].barred /\ r2.ran = card[c].ran
    BY <1>1, <1>2 DEF CardRecords, AnswersRefusal
  <1>4. card' = [card EXCEPT ![c] = r2]
    BY DEF CommitRefusal, Put
  <1>5. chain' = [chain EXCEPT ![t] = ch]
    BY DEF CommitRefusal, Step
  <1>6. ch \in ChainRecords /\ ch.pc = "claim" /\ ch.card = c /\ ch.owner = chain[t].owner
    BY <1>1 DEF ChainRecords, ChainPCs, CardOf
  <1> HIDE DEF r2, ch
  <1>7. card' \in [Cards -> CardRecords] /\ card'[c] = r2
          /\ \A d \in Cards \ {c} : card'[d] = card[d]
    BY <1>1, <1>3, <1>4 DEF CardsOK
  <1>8. \A d \in Cards : /\ QuietMove(card[d], card'[d]) \/ AnswersRefusal(card[d], card'[d])
                        /\ card'[d].barred = card[d].barred /\ card'[d].ran = card[d].ran
    BY <1>3, <1>7 DEF QuietMove
  <1>9. chain' \in [Chains -> ChainRecords] /\ chain'[t] = ch
          /\ \A u \in Chains \ {t} : chain'[u] = chain[u]
    BY <1>5, <1>6 DEF ChainsOK
  <1>10. ASSUME NEW u \in Chains
         PROVE  ChainOK(u)'
    <2>1. CASE u = t
      <3>1. Says(ch, r2)
        BY <1>1, <1>3, <1>6 DEF Says, AnswersRefusal
      <3> QED BY <1>1, <1>6, <1>7, <1>9, <2>1, <3>1 DEF ChainOK, IsOther, At, CardOf
    <2>2. CASE u # t
      <3>1. chain'[u] = chain[u] /\ ChainOK(u)
        BY <1>9, <2>2 DEF ChainsOK
      <3>2. ASSUME chain[u].pc # "idle", ~IsOther(u)
            PROVE  Says(chain[u], card'[CardOf(u)])
        <4>1. CardOf(u) \in Cards /\ Says(chain[u], card[CardOf(u)])
          BY <3>1, <3>2 DEF ChainOK
        <4>2. CASE CardOf(u) # c
          BY <1>7, <4>1, <4>2
        <4>3. CASE CardOf(u) = c
          <5>1. chain[u].pc # "refuse"
            BY <1>1, <2>2, <4>3 DEF Exclusive, At
          <5> QED BY <1>1, <1>3, <1>7, <4>1, <4>3, <5>1 DEF Says, AnswersRefusal
        <4> QED BY <4>2, <4>3
      <3> QED BY <3>1, <3>2 DEF ChainOK, IsOther, At, CardOf
    <2> QED BY <2>1, <2>2
  <1>11. Exclusive'
    <2>1. \A u \in Chains : chain'[u].card = chain[u].card /\ (chain'[u].pc = chain[u].pc \/ u = t)
      BY <1>6, <1>9 DEF CardOf
    <2>2. chain'[t].pc = "claim"
      BY <1>6, <1>9
    <2> QED BY <2>1, <2>2 DEF Exclusive, At, CardOf
  <1> QED BY <1>7, <1>8, <1>9, <1>10, <1>11 DEF ChainsOK

\* Steps of a chain.
LEMMA ProceedChains ==
  ASSUME CardsOK, ChainsOK, Exclusive, CardMoves, NEW t \in Chains, Proceed(t),
         ~CommitRefusal(t)
  PROVE  ChainsOK' /\ Exclusive'
  <1> DEFINE c == CardOf(t)
  <1>1. ChainOK(t) /\ (chain[t].pc # "idle" /\ ~IsOther(t) =>
                           c \in Cards /\ CardOK(card[c]) /\ Says(chain[t], card[c]))
    BY DEF ChainsOK, ChainOK, CardsOK
  <1>2. ~IsOther(t) /\ chain[t].pc \in {"settle", "resume", "turn", "consume"} =>
          card'[c].told = 1
    BY <1>1, ToldStays DEF Says
  <1>3. CASE Claim(t)
    BY <1>3, ClaimChains
  <1>4. CASE ClaimSlot(t)
    BY <1>4, ClaimSlotChains
  <1>5. CASE Discard(t)
    BY <1>5, LeaveStep DEF Discard
  <1>6. CASE Abandon(t)
    <2>1. PICK pc \in {"discard", "superseded"} : Step(t, pc)
      BY <1>6 DEF Abandon
    <2> QED BY <1>1, <1>6, <2>1, PlainStep DEF Abandon, At, ChainOK
  <1>7. CASE CommitResult(t)
    <2>1. chain[t].pc = "dispatch" /\ ~IsOther(t) /\ c \in Cards /\ card[c].st = "approved"
            /\ CardOK(card[c])
      BY <1>1, <1>7 DEF CommitResult, At, ChainOK, Says
    <2>2. PICK pc \in {"settle", "failing", "superseded"} :
            Step(t, pc) /\ (pc = "settle" =>
              OwnsDispatch(c) /\ \E v \in FINAL_EXECUTION : Settle(c, v))
      BY <1>7 DEF CommitResult, FINAL_EXECUTION
    <2>3. ASSUME pc = "settle"
          PROVE  card'[c].told = 1
      <3>1. PICK v \in FINAL_EXECUTION : Settle(c, v)
        BY <2>2, <2>3
      <3>2. OwnsDispatch(c)
        BY <2>2, <2>3
      <3>3. card'[c] = [card[c] EXCEPT !.exec = v, !.stale = FALSE, !.told = @ + 1]
        BY <2>1, <3>1, <3>2 DEF Settle, Put, CardsOK
      <3>4. card'[c].exec = v /\ card'[c].exec # card[c].exec
        BY <2>1, <3>1, <3>2, <3>3 DEF CardOK, CardRecords, OwnsDispatch, FINAL_EXECUTION
      <3> QED BY <2>1, <3>2, <3>4 DEF CardMoves, QuietMove, OwnsDispatch
    <2> QED BY <2>1, <2>2, <2>3, PlainStep
  <1>8. CASE StopAfterDispatch(t)
    BY <1>1, <1>2, <1>8, PlainStep DEF StopAfterDispatch, At, ChainOK
  <1>9. CASE StopSuperseded(t)
    BY <1>1, <1>9, PlainStep DEF StopSuperseded, At, ChainOK
  <1>10. CASE Fail(t)
    BY <1>1, <1>10, PlainStep DEF Fail, At, ChainOK
  <1>11. CASE BeginResume(t)
    <2>1. PICK pc \in {"discard", "consume", "turn"} : Step(t, pc)
      BY <1>11 DEF BeginResume
    <2> QED BY <1>1, <1>2, <1>11, <2>1, PlainStep DEF BeginResume, At, ChainOK
  <1>12. CASE EndTurn(t)
    <2>1. PICK pc \in {"discard", "consume"} : Step(t, pc) /\ (IsOther(t) => pc = "discard")
      BY <1>12 DEF EndTurn
    <2> QED BY <1>1, <1>2, <1>12, <2>1, PlainStep DEF EndTurn, At
  <1>13. CASE Consume(t)
    BY <1>1, <1>13, PlainStep DEF Consume, At, ChainOK
  <1> QED BY <1>3, <1>4, <1>5, <1>6, <1>7, <1>8, <1>9, <1>10, <1>11, <1>12, <1>13 DEF Proceed

\* A chain that stays where it is, whatever becomes of its handle.
LEMMA StayPlaced ==
  ASSUME CardsOK, ChainsOK, CardMoves, NEW t \in Chains, NEW ch \in ChainRecords,
         ch.pc = chain[t].pc, ch.card = chain[t].card, ch.owner = chain[t].owner
  PROVE  Placed(t, ch)
  <1>1. ChainOK(t)
    BY DEF ChainsOK
  <1>2. ASSUME chain[t].pc # "idle", ~IsOther(t)
        PROVE  CardOf(t) \in Cards /\ Says(chain[t], card'[CardOf(t)])
    <2>1. CardOf(t) \in Cards /\ Says(chain[t], card[CardOf(t)])
      BY <1>1, <1>2 DEF ChainOK
    <2>2. CardOK(card[CardOf(t)]) /\ card'[CardOf(t)] \in CardRecords
            /\ QuietMove(card[CardOf(t)], card'[CardOf(t)])
      BY <2>1 DEF CardsOK, CardMoves
    <2> QED BY <2>1, <2>2, MoveKeepsSays
  <1> QED BY <1>1, <1>2 DEF Placed, ChainOK, IsOther, CardOf, At, Says

LEMMA SameChains ==
  ASSUME CardsOK, ChainsOK, Exclusive, CardMoves, UNCHANGED chain
  PROVE  ChainsOK' /\ Exclusive'
  <1>1. ASSUME NEW t \in Chains
        PROVE  ChainsOK' /\ Exclusive'
    <2>1. chain[t] \in ChainRecords /\ chain' = [chain EXCEPT ![t] = chain[t]]
      BY DEF ChainsOK
    <2> QED BY <2>1, StayPlaced, ChainMoves
  <1>2. CASE Chains = {}
    BY <1>2 DEF ChainsOK, Exclusive
  <1> QED BY <1>1, <1>2

\* Every other action.
LEMMA OthersChains ==
  ASSUME CardsOK, ChainsOK, Exclusive, CardMoves, Next, \A t \in Chains : ~Proceed(t)
  PROVE  ChainsOK' /\ Exclusive'
  <1>1. CASE UNCHANGED chain
    BY <1>1, SameChains
  <1>2. CASE PressStop \/ Expire \/ LateExpire \/ Reclaim \/ \E c \in Cards : Age(c)
    BY <1>1, <1>2 DEF PressStop, Expire, LateExpire, Expires, Reclaim, Age
  <1>3. CASE Restart
    <2>1. IdleChain \in ChainRecords /\ IdleChain.pc = "idle" /\ IdleChain.owner[1] = "nobody"
      BY DEF IdleChain, ChainRecords, ChainPCs, Holders, NoHolder
    <2>2. chain' = [t \in Chains |-> IdleChain]
      BY <1>3 DEF Restart
    <2>3. ChainsOK'
      BY <2>1, <2>2 DEF ChainsOK, ChainOK, IsOther, At
    <2>4. Exclusive'
      BY <2>1, <2>2 DEF Exclusive, At
    <2> QED BY <2>3, <2>4
  <1>4. ASSUME NEW t \in Chains, Heartbeat(t)
        PROVE  ChainsOK' /\ Exclusive'
    <2> DEFINE ch == [chain[t] EXCEPT !.held = FALSE]
    <2>1. CASE chain' = [chain EXCEPT ![t].held = FALSE]
      <3>1. chain' = [chain EXCEPT ![t] = ch]
        BY <2>1
      <3>2. ch \in ChainRecords /\ ch.pc = chain[t].pc /\ ch.card = chain[t].card
              /\ ch.owner = chain[t].owner
        BY DEF ChainsOK, ChainRecords
      <3> HIDE DEF ch
      <3> QED BY <3>1, <3>2, StayPlaced, ChainMoves
    <2> QED BY <1>1, <1>4, <2>1 DEF Heartbeat
  <1>5. ASSUME NEW t \in Chains, OtherBegins(t)
        PROVE  ChainsOK' /\ Exclusive'
    <2> DEFINE ch == [pc |-> "turn", card |-> NoCard, owner |-> <<"other", t>>, held |-> TRUE]
    <2>1. ch \in ChainRecords
      BY <1>5 DEF OtherBegins, ChainRecords, ChainPCs, Holders
    <2>2. ch.pc = "turn" /\ ch.owner[1] = "other"
      OBVIOUS
    <2>3. chain' = [chain EXCEPT ![t] = ch]
      BY <1>5 DEF OtherBegins
    <2> HIDE DEF ch
    <2>4. Placed(t, ch)
      BY <2>1, <2>2 DEF Placed
    <2> QED BY <2>3, <2>4, ChainMoves
  <1>6. ASSUME NEW t \in Chains, DecisionThrows(t)
        PROVE  ChainsOK' /\ Exclusive'
    <2>1. ~IsOther(t)
      BY <1>6 DEF DecisionThrows, ChainsOK, ChainOK
    <2> QED BY <1>6, <2>1, PlainStep DEF DecisionThrows
  <1>7. ASSUME NEW t \in Chains, ResumeThrows(t)
        PROVE  ChainsOK' /\ Exclusive'
    <2>1. chain[t].pc # "idle" /\ Step(t, "discard")
      BY <1>7 DEF ResumeThrows, At
    <2> QED BY <2>1, PlainStep
  <1>8. ASSUME NEW t \in Chains, NEW c \in Cards, Approve(t, c)
        PROVE  ChainsOK' /\ Exclusive'
    <2>1. card'[c].st = "approved"
      BY <1>8 DEF Approve, Put, CardsOK, CardRecords
    <2> QED BY <1>8, <2>1, OpenStep DEF Approve
  <1>9. ASSUME NEW t \in Chains, NEW c \in Cards, Refuse(t, c)
        PROVE  ChainsOK' /\ Exclusive'
    <2>1. card[c] \in CardRecords /\ card[c].st = "pending" /\ card[c].told = 0
      BY <1>9 DEF Refuse, CardsOK, CardOK
    <2>2. card'[c] = [card[c] EXCEPT !.st = "rejected"]
      BY <1>9 DEF Refuse, Put, CardsOK
    <2>3. card'[c].st = "rejected" /\ card'[c].told = 0
      BY <2>1, <2>2 DEF CardRecords
    <2> QED BY <1>9, <2>1, <2>3, OpenStep DEF Refuse
  <1>10. ASSUME NEW t \in Chains, NEW c \in Cards, Pick(t, c)
         PROVE  ChainsOK' /\ Exclusive'
    <2>1. card' = card /\ card[c].told \in {0, 1}
      BY <1>10 DEF Pick, CardsOK, CardRecords
    <2>2. CASE Resumable(card[c]) /\ Open(t, "claim", c, "resume")
      <3>1. card'[c].told = 1
        BY <2>1, <2>2 DEF Resumable
      <3> QED BY <2>2, <3>1, OpenStep
    <2>3. CASE Undispatched(card[c]) /\ Open(t, "claim", c, "approve")
      <3>1. card'[c].st = "approved"
        BY <2>1, <2>3 DEF Undispatched
      <3> QED BY <2>3, <3>1, OpenStep
    <2> QED BY <1>10, <2>2, <2>3 DEF Pick
  <1>11. ASSUME NEW t \in Chains, NEW c \in Cards, Judge(t, c)
         PROVE  ChainsOK' /\ Exclusive'
    <2>1. card[c] \in CardRecords /\ card[c].told = 0
      BY <1>11 DEF Judge, Abandoned, Dispatching, CardsOK, CardOK, CardRecords, FINAL_EXECUTION
    <2>2. card'[c] = [card[c] EXCEPT !.exec = "indeterminate", !.stale = FALSE, !.told = @ + 1]
      BY <1>11 DEF Judge, Put, CardsOK
    <2>3. card'[c].told = card[c].told + 1
      BY <2>1, <2>2 DEF CardRecords
    <2>4. card'[c].told = 1
      BY <2>1, <2>3
    <2> QED BY <1>11, <2>4, OpenStep DEF Judge
  <1> QED BY <1>2, <1>3, <1>4, <1>5, <1>6, <1>7, <1>8, <1>9, <1>10, <1>11 DEF Next

-----------------------------------------------------------------------------
(* The inductive invariant.                                                *)

LEMMA Initial == Init => IInv
  <1> SUFFICES ASSUME Init PROVE IInv
    OBVIOUS
  <1>1. ASSUME NEW st \in {"absent", "pending"}
        PROVE  CardOK(NewCard(st)) /\ NewCard(st).barred = FALSE
    BY DEF NewCard, CardOK, CardRecords, FINAL_EXECUTION
  <1>2. CardsOK /\ \A c \in Cards : card[c].barred = FALSE
    BY <1>1 DEF Init, CardsOK, CardOK
  <1>3. IdleChain \in ChainRecords /\ IdleChain.pc = "idle" /\ IdleChain.owner[1] = "nobody"
    BY DEF IdleChain, ChainRecords, ChainPCs, Holders, NoHolder
  <1>4. ChainsOK /\ Exclusive
    BY <1>3 DEF Init, ChainsOK, ChainOK, Exclusive, IsOther, At
  <1>5. Barrier
    BY <1>2 DEF Barrier
  <1>6. session \in [run : RUN_STATUS, stop : BOOLEAN]
    BY DEF Init, RUN_STATUS
  <1>7. trouble \in 0..MaxTrouble
    BY DispatchConstants DEF Init
  <1> QED BY <1>2, <1>4, <1>5, <1>6, <1>7, FreeTyped DEF IInv, Rest, Init

\* The bound on trouble only falls.
LEMMA TroubleStep ==
  ASSUME Rest, Next
  PROVE  trouble' \in 0..MaxTrouble
  <1>1. ASSUME NEW t \in Chains, Proceed(t)
        PROVE  UNCHANGED trouble
    <2>1. CommitRefusal(t) \/ Claim(t) \/ Discard(t) => UNCHANGED trouble
      BY DEF CommitRefusal, Claim, Discard
    <2>2. ClaimSlot(t) => UNCHANGED trouble
      BY DEF ClaimSlot
    <2>3. Abandon(t) \/ CommitResult(t) => UNCHANGED trouble
      BY DEF Abandon, CommitResult
    <2>4. StopAfterDispatch(t) \/ StopSuperseded(t) => UNCHANGED trouble
      BY DEF StopAfterDispatch, StopSuperseded
    <2>5. Fail(t) \/ BeginResume(t) => UNCHANGED trouble
      BY DEF Fail, BeginResume
    <2>6. EndTurn(t) \/ Consume(t) => UNCHANGED trouble
      BY DEF EndTurn, Consume
    <2> QED BY <1>1, <2>1, <2>2, <2>3, <2>4, <2>5, <2>6 DEF Proceed
  <1>2. PressStop \/ Expire => UNCHANGED trouble
    BY DEF PressStop, Expire
  <1>3. (Reclaim \/ \E c \in Cards : Age(c)) => UNCHANGED trouble
    BY DEF Reclaim, Age
  <1>4. LateExpire \/ Restart => Troubled
    BY DEF LateExpire, Restart
  <1>5. ASSUME NEW t \in Chains, Heartbeat(t)
        PROVE  UNCHANGED trouble
    BY <1>5 DEF Heartbeat
  <1>6. ASSUME NEW t \in Chains, OtherBegins(t) \/ DecisionThrows(t) \/ ResumeThrows(t)
        PROVE  Troubled
    BY <1>6 DEF OtherBegins, DecisionThrows, ResumeThrows
  <1>7. ASSUME NEW t \in Chains, NEW c \in Cards,
               Approve(t, c) \/ Refuse(t, c) \/ Pick(t, c) \/ Judge(t, c)
        PROVE  UNCHANGED trouble
    BY <1>7 DEF Approve, Refuse, Pick, Judge
  <1>8. UNCHANGED trouble \/ Troubled
    BY <1>1, <1>2, <1>3, <1>4, <1>5, <1>6, <1>7 DEF Next
  <1> QED BY <1>8, DispatchConstants DEF Rest, Troubled

\* How any step moves the cards.
LEMMA NextCards ==
  ASSUME IInv, Next
  PROVE  /\ card' \in [Cards -> CardRecords]
         /\ \A c \in Cards :
              /\ QuietMove(card[c], card'[c]) \/ AnswersRefusal(card[c], card'[c])
              /\ card'[c].barred => card[c].barred \/ card'[c].st = "approved"
  <1>1. CASE PressStop
    BY <1>1, PressStopCards DEF IInv, CardMoves
  <1>2. ASSUME NEW t \in Chains, CommitRefusal(t)
        PROVE  /\ card' \in [Cards -> CardRecords]
               /\ \A c \in Cards :
                    /\ QuietMove(card[c], card'[c]) \/ AnswersRefusal(card[c], card'[c])
                    /\ card'[c].barred = card[c].barred
    BY <1>2, CommitRefusalStep DEF IInv
  <1>3. ASSUME NEW t \in Chains, Proceed(t), ~CommitRefusal(t)
        PROVE  CardStep
    BY <1>3, ProceedCards DEF IInv, ChainsOK
  <1>4. CASE ~PressStop /\ \A t \in Chains : ~Proceed(t)
    BY <1>4, OthersCards DEF IInv, CardStep, CardMoves
  <1> QED BY <1>1, <1>2, <1>3, <1>4 DEF CardStep, CardMoves

LEMMA NextChains ==
  ASSUME IInv, Next
  PROVE  ChainsOK' /\ Exclusive'
  <1>1. ASSUME NEW t \in Chains, CommitRefusal(t)
        PROVE  ChainsOK' /\ Exclusive'
    BY <1>1, CommitRefusalStep DEF IInv
  <1>2. ASSUME NEW t \in Chains, Proceed(t), ~CommitRefusal(t)
        PROVE  ChainsOK' /\ Exclusive'
    BY <1>2, ProceedCards, ProceedChains DEF IInv, ChainsOK, CardStep
  <1>3. CASE \A t \in Chains : ~Proceed(t)
    <2>1. CardMoves
      BY <1>3, PressStopCards, OthersCards DEF IInv, CardStep
    <2> QED BY <1>3, <2>1, OthersChains DEF IInv
  <1> QED BY <1>1, <1>2, <1>3

\* A barred card of a mission is not run: the gate is closed and stays closed.
LEMMA NextBarrier ==
  ASSUME IInv, Next
  PROVE  Barrier'
  <1>1. SessionStep
    BY NextSession DEF IInv
  <1> SUFFICES ASSUME session'.run # "none", NEW c \in Cards, card'[c].barred
               PROVE  StopGate' /\ card'[c].ran = 0
    BY DEF Barrier
  <1>2. session.run # "none"
    BY <1>1 DEF SessionStep
  <1>3. CASE PressStop
    <2>1. StopGate'
      BY <1>2, <1>3 DEF PressStop, StopGate, OVER, IInv, Rest
    <2>2. CardOK(card[c])
      BY DEF IInv, CardsOK
    <2>3. card'[c].ran = card[c].ran
      BY <1>3, PressStopCards DEF IInv
    <2>4. ~card[c].barred
      BY <1>2, <1>3 DEF IInv, Barrier, PressStop, StopGate
    <2>5. card'[c].st = "approved" /\ card'[c].exec = "not_started"
      BY <1>3, <2>4, PressStopCards DEF IInv
    <2>6. QuietMove(card[c], card'[c])
      BY <1>3, PressStopCards DEF IInv, CardMoves
    <2>7. card[c].exec = "not_started"
      BY <2>5, <2>6 DEF QuietMove, FINAL_EXECUTION
    <2> QED BY <2>1, <2>2, <2>3, <2>7 DEF CardOK
  <1>4. CASE card'[c].barred = card[c].barred /\ (StopGate => card'[c].ran = card[c].ran)
    <2>1. StopGate /\ card[c].ran = 0
      BY <1>2, <1>4 DEF IInv, Barrier
    <2> QED BY <1>1, <1>2, <1>4, <2>1 DEF SessionStep
  <1>5. ASSUME NEW t \in Chains, CommitRefusal(t)
        PROVE  card'[c].barred = card[c].barred /\ card'[c].ran = card[c].ran
    BY <1>5, CommitRefusalStep DEF IInv
  <1>6. ASSUME NEW t \in Chains, Proceed(t), ~CommitRefusal(t)
        PROVE  CardStep
    BY <1>6, ProceedCards DEF IInv, ChainsOK
  <1>7. CASE ~PressStop /\ \A t \in Chains : ~Proceed(t)
    <2>1. CardStep
      BY <1>7, OthersCards DEF IInv
    <2> QED BY <1>4, <2>1 DEF CardStep
  <1> QED BY <1>3, <1>4, <1>5, <1>6, <1>7 DEF CardStep

LEMMA Inductive == IInv /\ [Next]_dispatchVars => IInv'
  <1> SUFFICES ASSUME IInv, [Next]_dispatchVars PROVE IInv'
    OBVIOUS
  <1>1. CASE Next
    <2>1. CardsOK'
      BY <1>1, NextCards, MoveKeepsCardOK DEF IInv, CardsOK
    <2>2. Rest'
      BY <1>1, NextSession, TroubleStep DEF IInv, Rest, SessionStep
    <2> QED BY <1>1, <2>1, <2>2, NextChains, NextBarrier DEF IInv
  <1>2. CASE UNCHANGED dispatchVars
    <2>1. CardsOK' /\ Rest' /\ Barrier'
      BY <1>2 DEF dispatchVars, IInv, CardsOK, Rest, Barrier, StopGate
    <2>2. ChainsOK' /\ Exclusive'
      BY <1>2 DEF dispatchVars, IInv, ChainsOK, ChainOK, Exclusive, IsOther, At, CardOf
    <2> QED BY <2>1, <2>2 DEF IInv
  <1> QED BY <1>1, <1>2

LEMMA Invariant == Spec => []IInv
  BY Initial, Inductive, PTL DEF Spec

-----------------------------------------------------------------------------
(* The theorems.                                                           *)

\* Every row and chain keeps its type; in particular no sequence of approvals,
\* passes, crashes and late answers appends two results to one card or calls its
\* tool twice (casMarkDispatchingWith, commitExecutionResultWith).
THEOREM DispatchTyped == Spec => []DispatchTypeOK
  <1>1. IInv => DispatchTypeOK
    BY DEF IInv, CardsOK, ChainsOK, Rest, RUN_STATUS, OVER, DispatchTypeOK
  <1> QED BY <1>1, Invariant, PTL

\* Two chains are never inside the dispatch of one approval, although the lease
\* they both claimed is re-entrant (claimDispatchSlotUnderStopGate).
THEOREM DispatchExclusive == Spec => []OneDispatcher
  <1>1. IInv => OneDispatcher
    BY DEF IInv, Exclusive, OneDispatcher
  <1> QED BY <1>1, Invariant, PTL

\* Nobody resumes the agent for a card that has no result in the transcript
\* (runResumeAfterDecision and the paths into it).
THEOREM ResumedWithResult == Spec => []ResumeFollowsResult
  <1>1. ASSUME IInv, NEW t \in Chains, chain[t].pc \in {"resume", "turn", "consume"}, ~IsOther(t)
        PROVE  card[CardOf(t)].told = 1
    <2>1. ChainOK(t)
      BY <1>1 DEF IInv, ChainsOK
    <2>2. Says(chain[t], card[CardOf(t)])
      BY <1>1, <2>1 DEF ChainOK
    <2> QED BY <1>1, <2>2 DEF Says
  <1>2. IInv => ResumeFollowsResult
    BY <1>1 DEF ResumeFollowsResult
  <1> QED BY <1>2, Invariant, PTL

\* A mission's approved card that no one had dispatched when Stop was accepted is
\* never dispatched (claimDispatchSlotUnderStopGate).
THEOREM MissionStopBars == Spec => []MissionStopIsABarrier
  <1>1. IInv => MissionStopIsABarrier
    BY DEF IInv, Barrier, MissionStopIsABarrier
  <1> QED BY <1>1, Invariant, PTL

-----------------------------------------------------------------------------
(* The refinement.                                                         *)

\* The moves ApprovalPromise allows, on the rows of the refinement mapping.
Raised(r, r2) ==
  PhaseOf(r) = "absent" /\ PhaseOf(r2) = "open" /\ r2.ran = r.ran /\ ResultOf(r2) = ResultOf(r)
Decided(r, r2) ==
  /\ PhaseOf(r) = "open" /\ PhaseOf(r2) \in {"refused", "granted"}
  /\ r2.ran = r.ran /\ ResultOf(r2) = ResultOf(r)
Dispatched(r, r2) ==
  /\ PhaseOf(r) = "granted" /\ PhaseOf(r2) = "executing"
  /\ r2.ran \in {0, 1} /\ ResultOf(r2) = ResultOf(r)
Answered(r, r2) ==
  /\ ResultOf(r) = "none" /\ ResultOf(r2) = "posted" /\ r2.ran = r.ran
  /\ \/ PhaseOf(r) = "executing" /\ PhaseOf(r2) = "settled"
     \/ PhaseOf(r) = "refused" /\ PhaseOf(r2) = "refused"
Observed(r, r2) ==
  /\ ResultOf(r) = "posted" /\ ResultOf(r2) = "observed"
  /\ PhaseOf(r2) = PhaseOf(r) /\ r2.ran = r.ran
Same(r, r2) ==
  PhaseOf(r2) = PhaseOf(r) /\ r2.ran = r.ran /\ ResultOf(r2) = ResultOf(r)

\* Every move of a card in shape is one of them.
LEMMA MoveIsPromised ==
  ASSUME NEW r, NEW r2, CardOK(r), CardOK(r2), QuietMove(r, r2) \/ AnswersRefusal(r, r2)
  PROVE  \/ Raised(r, r2) \/ Decided(r, r2) \/ Dispatched(r, r2)
         \/ Answered(r, r2) \/ Observed(r, r2) \/ Same(r, r2)
  <1>1. /\ r.st \in {"absent", "pending", "approved", "rejected", "withdrawn"}
        /\ r.exec \in {"not_started", "dispatching", "succeeded", "failed", "indeterminate"}
        /\ r.told \in {0, 1} /\ r.consumed \in BOOLEAN /\ r.ran \in {0, 1}
    BY DEF CardOK, CardRecords, FINAL_EXECUTION
  <1>2. /\ r2.st \in {"absent", "pending", "approved", "rejected", "withdrawn"}
        /\ r2.exec \in {"not_started", "dispatching", "succeeded", "failed", "indeterminate"}
        /\ r2.told \in {0, 1} /\ r2.consumed \in BOOLEAN /\ r2.ran \in {0, 1}
    BY DEF CardOK, CardRecords, FINAL_EXECUTION
  <1>3. ResultOf(r) = "none" <=> r.told = 0
    BY <1>1 DEF CardOK, ResultOf
  <1>4. CASE r2.st = r.st /\ r2.exec = r.exec /\ r2.told = r.told /\ r2.consumed = r.consumed
             /\ r2.ran = r.ran
    BY <1>4 DEF Same, PhaseOf, ResultOf
  <1>5. CASE /\ r.st = "absent" /\ r2.st = "pending"
             /\ r2.exec = r.exec /\ r2.told = r.told /\ r2.consumed = r.consumed /\ r2.ran = r.ran
    BY <1>5 DEF Raised, PhaseOf, ResultOf
  <1>6. CASE /\ r.st = "pending" /\ r2.st \in {"approved", "rejected", "withdrawn"}
             /\ r2.exec = r.exec /\ r2.told = r.told /\ r2.consumed = r.consumed /\ r2.ran = r.ran
    <2>1. r.exec = "not_started"
      BY <1>6 DEF CardOK
    <2> QED BY <1>6, <2>1 DEF Decided, PhaseOf, ResultOf
  <1>7. CASE /\ r.st = "approved" /\ r2.st = r.st
             /\ r.exec = "not_started" /\ r2.exec = "dispatching"
             /\ r2.told = r.told /\ r2.consumed = r.consumed
    BY <1>2, <1>7 DEF Dispatched, PhaseOf, ResultOf
  <1>8. CASE /\ r.st = "approved" /\ r2.st = r.st
             /\ r.exec = "dispatching" /\ r2.exec \in FINAL_EXECUTION
             /\ r.told = 0 /\ r2.told = 1 /\ r2.consumed = r.consumed /\ r2.ran = r.ran
    <2>1. ~r.consumed /\ ~r2.consumed
      BY <1>8 DEF CardOK
    <2>2. ResultOf(r) = "none" /\ ResultOf(r2) = "posted"
      BY <1>8, <2>1 DEF ResultOf
    <2>3. PhaseOf(r) = "executing" /\ PhaseOf(r2) = "settled"
      BY <1>8 DEF PhaseOf, FINAL_EXECUTION
    <2> QED BY <1>8, <2>2, <2>3 DEF Answered
  <1>9. CASE /\ r.told = 1 /\ ~r.consumed /\ r2.consumed
             /\ r2.st = r.st /\ r2.exec = r.exec /\ r2.told = r.told /\ r2.ran = r.ran
    <2>1. ResultOf(r) = "posted" /\ ResultOf(r2) = "observed"
      BY <1>9 DEF ResultOf
    <2>2. PhaseOf(r2) = PhaseOf(r)
      BY <1>9 DEF PhaseOf
    <2> QED BY <1>9, <2>1, <2>2 DEF Observed
  <1>10. CASE AnswersRefusal(r, r2)
    <2>1. ~r.consumed /\ ~r2.consumed
      BY <1>10 DEF AnswersRefusal, CardOK
    <2>2. ResultOf(r) = "none" /\ ResultOf(r2) = "posted"
      BY <1>10, <2>1 DEF AnswersRefusal, ResultOf
    <2>3. PhaseOf(r) = "refused" /\ PhaseOf(r2) = "refused"
      BY <1>10 DEF AnswersRefusal, PhaseOf
    <2> QED BY <1>10, <2>2, <2>3 DEF AnswersRefusal, Answered
  <1> QED BY <1>4, <1>5, <1>6, <1>7, <1>8, <1>9, <1>10 DEF QuietMove

LEMMA PromisedInit == Init => Promise!Init
  <1> SUFFICES ASSUME Init PROVE Promise!Init
    OBVIOUS
  <1>1. ASSUME NEW c \in Cards
        PROVE  /\ PhaseOf(card[c]) \in {"absent", "open"}
               /\ card[c].ran = 0
               /\ ResultOf(card[c]) = "none"
    <2>1. card[c] = NewCard("absent") \/ card[c] = NewCard("pending")
      BY DEF Init
    <2> QED BY <2>1 DEF NewCard, PhaseOf, ResultOf
  <1> QED BY <1>1 DEF Promise!Init

LEMMA PromisedNext == IInv /\ [Next]_dispatchVars => [Promise!Next]_(Promise!promiseVars)
  <1> SUFFICES ASSUME IInv, [Next]_dispatchVars PROVE [Promise!Next]_(Promise!promiseVars)
    OBVIOUS
  <1>1. CASE UNCHANGED dispatchVars
    BY <1>1 DEF dispatchVars, Promise!promiseVars
  <1>2. CASE Next
    <2>1. ASSUME NEW c \in Cards
          PROVE  \/ Raised(card[c], card'[c]) \/ Decided(card[c], card'[c])
                 \/ Dispatched(card[c], card'[c]) \/ Answered(card[c], card'[c])
                 \/ Observed(card[c], card'[c]) \/ Same(card[c], card'[c])
      <3>1. CardOK(card[c]) /\ CardOK(card'[c])
        BY Inductive, <1>2 DEF IInv, CardsOK
      <3>2. QuietMove(card[c], card'[c]) \/ AnswersRefusal(card[c], card'[c])
        BY <1>2, NextCards
      <3> QED BY <3>1, <3>2, MoveIsPromised
    <2> QED BY <2>1 DEF Promise!Next, Promise!Raise, Promise!Decide, Promise!Dispatch, Promise!Answer,
                        Promise!Observe, Promise!Untouched, Promise!Keeps,
                        Raised, Decided, Dispatched, Answered, Observed, Same
  <1> QED BY <1>1, <1>2

\* Whatever the chains, passes, stops and crashes do, each card goes the way
\* ApprovalPromise allows: decided once, called at most once and only out of the
\* dispatch its approval led to, one verdict with one message, observed for good.
THEOREM DispatchKeepsPromise == Spec => KeepsPromise
  <1>1. Spec => []IInv
    BY Invariant
  <1> QED BY <1>1, PromisedInit, PromisedNext, PTL DEF Spec, KeepsPromise, Promise!Spec

=============================================================================
