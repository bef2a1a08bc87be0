--------------------------- MODULE BookingProofs ----------------------------
(***************************************************************************)
(* Booking, for every set of users, reservations, sessions and goroutines  *)
(* and every number of faults, restarts and redeploys: type correctness,   *)
(* and the safety invariants that the run booking_safety checks.           *)
(***************************************************************************)
EXTENDS Booking, TablesTheorems, TLAPS

\* A request that starts, or goes on, with next.
LEMMA ContinueReq ==
  ASSUME IsTable(req, Handlers, Request), NEW h \in Handlers, NEW next \in Request,
         Continue(h, next)
  PROVE  /\ IsTable(req', Handlers, Request)
         /\ DOMAIN req' = DOMAIN req \cup {h}
         /\ req'[h] = next
         /\ \A g \in DOMAIN req \ {h} : req'[g] = req[g]
<1>1. IsTable(req', Handlers, Request)
  BY PutTable DEF Continue
<1>2. QED
  BY <1>1 DEF Continue, Put

\* A request that is answered.
LEMMA FinishReq ==
  ASSUME IsTable(req, Handlers, Request), NEW h, Finish(h)
  PROVE  /\ IsTable(req', Handlers, Request)
         /\ DOMAIN req' = DOMAIN req \ {h}
         /\ \A g \in DOMAIN req' : req'[g] = req[g]
<1>1. IsTable(req', Handlers, Request)
  BY DropTable DEF Finish
<1>2. QED
  BY <1>1 DEF Finish, Drop, Restrict

\* resaRepo.UpdateStatus changes nothing but the status.
LEMMA UpdateStatusResa ==
  ASSUME IsTable(resa, Reservations, ResaRow), NEW r \in DOMAIN resa,
         NEW status \in Statuses, NEW o, UpdateStatus(r, status, o)
  PROVE  /\ IsTable(resa', Reservations, ResaRow)
         /\ DOMAIN resa' = DOMAIN resa
         /\ \A q \in DOMAIN resa : /\ resa'[q].total = resa[q].total
                                   /\ resa'[q].intent = resa[q].intent
                                   /\ resa'[q].payment = resa[q].payment
<1> DEFINE row == [resa[r] EXCEPT !.status = status]
<1>1. r \in Reservations /\ resa[r] \in ResaRow
  BY TableRows
<1>2. /\ row \in ResaRow
      /\ row.total = resa[r].total
      /\ row.intent = resa[r].intent
      /\ row.payment = resa[r].payment
  BY <1>1 DEF ResaRow
<1>3. CASE Landed(o)
  <2>1. resa' = Put(resa, r, row)
    BY <1>3 DEF UpdateStatus
  <2> HIDE DEF row
  <2>2. IsTable(resa', Reservations, ResaRow)
    BY <1>1, <1>2, <2>1, PutTable
  <2>3. QED
    BY <1>2, <2>1, <2>2 DEF Put
<1>4. CASE ~Landed(o)
  BY <1>4 DEF UpdateStatus
<1>5. QED
  BY <1>3, <1>4

\* resaRepo.UpdatePayment, if it lands, changes the two payment columns of one row.
LEMMA UpdatePaymentResa ==
  ASSUME IsTable(resa, Reservations, ResaRow), NEW r \in DOMAIN resa,
         NEW s \in Sessions, NEW payment \in PaymentStatuses, NEW o,
         UpdatePayment(r, s, payment, o)
  PROVE  /\ IsTable(resa', Reservations, ResaRow)
         /\ DOMAIN resa' = DOMAIN resa
         /\ \A q \in DOMAIN resa : resa'[q].total = resa[q].total
         /\ \A q \in DOMAIN resa \ {r} : resa'[q] = resa[q]
         /\ Landed(o) => resa'[r].intent = s /\ resa'[r].payment = payment
         /\ ~Landed(o) => resa' = resa
<1> DEFINE row == [resa[r] EXCEPT !.intent = s, !.payment = payment]
<1>1. r \in Reservations /\ resa[r] \in ResaRow
  BY TableRows
<1>2. /\ row \in ResaRow
      /\ row.total = resa[r].total
      /\ row.intent = s
      /\ row.payment = payment
  BY <1>1 DEF ResaRow
<1>3. CASE Landed(o)
  <2>1. resa' = Put(resa, r, row)
    BY <1>3 DEF UpdatePayment
  <2> HIDE DEF row
  <2>2. IsTable(resa', Reservations, ResaRow)
    BY <1>1, <1>2, <2>1, PutTable
  <2>3. QED
    BY <1>2, <1>3, <2>1, <2>2 DEF Put
<1>4. CASE ~Landed(o)
  BY <1>4 DEF UpdatePayment
<1>5. QED
  BY <1>3, <1>4

-----------------------------------------------------------------------------
(***************************************************************************)
(* The inductive invariant.  TypeOK is not inductive by itself: a webhook's *)
(* UPDATE leaves the table well typed because the session it is about is   *)
(* of a reservation that exists.                                           *)
(***************************************************************************)
Inv == TypeOK /\ Consistent

\* Reservations and sessions stay, with their price and their outcome.
Grow ==
  /\ DOMAIN resa \subseteq DOMAIN resa'
  /\ \A r \in DOMAIN resa : resa'[r].total = resa[r].total
  /\ DOMAIN stripe \subseteq DOMAIN stripe'
  /\ \A s \in DOMAIN stripe : stripe[s].state # "open" => stripe'[s].state = stripe[s].state
  /\ recorded \subseteq recorded'

\* The requests stay right when one of them is answered ...
LEMMA RequestEnds ==
  ASSUME Inv, NEW h \in DOMAIN req, Finish(h), Grow,
         \A g \in DOMAIN req \ {h} :
           req[g].op = "savePending" => req[g].session \notin handed' \ handed
  PROVE  IsTable(req', Handlers, Request) /\ InFlightAgrees'
<1>1. /\ IsTable(req', Handlers, Request)
      /\ DOMAIN req' = DOMAIN req \ {h}
      /\ \A g \in DOMAIN req' : req'[g] = req[g]
  BY FinishReq DEF Inv, TypeOK
<1>2. ASSUME NEW g \in DOMAIN req' PROVE RequestAgrees(req[g])'
  <2>1. RequestAgrees(req[g])
    BY <1>1 DEF Inv, Consistent, InFlightAgrees
  <2>2. QED
    BY <1>1, <2>1 DEF RequestAgrees, Grow
<1>3. QED
  BY <1>1, <1>2 DEF Inv, Consistent, InFlightAgrees

\* ... or goes on with its next statement.
LEMMA RequestGoesOn ==
  ASSUME Inv, NEW h \in DOMAIN req, NEW next \in Request, Continue(h, next), Grow,
         handed' = handed, RequestAgrees(next)',
         next.op = "savePending" => next.session \notin DOMAIN stripe
  PROVE  IsTable(req', Handlers, Request) /\ InFlightAgrees'
<1>1. /\ IsTable(req', Handlers, Request)
      /\ DOMAIN req' = DOMAIN req
      /\ req'[h] = next
      /\ \A g \in DOMAIN req \ {h} : req'[g] = req[g]
  <2>1. IsTable(req, Handlers, Request) /\ h \in Handlers
    BY TableRows DEF Inv, TypeOK
  <2>2. QED
    BY <2>1, ContinueReq
<1>2. ASSUME NEW g \in DOMAIN req \ {h} PROVE RequestAgrees(req[g])'
  <2>1. RequestAgrees(req[g])
    BY DEF Inv, Consistent, InFlightAgrees
  <2>2. QED
    BY <1>1, <2>1 DEF RequestAgrees, Grow
<1>3. \A g \in DOMAIN req : req[g].op = "savePending" => req[g].session \in DOMAIN stripe
  BY DEF Inv, Consistent, InFlightAgrees, RequestAgrees
<1>4. \A g \in DOMAIN req' : RequestAgrees(req[g])'
  BY <1>1, <1>2
<1>5. ASSUME NEW f \in DOMAIN req', NEW g \in DOMAIN req', f # g,
             req'[f].op = "savePending", req'[g].op = "savePending"
      PROVE  req'[f].session # req'[g].session
  <2>1. CASE f # h /\ g # h
    BY <1>1, <1>5, <2>1 DEF Inv, Consistent, InFlightAgrees
  <2>2. CASE f = h
    BY <1>1, <1>3, <1>5, <2>2
  <2>3. CASE g = h
    BY <1>1, <1>3, <1>5, <2>3
  <2>4. QED
    BY <2>1, <2>2, <2>3
<1>6. QED
  BY <1>1, <1>4, <1>5 DEF InFlightAgrees

\* A request that starts and changes nothing else.
LEMMA RequestStarts ==
  ASSUME Inv, NEW h \in Handlers, NEW next \in Request, Continue(h, next), Idle(h),
         RequestAgrees(next), next.op # "savePending",
         UNCHANGED <<estab, resa, stripe, handed, acked, recorded, confirmed,
                     faults, restarts, redeploys>>
  PROVE  Inv'
<1>1. /\ IsTable(req', Handlers, Request)
      /\ DOMAIN req' = DOMAIN req \cup {h}
      /\ req'[h] = next
      /\ \A g \in DOMAIN req \ {h} : req'[g] = req[g]
  BY ContinueReq DEF Inv, TypeOK
<1>2. TypeOK'
  BY <1>1 DEF Inv, TypeOK
<1>3. InFlightAgrees'
  <2>1. ASSUME NEW g \in DOMAIN req' PROVE RequestAgrees(req[g])'
    BY <1>1 DEF Inv, Consistent, InFlightAgrees, RequestAgrees, Idle
  <2>2. QED
    BY <1>1, <2>1 DEF Inv, Consistent, InFlightAgrees, Idle
<1>4. QED
  BY <1>2, <1>3 DEF Inv, Consistent, SessionsAgree, SessionsOf, IntentIsOwnSession,
                    PaymentMatchesStripe, RecordedPaymentStands, AckedMeansRecorded

-----------------------------------------------------------------------------
\* Every request that arrives: one step per handler.
LEMMA ArriveKeepsInv ==
  ASSUME Inv, NEW h \in Handlers, Arrive(h)
  PROVE  Inv'
<1>1. ASSUME NEW u \in Users, NEW e \in Establishments, NEW n \in Nights, Create(h, u, e, n)
      PROVE  Inv'
  <2> DEFINE next == [op |-> "insert", guest |-> u, lodging |-> e,
                      total |-> n * estab[e].price]
  <2>1. estab[e].price \in Nat /\ n \in Nat
    BY ConstantsOK DEF Inv, TypeOK, EstabRow
  <2>2. n * estab[e].price \in Nat
    BY <2>1
  <2>3. next \in Request
    BY <2>2 DEF Request
  <2>4. RequestAgrees(next) /\ next.op # "savePending"
    BY DEF RequestAgrees
  <2> HIDE DEF next
  <2>5. Continue(h, next) /\ Idle(h)
    BY <1>1 DEF Create, next
  <2>6. QED
    BY <1>1, <2>3, <2>4, <2>5, RequestStarts DEF Create
<1>2. ASSUME NEW r \in DOMAIN resa, NEW st \in Statuses, Idle(h), AskStatus(h, r, st)
      PROVE  Inv'
  <2> DEFINE next == [op |-> "setStatus", resa |-> r, status |-> st]
  <2>1. r \in Reservations
    BY TableRows DEF Inv, TypeOK
  <2>2. next \in Request
    BY <2>1 DEF Request
  <2>3. RequestAgrees(next) /\ next.op # "savePending"
    BY DEF RequestAgrees
  <2> HIDE DEF next
  <2>4. Continue(h, next)
    BY <1>2 DEF AskStatus, next
  <2>5. QED
    BY <1>2, <2>2, <2>3, <2>4, RequestStarts DEF AskStatus
<1>3. ASSUME NEW u \in Users, NEW r \in Reservations, Cancel(h, u, r)
      PROVE  Inv'
  BY <1>2, <1>3 DEF Cancel, Statuses
<1>4. ASSUME NEW r \in Reservations, NEW st \in Statuses, ChangeStatus(h, r, st)
      PROVE  Inv'
  BY <1>2, <1>4 DEF ChangeStatus
<1>5. ASSUME NEW u \in Users, NEW r \in Reservations, NEW st \in Statuses,
             OwnerChangeStatus(h, u, r, st)
      PROVE  Inv'
  BY <1>2, <1>5 DEF OwnerChangeStatus
<1>6. ASSUME NEW u \in Users, NEW r \in Reservations, Checkout(h, u, r)
      PROVE  Inv'
  <2> DEFINE next == [op |-> "checkout", resa |-> r, amount |-> resa[r].total]
  <2>1. r \in DOMAIN resa /\ resa[r] \in ResaRow /\ resa[r].total > 0
    BY <1>6, TableRows DEF Checkout, Inv, TypeOK
  <2>2. next \in Request
    BY <2>1 DEF Request, ResaRow
  <2>3. RequestAgrees(next) /\ next.op # "savePending"
    BY <2>1 DEF RequestAgrees
  <2> HIDE DEF next
  <2>4. Continue(h, next) /\ Idle(h)
    BY <1>6 DEF Checkout, next
  <2>5. QED
    BY <1>6, <2>2, <2>3, <2>4, RequestStarts DEF Checkout
<1>7. ASSUME NEW s \in Sessions, Deliver(h, s)
      PROVE  Inv'
  <2> DEFINE next == [op |-> IF stripe[s].state = "complete" THEN "mark" ELSE "expire",
                      session |-> s]
  <2>1. s \in DOMAIN stripe /\ stripe[s] \in StripeRow /\ stripe[s].state # "open"
    BY <1>7, TableRows DEF Deliver, Inv, TypeOK
  <2>2. next \in Request
    BY DEF Request
  <2>3. RequestAgrees(next) /\ next.op # "savePending"
    BY <2>1 DEF RequestAgrees, StripeRow
  <2> HIDE DEF next
  <2>4. Continue(h, next) /\ Idle(h)
    BY <1>7 DEF Deliver, next
  <2>5. QED
    BY <1>7, <2>2, <2>3, <2>4, RequestStarts DEF Deliver
<1>8. QED
  BY <1>1, <1>3, <1>4, <1>5, <1>6, <1>7 DEF Arrive

-----------------------------------------------------------------------------
\* The UPDATE of a session's payment leaves every reservation's payment true,
\* when "succeeded" is written exactly for the sessions recorded as such.
LEMMA PaymentWritten ==
  ASSUME Inv, NEW s \in DOMAIN stripe, NEW o, NEW p \in PaymentStatuses \ {"none"},
         UpdatePayment(stripe[s].resa, s, p, o), stripe' = stripe,
         p = "succeeded" => stripe[s].state = "complete",
         p = "failed" => stripe[s].state = "expired",
         recorded' = IF p = "succeeded" /\ Landed(o) THEN recorded \cup {s} ELSE recorded,
         p # "succeeded" => s \notin recorded
  PROVE  /\ IsTable(resa', Reservations, ResaRow) /\ DOMAIN resa' = DOMAIN resa
         /\ \A q \in DOMAIN resa : resa'[q].total = resa[q].total
         /\ Grow
         /\ IntentIsOwnSession' /\ PaymentMatchesStripe' /\ RecordedPaymentStands'
<1> DEFINE r == stripe[s].resa
<1>1. s \in Sessions /\ s # NoSession
  BY ConstantsOK, TableRows DEF Inv, TypeOK
<1>2. /\ r \in DOMAIN resa
      /\ stripe[s].amount = resa[r].total /\ stripe[s].amount > 0
  BY DEF Inv, Consistent, SessionsAgree
<1>3. /\ IsTable(resa', Reservations, ResaRow)
      /\ DOMAIN resa' = DOMAIN resa
      /\ \A q \in DOMAIN resa : resa'[q].total = resa[q].total
      /\ \A q \in DOMAIN resa \ {r} : resa'[q] = resa[q]
      /\ Landed(o) => resa'[r].intent = s /\ resa'[r].payment = p
      /\ ~Landed(o) => resa' = resa
  BY <1>1, <1>2, UpdatePaymentResa DEF Inv, TypeOK
<1>4. Grow
  BY <1>3 DEF Grow
<1>5. IntentIsOwnSession'
  BY <1>1, <1>2, <1>3 DEF Inv, Consistent, IntentIsOwnSession, SessionsOf
<1>6. PaymentMatchesStripe'
  BY <1>1, <1>2, <1>3 DEF Inv, Consistent, PaymentMatchesStripe
<1>7. RecordedPaymentStands'
  <2>1. \A q \in DOMAIN resa \ {r} : resa[q].intent # s
    BY <1>1 DEF Inv, Consistent, IntentIsOwnSession, SessionsOf
  <2>2. CASE Landed(o)
    BY <1>2, <1>3, <2>1, <2>2 DEF Inv, Consistent, RecordedPaymentStands
  <2>3. CASE ~Landed(o)
    BY <1>3, <2>3 DEF Inv, Consistent, RecordedPaymentStands
  <2>4. QED
    BY <2>2, <2>3
<1>8. QED
  BY <1>3, <1>4, <1>5, <1>6, <1>7

\* A statement spends at most one fault.
LEMMA StatementFaults ==
  ASSUME faults \in Nat, NEW o, Statement(o)
  PROVE  faults' \in Nat
BY DEF Statement

-----------------------------------------------------------------------------
\* The Save after Stripe's answer: the new session is the reservation's own.
LEMMA SavePendingKeepsInv ==
  ASSUME Inv, NEW h, NEW o \in Outcomes, SavePending(h, o)
  PROVE  Inv'
<1> DEFINE s == req[h].session
<1>1. /\ h \in DOMAIN req /\ req[h].op = "savePending" /\ Finish(h) /\ Statement(o)
      /\ UpdatePayment(stripe[s].resa, s, "pending", o) /\ handed' = handed \cup {s}
      /\ UNCHANGED <<estab, stripe, acked, recorded, confirmed, restarts, redeploys>>
  BY DEF SavePending, Doing
<1>2. s \in DOMAIN stripe /\ s \notin handed /\ s \notin recorded
  BY <1>1 DEF Inv, Consistent, InFlightAgrees, RequestAgrees, SessionsAgree
<1> HIDE DEF s
<1>3. /\ IsTable(resa', Reservations, ResaRow) /\ DOMAIN resa' = DOMAIN resa
      /\ \A q \in DOMAIN resa : resa'[q].total = resa[q].total
      /\ Grow
      /\ IntentIsOwnSession' /\ PaymentMatchesStripe' /\ RecordedPaymentStands'
  BY <1>1, <1>2, PaymentWritten DEF PaymentStatuses
<1>4. \A g \in DOMAIN req \ {h} :
        req[g].op = "savePending" => req[g].session \notin handed' \ handed
  BY <1>1 DEF Inv, Consistent, InFlightAgrees, s
<1>5. IsTable(req', Handlers, Request) /\ InFlightAgrees'
  BY <1>1, <1>3, <1>4, RequestEnds
<1>6. TypeOK'
  BY <1>1, <1>2, <1>3, <1>5, StatementFaults, TableRows DEF Inv, TypeOK
<1>7. SessionsAgree' /\ AckedMeansRecorded'
  BY <1>1, <1>2, <1>3 DEF Inv, Consistent, SessionsAgree, AckedMeansRecorded
<1>8. QED
  BY <1>3, <1>5, <1>6, <1>7 DEF Inv, Consistent

\* The first UPDATE of the completed event, made or lost.
LEMMA MarkSucceededKeepsInv ==
  ASSUME Inv, NEW h, NEW o \in Outcomes, MarkSucceeded(h, o)
  PROVE  Inv'
<1>1. PICK s \in DOMAIN stripe :
        /\ h \in DOMAIN req /\ req[h].op = "mark" /\ Statement(o)
        /\ UpdatePayment(stripe[s].resa, s, "succeeded", o)
        /\ recorded' = IF Landed(o) THEN recorded \cup {s} ELSE recorded
        /\ IF o = "done" THEN Continue(h, [op |-> "confirm", session |-> s]) ELSE Finish(h)
        /\ UNCHANGED <<estab, stripe, handed, acked, confirmed, restarts, redeploys>>
        /\ stripe[s].state = "complete"
  BY DEF MarkSucceeded, Doing, Inv, Consistent, InFlightAgrees, RequestAgrees
<1>2. s \in DOMAIN stripe /\ stripe[s].state = "complete"
  BY <1>1
<1>3. s \in Sessions
  BY <1>2, TableRows DEF Inv, TypeOK
<1>4. /\ IsTable(resa', Reservations, ResaRow) /\ DOMAIN resa' = DOMAIN resa
      /\ \A q \in DOMAIN resa : resa'[q].total = resa[q].total
      /\ Grow
      /\ IntentIsOwnSession' /\ PaymentMatchesStripe' /\ RecordedPaymentStands'
  BY <1>1, <1>2, PaymentWritten DEF PaymentStatuses
<1>5. IsTable(req', Handlers, Request) /\ InFlightAgrees'
  <2>1. CASE o = "done"
    <3>1. PICK next \in Request : next = [op |-> "confirm", session |-> s]
      BY <1>3 DEF Request
    <3>2. RequestAgrees(next)'
      BY <1>1, <1>2, <2>1, <3>1 DEF RequestAgrees, Landed
    <3>3. Continue(h, next)
      BY <1>1, <2>1, <3>1
    <3>4. next.op # "savePending"
      BY <3>1
    <3>5. QED
      BY <1>1, <1>4, <3>2, <3>3, <3>4, RequestGoesOn
  <2>2. CASE o # "done"
    BY <1>1, <1>4, <2>2, RequestEnds
  <2>3. QED
    BY <2>1, <2>2
<1>6. TypeOK'
  BY <1>1, <1>3, <1>4, <1>5, StatementFaults DEF Inv, TypeOK
<1>7. SessionsAgree' /\ AckedMeansRecorded'
  BY <1>1, <1>2, <1>4 DEF Inv, Consistent, SessionsAgree, AckedMeansRecorded
<1>8. QED
  BY <1>4, <1>5, <1>6, <1>7 DEF Inv, Consistent

\* The UPDATE of the expired event, made or lost.
LEMMA MarkExpiredKeepsInv ==
  ASSUME Inv, NEW h, NEW o \in Outcomes, MarkExpired(h, o)
  PROVE  Inv'
<1> DEFINE s == req[h].session
<1>1. /\ h \in DOMAIN req /\ req[h].op = "expire" /\ Finish(h) /\ Statement(o)
      /\ UpdatePayment(stripe[s].resa, s, "failed", o) /\ acked' = acked \cup {s}
      /\ UNCHANGED <<estab, stripe, handed, recorded, confirmed, restarts, redeploys>>
  BY DEF MarkExpired, Doing
<1>2. s \in DOMAIN stripe /\ stripe[s].state = "expired" /\ s \notin recorded
  BY <1>1 DEF Inv, Consistent, InFlightAgrees, RequestAgrees, SessionsAgree
<1> HIDE DEF s
<1>3. /\ IsTable(resa', Reservations, ResaRow) /\ DOMAIN resa' = DOMAIN resa
      /\ \A q \in DOMAIN resa : resa'[q].total = resa[q].total
      /\ Grow
      /\ IntentIsOwnSession' /\ PaymentMatchesStripe' /\ RecordedPaymentStands'
  BY <1>1, <1>2, PaymentWritten DEF PaymentStatuses
<1>4. IsTable(req', Handlers, Request) /\ InFlightAgrees'
  BY <1>1, <1>3, RequestEnds
<1>5. TypeOK'
  BY <1>1, <1>2, <1>3, <1>4, StatementFaults, TableRows DEF Inv, TypeOK
<1>6. SessionsAgree' /\ AckedMeansRecorded'
  BY <1>1, <1>2, <1>3 DEF Inv, Consistent, SessionsAgree, AckedMeansRecorded
<1>7. QED
  BY <1>3, <1>4, <1>5, <1>6 DEF Inv, Consistent

\* A change of statuses leaves every payment true.
LEMMA StatusWritten ==
  ASSUME Inv, NEW r \in DOMAIN resa, NEW status \in Statuses, NEW o,
         UpdateStatus(r, status, o),
         UNCHANGED <<stripe, handed, recorded>>
  PROVE  /\ IsTable(resa', Reservations, ResaRow) /\ DOMAIN resa' = DOMAIN resa
         /\ \A q \in DOMAIN resa : resa'[q].total = resa[q].total
         /\ Grow
         /\ IntentIsOwnSession' /\ PaymentMatchesStripe' /\ RecordedPaymentStands'
<1>1. /\ IsTable(resa', Reservations, ResaRow)
      /\ DOMAIN resa' = DOMAIN resa
      /\ \A q \in DOMAIN resa : /\ resa'[q].total = resa[q].total
                                /\ resa'[q].intent = resa[q].intent
                                /\ resa'[q].payment = resa[q].payment
  BY UpdateStatusResa DEF Inv, TypeOK
<1>2. QED
  BY <1>1 DEF Inv, Consistent, Grow, IntentIsOwnSession, SessionsOf,
              PaymentMatchesStripe, RecordedPaymentStands

\* The second UPDATE of the completed event, and the acknowledgement.
LEMMA ConfirmPaidKeepsInv ==
  ASSUME Inv, NEW h, NEW o \in Outcomes, ConfirmPaid(h, o)
  PROVE  Inv'
<1>1. PICK s \in DOMAIN stripe :
        /\ h \in DOMAIN req /\ req[h].op = "confirm" /\ Statement(o) /\ Finish(h)
        /\ UpdateStatus(stripe[s].resa, "confirmed", o)
        /\ confirmed' = IF Landed(o) THEN confirmed \cup {s} ELSE confirmed
        /\ acked' = IF o = "done" THEN acked \cup {s} ELSE acked
        /\ UNCHANGED <<estab, stripe, handed, recorded, restarts, redeploys>>
        /\ stripe[s].state = "complete" /\ s \in recorded
  BY DEF ConfirmPaid, Doing, Inv, Consistent, InFlightAgrees, RequestAgrees
<1>2. stripe[s].resa \in DOMAIN resa /\ s \in Sessions
  BY TableRows DEF Inv, TypeOK, Consistent, SessionsAgree
<1>3. /\ IsTable(resa', Reservations, ResaRow) /\ DOMAIN resa' = DOMAIN resa
      /\ \A q \in DOMAIN resa : resa'[q].total = resa[q].total
      /\ Grow
      /\ IntentIsOwnSession' /\ PaymentMatchesStripe' /\ RecordedPaymentStands'
  BY <1>1, <1>2, StatusWritten DEF Statuses
<1>4. IsTable(req', Handlers, Request) /\ InFlightAgrees'
  BY <1>1, <1>3, RequestEnds
<1>5. TypeOK'
  BY <1>1, <1>2, <1>3, <1>4, StatementFaults DEF Inv, TypeOK
<1>6. SessionsAgree' /\ AckedMeansRecorded'
  BY <1>1, <1>3 DEF Inv, Consistent, SessionsAgree, AckedMeansRecorded, Landed
<1>7. QED
  BY <1>3, <1>4, <1>5, <1>6 DEF Inv, Consistent

\* The UPDATE of a status by the guest or the owner.
LEMMA SetStatusKeepsInv ==
  ASSUME Inv, NEW h, NEW o \in Outcomes, SetStatus(h, o)
  PROVE  Inv'
<1>1. PICK r \in DOMAIN resa, status \in Statuses :
        /\ h \in DOMAIN req /\ Statement(o) /\ Finish(h)
        /\ UpdateStatus(r, status, o)
        /\ UNCHANGED <<estab, stripe, handed, acked, recorded, confirmed, restarts, redeploys>>
  <2>1. h \in DOMAIN req /\ req[h].op = "setStatus"
    BY DEF SetStatus, Doing
  <2>2. req[h].resa \in DOMAIN resa /\ req[h] \in Request
    BY <2>1, TableRows DEF Inv, TypeOK, Consistent, InFlightAgrees, RequestAgrees
  <2>3. req[h].status \in Statuses
    BY <2>1, <2>2 DEF Request
  <2>4. QED
    BY <2>1, <2>2, <2>3 DEF SetStatus
<1>2. /\ IsTable(resa', Reservations, ResaRow) /\ DOMAIN resa' = DOMAIN resa
      /\ \A q \in DOMAIN resa : resa'[q].total = resa[q].total
      /\ Grow
      /\ IntentIsOwnSession' /\ PaymentMatchesStripe' /\ RecordedPaymentStands'
  BY <1>1, StatusWritten
<1>3. IsTable(req', Handlers, Request) /\ InFlightAgrees'
  BY <1>1, <1>2, RequestEnds
<1>4. TypeOK'
  BY <1>1, <1>2, <1>3, StatementFaults DEF Inv, TypeOK
<1>5. SessionsAgree' /\ AckedMeansRecorded'
  BY <1>1, <1>2 DEF Inv, Consistent, SessionsAgree, AckedMeansRecorded
<1>6. QED
  BY <1>2, <1>3, <1>4, <1>5 DEF Inv, Consistent

\* The UPDATE of a status by an administrator, of any row.
LEMMA AdminSetStatusKeepsInv ==
  ASSUME Inv, NEW r \in Reservations, NEW status \in Statuses, AdminSetStatus(r, status)
  PROVE  Inv'
<1>1. /\ r \in DOMAIN resa /\ UpdateStatus(r, status, "done")
      /\ UNCHANGED <<estab, stripe, req, handed, acked, recorded, confirmed,
                     faults, restarts, redeploys>>
  BY DEF AdminSetStatus
<1>2. /\ IsTable(resa', Reservations, ResaRow) /\ DOMAIN resa' = DOMAIN resa
      /\ \A q \in DOMAIN resa : resa'[q].total = resa[q].total
      /\ IntentIsOwnSession' /\ PaymentMatchesStripe' /\ RecordedPaymentStands'
  BY <1>1, StatusWritten
<1>3. TypeOK'
  BY <1>1, <1>2 DEF Inv, TypeOK
<1>4. InFlightAgrees'
  BY <1>1, <1>2 DEF Inv, Consistent, InFlightAgrees, RequestAgrees
<1>5. SessionsAgree' /\ AckedMeansRecorded'
  BY <1>1, <1>2 DEF Inv, Consistent, SessionsAgree, AckedMeansRecorded
<1>6. QED
  BY <1>2, <1>3, <1>4, <1>5 DEF Inv, Consistent

\* The INSERT of a reservation, priced from the row read before it.
LEMMA InsertKeepsInv ==
  ASSUME Inv, NEW h, NEW r \in Reservations, NEW o \in Outcomes, Insert(h, r, o)
  PROVE  Inv'
<1> DEFINE row == [guest |-> req[h].guest, lodging |-> req[h].lodging,
                   total |-> req[h].total, status |-> "pending",
                   payment |-> "none", intent |-> NoSession]
<1>1. /\ h \in DOMAIN req /\ req[h].op = "insert" /\ r \notin DOMAIN resa
      /\ Statement(o) /\ Finish(h)
      /\ resa' = IF Landed(o) THEN Put(resa, r, row) ELSE resa
      /\ UNCHANGED <<estab, stripe, handed, acked, recorded, confirmed, restarts, redeploys>>
  BY DEF Insert, Doing
<1>2. row \in ResaRow /\ row.payment = "none" /\ row.intent = NoSession
  <2>1. req[h] \in Request
    BY <1>1, TableRows DEF Inv, TypeOK
  <2>2. req[h].guest \in Users /\ req[h].lodging \in Establishments /\ req[h].total \in Nat
    BY <1>1, <2>1 DEF Request
  <2>3. QED
    BY <2>2 DEF ResaRow, Statuses, PaymentStatuses
<1> HIDE DEF row
<1>3. IsTable(resa', Reservations, ResaRow)
  BY <1>1, <1>2, PutTable DEF Inv, TypeOK
<1>4. /\ DOMAIN resa \subseteq DOMAIN resa'
      /\ \A q \in DOMAIN resa : resa'[q] = resa[q]
      /\ \A q \in DOMAIN resa' \ DOMAIN resa : resa'[q] = row
  BY <1>1 DEF Put
<1>5. Grow
  BY <1>1, <1>4 DEF Grow
<1>6. IsTable(req', Handlers, Request) /\ InFlightAgrees'
  BY <1>1, <1>5, RequestEnds
<1>7. TypeOK'
  BY <1>1, <1>3, <1>6, StatementFaults DEF Inv, TypeOK
<1>8. SessionsAgree' /\ AckedMeansRecorded'
  BY <1>1, <1>4 DEF Inv, Consistent, SessionsAgree, AckedMeansRecorded
<1>9. IntentIsOwnSession' /\ PaymentMatchesStripe' /\ RecordedPaymentStands'
  <2>1. NoSession \notin recorded
    BY ConstantsOK DEF Inv, TypeOK
  <2>2. IntentIsOwnSession'
    BY <1>1, <1>2, <1>4 DEF Inv, Consistent, IntentIsOwnSession, SessionsOf
  <2>3. PaymentMatchesStripe'
    BY <1>1, <1>2, <1>4 DEF Inv, Consistent, PaymentMatchesStripe
  <2>4. RecordedPaymentStands'
    BY <1>1, <1>2, <1>4, <2>1 DEF Inv, Consistent, RecordedPaymentStands
  <2>5. QED
    BY <2>2, <2>3, <2>4
<1>10. QED
  BY <1>6, <1>7, <1>8, <1>9 DEF Inv, Consistent

\* The session that Stripe opens, for the price the goroutine read, is a new one.
LEMMA SessionOpened ==
  ASSUME Inv, NEW h, NEW s, OpenSession(h, s),
         UNCHANGED <<resa, handed, acked, recorded, confirmed>>
  PROVE  /\ IsTable(stripe', Sessions, StripeRow)
         /\ s \in Sessions \ DOMAIN stripe /\ s \in DOMAIN stripe' /\ h \in DOMAIN req
         /\ Grow /\ SessionsAgree' /\ AckedMeansRecorded'
         /\ IntentIsOwnSession' /\ PaymentMatchesStripe' /\ RecordedPaymentStands'
<1>1. PICK row \in StripeRow :
        /\ stripe' = Put(stripe, s, row)
        /\ row.state = "open" /\ row.resa \in DOMAIN resa
        /\ row.amount = resa[row.resa].total /\ row.amount > 0
  <2>1. h \in DOMAIN req /\ req[h].op = "checkout"
    BY DEF OpenSession, Doing
  <2>2. req[h] \in Request /\ RequestAgrees(req[h])
    BY <2>1, TableRows DEF Inv, TypeOK, Consistent, InFlightAgrees
  <2>3. req[h].resa \in Reservations /\ req[h].amount \in Nat
    BY <2>1, <2>2 DEF Request
  <2>4. [state |-> "open", resa |-> req[h].resa, amount |-> req[h].amount] \in StripeRow
    BY <2>3 DEF StripeRow
  <2>5. QED
    BY <2>1, <2>2, <2>4 DEF OpenSession, RequestAgrees
<1>2. s \in Sessions \ DOMAIN stripe /\ h \in DOMAIN req
  BY DEF OpenSession, Doing
<1>3. IsTable(stripe', Sessions, StripeRow)
  BY <1>1, <1>2, PutTable DEF Inv, TypeOK
<1>4. /\ DOMAIN stripe' = DOMAIN stripe \cup {s} /\ stripe'[s] = row
      /\ \A q \in DOMAIN stripe : stripe'[q] = stripe[q]
  BY <1>1, <1>2 DEF Put
<1>5. Grow
  BY <1>4 DEF Grow
<1>6. SessionsAgree'
  BY <1>1, <1>2, <1>4 DEF Inv, Consistent, SessionsAgree
<1>7. AckedMeansRecorded'
  BY <1>2, <1>4 DEF Inv, Consistent, SessionsAgree, AckedMeansRecorded
<1>8. IntentIsOwnSession'
  BY <1>4 DEF Inv, Consistent, IntentIsOwnSession, SessionsOf
<1>9. PaymentMatchesStripe' /\ RecordedPaymentStands'
  BY <1>4 DEF Inv, Consistent, IntentIsOwnSession, SessionsOf,
              PaymentMatchesStripe, RecordedPaymentStands
<1>10. QED
  BY <1>2, <1>3, <1>4, <1>5, <1>6, <1>7, <1>8, <1>9

\* Stripe opens the session and its answer arrives.
LEMMA StripeAnswersKeepsInv ==
  ASSUME Inv, NEW h, NEW s, StripeAnswers(h, s)
  PROVE  Inv'
<1>1. /\ OpenSession(h, s) /\ Continue(h, [op |-> "savePending", session |-> s])
      /\ UNCHANGED <<estab, resa, handed, acked, recorded, confirmed,
                     faults, restarts, redeploys>>
  BY DEF StripeAnswers
<1>2. /\ IsTable(stripe', Sessions, StripeRow)
      /\ s \in Sessions \ DOMAIN stripe /\ s \in DOMAIN stripe' /\ h \in DOMAIN req
      /\ Grow /\ SessionsAgree' /\ AckedMeansRecorded'
      /\ IntentIsOwnSession' /\ PaymentMatchesStripe' /\ RecordedPaymentStands'
  BY <1>1, SessionOpened
<1>3. PICK next \in Request : next = [op |-> "savePending", session |-> s]
  BY <1>2 DEF Request
<1>4. RequestAgrees(next)'
  BY <1>1, <1>2, <1>3 DEF RequestAgrees, Inv, Consistent, SessionsAgree
<1>5. IsTable(req', Handlers, Request) /\ InFlightAgrees'
  BY <1>1, <1>2, <1>3, <1>4, RequestGoesOn
<1>6. TypeOK'
  BY <1>1, <1>2, <1>5 DEF Inv, TypeOK
<1>7. QED
  BY <1>2, <1>5, <1>6 DEF Inv, Consistent

\* Stripe opens the session and its answer is lost.
LEMMA StripeAnswerLostKeepsInv ==
  ASSUME Inv, NEW h, NEW s, StripeAnswerLost(h, s)
  PROVE  Inv'
<1>1. /\ OpenSession(h, s) /\ Finish(h)
      /\ UNCHANGED <<estab, resa, handed, acked, recorded, confirmed,
                     faults, restarts, redeploys>>
  BY DEF StripeAnswerLost
<1>2. /\ IsTable(stripe', Sessions, StripeRow) /\ h \in DOMAIN req
      /\ Grow /\ SessionsAgree' /\ AckedMeansRecorded'
      /\ IntentIsOwnSession' /\ PaymentMatchesStripe' /\ RecordedPaymentStands'
  BY <1>1, SessionOpened
<1>3. IsTable(req', Handlers, Request) /\ InFlightAgrees'
  BY <1>1, <1>2, RequestEnds
<1>4. TypeOK'
  BY <1>1, <1>2, <1>3 DEF Inv, TypeOK
<1>5. QED
  BY <1>2, <1>3, <1>4 DEF Inv, Consistent

\* Stripe opens no session.
LEMMA StripeRefusesKeepsInv ==
  ASSUME Inv, NEW h, StripeRefuses(h)
  PROVE  Inv'
<1>1. /\ h \in DOMAIN req /\ Finish(h)
      /\ UNCHANGED <<estab, resa, stripe, handed, acked, recorded, confirmed,
                     faults, restarts, redeploys>>
  BY DEF StripeRefuses, Doing
<1>2. Grow
  BY <1>1 DEF Grow
<1>3. IsTable(req', Handlers, Request) /\ InFlightAgrees'
  BY <1>1, <1>2, RequestEnds
<1>4. QED
  BY <1>1, <1>3 DEF Inv, TypeOK, Consistent, SessionsAgree, SessionsOf, IntentIsOwnSession,
                    PaymentMatchesStripe, RecordedPaymentStands, AckedMeansRecorded

\* The guest pays an open session, or it expires.
LEMMA SessionCloses ==
  ASSUME Inv, NEW s, NEW state \in {"complete", "expired"},
         s \in DOMAIN stripe /\ stripe[s].state = "open",
         state = "complete" => s \in handed,
         stripe' = Put(stripe, s, [stripe[s] EXCEPT !.state = state]),
         UNCHANGED <<estab, resa, req, handed, acked, recorded, confirmed,
                     faults, restarts, redeploys>>
  PROVE  Inv'
<1>1. s \in Sessions /\ stripe[s] \in StripeRow
  BY TableRows DEF Inv, TypeOK
<1>2. PICK row \in StripeRow :
        /\ row = [stripe[s] EXCEPT !.state = state]
        /\ row.state = state
        /\ row.resa = stripe[s].resa /\ row.amount = stripe[s].amount
  BY <1>1 DEF StripeRow
<1>3. IsTable(stripe', Sessions, StripeRow)
  BY <1>1, <1>2, PutTable DEF Inv, TypeOK
<1>4. /\ DOMAIN stripe' = DOMAIN stripe
      /\ \A q \in DOMAIN stripe :
           /\ stripe'[q].resa = stripe[q].resa /\ stripe'[q].amount = stripe[q].amount
           /\ stripe'[q].state = IF q = s THEN state ELSE stripe[q].state
  <2>1. /\ DOMAIN stripe' = DOMAIN stripe /\ stripe'[s] = row
        /\ \A q \in DOMAIN stripe \ {s} : stripe'[q] = stripe[q]
    BY <1>2 DEF Put
  <2>2. QED
    BY <1>2, <2>1
<1>5. s \notin recorded /\ s \notin acked
  BY DEF Inv, Consistent, SessionsAgree
<1>6. TypeOK'
  BY <1>3 DEF Inv, TypeOK
<1>7. InFlightAgrees'
  BY <1>4 DEF Inv, Consistent, InFlightAgrees, RequestAgrees
<1>8. SessionsAgree' /\ AckedMeansRecorded'
  BY <1>4, <1>5 DEF Inv, Consistent, SessionsAgree, AckedMeansRecorded
<1>9. IntentIsOwnSession'
  BY <1>4 DEF Inv, Consistent, IntentIsOwnSession, SessionsOf
<1>10. PaymentMatchesStripe' /\ RecordedPaymentStands'
  BY <1>4, <1>5 DEF Inv, Consistent, IntentIsOwnSession, SessionsOf,
                          PaymentMatchesStripe, RecordedPaymentStands
<1>11. QED
  BY <1>6, <1>7, <1>8, <1>9, <1>10 DEF Inv, Consistent

\* The process restarts and its requests are gone.
LEMMA RestartKeepsInv ==
  ASSUME Inv, Restart
  PROVE  Inv'
<1>1. IsTable(req', Handlers, Request) /\ DOMAIN req' = {}
  BY NoRowsTable DEF Restart
<1>2. QED
  BY <1>1 DEF Restart, Inv, TypeOK, Consistent, InFlightAgrees, SessionsAgree, SessionsOf,
              IntentIsOwnSession, PaymentMatchesStripe, RecordedPaymentStands,
              AckedMeansRecorded

\* The payments are gone, and so is every claim about them.
LEMMA RedeployKeepsInv ==
  ASSUME Inv, Redeploy
  PROVE  Inv'
<1>1. IsTable(req', Handlers, Request) /\ DOMAIN req' = {}
  BY NoRowsTable DEF Redeploy
<1>2. /\ DOMAIN resa' = DOMAIN resa
      /\ \A r \in DOMAIN resa :
           resa'[r] = [resa[r] EXCEPT !.payment = "none", !.intent = NoSession]
  BY DEF Redeploy
<1>3. \A r \in DOMAIN resa : /\ resa[r] \in ResaRow /\ resa'[r] \in ResaRow
                             /\ resa'[r].total = resa[r].total
                             /\ resa'[r].payment = "none" /\ resa'[r].intent = NoSession
  <2>1. ASSUME NEW r \in DOMAIN resa
        PROVE  /\ resa[r] \in ResaRow /\ resa'[r] \in ResaRow
               /\ resa'[r].total = resa[r].total
               /\ resa'[r].payment = "none" /\ resa'[r].intent = NoSession
    <3>1. resa[r] \in ResaRow
      BY TableRows DEF Inv, TypeOK
    <3>2. QED
      BY <1>2, <3>1 DEF ResaRow, PaymentStatuses
  <2>2. QED
    BY <2>1
<1>4. IsTable(resa', Reservations, ResaRow)
  BY <1>2, <1>3, TableRows DEF Inv, TypeOK, IsTable, Redeploy
<1>5. TypeOK'
  <2>1. /\ redeploys' = redeploys + 1
        /\ UNCHANGED <<estab, stripe, handed, acked, recorded, confirmed, faults, restarts>>
    BY DEF Redeploy
  <2>2. QED
    BY <1>1, <1>4, <2>1 DEF Inv, TypeOK
<1>6. InFlightAgrees' /\ SessionsAgree' /\ AckedMeansRecorded'
  BY <1>1, <1>2, <1>3 DEF Inv, Consistent, InFlightAgrees, SessionsAgree,
                          AckedMeansRecorded, Redeploy
<1>7. IntentIsOwnSession' /\ PaymentMatchesStripe' /\ RecordedPaymentStands'
  BY <1>2, <1>3, ConstantsOK DEF Inv, TypeOK, IntentIsOwnSession, PaymentMatchesStripe,
                                 RecordedPaymentStands, Redeploy
<1>8. QED
  BY <1>5, <1>6, <1>7 DEF Inv, Consistent

\* Initially, and when nothing or only an establishment changes.
LEMMA InitInv == Init => Inv
<1> SUFFICES ASSUME Init PROVE Inv
  OBVIOUS
<1>1. /\ IsTable(resa, Reservations, ResaRow) /\ DOMAIN resa = {}
      /\ IsTable(stripe, Sessions, StripeRow) /\ DOMAIN stripe = {}
      /\ IsTable(req, Handlers, Request) /\ DOMAIN req = {}
  BY NoRowsTable DEF Init
<1>2. TypeOK
  BY <1>1 DEF Init, TypeOK, EstabRow
<1>3. Consistent
  BY <1>1 DEF Init, Consistent, InFlightAgrees, SessionsAgree, IntentIsOwnSession,
              PaymentMatchesStripe, RecordedPaymentStands, AckedMeansRecorded
<1>4. QED
  BY <1>2, <1>3 DEF Inv

\* A step that leaves every table of the invariant alone keeps it.
LEMMA TablesUnchanged ==
  ASSUME Inv, estab' \in [Establishments -> EstabRow],
         UNCHANGED <<resa, stripe, req, handed, acked, recorded, confirmed,
                     faults, restarts, redeploys>>
  PROVE  Inv'
BY DEF Inv, TypeOK, Consistent, InFlightAgrees, RequestAgrees, SessionsAgree, SessionsOf,
       IntentIsOwnSession, PaymentMatchesStripe, RecordedPaymentStands, AckedMeansRecorded

-----------------------------------------------------------------------------
\* Every step keeps the invariant.
LEMMA NextKeepsInv == Inv /\ [Next]_vars => Inv'
<1> SUFFICES ASSUME Inv, [Next]_vars PROVE Inv'
  OBVIOUS
<1>1. ASSUME NEW h \in Handlers, Step(h) PROVE Inv'
  BY <1>1, InsertKeepsInv, SetStatusKeepsInv, SavePendingKeepsInv, MarkSucceededKeepsInv,
     ConfirmPaidKeepsInv, MarkExpiredKeepsInv, StripeAnswersKeepsInv,
     StripeAnswerLostKeepsInv, StripeRefusesKeepsInv DEF Step
<1>2. ASSUME NEW h \in Handlers, Arrive(h) PROVE Inv'
  BY <1>2, ArriveKeepsInv
<1>3. ASSUME NEW r \in Reservations, NEW st \in Statuses, AdminSetStatus(r, st) PROVE Inv'
  BY <1>3, AdminSetStatusKeepsInv
<1>4. ASSUME NEW e \in Establishments, NEW row \in EstabRow, WriteEstablishment(e, row)
      PROVE  Inv'
  BY <1>4, TablesUnchanged DEF WriteEstablishment, Inv, TypeOK
<1>5. ASSUME NEW s \in Sessions, Pay(s) PROVE Inv'
  BY <1>5, SessionCloses DEF Pay
<1>6. ASSUME NEW s \in Sessions, Expire(s) PROVE Inv'
  BY <1>6, SessionCloses DEF Expire
<1>7. CASE Restart
  BY <1>7, RestartKeepsInv
<1>8. CASE Redeploy
  BY <1>8, RedeployKeepsInv
<1>9. CASE UNCHANGED vars
  BY <1>9, TablesUnchanged DEF vars, Inv, TypeOK
<1>10. QED
  BY <1>1, <1>2, <1>3, <1>4, <1>5, <1>6, <1>7, <1>8, <1>9 DEF Next

\* Type correctness and the consistency of the tables, in every reachable state.
THEOREM InvAlways == Spec => []Inv
<1>1. Init => Inv
  BY InitInv
<1>2. Inv /\ [Next]_vars => Inv'
  BY NextKeepsInv
<1>3. QED
  BY <1>1, <1>2, PTL DEF Spec

\* Every table, request and counter has its type.
THEOREM TypeCorrect == Spec => []TypeOK
BY InvAlways, PTL DEF Inv

\* The session a reservation names is its own, opened for its whole price.
THEOREM IntentAlwaysOwnSession == Spec => []IntentIsOwnSession
BY InvAlways, PTL DEF Inv, Consistent

\* payment_status never says more than what became of that session.
THEOREM PaymentAlwaysMatchesStripe == Spec => []PaymentMatchesStripe
BY InvAlways, PTL DEF Inv, Consistent

\* What a goroutine holds across a statement or the call to Stripe is still true.
THEOREM InFlightAlwaysAgrees == Spec => []InFlightAgrees
BY InvAlways, PTL DEF Inv, Consistent

\* A success written for a session stands while the reservation names it.
THEOREM RecordedPaymentAlwaysStands == Spec => []RecordedPaymentStands
BY InvAlways, PTL DEF Inv, Consistent

\* Stripe is told to stop posting a payment only after both UPDATEs were made.
THEOREM AckedAlwaysMeansRecorded == Spec => []AckedMeansRecorded
BY InvAlways, PTL DEF Inv, Consistent

-----------------------------------------------------------------------------
(***************************************************************************)
(* Booking implements the safety part of Ledger.                           *)
(***************************************************************************)

\* The phase of one session moves, the others stay.
LEMMA OneMoves ==
  ASSUME NEW s \in Sessions, NEW to, PhaseOf(s)' = to,
         \A q \in Sessions \ {s} : PhaseOf(q)' = PhaseOf(q)
  PROVE  L!Move(s, PhaseOf(s), to)
<1>1. phase' = [q \in Sessions |-> PhaseOf(q)']
  BY DEF phase
<1>2. phase = [q \in Sessions |-> PhaseOf(q)]
  BY DEF phase
<1>3. phase' = [phase EXCEPT ![s] = to]
  BY <1>1, <1>2
<1>4. QED
  BY <1>2, <1>3 DEF L!Move

\* No phase moves while Stripe's sessions and the two histories stay.
LEMMA NoneMoves ==
  ASSUME UNCHANGED <<stripe, recorded, confirmed>>
  PROVE  phase' = phase
BY DEF phase, PhaseOf

\* Opening a session is the ledger's Open.
LEMMA OpenIsOpen ==
  ASSUME NEW h, NEW s, OpenSession(h, s), UNCHANGED <<recorded, confirmed>>
  PROVE  L!Next
<1>1. /\ s \in Sessions \ DOMAIN stripe
      /\ DOMAIN stripe' = DOMAIN stripe \cup {s}
      /\ stripe'[s].state = "open"
      /\ \A q \in DOMAIN stripe : stripe'[q] = stripe[q]
  BY DEF OpenSession, Put
<1>2. PhaseOf(s) = "none" /\ PhaseOf(s)' = "open"
  BY <1>1 DEF PhaseOf
<1>3. \A q \in Sessions \ {s} : PhaseOf(q)' = PhaseOf(q)
  BY <1>1 DEF PhaseOf
<1>4. QED
  BY <1>1, <1>2, <1>3, OneMoves DEF L!Next, L!Open

\* Closing one is its Pay or its Expire.
LEMMA CloseIsPayOrExpire ==
  ASSUME Inv, NEW s, NEW state \in {"complete", "expired"},
         s \in DOMAIN stripe /\ stripe[s].state = "open",
         stripe' = Put(stripe, s, [stripe[s] EXCEPT !.state = state]),
         UNCHANGED <<recorded, confirmed>>
  PROVE  L!Next
<1>1. s \in Sessions /\ stripe[s] \in StripeRow /\ s \notin recorded
  BY TableRows DEF Inv, TypeOK, Consistent, SessionsAgree
<1>2. /\ DOMAIN stripe' = DOMAIN stripe
      /\ stripe'[s].state = state
      /\ \A q \in DOMAIN stripe \ {s} : stripe'[q] = stripe[q]
  BY <1>1 DEF Put, StripeRow
<1>3. /\ PhaseOf(s) = "open"
      /\ PhaseOf(s)' = IF state = "complete" THEN "paid" ELSE "expired"
  BY <1>1, <1>2 DEF PhaseOf
<1>4. \A q \in Sessions \ {s} : PhaseOf(q)' = PhaseOf(q)
  BY <1>2 DEF PhaseOf
<1>5. QED
  BY <1>1, <1>3, <1>4, OneMoves DEF L!Next, L!Pay, L!Expire

\* The webhook's first UPDATE is its Mark, unless it was made before or fails.
LEMMA MarkIsMark ==
  ASSUME Inv, NEW h, NEW o, MarkSucceeded(h, o)
  PROVE  L!Next \/ phase' = phase
<1>1. PICK s \in DOMAIN stripe :
        /\ recorded' = IF Landed(o) THEN recorded \cup {s} ELSE recorded
        /\ UNCHANGED <<stripe, confirmed>>
        /\ stripe[s].state = "complete"
  BY DEF MarkSucceeded, Doing, Inv, Consistent, InFlightAgrees, RequestAgrees
<1>2. s \in Sessions
  BY TableRows DEF Inv, TypeOK
<1>3. CASE recorded' = recorded
  BY <1>1, <1>3, NoneMoves
<1>4. CASE recorded' # recorded
  <2>1. recorded' = recorded \cup {s} /\ s \notin recorded /\ s \notin confirmed
    BY <1>1, <1>4 DEF Inv, Consistent, SessionsAgree
  <2>2. PhaseOf(s) = "paid" /\ PhaseOf(s)' = "marked"
    BY <1>1, <2>1 DEF PhaseOf
  <2>3. \A q \in Sessions \ {s} : PhaseOf(q)' = PhaseOf(q)
    BY <1>1, <2>1 DEF PhaseOf
  <2>4. QED
    BY <1>2, <2>2, <2>3, OneMoves DEF L!Next, L!Mark
<1>5. QED
  BY <1>3, <1>4

\* The second one is its Settle.
LEMMA ConfirmIsSettle ==
  ASSUME Inv, NEW h, NEW o, ConfirmPaid(h, o)
  PROVE  L!Next \/ phase' = phase
<1>1. PICK s \in DOMAIN stripe :
        /\ confirmed' = IF Landed(o) THEN confirmed \cup {s} ELSE confirmed
        /\ UNCHANGED <<stripe, recorded>>
        /\ stripe[s].state = "complete" /\ s \in recorded
  BY DEF ConfirmPaid, Doing, Inv, Consistent, InFlightAgrees, RequestAgrees
<1>2. s \in Sessions
  BY TableRows DEF Inv, TypeOK
<1>3. CASE confirmed' = confirmed
  BY <1>1, <1>3, NoneMoves
<1>4. CASE confirmed' # confirmed
  <2>1. confirmed' = confirmed \cup {s} /\ s \notin confirmed
    BY <1>1, <1>4
  <2>2. PhaseOf(s) = "marked" /\ PhaseOf(s)' = "settled"
    BY <1>1, <2>1 DEF PhaseOf
  <2>3. \A q \in Sessions \ {s} : PhaseOf(q)' = PhaseOf(q)
    BY <1>1, <2>1 DEF PhaseOf
  <2>4. QED
    BY <1>2, <2>2, <2>3, OneMoves DEF L!Next, L!Settle
<1>5. QED
  BY <1>3, <1>4

\* Every other step leaves the ledger as it is.
LEMMA NextImplementsLedger == Inv /\ [Next]_vars => [L!Next]_phase
<1> SUFFICES ASSUME Inv, [Next]_vars PROVE L!Next \/ phase' = phase
  OBVIOUS
<1>1. ASSUME NEW h \in Handlers, Step(h) PROVE L!Next \/ phase' = phase
  <2>1. ASSUME NEW o \in Outcomes, NEW r \in Reservations, Insert(h, r, o)
        PROVE  phase' = phase
    BY <2>1, NoneMoves DEF Insert
  <2>2. ASSUME NEW o \in Outcomes,
               SetStatus(h, o) \/ SavePending(h, o) \/ MarkExpired(h, o)
        PROVE  phase' = phase
    BY <2>2, NoneMoves DEF SetStatus, SavePending, MarkExpired
  <2>3. ASSUME NEW s \in Sessions, StripeAnswers(h, s) \/ StripeAnswerLost(h, s)
        PROVE  L!Next
    BY <2>3, OpenIsOpen DEF StripeAnswers, StripeAnswerLost
  <2>4. CASE StripeRefuses(h)
    BY <2>4, NoneMoves DEF StripeRefuses
  <2>5. QED
    BY <1>1, <2>1, <2>2, <2>3, <2>4, MarkIsMark, ConfirmIsSettle DEF Step
<1>2. ASSUME NEW h \in Handlers, Arrive(h) PROVE phase' = phase
  BY <1>2, NoneMoves DEF Arrive, Create, Cancel, ChangeStatus, OwnerChangeStatus, AskStatus,
                         Checkout, Deliver
<1>3. ASSUME NEW r \in Reservations, NEW st \in Statuses, AdminSetStatus(r, st)
      PROVE  phase' = phase
  BY <1>3, NoneMoves DEF AdminSetStatus
<1>4. ASSUME NEW e \in Establishments, NEW row \in EstabRow, WriteEstablishment(e, row)
      PROVE  phase' = phase
  BY <1>4, NoneMoves DEF WriteEstablishment
<1>5. ASSUME NEW s \in Sessions, Pay(s) \/ Expire(s) PROVE L!Next
  BY <1>5, CloseIsPayOrExpire DEF Pay, Expire
<1>6. CASE Restart \/ Redeploy
  BY <1>6, NoneMoves DEF Restart, Redeploy
<1>7. CASE UNCHANGED vars
  BY <1>7, NoneMoves DEF vars
<1>8. QED
  BY <1>1, <1>2, <1>3, <1>4, <1>5, <1>6, <1>7 DEF Next

\* Initially no session exists.
LEMMA InitImplementsLedger == Init => L!Init
<1> SUFFICES ASSUME Init PROVE L!Init
  OBVIOUS
<1>1. DOMAIN stripe = {}
  BY DEF Init, NoRows
<1>2. QED
  BY <1>1 DEF L!Init, phase, PhaseOf

\* Whatever the interleaving, the faults and the restarts: a session is paid or
\* expires but once, and is recorded before it is confirmed.
THEOREM ImplementsLedger == Spec => L!Safety
<1>1. Init => L!Init
  BY InitImplementsLedger
<1>2. Inv /\ [Next]_vars => [L!Next]_phase
  BY NextImplementsLedger
<1>3. QED
  BY <1>1, <1>2, InvAlways, PTL DEF Spec, L!Safety
=============================================================================
