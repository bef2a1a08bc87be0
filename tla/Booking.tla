------------------------------ MODULE Booking -------------------------------
(***************************************************************************)
(* Reservations and their payment: ReservationService, PaymentService, the *)
(* owner's and the admin's status handlers, the reservations table, and    *)
(* what Stripe does with a Checkout session.                               *)
(*                                                                         *)
(* The server runs one goroutine per request and opens the database with   *)
(* SkipDefaultTransaction, so a handler is a sequence of statements that   *)
(* commit one by one.  An action is a handler up to its next statement or  *)
(* call to Stripe; req holds what the handler keeps in local variables     *)
(* between two of them.  A request whose checks fail changes nothing and   *)
(* is not an action.                                                       *)
(***************************************************************************)
EXTENDS Tables, Integers, FiniteSets

CONSTANTS
  Users, Establishments,
  Reservations,       \* primary keys an INSERT may return
  Sessions,           \* ids Stripe may give to Checkout sessions
  Handlers,           \* goroutines the server may run at once
  OwnerOf,            \* Establishment.OwnerID
  NoUser,             \* OwnerID is NULL
  NoSession,          \* PaymentIntentID is the empty string
  Prices,             \* values PriceMinFCFA takes
  Nights,             \* lengths of stay; 0 is a request with no check-out date
  MaxFaults,          \* bound: database statements that report an error
  MaxRestarts,        \* bound: restarts of the server process
  MaxRedeploys        \* bound: restarts of the container

ASSUME ConstantsOK ==
  /\ OwnerOf \in [Establishments -> Users \cup {NoUser}]
  /\ NoUser \notin Users
  /\ NoSession \notin Sessions
  /\ Prices \subseteq Nat
  /\ Nights \subseteq Nat
  /\ MaxFaults \in Nat /\ MaxRestarts \in Nat /\ MaxRedeploys \in Nat

VARIABLES
  estab,      \* the establishments table
  resa,       \* the reservations table
  stripe,     \* Stripe's Checkout sessions
  req,        \* the requests the server is working on
  handed,     \* sessions whose URL was sent to the guest
  acked,      \* sessions whose event Stripe saw answered with 200
  recorded,   \* history: sessions whose success was written to payment_status
  confirmed,  \* history: sessions whose webhook wrote status "confirmed"
  faults, restarts, redeploys

vars == <<estab, resa, stripe, req, handed, acked, recorded, confirmed,
          faults, restarts, redeploys>>

-----------------------------------------------------------------------------
\* Rows and requests.

Statuses == {"pending", "confirmed", "cancelled", "completed"}
PaymentStatuses == {"none", "pending", "succeeded", "failed"}

EstabRow == [live: BOOLEAN, available: BOOLEAN, price: Prices]

ResaRow == [guest: Users, lodging: Establishments, total: Nat,
            status: Statuses, payment: PaymentStatuses,
            intent: Sessions \cup {NoSession}]

StripeRow == [state: {"open", "complete", "expired"},
              resa: Reservations, amount: Nat]

Request == [op: {"insert"}, guest: Users, lodging: Establishments, total: Nat]
           \cup [op: {"setStatus"}, resa: Reservations, status: Statuses]
           \cup [op: {"checkout"}, resa: Reservations, amount: Nat]
           \cup [op: {"savePending", "mark", "confirm", "expire"}, session: Sessions]

TypeOK ==
  /\ estab \in [Establishments -> EstabRow]
  /\ IsTable(resa, Reservations, ResaRow)
  /\ IsTable(stripe, Sessions, StripeRow)
  /\ IsTable(req, Handlers, Request)
  /\ handed \subseteq Sessions /\ acked \subseteq Sessions
  /\ recorded \subseteq Sessions /\ confirmed \subseteq Sessions
  /\ faults \in Nat /\ restarts \in Nat /\ redeploys \in Nat

Init ==
  /\ estab \in [Establishments -> [live: {TRUE}, available: BOOLEAN, price: Prices]]
  /\ resa = NoRows /\ stripe = NoRows /\ req = NoRows
  /\ handed = {} /\ acked = {} /\ recorded = {} /\ confirmed = {}
  /\ faults = 0 /\ restarts = 0 /\ redeploys = 0

-----------------------------------------------------------------------------
(***************************************************************************)
(* One SQL statement either commits, fails, or commits although its caller *)
(* is told of an error (the connection or the context ended in between).   *)
(***************************************************************************)
Outcomes == {"done", "failed", "unknown"}

Landed(o) == o # "failed"

Statement(o) ==
  /\ o # "done" => faults < MaxFaults
  /\ faults' = IF o = "done" THEN faults ELSE faults + 1

\* resaRepo.UpdateStatus and resaRepo.UpdatePayment: one UPDATE each.
UpdateStatus(r, status, o) ==
  resa' = IF Landed(o) THEN Put(resa, r, [resa[r] EXCEPT !.status = status])
                       ELSE resa

\* Mutant: the id of the session is not saved with the status.
UpdatePaymentStatusOnly(r, s, payment, o) ==
  resa' = IF Landed(o) THEN Put(resa, r, [resa[r] EXCEPT !.payment = payment])
                       ELSE resa

UpdatePayment(r, s, payment, o) ==
  resa' = IF Landed(o)
          THEN Put(resa, r, [resa[r] EXCEPT !.intent = s, !.payment = payment])
          ELSE resa

Idle(h) == h \notin DOMAIN req
Doing(h, op) == h \in DOMAIN req /\ req[h].op = op
Continue(h, next) == req' = Put(req, h, next)
Finish(h) == req' = Drop(req, h)

-----------------------------------------------------------------------------
\* Creating a reservation.

\* Bound: a handler does not start an INSERT for which no primary key is left.
RoomForInsert ==
  Cardinality({h \in DOMAIN req : req[h].op = "insert"})
    < Cardinality(Reservations \ DOMAIN resa)

\* ReservationService.Create up to its INSERT: the price is the one just read.
Create(h, u, e, nights) ==
  /\ Idle(h) /\ RoomForInsert
  /\ estab[e].live /\ estab[e].available
  /\ Continue(h, [op |-> "insert", guest |-> u, lodging |-> e,
                  total |-> nights * estab[e].price])
  /\ UNCHANGED <<estab, resa, stripe, handed, acked, recorded, confirmed,
                 faults, restarts, redeploys>>

Insert(h, r, o) ==
  /\ Doing(h, "insert") /\ r \notin DOMAIN resa
  /\ Statement(o)
  /\ resa' = IF Landed(o)
             THEN Put(resa, r, [guest |-> req[h].guest, lodging |-> req[h].lodging,
                                total |-> req[h].total, status |-> "pending",
                                payment |-> "none", intent |-> NoSession])
             ELSE resa
  /\ Finish(h)
  /\ UNCHANGED <<estab, stripe, handed, acked, recorded, confirmed,
                 restarts, redeploys>>

-----------------------------------------------------------------------------
\* Changing a reservation's status.

AskStatus(h, r, status) ==
  /\ Continue(h, [op |-> "setStatus", resa |-> r, status |-> status])
  /\ UNCHANGED <<estab, resa, stripe, handed, acked, recorded, confirmed,
                 faults, restarts, redeploys>>

\* ReservationService.Cancel up to its UPDATE.
Cancel(h, u, r) ==
  /\ Idle(h) /\ r \in DOMAIN resa
  /\ resa[r].guest = u /\ resa[r].status # "cancelled"
  /\ AskStatus(h, r, "cancelled")

\* ReservationService.UpdateStatus, which the route gives to owners and admins.
ChangeStatus(h, r, status) ==
  /\ Idle(h) /\ r \in DOMAIN resa
  /\ AskStatus(h, r, status)

\* OwnerHandler.UpdateReservationStatus.
OwnerChangeStatus(h, u, r, status) ==
  /\ Idle(h) /\ r \in DOMAIN resa
  /\ estab[resa[r].lodging].live /\ OwnerOf[resa[r].lodging] = u
  /\ AskStatus(h, r, status)

SetStatus(h, o) ==
  /\ Doing(h, "setStatus")
  /\ Statement(o)
  /\ UpdateStatus(req[h].resa, req[h].status, o)
  /\ Finish(h)
  /\ UNCHANGED <<estab, stripe, handed, acked, recorded, confirmed,
                 restarts, redeploys>>

\* AdminHandler.UpdateReservationStatus reads nothing first: a lone UPDATE.
AdminSetStatus(r, status) ==
  /\ r \in DOMAIN resa
  /\ UpdateStatus(r, status, "done")
  /\ UNCHANGED <<estab, stripe, req, handed, acked, recorded, confirmed,
                 faults, restarts, redeploys>>

\* One statement of the establishment handlers: a Save writes the whole row (and
\* brings a deleted one back), SetAvailable and Delete one column.
WriteEstablishment(e, row) ==
  /\ estab' = [estab EXCEPT ![e] = row]
  /\ UNCHANGED <<resa, stripe, req, handed, acked, recorded, confirmed,
                 faults, restarts, redeploys>>

-----------------------------------------------------------------------------
\* PaymentService.CreateCheckoutSession.

\* Mutant: Stripe is asked for the price of one night.
CheckoutOneNight(h, u, r) ==
  /\ Idle(h) /\ r \in DOMAIN resa
  /\ resa[r].guest = u
  /\ resa[r].payment # "succeeded"
  /\ resa[r].total > 0
  /\ Continue(h, [op |-> "checkout", resa |-> r,
                  amount |-> estab[resa[r].lodging].price])
  /\ UNCHANGED <<estab, resa, stripe, handed, acked, recorded, confirmed,
                 faults, restarts, redeploys>>

\* The reads and the checks, up to the call to Stripe.
Checkout(h, u, r) ==
  /\ Idle(h) /\ r \in DOMAIN resa
  /\ resa[r].guest = u
  /\ resa[r].payment # "succeeded"
  /\ resa[r].total > 0
  /\ Continue(h, [op |-> "checkout", resa |-> r, amount |-> resa[r].total])
  /\ UNCHANGED <<estab, resa, stripe, handed, acked, recorded, confirmed,
                 faults, restarts, redeploys>>

OpenSession(h, s) ==
  /\ Doing(h, "checkout") /\ s \in Sessions \ DOMAIN stripe
  /\ stripe' = Put(stripe, s, [state |-> "open", resa |-> req[h].resa,
                               amount |-> req[h].amount])

\* Mutant: the URL is sent before the session id is saved.
StripeAnswersUrlFirst(h, s) ==
  /\ OpenSession(h, s)
  /\ handed' = handed \cup {s}
  /\ Continue(h, [op |-> "savePending", session |-> s])
  /\ UNCHANGED <<estab, resa, acked, recorded, confirmed,
                 faults, restarts, redeploys>>

\* Stripe answers 200 with the session.
StripeAnswers(h, s) ==
  /\ OpenSession(h, s)
  /\ Continue(h, [op |-> "savePending", session |-> s])
  /\ UNCHANGED <<estab, resa, handed, acked, recorded, confirmed,
                 faults, restarts, redeploys>>

\* The answer is lost: the session exists, and nobody here knows of it.
StripeAnswerLost(h, s) ==
  /\ OpenSession(h, s)
  /\ Finish(h)
  /\ UNCHANGED <<estab, resa, handed, acked, recorded, confirmed,
                 faults, restarts, redeploys>>

\* Stripe refuses, or is not reached.
StripeRefuses(h) ==
  /\ Doing(h, "checkout")
  /\ Finish(h)
  /\ UNCHANGED <<estab, resa, stripe, handed, acked, recorded, confirmed,
                 faults, restarts, redeploys>>

\* The session id is saved, an error of the UPDATE is only logged, and the
\* answer that follows gives the guest the session's URL.
SavePending(h, o) ==
  LET s == req[h].session IN
  /\ Doing(h, "savePending")
  /\ Statement(o)
  /\ UpdatePayment(stripe[s].resa, s, "pending", o)
  /\ handed' = handed \cup {s}
  /\ Finish(h)
  /\ UNCHANGED <<estab, stripe, acked, recorded, confirmed, restarts, redeploys>>

-----------------------------------------------------------------------------
\* PaymentService.HandleWebhook.

\* Stripe posts the session's event: at least once, in any order, and again
\* even when an earlier post is still being handled or was answered.
Deliver(h, s) ==
  /\ Idle(h) /\ s \in DOMAIN stripe /\ stripe[s].state # "open"
  /\ Continue(h, [op |-> IF stripe[s].state = "complete" THEN "mark" ELSE "expire",
                  session |-> s])
  /\ UNCHANGED <<estab, resa, stripe, handed, acked, recorded, confirmed,
                 faults, restarts, redeploys>>

\* Mutant: an error of the first UPDATE is only logged.
MarkSucceededOrLog(h, o) ==
  LET s == req[h].session IN
  /\ Doing(h, "mark")
  /\ Statement(o)
  /\ UpdatePayment(stripe[s].resa, s, "succeeded", o)
  /\ recorded' = IF Landed(o) THEN recorded \cup {s} ELSE recorded
  /\ Continue(h, [op |-> "confirm", session |-> s])
  /\ UNCHANGED <<estab, stripe, handed, acked, confirmed, restarts, redeploys>>

\* checkout.session.completed, first UPDATE: an error is answered with 400.
MarkSucceeded(h, o) ==
  LET s == req[h].session IN
  /\ Doing(h, "mark")
  /\ Statement(o)
  /\ UpdatePayment(stripe[s].resa, s, "succeeded", o)
  /\ recorded' = IF Landed(o) THEN recorded \cup {s} ELSE recorded
  /\ IF o = "done" THEN Continue(h, [op |-> "confirm", session |-> s])
                   ELSE Finish(h)
  /\ UNCHANGED <<estab, stripe, handed, acked, confirmed, restarts, redeploys>>

\* Mutant: an error of the second UPDATE is only logged.
ConfirmPaidOrLog(h, o) ==
  LET s == req[h].session IN
  /\ Doing(h, "confirm")
  /\ Statement(o)
  /\ UpdateStatus(stripe[s].resa, "confirmed", o)
  /\ confirmed' = IF Landed(o) THEN confirmed \cup {s} ELSE confirmed
  /\ acked' = acked \cup {s}
  /\ Finish(h)
  /\ UNCHANGED <<estab, stripe, handed, recorded, restarts, redeploys>>

\* Second UPDATE: only when it reports no error is the event answered with 200.
ConfirmPaid(h, o) ==
  LET s == req[h].session IN
  /\ Doing(h, "confirm")
  /\ Statement(o)
  /\ UpdateStatus(stripe[s].resa, "confirmed", o)
  /\ confirmed' = IF Landed(o) THEN confirmed \cup {s} ELSE confirmed
  /\ acked' = IF o = "done" THEN acked \cup {s} ELSE acked
  /\ Finish(h)
  /\ UNCHANGED <<estab, stripe, handed, recorded, restarts, redeploys>>

\* Mutant: Stripe's word for the session's state is saved as it is.
MarkExpiredAsIs(h, o) ==
  LET s == req[h].session IN
  /\ Doing(h, "expire")
  /\ Statement(o)
  /\ UpdatePayment(stripe[s].resa, s, "expired", o)
  /\ acked' = acked \cup {s}
  /\ Finish(h)
  /\ UNCHANGED <<estab, stripe, handed, recorded, confirmed, restarts, redeploys>>

\* checkout.session.expired: whatever the UPDATE reports, the answer is 200, and
\* the session that expired is not compared with the one the row names.
MarkExpired(h, o) ==
  LET s == req[h].session IN
  /\ Doing(h, "expire")
  /\ Statement(o)
  /\ UpdatePayment(stripe[s].resa, s, "failed", o)
  /\ acked' = acked \cup {s}
  /\ Finish(h)
  /\ UNCHANGED <<estab, stripe, handed, recorded, confirmed, restarts, redeploys>>

-----------------------------------------------------------------------------
\* Stripe and the guest's browser.

\* The guest pays: only a session whose URL reached the browser can be paid.
Pay(s) ==
  /\ s \in DOMAIN stripe \cap handed /\ stripe[s].state = "open"
  /\ stripe' = Put(stripe, s, [stripe[s] EXCEPT !.state = "complete"])
  /\ UNCHANGED <<estab, resa, req, handed, acked, recorded, confirmed,
                 faults, restarts, redeploys>>

\* An unpaid session expires.
Expire(s) ==
  /\ s \in DOMAIN stripe /\ stripe[s].state = "open"
  /\ stripe' = Put(stripe, s, [stripe[s] EXCEPT !.state = "expired"])
  /\ UNCHANGED <<estab, resa, req, handed, acked, recorded, confirmed,
                 faults, restarts, redeploys>>

-----------------------------------------------------------------------------
\* The server process stops, with the requests it was working on.
Restart ==
  /\ restarts < MaxRestarts
  /\ restarts' = restarts + 1
  /\ req' = NoRows
  /\ UNCHANGED <<estab, resa, stripe, handed, acked, recorded, confirmed,
                 faults, redeploys>>

\* The container starts again: entrypoint.sh runs every migration file, 014 adds
\* the two payment columns and, in its Down section, drops them; AutoMigrate then
\* adds them empty.
Redeploy ==
  /\ redeploys < MaxRedeploys
  /\ redeploys' = redeploys + 1
  /\ req' = NoRows
  /\ resa' = [r \in DOMAIN resa |->
                [resa[r] EXCEPT !.payment = "none", !.intent = NoSession]]
  /\ UNCHANGED <<estab, stripe, handed, acked, recorded, confirmed,
                 faults, restarts>>

-----------------------------------------------------------------------------
\* What the goroutine h does next.
Step(h) ==
  \/ \E o \in Outcomes :
       \/ \E r \in Reservations : Insert(h, r, o)
       \/ SetStatus(h, o)
       \/ SavePending(h, o)
       \/ MarkSucceeded(h, o)
       \/ ConfirmPaid(h, o)
       \/ MarkExpired(h, o)
  \/ \E s \in Sessions : StripeAnswers(h, s) \/ StripeAnswerLost(h, s)
  \/ StripeRefuses(h)

\* A request arrives and is given to h.
Arrive(h) ==
  \/ \E u \in Users, e \in Establishments, n \in Nights : Create(h, u, e, n)
  \/ \E u \in Users, r \in Reservations : Cancel(h, u, r) \/ Checkout(h, u, r)
  \/ \E r \in Reservations, st \in Statuses : ChangeStatus(h, r, st)
  \/ \E u \in Users, r \in Reservations, st \in Statuses :
       OwnerChangeStatus(h, u, r, st)
  \/ \E s \in Sessions : Deliver(h, s)

Next ==
  \/ \E h \in Handlers : Step(h) \/ Arrive(h)
  \/ \E r \in Reservations, st \in Statuses : AdminSetStatus(r, st)
  \/ \E e \in Establishments, row \in EstabRow : WriteEstablishment(e, row)
  \/ \E s \in Sessions : Pay(s) \/ Expire(s)
  \/ Restart
  \/ Redeploy

Spec == Init /\ [][Next]_vars

(***************************************************************************)
(* The Go scheduler runs every goroutine.  Stripe posts an event again     *)
(* until it is answered with 200; its posts compete with other requests    *)
(* only for the bounded Handlers of the model, hence strong fairness.      *)
(***************************************************************************)
Fairness ==
  /\ \A h \in Handlers : WF_vars(Step(h))
  /\ \A s \in Sessions : SF_vars(s \notin acked /\ \E h \in Handlers : Deliver(h, s))

FairSpec == Spec /\ Fairness

-----------------------------------------------------------------------------
(***************************************************************************)
(* Properties.                                                             *)
(***************************************************************************)

SessionsOf(r) == {s \in DOMAIN stripe : stripe[s].resa = r}

\* The session a reservation names was opened for that reservation and for its
\* whole price: CreateCheckoutSession reads the row, waits for Stripe and then
\* writes, and a webhook writes the row its metadata name.
IntentIsOwnSession ==
  \A r \in DOMAIN resa : resa[r].intent # NoSession =>
    /\ resa[r].intent \in SessionsOf(r)
    /\ stripe[resa[r].intent].amount = resa[r].total
    /\ resa[r].total > 0

\* payment_status tells the truth about the session the reservation names: it is
\* "none" when there is none, "succeeded" only if the guest paid that session and
\* "failed" only if that session expired unpaid.
PaymentMatchesStripe ==
  \A r \in DOMAIN resa :
    LET intent == resa[r].intent IN
    /\ resa[r].payment = "none" <=> intent = NoSession
    /\ resa[r].payment = "succeeded" => stripe[intent].state = "complete"
    /\ resa[r].payment = "failed" => stripe[intent].state = "expired"

\* Nothing that concerns a session (its late "pending", its event delivered
\* twice, a fault, a restart) takes back the success written for it: while the
\* reservation names a session whose success was recorded it shows "succeeded".
RecordedPaymentStands ==
  \A r \in DOMAIN resa : resa[r].payment = "succeeded" <=> resa[r].intent \in recorded

\* Stripe stops posting the event of a paid session only once both UPDATEs of
\* the webhook were made: a statement that fails or whose outcome is unknown,
\* or a restart between the two, leaves the event to be posted again.
AckedMeansRecorded ==
  \A s \in acked : stripe[s].state = "complete" => s \in recorded \cap confirmed

\* What a goroutine holds in its local variables across a statement or the call
\* to Stripe is still true when it goes on: the price it asks for, the event it
\* applies, and the session it saves as pending, which is its own and was not
\* handed out yet.
RequestAgrees(q) ==
  /\ q.op \in {"setStatus", "checkout"} => q.resa \in DOMAIN resa
  /\ q.op = "checkout" => q.amount = resa[q.resa].total /\ q.amount > 0
  /\ q.op \in {"savePending", "mark", "confirm", "expire"} => q.session \in DOMAIN stripe
  /\ q.op = "savePending" => q.session \notin handed
  /\ q.op \in {"mark", "confirm"} => stripe[q.session].state = "complete"
  /\ q.op = "expire" => stripe[q.session].state = "expired"
  /\ q.op = "confirm" => q.session \in recorded

InFlightAgrees ==
  /\ \A h \in DOMAIN req : RequestAgrees(req[h])
  /\ \A g, h \in DOMAIN req :
       g # h /\ req[g].op = "savePending" /\ req[h].op = "savePending" =>
         req[g].session # req[h].session

\* Every session is of a reservation that exists, for its whole price; it is paid
\* only after its URL was handed out, recorded only after it was paid, confirmed
\* only after it was recorded, and its event is answered only after it happened.
SessionsAgree ==
  /\ handed \cup acked \cup recorded \cup confirmed \subseteq DOMAIN stripe
  /\ confirmed \subseteq recorded
  /\ \A s \in DOMAIN stripe :
       /\ stripe[s].resa \in DOMAIN resa
       /\ stripe[s].amount = resa[stripe[s].resa].total
       /\ stripe[s].amount > 0
       /\ stripe[s].state = "complete" => s \in handed
       /\ s \in recorded => stripe[s].state = "complete"
       /\ s \in acked => stripe[s].state # "open"

\* The inductive invariant.
Consistent ==
  /\ InFlightAgrees /\ SessionsAgree
  /\ IntentIsOwnSession /\ PaymentMatchesStripe
  /\ RecordedPaymentStands /\ AckedMeansRecorded

\* What the ledger says of a session.
PhaseOf(s) ==
  IF s \notin DOMAIN stripe THEN "none"
  ELSE IF stripe[s].state # "complete" THEN stripe[s].state
  ELSE IF s \notin recorded THEN "paid"
  ELSE IF s \notin confirmed THEN "marked" ELSE "settled"

phase == [s \in Sessions |-> PhaseOf(s)]

L == INSTANCE Ledger WITH phase <- phase

\* The backend implements the ledger: in particular every payment made is
\* recorded and its booking confirmed in the end, through faults and restarts.
LedgerSpec == L!Spec

\* A guest who pays the one session ever opened for the reservation ends up, for
\* good, with a reservation shown as paid.  (The container is not redeployed.)
SolePayment(s) ==
  /\ s \in DOMAIN stripe /\ stripe[s].state = "complete"
  /\ SessionsOf(stripe[s].resa) = {s}

ShownPaid(s) == s \in DOMAIN stripe /\ resa[stripe[s].resa].payment = "succeeded"

SoleSessionSettles ==
  \A s \in Sessions : <>[]SolePayment(s) => <>[]ShownPaid(s)

\* payment_service.go:62 "reservation already paid": no checkout starts for a
\* reservation of which a session has been paid and settled.
PaidIsNotCharged ==
  [][\A h \in Handlers, u \in Users, r \in Reservations :
       Checkout(h, u, r) => SessionsOf(r) \cap recorded \cap confirmed = {}]_vars

\* entrypoint.sh:4 "Run SQL migrations/seed only once - skip if data already
\* exists": a payment recorded before the container starts again is still there.
RedeployKeepsPayments ==
  [][redeploys' # redeploys =>
       \A r \in DOMAIN resa :
         resa[r].payment = "succeeded" => resa'[r].payment = "succeeded"]_vars
=============================================================================
