------------------------------- MODULE Ledger -------------------------------
(***************************************************************************)
(* What the booking backend owes to Stripe and to the guest, whatever its  *)
(* statements, its goroutines and its restarts do.  A Checkout session is  *)
(* opened once and is either paid or expires, never both; a payment is     *)
(* marked before it is settled; and a payment made is settled in the end.  *)
(***************************************************************************)
CONSTANT Sessions

VARIABLE phase

Phases == {"none", "open", "expired", "paid", "marked", "settled"}

TypeOK == phase \in [Sessions -> Phases]

Init == phase = [s \in Sessions |-> "none"]

Move(s, from, to) ==
  /\ phase[s] = from
  /\ phase' = [phase EXCEPT ![s] = to]

Open(s)   == Move(s, "none", "open")
Expire(s) == Move(s, "open", "expired")
Pay(s)    == Move(s, "open", "paid")
Mark(s)   == Move(s, "paid", "marked")      \* payment_status is "succeeded"
Settle(s) == Move(s, "marked", "settled")   \* and the booking was confirmed

Next == \E s \in Sessions :
          Open(s) \/ Expire(s) \/ Pay(s) \/ Mark(s) \/ Settle(s)

Safety == Init /\ [][Next]_phase

Spec == Safety /\ \A s \in Sessions : WF_phase(Mark(s) \/ Settle(s))
=============================================================================
