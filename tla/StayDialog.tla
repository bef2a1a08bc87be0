------------------------------ MODULE StayDialog ------------------------------
(***************************************************************************)
(* Asking for a stay in one establishment: the dialog, opened from a card *)
(* of the list or from the page of the establishment, and the requests it  *)
(* sends, while the owner changes the price or closes the house.  What     *)
(* becomes of a reservation that is stored is in Booking.                  *)
(***************************************************************************)
EXTENDS Integers, Sequences, FiniteSets

CONSTANTS NightPrices,
          Days,        \* the dates one can type, 0 for none
          Today,
          NotRead, NoDialog, NotStored,
          MaxDialogs, MaxStays, MaxUpsets   \* bounds; the last: on writes and losses

ASSUME StayAssumption ==
    /\ NightPrices \subseteq Nat /\ Days \subseteq Nat /\ 0 \in Days /\ Today \in Nat \ {0}
    /\ {NotRead, NotStored, NoDialog} \cap Nat = {}
    /\ MaxDialogs \in Nat /\ MaxStays \in Nat /\ MaxUpsets \in Nat

VARIABLES house,     \* the establishment
          at,        \* the page the visitor is on
          dialog,
          stays,     \* the requests the dialogs sent
          opened, upsets   \* counts, for the bounds

dialogVars == <<house, at, dialog, stays, opened, upsets>>

\* A page shows the price it was answered.
PageAt == [page : {"list", "detail"}, price : NightPrices \cup {NotRead}]

Dialog == [id : 1..MaxDialogs, price : NightPrices, in : Days, out : Days,
           status : {"editing", "loading", "success"}]

StayRequest == [stage : {"sent", "stored", "refused", "told", "lost"},
                dialog : 1..MaxDialogs, in : Days, out : Days, shown : Nat,
                seen : NightPrices, total : Nat \cup {NotStored},
                price : NightPrices \cup {NotStored}]

DialogTypeOK ==
    /\ house \in [price : NightPrices, free : BOOLEAN]
    /\ at \in PageAt
    /\ IF dialog = NoDialog THEN TRUE ELSE dialog \in Dialog /\ dialog.id = opened
    /\ Len(stays) <= MaxStays /\ \A k \in DOMAIN stays : stays[k] \in StayRequest
    /\ opened \in 0..MaxDialogs /\ upsets \in 0..MaxUpsets

DialogInit ==
    /\ house \in [price : NightPrices, free : {TRUE}]
    /\ at = [page |-> "list", price |-> NotRead]
    /\ dialog = NoDialog /\ stays = <<>>
    /\ opened = 0 /\ upsets = 0

-----------------------------------------------------------------------------
\* The list is read, with the houses that are free; the page of one
\* establishment shows it whether it is or not.  Either may be read again
\* while the dialog is open.
ReadHouse ==
    /\ at.page = "list" => house.free
    /\ at' = [at EXCEPT !.price = house.price]
    /\ UNCHANGED <<house, dialog, stays, opened, upsets>>

TurnTo ==
    /\ dialog = NoDialog
    /\ \E p \in {"list", "detail"} \ {at.page} : at' = [page |-> p, price |-> NotRead]
    /\ UNCHANGED <<house, dialog, stays, opened, upsets>>

OpenDialog ==
    /\ dialog = NoDialog /\ at.price # NotRead /\ opened < MaxDialogs
    /\ dialog' = [id |-> opened + 1, price |-> at.price, in |-> 0, out |-> 0,
                  status |-> "editing"]
    /\ opened' = opened + 1
    /\ UNCHANGED <<house, at, stays, upsets>>

\* The list hands the dialog the row of the card that was pressed; the page
\* of the establishment hands it the row it shows, whenever that is.
PriceSeen == IF at.page = "detail" THEN at.price ELSE dialog.price

\* Mutant: the nights are counted as on the cards of the list.
NightsShown_card == IF dialog.in # 0 /\ dialog.out > dialog.in
                    THEN dialog.out - dialog.in ELSE 1

NightsShown == IF dialog.in # 0 /\ dialog.out > dialog.in THEN dialog.out - dialog.in ELSE 0

\* A total of zero is not shown.
TotalShown == NightsShown * PriceSeen

\* The dates are no form's: their bounds are not enforced.  They stay
\* editable while the request is under way.
TypeDates ==
    /\ dialog # NoDialog /\ dialog.status # "success"
    /\ \E d \in Days : \/ dialog' = [dialog EXCEPT !.in = d]
                       \/ dialog' = [dialog EXCEPT !.out = d]
    /\ UNCHANGED <<house, at, stays, opened, upsets>>

SubmitStay ==
    /\ dialog # NoDialog /\ dialog.status = "editing"
    /\ dialog.in # 0 /\ Len(stays) < MaxStays
    /\ dialog' = [dialog EXCEPT !.status = "loading"]
    /\ stays' = Append(stays, [stage |-> "sent", dialog |-> dialog.id, in |-> dialog.in,
                               out |-> dialog.out, shown |-> TotalShown,
                               seen |-> PriceSeen, total |-> NotStored, price |-> NotStored])
    /\ UNCHANGED <<house, at, opened, upsets>>

\* The close button, the backdrop, or the login page when nobody is logged
\* in; also while a request is under way, whose outcome is shown nowhere.
CloseDialog ==
    /\ dialog # NoDialog
    /\ dialog' = NoDialog
    /\ UNCHANGED <<house, at, stays, opened, upsets>>

-----------------------------------------------------------------------------
DatesAccepted(s) == s.in >= Today /\ (s.out = 0 \/ s.out > s.in)

\* The two statements of the server are told apart in Booking.
ServeStay(k) ==
    /\ stays[k].stage = "sent"
    /\ LET s == stays[k]
       IN  stays' = [stays EXCEPT ![k] =
              IF DatesAccepted(s) /\ house.free
              THEN [@ EXCEPT !.stage = "stored", !.price = house.price,
                             !.total = IF s.out = 0 THEN 0 ELSE (s.out - s.in) * house.price]
              ELSE [@ EXCEPT !.stage = "refused"]]
    /\ UNCHANGED <<house, at, dialog, opened, upsets>>

\* The dialog that sent the request, if it is still there, is told.
StayTold(k, status) ==
    dialog' = IF dialog = NoDialog THEN NoDialog
              ELSE IF dialog.id # stays[k].dialog THEN dialog
              ELSE [dialog EXCEPT !.status = status]

StayAnswered(k) ==
    /\ stays[k].stage \in {"stored", "refused"}
    /\ StayTold(k, IF stays[k].stage = "stored" THEN "success" ELSE "editing")
    /\ stays' = [stays EXCEPT ![k].stage = "told"]
    /\ UNCHANGED <<house, at, opened, upsets>>

\* The request is lost, or its answer: the dialog says that something failed.
StayLost(k) ==
    /\ stays[k].stage \in {"sent", "stored"} /\ upsets < MaxUpsets
    /\ StayTold(k, "editing")
    /\ stays' = [stays EXCEPT ![k].stage = "lost"]
    /\ upsets' = upsets + 1
    /\ UNCHANGED <<house, at, opened>>

\* The owner, or an administrator, writes the establishment.
HouseChanges ==
    /\ upsets < MaxUpsets
    /\ \E h \in [price : NightPrices, free : BOOLEAN] \ {house} : house' = h
    /\ upsets' = upsets + 1
    /\ UNCHANGED <<at, dialog, stays, opened>>

DialogNext ==
    \/ ReadHouse \/ TurnTo \/ OpenDialog \/ TypeDates \/ SubmitStay \/ CloseDialog
    \/ \E k \in DOMAIN stays : ServeStay(k) \/ StayAnswered(k) \/ StayLost(k)
    \/ HouseChanges

DialogSpec == DialogInit /\ [][DialogNext]_dialogVars

-----------------------------------------------------------------------------
(***************************************************************************)
(* A reservation is stored with the total the visitor was shown when they *)
(* pressed the button, whichever page the dialog was opened from and       *)
(* whatever was typed or read since, unless the price changed after the    *)
(* page had it; and a dialog stores two only when an answer was lost.      *)
(***************************************************************************)
ReservedAsShown ==
    \A k \in DOMAIN stays : stays[k].total # NotStored =>
        /\ stays[k].price = stays[k].seen => stays[k].total = stays[k].shown
        /\ \A j \in DOMAIN stays \ {k} :
              stays[j].total # NotStored /\ stays[j].dialog = stays[k].dialog
              => "lost" \in {stays[j].stage, stays[k].stage}
=============================================================================
