-------------------------------- MODULE Desk --------------------------------
(***************************************************************************)
(* One field of one row, taken through the form of its page and back, with*)
(* no one else at work: a row is opened, typed over and saved, a blank    *)
(* form is filled and saved, a control of the row is pressed.  Where      *)
(* Editor has the callbacks and their order, this is what the conversions *)
(* on the way make of a value.                                            *)
(***************************************************************************)
EXTENDS Pages

CONSTANTS NoCell   \* there is no row

VARIABLES desk,    \* the page and the field looked at
          cell,    \* what the row holds
          input,   \* the form: its text, if it is a row's, if it was typed
          stored   \* how the last step wrote the cell

deskVars == <<desk, cell, input, stored>>

FormFields == UNION {{p} \X DOMAIN FormPages[p].form : p \in DOMAIN FormPages}
RowFields  == {<<p, RowPages[p].rows.field>> : p \in DOMAIN RowPages}

ASSUME DeskAssumption == NoCell \notin Texts

OnForm == desk \in FormFields
On     == FormPages[desk[1]]
Field  == desk[2]

DeskTypeOK ==
    /\ desk \in FormFields \cup RowFields
    /\ input \in [open : BOOLEAN, text : Texts, new : BOOLEAN, typed : BOOLEAN]
    /\ stored \in {"no", "created", "typed", "untouched", "pressed"}

NoInput == [open |-> FALSE, text |-> "", new |-> FALSE, typed |-> FALSE]

DeskInit ==
    /\ desk \in FormFields \cup RowFields
    /\ cell \in IF OnForm THEN Held(On.inputs[Field]) \cup {NoCell} ELSE Ranges(desk[1])
    /\ input = NoInput
    /\ stored = "no"

-----------------------------------------------------------------------------
OpenBlank ==
    /\ OnForm /\ ~input.open /\ cell = NoCell
    /\ input' = [open |-> TRUE, text |-> On.form[Field], new |-> TRUE, typed |-> FALSE]
    /\ stored' = "no"
    /\ UNCHANGED <<desk, cell>>

OpenCell ==
    /\ OnForm /\ ~input.open /\ cell # NoCell
    /\ input' = [open |-> TRUE, text |-> Shown(On.open.shows[Field], cell),
                 new |-> FALSE, typed |-> FALSE]
    /\ stored' = "no"
    /\ UNCHANGED <<desk, cell>>

TypeOver ==
    /\ input.open
    /\ \E t \in Typed(On.inputs[Field]) : input' = [input EXCEPT !.text = t, !.typed = TRUE]
    /\ stored' = "no"
    /\ UNCHANGED <<desk, cell>>

\* A form is saved with text its inputs allow; some fields have no input.
Acceptable == \/ input.typed \/ ~input.new \/ On.inputs[Field] = "none"
              \/ input.text \in Typed(On.inputs[Field])

SaveCell ==
    /\ input.open /\ Acceptable
    /\ LET sent == Sent(On.calls.sends[Field], input.text)
       IN  IF input.new THEN cell' = Created(On.creates[Field], sent) /\ stored' = "created"
           ELSE cell' = Updated(On.updates[Field], cell, sent)
                /\ stored' = IF input.typed THEN "typed" ELSE "untouched"
    /\ input' = [input EXCEPT !.open = FALSE]
    /\ UNCHANGED desk

\* What the list makes of the row; one page takes its list from another.
Listed == desk[1] = "wiki" => WikiListed(cell)
Seen   == IF desk[1] = "wiki" THEN WikiSeen(cell) ELSE cell

\* The control of a row that is listed, where this is its field.
PressCell ==
    /\ ~input.open /\ cell # NoCell /\ Rows(desk[1]).field = Field
    /\ Listed
    /\ cell' \in Offered(Rows(desk[1]).offers, Seen)
    /\ input' = NoInput /\ stored' = "pressed"
    /\ UNCHANGED desk

DeskNext == OpenBlank \/ OpenCell \/ TypeOver \/ SaveCell \/ PressCell

DeskSpec == DeskInit /\ [][DeskNext]_deskVars

-----------------------------------------------------------------------------
(* Properties. *)

\* What the text stands for: an empty number is zero, an empty choice or
\* moment is no value, a list has no empty element, and the blanks around a
\* line are not part of it.
Meant(how, t) ==
    CASE how \in {"line", "line*"} /\ t = " " -> ""
      [] how \in {"line", "line*"} /\ t = "a " -> "a"
      [] how \in {"number", "number*", "seats"} /\ t = "" -> "0"
      [] how \in {"regions", "moment"} /\ t = "" -> "NULL"
      [] how = "list" /\ t = "a," -> "a"
      [] OTHER -> t

\* The fields in which an update may store something else than was typed.
LostOnUpdate ==
    ({"lieux"} \X {"description", "lat", "lng", "regionId"})
    \cup ({"location"} \X {"seats", "regionId"})
    \cup ({"publicites"} \X {"startsAt", "endsAt"})
    \cup ({"etablissements"} \X {"placeId", "priceMinFcfa", "priceMaxFcfa", "phone",
                                  "email", "website"})

LostOnCreate ==
    {<<"lieux", "isActive">>, <<"location", "isAvailable">>, <<"location", "seats">>,
     <<"publicites", "isActive">>, <<"publicites", "startsAt">>, <<"publicites", "endsAt">>}

\* The texts that are cut, and what is left where the cut came behind a blank.
TooLong == {"long", "wide"}
CutAtBlank == "cut "

(***************************************************************************)
(* Opening a row and saving it untouched stores what it held, in every    *)
(* field of every form: what openEdit writes into the form the mutation   *)
(* reads back, whatever the two conversions are and whatever the service  *)
(* does with blanks.  But for one: the title of an advertisement that was *)
(* cut behind a blank loses that blank.                                    *)
(***************************************************************************)
UntouchedSaveKeepsRow ==
    [][stored' = "untouched" => cell' = IF cell = CutAtBlank THEN "cut" ELSE cell]_deskVars

(***************************************************************************)
(* What is typed is what an update stores, but for these: a description   *)
(* or a contact cannot be cleared, nor a coordinate or a price put to     *)
(* zero (the service keeps the old value), a region is never changed, a   *)
(* car has five seats rather than none, the period of an advertisement is *)
(* not stored, and an establishment keeps its place.  And what a creation *)
(* stores, but for these: what is created switched off is switched on (the*)
(* column's default replaces false), and again the seats and the period.  *)
(* A text of an advertisement that is too long for its column is cut, by  *)
(* either, and nothing tells the page.                                     *)
(***************************************************************************)
SavesStoreWhatIsTyped ==
    \/ stored = "typed" /\ desk \notin LostOnUpdate
    \/ stored = "created" /\ desk \notin LostOnCreate
    => input.text \in TooLong \/ cell = Meant(On.inputs[Field], input.text)

(***************************************************************************)
(* Pressing a row's control changes the row, on every page but one: the   *)
(* moderation lists the approved articles only and shows them as waiting, *)
(* so that it can approve what is approved and do nothing else.           *)
(***************************************************************************)
ControlsChangeTheirRows ==
    [][stored' = "pressed" => (cell' # cell <=> desk[1] # "wiki")]_deskVars
=============================================================================
