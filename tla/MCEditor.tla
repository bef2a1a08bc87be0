------------------------------ MODULE MCEditor ------------------------------
(***************************************************************************)
(* Editor on the pages of Pages: one field for each way a page treats its *)
(* fields, with at most two values and one text of that field.           *)
(***************************************************************************)
EXTENDS Editor, Pages, TLC

One(S) == CHOOSE v \in S : TRUE
Another(S, v) == IF S \subseteq {v} THEN v ELSE CHOOSE w \in S : w # v

MCPress(p, f) ==
    LET control == Rows(p)
    IN  IF control.field = f THEN control.writes
        ELSE IF control.field # "" /\ control.writes = "row" THEN "touch"
        ELSE "none"
MCOffers(p, f) == IF MCPress(p, f) \in {"column", "row"} THEN Rows(p).offers
                  ELSE "none"

\* What may be typed in a field and what its rows hold.  A text whose cut ends
\* in a blank is left out: see UntouchedSaveKeepsRow.
Entered(p, f) == Typed(FormPages[p].inputs[f]) \ {"wide"}
Range(p, f) == IF f \in DOMAIN FormPages[p].form
               THEN Held(FormPages[p].inputs[f]) \ {"cut "} ELSE Ranges(p)

\* A field of a page with a form; the rows' own field need not be in it.
FormSample(p, f) ==
    LET page == FormPages[p]
        in   == f \in DOMAIN page.form
    IN  [form    |-> TRUE,
         byId    |-> page.open.update = "id",
         blank   |-> IF in THEN page.form[f] ELSE "true",
         types   |-> IF in /\ Entered(p, f) # {}
                    THEN {One(Entered(p, f))} ELSE {},
         shows   |-> IF in THEN page.open.shows[f] ELSE "same",
         sends   |-> IF in THEN page.calls.sends[f] ELSE "text",
         updates |-> IF in THEN page.updates[f] ELSE "never",
         creates |-> IF in THEN page.creates[f] ELSE "true",
         first   |-> One(Range(p, f)),
         others  |-> {Another(Range(p, f), One(Range(p, f)))},
         press   |-> MCPress(p, f), offers |-> MCOffers(p, f),
         delete  |-> page.rows.delete,
         onNew    |-> page.bar.resets, onCreate |-> page.calls.create.resets,
         onUpdate |-> page.calls.update.resets,
         onDelete |-> page.calls.delete.resets]

RowSample(p) ==
    LET f == Rows(p).field
    IN  [form |-> FALSE, byId |-> FALSE, blank |-> "", types |-> {},
         shows |-> "same", sends |-> "text", updates |-> "set",
         creates |-> "as sent", first |-> One(Ranges(p)),
         others |-> Ranges(p),
         press |-> MCPress(p, f), offers |-> MCOffers(p, f),
         delete |-> Rows(p).delete,
         onNew |-> {}, onCreate |-> {}, onUpdate |-> {},
         onDelete |-> IF Rows(p).delete = "none" THEN {}
                      ELSE RowPages[p].calls.delete.resets]

MCSamples ==
    {FormSample("lieux", "description"), FormSample("lieux", "isActive"),
     FormSample("location", "fuelType"), FormSample("publicites", "title"),
     FormSample("etablissements", "phone"),
     FormSample("etablissements", "isAvailable"),
     RowSample("hotels"), RowSample("users"), RowSample("stays")}

\* How a field is treated, its conversions aside.
Manner(x) == <<x.form, x.byId, x.press, x.delete, x.onNew, x.onCreate, x.onUpdate,
               x.onDelete, x.types = {}>>

\* Every field of every page is treated as one of these.
ASSUME EveryManner ==
    /\ \A p \in DOMAIN FormPages :
          \A f \in DOMAIN FormPages[p].form \cup ({Rows(p).field} \ {""}) :
             \E x \in MCSamples : Manner(FormSample(p, f)) = Manner(x)
    /\ \A p \in DOMAIN RowPages \ {"wiki"} :
          \E x \in MCSamples : Manner(RowSample(p)) = Manner(x)

\* In every field of every page, whatever may be typed there and whatever the
\* row may hold.
ASSUME EveryFieldRead ==
    \A p \in DOMAIN FormPages : \A f \in DOMAIN FormPages[p].form :
       WellRead([FormSample(p, f) EXCEPT !.types = Entered(p, f),
                                         !.others = Range(p, f)])
=============================================================================
