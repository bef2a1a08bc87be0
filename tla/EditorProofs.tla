---------------------------- MODULE EditorProofs ----------------------------
(***************************************************************************)
(* Editor, for every set of samples that the pages' common rules allow and*)
(* every bound: type correctness, the row that a save goes to, what a list *)
(* at rest shows, the rows a form makes, and what a save overwrites.       *)
(***************************************************************************)
EXTENDS Editor, TLAPS

Bodies == {"create", "update", "press", "touch", "delete"}

\* A conversion of a value is a value.
LEMMA Converted ==
  ASSUME NEW x \in Sample, NEW t \in Values, NEW old \in Values
  PROVE  /\ Shown(x.shows, t) \in Values
         /\ Sent(x.sends, t) \in Values
         /\ Updated(x.updates, old, t) \in Values
         /\ Created(x.creates, t) \in Values
         /\ Offered(x.offers, t) \subseteq Values
<1>1. /\ x.shows \in {"same", "blank"}
      /\ x.sends \in {"0", "3", "5", "int", "null", "list", "text"}
      /\ x.updates \in {"set", "sanitized", "nonblank", "anchored", "never"}
      /\ x.creates \in {"as sent", "sanitized", "true", "null"}
      /\ x.offers \in {"none", "negation", "another"}
  BY DEF Sample
<1>2. Shown(x.shows, t) \in Values
  BY DEF Shown, Values, Texts
<1>3. Sent(x.sends, t) \in Values
  BY <1>1 DEF Sent, Values, Texts
<1>4. Sanitized(t) \in Values
  BY DEF Sanitized, Values, Texts
<1>5. Updated(x.updates, old, t) \in Values
  BY <1>1, <1>4 DEF Updated
<1>6. Created(x.creates, t) \in Values
  BY <1>1, <1>4 DEF Created, Values, Texts
<1>7. Offered(x.offers, t) \subseteq Values
  BY <1>1 DEF Offered, Values, Texts
<1>8. QED
  BY <1>2, <1>3, <1>5, <1>6, <1>7

\* What a sample is made of, as the actions use it.
LEMMA SampleFields ==
  ASSUME NEW x \in Sample
  PROVE  /\ x.form \in BOOLEAN /\ x.byId \in BOOLEAN
         /\ x.blank \in Values /\ x.first \in Values
         /\ x.types \subseteq Values /\ x.others \subseteq Values
BY DEF Sample, Resets

\* An empty form is a form.
LEMMA BlankForms ==
  ASSUME is \in Sample, NEW n \in 0..MaxForms
  PROVE  /\ Blank(n) \in FormState
         /\ Blank(n).row = NoId
<1>1. is.blank \in Values
  BY SampleFields
<1>2. 0 \in Clock
  BY EditorAssumption DEF Clock
<1>3. QED
  BY <1>1, <1>2 DEF Blank, FormState

\* A call that is new.
LEMMA NewRequest ==
  ASSUME is \in Sample, NEW op \in Bodies, NEW i \in Ids \cup {NoId},
         NEW body \in Values, NEW f \in FormState
  PROVE  Request(op, i, body, f) \in Call
<1>1. is.blank \in Values
  BY SampleFields
<1>2. 0 \in Clock
  BY EditorAssumption DEF Clock
<1>3. [f EXCEPT !.text = is.blank] \in FormState
  BY <1>1 DEF FormState
<1>4. QED
  BY <1>2, <1>3 DEF Request, Call, Bodies

-----------------------------------------------------------------------------
(* Type correctness. *)

\* A call names a row unless it makes one, and has a value once it has read.
CallsWell ==
    \A s \in Slots :
        UnderWay(s) => /\ calls[s].op # "create" => calls[s].id \in Ids
                       /\ calls[s].stage = "read" => calls[s].was \in Values
TypeInv == TypeOK /\ CallsWell

\* The bounds, and that the marks are no calls and no snapshots.
LEMMA Marks ==
  /\ NoId \notin Ids /\ 0 \in Clock /\ 0 \in 0..MaxForms
  /\ None \notin Call /\ Over \notin Call /\ None \notin Values
  /\ None \notin Row /\ None \notin Snapshot /\ Waiting \notin Snapshot
  /\ None \notin {"create", "edit"} /\ Waiting # None
BY EditorAssumption DEF NoId, Ids, Clock

\* A slot whose call is under way holds a call.
LEMMA CallUnderWay ==
  ASSUME TypeOK, NEW s \in Slots, UnderWay(s)
  PROVE  calls[s] \in Call
BY DEF TypeOK, UnderWay

\* What a call that is placed leaves.
LEMMA Placed ==
  ASSUME TypeInv, NEW c \in Call, Place(c), c.op # "create" => c.id \in Ids,
         c.stage = "sent"
  PROVE  /\ calls' \in [Slots -> Call \cup {None, Over}]
         /\ CallsWell'
         /\ \E s \in Slots : /\ ~UnderWay(s) /\ UnderWay(s)' /\ calls'[s] = c
                             /\ \A r \in Slots \ {s} : calls'[r] = calls[r]
<1>1. PICK s \in Slots : calls[s] = None /\ calls' = [calls EXCEPT ![s] = c]
  BY DEF Place
<1>2. calls' \in [Slots -> Call \cup {None, Over}]
  BY <1>1 DEF TypeInv, TypeOK
<1>3. \A r \in Slots : calls'[r] = IF r = s THEN c ELSE calls[r]
  BY <1>1 DEF TypeInv, TypeOK
<1>4. CallsWell'
  BY <1>3 DEF TypeInv, CallsWell, UnderWay
<1>5. QED
  BY <1>1, <1>2, <1>3, <1>4, Marks DEF UnderWay

\* A call that has ended.
LEMMA Ended ==
  ASSUME TypeInv, NEW s \in Slots, calls' = [calls EXCEPT ![s] = Over]
  PROVE  /\ calls' \in [Slots -> Call \cup {None, Over}]
         /\ CallsWell'
         /\ ~UnderWay(s)'
         /\ \A r \in Slots \ {s} : calls'[r] = calls[r]
<1>1. calls' \in [Slots -> Call \cup {None, Over}]
  BY DEF TypeInv, TypeOK
<1>2. \A r \in Slots : calls'[r] = IF r = s THEN Over ELSE calls[r]
  BY DEF TypeInv, TypeOK
<1>3. QED
  BY <1>1, <1>2 DEF TypeInv, CallsWell, UnderWay

\* A call that goes on to another stage.
LEMMA Staged ==
  ASSUME TypeInv, NEW s \in Slots, UnderWay(s),
         NEW stage \in {"sent", "read", "done"}, NEW was \in Values \cup {None},
         NEW when \in Clock, stage = "read" => was \in Values,
         calls' = [calls EXCEPT ![s].stage = stage, ![s].when = when,
                                ![s].was = was]
  PROVE  /\ calls' \in [Slots -> Call \cup {None, Over}]
         /\ CallsWell'
         /\ UnderWay(s)'
         /\ calls'[s].op = calls[s].op /\ calls'[s].id = calls[s].id
         /\ calls'[s].form = calls[s].form /\ calls'[s].mine = calls[s].mine
         /\ calls'[s].stage = stage /\ calls'[s].when = when
         /\ \A r \in Slots \ {s} : calls'[r] = calls[r]
<1> DEFINE row == [calls[s] EXCEPT !.stage = stage, !.when = when, !.was = was]
<1>1. calls[s] \in Call
  BY CallUnderWay DEF TypeInv
<1>2. /\ row \in Call
      /\ row.op = calls[s].op /\ row.id = calls[s].id
      /\ row.form = calls[s].form /\ row.mine = calls[s].mine
      /\ row.stage = stage /\ row.when = when /\ row.was = was
  BY <1>1 DEF Call
<1>3. calls' = [calls EXCEPT ![s] = row]
  BY DEF TypeInv, TypeOK
<1> HIDE DEF row
<1>4. \A r \in Slots : calls'[r] = IF r = s THEN row ELSE calls[r]
  BY <1>3 DEF TypeInv, TypeOK
<1>5. calls' \in [Slots -> Call \cup {None, Over}]
  BY <1>2, <1>3 DEF TypeInv, TypeOK
<1>6. UnderWay(s)'
  BY <1>2, <1>4, Marks DEF UnderWay
<1>7. CallsWell'
  BY <1>2, <1>4, <1>6 DEF TypeInv, CallsWell, UnderWay
<1>8. QED
  BY <1>2, <1>4, <1>5, <1>6, <1>7

\* A call that is done.
LEMMA Done ==
  ASSUME TypeInv, NEW s \in Slots, UnderWay(s), Advance(s, "done"), clock' \in Clock
  PROVE  /\ calls' \in [Slots -> Call \cup {None, Over}]
         /\ CallsWell' /\ UnderWay(s)'
         /\ calls'[s].op = calls[s].op /\ calls'[s].id = calls[s].id
         /\ calls'[s].form = calls[s].form /\ calls'[s].mine = calls[s].mine
         /\ calls'[s].stage = "done" /\ calls'[s].when = clock'
         /\ \A r \in Slots \ {s} : calls'[r] = calls[r]
<1> DEFINE row == [calls[s] EXCEPT !.stage = "done", !.when = clock', !.was = None]
<1>1. calls[s] \in Call
  BY CallUnderWay DEF TypeInv
<1>2. /\ row \in Call
      /\ row.op = calls[s].op /\ row.id = calls[s].id
      /\ row.form = calls[s].form /\ row.mine = calls[s].mine
      /\ row.stage = "done" /\ row.when = clock' /\ row.was = None
  BY <1>1 DEF Call
<1>3. calls' = [calls EXCEPT ![s] = row]
  BY DEF Advance, TypeInv, TypeOK
<1> HIDE DEF row
<1>4. \A r \in Slots : calls'[r] = IF r = s THEN row ELSE calls[r]
  BY <1>3 DEF TypeInv, TypeOK
<1>5. calls' \in [Slots -> Call \cup {None, Over}]
  BY <1>2, <1>3 DEF TypeInv, TypeOK
<1>6. UnderWay(s)'
  BY <1>2, <1>4, Marks DEF UnderWay
<1>7. CallsWell'
  BY <1>2, <1>4, <1>6 DEF TypeInv, CallsWell, UnderWay
<1>8. QED
  BY <1>2, <1>4, <1>5, <1>6, <1>7

\* The state in which a page is opened is well typed.
LEMMA InitTypes == Init => TypeInv
<1> SUFFICES ASSUME Init PROVE TypeInv
  OBVIOUS
<1>1. is \in Sample /\ is.first \in Values
  BY EditorAssumption, SampleFields DEF Init
<1>2. form \in FormState
  BY <1>1, BlankForms, Marks DEF Init
<1>3. rows \in [Ids -> Row \cup {None}]
  BY <1>1, Marks DEF Init, Row
<1>4. lost \in SUBSET Forms /\ made \in [Forms -> Nat]
  BY Marks DEF Init, Clock
<1>5. TypeOK
  BY <1>1, <1>2, <1>3, <1>4, Marks DEF Init, TypeOK
<1>6. QED
  BY <1>5 DEF Init, TypeInv, CallsWell, UnderWay

\* The query: nothing else changes.
LEMMA QueryTypes ==
  ASSUME TypeInv, Return \/ Refetch \/ Query
  PROVE  TypeInv'
<1>1. CASE Return \/ Refetch
  BY <1>1 DEF Return, Refetch, TypeInv, TypeOK, CallsWell, UnderWay, server, query,
              states, ghosts
<1>2. CASE FetchRead
  <2>1. fetch' \in Snapshot
    <3>1. [i \in Ids |-> IF Live(i) THEN rows[i].v ELSE None]
             \in [Ids -> Values \cup {None}]
      BY DEF Live, TypeInv, TypeOK, Row
    <3>2. QED
      BY <1>2, <3>1 DEF FetchRead, Snapshot, TypeInv, TypeOK
  <2>2. QED
    BY <1>2, <2>1 DEF FetchRead, TypeInv, TypeOK, CallsWell, UnderWay, server,
                      states, ghosts
<1>3. CASE FetchArrives \/ FetchFails
  BY <1>3 DEF FetchArrives, FetchFails, TypeInv, TypeOK, CallsWell, UnderWay,
              server, states, ghosts
<1>4. QED
  BY <1>1, <1>2, <1>3 DEF Query

\* Leaving the page marks its calls and leaves them as they are otherwise.
LEMMA LeaveTypes ==
  ASSUME TypeInv, Leave
  PROVE  /\ TypeInv'
         /\ \A s \in Slots : /\ UnderWay(s)' <=> UnderWay(s)
                             /\ UnderWay(s) =>
                                   /\ calls'[s].op = calls[s].op
                                   /\ calls'[s].id = calls[s].id
                                   /\ calls'[s].form = calls[s].form
                                   /\ calls'[s].stage = calls[s].stage
                                   /\ calls'[s].when = calls[s].when
                                   /\ calls'[s].mine = FALSE
<1>1. ASSUME NEW s \in Slots
      PROVE  /\ calls'[s] \in Call \cup {None, Over}
             /\ UnderWay(s)' <=> UnderWay(s)
             /\ UnderWay(s) =>
                   /\ calls'[s].op = calls[s].op /\ calls'[s].id = calls[s].id
                   /\ calls'[s].form = calls[s].form
                   /\ calls'[s].stage = calls[s].stage
                   /\ calls'[s].when = calls[s].when
                   /\ calls'[s].was = calls[s].was /\ calls'[s].mine = FALSE
  <2> DEFINE row == [calls[s] EXCEPT !.mine = FALSE]
  <2>1. CASE UnderWay(s)
    <3>1. calls[s] \in Call
      BY <2>1, CallUnderWay DEF TypeInv
    <3>2. /\ row \in Call
          /\ row.op = calls[s].op /\ row.id = calls[s].id
          /\ row.form = calls[s].form /\ row.stage = calls[s].stage
          /\ row.when = calls[s].when /\ row.was = calls[s].was
          /\ row.mine = FALSE
      BY <3>1 DEF Call
    <3>3. calls'[s] = row
      BY <2>1 DEF Leave
    <3>4. QED
      BY <2>1, <3>2, <3>3, Marks DEF UnderWay
  <2>2. CASE ~UnderWay(s)
    <3>1. calls'[s] = calls[s]
      BY <2>2 DEF Leave
    <3>2. QED
      BY <2>2, <3>1 DEF UnderWay
  <2>3. QED
    BY <2>1, <2>2
<1>2. calls' \in [Slots -> Call \cup {None, Over}]
  BY <1>1 DEF Leave
<1>3. CallsWell'
  BY <1>1 DEF TypeInv, CallsWell
<1>4. form' \in FormState
  BY BlankForms, Marks DEF Leave, TypeInv, TypeOK
<1>5. TypeOK'
  BY <1>2, <1>4, Marks DEF Leave, TypeInv, TypeOK, server, query, ghosts
<1>6. QED
  BY <1>1, <1>3, <1>5 DEF TypeInv

\* The form and the dialogs: no call changes.
LEMMA DialogTypes ==
  ASSUME TypeInv, OpenNew \/ OpenEdit \/ Type \/ CloseForm \/ AskDelete \/ CancelDelete
  PROVE  TypeInv' /\ calls' = calls
<1> USE DEF TypeInv
<1>1. is \in Sample /\ form \in FormState /\ 0 \in 0..MaxForms
  BY Marks DEF TypeOK
<1>2. CASE OpenNew
  <2>1. opened' \in 0..MaxForms
    BY <1>2, EditorAssumption DEF OpenNew, TypeOK
  <2>2. form' \in FormState
    <3>1. Blank(opened') \in FormState
      BY <1>1, <2>1, BlankForms
    <3>2. [form EXCEPT !.n = opened'] \in FormState
      BY <1>1, <2>1 DEF FormState
    <3>3. QED
      BY <1>2, <3>1, <3>2 DEF OpenNew
  <2>3. QED
    BY <1>2, <2>1, <2>2 DEF OpenNew, TypeOK, CallsWell, UnderWay, server, query
<1>3. CASE OpenEdit
  <2>1. opened' \in 0..MaxForms
    BY <1>3, EditorAssumption DEF OpenEdit, TypeOK
  <2>2. PICK i \in Ids :
           /\ Visible(i)
           /\ form' = [text |-> Shown(is.shows, list.of[i]), row |-> i,
                       when |-> list.when, typed |-> FALSE, n |-> opened']
           /\ id' = i
    BY <1>3 DEF OpenEdit
  <2>3. list.of[i] \in Values /\ list.when \in Clock
    BY <2>2 DEF Visible, TypeOK, Snapshot
  <2>4. form' \in FormState
    BY <1>1, <2>1, <2>2, <2>3, Converted DEF FormState
  <2>5. QED
    BY <1>3, <2>1, <2>2, <2>4
       DEF OpenEdit, TypeOK, CallsWell, UnderWay, server, query
<1>4. CASE Type
  <2>1. form' \in FormState
    BY <1>1, <1>4, SampleFields DEF Type, FormState
  <2>2. QED
    BY <1>4, <2>1 DEF Type, TypeOK, CallsWell, UnderWay, server, query, ghosts
<1>5. CASE CloseForm
  <2>1. form' \in FormState
    BY <1>1, <1>5, BlankForms DEF CloseForm
  <2>2. QED
    BY <1>5, <2>1 DEF CloseForm, TypeOK, CallsWell, UnderWay, server, query, ghosts
<1>6. CASE AskDelete \/ CancelDelete
  BY <1>6 DEF AskDelete, CancelDelete, TypeOK, CallsWell, UnderWay, server, query,
              ghosts
<1>7. QED
  BY <1>2, <1>3, <1>4, <1>5, <1>6

\* What is sent when the form is submitted.
Saves == IF Updates THEN Request("update", id, Sent(is.sends, form.text), form)
                    ELSE Request("create", NoId, Sent(is.sends, form.text), form)

\* Submitting puts the save in a free slot.
LEMMA SubmitTypes ==
  ASSUME TypeInv, Submit
  PROVE  /\ TypeInv'
         /\ \E s \in Slots : /\ ~UnderWay(s) /\ UnderWay(s)' /\ calls'[s] = Saves
                             /\ \A r \in Slots \ {s} : calls'[r] = calls[r]
<1>1. is \in Sample /\ form \in FormState /\ form.text \in Values
  BY DEF TypeInv, TypeOK, FormState
<1>2. Sent(is.sends, form.text) \in Values
  BY <1>1, Converted
<1>3. Place(Saves)
  BY DEF Submit, Saves
<1>4. /\ Saves \in Call /\ Saves.stage = "sent"
      /\ Saves.op # "create" => Saves.id \in Ids
  <2>1. CASE Updates
    <3>1. id \in Ids
      BY <2>1 DEF Updates, TypeInv, TypeOK
    <3>2. Saves \in Call
      BY <1>1, <1>2, <2>1, <3>1, NewRequest DEF Saves, Bodies
    <3>3. Saves.stage = "sent" /\ Saves.id = id
      BY <2>1 DEF Saves, Request
    <3>4. QED
      BY <3>1, <3>2, <3>3
  <2>2. CASE ~Updates
    <3>1. Saves \in Call
      BY <1>1, <1>2, <2>2, NewRequest DEF Saves, Bodies
    <3>2. Saves.stage = "sent" /\ Saves.op = "create"
      BY <2>2 DEF Saves, Request
    <3>3. QED
      BY <3>1, <3>2
  <2>3. QED
    BY <2>1, <2>2
<1>5. /\ calls' \in [Slots -> Call \cup {None, Over}] /\ CallsWell'
      /\ \E s \in Slots : /\ ~UnderWay(s) /\ UnderWay(s)' /\ calls'[s] = Saves
                          /\ \A r \in Slots \ {s} : calls'[r] = calls[r]
  BY <1>3, <1>4, Placed
<1>6. QED
  BY <1>5 DEF Submit, TypeInv, TypeOK, server, query, states, ghosts

\* A deletion or a control: a call about a row.
LEMMA RowCallTypes ==
  ASSUME TypeInv, ConfirmDelete \/ Press
  PROVE  /\ TypeInv'
         /\ \E s \in Slots : /\ ~UnderWay(s) /\ UnderWay(s)'
                             /\ calls'[s].op \in {"delete", "press", "touch"}
                             /\ calls'[s].stage = "sent"
                             /\ \A r \in Slots \ {s} : calls'[r] = calls[r]
<1>1. is \in Sample /\ is.blank \in Values /\ Blank(0) \in FormState
  BY BlankForms, SampleFields, Marks DEF TypeInv, TypeOK
<1>2. PICK op \in {"delete", "press", "touch"}, i \in Ids, v \in Values :
         Place(Request(op, i, v, Blank(0)))
  <2>1. CASE ConfirmDelete
    BY <1>1, <2>1 DEF ConfirmDelete, TypeInv, TypeOK
  <2>2. CASE Press
    <3>1. PICK i \in Ids :
             /\ Visible(i)
             /\ IF is.press = "touch"
                THEN Place(Request("touch", i, is.blank, Blank(0)))
                ELSE \E v \in Offered(is.offers, list.of[i]) :
                        Place(Request("press", i, v, Blank(0)))
      BY <2>2 DEF Press
    <3>2. list.of[i] \in Values
      BY <3>1 DEF Visible, TypeInv, TypeOK, Snapshot
    <3>3. Offered(is.offers, list.of[i]) \subseteq Values
      BY <1>1, <3>2, Converted
    <3>4. QED
      BY <1>1, <3>1, <3>3
  <2>3. QED
    BY <2>1, <2>2
<1> DEFINE c == Request(op, i, v, Blank(0))
<1>3. c \in Call /\ c.op = op /\ c.id = i /\ c.stage = "sent"
  <2>1. c \in Call
    BY <1>1, NewRequest DEF Bodies
  <2>2. c.op = op /\ c.id = i /\ c.stage = "sent"
    BY DEF Request
  <2>3. QED
    BY <2>1, <2>2
<1> HIDE DEF c
<1>4. /\ calls' \in [Slots -> Call \cup {None, Over}] /\ CallsWell'
      /\ \E s \in Slots : /\ ~UnderWay(s) /\ UnderWay(s)'
                          /\ calls'[s] = c
                          /\ \A r \in Slots \ {s} : calls'[r] = calls[r]
  BY <1>2, <1>3, Placed DEF c
<1>5. TypeInv'
  BY <1>4 DEF ConfirmDelete, Press, TypeInv, TypeOK, server, query, states, ghosts
<1>6. QED
  BY <1>3, <1>4, <1>5

\* A write of a row is typed, and the clock does not go back.
LEMMA WriteTypes ==
  ASSUME TypeInv, NEW i \in Ids, NEW v \in Values, NEW live \in BOOLEAN,
         WriteRow(i, v, live)
  PROVE  /\ rows' \in [Ids -> Row \cup {None}]
         /\ clock' \in Clock /\ clock <= clock'
<1>1. CASE UNCHANGED server
  BY <1>1 DEF server, TypeInv, TypeOK, Clock
<1>2. CASE ~UNCHANGED server
  <2>1. /\ clock < MaxWrites /\ clock' = clock + 1
        /\ rows' = [rows EXCEPT ![i] = [v |-> v, live |-> live, when |-> clock']]
    BY <1>2 DEF WriteRow
  <2>2. clock' \in Clock /\ clock <= clock'
    BY <2>1, EditorAssumption DEF Clock, TypeInv, TypeOK
  <2>3. [v |-> v, live |-> live, when |-> clock'] \in Row
    BY <2>2 DEF Row
  <2>4. QED
    BY <2>1, <2>2, <2>3 DEF TypeInv, TypeOK
<1>3. QED
  BY <1>1, <1>2

\* A step of the server for one call.
LEMMA ServeTypes ==
  ASSUME TypeInv, NEW s \in Slots, Serve(s)
  PROVE  /\ TypeInv'
         /\ clock <= clock'
         /\ UnderWay(s) /\ UnderWay(s)'
         /\ calls'[s].op = calls[s].op /\ calls'[s].id = calls[s].id
         /\ calls'[s].form = calls[s].form /\ calls'[s].mine = calls[s].mine
         /\ calls[s].stage # "done"
         /\ calls'[s].stage = "done" => calls'[s].when = clock'
         /\ \A r \in Slots \ {s} : calls'[r] = calls[r]
         /\ calls[s].op = "create" =>
               /\ calls[s].stage = "sent" /\ calls'[s].stage = "done"
               /\ made' = IF calls[s].form.n \in Forms
                          THEN [made EXCEPT ![calls[s].form.n] = @ + 1] ELSE made
         /\ calls[s].op # "create" => made' = made
         /\ lost' = lost /\ opened' = opened
<1> USE DEF TypeInv
<1>1. /\ UnderWay(s) /\ calls[s] \in Call /\ is \in Sample
      /\ UNCHANGED <<is, here, query, states, acked, missed>>
  BY CallUnderWay DEF Serve, TypeOK
<1>2. clock \in Clock /\ (calls[s].op # "create" => calls[s].id \in Ids)
  BY <1>1 DEF TypeOK, CallsWell
<1>3. CASE ServeCreate(s)
  <2>1. PICK i \in Ids : /\ rows[i] = None
                         /\ WriteRow(i, Created(is.creates, calls[s].body), TRUE)
    BY <1>3 DEF ServeCreate
  <2>2. Created(is.creates, calls[s].body) \in Values
    BY <1>1, Converted DEF Call
  <2>3. rows' \in [Ids -> Row \cup {None}] /\ clock' \in Clock /\ clock <= clock'
    BY <2>1, <2>2, WriteTypes
  <2>4. made' \in [Forms -> Nat]
    BY <1>3 DEF ServeCreate, TypeOK
  <2>5. Advance(s, "done")
    BY <1>3 DEF ServeCreate
  <2>6. calls[s].op = "create" /\ calls[s].stage = "sent"
    BY <1>3 DEF ServeCreate
  <2>7. /\ calls' \in [Slots -> Call \cup {None, Over}]
        /\ CallsWell' /\ UnderWay(s)'
        /\ calls'[s].op = calls[s].op /\ calls'[s].id = calls[s].id
        /\ calls'[s].form = calls[s].form /\ calls'[s].mine = calls[s].mine
        /\ calls'[s].stage = "done" /\ calls'[s].when = clock'
        /\ \A r \in Slots \ {s} : calls'[r] = calls[r]
    BY <1>1, <2>3, <2>5, Done
  <2>8. TypeOK'
    BY <1>1, <1>3, <2>3, <2>4, <2>7 DEF ServeCreate, TypeOK, query, states
  <2>9. QED
    BY <1>1, <1>3, <2>3, <2>6, <2>7, <2>8 DEF ServeCreate
<1>4. CASE ServeRead(s)
  <2>1. rows[calls[s].id].v \in Values
    BY <1>1, <1>2, <1>4 DEF ServeRead, SavesRow, Live, TypeOK, Row
  <2>2. calls' = [calls EXCEPT ![s].stage = "read", ![s].when = clock,
                               ![s].was = rows[calls[s].id].v]
    BY <1>4 DEF ServeRead
  <2>3. /\ calls' \in [Slots -> Call \cup {None, Over}]
        /\ CallsWell' /\ UnderWay(s)'
        /\ calls'[s].op = calls[s].op /\ calls'[s].id = calls[s].id
        /\ calls'[s].form = calls[s].form /\ calls'[s].mine = calls[s].mine
        /\ calls'[s].stage = "read"
        /\ \A r \in Slots \ {s} : calls'[r] = calls[r]
    BY <1>1, <1>2, <2>1, <2>2, Staged
  <2>4. calls[s].op # "create" /\ calls[s].stage = "sent"
    BY <1>4 DEF ServeRead, SavesRow
  <2>5. QED
    BY <1>1, <1>2, <1>4, <2>3, <2>4
       DEF ServeRead, TypeOK, query, states, ghosts, server, Clock
<1>5. CASE ServeSave(s)
  <2>1. /\ calls[s].op \in {"update", "press", "touch"}
        /\ calls[s].stage = "read" /\ calls[s].was \in Values
    BY <1>1, <1>5 DEF ServeSave, SavesRow, CallsWell
  <2>2. Saved(calls[s]) \in Values
    BY <1>1, <2>1, Converted DEF Saved, Call
  <2>3. rows' \in [Ids -> Row \cup {None}] /\ clock' \in Clock /\ clock <= clock'
    BY <1>2, <1>5, <2>1, <2>2, WriteTypes DEF ServeSave
  <2>4. Advance(s, "done")
    BY <1>5 DEF ServeSave
  <2>5. /\ calls' \in [Slots -> Call \cup {None, Over}]
        /\ CallsWell' /\ UnderWay(s)'
        /\ calls'[s].op = calls[s].op /\ calls'[s].id = calls[s].id
        /\ calls'[s].form = calls[s].form /\ calls'[s].mine = calls[s].mine
        /\ calls'[s].stage = "done" /\ calls'[s].when = clock'
        /\ \A r \in Slots \ {s} : calls'[r] = calls[r]
    BY <1>1, <2>3, <2>4, Done
  <2>6. QED
    BY <1>1, <1>5, <2>1, <2>3, <2>5 DEF ServeSave, TypeOK, query, states, ghosts
<1>6. CASE ServeColumn(s)
  <2>1. calls[s].op # "create" /\ calls[s].stage = "sent"
    BY <1>6 DEF ServeColumn
  <2>2. rows' \in [Ids -> Row \cup {None}] /\ clock' \in Clock /\ clock <= clock'
    <3>1. CASE ~Live(calls[s].id)
      BY <1>2, <1>6, <3>1 DEF ServeColumn, server, TypeOK, Clock
    <3>2. CASE Live(calls[s].id) /\ calls[s].op = "press"
      <4>1. WriteRow(calls[s].id, calls[s].body, TRUE) /\ calls[s].body \in Values
        BY <1>1, <1>6, <3>2 DEF ServeColumn, Call
      <4>2. QED
        BY <1>2, <2>1, <4>1, WriteTypes
    <3>3. CASE Live(calls[s].id) /\ calls[s].op # "press"
      <4>1. /\ WriteRow(calls[s].id, rows[calls[s].id].v, FALSE)
            /\ rows[calls[s].id].v \in Values
        BY <1>2, <1>6, <2>1, <3>3 DEF ServeColumn, Live, TypeOK, Row
      <4>2. QED
        BY <1>2, <2>1, <4>1, WriteTypes
    <3>4. QED
      BY <3>1, <3>2, <3>3
  <2>3. Advance(s, "done")
    BY <1>6 DEF ServeColumn
  <2>4. /\ calls' \in [Slots -> Call \cup {None, Over}]
        /\ CallsWell' /\ UnderWay(s)'
        /\ calls'[s].op = calls[s].op /\ calls'[s].id = calls[s].id
        /\ calls'[s].form = calls[s].form /\ calls'[s].mine = calls[s].mine
        /\ calls'[s].stage = "done" /\ calls'[s].when = clock'
        /\ \A r \in Slots \ {s} : calls'[r] = calls[r]
    BY <1>1, <2>2, <2>3, Done
  <2>5. QED
    BY <1>1, <1>6, <2>1, <2>2, <2>4 DEF ServeColumn, TypeOK, query, states, ghosts
<1>7. QED
  BY <1>3, <1>4, <1>5, <1>6 DEF Serve

\* The answer to a call.
LEMMA AnswerTypes ==
  ASSUME TypeInv, NEW s \in Slots, Answers(s)
  PROVE  /\ TypeInv'
         /\ UnderWay(s) /\ ~UnderWay(s)'
         /\ \A r \in Slots \ {s} : calls'[r] = calls[r]
<1> USE DEF TypeInv
<1>1. calls' = [calls EXCEPT ![s] = Over] /\ UnderWay(s)
  BY DEF Answers, Answered, Failed
<1>2. /\ calls' \in [Slots -> Call \cup {None, Over}] /\ CallsWell'
      /\ ~UnderWay(s)'
      /\ \A r \in Slots \ {s} : calls'[r] = calls[r]
  BY <1>1, Ended
<1>3. is \in Sample /\ Blank(0) \in FormState /\ calls[s] \in Call
  BY <1>1, BlankForms, CallUnderWay, Marks DEF TypeOK
<1>4. CASE Answered(s)
  <2>1. acked' \in Clock
    BY <1>3, <1>4 DEF Answered, Call, TypeOK
  <2>2. /\ dialog' \in {None, "create", "edit"} /\ id' \in Ids \cup {NoId}
        /\ form' \in FormState /\ asked' \in Ids \cup {NoId}
    BY <1>3, <1>4 DEF Answered, Reset, TypeOK
  <2>3. /\ stale' \in BOOLEAN /\ missed' \in BOOLEAN
        /\ fetch' \in Snapshot \cup {None, Waiting}
    BY <1>4 DEF Answered, Invalidate, TypeOK
  <2>4. QED
    BY <1>1, <1>2, <1>4, <2>1, <2>2, <2>3 DEF Answered, TypeOK, server, ghosts
<1>5. CASE Failed(s)
  <2>1. lost' \in SUBSET Forms
    BY <1>5 DEF Failed, TypeOK
  <2>2. QED
    BY <1>1, <1>2, <1>5, <2>1 DEF Failed, TypeOK, server, query, states
<1>6. QED
  BY <1>4, <1>5 DEF Answers

\* What other people write leaves the calls alone.
LEMMA OthersTypes ==
  ASSUME TypeInv, OtherWrites
  PROVE  TypeInv' /\ calls' = calls /\ clock <= clock'
<1> USE DEF TypeInv
<1>1. PICK i \in Ids : /\ Live(i)
                       /\ \/ \E v \in is.others \ {rows[i].v} : WriteRow(i, v, TRUE)
                          \/ WriteRow(i, rows[i].v, FALSE)
  BY DEF OtherWrites
<1>2. rows[i].v \in Values /\ is.others \subseteq Values
  BY <1>1, SampleFields DEF Live, TypeOK, Row
<1>3. rows' \in [Ids -> Row \cup {None}] /\ clock' \in Clock /\ clock <= clock'
  BY <1>1, <1>2, WriteTypes
<1>4. QED
  BY <1>3 DEF OtherWrites, TypeOK, CallsWell, UnderWay, query, states, ghosts

\* Every step keeps the types.
LEMMA StepTypes == TypeInv /\ [Next]_vars => TypeInv'
<1> SUFFICES ASSUME TypeInv, [Next]_vars PROVE TypeInv'
  OBVIOUS
<1>1. CASE User
  BY <1>1, QueryTypes, LeaveTypes, DialogTypes, SubmitTypes, RowCallTypes DEF User
<1>2. CASE Query
  BY <1>2, QueryTypes
<1>3. CASE OtherWrites
  BY <1>3, OthersTypes
<1>4. CASE \E s \in Slots : Serve(s) \/ Answers(s)
  BY <1>4, ServeTypes, AnswerTypes
<1>5. CASE UNCHANGED vars
  BY <1>5 DEF vars, server, query, states, ghosts, TypeInv, TypeOK, CallsWell, UnderWay
<1>6. QED
  BY <1>1, <1>2, <1>3, <1>4, <1>5 DEF Next

(***************************************************************************)
(* Every state of the page keeps its type: a form, a call or a list never *)
(* holds what an administration page cannot show.                          *)
(***************************************************************************)
THEOREM TypeCorrect == Spec => []TypeOK
<1>1. Init => TypeInv
  BY InitTypes
<1>2. TypeInv /\ [Next]_vars => TypeInv'
  BY StepTypes
<1>3. TypeInv => TypeOK
  BY DEF TypeInv
<1>4. QED
  BY <1>1, <1>2, <1>3, PTL DEF Spec

-----------------------------------------------------------------------------
(* The row a save goes to.  The dialog's mode, the edited id and the form *)
(* agree while the form is open, which is what the pages' common rules    *)
(* keep: a callback that empties one of them closes the form.              *)

FormMatches ==
    /\ is \in Samples
    /\ dialog = "create" => form.row = NoId /\ (is.byId => id = NoId)
    /\ dialog = "edit"   => form.row = id /\ id # NoId
HitInv == TypeInv /\ FormMatches /\ SaveHitsItsRow

\* The page under test follows the common rules.
LEMMA Kept ==
  ASSUME FormMatches
  PROVE  WellKept(is)
BY EditorAssumption DEF FormMatches

\* Steps after which the calls are about the rows they were about.
LEMMA CallsKeepRows ==
  ASSUME SaveHitsItsRow,
         \A s \in Slots : UnderWay(s)' =>
            /\ UnderWay(s)
            /\ calls'[s].op = calls[s].op /\ calls'[s].id = calls[s].id
            /\ calls'[s].form = calls[s].form
  PROVE  SaveHitsItsRow'
BY DEF SaveHitsItsRow

\* A save is made for the row that the form was loaded from.
LEMMA SubmitHits ==
  ASSUME HitInv, Submit
  PROVE  SaveHitsItsRow'
<1> USE DEF HitInv
<1>1. PICK s \in Slots : /\ ~UnderWay(s) /\ calls'[s] = Saves
                         /\ \A r \in Slots \ {s} : calls'[r] = calls[r]
  BY SubmitTypes
<1>2. form \in FormState /\ [form EXCEPT !.text = is.blank].row = form.row
  BY DEF TypeInv, TypeOK, FormState
<1>3. Saves.form.row = form.row
  BY <1>2 DEF Saves, Request
<1>4. dialog \in {"create", "edit"}
  BY DEF Submit, TypeInv, TypeOK
<1>5. /\ Saves.op = "update" => Saves.id = Saves.form.row
      /\ Saves.op = "create" => Saves.form.row = NoId
  <2>1. CASE Updates
    <3>1. form.row = id
      BY <1>4, <2>1 DEF Updates, FormMatches
    <3>2. Saves.op = "update" /\ Saves.id = id
      BY <2>1 DEF Saves, Request
    <3>3. QED
      BY <1>3, <3>1, <3>2
  <2>2. CASE ~Updates
    <3>1. form.row = NoId
      BY <1>4, <2>2 DEF Updates, FormMatches
    <3>2. Saves.op = "create"
      BY <2>2 DEF Saves, Request
    <3>3. QED
      BY <1>3, <3>1, <3>2
  <2>3. QED
    BY <2>1, <2>2
<1>6. QED
  BY <1>1, <1>5 DEF SaveHitsItsRow, UnderWay

\* Opening, editing and closing the form keep its row and the edited id together.
LEMMA OpenHits ==
  ASSUME HitInv, OpenNew \/ OpenEdit \/ Type \/ CloseForm
  PROVE  FormMatches'
<1> USE DEF HitInv
<1>1. is \in Sample /\ form \in FormState /\ WellKept(is)
  BY Kept DEF TypeInv, TypeOK
<1>2. CASE OpenNew
  <2>1. form' = Blank(opened') /\ dialog' = "create" /\ (is.byId => id' = NoId)
    BY <1>1, <1>2 DEF OpenNew, WellKept
  <2>2. form'.row = NoId
    BY <2>1 DEF Blank
  <2>3. QED
    BY <1>2, <2>1, <2>2 DEF OpenNew, FormMatches
<1>3. CASE OpenEdit
  <2>1. PICK i \in Ids : form'.row = i /\ id' = i
    BY <1>3 DEF OpenEdit
  <2>2. QED
    BY <1>3, <2>1, Marks DEF OpenEdit, FormMatches
<1>4. CASE Type
  <2>1. form'.row = form.row
    BY <1>1, <1>4 DEF Type, FormState
  <2>2. QED
    BY <1>4, <2>1 DEF Type, FormMatches
<1>5. CASE CloseForm
  BY <1>5, Marks DEF CloseForm, FormMatches
<1>6. QED
  BY <1>2, <1>3, <1>4, <1>5

\* So do the success callbacks, however late.
LEMMA AnswerHits ==
  ASSUME HitInv, NEW s \in Slots, Answers(s)
  PROVE  FormMatches' /\ SaveHitsItsRow'
<1> USE DEF HitInv
<1>1. SaveHitsItsRow'
  BY AnswerTypes, CallsKeepRows DEF UnderWay
<1>2. CASE Failed(s)
  BY <1>1, <1>2 DEF Failed, FormMatches, states
<1>3. CASE Answered(s)
  <2>1. WellKept(is) /\ is' = is
    BY <1>3, Kept DEF Answered
  <2>2. PICK which : /\ which \in {{}, is.onCreate, is.onUpdate, is.onDelete}
                     /\ Reset(which)
    BY <1>3 DEF Answered, OnSuccess
  <2>3. {"id", "form"} \cap which # {} => "dialog" \in which
    BY <2>1, <2>2 DEF WellKept
  <2>4. CASE "dialog" \in which
    <3>1. dialog' = None
      BY <2>2, <2>4 DEF Reset
    <3>2. QED
      BY <1>1, <2>1, <3>1, Marks DEF FormMatches
  <2>5. CASE "dialog" \notin which
    <3>1. "id" \notin which /\ "form" \notin which
      BY <2>3, <2>5
    <3>2. dialog' = dialog /\ id' = id /\ form' = form
      BY <2>2, <2>5, <3>1 DEF Reset
    <3>3. QED
      BY <1>1, <2>1, <3>2 DEF FormMatches
  <2>6. QED
    BY <2>4, <2>5
<1>4. QED
  BY <1>1, <1>2, <1>3 DEF Answers

\* Every step keeps saves on their rows.
LEMMA StepHits == HitInv /\ [Next]_vars => HitInv'
<1> SUFFICES ASSUME HitInv, [Next]_vars PROVE HitInv'
  OBVIOUS
<1> USE DEF HitInv
<1>1. TypeInv'
  BY StepTypes
<1>2. CASE Return \/ Refetch \/ Query \/ AskDelete \/ CancelDelete \/ OtherWrites
           \/ UNCHANGED vars
  <2>1. UNCHANGED <<is, dialog, id, form, calls>>
    BY <1>2 DEF Return, Refetch, Query, FetchRead, FetchArrives, FetchFails,
                AskDelete, CancelDelete, OtherWrites, vars, states
  <2>2. QED
    BY <1>1, <2>1 DEF FormMatches, SaveHitsItsRow, UnderWay
<1>3. CASE Leave
  <2>1. SaveHitsItsRow'
    BY <1>3, LeaveTypes, CallsKeepRows
  <2>2. QED
    BY <1>1, <1>3, <2>1, Marks DEF Leave, FormMatches
<1>4. CASE OpenNew \/ OpenEdit \/ Type \/ CloseForm
  <2>1. calls' = calls
    BY <1>4, DialogTypes
  <2>2. QED
    BY <1>1, <1>4, <2>1, OpenHits DEF SaveHitsItsRow, UnderWay
<1>5. CASE Submit
  <2>1. FormMatches'
    BY <1>5 DEF Submit, states, FormMatches
  <2>2. QED
    BY <1>1, <1>5, <2>1, SubmitHits
<1>6. CASE ConfirmDelete \/ Press
  <2>1. FormMatches'
    BY <1>6 DEF ConfirmDelete, Press, states, FormMatches
  <2>2. PICK s \in Slots : /\ ~UnderWay(s)
                           /\ calls'[s].op \in {"delete", "press", "touch"}
                           /\ \A r \in Slots \ {s} : calls'[r] = calls[r]
    BY <1>6, RowCallTypes
  <2>3. SaveHitsItsRow'
    BY <2>2 DEF SaveHitsItsRow, UnderWay
  <2>4. QED
    BY <1>1, <2>1, <2>3
<1>7. CASE \E s \in Slots : Serve(s) \/ Answers(s)
  <2>1. PICK s \in Slots : Serve(s) \/ Answers(s)
    BY <1>7
  <2>2. CASE Serve(s)
    <3>1. FormMatches'
      BY <2>2 DEF Serve, states, FormMatches
    <3>2. SaveHitsItsRow'
      BY <2>2, ServeTypes, CallsKeepRows DEF UnderWay
    <3>3. QED
      BY <1>1, <3>1, <3>2
  <2>3. CASE Answers(s)
    BY <1>1, <2>3, AnswerHits
  <2>4. QED
    BY <2>1, <2>2, <2>3
<1>8. QED
  BY <1>2, <1>3, <1>4, <1>5, <1>6, <1>7 DEF Next, User

(***************************************************************************)
(* On every page that follows the common rules, with any number of forms  *)
(* and of calls under way, a save goes to the row its text was loaded     *)
(* from, and only text that was not loaded from a row creates one.         *)
(***************************************************************************)
THEOREM SavesHitTheirRows == Spec => []SaveHitsItsRow
<1>1. Init => HitInv
  <2> SUFFICES ASSUME Init PROVE HitInv
    OBVIOUS
  <2>1. FormMatches /\ SaveHitsItsRow
    BY Marks DEF Init, FormMatches, SaveHitsItsRow, UnderWay
  <2>2. QED
    BY <2>1, InitTypes DEF HitInv
<1>2. HitInv /\ [Next]_vars => HitInv'
  BY StepHits
<1>3. HitInv => SaveHitsItsRow
  BY DEF HitInv
<1>4. QED
  BY <1>1, <1>2, <1>3, PTL DEF Spec

-----------------------------------------------------------------------------
(* What a list at rest shows: a snapshot under way that no answer has     *)
(* missed was taken after the last answered write.                         *)

Fresh ==
    /\ acked <= clock
    /\ \A s \in Slots : UnderWay(s) /\ calls[s].stage = "done" => calls[s].when <= clock
    /\ fetch \notin {None, Waiting} /\ ~missed => acked <= fetch.when
FreshInv == TypeInv /\ Fresh /\ OwnWritesShown

\* The query keeps what a list at rest shows.
LEMMA FreshQuery ==
  ASSUME FreshInv, Return \/ Refetch \/ Query \/ Leave
  PROVE  Fresh' /\ OwnWritesShown'
<1> USE DEF FreshInv
<1>1. CASE Leave
  <2>1. \A s \in Slots : UnderWay(s)' =>
             /\ UnderWay(s)
             /\ calls'[s].stage = calls[s].stage /\ calls'[s].when = calls[s].when
    BY <1>1, LeaveTypes
  <2>2. UNCHANGED <<clock, acked, list, stale, fetch, missed>>
    BY <1>1 DEF Leave, server, query
  <2>3. QED
    BY <2>1, <2>2 DEF Fresh, OwnWritesShown
<1>2. CASE Return \/ Refetch \/ Query
  <2>1. UNCHANGED <<clock, acked, calls>> /\ clock \in Nat
    BY <1>2 DEF Return, Refetch, Query, FetchRead, FetchArrives, FetchFails, server,
                TypeInv, TypeOK, Clock
  <2>2. \A s \in Slots :
           UnderWay(s)' /\ calls'[s].stage = "done" => calls'[s].when <= clock'
    BY <2>1 DEF Fresh, UnderWay
  <2>3. CASE Return \/ Refetch
    BY <2>1, <2>2, <2>3, Marks DEF Return, Refetch, Fresh, OwnWritesShown
  <2>4. CASE FetchRead
    <3>1. fetch'.when = clock /\ missed' = missed /\ fetch' # None
      <4>1. fetch' \in Snapshot \cup {None, Waiting} /\ fetch'.when = clock
        BY <2>4, QueryTypes DEF Query, FetchRead, TypeInv, TypeOK
      <4>2. fetch' \in Snapshot
        <5>1. [i \in Ids |-> IF Live(i) THEN rows[i].v ELSE None]
                 \in [Ids -> Values \cup {None}]
          BY DEF Live, TypeInv, TypeOK, Row
        <5>2. QED
          BY <2>4, <5>1 DEF FetchRead, Snapshot, TypeInv, TypeOK
      <4>3. QED
        BY <2>4, <4>1, <4>2, Marks DEF FetchRead
    <3>2. QED
      BY <2>1, <2>2, <3>1 DEF Fresh, OwnWritesShown
  <2>5. CASE FetchArrives
    BY <2>1, <2>2, <2>5 DEF FetchArrives, Fresh, OwnWritesShown
  <2>6. CASE FetchFails
    BY <2>1, <2>2, <2>6 DEF FetchFails, Fresh, OwnWritesShown
  <2>7. QED
    BY <1>2, <2>3, <2>4, <2>5, <2>6 DEF Query
<1>3. QED
  BY <1>1, <1>2

\* An answer marks the list stale, or restarts or is missed by the request.
LEMMA FreshAnswer ==
  ASSUME FreshInv, NEW s \in Slots, Answers(s)
  PROVE  Fresh' /\ OwnWritesShown'
<1> USE DEF FreshInv
<1>1. /\ UnderWay(s) /\ ~UnderWay(s)'
      /\ \A r \in Slots \ {s} : calls'[r] = calls[r]
  BY AnswerTypes
<1>2. clock' = clock /\ clock \in Nat /\ acked \in Nat
  BY DEF Answers, Answered, Failed, server, TypeInv, TypeOK, Clock
<1>3. \A r \in Slots :
         UnderWay(r)' /\ calls'[r].stage = "done" => calls'[r].when <= clock'
  BY <1>1, <1>2 DEF Fresh, UnderWay
<1>4. CASE Failed(s)
  BY <1>2, <1>3, <1>4 DEF Failed, query, Fresh, OwnWritesShown
<1>5. CASE Answered(s)
  <2>1. acked' <= clock
    BY <1>1, <1>2, <1>5 DEF Answered, Fresh
  <2>2. stale' = TRUE /\ (fetch' \notin {None, Waiting} => missed')
    BY <1>5 DEF Answered, Invalidate
  <2>3. QED
    BY <1>2, <1>3, <2>1, <2>2 DEF Fresh, OwnWritesShown
<1>6. QED
  BY <1>4, <1>5 DEF Answers

\* Every step keeps what a list at rest shows.
LEMMA StepFresh == FreshInv /\ [Next]_vars => FreshInv'
<1> SUFFICES ASSUME FreshInv, [Next]_vars PROVE FreshInv'
  OBVIOUS
<1> USE DEF FreshInv
<1>1. TypeInv' /\ clock \in Nat /\ acked \in Nat
  BY StepTypes DEF TypeInv, TypeOK, Clock
<1>2. CASE Return \/ Refetch \/ Query \/ Leave
  BY <1>1, <1>2, FreshQuery
<1>3. CASE \E s \in Slots : Answers(s)
  BY <1>1, <1>3, FreshAnswer
<1>4. CASE OpenNew \/ OpenEdit \/ Type \/ CloseForm \/ AskDelete \/ CancelDelete
           \/ UNCHANGED vars
  <2>1. UNCHANGED <<clock, acked, list, stale, fetch, missed, calls>>
    BY <1>4 DEF OpenNew, OpenEdit, Type, CloseForm, AskDelete, CancelDelete, vars,
                server, query
  <2>2. QED
    BY <1>1, <2>1 DEF Fresh, OwnWritesShown, UnderWay
<1>5. CASE Submit \/ ConfirmDelete \/ Press
  <2>1. UNCHANGED <<clock, acked, list, stale, fetch, missed>>
    BY <1>5 DEF Submit, ConfirmDelete, Press, server, query
  <2>2. PICK s \in Slots : /\ ~UnderWay(s) /\ calls'[s].stage = "sent"
                           /\ \A r \in Slots \ {s} : calls'[r] = calls[r]
    <3>1. CASE Submit
      BY <3>1, SubmitTypes DEF Saves, Request
    <3>2. CASE ConfirmDelete \/ Press
      BY <3>2, RowCallTypes
    <3>3. QED
      BY <1>5, <3>1, <3>2
  <2>3. QED
    BY <1>1, <2>1, <2>2 DEF Fresh, OwnWritesShown, UnderWay
<1>6. CASE OtherWrites
  <2>1. UNCHANGED <<acked, list, stale, fetch, missed, calls>>
    BY <1>6 DEF OtherWrites, query
  <2>2. clock <= clock' /\ clock' \in Nat /\ \A s \in Slots : UnderWay(s) => calls[s].when \in Nat
    BY <1>1, <1>6, OthersTypes, CallUnderWay DEF Call, TypeInv, TypeOK, Clock
  <2>3. QED
    BY <1>1, <2>1, <2>2 DEF Fresh, OwnWritesShown, UnderWay
<1>7. CASE \E s \in Slots : Serve(s)
  <2>1. PICK s \in Slots : Serve(s)
    BY <1>7
  <2>2. UNCHANGED <<acked, list, stale, fetch, missed>>
    BY <2>1 DEF Serve, query
  <2>3. clock <= clock' /\ clock' \in Nat
    BY <1>1, <2>1, ServeTypes DEF TypeInv, TypeOK, Clock
  <2>4. /\ calls'[s].stage = "done" => calls'[s].when = clock'
        /\ \A r \in Slots \ {s} : calls'[r] = calls[r]
    BY <2>1, ServeTypes
  <2>5. \A r \in Slots : UnderWay(r) => calls[r].when \in Nat
    BY CallUnderWay DEF Call, TypeInv, Clock
  <2>6. \A r \in Slots :
           UnderWay(r)' /\ calls'[r].stage = "done" => calls'[r].when <= clock'
    BY <1>1, <2>3, <2>4, <2>5 DEF Fresh, UnderWay
  <2>7. QED
    BY <1>1, <2>2, <2>3, <2>6 DEF Fresh, OwnWritesShown
<1>8. QED
  BY <1>2, <1>3, <1>4, <1>5, <1>6, <1>7 DEF Next, User

(***************************************************************************)
(* Whatever the order in which answers and lists arrive, a list at rest   *)
(* that is not held to be stale shows every own write that was answered,  *)
(* unless the answer found a request that it could not restart.            *)
(***************************************************************************)
THEOREM ListsShowOwnWrites == Spec => []OwnWritesShown
<1>1. Init => FreshInv
  <2> SUFFICES ASSUME Init PROVE FreshInv
    OBVIOUS
  <2>1. Fresh /\ OwnWritesShown
    BY DEF Init, Fresh, OwnWritesShown, UnderWay
  <2>2. QED
    BY <2>1, InitTypes DEF FreshInv
<1>2. FreshInv /\ [Next]_vars => FreshInv'
  BY StepFresh
<1>3. FreshInv => OwnWritesShown
  BY DEF FreshInv
<1>4. QED
  BY <1>1, <1>2, <1>3, PTL DEF Spec

-----------------------------------------------------------------------------
(* One row per form.  While a form is open, the row it has made and the   *)
(* call that made it go together, and the call keeps the button disabled.  *)

\* Call s creates the row of form n.
Creates(s, n) == UnderWay(s) /\ calls[s].op = "create" /\ calls[s].form.n = n
Open(n) == dialog # None /\ form.n = n

Once ==
    /\ is \in Samples
    /\ dialog # None => is.form
    /\ \A n \in Forms :
          /\ opened < n => /\ form.n # n /\ made[n] = 0
                           /\ \A s \in Slots : ~Creates(s, n)
          /\ \A s, r \in Slots : Creates(s, n) /\ Creates(r, n) => s = r
          /\ \A s \in Slots : Creates(s, n) /\ Open(n) => calls[s].mine
          /\ n \notin lost =>
                /\ made[n] \in {0, 1}
                /\ made[n] = 1 =>
                     /\ \A s \in Slots : Creates(s, n) => calls[s].stage = "done"
                     /\ Open(n) => \E s \in Slots : Creates(s, n)
OnceInv == TypeInv /\ Once

\* Steps after which what has been made, and by which calls, is the same, and
\* the form that is open was open.
LEMMA OnceKept ==
  ASSUME Once, UNCHANGED <<is, opened, made, lost>>,
         dialog' # None => dialog # None,
         form'.n = form.n \/ (form'.n = 0 /\ dialog' = None),
         \A s \in Slots : \A n \in Forms : Creates(s, n)' <=> Creates(s, n),
         \A s \in Slots : \A n \in Forms :
            Creates(s, n) => /\ calls'[s].stage = calls[s].stage
                             /\ calls'[s].mine = calls[s].mine \/ dialog' = None
  PROVE  Once'
<1>1. \A n \in Forms : n # 0
  BY DEF Forms
<1>2. \A n \in Forms : Open(n)' => Open(n)
  BY <1>1 DEF Open
<1>3. is' \in Samples /\ (dialog' # None => is'.form)
  BY DEF Once
<1>4. ASSUME NEW n \in Forms
      PROVE  /\ opened' < n => /\ form'.n # n /\ made'[n] = 0
                               /\ \A s \in Slots : ~Creates(s, n)'
             /\ \A s, r \in Slots : Creates(s, n)' /\ Creates(r, n)' => s = r
             /\ \A s \in Slots : Creates(s, n)' /\ Open(n)' => calls'[s].mine
             /\ n \notin lost' =>
                /\ made'[n] \in {0, 1}
                /\ made'[n] = 1 =>
                     /\ \A s \in Slots : Creates(s, n)' => calls'[s].stage = "done"
                     /\ Open(n)' => \E s \in Slots : Creates(s, n)'
  <2>1. opened' < n => /\ form'.n # n /\ made'[n] = 0
                       /\ \A s \in Slots : ~Creates(s, n)'
    BY <1>1 DEF Once
  <2>2. \A s, r \in Slots : Creates(s, n)' /\ Creates(r, n)' => s = r
    BY DEF Once
  <2>3. \A s \in Slots : Creates(s, n)' /\ Open(n)' => calls'[s].mine
    BY <1>2 DEF Once, Open
  <2>4. n \notin lost' =>
                /\ made'[n] \in {0, 1}
                /\ made'[n] = 1 =>
                     /\ \A s \in Slots : Creates(s, n)' => calls'[s].stage = "done"
                     /\ Open(n)' => \E s \in Slots : Creates(s, n)'
    BY <1>2 DEF Once
  <2>5. QED
    BY <2>1, <2>2, <2>3, <2>4
<1>5. QED
  BY <1>3, <1>4 DEF Once

\* What leaves the calls as they are keeps the count of rows of each form.
LEMMA OnceUser ==
  ASSUME OnceInv, Return \/ Refetch \/ Query \/ Leave \/ Type \/ CloseForm
                  \/ AskDelete \/ CancelDelete \/ OtherWrites \/ UNCHANGED vars
  PROVE  Once'
<1> USE DEF OnceInv
<1>1. CASE Leave
  <2>1. UNCHANGED <<is, opened, made, lost>> /\ dialog' = None /\ form'.n = 0
    BY <1>1 DEF Leave, ghosts, Blank
  <2>2. \A s \in Slots : /\ UnderWay(s)' <=> UnderWay(s)
                         /\ UnderWay(s) =>
                               /\ calls'[s].op = calls[s].op
                               /\ calls'[s].form = calls[s].form
                               /\ calls'[s].stage = calls[s].stage
    BY <1>1, LeaveTypes
  <2>3. \A s \in Slots : \A n \in Forms :
           /\ Creates(s, n)' <=> Creates(s, n)
           /\ Creates(s, n) => calls'[s].stage = calls[s].stage
    BY <2>2 DEF Creates
  <2>4. QED
    BY <2>1, <2>3, OnceKept
<1>2. CASE ~Leave
  <2>1. UNCHANGED <<is, opened, made, lost, calls>>
    BY <1>2 DEF Return, Refetch, Query, FetchRead, FetchArrives, FetchFails, Type,
                CloseForm, AskDelete, CancelDelete, OtherWrites, vars, ghosts
  <2>2. dialog' # None => dialog # None
    BY <1>2 DEF Return, Refetch, Query, FetchRead, FetchArrives, FetchFails, Type,
                CloseForm, AskDelete, CancelDelete, OtherWrites, vars, states
  <2>3. form'.n = form.n \/ (form'.n = 0 /\ dialog' = None)
    <3>1. CASE Type
      BY <3>1 DEF Type, TypeInv, TypeOK, FormState
    <3>2. CASE CloseForm
      BY <3>2 DEF CloseForm, Blank
    <3>3. CASE ~Type /\ ~CloseForm
      BY <1>2, <3>3 DEF Return, Refetch, Query, FetchRead, FetchArrives, FetchFails,
                        AskDelete, CancelDelete, OtherWrites, vars, states
    <3>4. QED
      BY <3>1, <3>2, <3>3
  <2>4. \A s \in Slots : \A n \in Forms :
           /\ Creates(s, n)' <=> Creates(s, n)
           /\ calls'[s].stage = calls[s].stage /\ calls'[s].mine = calls[s].mine
    BY <2>1 DEF Creates, UnderWay
  <2>5. QED
    BY <2>1, <2>2, <2>3, <2>4, OnceKept
<1>3. QED
  BY <1>1, <1>2

\* A form that is opened has a number that nothing has had.
LEMMA OnceOpen ==
  ASSUME OnceInv, OpenNew \/ OpenEdit
  PROVE  Once'
<1> USE DEF OnceInv
<1>1. UNCHANGED <<is, made, lost, calls>> /\ is.form /\ opened' = opened + 1
  BY DEF OpenNew, OpenEdit
<1>2. form'.n = opened'
  <2>1. CASE OpenNew
    BY <2>1 DEF OpenNew, Blank, TypeInv, TypeOK, FormState
  <2>2. CASE OpenEdit
    BY <2>2 DEF OpenEdit
  <2>3. QED
    BY <2>1, <2>2
<1>3. opened \in Nat /\ \A n \in Forms : n \in Nat
  BY EditorAssumption DEF Forms, TypeInv, TypeOK
<1>4. \A s \in Slots : \A n \in Forms : Creates(s, n)' <=> Creates(s, n)
  BY <1>1 DEF Creates, UnderWay
<1>5. ASSUME NEW n \in Forms
      PROVE  /\ opened' < n => /\ form'.n # n /\ made'[n] = 0
                               /\ \A s \in Slots : ~Creates(s, n)'
             /\ \A s, r \in Slots : Creates(s, n)' /\ Creates(r, n)' => s = r
             /\ \A s \in Slots : Creates(s, n)' /\ Open(n)' => calls'[s].mine
             /\ n \notin lost' =>
                /\ made'[n] \in {0, 1}
                /\ made'[n] = 1 =>
                     /\ \A s \in Slots : Creates(s, n)' => calls'[s].stage = "done"
                     /\ Open(n)' => \E s \in Slots : Creates(s, n)'
  <2>1. opened' < n => opened < n /\ form'.n # n
    BY <1>1, <1>2, <1>3
  <2>2. Open(n)' => opened < n
    BY <1>1, <1>2, <1>3 DEF Open
  <2>3. opened < n => made[n] = 0 /\ \A s \in Slots : ~Creates(s, n)
    BY DEF Once
  <2>4. QED
    BY <1>1, <1>4, <2>1, <2>2, <2>3 DEF Once
<1>6. QED
  BY <1>1, <1>5 DEF Once

\* A form is not submitted again while its save is pending.
LEMMA OnceSubmit ==
  ASSUME OnceInv, Submit
  PROVE  Once'
<1> USE DEF OnceInv
<1>1. UNCHANGED <<is, opened, made, lost, dialog, form>> /\ dialog # None /\ ~Saving
  BY DEF Submit, ghosts, states
<1>2. PICK s \in Slots : /\ ~UnderWay(s) /\ UnderWay(s)' /\ calls'[s] = Saves
                         /\ \A r \in Slots \ {s} : calls'[r] = calls[r]
  BY SubmitTypes
<1>3. Saves.form.n = form.n /\ Saves.mine = TRUE /\ Saves.stage = "sent"
  <2>1. form \in FormState
    BY DEF TypeInv, TypeOK
  <2>2. [form EXCEPT !.text = is.blank].n = form.n
    BY <2>1 DEF FormState
  <2>3. QED
    BY <2>2 DEF Saves, Request
<1>4. \A r \in Slots : \A n \in Forms : r # s => (Creates(r, n)' <=> Creates(r, n))
  BY <1>2 DEF Creates, UnderWay
<1>5. \A n \in Forms : ~Creates(s, n) /\ (Creates(s, n)' => form.n = n)
  BY <1>2, <1>3 DEF Creates
<1>6. ASSUME NEW n \in Forms, form.n = n
      PROVE  /\ \A r \in Slots : ~Creates(r, n)
             /\ n \notin lost => made[n] = 0
             /\ ~(opened < n)
  <2>1. \A r \in Slots : ~Creates(r, n)
    <3>1. \A r \in Slots : Creates(r, n) => calls[r].mine
      BY <1>1, <1>6 DEF Once, Open
    <3>2. QED
      BY <1>1, <3>1 DEF Saving, Pending, Creates
  <2>2. QED
    BY <1>1, <1>6, <2>1 DEF Once, Open
<1>7. \A n \in Forms : Open(n)' <=> Open(n)
  BY <1>1 DEF Open
<1>8. ASSUME NEW n \in Forms
      PROVE  /\ opened' < n => /\ form'.n # n /\ made'[n] = 0
                               /\ \A r \in Slots : ~Creates(r, n)'
             /\ \A q, r \in Slots : Creates(q, n)' /\ Creates(r, n)' => q = r
             /\ \A r \in Slots : Creates(r, n)' /\ Open(n)' => calls'[r].mine
             /\ n \notin lost' =>
                /\ made'[n] \in {0, 1}
                /\ made'[n] = 1 =>
                     /\ \A r \in Slots : Creates(r, n)' => calls'[r].stage = "done"
                     /\ Open(n)' => \E r \in Slots : Creates(r, n)'
  <2>1. CASE form.n = n
    <3>1. /\ \A r \in Slots : Creates(r, n)' => r = s
          /\ n \notin lost => made[n] = 0 /\ ~(opened < n)
          /\ ~(opened < n)
      BY <1>4, <1>6, <2>1
    <3>2. QED
      BY <1>1, <1>2, <1>3, <3>1
  <2>2. CASE form.n # n
    <3>1. \A r \in Slots : Creates(r, n)' => Creates(r, n) /\ r # s
      BY <1>4, <1>5, <2>2
    <3>2. ~Open(n)'
      BY <1>1, <2>2 DEF Open
    <3>3. QED
      BY <1>1, <1>2, <3>1, <3>2 DEF Once
  <2>3. QED
    BY <2>1, <2>2
<1>9. QED
  BY <1>1, <1>8 DEF Once

\* Deletions and controls make no row.
LEMMA OnceRowCall ==
  ASSUME OnceInv, ConfirmDelete \/ Press
  PROVE  Once'
<1> USE DEF OnceInv
<1>1. UNCHANGED <<is, opened, made, lost, dialog, form>>
  BY DEF ConfirmDelete, Press, ghosts, states
<1>2. PICK s \in Slots : /\ ~UnderWay(s)
                         /\ calls'[s].op \in {"delete", "press", "touch"}
                         /\ \A r \in Slots \ {s} : calls'[r] = calls[r]
  BY RowCallTypes
<1>3. \A r \in Slots : \A n \in Forms :
         /\ Creates(r, n)' <=> Creates(r, n)
         /\ Creates(r, n) => calls'[r] = calls[r]
  BY <1>2 DEF Creates, UnderWay
<1>4. QED
  BY <1>1, <1>3, OnceKept

\* The server makes one row for one creation.
LEMMA OnceServe ==
  ASSUME OnceInv, NEW s \in Slots, Serve(s)
  PROVE  Once'
<1> USE DEF OnceInv
<1>1. /\ UnderWay(s) /\ UnderWay(s)'
      /\ calls'[s].op = calls[s].op
      /\ calls'[s].form = calls[s].form /\ calls'[s].mine = calls[s].mine
      /\ \A r \in Slots \ {s} : calls'[r] = calls[r]
      /\ lost' = lost /\ opened' = opened
  BY ServeTypes
<1>2. UNCHANGED <<is, dialog, form>>
  BY DEF Serve, states
<1>3. \A r \in Slots : \A n \in Forms :
         /\ Creates(r, n)' <=> Creates(r, n)
         /\ Creates(r, n) => calls'[r].mine = calls[r].mine
         /\ r # s => calls'[r].stage = calls[r].stage
  BY <1>1 DEF Creates, UnderWay
<1>4. \A n \in Forms : Open(n)' <=> Open(n)
  BY <1>2 DEF Open
<1>5. CASE calls[s].op # "create"
  <2>1. made' = made
    BY <1>5, ServeTypes
  <2>2. \A n \in Forms : ~Creates(s, n)
    BY <1>5 DEF Creates
  <2>3. QED
    BY <1>1, <1>2, <1>3, <2>1, <2>2, OnceKept
<1>6. CASE calls[s].op = "create"
  <2>1. /\ calls[s].stage = "sent" /\ calls'[s].stage = "done"
        /\ made' = IF calls[s].form.n \in Forms
                   THEN [made EXCEPT ![calls[s].form.n] = @ + 1] ELSE made
    BY <1>6, ServeTypes
  <2>2. ASSUME NEW n \in Forms
        PROVE  /\ opened' < n => /\ form'.n # n /\ made'[n] = 0
                                 /\ \A r \in Slots : ~Creates(r, n)'
               /\ \A q, r \in Slots : Creates(q, n)' /\ Creates(r, n)' => q = r
               /\ \A r \in Slots : Creates(r, n)' /\ Open(n)' => calls'[r].mine
               /\ n \notin lost' =>
                  /\ made'[n] \in {0, 1}
                  /\ made'[n] = 1 =>
                       /\ \A r \in Slots : Creates(r, n)' => calls'[r].stage = "done"
                       /\ Open(n)' => \E r \in Slots : Creates(r, n)'
    <3>1. CASE Creates(s, n)
      <4>1. made'[n] = made[n] + 1
        BY <2>1, <3>1 DEF Creates, TypeInv, TypeOK
      <4>2. n \notin lost => made[n] = 0
        BY <2>1, <3>1 DEF Once
      <4>3. \A r \in Slots : Creates(r, n)' => r = s
        BY <1>3, <3>1 DEF Once
      <4>4. ~(opened < n)
        BY <3>1 DEF Once
      <4>5. Open(n) => calls[s].mine
        BY <3>1 DEF Once
      <4>6. QED
        BY <1>1, <1>3, <1>4, <2>1, <3>1, <4>1, <4>2, <4>3, <4>4, <4>5
    <3>2. CASE ~Creates(s, n)
      <4>1. made'[n] = made[n]
        BY <1>1, <1>6, <2>1, <3>2 DEF Creates, TypeInv, TypeOK
      <4>2. \A r \in Slots : Creates(r, n) => calls'[r].stage = calls[r].stage
        BY <1>3, <3>2
      <4>3. QED
        BY <1>1, <1>2, <1>3, <1>4, <4>1, <4>2 DEF Once
    <3>3. QED
      BY <3>1, <3>2
  <2>3. QED
    BY <1>2, <2>2 DEF Once
<1>7. QED
  BY <1>5, <1>6

\* The answer to a creation closes its form; a lost one is counted as lost.
LEMMA OnceAnswer ==
  ASSUME OnceInv, NEW s \in Slots, Answers(s)
  PROVE  Once'
<1> USE DEF OnceInv
<1>1. /\ UnderWay(s) /\ ~UnderWay(s)'
      /\ \A r \in Slots \ {s} : calls'[r] = calls[r]
  BY AnswerTypes
<1>2. UNCHANGED <<is, opened, made>>
  BY DEF Answers, Answered, Failed, ghosts
<1>3. \A r \in Slots : \A n \in Forms :
         /\ r # s => (Creates(r, n)' <=> Creates(r, n))
         /\ ~Creates(s, n)'
         /\ r # s => calls'[r] = calls[r]
  BY <1>1 DEF Creates, UnderWay
<1>4. /\ dialog' # None => dialog' = dialog
      /\ form'.n = form.n \/ (form'.n = 0 /\ dialog' = None)
      /\ lost \subseteq lost'
      /\ \A n \in Forms : Creates(s, n) =>
            \/ dialog' = None \/ ~Open(n)
            \/ n \in lost' \/ calls[s].stage # "done"
  <2>1. CASE Failed(s)
    <3>1. UNCHANGED <<dialog, form>> /\ lost \subseteq lost'
      BY <2>1 DEF Failed, states
    <3>2. \A n \in Forms : Creates(s, n) => n \in lost' \/ calls[s].stage # "done"
      BY <2>1 DEF Failed, Creates
    <3>3. QED
      BY <3>1, <3>2
  <2>2. CASE Answered(s)
    <3>1. WellKept(is) /\ lost' = lost
      BY <2>2, EditorAssumption DEF Answered, ghosts, Once
    <3>2. Reset(IF calls[s].mine THEN OnSuccess(calls[s].op) ELSE {})
      BY <2>2 DEF Answered
    <3>3. PICK which : /\ which \in {{}, is.onCreate, is.onUpdate, is.onDelete}
                       /\ Reset(which)
                       /\ calls[s].op = "create" /\ calls[s].mine => which = is.onCreate
      BY <3>2 DEF OnSuccess
    <3>4. {"id", "form"} \cap which # {} => "dialog" \in which
      BY <3>1, <3>3 DEF WellKept
    <3>5. /\ dialog' = IF "dialog" \in which THEN None ELSE dialog
          /\ form' = IF "form" \in which THEN Blank(0) ELSE form
      BY <3>3 DEF Reset
    <3>6. Blank(0).n = 0
      BY DEF Blank
    <3>7. \A n \in Forms : Creates(s, n) /\ Open(n) => dialog' = None
      <4>1. SUFFICES ASSUME NEW n \in Forms, Creates(s, n), Open(n)
                     PROVE  dialog' = None
        OBVIOUS
      <4>2. calls[s].mine /\ calls[s].op = "create" /\ is.form
        BY <4>1 DEF Once, Creates, Open
      <4>3. "dialog" \in which
        BY <3>1, <3>3, <4>2 DEF WellKept
      <4>4. QED
        BY <3>5, <4>3
    <3>8. QED
      BY <3>1, <3>4, <3>5, <3>6, <3>7
  <2>3. QED
    BY <2>1, <2>2 DEF Answers
<1>5. \A n \in Forms : n # 0 /\ (Open(n)' => Open(n))
  BY <1>4 DEF Open, Forms
<1>6. ASSUME NEW n \in Forms
      PROVE  /\ opened' < n => /\ form'.n # n /\ made'[n] = 0
                               /\ \A r \in Slots : ~Creates(r, n)'
             /\ \A q, r \in Slots : Creates(q, n)' /\ Creates(r, n)' => q = r
             /\ \A r \in Slots : Creates(r, n)' /\ Open(n)' => calls'[r].mine
             /\ n \notin lost' =>
                /\ made'[n] \in {0, 1}
                /\ made'[n] = 1 =>
                     /\ \A r \in Slots : Creates(r, n)' => calls'[r].stage = "done"
                     /\ Open(n)' => \E r \in Slots : Creates(r, n)'
  <2>1. \A r \in Slots : Creates(r, n)' => Creates(r, n) /\ r # s /\ calls'[r] = calls[r]
    BY <1>3
  <2>2. opened' < n => /\ form'.n # n /\ made'[n] = 0
                       /\ \A r \in Slots : ~Creates(r, n)'
    BY <1>2, <1>4, <1>5, <2>1 DEF Once
  <2>3. ASSUME n \notin lost', made'[n] = 1, Open(n)'
        PROVE  \E r \in Slots : Creates(r, n)'
    <3>1. n \notin lost /\ made[n] = 1 /\ Open(n) /\ dialog' # None
      BY <1>2, <1>4, <1>5, <2>3 DEF Open
    <3>2. PICK r \in Slots : Creates(r, n) /\ calls[r].stage = "done"
      BY <3>1 DEF Once
    <3>3. r # s
      BY <1>4, <2>3, <3>1, <3>2
    <3>4. QED
      BY <1>3, <3>2, <3>3
  <2>4. QED
    BY <1>2, <1>4, <1>5, <2>1, <2>2, <2>3 DEF Once
<1>7. dialog' # None => is'.form
  BY <1>2, <1>4 DEF Once
<1>8. QED
  BY <1>2, <1>6, <1>7 DEF Once

\* Every step keeps the count of rows of each form.
LEMMA StepOnce == OnceInv /\ [Next]_vars => OnceInv'
<1> SUFFICES ASSUME OnceInv, [Next]_vars PROVE OnceInv'
  OBVIOUS
<1>1. TypeInv'
  BY StepTypes DEF OnceInv
<1>2. Once'
  BY OnceUser, OnceOpen, OnceSubmit, OnceRowCall, OnceServe, OnceAnswer DEF Next, User
<1>3. QED
  BY <1>1, <1>2 DEF OnceInv

(***************************************************************************)
(* On every page that follows the common rules, one form makes at most one*)
(* row, whatever is pressed while a save is pending and however answers   *)
(* come late, unless the answer to a creation was lost.                    *)
(***************************************************************************)
THEOREM FormsMakeOneRow == Spec => []OneRowPerForm
<1>1. Init => OnceInv
  <2> SUFFICES ASSUME Init PROVE OnceInv
    OBVIOUS
  <2>1. form.n = 0 /\ \A n \in Forms : n # 0
    BY DEF Init, Blank, Forms
  <2>2. \A s \in Slots : \A n \in Forms : ~Creates(s, n)
    BY DEF Init, Creates, UnderWay
  <2>3. Once
    BY <2>1, <2>2 DEF Init, Once, Open
  <2>4. QED
    BY <2>3, InitTypes DEF OnceInv
<1>2. OnceInv /\ [Next]_vars => OnceInv'
  BY StepOnce
<1>3. OnceInv => OneRowPerForm
  <2>1. ASSUME OnceInv, NEW n \in Forms, n \notin lost
        PROVE  ~(made[n] > 1)
    <3>1. made[n] \in {0, 1}
      BY <2>1 DEF OnceInv, Once
    <3>2. QED
      BY <3>1
  <2>2. QED
    BY <2>1 DEF OneRowPerForm
<1>4. QED
  BY <1>1, <1>2, <1>3, PTL DEF Spec

-----------------------------------------------------------------------------
(* What a save overwrites.  Whatever was read of a row, by the list, the  *)
(* form or a call, is what the row holds as long as nobody has written it *)
(* since: a write takes the next number of the clock.                      *)

Agrees(rs, i, v, when) ==
    rs[i] # None /\ (rs[i].when <= when => rs[i].v = v /\ rs[i].live = TRUE)

RowsReturn(x, rs, now) ==
    \A i \in Ids : rs[i] # None => rs[i].v \in Returning(x) /\ rs[i].when <= now

ShotAgrees(x, q, rs, now) ==
    q \notin {None, Waiting} =>
        /\ q.when <= now
        /\ \A i \in Ids : q.of[i] # None =>
              q.of[i] \in Returning(x) /\ Agrees(rs, i, q.of[i], q.when)

FormAgrees(x, f, rs, now) ==
    /\ f.text \in Inputs(x) /\ f.when <= now
    /\ f.row # NoId /\ f.typed = FALSE =>
          \E v \in Returning(x) : f.text = Shown(x.shows, v) /\ Agrees(rs, f.row, v, f.when)

CallAgrees(x, c, rs, now) ==
    /\ c.form.when <= now
    /\ c.op \in {"create", "update"} => \E t \in Inputs(x) : c.body = Sent(x.sends, t)
    /\ c.op = "press" => c.body \in Returning(x)
    /\ c.op = "update" /\ c.form.typed = FALSE =>
          \E v \in Returning(x) : /\ c.body = Sent(x.sends, Shown(x.shows, v))
                                  /\ Agrees(rs, c.id, v, c.form.when)
    /\ c.stage = "read" => /\ c.op # "create"
                           /\ c.was \in Returning(x)
                           /\ c.form.when <= c.when /\ c.when <= now
                           /\ Agrees(rs, c.id, c.was, c.when)

Current ==
    /\ RowsReturn(is, rows, clock)
    /\ ShotAgrees(is, list, rows, clock) /\ ShotAgrees(is, fetch, rows, clock)
    /\ FormAgrees(is, form, rows, clock)
    /\ \A s \in Slots : UnderWay(s) => CallAgrees(is, calls[s], rows, clock)
WriteInv == HitInv /\ Current

\* Rows that were written are later than what was read before.
Written(x, rs, now, ws, then) ==
    /\ now \in Nat /\ then \in Nat /\ now <= then
    /\ rs \in [Ids -> Row \cup {None}] /\ ws \in [Ids -> Row \cup {None}]
    /\ \A i \in Ids : \/ ws[i] = rs[i]
                      \/ /\ ws[i] # None /\ ws[i].v \in Returning(x)
                         /\ now < ws[i].when /\ ws[i].when <= then

\* What agreed with a row agrees with it when it is written later.
LEMMA WrittenAgrees ==
  ASSUME NEW x, NEW rs, NEW now, NEW ws, NEW then, Written(x, rs, now, ws, then)
  PROVE  \A i \in Ids : \A v : \A when \in Nat :
            when <= now /\ Agrees(rs, i, v, when) => Agrees(ws, i, v, when)
<1> SUFFICES ASSUME NEW i \in Ids, NEW v, NEW when \in Nat, when <= now, Agrees(rs, i, v, when)
             PROVE  Agrees(ws, i, v, when)
  OBVIOUS
<1>1. now \in Nat
  BY DEF Written
<1>2. CASE ws[i] = rs[i]
  BY <1>2 DEF Agrees
<1>3. CASE ws[i] # None /\ now < ws[i].when
  <2>1. ws[i].when \in Nat
    BY <1>3 DEF Written, Row, Clock
  <2>2. ~(ws[i].when <= when)
    BY <1>1, <1>3, <2>1
  <2>3. QED
    BY <1>3, <2>2 DEF Agrees
<1>4. QED
  BY <1>2, <1>3 DEF Written

\* So everything that agreed with the rows goes on agreeing with them.
LEMMA WrittenKeeps ==
  ASSUME NEW x, NEW rs, NEW now, NEW ws, NEW then, Written(x, rs, now, ws, then)
  PROVE  /\ RowsReturn(x, rs, now) => RowsReturn(x, ws, then)
         /\ \A q \in Snapshot \cup {None, Waiting} :
               ShotAgrees(x, q, rs, now) => ShotAgrees(x, q, ws, then)
         /\ \A f \in FormState : FormAgrees(x, f, rs, now) => FormAgrees(x, f, ws, then)
         /\ \A c \in Call :
               CallAgrees(x, c, rs, now) /\ (c.op # "create" => c.id \in Ids)
                  => CallAgrees(x, c, ws, then)
<1>1. /\ now \in Nat /\ then \in Nat /\ now <= then /\ Clock \subseteq Nat
      /\ \A i \in Ids : rs[i] # None => rs[i].when \in Nat
  BY DEF Written, Clock, Row
<1>2. \A i \in Ids : \A v : \A when \in Nat :
         when <= now /\ Agrees(rs, i, v, when) => Agrees(ws, i, v, when)
  BY WrittenAgrees
<1>3. RowsReturn(x, rs, now) => RowsReturn(x, ws, then)
  BY <1>1 DEF RowsReturn, Written
<1>4. ASSUME NEW q \in Snapshot \cup {None, Waiting}, ShotAgrees(x, q, rs, now)
      PROVE  ShotAgrees(x, q, ws, then)
  <2>1. q \notin {None, Waiting} => q.when \in Nat
    BY <1>1 DEF Snapshot
  <2>2. QED
    BY <1>1, <1>2, <1>4, <2>1 DEF ShotAgrees
<1>5. ASSUME NEW f \in FormState, FormAgrees(x, f, rs, now)
      PROVE  FormAgrees(x, f, ws, then)
  <2>1. f.when \in Nat /\ f.row \in Ids \cup {NoId}
    BY <1>1 DEF FormState
  <2>2. QED
    BY <1>1, <1>2, <1>5, <2>1 DEF FormAgrees
<1>6. ASSUME NEW c \in Call, CallAgrees(x, c, rs, now), c.op # "create" => c.id \in Ids
      PROVE  CallAgrees(x, c, ws, then)
  <2>1. c.when \in Nat /\ c.form.when \in Nat
    BY <1>1 DEF Call, FormState
  <2>2. /\ c.form.when <= now /\ c.form.when <= then
        /\ c.stage = "read" => c.when <= now /\ c.when <= then
    BY <1>1, <1>6, <2>1 DEF CallAgrees
  <2>3. QED
    BY <1>2, <1>6, <2>1, <2>2 DEF CallAgrees
<1>7. QED
  BY <1>3, <1>4, <1>5, <1>6


\* Rows that nobody wrote.
LEMMA Unwritten ==
  ASSUME NEW x, NEW rs \in [Ids -> Row \cup {None}], NEW now \in Clock
  PROVE  Written(x, rs, now, rs, now)
BY DEF Written, Clock

\* What the page and its calls hold goes on agreeing with the rows.
LEMMA StillAgree ==
  ASSUME WriteInv, Written(is, rows, clock, rows', clock')
  PROVE  /\ RowsReturn(is, rows', clock')
         /\ ShotAgrees(is, list, rows', clock') /\ ShotAgrees(is, fetch, rows', clock')
         /\ FormAgrees(is, form, rows', clock')
         /\ \A s \in Slots : UnderWay(s) => CallAgrees(is, calls[s], rows', clock')
<1> USE DEF WriteInv, HitInv, TypeInv
<1>1. /\ list \in Snapshot \cup {None, Waiting} /\ fetch \in Snapshot \cup {None, Waiting}
      /\ form \in FormState
      /\ \A s \in Slots : UnderWay(s) =>
            calls[s] \in Call /\ (calls[s].op # "create" => calls[s].id \in Ids)
  BY CallUnderWay DEF TypeOK, CallsWell
<1>2. /\ RowsReturn(is, rows, clock)
      /\ ShotAgrees(is, list, rows, clock) /\ ShotAgrees(is, fetch, rows, clock)
      /\ FormAgrees(is, form, rows, clock)
      /\ \A s \in Slots : UnderWay(s) => CallAgrees(is, calls[s], rows, clock)
  BY DEF Current
<1>3. /\ RowsReturn(is, rows, clock) => RowsReturn(is, rows', clock')
      /\ \A q \in Snapshot \cup {None, Waiting} :
            ShotAgrees(is, q, rows, clock) => ShotAgrees(is, q, rows', clock')
      /\ \A f \in FormState :
            FormAgrees(is, f, rows, clock) => FormAgrees(is, f, rows', clock')
      /\ \A c \in Call :
            CallAgrees(is, c, rows, clock) /\ (c.op # "create" => c.id \in Ids)
               => CallAgrees(is, c, rows', clock')
  BY WrittenKeeps
<1>4. QED
  BY <1>1, <1>2, <1>3

\* A call that goes on with what it was made with.
LEMMA SameCall ==
  ASSUME NEW x, NEW c, NEW d, NEW rs, NEW now, CallAgrees(x, c, rs, now),
         d.op = c.op, d.id = c.id, d.body = c.body, d.form = c.form,
         \/ d.stage # "read"
         \/ d.stage = c.stage /\ d.was = c.was /\ d.when = c.when
  PROVE  CallAgrees(x, d, rs, now)
BY DEF CallAgrees

\* How a page reads its rows and what the service stores go together.
LEMMA ReadsWell ==
  ASSUME HitInv
  PROVE  WellRead(is)
BY ConversionsAssumption DEF HitInv, FormMatches

\* A write of a value that the page reads as it is.
LEMMA RowWritten ==
  ASSUME WriteInv, NEW i \in Ids, NEW v \in Returning(is), NEW live \in BOOLEAN,
         WriteRow(i, v, live)
  PROVE  Written(is, rows, clock, rows', clock')
<1> USE DEF WriteInv, HitInv, TypeInv
<1>1. rows \in [Ids -> Row \cup {None}] /\ clock \in Clock /\ clock \in Nat
  BY DEF TypeOK, Clock
<1>2. CASE UNCHANGED server
  BY <1>1, <1>2, Unwritten DEF server
<1>3. CASE ~UNCHANGED server
  <2>1. /\ clock < MaxWrites /\ clock' = clock + 1
        /\ rows' = [rows EXCEPT ![i] = [v |-> v, live |-> live, when |-> clock']]
    BY <1>3 DEF WriteRow
  <2>2. v \in Values
    BY DEF Returning
  <2>3. rows' \in [Ids -> Row \cup {None}] /\ clock' \in Clock /\ clock <= clock'
    BY <2>2, WriteTypes
  <2>4. clock' \in Nat /\ clock < clock'
    BY <1>1, <2>1
  <2>5. [v |-> v, live |-> live, when |-> clock'] \in Row
    BY <2>2, <2>3 DEF Row
  <2>6. \A j \in Ids : rows'[j] = IF j = i THEN [v |-> v, live |-> live, when |-> clock']
                                  ELSE rows[j]
    BY <1>1, <2>1
  <2>7. QED
    BY <1>1, <2>3, <2>4, <2>5, <2>6, Marks DEF Written
<1>4. QED
  BY <1>2, <1>3

\* The query: what it reads is what the rows hold.
LEMMA QueryCurrent ==
  ASSUME WriteInv, Return \/ Refetch \/ Query \/ AskDelete \/ CancelDelete \/ UNCHANGED vars
  PROVE  Current'
<1> USE DEF WriteInv, HitInv, TypeInv
<1>1. UNCHANGED <<is, rows, clock, form, calls>>
  BY DEF Return, Refetch, Query, FetchRead, FetchArrives, FetchFails, AskDelete,
         CancelDelete, vars, server, states
<1>2. /\ RowsReturn(is, rows, clock)
      /\ ShotAgrees(is, list, rows, clock) /\ ShotAgrees(is, fetch, rows, clock)
      /\ FormAgrees(is, form, rows, clock)
      /\ \A s \in Slots : UnderWay(s) => CallAgrees(is, calls[s], rows, clock)
  BY DEF Current
<1>3. /\ ShotAgrees(is, None, rows, clock) /\ ShotAgrees(is, Waiting, rows, clock)
  BY DEF ShotAgrees
<1>4. ShotAgrees(is, list', rows, clock) /\ ShotAgrees(is, fetch', rows, clock)
  <2>1. CASE FetchRead
    <3>1. list' = list /\ fetch' = [of |-> [i \in Ids |-> IF Live(i) THEN rows[i].v ELSE None],
                                    when |-> clock]
      BY <2>1 DEF FetchRead
    <3>2. \A i \in Ids : Live(i) => /\ rows[i].v \in Returning(is)
                                    /\ Agrees(rows, i, rows[i].v, clock)
      BY <1>2 DEF Live, RowsReturn, Agrees, TypeOK, Row
    <3>3. clock <= clock
      BY DEF TypeOK, Clock
    <3>4. ShotAgrees(is, fetch', rows, clock)
      BY <3>1, <3>2, <3>3 DEF ShotAgrees
    <3>5. QED
      BY <1>2, <3>1, <3>4
  <2>2. CASE FetchArrives
    BY <1>2, <1>3, <2>2 DEF FetchArrives
  <2>3. CASE ~FetchRead /\ ~FetchArrives
    <3>1. list' = list /\ fetch' \in {fetch, None, Waiting}
      BY <2>3 DEF Return, Refetch, Query, FetchFails, AskDelete, CancelDelete, vars, query
    <3>2. QED
      BY <1>2, <1>3, <3>1
  <2>4. QED
    BY <2>1, <2>2, <2>3
<1>5. QED
  BY <1>1, <1>2, <1>4 DEF Current, UnderWay


\* A form that was not loaded from a row.
LEMMA BlankAgrees ==
  ASSUME HitInv, NEW n, NEW rs
  PROVE  FormAgrees(is, Blank(n), rs, clock)
<1>1. /\ Blank(n).text = is.blank /\ Blank(n).row = NoId /\ Blank(n).when = 0
  BY DEF Blank
<1>2. is.blank \in Inputs(is)
  BY DEF Inputs
<1>3. 0 <= clock
  BY DEF HitInv, TypeInv, TypeOK, Clock
<1>4. QED
  BY <1>1, <1>2, <1>3 DEF FormAgrees

\* Leaving the page closes the form and marks the calls.
LEMMA LeaveCurrent ==
  ASSUME WriteInv, Leave
  PROVE  Current'
<1> USE DEF WriteInv, HitInv, TypeInv
<1>1. UNCHANGED <<is, rows, clock, list, fetch>> /\ form' = Blank(0)
  BY DEF Leave, server, query
<1>2. ASSUME NEW s \in Slots, UnderWay(s)'
      PROVE  CallAgrees(is, calls'[s], rows, clock)
  <2>1. UnderWay(s)
    BY <1>2, LeaveTypes
  <2>2. calls'[s] = [calls[s] EXCEPT !.mine = FALSE]
    BY <2>1 DEF Leave
  <2>3. calls[s] \in Call
    BY <2>1, CallUnderWay
  <2>4. /\ calls'[s].op = calls[s].op /\ calls'[s].id = calls[s].id
        /\ calls'[s].body = calls[s].body /\ calls'[s].form = calls[s].form
        /\ calls'[s].stage = calls[s].stage /\ calls'[s].was = calls[s].was
        /\ calls'[s].when = calls[s].when
    BY <2>2, <2>3 DEF Call
  <2>5. CallAgrees(is, calls[s], rows, clock)
    BY <2>1 DEF Current
  <2>6. QED
    BY <2>4, <2>5, SameCall
<1>3. FormAgrees(is, Blank(0), rows, clock)
  BY BlankAgrees
<1>4. QED
  BY <1>1, <1>2, <1>3 DEF Current

\* What typing changes.
LEMMA FormTyped ==
  ASSUME form \in FormState, Type
  PROVE  /\ form'.text \in is.types /\ form'.typed = TRUE /\ form'.when = form.when
         /\ UNCHANGED <<is, rows, clock, list, fetch, calls>>
BY DEF Type, server, query, FormState

\* The form: what it is loaded with is what the list showed of the row.
LEMMA FormCurrent ==
  ASSUME WriteInv, OpenNew \/ OpenEdit \/ Type \/ CloseForm
  PROVE  Current'
<1> USE DEF WriteInv, HitInv, TypeInv
<1>1. UNCHANGED <<is, rows, clock, list, fetch, calls>>
  <2>1. CASE OpenNew
    BY <2>1 DEF OpenNew, server, query
  <2>2. CASE OpenEdit
    BY <2>2 DEF OpenEdit, server, query
  <2>3. CASE Type
    BY <2>3, FormTyped DEF TypeOK
  <2>4. CASE CloseForm
    BY <2>4 DEF CloseForm, server, query
  <2>5. QED
    BY <2>1, <2>2, <2>3, <2>4
<1>2. /\ is \in Sample /\ form \in FormState /\ WellKept(is)
      /\ ShotAgrees(is, list, rows, clock) /\ FormAgrees(is, form, rows, clock)
  BY Kept DEF TypeOK, Current
<1>3. FormAgrees(is, form', rows, clock)
  <2>1. CASE OpenNew
    <3>1. form' = Blank(opened')
      BY <1>2, <2>1 DEF OpenNew, WellKept
    <3>2. QED
      BY <3>1, BlankAgrees
  <2>2. CASE OpenEdit
    <3>1. PICK i \in Ids :
             /\ Visible(i)
             /\ form' = [text |-> Shown(is.shows, list.of[i]), row |-> i,
                         when |-> list.when, typed |-> FALSE, n |-> opened']
      BY <2>2 DEF OpenEdit
    <3>2. list \notin {None, Waiting} /\ list.of[i] # None
      BY <3>1, Marks DEF Visible, TypeOK
    <3>3. /\ list.when <= clock /\ list.of[i] \in Returning(is)
          /\ Agrees(rows, i, list.of[i], list.when)
      BY <1>2, <3>2 DEF ShotAgrees
    <3>4. Shown(is.shows, list.of[i]) \in Inputs(is)
      BY <3>3 DEF Inputs
    <3>5. QED
      BY <3>1, <3>3, <3>4 DEF FormAgrees
  <2>3. CASE Type
    <3>1. /\ form'.text \in is.types /\ form'.typed = TRUE
          /\ form'.when = form.when
      BY <1>2, <2>3, FormTyped
    <3>2. form'.text \in Inputs(is)
      BY <3>1 DEF Inputs
    <3>3. QED
      BY <1>2, <3>1, <3>2 DEF FormAgrees
  <2>4. CASE CloseForm
    BY <2>4, BlankAgrees DEF CloseForm
  <2>5. QED
    BY <2>1, <2>2, <2>3, <2>4
<1>4. QED
  BY <1>1, <1>3 DEF Current, UnderWay

\* What is sent is what the form held.
LEMMA SubmitCurrent ==
  ASSUME WriteInv, Submit
  PROVE  Current'
<1> USE DEF WriteInv, HitInv, TypeInv
<1>1. UNCHANGED <<is, rows, clock, list, fetch, form>>
  BY DEF Submit, server, query, states
<1>2. PICK s \in Slots : /\ calls'[s] = Saves
                         /\ \A r \in Slots \ {s} : calls'[r] = calls[r]
  BY SubmitTypes
<1>3. form \in FormState /\ FormAgrees(is, form, rows, clock)
  BY DEF TypeOK, Current
<1> DEFINE f == [form EXCEPT !.text = is.blank]
<1>4. f.row = form.row /\ f.when = form.when /\ f.typed = form.typed
  BY <1>3 DEF FormState
<1>5. /\ Saves.form = f /\ Saves.body = Sent(is.sends, form.text)
      /\ Saves.stage = "sent" /\ Saves.op \in {"create", "update"}
      /\ Saves.op = "update" => Updates /\ Saves.id = id
  BY DEF Saves, Request
<1> HIDE DEF f
<1>6. form.text \in Inputs(is) /\ form.when <= clock
  BY <1>3 DEF FormAgrees
<1>7. ASSUME Updates
      PROVE  form.row = id /\ form.row # NoId
  <2>1. dialog \in {"create", "edit"}
    BY DEF Submit, TypeOK
  <2>2. QED
    BY <1>7, <2>1 DEF Updates, FormMatches
<1>8. ASSUME Saves.op = "update", form.typed = FALSE
      PROVE  \E v \in Returning(is) : /\ Saves.body = Sent(is.sends, Shown(is.shows, v))
                                      /\ Agrees(rows, Saves.id, v, form.when)
  <2>1. Saves.id = form.row /\ form.row # NoId
    BY <1>5, <1>7, <1>8
  <2>2. PICK v \in Returning(is) : form.text = Shown(is.shows, v)
                                   /\ Agrees(rows, form.row, v, form.when)
    BY <1>3, <1>8, <2>1 DEF FormAgrees
  <2>3. QED
    BY <1>5, <2>1, <2>2
<1>9. CallAgrees(is, Saves, rows, clock)
  BY <1>4, <1>5, <1>6, <1>8 DEF CallAgrees
<1>10. QED
  BY <1>1, <1>2, <1>9 DEF Current, UnderWay

\* What a row's control saves, and what it may ask for.
LEMMA Controls ==
  ASSUME NEW x \in Sample
  PROVE  /\ x.press \in {"none", "column", "row", "touch"}
         /\ x.offers \in {"none", "negation", "another"}
BY ZenonT(60) DEF Sample

\* A call that a row's control makes.
LEMMA RowRequest ==
  ASSUME HitInv, NEW op, NEW i, NEW body, NEW c, c = Request(op, i, body, Blank(0))
  PROVE  /\ c.op = op /\ c.id = i /\ c.body = body /\ c.stage = "sent"
         /\ c.form.when = 0
BY DEF Request, Blank

\* A control asks for a value that it offers for what the list shows.
LEMMA RowCallCurrent ==
  ASSUME WriteInv, ConfirmDelete \/ Press
  PROVE  Current'
<1> USE DEF WriteInv, HitInv, TypeInv
<1>1. UNCHANGED <<is, rows, clock, list, fetch, form>>
  BY DEF ConfirmDelete, Press, server, query, states
<1>2. PICK c : /\ Place(c) /\ c.stage = "sent" /\ c.form.when = 0
               /\ c.op \in {"delete", "touch", "press"}
               /\ c.op = "press" => c.body \in Returning(is)
  <2>1. CASE ConfirmDelete
    <3>1. PICK i : Place(Request("delete", i, is.blank, Blank(0)))
      BY <2>1 DEF ConfirmDelete
    <3>2. QED
      BY <3>1, RowRequest
  <2>2. CASE Press
    <3>1. PICK i \in Ids :
             /\ Visible(i)
             /\ IF is.press = "touch"
                THEN Place(Request("touch", i, is.blank, Blank(0)))
                ELSE \E v \in Offered(is.offers, list.of[i]) :
                        Place(Request("press", i, v, Blank(0)))
      BY <2>2 DEF Press
    <3>3. CASE is.press = "touch"
      BY <3>1, <3>3, RowRequest
    <3>4. CASE is.press # "touch"
      <4>1. PICK v \in Offered(is.offers, list.of[i]) :
               Place(Request("press", i, v, Blank(0)))
        BY <3>1, <3>4
      <4>2. list \notin {None, Waiting} /\ list.of[i] # None
        BY <3>1, Marks DEF Visible, TypeOK
      <4>3. list.of[i] \in Returning(is)
        BY <4>2 DEF Current, ShotAgrees
      <4>4. is.press \in {"column", "row"}
        <5>1. is \in Sample /\ is.press # "none"
          BY <2>2 DEF Press, TypeOK
        <5>2. is.press \in {"none", "column", "row", "touch"}
          BY <5>1, Controls
        <5>3. QED
          BY <3>4, <5>1, <5>2
      <4>5. v \in Returning(is)
        BY <4>1, <4>3, <4>4, ReadsWell DEF WellRead
      <4>6. QED
        BY <4>1, <4>5, RowRequest
    <3>5. QED
      BY <3>3, <3>4
  <2>3. QED
    BY <2>1, <2>2
<1>3. PICK s \in Slots : calls' = [calls EXCEPT ![s] = c]
  BY <1>2 DEF Place
<1>4. \A r \in Slots : calls'[r] = IF r = s THEN c ELSE calls[r]
  BY <1>3 DEF TypeOK
<1>5. c.form.when <= clock
  BY <1>2 DEF TypeOK, Clock
<1>6. CallAgrees(is, c, rows, clock)
  BY <1>2, <1>5 DEF CallAgrees
<1>7. QED
  BY <1>1, <1>4, <1>6 DEF Current, UnderWay


\* What a call saves is a value that the page reads as it is.
LEMMA SavedReturns ==
  ASSUME WriteInv, NEW s \in Slots, UnderWay(s),
         SavesRow(calls[s]), calls[s].stage = "read"
  PROVE  Saved(calls[s]) \in Returning(is)
<1> USE DEF WriteInv, HitInv, TypeInv
<1>1. CallAgrees(is, calls[s], rows, clock) /\ WellRead(is)
  BY ReadsWell DEF Current
<1>2. calls[s].was \in Returning(is)
  BY <1>1 DEF CallAgrees
<1>3. CASE calls[s].op = "update"
  <2>1. PICK t \in Inputs(is) : calls[s].body = Sent(is.sends, t)
    BY <1>1, <1>3 DEF CallAgrees
  <2>2. Updated(is.updates, calls[s].was, calls[s].body) \in Returning(is)
    BY <1>1, <1>2, <2>1 DEF WellRead
  <2>3. QED
    BY <1>3, <2>2 DEF Saved
<1>4. CASE calls[s].op = "touch"
  BY <1>2, <1>4 DEF Saved
<1>5. CASE calls[s].op = "press"
  BY <1>1, <1>5 DEF Saved, CallAgrees
<1>6. QED
  BY <1>3, <1>4, <1>5 DEF SavesRow

\* A step of the server writes such a value, if any.
LEMMA ServeWritten ==
  ASSUME WriteInv, NEW s \in Slots, Serve(s)
  PROVE  Written(is, rows, clock, rows', clock')
<1> USE DEF WriteInv, HitInv, TypeInv
<1>1. /\ UnderWay(s) /\ calls[s] \in Call
      /\ calls[s].op # "create" => calls[s].id \in Ids
      /\ CallAgrees(is, calls[s], rows, clock) /\ WellRead(is)
  BY CallUnderWay, ReadsWell DEF Serve, CallsWell, Current
<1>2. Written(is, rows, clock, rows, clock)
  BY Unwritten DEF TypeOK
<1>3. CASE ServeCreate(s)
  <2>1. PICK i \in Ids : WriteRow(i, Created(is.creates, calls[s].body), TRUE)
    BY <1>3 DEF ServeCreate
  <2>2. PICK t \in Inputs(is) : calls[s].body = Sent(is.sends, t)
    BY <1>1, <1>3 DEF ServeCreate, CallAgrees
  <2>3. Created(is.creates, calls[s].body) \in Returning(is)
    BY <1>1, <2>2 DEF WellRead
  <2>4. QED
    BY <2>1, <2>3, RowWritten
<1>4. CASE ServeRead(s)
  BY <1>2, <1>4 DEF ServeRead, server
<1>5. CASE ServeSave(s)
  <2>1. /\ SavesRow(calls[s]) /\ calls[s].stage = "read"
        /\ WriteRow(calls[s].id, Saved(calls[s]), TRUE) /\ calls[s].op # "create"
    BY <1>5 DEF ServeSave, SavesRow
  <2>2. QED
    BY <1>1, <2>1, SavedReturns, RowWritten
<1>6. CASE ServeColumn(s)
  <2>1. calls[s].id \in Ids
    BY <1>1, <1>6 DEF ServeColumn
  <2>2. CASE ~Live(calls[s].id)
    BY <1>2, <1>6, <2>2 DEF ServeColumn, server
  <2>3. CASE Live(calls[s].id) /\ calls[s].op = "press"
    <3>1. WriteRow(calls[s].id, calls[s].body, TRUE)
      BY <1>6, <2>3 DEF ServeColumn
    <3>2. calls[s].body \in Returning(is)
      BY <1>1, <2>3 DEF CallAgrees
    <3>3. QED
      BY <2>1, <3>1, <3>2, RowWritten
  <2>4. CASE Live(calls[s].id) /\ calls[s].op # "press"
    <3>1. WriteRow(calls[s].id, rows[calls[s].id].v, FALSE)
      BY <1>6, <2>4 DEF ServeColumn
    <3>2. rows[calls[s].id].v \in Returning(is)
      BY <2>1, <2>4 DEF Live, Current, RowsReturn
    <3>3. QED
      BY <2>1, <3>1, <3>2, RowWritten
  <2>5. QED
    BY <2>2, <2>3, <2>4
<1>7. QED
  BY <1>3, <1>4, <1>5, <1>6 DEF Serve

\* What the server knows of a call it works on.
LEMMA ServedCall ==
  ASSUME WriteInv, NEW s \in Slots, Serve(s)
  PROVE  /\ calls'[s].op = calls[s].op /\ calls'[s].id = calls[s].id
         /\ calls'[s].body = calls[s].body /\ calls'[s].form = calls[s].form
         /\ \/ calls'[s].stage = "done"
            \/ /\ ServeRead(s) /\ calls'[s].stage = "read" /\ calls'[s].when = clock
               /\ calls'[s].was = rows[calls[s].id].v
<1> USE DEF WriteInv, HitInv, TypeInv
<1>1. UnderWay(s) /\ calls[s] \in Call /\ calls \in [Slots -> Call \cup {None, Over}]
  BY CallUnderWay DEF Serve, TypeOK
<1>2. CASE ServeRead(s)
  <2>1. calls'[s] = [calls[s] EXCEPT !.stage = "read", !.when = clock,
                                     !.was = rows[calls[s].id].v]
    BY <1>1, <1>2 DEF ServeRead
  <2>2. QED
    BY <1>1, <1>2, <2>1 DEF Call
<1>3. CASE ~ServeRead(s)
  <2>1. Advance(s, "done")
    BY <1>3 DEF Serve, ServeCreate, ServeSave, ServeColumn
  <2>2. calls'[s] = [calls[s] EXCEPT !.stage = "done", !.when = clock', !.was = None]
    BY <1>1, <2>1 DEF Advance
  <2>3. QED
    BY <1>1, <2>2 DEF Call
<1>4. QED
  BY <1>2, <1>3

\* A call that reads its row holds what the row holds.
LEMMA ServeCurrent ==
  ASSUME WriteInv, NEW s \in Slots, Serve(s)
  PROVE  Current'
<1> USE DEF WriteInv, HitInv, TypeInv
<1>1. UNCHANGED <<is, list, fetch, form>>
  BY DEF Serve, query, states
<1>2. /\ RowsReturn(is, rows', clock')
      /\ ShotAgrees(is, list, rows', clock') /\ ShotAgrees(is, fetch, rows', clock')
      /\ FormAgrees(is, form, rows', clock')
      /\ \A r \in Slots : UnderWay(r) => CallAgrees(is, calls[r], rows', clock')
  BY ServeWritten, StillAgree
<1>3. /\ UnderWay(s)
      /\ \A r \in Slots \ {s} : calls'[r] = calls[r]
  BY ServeTypes
<1>4. CallAgrees(is, calls'[s], rows', clock')
  <2>1. CallAgrees(is, calls[s], rows', clock')
    BY <1>2, <1>3
  <2>2. CASE calls'[s].stage = "done"
    BY <2>1, <2>2, SameCall, ServedCall
  <2>3. CASE ServeRead(s) /\ calls'[s].stage = "read"
    <3>1. /\ Live(calls[s].id) /\ SavesRow(calls[s])
          /\ UNCHANGED <<rows, clock>>
      BY <2>3 DEF ServeRead, server
    <3>2. /\ calls'[s].op = calls[s].op /\ calls'[s].id = calls[s].id
          /\ calls'[s].body = calls[s].body /\ calls'[s].form = calls[s].form
          /\ calls'[s].when = clock /\ calls'[s].was = rows[calls[s].id].v
      BY <2>3, ServedCall
    <3>3. calls[s].op # "create" /\ calls[s].id \in Ids
      BY <1>3, <3>1 DEF SavesRow, CallsWell
    <3>4. /\ rows[calls[s].id] # None /\ rows[calls[s].id].live = TRUE
          /\ rows[calls[s].id].v \in Returning(is)
      BY <1>2, <3>1, <3>3 DEF Live, RowsReturn, TypeOK, Row
    <3>5. Agrees(rows, calls[s].id, rows[calls[s].id].v, clock)
      BY <3>4 DEF Agrees
    <3>6. clock <= clock
      BY DEF TypeOK, Clock
    <3>7. QED
      BY <2>1, <3>1, <3>2, <3>3, <3>4, <3>5, <3>6 DEF CallAgrees
  <2>4. QED
    BY <2>2, <2>3, ServedCall
<1>5. \A r \in Slots : UnderWay(r)' => CallAgrees(is, calls'[r], rows', clock')
  BY <1>2, <1>3, <1>4 DEF UnderWay
<1>6. QED
  BY <1>1, <1>2, <1>5 DEF Current

\* An answer closes the form or leaves it as it is.
LEMMA AnswerCurrent ==
  ASSUME WriteInv, NEW s \in Slots, Answers(s)
  PROVE  Current'
<1> USE DEF WriteInv, HitInv, TypeInv
<1>1. UNCHANGED <<is, rows, clock, list>>
  BY DEF Answers, Answered, Failed, server, query
<1>2. /\ ShotAgrees(is, fetch, rows, clock) /\ FormAgrees(is, form, rows, clock)
      /\ ShotAgrees(is, None, rows, clock) /\ ShotAgrees(is, Waiting, rows, clock)
      /\ FormAgrees(is, Blank(0), rows, clock)
  BY BlankAgrees DEF Current, ShotAgrees
<1>3. fetch' \in {fetch, None, Waiting} /\ form' \in {form, Blank(0)}
  <2>1. CASE Answered(s)
    <3>1. fetch' \in {fetch, None, Waiting}
      BY <2>1 DEF Answered, Invalidate
    <3>2. form' \in {form, Blank(0)}
      BY <2>1 DEF Answered, Reset
    <3>3. QED
      BY <3>1, <3>2
  <2>2. CASE Failed(s)
    BY <2>2 DEF Failed, query, states
  <2>3. QED
    BY <2>1, <2>2 DEF Answers
<1>4. \A r \in Slots : UnderWay(r)' => UnderWay(r) /\ calls'[r] = calls[r]
  BY AnswerTypes DEF UnderWay
<1>5. QED
  BY <1>1, <1>2, <1>3, <1>4 DEF Current

\* What other people write comes after what was read.
LEMMA OthersCurrent ==
  ASSUME WriteInv, OtherWrites
  PROVE  Current'
<1> USE DEF WriteInv, HitInv, TypeInv
<1>1. PICK i \in Ids : /\ Live(i)
                       /\ \/ \E v \in is.others \ {rows[i].v} : WriteRow(i, v, TRUE)
                          \/ WriteRow(i, rows[i].v, FALSE)
  BY DEF OtherWrites
<1>2. rows[i].v \in Returning(is) /\ is.others \subseteq Returning(is)
  BY <1>1, ReadsWell DEF Live, Current, RowsReturn, WellRead
<1>3. Written(is, rows, clock, rows', clock')
  BY <1>1, <1>2, RowWritten
<1>4. UNCHANGED <<is, list, fetch, form, calls>>
  BY DEF OtherWrites, query, states
<1>5. QED
  BY <1>3, <1>4, StillAgree DEF Current, UnderWay

\* Every step keeps what was read in agreement with the rows.
LEMMA StepCurrent == WriteInv /\ [Next]_vars => WriteInv'
<1> SUFFICES ASSUME WriteInv, [Next]_vars PROVE WriteInv'
  OBVIOUS
<1>1. HitInv'
  BY StepHits DEF WriteInv
<1>2. Current'
  BY QueryCurrent, LeaveCurrent, FormCurrent, SubmitCurrent, RowCallCurrent,
     ServeCurrent, AnswerCurrent, OthersCurrent DEF Next, User
<1>3. QED
  BY <1>1, <1>2 DEF WriteInv

\* Only the save of a whole row takes a call that has read to its end.
LEMMA SaveEnds ==
  ASSUME WriteInv, [Next]_vars, NEW s \in Slots, UnderWay(s), UnderWay(s)',
         calls[s].stage = "read", calls'[s].stage = "done"
  PROVE  ServeSave(s)
<1> USE DEF WriteInv, HitInv, TypeInv
<1>1. CASE Return \/ Refetch \/ Query \/ AskDelete \/ CancelDelete \/ OtherWrites
           \/ UNCHANGED vars
  <2>1. calls' = calls
    BY <1>1 DEF Return, Refetch, Query, FetchRead, FetchArrives, FetchFails,
                AskDelete, CancelDelete, OtherWrites, vars
  <2>2. QED
    BY <2>1
<1>2. CASE Leave
  BY <1>2, LeaveTypes
<1>3. CASE OpenNew \/ OpenEdit \/ Type \/ CloseForm
  BY <1>3, DialogTypes
<1>4. CASE Submit
  BY <1>4, SubmitTypes
<1>5. CASE ConfirmDelete \/ Press
  BY <1>5, RowCallTypes
<1>6. CASE \E r \in Slots : Serve(r) \/ Answers(r)
  <2>1. PICK r \in Slots : Serve(r) \/ Answers(r)
    BY <1>6
  <2>2. r = s
    <3>1. ASSUME r # s PROVE calls'[s] = calls[s]
      BY <2>1, <3>1, ServeTypes, AnswerTypes
    <3>2. QED
      BY <3>1
  <2>3. Serve(s)
    BY <2>1, <2>2, AnswerTypes
  <2>4. QED
    BY <2>3 DEF Serve, ServeCreate, ServeRead, ServeColumn
<1>7. QED
  BY <1>1, <1>2, <1>3, <1>4, <1>5, <1>6 DEF Next, User

(***************************************************************************)
(* On every page whose conversions fit what its service stores, and with  *)
(* any number of forms, calls and other writers: a save that was not meant*)
(* for this field changes it, or brings back a deleted row, only over a   *)
(* write that the page, or the control's call, had not read.               *)
(***************************************************************************)
THEOREM SavesOverwriteOnlyUnread == Spec => NoSilentOverwrite
<1> DEFINE Act == \A s \in Slots :
          (/\ UnderWay(s) /\ UnderWay(s)'
           /\ calls[s].stage = "read" /\ calls'[s].stage = "done"
           /\ Unmeant(calls[s])
           /\ rows'[calls[s].id] # rows[calls[s].id])
          => rows[calls[s].id].when > SeenBy(calls[s])
<1>1. Init => WriteInv
  <2> SUFFICES ASSUME Init PROVE WriteInv
    OBVIOUS
  <2>1. HitInv
    <3>1. FormMatches /\ SaveHitsItsRow
      BY Marks DEF Init, FormMatches, SaveHitsItsRow, UnderWay
    <3>2. QED
      BY <3>1, InitTypes DEF HitInv
  <2>2. is.first \in Returning(is)
    BY <2>1, ReadsWell DEF WellRead
  <2>3. RowsReturn(is, rows, clock)
    <3>1. \A i \in Ids : rows[i] # None => rows[i].v = is.first /\ rows[i].when = 0
      BY Marks DEF Init
    <3>2. QED
      BY <2>2, <3>1 DEF RowsReturn, Init
  <2>4. FormAgrees(is, form, rows, clock)
    BY <2>1, BlankAgrees DEF Init
  <2>5. Current
    BY <2>3, <2>4 DEF Init, Current, ShotAgrees, UnderWay
  <2>6. QED
    BY <2>1, <2>5 DEF WriteInv
<1>2. WriteInv /\ [Next]_vars => WriteInv'
  BY StepCurrent
<1>3. WriteInv /\ [Next]_vars => Act
  <2> SUFFICES ASSUME WriteInv, [Next]_vars, NEW s \in Slots,
                      UnderWay(s), UnderWay(s)',
                      calls[s].stage = "read", calls'[s].stage = "done",
                      Unmeant(calls[s]), rows'[calls[s].id] # rows[calls[s].id]
               PROVE  rows[calls[s].id].when > SeenBy(calls[s])
    OBVIOUS
  <2> DEFINE c == calls[s]
             row == rows[c.id]
  <2>1. ServeSave(s) /\ c \in Call /\ c.op \in {"update", "touch"} /\ c.id \in Ids
    BY SaveEnds, CallUnderWay DEF WriteInv, HitInv, TypeInv, CallsWell, Unmeant
  <2>2. CallAgrees(is, c, rows, clock)
    BY DEF WriteInv, Current
  <2>3. /\ c.was \in Returning(is) /\ Agrees(rows, c.id, c.was, c.when)
        /\ c.form.when <= c.when
    BY <2>2 DEF CallAgrees
  <2>4. /\ row # None /\ row.when \in Nat /\ c.when \in Nat /\ c.form.when \in Nat
    BY <2>1, <2>3 DEF Agrees, WriteInv, HitInv, TypeInv, TypeOK, Row, Clock, Call, FormState
  <2>5. row.v # Saved(c) \/ row.live # TRUE
    <3>1. WriteRow(c.id, Saved(c), TRUE) /\ ~UNCHANGED server
      BY <2>1 DEF ServeSave, server
    <3>2. QED
      BY <2>4, <3>1 DEF WriteRow
  <2>6. CASE c.op = "touch"
    <3>1. Saved(c) = c.was /\ SeenBy(c) = c.when
      BY <2>6 DEF Saved, SeenBy
    <3>2. ~(row.when <= c.when)
      BY <2>3, <2>5, <3>1 DEF Agrees
    <3>3. QED
      BY <2>4, <3>1, <3>2
  <2>7. CASE c.op = "update"
    <3>1. c.form.typed = FALSE
      BY <2>1, <2>7 DEF Unmeant, Call, FormState
    <3>2. PICK v \in Returning(is) : /\ c.body = Sent(is.sends, Shown(is.shows, v))
                                     /\ Agrees(rows, c.id, v, c.form.when)
      BY <2>2, <2>7, <3>1 DEF CallAgrees
    <3>3. Updated(is.updates, v, c.body) = v
      BY <3>2 DEF Returning
    <3>4. Saved(c) = Updated(is.updates, c.was, c.body) /\ SeenBy(c) = c.form.when
      BY <2>7 DEF Saved, SeenBy
    <3>5. ASSUME row.when <= c.form.when PROVE FALSE
      <4>1. row.v = v /\ row.live = TRUE
        BY <3>2, <3>5 DEF Agrees
      <4>2. row.when <= c.when
        BY <2>3, <2>4, <3>5
      <4>3. c.was = v
        BY <2>3, <4>1, <4>2 DEF Agrees
      <4>4. QED
        BY <2>5, <3>3, <3>4, <4>1, <4>3
    <3>6. QED
      BY <2>4, <3>4, <3>5
  <2>8. QED
    BY <2>1, <2>6, <2>7
<1>4. NoSilentOverwrite <=> [][Act]_vars
  BY DEF NoSilentOverwrite
<1> HIDE DEF Act
<1>5. QED
  BY <1>1, <1>2, <1>3, <1>4, PTL DEF Spec
============================================================================
