------------------------------- MODULE Editor -------------------------------
(***************************************************************************)
(* One administration page at work: the list it caches, its form, its     *)
(* deletion dialog and its row controls, the calls it has under way, the  *)
(* table on the server and the other people who write it.  The page and   *)
(* the field looked at are a parameter; Pages holds the data of each page.*)
(*                                                                         *)
(* The list is a query of TanStack Query: an invalidation marks it stale  *)
(* and, while the page is open, asks for it again; it restarts a request  *)
(* under way only when there is a list already.                            *)
(***************************************************************************)
EXTENDS Integers, FiniteSets, Conversions

CONSTANTS Samples,   \* the fields looked at, each with its page: see Sample
          MaxRows,   \* bound: rows of the table, deleted ones included
          MaxCalls,  \* bound: mutations called
          None,      \* no row, no list, no call yet
          Over,      \* a call that has ended
          Waiting,   \* a fetch that the server has not served
          MaxWrites, \* bound: writes to the table
          MaxForms   \* bound: forms opened

NoId == 0
Forms == 1..MaxForms
Slots == 1..MaxCalls
Clock == 0..MaxWrites
Ids == 1..MaxRows

\* Where the success callbacks of the page's mutations may reset state.
Resets == SUBSET {"dialog", "id", "form", "asked"}

Values == Texts

Sample ==
    [form    : BOOLEAN,                  \* rows are created and edited here
     byId    : BOOLEAN,                  \* the edited id alone tells an update
     blank   : Values,                   \* the text of an empty form
     types   : SUBSET Values,            \* what may be typed
     shows   : {"same", "blank"},        \* row to form: see Shown
     sends   : {"0", "3", "5", "int", "null", "list", "text"},   \* see Sent
     updates : {"set", "sanitized", "nonblank", "anchored", "never"},  \* see Updated
     creates : {"as sent", "sanitized", "true", "null"},         \* see Created
     first   : Values,                   \* what the first row holds
     others  : SUBSET Values,            \* what other people write
     press   : {"none", "column", "row", "touch"}, \* what a row's control saves
     offers  : {"none", "negation", "another"},    \* what it may ask for
     delete  : {"none", "dialog", "confirm"},
     onNew : Resets, onCreate : Resets, onUpdate : Resets, onDelete : Resets]

VARIABLES is,      \* the sample
          rows, clock,                   \* the table, and its writes so far
          here, list, stale, fetch,      \* the page is open; its query
          dialog, id, form, asked,       \* the component's states
          calls,                         \* the mutations under way
          opened, made, lost,            \* forms opened, rows made, answers lost
          acked, missed                  \* the last own write answered for

server == <<rows, clock>>
query  == <<list, stale, fetch>>
states == <<dialog, id, form, asked>>
ghosts == <<opened, made, lost>>
vars   == <<is, server, here, query, states, calls, ghosts, acked, missed>>

\* A row, and the write that last changed it; a deleted row keeps its value.
Row  == [v : Values, live : BOOLEAN, when : Clock]
Snapshot == [of : [Ids -> Values \cup {None}], when : Clock]

\* text: the form's state.  row, when: what it was loaded from.  typed: the
\* field was edited.  n: which form it is.
FormState == [text : Values, row : Ids \cup {NoId}, when : Clock,
              typed : BOOLEAN, n : 0..MaxForms]

Call == [op : {"create", "update", "press", "touch", "delete"},
         id : Ids \cup {NoId}, body : Values, form : FormState,
         mine : BOOLEAN,     \* made since the page was opened
         stage : {"sent", "read", "done"},
         was : Values \cup {None}, when : Clock] \* the row read, and when

\* What the pages have in common: New empties the form, and where the id
\* alone tells an update, the id; no callback empties them and leaves the
\* form open, and the one of a creation closes it.
WellKept(x) ==
    /\ x.form => "form" \in x.onNew /\ "dialog" \in x.onCreate
    /\ x.byId => "id" \in x.onNew
    /\ \A which \in {x.onCreate, x.onUpdate, x.onDelete} :
          {"id", "form"} \cap which # {} => "dialog" \in which

ASSUME EditorAssumption ==
    /\ Samples \subseteq {x \in Sample : WellKept(x)}
    /\ {None, Over} \cap (Values \cup {"create", "edit"} \cup Call \cup Row) = {}
    /\ Waiting # None /\ Over # None /\ {None, Waiting} \cap Snapshot = {}
    /\ MaxRows \in Nat \ {0} /\ MaxWrites \in Nat /\ MaxForms \in Nat /\ MaxCalls \in Nat

\* The values of a field that a form saved untouched leaves as they are.
Returning(x) ==
    {v \in Values : Updated(x.updates, v, Sent(x.sends, Shown(x.shows, v))) = v}

\* What the form of a page may hold.
Inputs(x) == x.types \cup {x.blank} \cup {Shown(x.shows, v) : v \in Returning(x)}

\* How a page reads a row, what it sends and what the service stores go
\* together: a row never comes to hold another value.
WellRead(x) ==
    /\ {x.first} \cup x.others \subseteq Returning(x)
    /\ \A t \in Inputs(x) :
          /\ Created(x.creates, Sent(x.sends, t)) \in Returning(x)
          /\ \A v \in Returning(x) : Updated(x.updates, v, Sent(x.sends, t)) \in Returning(x)
    /\ x.press \in {"column", "row"} =>
          \A v \in Returning(x) : Offered(x.offers, v) \subseteq Returning(x)

ASSUME ConversionsAssumption == \A x \in Samples : WellRead(x)

TypeOK ==
    /\ is \in Sample
    /\ rows \in [Ids -> Row \cup {None}]
    /\ clock \in Clock
    /\ here \in BOOLEAN
    /\ list \in Snapshot \cup {None}
    /\ stale \in BOOLEAN
    /\ fetch \in Snapshot \cup {None, Waiting}
    /\ dialog \in {None, "create", "edit"}
    /\ id \in Ids \cup {NoId}
    /\ form \in FormState
    /\ asked \in Ids \cup {NoId}
    /\ calls \in [Slots -> Call \cup {None, Over}]
    /\ opened \in 0..MaxForms
    /\ made \in [Forms -> Nat]
    /\ lost \in SUBSET Forms
    /\ acked \in Clock
    /\ missed \in BOOLEAN

Blank(n) == [text |-> is.blank, row |-> NoId, when |-> 0, typed |-> FALSE,
             n |-> n]
UnderWay(s) == calls[s] \notin {None, Over}
Pending(ops) ==
    \E s \in Slots : UnderWay(s) /\ calls[s].mine /\ calls[s].op \in ops
Saving  == Pending({"create", "update"})
Live(i) == rows[i] # None /\ rows[i].live
Visible(i) == list # None /\ list.of[i] # None

\* The list can be clicked: the form and the deletion dialog cover it.
InReach == here /\ asked = NoId /\ dialog = None

Init ==
    /\ is \in Samples
    /\ \E n \in (IF is.form THEN {0, 1} ELSE {1}) :
          rows = [i \in Ids |-> IF i <= n
                                THEN [v |-> is.first, live |-> TRUE, when |-> 0]
                                ELSE None]
    /\ clock = 0
    /\ here = TRUE /\ list = None /\ stale = TRUE /\ fetch = Waiting
    /\ dialog = None /\ id = NoId /\ asked = NoId
    /\ form = Blank(0)
    /\ calls = [s \in Slots |-> None]
    /\ opened = 0 /\ made = [n \in Forms |-> 0] /\ lost = {}
    /\ acked = 0 /\ missed = FALSE

-----------------------------------------------------------------------------
(* The query. *)

\* Mutant: the request under way is left to itself.
Invalidate_keepsRequest ==
    /\ stale' = TRUE
    /\ IF fetch # None /\ (list = None \/ ~here)
       THEN fetch' = fetch /\ missed' = TRUE
       ELSE /\ fetch' = IF fetch # None THEN fetch ELSE IF here THEN Waiting ELSE None
            /\ missed' = (missed /\ ~here)

\* What invalidateQueries does.  A request under way is restarted if there
\* is a list already and the page is open; else it goes on.
Invalidate ==
    /\ stale' = TRUE
    /\ IF fetch # None /\ (list = None \/ ~here)
       THEN fetch' = fetch /\ missed' = TRUE
       ELSE /\ fetch' = IF here THEN Waiting ELSE None
            /\ missed' = (missed /\ ~here)

Return ==
    /\ ~here
    /\ here' = TRUE
    /\ IF stale /\ fetch = None
       THEN fetch' = Waiting /\ missed' = FALSE
       ELSE UNCHANGED <<fetch, missed>>
    /\ UNCHANGED <<is, server, list, stale, states, calls, ghosts, acked>>

\* The component's states go with it; its mutations and its query do not.
Leave ==
    /\ here
    /\ here' = FALSE
    /\ dialog' = None /\ id' = NoId /\ asked' = NoId /\ form' = Blank(0)
    /\ calls' = [s \in Slots |-> IF ~UnderWay(s) THEN calls[s]
                                 ELSE [calls[s] EXCEPT !.mine = FALSE]]
    /\ UNCHANGED <<is, server, query, ghosts, acked, missed>>

FetchRead ==
    /\ fetch = Waiting
    /\ fetch' = [of |-> [i \in Ids |-> IF Live(i) THEN rows[i].v ELSE None],
                 when |-> clock]
    /\ UNCHANGED <<is, server, here, list, stale, states, calls, ghosts, acked,
                   missed>>

FetchArrives ==
    /\ fetch \notin {None, Waiting}
    /\ list' = fetch /\ stale' = FALSE /\ fetch' = None
    /\ UNCHANGED <<is, server, here, states, calls, ghosts, acked, missed>>

\* The request and its two retries fail: what is cached stays.
FetchFails ==
    /\ fetch # None
    /\ fetch' = None /\ stale' = TRUE
    /\ UNCHANGED <<is, server, here, list, states, calls, ghosts, acked, missed>>

\* The page is looked at again after the time its list is held to be fresh;
\* a request that would bring the same list is left out.
Refetch ==
    /\ here /\ fetch = None /\ (~stale => list.when < clock)
    /\ fetch' = Waiting /\ missed' = FALSE
    /\ UNCHANGED <<is, server, here, list, stale, states, calls, ghosts, acked>>

-----------------------------------------------------------------------------
(* The form, the deletion dialog and the row controls. *)

Place(call) == \E s \in Slots :
                  /\ calls[s] = None /\ \A r \in 1..(s - 1) : calls[r] # None
                  /\ calls' = [calls EXCEPT ![s] = call]

Request(op, i, body, f) ==
    [op |-> op, id |-> i, body |-> body, mine |-> TRUE,
     form |-> [f EXCEPT !.text = is.blank],
     stage |-> "sent", was |-> None, when |-> 0]

OpenNew ==
    /\ InReach /\ is.form /\ opened < MaxForms
    /\ opened' = opened + 1
    /\ form' = IF "form" \in is.onNew THEN Blank(opened')
               ELSE [form EXCEPT !.n = opened']
    /\ id' = IF "id" \in is.onNew THEN NoId ELSE id
    /\ dialog' = "create"
    /\ UNCHANGED <<is, server, here, query, asked, calls, made, lost, acked,
                   missed>>

\* Mutant: the field is not loaded from the row.
OpenEdit_notLoaded ==
    /\ InReach /\ is.form /\ opened < MaxForms
    /\ opened' = opened + 1
    /\ \E i \in Ids :
          /\ Visible(i)
          /\ form' = [text |-> is.blank, row |-> i, when |-> list.when,
                      typed |-> FALSE, n |-> opened']
          /\ id' = i
    /\ dialog' = "edit"
    /\ UNCHANGED <<is, server, here, query, asked, calls, made, lost, acked,
                   missed>>

OpenEdit ==
    /\ InReach /\ is.form /\ opened < MaxForms
    /\ opened' = opened + 1
    /\ \E i \in Ids :
          /\ Visible(i)
          /\ form' = [text |-> Shown(is.shows, list.of[i]), row |-> i,
                      when |-> list.when, typed |-> FALSE, n |-> opened']
          /\ id' = i
    /\ dialog' = "edit"
    /\ UNCHANGED <<is, server, here, query, asked, calls, made, lost, acked,
                   missed>>

Type ==
    /\ here /\ dialog # None
    /\ \E t \in is.types : form' = [form EXCEPT !.text = t, !.typed = TRUE]
    /\ UNCHANGED <<is, server, here, query, dialog, id, asked, calls, ghosts,
                   acked, missed>>

CloseForm ==
    /\ here /\ dialog # None
    /\ dialog' = None /\ id' = NoId /\ form' = Blank(0)
    /\ UNCHANGED <<is, server, here, query, asked, calls, ghosts, acked, missed>>

Updates == id # NoId /\ (is.byId \/ dialog = "edit")

\* Mutant: the button is not disabled while a save is pending.
Submit_again ==
    /\ here /\ dialog # None
    /\ Place(IF Updates THEN Request("update", id, Sent(is.sends, form.text), form)
                        ELSE Request("create", NoId, Sent(is.sends, form.text), form))
    /\ UNCHANGED <<is, server, here, query, states, ghosts, acked, missed>>

Submit ==
    /\ here /\ dialog # None /\ ~Saving
    /\ Place(IF Updates THEN Request("update", id, Sent(is.sends, form.text), form)
                        ELSE Request("create", NoId, Sent(is.sends, form.text), form))
    /\ UNCHANGED <<is, server, here, query, states, ghosts, acked, missed>>

AskDelete ==
    /\ InReach /\ is.delete = "dialog"
    /\ \E i \in Ids : Visible(i) /\ asked' = i
    /\ UNCHANGED <<is, server, here, query, dialog, id, form, calls, ghosts,
                   acked, missed>>

CancelDelete ==
    /\ here /\ asked # NoId
    /\ asked' = NoId
    /\ UNCHANGED <<is, server, here, query, dialog, id, form, calls, ghosts,
                   acked, missed>>

ConfirmDelete ==
    /\ here
    /\ \/ asked # NoId /\ ~Pending({"delete"})
          /\ Place(Request("delete", asked, is.blank, Blank(0)))
       \/ /\ InReach /\ is.delete = "confirm"
          /\ \E i \in Ids : /\ Visible(i)
                            /\ Place(Request("delete", i, is.blank, Blank(0)))
    /\ UNCHANGED <<is, server, here, query, states, ghosts, acked, missed>>

\* Nothing disables a control while its own mutation is pending.
Press ==
    /\ InReach /\ is.press # "none"
    /\ \E i \in Ids :
          /\ Visible(i)
          /\ IF is.press = "touch"
             THEN Place(Request("touch", i, is.blank, Blank(0)))
             ELSE \E v \in Offered(is.offers, list.of[i]) :
                     Place(Request("press", i, v, Blank(0)))
    /\ UNCHANGED <<is, server, here, query, states, ghosts, acked, missed>>

-----------------------------------------------------------------------------
(* The server, and the answers. *)

\* A write of row i, which counts when it changes something.
WriteRow(i, v, live) ==
    IF rows[i] # None /\ rows[i].v = v /\ rows[i].live = live
    THEN UNCHANGED server
    ELSE /\ clock < MaxWrites
         /\ clock' = clock + 1
         /\ rows' = [rows EXCEPT ![i] = [v |-> v, live |-> live, when |-> clock']]

Advance(s, stage) ==
    calls' = [calls EXCEPT ![s].stage = stage, ![s].when = clock',
                              ![s].was = None]

\* Updates and switches that save a whole row read it first.
SavesRow(call) == \/ call.op \in {"update", "touch"}
                  \/ call.op = "press" /\ is.press = "row"

ServeCreate(s) ==
    /\ calls[s].op = "create" /\ calls[s].stage = "sent"
    /\ \E i \in Ids : rows[i] = None /\ WriteRow(i, Created(is.creates, calls[s].body), TRUE)
    /\ Advance(s, "done")
    /\ made' = IF calls[s].form.n \in Forms
               THEN [made EXCEPT ![calls[s].form.n] = @ + 1] ELSE made
    /\ UNCHANGED <<opened, lost>>

ServeRead(s) ==
    /\ SavesRow(calls[s]) /\ calls[s].stage = "sent" /\ Live(calls[s].id)
    /\ calls' = [calls EXCEPT ![s].stage = "read", ![s].when = clock,
                              ![s].was = rows[calls[s].id].v]
    /\ UNCHANGED <<server, ghosts>>

Saved(call) == CASE call.op = "update" -> Updated(is.updates, call.was, call.body)
                 [] call.op = "press"  -> call.body
                 [] call.op = "touch"  -> call.was

\* Mutant: the row is saved without having been read.
ServeSave_unread(s) ==
    /\ SavesRow(calls[s]) /\ calls[s].stage = "sent"
    /\ WriteRow(calls[s].id, Saved(calls[s]), TRUE)
    /\ Advance(s, "done")
    /\ UNCHANGED ghosts

\* Save also brings back a row that was deleted since it was read.
ServeSave(s) ==
    /\ SavesRow(calls[s]) /\ calls[s].stage = "read"
    /\ WriteRow(calls[s].id, Saved(calls[s]), TRUE)
    /\ Advance(s, "done")
    /\ UNCHANGED ghosts

\* One UPDATE of one column, or the deletion, of a row that is there.
ServeColumn(s) ==
    /\ ~SavesRow(calls[s]) /\ calls[s].op # "create" /\ calls[s].stage = "sent"
    /\ IF ~Live(calls[s].id) THEN UNCHANGED server
       ELSE IF calls[s].op = "press" THEN WriteRow(calls[s].id, calls[s].body, TRUE)
       ELSE WriteRow(calls[s].id, rows[calls[s].id].v, FALSE)
    /\ Advance(s, "done")
    /\ UNCHANGED ghosts

Serve(s) ==
    /\ UnderWay(s)
    /\ ServeCreate(s) \/ ServeRead(s) \/ ServeSave(s) \/ ServeColumn(s)
    /\ UNCHANGED <<is, here, query, states, acked, missed>>

OnSuccess(op) == CASE op = "create" -> is.onCreate
                   [] op = "update" -> is.onUpdate
                   [] op = "delete" -> is.onDelete
                   [] OTHER         -> {}

\* Mutant: an answer takes the edited id from the dialog and leaves it open.
Reset_staysOpen(which) ==
    /\ id'    = IF "id" \in which THEN NoId ELSE id
    /\ asked' = IF "asked" \in which THEN NoId ELSE asked
    /\ UNCHANGED <<dialog, form>>

Reset(which) ==
    /\ dialog' = IF "dialog" \in which THEN None ELSE dialog
    /\ id'     = IF "id" \in which THEN NoId ELSE id
    /\ form'   = IF "form" \in which THEN Blank(0) ELSE form
    /\ asked'  = IF "asked" \in which THEN NoId ELSE asked

Answered(s) ==
    /\ UnderWay(s) /\ calls[s].stage = "done"
    /\ calls' = [calls EXCEPT ![s] = Over]
    /\ acked' = IF calls[s].when > acked THEN calls[s].when ELSE acked
    /\ Invalidate
    /\ Reset(IF calls[s].mine THEN OnSuccess(calls[s].op) ELSE {})
    /\ UNCHANGED <<is, server, here, list, ghosts>>

\* The request or its answer is lost, or the server refuses it: a missing
\* row, a rejected value, a failed statement.  Nothing handles the error, and
\* the page stays as it is.
Failed(s) ==
    /\ UnderWay(s)
    /\ calls' = [calls EXCEPT ![s] = Over]
    /\ lost' = IF calls[s].op = "create" /\ calls[s].stage = "done"
               THEN lost \cup ({calls[s].form.n} \cap Forms) ELSE lost
    /\ UNCHANGED <<is, server, here, query, states, opened, made, acked, missed>>

\* Another administrator, or the application, changes or deletes a row.
OtherWrites ==
    /\ \E i \in Ids : /\ Live(i)
                      /\ \/ \E v \in is.others \ {rows[i].v} : WriteRow(i, v, TRUE)
                         \/ WriteRow(i, rows[i].v, FALSE)
    /\ UNCHANGED <<is, here, query, states, calls, ghosts, acked, missed>>

-----------------------------------------------------------------------------
Answers(s) == Answered(s) \/ Failed(s)
Query == FetchRead \/ FetchArrives \/ FetchFails
User == \/ Return \/ Leave \/ Refetch \/ OpenNew \/ OpenEdit \/ Type \/ CloseForm
        \/ Submit \/ AskDelete \/ CancelDelete \/ ConfirmDelete \/ Press

Next == User \/ Query \/ OtherWrites \/ \E s \in Slots : Serve(s) \/ Answers(s)

Spec == Init /\ [][Next]_vars

-----------------------------------------------------------------------------
(* Properties. *)

(***************************************************************************)
(* A save goes to the row its text was loaded from, and text that was not *)
(* loaded from a row creates one: the dialog's mode, the edited id and the*)
(* form are three states, reset by different callbacks, some of them late.*)
(***************************************************************************)
SaveHitsItsRow ==
    \A s \in Slots :
        UnderWay(s) =>
            /\ calls[s].op = "update" => calls[s].id = calls[s].form.row
            /\ calls[s].op = "create" => calls[s].form.row = NoId

(***************************************************************************)
(* A save that was not meant for this field (the form was not edited here,*)
(* or the control of another field saves the whole row) changes it, or    *)
(* brings back a deleted row, only if somebody wrote the row after what   *)
(* the page, or for a control the server, had read of it.                 *)
(***************************************************************************)
Unmeant(call) == \/ call.op = "touch"
                 \/ call.op = "update" /\ ~call.form.typed
SeenBy(call)  == IF call.op = "touch" THEN call.when ELSE call.form.when
NoSilentOverwrite ==
    [][\A s \in Slots :
          (/\ UnderWay(s) /\ UnderWay(s)'
           /\ calls[s].stage = "read" /\ calls'[s].stage = "done"
           /\ Unmeant(calls[s])
           /\ rows'[calls[s].id] # rows[calls[s].id])
          => rows[calls[s].id].when > SeenBy(calls[s])]_vars

(***************************************************************************)
(* A list at rest that is not held to be stale shows every own write that *)
(* was answered, unless the answer found a request it could not restart:  *)
(* the first load of the list, or one that the page left behind.          *)
(***************************************************************************)
OwnWritesShown ==
    list # None /\ fetch = None /\ ~stale /\ ~missed => list.when >= acked

(***************************************************************************)
(* One form makes one row, whatever is pressed while a save is pending or *)
(* after it failed, unless the answer to a creation was lost.             *)
(***************************************************************************)
OneRowPerForm == \A n \in Forms : made[n] > 1 => n \in lost
=============================================================================
