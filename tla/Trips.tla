------------------------------- MODULE Trips -------------------------------
(***************************************************************************)
(* The itineraries of one visitor: the pages that create, show, edit and  *)
(* delete one, the sequence of calls a save is made of, and the server's  *)
(* rows.  A save outlives the page it was started from, and its calls are *)
(* not one transaction: each one may fail, with those before it done.     *)
(***************************************************************************)
EXTENDS Integers, Sequences, FiniteSets

CONSTANTS MaxTrips,   \* bound: rows of itineraries
          MaxStops,   \* bound: rows of their stops
          Places,     \* what a stop may be at
          MaxDrafts,  \* bound: stops drafted in a form
          MaxSaves,   \* bound: saves submitted
          MaxFaults,  \* bound: calls lost, or failing on the server
          NoTrip, NoPlace, NotYet, Ended

TripIds == 1..MaxTrips
StopIds == 1..MaxStops
SaveIds == 1..MaxSaves
Fresh   == 0          \* the id of a drafted stop that has no row

ASSUME TripsAssumption ==
    /\ MaxTrips \in Nat \ {0} /\ MaxStops \in Nat /\ MaxSaves \in Nat
    /\ MaxDrafts \in Nat /\ MaxFaults \in Nat
    /\ NoPlace \notin Places /\ {NoTrip, NotYet, Ended} \cap TripIds = {}

VARIABLES trips,     \* what became of each itinerary
          stops,     \* the rows of the stops
          sortable,  \* the table has the column by which stops are sorted
          visit,     \* the page the visitor is on, and its itinerary
          known,     \* the cached stops of each itinerary
          plan,      \* the form of the page
          saves,     \* the saves, each with the calls it has left
          erase,     \* the deletion under way
          tripFaults \* calls lost so far

tripVars == <<trips, stops, sortable, visit, known, plan, saves, erase, tripFaults>>

Stop  == [trip : TripIds, place : Places, order : Nat, live : BOOLEAN]
Draft == [stop : StopIds \cup {Fresh}, place : Places \cup {NoPlace},
          order : Nat]
TripCall == [op : {"create", "update", "deleteStop", "addStop"},
             stop : StopIds \cup {Fresh}, place : Places \cup {NoPlace},
             order : Nat]

\* failed, made: saves of this form that failed, itineraries they created.
Plan == [drafts : Seq(Draft), failed : Nat, made : Nat]

\* trip: what the save is of, once known.  mine: its form is still open.
\* drafts, before, seen: the form, the live stops and the cached ones when
\* it was submitted.  left: the stops it was told are deleted and are not.
\* alone: it is the first of its form, and no other ran beside it.
Save == [trip : TripIds \cup {NoTrip}, calls : Seq(TripCall), mine : BOOLEAN,
         drafts : Seq(Draft), before : SUBSET StopIds, seen : SUBSET StopIds,
         left : SUBSET StopIds, alone : BOOLEAN]

\* The markers are no rows and no saves.
ASSUME TripsMarkers == NotYet \notin Stop /\ NotYet \notin Save /\ Ended \notin Save

LiveStops(t) == {s \in StopIds : stops[s] # NotYet /\ stops[s].trip = t /\ stops[s].live}
Running(s)   == saves[s] \notin {NotYet, Ended}
RunningHere  == \E s \in SaveIds : Running(s) /\ saves[s].mine

TripsTypeOK ==
    /\ trips \in [TripIds -> {"unused", "live", "deleted"}]
    /\ stops \in [StopIds -> Stop \cup {NotYet}]
    /\ sortable \in BOOLEAN
    /\ visit \in [page : {"list", "new", "detail", "edit"},
                  trip : TripIds \cup {NoTrip}]
    /\ visit.page \in {"detail", "edit"} => visit.trip # NoTrip
    /\ known \in [TripIds -> (SUBSET StopIds) \cup {NotYet}]
    /\ plan \in Plan
    /\ saves \in [SaveIds -> Save \cup {NotYet, Ended}]
    /\ \A s \in SaveIds : Running(s) /\ saves[s].trip = NoTrip =>
          saves[s].calls # <<>> /\ Head(saves[s].calls).op = "create"
    /\ erase \in TripIds \cup {NotYet, Ended}
    /\ tripFaults \in 0..MaxFaults

EmptyPlan == [drafts |-> <<>>, failed |-> 0, made |-> 0]

\* No itinerary, or one with one stop.
TripsInit ==
    /\ \E p \in Places, n \in {0, 1} :
          /\ trips = [t \in TripIds |-> IF t <= n THEN "live" ELSE "unused"]
          /\ stops = [s \in StopIds |->
                      IF s <= n THEN [trip |-> 1, place |-> p, order |-> 1, live |-> TRUE]
                      ELSE NotYet]
    /\ sortable \in BOOLEAN
    /\ visit = [page |-> "list", trip |-> NoTrip]
    /\ known = [t \in TripIds |-> NotYet]
    /\ plan = EmptyPlan
    /\ saves = [s \in SaveIds |-> NotYet]
    /\ erase = NotYet
    /\ tripFaults = 0

-----------------------------------------------------------------------------
(* The pages. *)

OrdersOf(S) == {f \in [1..Cardinality(S) -> S] : \A i, j \in DOMAIN f : f[i] = f[j] => i = j}

\* The stops S in the order in which the server lists them, as drafts.
Listings(S) ==
    {[i \in DOMAIN f |-> [stop |-> f[i], place |-> stops[f[i]].place, order |-> stops[f[i]].order]] :
        f \in {g \in OrdersOf(S) : \A i, j \in DOMAIN g :
                  i < j => stops[g[i]].order <= stops[g[j]].order}}

\* The edit form is filled once, from what is cached.
Fill(S) == \E drafts \in Listings(S) :
    plan' = [EmptyPlan EXCEPT !.drafts = drafts]

\* Going to a page drops the form of the one that is open: the saves and
\* the deletion it started go on without it.
Disowned(save) == IF save \in {NotYet, Ended} THEN save ELSE [save EXCEPT !.mine = FALSE]

GoTo(page, t) ==
    /\ visit' = [page |-> page, trip |-> t]
    /\ IF page = "edit" /\ known[t] # NotYet THEN Fill(known[t])
       ELSE plan' = EmptyPlan

OpenNewTrip ==
    /\ visit.page = "list"
    /\ GoTo("new", NoTrip)
    /\ saves' = [s \in SaveIds |-> Disowned(saves[s])]
    /\ UNCHANGED <<trips, stops, sortable, known, erase, tripFaults>>

OpenTrip ==
    /\ visit.page = "list"
    /\ \E t \in TripIds : trips[t] # "unused" /\ GoTo("detail", t)
    /\ saves' = [s \in SaveIds |-> Disowned(saves[s])]
    /\ UNCHANGED <<trips, stops, sortable, known, erase, tripFaults>>

\* The link to the edit form is on a loaded detail page.
OpenEditTrip ==
    /\ visit.page = "detail" /\ known[visit.trip] # NotYet
    /\ GoTo("edit", visit.trip)
    /\ saves' = [s \in SaveIds |-> Disowned(saves[s])]
    /\ UNCHANGED <<trips, stops, sortable, known, erase, tripFaults>>

LeaveTrip ==
    /\ visit.page # "list"
    /\ \/ GoTo("list", NoTrip)
       \/ /\ visit.page = "edit"
          /\ GoTo("detail", visit.trip)
    /\ saves' = [s \in SaveIds |-> Disowned(saves[s])]
    /\ UNCHANGED <<trips, stops, sortable, known, erase, tripFaults>>

\* GetByID: the stops are sorted by "order", and the column is stop_order.
Found(t) == sortable /\ trips[t] = "live"

\* The itinerary of the page is fetched, at first or again when what is
\* cached is no longer fresh.  A form is filled once.
LoadTrip ==
    /\ visit.page \in {"detail", "edit"} /\ Found(visit.trip)
    /\ known' = [known EXCEPT ![visit.trip] = LiveStops(visit.trip)]
    /\ known' # known
    /\ IF visit.page = "edit" /\ known[visit.trip] = NotYet THEN Fill(LiveStops(visit.trip))
       ELSE UNCHANGED plan
    /\ UNCHANGED <<trips, stops, sortable, visit, saves, erase, tripFaults>>

\* The form is shown once there is an itinerary to edit.
FormOpen == visit.page = "new" \/ (visit.page = "edit" /\ known[visit.trip] # NotYet)

\* Bound: a form is changed while there is a save left to submit it with.
Drafting == FormOpen /\ \E s \in SaveIds : saves[s] = NotYet

AddDraft ==
    /\ Drafting /\ Len(plan.drafts) < MaxDrafts
    /\ plan' = [plan EXCEPT !.drafts =
                   Append(@, [stop |-> Fresh, place |-> NoPlace, order |-> Len(@) + 1])]
    /\ UNCHANGED <<trips, stops, sortable, visit, known, saves, erase, tripFaults>>

\* What is left is numbered again.
RemoveDraft ==
    /\ Drafting
    /\ \E k \in 1..Len(plan.drafts) :
          plan' = [plan EXCEPT !.drafts =
                      [i \in 1..(Len(@) - 1) |->
                          [@[IF i < k THEN i ELSE i + 1] EXCEPT !.order = i]]]
    /\ UNCHANGED <<trips, stops, sortable, visit, known, saves, erase, tripFaults>>

ChoosePlace ==
    /\ Drafting
    /\ \E k \in 1..Len(plan.drafts), p \in Places \cup {NoPlace} :
          /\ p # plan.drafts[k].place
          /\ plan' = [plan EXCEPT !.drafts[k].place = p]
    /\ UNCHANGED <<trips, stops, sortable, visit, known, saves, erase, tripFaults>>

-----------------------------------------------------------------------------
(* The calls of a save. *)

CallTo(op, s, p, o) == [op |-> op, stop |-> s, place |-> p, order |-> o]
Opening(op) == <<CallTo(op, Fresh, NoPlace, 1)>>

\* Mutant: the rows that are kept are added again.
NewDrafts_keptToo(drafts) == {i \in DOMAIN drafts : drafts[i].place # NoPlace}

\* The drafts that have a place and no row yet: a call for each, in their order.
NewDrafts(drafts) == {i \in DOMAIN drafts : drafts[i].place # NoPlace /\ drafts[i].stop = Fresh}

InOrder(S) == {g \in OrdersOf(S) : \A i, j \in DOMAIN g : i < j => g[i] < g[j]}

AddCalls(drafts, g) ==
    [i \in DOMAIN g |-> CallTo("addStop", Fresh, drafts[g[i]].place, drafts[g[i]].order)]

Kept(drafts) == {drafts[i].stop : i \in DOMAIN drafts}

\* Mutant: a stop whose place is cleared in the form counts as removed.
Gone_placeless(drafts, cached) ==
    cached \ {drafts[i].stop : i \in {j \in DOMAIN drafts : drafts[j].place # NoPlace}}

\* The stops of the itinerary, as cached when the form is submitted, that
\* the form does not have.
Gone(drafts, cached) == cached \ Kept(drafts)

DeleteCalls(f) == [i \in DOMAIN f |-> CallTo("deleteStop", f[i], NoPlace, 1)]

Cached == IF visit.page = "edit" THEN known[visit.trip] ELSE {}

Scripts ==
    IF visit.page = "new"
    THEN {Opening("create") \o AddCalls(plan.drafts, g) : g \in InOrder(NewDrafts(plan.drafts))}
    ELSE {Opening("update") \o DeleteCalls(f) \o AddCalls(plan.drafts, g) :
             f \in OrdersOf(Gone(plan.drafts, Cached)), g \in InOrder(NewDrafts(plan.drafts))}

\* Bound: every row that the saves have still to make fits in the tables.
Adds(op, calls) == Cardinality({i \in DOMAIN calls : calls[i].op = op})
Owed(op) == LET n[s \in 0..MaxSaves] ==
                    IF s = 0 THEN 0
                    ELSE n[s - 1] + (IF Running(s) THEN Adds(op, saves[s].calls) ELSE 0)
            IN  n[MaxSaves]
Room(calls) ==
    /\ Owed("create") + Adds("create", calls) <= Cardinality({t \in TripIds : trips[t] = "unused"})
    /\ Owed("addStop") + Adds("addStop", calls) <= Cardinality({s \in StopIds : stops[s] = NotYet})

\* before, seen and left are of use while a save is alone.
Accompanied(save) == IF save \in {NotYet, Ended} THEN save
                     ELSE [save EXCEPT !.alone = FALSE, !.before = {}, !.seen = {},
                                            !.left = {}]

Started(s, calls) ==
    LET save == [trip |-> visit.trip, calls |-> calls, mine |-> TRUE,
                 drafts |-> plan.drafts, before |-> LiveStops(visit.trip),
                 seen |-> Cached, left |-> {}, alone |-> TRUE]
        alone == plan.failed = 0 /\ \A r \in SaveIds : ~Running(r)
    IN  /\ saves[s] = NotYet /\ \A r \in 1..(s - 1) : saves[r] # NotYet
        /\ saves' = [r \in SaveIds |->
                       IF r # s THEN Accompanied(saves[r])
                       ELSE IF alone THEN save ELSE Accompanied(save)]

\* Mutant: the button is not disabled while a save of the form goes on.
SubmitTrip_again ==
    /\ FormOpen
    /\ \E s \in SaveIds : \E calls \in Scripts : Room(calls) /\ Started(s, calls)
    /\ UNCHANGED <<trips, stops, sortable, visit, known, plan, erase, tripFaults>>

SubmitTrip ==
    /\ FormOpen /\ ~RunningHere
    /\ \E s \in SaveIds : \E calls \in Scripts : Room(calls) /\ Started(s, calls)
    /\ UNCHANGED <<trips, stops, sortable, visit, known, plan, erase, tripFaults>>

-----------------------------------------------------------------------------
(* The server. *)

\* What call c does to the rows of itinerary t.
Effect(c, t) ==
    \/ /\ c.op = "create" /\ trips[t] = "unused"
       /\ \A u \in 1..(t - 1) : trips[u] # "unused"
       /\ trips' = [trips EXCEPT ![t] = "live"] /\ UNCHANGED stops
    \/ /\ c.op = "update" /\ Found(t)
       /\ UNCHANGED <<trips, stops>>
    \/ /\ c.op = "deleteStop" /\ Found(t)
       /\ stops' = IF c.stop \in LiveStops(t) THEN [stops EXCEPT ![c.stop].live = FALSE]
                   ELSE stops
       /\ UNCHANGED trips
    \/ /\ c.op = "addStop" /\ Found(t)
       /\ \E i \in StopIds :
             /\ stops[i] = NotYet /\ \A j \in 1..(i - 1) : stops[j] # NotYet
             /\ stops' = [stops EXCEPT ![i] = [trip |-> t, place |-> c.place,
                                               order |-> c.order, live |-> TRUE]]
       /\ UNCHANGED trips

\* The next call of save s is served, for its itinerary or the one it makes.
Served(s, t) ==
    /\ Running(s) /\ saves[s].calls # <<>>
    /\ saves[s].trip \in {NoTrip, t}
    /\ Effect(Head(saves[s].calls), t)

Counted(s) == IF saves[s].mine /\ Head(saves[s].calls).op = "create"
              THEN [plan EXCEPT !.made = @ + 1] ELSE plan

\* Mutant: the id that the creation answered is not kept.
ServeCall_unnoted(s) ==
    /\ \E t \in TripIds : /\ Served(s, t)
                          /\ saves' = [saves EXCEPT ![s].calls = Tail(@)]
    /\ plan' = Counted(s)
    /\ UNCHANGED <<sortable, visit, known, erase, tripFaults>>

ServeCall(s) ==
    /\ \E t \in TripIds : /\ Served(s, t)
                          /\ saves' = [saves EXCEPT ![s].trip = t, ![s].calls = Tail(@)]
    /\ plan' = Counted(s)
    /\ UNCHANGED <<sortable, visit, known, erase, tripFaults>>

\* A deletion that the database refuses is answered like one that is made.
LeaveStop(s) ==
    /\ Running(s) /\ saves[s].calls # <<>> /\ tripFaults < MaxFaults
    /\ Head(saves[s].calls).op = "deleteStop" /\ Found(saves[s].trip)
    /\ LET stop == Head(saves[s].calls).stop
       IN  /\ stop \in LiveStops(saves[s].trip)
           /\ saves' = [saves EXCEPT ![s].calls = Tail(@),
                                     ![s].left = IF saves[s].alone THEN @ \cup {stop} ELSE @]
    /\ tripFaults' = tripFaults + 1
    /\ UNCHANGED <<trips, stops, sortable, visit, known, plan, erase>>

\* The catch clause: what was done stays done, and the form is open again.
SaveStops(s, f) ==
    /\ saves' = [saves EXCEPT ![s] = Ended]
    /\ plan' = IF saves[s].mine THEN [f EXCEPT !.failed = @ + 1] ELSE plan

\* Every call but a creation looks the itinerary up first.
CallRefused(s) ==
    /\ Running(s) /\ saves[s].calls # <<>>
    /\ Head(saves[s].calls).op # "create" /\ ~Found(saves[s].trip)
    /\ SaveStops(s, plan)
    /\ UNCHANGED <<trips, stops, sortable, visit, known, erase, tripFaults>>

CallLost(s) ==
    /\ Running(s) /\ saves[s].calls # <<>> /\ tripFaults < MaxFaults
    /\ tripFaults' = tripFaults + 1
    /\ SaveStops(s, plan)
    /\ UNCHANGED <<trips, stops, sortable, visit, known, erase>>

AnswerLost(s) ==
    /\ tripFaults < MaxFaults /\ \E t \in TripIds : Served(s, t)
    /\ tripFaults' = tripFaults + 1
    /\ SaveStops(s, Counted(s))
    /\ UNCHANGED <<sortable, visit, known, erase>>

\* The last call answered, the visitor is taken to the itinerary, wherever
\* they are by then.
EndSave(s) ==
    /\ Running(s) /\ saves[s].calls = <<>>
    /\ GoTo("detail", saves[s].trip)
    /\ saves' = [r \in SaveIds |-> IF r = s THEN Ended ELSE Disowned(saves[r])]
    /\ UNCHANGED <<trips, stops, sortable, known, erase, tripFaults>>

\* Bound: one deletion.  After a failed one nothing turns the button on again.
ConfirmErase ==
    /\ visit.page = "detail" /\ known[visit.trip] # NotYet /\ erase = NotYet
    /\ erase' = visit.trip
    /\ UNCHANGED <<trips, stops, sortable, visit, known, plan, saves, tripFaults>>

Erased(t) ==
    /\ Found(t)
    /\ trips' = [trips EXCEPT ![t] = "deleted"]
    /\ stops' = [s \in StopIds |-> IF s \in LiveStops(t) THEN [stops[s] EXCEPT !.live = FALSE]
                                   ELSE stops[s]]

\* Served and answered: the visitor is taken to the list, wherever they are.
EraseTrip ==
    /\ erase \in TripIds /\ Erased(erase)
    /\ erase' = Ended
    /\ GoTo("list", NoTrip)
    /\ saves' = [s \in SaveIds |-> Disowned(saves[s])]
    /\ UNCHANGED <<sortable, known, tripFaults>>

EraseFails ==
    /\ erase \in TripIds
    /\ \/ ~Found(erase) /\ UNCHANGED <<trips, stops, tripFaults>>
       \/ /\ tripFaults < MaxFaults /\ tripFaults' = tripFaults + 1
          /\ Erased(erase) \/ UNCHANGED <<trips, stops>>
    /\ erase' = Ended
    /\ UNCHANGED <<sortable, visit, known, plan, saves>>

-----------------------------------------------------------------------------
SaveStep(s) ==
    ServeCall(s) \/ LeaveStop(s) \/ CallRefused(s) \/ CallLost(s) \/ AnswerLost(s) \/ EndSave(s)

TripsNext ==
    \/ OpenNewTrip \/ OpenTrip \/ OpenEditTrip \/ LeaveTrip \/ LoadTrip
    \/ AddDraft \/ RemoveDraft \/ ChoosePlace \/ SubmitTrip
    \/ ConfirmErase \/ EraseTrip \/ EraseFails
    \/ \E s \in SaveIds : SaveStep(s)

TripsSpec == TripsInit /\ [][TripsNext]_tripVars

-----------------------------------------------------------------------------
(* Properties. *)

(***************************************************************************)
(* A save whose calls were all answered as done, and beside which no      *)
(* other ran, leaves the itinerary with the stops the form kept, one more *)
(* for each drafted stop that has a place, with that place and that order,*)
(* the stops that were not in the cache when it was submitted, and those  *)
(* that the server did not delete while it answered that it had.  The     *)
(* itinerary is written by a sequence of calls from two lists, the form   *)
(* and the cache, which need not be of the same age.                       *)
(***************************************************************************)
Wanted(drafts, p, o) == Cardinality({i \in DOMAIN drafts : drafts[i] =
                                   [stop |-> Fresh, place |-> p, order |-> o]})
SavedAsDrafted ==
    \A s \in SaveIds :
        /\ Running(s) /\ saves[s].calls = <<>> /\ saves[s].alone
        /\ trips[saves[s].trip] = "live"
        => LET now == LiveStops(saves[s].trip)
               old == saves[s].before
           IN  /\ now \cap old = old \cap (Kept(saves[s].drafts) \cup (old \ saves[s].seen)
                                          \cup saves[s].left)
               /\ \A p \in Places, o \in 1..MaxDrafts :
                     Cardinality({i \in now \ old : stops[i].place = p /\ stops[i].order = o})
                         = Wanted(saves[s].drafts, p, o)

(***************************************************************************)
(* A save deletes a stop only if the visitor removed it from the form, or *)
(* the form never had it: it was fetched after the form was filled (a stop*)
(* added meanwhile, by another save or by a failed attempt of this one).  *)
(* A stop that is still in the form stays, whatever was changed about it. *)
(***************************************************************************)
DeletesOnlyRemoved ==
    [][\A i \in StopIds, s \in SaveIds :
          /\ Running(s) /\ saves'[s] # saves[s] /\ erase' = erase
          /\ i \in Kept(saves[s].drafts)
          => stops'[i] = stops[i]]_tripVars

(***************************************************************************)
(* A form creates one itinerary, and one more at most for each attempt    *)
(* that failed after the creation was served.                              *)
(***************************************************************************)
OneTripPerForm == plan.made <= 1 + plan.failed

(***************************************************************************)
(* A save fails only when a call of it is lost, or when its itinerary was *)
(* deleted: creating an itinerary and then adding the stops that were     *)
(* drafted for it is the documented use of the calls.                      *)
(***************************************************************************)
SaveFailsOnlyOnFault ==
    plan.failed > 0 => tripFaults > 0 \/ \E t \in TripIds : trips[t] = "deleted"
=============================================================================
