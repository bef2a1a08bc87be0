----------------------------- MODULE TripsProofs -----------------------------
(***************************************************************************)
(* What is proved of the itineraries, for any number of them, of stops,   *)
(* of drafts, of saves and of faults.  The first invariant types the      *)
(* tables, the form and the saves, and says what the calls of a save are: *)
(* a creation or an update first, then deletions of stops that its form   *)
(* does not have.  The second one says, of a save that runs alone, how    *)
(* far the rows are from what the form asked for.                          *)
(***************************************************************************)
EXTENDS Trips, SequenceTheorems, FunctionTheorems, FiniteSetTheorems, TLAPS

RowsIn(tbl) == {i \in StopIds : tbl[i] # NotYet}

AtCreate(calls) == calls # <<>> /\ Head(calls).op = "create"

CallsFit(calls, drafts) ==
    /\ \A i \in DOMAIN calls : i > 1 => calls[i].op # "create"
    /\ \A i \in DOMAIN calls : calls[i].op = "deleteStop" => calls[i].stop \notin Kept(drafts)
    /\ \A i \in DOMAIN calls : calls[i].op = "addStop" => calls[i].place # NoPlace

\* A running save: it has no itinerary as long as it has to create one.
SaveFits(v, rows) ==
    /\ v \in Save
    /\ (v.trip = NoTrip) <=> AtCreate(v.calls)
    /\ CallsFit(v.calls, v.drafts)
    /\ Kept(v.drafts) \subseteq rows \cup {Fresh}

IsRunning(v) == v \notin {NotYet, Ended}
MineIn(vs) == {s \in SaveIds : IsRunning(vs[s]) /\ vs[s].mine = TRUE}

\* The form and the save it waits for, of which there is one at most.
OfForm(made, failed, vs) ==
    /\ \A r, s \in MineIn(vs) : r = s
    /\ made <= failed + 1
    /\ (\A s \in MineIn(vs) : AtCreate(vs[s].calls)) => made <= failed

TablesFit(ts, tbl) ==
    /\ ts \in [TripIds -> {"unused", "live", "deleted"}]
    /\ tbl \in [StopIds -> Stop \cup {NotYet}]
    /\ \A i \in RowsIn(tbl) : ts[tbl[i].trip] # "unused"

VisitFits(v) ==
    /\ v \in [page : {"list", "new", "detail", "edit"}, trip : TripIds \cup {NoTrip}]
    /\ v.page \in {"detail", "edit"} => v.trip # NoTrip
    /\ v.page = "new" => v.trip = NoTrip

KnownFits(kn, rows) ==
    /\ kn \in [TripIds -> (SUBSET StopIds) \cup {NotYet}]
    /\ \A t \in TripIds : kn[t] # NotYet => kn[t] \subseteq rows

PlanFits(p, rows) == p \in Plan /\ Kept(p.drafts) \subseteq rows \cup {Fresh}

SavesFit(vs, rows) ==
    /\ vs \in [SaveIds -> Save \cup {NotYet, Ended}]
    /\ \A s \in SaveIds : IsRunning(vs[s]) => SaveFits(vs[s], rows)

TripsInv ==
    /\ TablesFit(trips, stops)
    /\ sortable \in BOOLEAN
    /\ VisitFits(visit)
    /\ KnownFits(known, RowsIn(stops))
    /\ PlanFits(plan, RowsIn(stops))
    /\ SavesFit(saves, RowsIn(stops))
    /\ OfForm(plan.made, plan.failed, saves)
    /\ erase \in TripIds \cup {NotYet, Ended}
    /\ tripFaults \in 0..MaxFaults

-----------------------------------------------------------------------------
(* The sequences of the model. *)

(***************************************************************************)
(* A bijection keeps the count.                                            *)
(***************************************************************************)
LEMMA SameCount ==
    ASSUME NEW S, NEW T, IsFiniteSet(S), NEW h \in [S -> T],
           \A a, b \in S : h[a] = h[b] => a = b,
           \A b \in T : \E a \in S : h[a] = b
    PROVE  IsFiniteSet(T) /\ Cardinality(T) = Cardinality(S)
<1>1. h \in Injection(S, T) /\ h \in Surjection(S, T)
  BY Fun_IsInj, Fun_IsSurj
<1>2. ExistsBijection(S, T)
  BY <1>1, Zenon DEF ExistsBijection, Bijection
<1> QED
  BY <1>2, FS_Bijection

(***************************************************************************)
(* An order of a finite set is a sequence that has each element once.     *)
(***************************************************************************)
LEMMA OrdersAre ==
    ASSUME NEW S, IsFiniteSet(S), NEW f \in OrdersOf(S)
    PROVE  /\ Cardinality(S) \in Nat
           /\ f \in [1..Cardinality(S) -> S] /\ f \in Seq(S) /\ Len(f) = Cardinality(S)
           /\ \A i, j \in 1..Cardinality(S) : f[i] = f[j] => i = j
           /\ \A x \in S : \E i \in 1..Cardinality(S) : f[i] = x
<1>1. Cardinality(S) \in Nat
  BY FS_CardinalityType
<1>2. PICK n \in Nat : n = Cardinality(S)
  BY <1>1
<1>3. f \in [1..n -> S] /\ \A i, j \in 1..n : f[i] = f[j] => i = j
  BY <1>2 DEF OrdersOf
<1>4. f \in Seq(S) /\ Len(f) = n
  BY <1>2, <1>3
<1>5. IsFiniteSet(1..n) /\ Cardinality(1..n) = n
  BY <1>2, FS_Interval
<1>6. f \in Injection(1..n, S)
  BY <1>3, Fun_IsInj
<1>7. f \in Surjection(1..n, S)
  BY <1>2, <1>5, <1>6, FS_Injection
<1>8. \A x \in S : \E i \in 1..n : f[i] = x
  BY <1>7, Fun_SurjectionProperties
<1> QED
  BY <1>2, <1>3, <1>4, <1>8

(***************************************************************************)
(* The rows' numbers are finite sets.                                      *)
(***************************************************************************)
LEMMA StopsFinite == \A S \in SUBSET StopIds : IsFiniteSet(S)
<1>1. IsFiniteSet(StopIds)
  BY TripsAssumption, FS_Interval DEF StopIds
<1> QED
  BY <1>1, FS_Subset

(***************************************************************************)
(* So are the positions in a sequence.                                     *)
(***************************************************************************)
LEMMA PositionsFinite ==
    ASSUME NEW S, NEW q \in Seq(S), NEW T \in SUBSET DOMAIN q
    PROVE  IsFiniteSet(T) /\ Cardinality(T) \in Nat
<1>1. DOMAIN q = 1..Len(q) /\ Len(q) \in Nat
  BY LenProperties
<1>2. IsFiniteSet(DOMAIN q)
  BY <1>1, FS_Interval
<1> QED
  BY <1>2, FS_Subset, FS_CardinalityType

AllCalls(op, dels, adds) == Opening(op) \o dels \o adds

(***************************************************************************)
(* The calls of a save: the first one, the deletions, the additions.      *)
(***************************************************************************)
LEMMA ScriptIs ==
    ASSUME NEW op \in {"create", "update"}, NEW dels \in Seq(TripCall), NEW adds \in Seq(TripCall)
    PROVE  /\ AllCalls(op, dels, adds) \in Seq(TripCall)
           /\ Len(AllCalls(op, dels, adds)) = 1 + Len(dels) + Len(adds)
           /\ AllCalls(op, dels, adds)[1] = CallTo(op, Fresh, NoPlace, 1)
           /\ \A i \in 1..Len(dels) : AllCalls(op, dels, adds)[1 + i] = dels[i]
           /\ \A i \in 1..Len(adds) : AllCalls(op, dels, adds)[1 + Len(dels) + i] = adds[i]
<1>0. PICK c : c = AllCalls(op, dels, adds)
  OBVIOUS
<1>1. CallTo(op, Fresh, NoPlace, 1) \in TripCall
  BY DEF CallTo, TripCall
<1>2. PICK o : o = Opening(op)
  OBVIOUS
<1>3. o \in Seq(TripCall) /\ Len(o) = 1 /\ o[1] = CallTo(op, Fresh, NoPlace, 1)
  BY <1>1, <1>2 DEF Opening
<1>4. PICK m \in Nat, n \in Nat : m = Len(dels) /\ n = Len(adds)
  BY LenProperties
<1>5. PICK d : d = o \o dels
  OBVIOUS
<1>6. d \in Seq(TripCall) /\ Len(d) = 1 + m
      /\ \A i \in 1..(1 + m) : d[i] = IF i <= 1 THEN o[i] ELSE dels[i - 1]
  <2>1. /\ o \o dels \in Seq(TripCall) /\ Len(o \o dels) = Len(o) + Len(dels)
        /\ \A i \in 1..(Len(o) + Len(dels)) :
              (o \o dels)[i] = IF i <= Len(o) THEN o[i] ELSE dels[i - Len(o)]
    BY <1>3, ConcatProperties
  <2> QED
    BY <1>3, <1>4, <1>5, <2>1
<1>7. c = d \o adds
  BY <1>0, <1>2, <1>5 DEF AllCalls
<1>8. c \in Seq(TripCall) /\ Len(c) = 1 + m + n
      /\ \A i \in 1..(1 + m + n) : c[i] = IF i <= 1 + m THEN d[i] ELSE adds[i - (1 + m)]
  <2>1. /\ d \o adds \in Seq(TripCall) /\ Len(d \o adds) = Len(d) + Len(adds)
        /\ \A i \in 1..(Len(d) + Len(adds)) :
              (d \o adds)[i] = IF i <= Len(d) THEN d[i] ELSE adds[i - Len(d)]
    BY <1>6, ConcatProperties
  <2> QED
    BY <1>4, <1>6, <1>7, <2>1
<1>9. c[1] = CallTo(op, Fresh, NoPlace, 1)
  BY <1>3, <1>6, <1>8
<1>10. \A i \in 1..m : c[1 + i] = dels[i]
  <2> SUFFICES ASSUME NEW i \in 1..m PROVE c[1 + i] = dels[i]
    OBVIOUS
  <2>1. 1 + i \in 1..(1 + m) /\ 1 + i \in 1..(1 + m + n) /\ ~(1 + i <= 1) /\ (1 + i) - 1 = i
    OBVIOUS
  <2>2. c[1 + i] = d[1 + i]
    BY <1>8, <2>1
  <2>3. d[1 + i] = dels[(1 + i) - 1]
    BY <1>6, <2>1
  <2> QED
    BY <2>1, <2>2, <2>3
<1>11. \A i \in 1..n : c[1 + m + i] = adds[i]
  <2> SUFFICES ASSUME NEW i \in 1..n PROVE c[1 + m + i] = adds[i]
    OBVIOUS
  <2>1. /\ 1 + m + i \in 1..(1 + m + n) /\ ~(1 + m + i <= 1 + m)
        /\ (1 + m + i) - (1 + m) = i
    OBVIOUS
  <2>2. c[1 + m + i] = adds[(1 + m + i) - (1 + m)]
    BY <1>8, <2>1
  <2> QED
    BY <2>1, <2>2
<1> QED
  BY <1>0, <1>4, <1>8, <1>9, <1>10, <1>11

\* The calls of a save of the form, of which f and g order the rows to delete
\* and the drafts to add.
Script(c, op, drafts, gone, f, g, m, n) ==
    /\ c \in Seq(TripCall) /\ Len(c) = 1 + m + n /\ c[1] = CallTo(op, Fresh, NoPlace, 1)
    /\ f \in [1..m -> gone] /\ \A i, j \in 1..m : f[i] = f[j] => i = j
    /\ \A x \in gone : \E i \in 1..m : f[i] = x
    /\ g \in [1..n -> NewDrafts(drafts)] /\ \A i, j \in 1..n : g[i] = g[j] => i = j
    /\ \A x \in NewDrafts(drafts) : \E i \in 1..n : g[i] = x
    /\ \A i \in 1..m : c[1 + i] = CallTo("deleteStop", f[i], NoPlace, 1)
    /\ \A i \in 1..n : c[1 + m + i] =
          CallTo("addStop", Fresh, drafts[g[i]].place, drafts[g[i]].order)

FirstCall == IF visit.page = "new" THEN "create" ELSE "update"

(***************************************************************************)
(* What a form removed is a finite set of stops.                          *)
(***************************************************************************)
LEMMA GoneIs ==
    ASSUME TripsInv, FormOpen
    PROVE  /\ Cached \in SUBSET StopIds /\ Cached \subseteq RowsIn(stops)
           /\ IsFiniteSet(Gone(plan.drafts, Cached)) /\ Gone(plan.drafts, Cached) \subseteq StopIds
           /\ plan.drafts \in Seq(Draft)
           /\ visit.page # "new" => visit.page = "edit" /\ visit.trip \in TripIds
           /\ visit.page = "new" => Cached = {} /\ visit.trip = NoTrip
<1>1. visit.page = "edit" \/ visit.page = "new"
  BY DEF FormOpen
<1>2. visit.page = "edit" => visit.trip \in TripIds /\ known[visit.trip] # NotYet
  BY DEF TripsInv, VisitFits, FormOpen
<1>3. visit.page = "edit" => known[visit.trip] \in SUBSET StopIds
                            /\ known[visit.trip] \subseteq RowsIn(stops)
  <2> SUFFICES ASSUME visit.page = "edit"
               PROVE  known[visit.trip] \in SUBSET StopIds /\ known[visit.trip] \subseteq RowsIn(stops)
    OBVIOUS
  <2>1. PICK t \in TripIds : t = visit.trip
    BY <1>2
  <2>2. known[t] # NotYet
    BY <1>2, <2>1
  <2>3. known[t] \in SUBSET StopIds /\ known[t] \subseteq RowsIn(stops)
    BY <2>2 DEF TripsInv, KnownFits
  <2> QED
    BY <2>1, <2>3
<1>4. Cached \in SUBSET StopIds /\ Cached \subseteq RowsIn(stops)
  BY <1>3 DEF Cached
<1>5. Gone(plan.drafts, Cached) \subseteq StopIds
  BY <1>4 DEF Gone
<1>6. plan.drafts \in Seq(Draft)
  BY DEF TripsInv, PlanFits, Plan
<1> QED
  BY <1>1, <1>2, <1>4, <1>5, <1>6, StopsFinite DEF TripsInv, VisitFits, Cached

(***************************************************************************)
(* The calls of a form that is submitted.                                  *)
(***************************************************************************)
LEMMA ScriptsAre ==
    ASSUME TripsInv, FormOpen, NEW calls \in Scripts
    PROVE  \E f, g : \E m, n \in Nat :
              Script(calls, FirstCall, plan.drafts, Gone(plan.drafts, Cached), f, g, m, n)
<1> DEFINE D == plan.drafts
           gone == Gone(D, Cached)
           new == NewDrafts(D)
<1>1. PICK g \in InOrder(new) :
         \/ visit.page = "new" /\ calls = Opening("create") \o AddCalls(D, g)
         \/ /\ visit.page # "new"
            /\ \E f \in OrdersOf(gone) : calls = Opening("update") \o DeleteCalls(f) \o AddCalls(D, g)
  BY DEF Scripts
<1>2. D \in Seq(Draft) /\ new \in SUBSET DOMAIN D
  BY GoneIs DEF NewDrafts
<1>3. IsFiniteSet(new)
  BY <1>2, PositionsFinite
<1>4. g \in OrdersOf(new)
  BY DEF InOrder
<1>5. PICK n \in Nat : n = Cardinality(new)
  BY <1>3, FS_CardinalityType
<1>6. /\ g \in [1..n -> new] /\ \A i, j \in 1..n : g[i] = g[j] => i = j
      /\ \A x \in new : \E i \in 1..n : g[i] = x
  BY <1>3, <1>4, <1>5, OrdersAre
<1> DEFINE adds == AddCalls(D, g)
<1>7. /\ adds \in Seq(TripCall) /\ Len(adds) = n
      /\ \A i \in 1..n : adds[i] = CallTo("addStop", Fresh, D[g[i]].place, D[g[i]].order)
  <2>1. adds = [i \in 1..n |-> CallTo("addStop", Fresh, D[g[i]].place, D[g[i]].order)]
    BY <1>6 DEF AddCalls
  <2>2. ASSUME NEW i \in 1..n
        PROVE  CallTo("addStop", Fresh, D[g[i]].place, D[g[i]].order) \in TripCall
    <3>1. g[i] \in DOMAIN D
      BY <1>2, <1>6
    <3>2. D[g[i]] \in Draft
      BY <1>2, <3>1, LenProperties
    <3> QED
      BY <3>2 DEF Draft, CallTo, TripCall
  <2>3. adds \in [1..n -> TripCall]
    BY <2>1, <2>2
  <2>4. adds \in Seq(TripCall) /\ Len(adds) = n
    BY <2>3
  <2> QED
    BY <2>1, <2>4
<1> HIDE DEF adds, new
<1>8. CASE visit.page = "new"
  <2>1. calls = Opening("create") \o adds
    BY <1>1, <1>8 DEF adds
  <2>2. PICK o : o = Opening("create")
    OBVIOUS
  <2>3. o \in Seq(TripCall)
    BY <2>2 DEF Opening, CallTo, TripCall
  <2>4. o \o <<>> = o
    BY <2>3, ConcatEmptySeq
  <2>5. calls = AllCalls("create", <<>>, adds)
    BY <2>1, <2>2, <2>4 DEF AllCalls
  <2>6. <<>> \in Seq(TripCall) /\ Len(<<>>) = 0
    BY EmptySeq
  <2>7. /\ calls \in Seq(TripCall) /\ Len(calls) = 1 + 0 + n
        /\ calls[1] = CallTo("create", Fresh, NoPlace, 1)
        /\ \A i \in 1..n : calls[1 + 0 + i] = adds[i]
    <3>1. /\ calls \in Seq(TripCall) /\ Len(calls) = 1 + Len(<<>>) + Len(adds)
          /\ calls[1] = CallTo("create", Fresh, NoPlace, 1)
          /\ \A i \in 1..Len(adds) : calls[1 + Len(<<>>) + i] = adds[i]
      BY <1>7, <2>5, <2>6, ScriptIs
    <3> QED
      BY <1>7, <2>6, <3>1
  <2>8. gone = {}
    BY <1>8, GoneIs DEF Gone
  <2>9. PICK f : f = [i \in 1..0 |-> 0]
    OBVIOUS
  <2>10. /\ f \in [1..0 -> gone] /\ \A i, j \in 1..0 : f[i] = f[j] => i = j
         /\ \A x \in gone : \E i \in 1..0 : f[i] = x
    BY <2>8, <2>9
  <2>11. \A i \in 1..0 : calls[1 + i] = CallTo("deleteStop", f[i], NoPlace, 1)
    OBVIOUS
  <2>12. FirstCall = "create"
    BY <1>8 DEF FirstCall
  <2> HIDE DEF gone
  <2>13. Script(calls, FirstCall, D, gone, f, g, 0, n)
    BY <1>6, <1>7, <2>7, <2>10, <2>11, <2>12 DEF Script, new
  <2> QED
    BY <2>13 DEF gone
<1>9. CASE visit.page # "new"
  <2>1. PICK f \in OrdersOf(gone) : calls = AllCalls("update", DeleteCalls(f), adds)
    BY <1>1, <1>9 DEF adds, AllCalls
  <2>2. IsFiniteSet(gone) /\ gone \subseteq StopIds
    BY GoneIs
  <2>3. PICK m \in Nat : m = Cardinality(gone)
    BY <2>2, FS_CardinalityType
  <2>4. /\ f \in [1..m -> gone] /\ \A i, j \in 1..m : f[i] = f[j] => i = j
        /\ \A x \in gone : \E i \in 1..m : f[i] = x
    BY <2>1, <2>2, <2>3, OrdersAre
  <2>5. PICK dels : dels = DeleteCalls(f)
    OBVIOUS
  <2>6. dels = [i \in 1..m |-> CallTo("deleteStop", f[i], NoPlace, 1)]
    BY <2>4, <2>5 DEF DeleteCalls
  <2>7. \A i \in 1..m : CallTo("deleteStop", f[i], NoPlace, 1) \in TripCall
    BY <2>2, <2>4 DEF CallTo, TripCall
  <2>8. dels \in [1..m -> TripCall]
    BY <2>6, <2>7
  <2>9. dels \in Seq(TripCall) /\ Len(dels) = m
    BY <2>8
  <2>10. /\ calls \in Seq(TripCall) /\ Len(calls) = 1 + m + n
         /\ calls[1] = CallTo("update", Fresh, NoPlace, 1)
         /\ \A i \in 1..m : calls[1 + i] = dels[i]
         /\ \A i \in 1..n : calls[1 + m + i] = adds[i]
    <3>1. /\ calls \in Seq(TripCall) /\ Len(calls) = 1 + Len(dels) + Len(adds)
          /\ calls[1] = CallTo("update", Fresh, NoPlace, 1)
          /\ \A i \in 1..Len(dels) : calls[1 + i] = dels[i]
          /\ \A i \in 1..Len(adds) : calls[1 + Len(dels) + i] = adds[i]
      BY <1>7, <2>1, <2>5, <2>9, ScriptIs
    <3> QED
      BY <1>7, <2>9, <3>1
  <2>11. FirstCall = "update"
    BY <1>9 DEF FirstCall
  <2> HIDE DEF gone
  <2>12. Script(calls, FirstCall, D, gone, f, g, m, n)
    BY <1>6, <1>7, <2>4, <2>6, <2>10, <2>11 DEF Script, new
  <2> QED
    BY <2>12 DEF gone
<1> QED
  BY <1>8, <1>9

(***************************************************************************)
(* They fit the form: the creation only first, and no deletion of a stop  *)
(* that the form kept.                                                     *)
(***************************************************************************)
LEMMA ScriptsFit ==
    ASSUME TripsInv, FormOpen, NEW calls \in Scripts
    PROVE  /\ calls \in Seq(TripCall) /\ calls # <<>>
           /\ CallsFit(calls, plan.drafts)
           /\ AtCreate(calls) <=> visit.page = "new"
<1>1. PICK f, g : \E m, n \in Nat :
         Script(calls, FirstCall, plan.drafts, Gone(plan.drafts, Cached), f, g, m, n)
  BY ScriptsAre
<1>2. PICK m \in Nat, n \in Nat :
         Script(calls, FirstCall, plan.drafts, Gone(plan.drafts, Cached), f, g, m, n)
  BY <1>1
<1>3. calls \in Seq(TripCall) /\ Len(calls) = 1 + m + n /\ DOMAIN calls = 1..(1 + m + n)
  BY <1>2, LenProperties DEF Script
<1>4. calls # <<>> /\ Head(calls) = calls[1]
  BY <1>3
<1>5. Head(calls).op = FirstCall /\ calls[1].op = FirstCall
  BY <1>2, <1>4 DEF Script, CallTo
<1>6. \A i \in DOMAIN calls : i > 1 =>
         /\ calls[i].op \in {"deleteStop", "addStop"}
         /\ calls[i].op = "deleteStop" => calls[i].stop \in Gone(plan.drafts, Cached)
         /\ calls[i].op = "addStop" => calls[i].place # NoPlace
  <2> SUFFICES ASSUME NEW i \in 1..(1 + m + n), i > 1
               PROVE  /\ calls[i].op \in {"deleteStop", "addStop"}
                      /\ calls[i].op = "deleteStop" => calls[i].stop \in Gone(plan.drafts, Cached)
                      /\ calls[i].op = "addStop" => calls[i].place # NoPlace
    BY <1>3
  <2>1. CASE i <= 1 + m
    <3>1. PICK k \in 1..m : i = 1 + k
      BY <2>1
    <3>2. calls[1 + k] = CallTo("deleteStop", f[k], NoPlace, 1) /\ f[k] \in Gone(plan.drafts, Cached)
      BY <1>2 DEF Script
    <3> QED
      BY <3>1, <3>2 DEF CallTo
  <2>2. CASE i > 1 + m
    <3>1. PICK k \in 1..n : i = 1 + m + k
      BY <2>2
    <3>2. calls[1 + m + k] = CallTo("addStop", Fresh, plan.drafts[g[k]].place, plan.drafts[g[k]].order)
      BY <1>2 DEF Script
    <3>3. plan.drafts[g[k]].place # NoPlace
      BY <1>2 DEF Script, NewDrafts
    <3>4. calls[1 + m + k].op = "addStop" /\ calls[1 + m + k].place # NoPlace
      BY <3>2, <3>3 DEF CallTo
    <3> QED
      BY <3>1, <3>4
  <2> QED
    BY <2>1, <2>2
<1>7. CallsFit(calls, plan.drafts)
  <2>1. calls[1].op \notin {"deleteStop", "addStop"}
    BY <1>5 DEF FirstCall
  <2>2. \A i \in DOMAIN calls : i = 1 \/ i > 1
    BY <1>3
  <2> QED
    BY <1>6, <2>1, <2>2 DEF CallsFit, Gone
<1>8. AtCreate(calls) <=> visit.page = "new"
  BY <1>4, <1>5 DEF AtCreate, FirstCall
<1> QED
  BY <1>3, <1>4, <1>7, <1>8

(***************************************************************************)
(* What is left after a call that is served.                               *)
(***************************************************************************)
LEMMA TailFits ==
    ASSUME NEW calls \in Seq(TripCall), calls # <<>>, NEW drafts, CallsFit(calls, drafts)
    PROVE  /\ Head(calls) \in TripCall /\ Tail(calls) \in Seq(TripCall)
           /\ CallsFit(Tail(calls), drafts) /\ ~AtCreate(Tail(calls))
           /\ Head(calls).op = "deleteStop" => Head(calls).stop \notin Kept(drafts)
           /\ Head(calls).op = "addStop" => Head(calls).place # NoPlace
<1>1. PICK n \in Nat : n = Len(calls)
  BY LenProperties
<1>2. n > 0 /\ Head(calls) = calls[1] /\ DOMAIN calls = 1..n
  BY <1>1, LenProperties, EmptySeq
<1>3. /\ Head(calls) \in TripCall /\ Tail(calls) \in Seq(TripCall) /\ Len(Tail(calls)) = n - 1
      /\ \A i \in 1..(n - 1) : Tail(calls)[i] = calls[i + 1]
  BY <1>1, HeadTailProperties
<1>4. DOMAIN Tail(calls) = 1..(n - 1)
  BY <1>3, LenProperties
<1>5. \A i \in 1..(n - 1) : i + 1 \in DOMAIN calls /\ i + 1 > 1 /\ Tail(calls)[i] = calls[i + 1]
  BY <1>2, <1>3
<1>6. CallsFit(Tail(calls), drafts)
  BY <1>4, <1>5 DEF CallsFit
<1>7. ~AtCreate(Tail(calls))
  <2> SUFFICES ASSUME Tail(calls) # <<>>, Head(Tail(calls)).op = "create" PROVE FALSE
    BY DEF AtCreate
  <2>1. n - 1 > 0 /\ Head(Tail(calls)) = Tail(calls)[1]
    BY <1>1, <1>3, EmptySeq
  <2>2. Tail(calls)[1].op # "create"
    BY <1>5, <2>1 DEF CallsFit
  <2> QED
    BY <2>1, <2>2
<1> QED
  BY <1>2, <1>3, <1>6, <1>7 DEF CallsFit

-----------------------------------------------------------------------------
(* The parts of the state, one by one. *)

(***************************************************************************)
(* The form that is filled has rows, and neither failed nor made anything.*)
(***************************************************************************)
LEMMA FillFits ==
    ASSUME TablesFit(trips, stops), NEW S \in SUBSET RowsIn(stops), Fill(S)
    PROVE  PlanFits(plan', RowsIn(stops)) /\ plan'.made = 0 /\ plan'.failed = 0
<1>1. PICK drafts \in Listings(S) : plan' = [EmptyPlan EXCEPT !.drafts = drafts]
  BY DEF Fill
<1>2. PICK f \in OrdersOf(S) :
         drafts = [i \in DOMAIN f |-> [stop |-> f[i], place |-> stops[f[i]].place,
                                       order |-> stops[f[i]].order]]
  BY <1>1 DEF Listings
<1>3. IsFiniteSet(S)
  BY StopsFinite DEF RowsIn
<1>4. PICK n \in Nat : n = Cardinality(S)
  BY <1>3, FS_CardinalityType
<1>5. f \in [1..n -> S]
  BY <1>3, <1>4, OrdersAre
<1>6. ASSUME NEW i \in 1..n
      PROVE  /\ [stop |-> f[i], place |-> stops[f[i]].place, order |-> stops[f[i]].order] \in Draft
             /\ f[i] \in RowsIn(stops)
  <2>1. f[i] \in RowsIn(stops) /\ f[i] \in StopIds
    BY <1>5 DEF RowsIn
  <2>2. stops[f[i]] \in Stop
    BY <2>1 DEF RowsIn, TablesFit
  <2> QED
    BY <2>1, <2>2 DEF Stop, Draft
<1>7. drafts = [i \in 1..n |-> [stop |-> f[i], place |-> stops[f[i]].place,
                                order |-> stops[f[i]].order]]
  BY <1>2, <1>5
<1>8. drafts \in [1..n -> Draft]
  BY <1>6, <1>7
<1>9. drafts \in Seq(Draft)
  BY <1>8
<1>10. Kept(drafts) \subseteq RowsIn(stops)
  BY <1>6, <1>7 DEF Kept
<1>11. plan' = [drafts |-> drafts, failed |-> 0, made |-> 0]
  BY <1>1 DEF EmptyPlan
<1> QED
  BY <1>9, <1>10, <1>11 DEF PlanFits, Plan

(***************************************************************************)
(* So is the form of the page that the visitor goes to.                   *)
(***************************************************************************)
LEMMA GoToFits ==
    ASSUME TripsInv, NEW page \in {"list", "new", "detail", "edit"},
           NEW t \in TripIds \cup {NoTrip}, GoTo(page, t),
           page \in {"detail", "edit"} => t # NoTrip, page = "new" => t = NoTrip
    PROVE  /\ VisitFits(visit') /\ PlanFits(plan', RowsIn(stops))
           /\ plan'.made = 0 /\ plan'.failed = 0
<1>1. visit' = [page |-> page, trip |-> t]
  BY DEF GoTo
<1>2. VisitFits(visit')
  BY <1>1 DEF VisitFits
<1>3. CASE page = "edit" /\ known[t] # NotYet
  <2>1. Fill(known[t]) /\ t \in TripIds
    BY <1>3 DEF GoTo
  <2>2. known[t] \in SUBSET RowsIn(stops)
    BY <1>3, <2>1 DEF TripsInv, KnownFits
  <2> QED
    BY <1>2, <2>1, <2>2, FillFits DEF TripsInv
<1>4. CASE ~(page = "edit" /\ known[t] # NotYet)
  <2>1. plan' = [drafts |-> <<>>, failed |-> 0, made |-> 0]
    BY <1>4 DEF GoTo, EmptyPlan
  <2>2. <<>> \in Seq(Draft) /\ Kept(<<>>) = {}
    BY DEF Kept
  <2> QED
    BY <1>2, <2>1, <2>2 DEF PlanFits, Plan
<1> QED
  BY <1>3, <1>4

(***************************************************************************)
(* The saves of a page that was left go on, none of them for a form.      *)
(***************************************************************************)
LEMMA DisownedFit ==
    ASSUME NEW vs, NEW rows, SavesFit(vs, rows),
           NEW ws, ws = [s \in SaveIds |-> Disowned(vs[s])]
    PROVE  SavesFit(ws, rows) /\ MineIn(ws) = {}
<1>1. ASSUME NEW s \in SaveIds
      PROVE  /\ ws[s] \in Save \cup {NotYet, Ended}
             /\ IsRunning(ws[s]) => SaveFits(ws[s], rows) /\ ws[s].mine = FALSE
  <2>1. PICK v : v = vs[s]
    OBVIOUS
  <2>2. CASE v \in {NotYet, Ended}
    BY <2>1, <2>2 DEF Disowned, IsRunning
  <2>3. CASE v \notin {NotYet, Ended}
    <3>1. ws[s] = [v EXCEPT !.mine = FALSE] /\ v \in Save /\ SaveFits(v, rows)
      BY <2>1, <2>3 DEF Disowned, SavesFit, IsRunning
    <3>2. PICK w : w = ws[s]
      OBVIOUS
    <3>3. /\ w \in Save /\ w.mine = FALSE
          /\ w.trip = v.trip /\ w.calls = v.calls /\ w.drafts = v.drafts
      BY <3>1, <3>2 DEF Save
    <3>4. SaveFits(w, rows)
      BY <3>1, <3>3 DEF SaveFits
    <3> QED
      BY <3>2, <3>3, <3>4
  <2> QED
    BY <2>2, <2>3
<1>2. SavesFit(ws, rows)
  BY <1>1 DEF SavesFit
<1> QED
  BY <1>1, <1>2 DEF MineIn

(***************************************************************************)
(* A save that is no longer alone is the same save otherwise.             *)
(***************************************************************************)
LEMMA AccompaniedFits ==
    ASSUME NEW v \in Save \cup {NotYet, Ended}, NEW rows, IsRunning(v) => SaveFits(v, rows)
    PROVE  /\ Accompanied(v) \in Save \cup {NotYet, Ended}
           /\ IsRunning(Accompanied(v)) <=> IsRunning(v)
           /\ IsRunning(v) => /\ SaveFits(Accompanied(v), rows)
                              /\ Accompanied(v).mine = v.mine /\ Accompanied(v).calls = v.calls
                              /\ Accompanied(v).drafts = v.drafts
                              /\ Accompanied(v).alone = FALSE
<1>1. CASE v \in {NotYet, Ended}
  BY <1>1 DEF Accompanied, IsRunning
<1>2. CASE v \notin {NotYet, Ended}
  <2>1. PICK w : w = Accompanied(v)
    OBVIOUS
  <2>2. w = [v EXCEPT !.alone = FALSE, !.before = {}, !.seen = {}, !.left = {}] /\ v \in Save
    BY <1>2, <2>1 DEF Accompanied
  <2>3. /\ w \in Save /\ w.mine = v.mine /\ w.calls = v.calls /\ w.alone = FALSE
        /\ w.trip = v.trip /\ w.drafts = v.drafts
    BY <2>2 DEF Save
  <2>4. SaveFits(w, rows)
    BY <1>2, <2>3 DEF SaveFits, IsRunning
  <2>5. w \notin {NotYet, Ended}
    BY <2>3, TripsMarkers
  <2> QED
    BY <1>2, <2>1, <2>3, <2>4, <2>5 DEF IsRunning
<1> QED
  BY <1>1, <1>2

(***************************************************************************)
(* More rows harm nobody.                                                  *)
(***************************************************************************)
LEMMA RowsGrow ==
    ASSUME NEW rows, NEW more, rows \subseteq more
    PROVE  /\ \A p : PlanFits(p, rows) => PlanFits(p, more)
           /\ \A kn : KnownFits(kn, rows) => KnownFits(kn, more)
           /\ \A v : SaveFits(v, rows) => SaveFits(v, more)
           /\ \A vs : SavesFit(vs, rows) => SavesFit(vs, more)
<1>1. \A p : PlanFits(p, rows) => PlanFits(p, more)
  BY DEF PlanFits
<1>2. \A kn : KnownFits(kn, rows) => KnownFits(kn, more)
  BY DEF KnownFits
<1>3. \A v : SaveFits(v, rows) => SaveFits(v, more)
  BY DEF SaveFits
<1>4. \A vs : SavesFit(vs, rows) => SavesFit(vs, more)
  BY <1>3 DEF SavesFit
<1> QED
  BY <1>1, <1>2, <1>3, <1>4

(***************************************************************************)
(* What a call does to the tables.                                         *)
(***************************************************************************)
LEMMA EffectFits ==
    ASSUME TablesFit(trips, stops), NEW c \in TripCall, NEW t \in TripIds, Effect(c, t),
           c.op = "addStop" => c.place # NoPlace
    PROVE  TablesFit(trips', stops') /\ RowsIn(stops) \subseteq RowsIn(stops')
<1>0. /\ trips \in [TripIds -> {"unused", "live", "deleted"}]
      /\ stops \in [StopIds -> Stop \cup {NotYet}]
      /\ \A i \in RowsIn(stops) : trips[stops[i].trip] # "unused" /\ stops[i].trip \in TripIds
  BY DEF TablesFit, RowsIn, Stop
<1>1. CASE c.op = "create"
  <2>1. trips' = [trips EXCEPT ![t] = "live"] /\ stops' = stops
    BY <1>1 DEF Effect
  <2> QED
    BY <1>0, <2>1 DEF TablesFit
<1>2. CASE UNCHANGED <<trips, stops>>
  BY <1>0, <1>2 DEF TablesFit
<1>3. CASE /\ trips' = trips /\ c.stop \in LiveStops(t)
           /\ stops' = [stops EXCEPT ![c.stop].live = FALSE]
  <2>1. PICK k \in StopIds : k = c.stop /\ stops[k] # NotYet
    BY <1>3 DEF LiveStops
  <2>2. PICK e : e = [stops[k] EXCEPT !.live = FALSE]
    OBVIOUS
  <2>3. e \in Stop /\ e.trip = stops[k].trip /\ stops[k] \in Stop
    BY <1>0, <2>1, <2>2 DEF Stop
  <2>4. stops' = [stops EXCEPT ![k] = e]
    BY <1>0, <1>3, <2>1, <2>2
  <2>5. /\ stops' \in [StopIds -> Stop \cup {NotYet}] /\ stops'[k] = e
        /\ \A i \in StopIds : i # k => stops'[i] = stops[i]
    BY <1>0, <2>3, <2>4
  <2>6. RowsIn(stops') = RowsIn(stops)
    BY <2>1, <2>3, <2>5, TripsMarkers DEF RowsIn
  <2>7. \A i \in StopIds : stops[i] # NotYet => stops'[i].trip = stops[i].trip
    BY <2>3, <2>5
  <2>8. \A i \in RowsIn(stops) : trips[stops'[i].trip] # "unused"
    BY <1>0, <2>7 DEF RowsIn
  <2> QED
    BY <1>0, <1>3, <2>5, <2>6, <2>8 DEF TablesFit
<1>4. CASE c.op = "addStop"
  <2>1. PICK k \in StopIds : /\ stops[k] = NotYet
                             /\ stops' = [stops EXCEPT ![k] = [trip |-> t, place |-> c.place,
                                                               order |-> c.order, live |-> TRUE]]
    BY <1>4 DEF Effect
  <2>2. PICK e : e = [trip |-> t, place |-> c.place, order |-> c.order, live |-> TRUE]
    OBVIOUS
  <2>3. e \in Stop
    BY <1>4, <2>2 DEF Stop, TripCall
  <2>4. stops' = [stops EXCEPT ![k] = e] /\ trips' = trips /\ trips[t] = "live" /\ e.trip = t
    BY <1>4, <2>1, <2>2 DEF Effect, Found
  <2>5. /\ stops' \in [StopIds -> Stop \cup {NotYet}] /\ stops'[k] = e
        /\ \A i \in StopIds : i # k => stops'[i] = stops[i]
    BY <1>0, <2>3, <2>4
  <2>6. RowsIn(stops') = RowsIn(stops) \cup {k}
    BY <2>1, <2>3, <2>5, TripsMarkers DEF RowsIn
  <2>7. \A i \in RowsIn(stops') : trips[stops'[i].trip] # "unused"
    BY <1>0, <2>4, <2>5, <2>6 DEF RowsIn
  <2> QED
    BY <1>0, <2>4, <2>5, <2>6, <2>7 DEF TablesFit
<1> QED
  BY <1>1, <1>2, <1>3, <1>4 DEF Effect

(***************************************************************************)
(* What a deletion does to them.                                           *)
(***************************************************************************)
LEMMA ErasedFits ==
    ASSUME TablesFit(trips, stops), NEW t \in TripIds, Erased(t)
    PROVE  /\ TablesFit(trips', stops') /\ RowsIn(stops') = RowsIn(stops)
           /\ trips' = [trips EXCEPT ![t] = "deleted"]
           /\ \A i \in RowsIn(stops) : /\ stops'[i].trip = stops[i].trip
                                       /\ stops'[i].place = stops[i].place
                                       /\ stops'[i].order = stops[i].order
                                       /\ stops[i].trip # t => stops'[i] = stops[i]
<1>0. /\ trips \in [TripIds -> {"unused", "live", "deleted"}]
      /\ stops \in [StopIds -> Stop \cup {NotYet}]
      /\ \A i \in RowsIn(stops) : trips[stops[i].trip] # "unused" /\ stops[i].trip \in TripIds
  BY DEF TablesFit, RowsIn, Stop
<1>1. /\ trips' = [trips EXCEPT ![t] = "deleted"]
      /\ stops' = [s \in StopIds |-> IF s \in LiveStops(t) THEN [stops[s] EXCEPT !.live = FALSE]
                                     ELSE stops[s]]
  BY DEF Erased
<1>2. ASSUME NEW i \in StopIds
      PROVE  /\ stops'[i] \in Stop \cup {NotYet}
             /\ stops'[i] # NotYet <=> stops[i] # NotYet
             /\ stops[i] # NotYet => /\ stops'[i].trip = stops[i].trip
                                     /\ stops'[i].place = stops[i].place
                                     /\ stops'[i].order = stops[i].order
                                     /\ stops[i].trip # t => stops'[i] = stops[i]
  <2>1. CASE i \in LiveStops(t)
    <3>1. PICK v \in Stop : v = stops[i] /\ v.trip = t
      BY <1>0, <2>1 DEF LiveStops
    <3>2. PICK e : e = [v EXCEPT !.live = FALSE]
      OBVIOUS
    <3>3. e \in Stop /\ e.trip = v.trip /\ e.place = v.place /\ e.order = v.order
      BY <3>1, <3>2 DEF Stop
    <3>4. stops'[i] = e
      BY <1>1, <2>1, <3>1, <3>2
    <3> QED
      BY <3>1, <3>3, <3>4, TripsMarkers
  <2>2. CASE i \notin LiveStops(t)
    BY <1>0, <1>1, <2>2
  <2> QED
    BY <2>1, <2>2
<1>3. stops' \in [StopIds -> Stop \cup {NotYet}]
  BY <1>1, <1>2
<1>4. RowsIn(stops') = RowsIn(stops)
  BY <1>2 DEF RowsIn
<1>5. \A i \in RowsIn(stops) : trips'[stops'[i].trip] # "unused"
  BY <1>0, <1>1, <1>2 DEF RowsIn
<1> QED
  BY <1>0, <1>1, <1>2, <1>3, <1>4, <1>5 DEF TablesFit, RowsIn

-----------------------------------------------------------------------------
(* The first invariant. *)

(***************************************************************************)
(* At first there is an itinerary at most, and nothing under way.         *)
(***************************************************************************)
LEMMA TripsStart == TripsInit => TripsInv
<1> SUFFICES ASSUME TripsInit PROVE TripsInv
  OBVIOUS
<1>1. PICK p \in Places, n \in {0, 1} :
         /\ trips = [t \in TripIds |-> IF t <= n THEN "live" ELSE "unused"]
         /\ stops = [s \in StopIds |->
                       IF s <= n THEN [trip |-> 1, place |-> p, order |-> 1, live |-> TRUE]
                       ELSE NotYet]
  BY DEF TripsInit
<1>2. 1 \in TripIds
  BY TripsAssumption DEF TripIds
<1>3. trips \in [TripIds -> {"unused", "live", "deleted"}]
  BY <1>1
<1>4. PICK e : e = [trip |-> 1, place |-> p, order |-> 1, live |-> TRUE]
  OBVIOUS
<1>5. 1 \in TripIds => e \in Stop
  BY <1>4 DEF Stop
<1>6. \A s \in StopIds : stops[s] = IF s <= n THEN e ELSE NotYet
  BY <1>1, <1>4
<1>7. \A s \in StopIds : ~(s <= 0)
  BY DEF StopIds
<1>8. stops \in [StopIds -> Stop \cup {NotYet}]
  <2>1. \A s \in StopIds : stops[s] \in Stop \cup {NotYet}
    BY <1>2, <1>5, <1>6, <1>7
  <2> QED
    BY <1>1, <2>1
<1>9. \A i \in RowsIn(stops) : trips[stops[i].trip] # "unused"
  <2> SUFFICES ASSUME NEW i \in StopIds, stops[i] # NotYet
               PROVE  trips[stops[i].trip] # "unused"
    BY DEF RowsIn
  <2>1. i <= n /\ stops[i] = e
    BY <1>6
  <2>2. n = 1 /\ e.trip = 1
    BY <1>4, <1>7, <2>1
  <2>3. 1 \in TripIds
    BY <1>2, <2>2
  <2> QED
    BY <1>1, <2>1, <2>2, <2>3
<1>10. TablesFit(trips, stops)
  BY <1>3, <1>8, <1>9 DEF TablesFit
<1>11. VisitFits(visit)
  BY DEF TripsInit, VisitFits
<1>12. KnownFits(known, RowsIn(stops))
  BY DEF TripsInit, KnownFits
<1>13. PlanFits(plan, RowsIn(stops)) /\ plan.made = 0 /\ plan.failed = 0
  <2>1. plan = [drafts |-> <<>>, failed |-> 0, made |-> 0]
    BY DEF TripsInit, EmptyPlan
  <2>2. <<>> \in Seq(Draft) /\ Kept(<<>>) = {}
    BY DEF Kept
  <2> QED
    BY <2>1, <2>2 DEF PlanFits, Plan
<1>14. \A s \in SaveIds : saves[s] = NotYet
  BY DEF TripsInit
<1>15. SavesFit(saves, RowsIn(stops)) /\ MineIn(saves) = {}
  BY <1>14 DEF TripsInit, SavesFit, MineIn, IsRunning
<1>16. OfForm(plan.made, plan.failed, saves)
  BY <1>13, <1>15 DEF OfForm
<1> QED
  BY <1>10, <1>11, <1>12, <1>13, <1>15, <1>16, TripsAssumption DEF TripsInit, TripsInv

(***************************************************************************)
(* A step that leaves the form for a new one, the saves going on alone.   *)
(***************************************************************************)
LEMMA MovedKeeps ==
    ASSUME TripsInv, TablesFit(trips', stops'), RowsIn(stops) \subseteq RowsIn(stops'),
           known' = known, sortable' = sortable, VisitFits(visit'),
           PlanFits(plan', RowsIn(stops)), plan'.made = 0, plan'.failed = 0,
           SavesFit(saves', RowsIn(stops)), MineIn(saves') = {},
           erase' \in TripIds \cup {NotYet, Ended}, tripFaults' = tripFaults
    PROVE  TripsInv'
<1>1. /\ PlanFits(plan', RowsIn(stops')) /\ SavesFit(saves', RowsIn(stops'))
      /\ KnownFits(known', RowsIn(stops'))
  BY RowsGrow DEF TripsInv
<1>2. OfForm(plan'.made, plan'.failed, saves')
  BY DEF OfForm
<1> QED
  BY <1>1, <1>2 DEF TripsInv

(***************************************************************************)
(* The pages a visitor opens, and the one a deletion leads to.            *)
(***************************************************************************)
LEMMA PagesKeep ==
    ASSUME TripsInv,
           OpenNewTrip \/ OpenTrip \/ OpenEditTrip \/ LeaveTrip \/ EraseTrip
    PROVE  TripsInv'
<1>1. /\ SavesFit(saves, RowsIn(stops)) /\ VisitFits(visit) /\ TablesFit(trips, stops)
      /\ erase \in TripIds \cup {NotYet, Ended}
  BY DEF TripsInv
<1>2. saves' = [s \in SaveIds |-> Disowned(saves[s])]
  BY DEF OpenNewTrip, OpenTrip, OpenEditTrip, LeaveTrip, EraseTrip
<1>3. SavesFit(saves', RowsIn(stops)) /\ MineIn(saves') = {}
  BY <1>1, <1>2, DisownedFit
<1>4. UNCHANGED <<sortable, known, tripFaults>>
  BY DEF OpenNewTrip, OpenTrip, OpenEditTrip, LeaveTrip, EraseTrip
<1>5. PICK page \in {"list", "new", "detail", "edit"}, t \in TripIds \cup {NoTrip} :
         /\ GoTo(page, t)
         /\ page \in {"detail", "edit"} => t # NoTrip
         /\ page = "new" => t = NoTrip
  <2>1. visit.trip \in TripIds \cup {NoTrip} /\ (visit.page \in {"detail", "edit"} => visit.trip # NoTrip)
    BY <1>1 DEF VisitFits
  <2>2. NoTrip \notin TripIds
    BY TripsAssumption
  <2>3. CASE OpenNewTrip
    BY <2>3 DEF OpenNewTrip
  <2>4. CASE OpenTrip
    BY <2>2, <2>4 DEF OpenTrip
  <2>5. CASE OpenEditTrip
    BY <2>1, <2>5 DEF OpenEditTrip
  <2>6. CASE LeaveTrip
    BY <2>1, <2>6 DEF LeaveTrip
  <2>7. CASE EraseTrip
    BY <2>7 DEF EraseTrip
  <2> QED
    BY <2>3, <2>4, <2>5, <2>6, <2>7
<1>6. /\ VisitFits(visit') /\ PlanFits(plan', RowsIn(stops))
      /\ plan'.made = 0 /\ plan'.failed = 0
  BY <1>5, GoToFits
<1>7. /\ TablesFit(trips', stops') /\ RowsIn(stops) \subseteq RowsIn(stops')
      /\ erase' \in TripIds \cup {NotYet, Ended}
  <2>1. CASE EraseTrip
    BY <1>1, <2>1, ErasedFits DEF EraseTrip
  <2>2. CASE UNCHANGED <<trips, stops, erase>>
    BY <1>1, <2>2
  <2> QED
    BY <2>1, <2>2 DEF OpenNewTrip, OpenTrip, OpenEditTrip, LeaveTrip
<1> QED
  BY <1>3, <1>4, <1>6, <1>7, MovedKeeps

(***************************************************************************)
(* The itinerary is read: the form may be filled, and counts from nothing.*)
(***************************************************************************)
LEMMA LoadKeeps ==
    ASSUME TripsInv, LoadTrip
    PROVE  TripsInv'
<1>1. /\ KnownFits(known, RowsIn(stops)) /\ PlanFits(plan, RowsIn(stops)) /\ VisitFits(visit)
      /\ TablesFit(trips, stops) /\ OfForm(plan.made, plan.failed, saves)
  BY DEF TripsInv
<1>2. PICK t \in TripIds : t = visit.trip
  BY <1>1 DEF LoadTrip, VisitFits
<1>3. LiveStops(t) \in SUBSET StopIds /\ LiveStops(t) \subseteq RowsIn(stops)
  BY DEF LiveStops, RowsIn
<1>4. known' = [known EXCEPT ![t] = LiveStops(t)]
  BY <1>2 DEF LoadTrip
<1>5. KnownFits(known', RowsIn(stops))
  BY <1>1, <1>3, <1>4 DEF KnownFits
<1>6. PlanFits(plan', RowsIn(stops)) /\ OfForm(plan'.made, plan'.failed, saves)
  <2>1. CASE plan' = plan
    BY <1>1, <2>1
  <2>2. CASE Fill(LiveStops(t))
    <3>1. PlanFits(plan', RowsIn(stops)) /\ plan'.made = 0 /\ plan'.failed = 0
      BY <1>1, <1>3, <2>2, FillFits
    <3> QED
      BY <1>1, <3>1 DEF OfForm
  <2> QED
    BY <1>2, <2>1, <2>2 DEF LoadTrip
<1> QED
  BY <1>5, <1>6 DEF LoadTrip, TripsInv

(***************************************************************************)
(* The form is changed: its drafts keep their rows, or have none.         *)
(***************************************************************************)
LEMMA DraftsKeep ==
    ASSUME TripsInv, AddDraft \/ RemoveDraft \/ ChoosePlace
    PROVE  TripsInv'
<1> DEFINE D == plan.drafts
<1>1. plan \in Plan /\ D \in Seq(Draft) /\ Kept(D) \subseteq RowsIn(stops) \cup {Fresh}
  BY DEF TripsInv, PlanFits, Plan
<1>2. PICK n \in Nat : n = Len(D)
  BY <1>1, LenProperties
<1>3. D \in [1..n -> Draft]
  BY <1>1, <1>2, LenProperties
<1>4. ASSUME NEW drafts \in Seq(Draft), Kept(drafts) \subseteq Kept(D) \cup {Fresh},
             plan' = [plan EXCEPT !.drafts = drafts]
      PROVE  TripsInv'
  <2>1. /\ plan' \in Plan /\ plan'.drafts = drafts
        /\ plan'.made = plan.made /\ plan'.failed = plan.failed
    BY <1>1, <1>4 DEF Plan
  <2>2. PlanFits(plan', RowsIn(stops))
    BY <1>1, <1>4, <2>1 DEF PlanFits
  <2>3. UNCHANGED <<trips, stops, sortable, visit, known, saves, erase, tripFaults>>
    BY DEF AddDraft, RemoveDraft, ChoosePlace
  <2> QED
    BY <2>1, <2>2, <2>3 DEF TripsInv
<1>5. CASE AddDraft
  <2>1. PICK e : e = [stop |-> Fresh, place |-> NoPlace, order |-> Len(D) + 1]
    OBVIOUS
  <2>2. e \in Draft /\ e.stop = Fresh
    BY <1>2, <2>1 DEF Draft
  <2>3. PICK drafts : drafts = Append(D, e)
    OBVIOUS
  <2>4. /\ drafts \in Seq(Draft) /\ Len(drafts) = n + 1
        /\ \A i \in 1..n : drafts[i] = D[i]
        /\ drafts[n + 1] = e
    BY <1>1, <1>2, <2>2, <2>3, AppendProperties
  <2>5. DOMAIN drafts = 1..(n + 1) /\ DOMAIN D = 1..n
    BY <1>3, <2>4, LenProperties
  <2>6. \A i \in 1..(n + 1) : i \in 1..n \/ i = n + 1
    OBVIOUS
  <2>7. Kept(drafts) \subseteq Kept(D) \cup {Fresh}
    BY <2>2, <2>4, <2>5, <2>6 DEF Kept
  <2>8. plan' = [plan EXCEPT !.drafts = drafts]
    BY <1>5, <2>1, <2>3 DEF AddDraft
  <2> QED
    BY <1>4, <2>4, <2>7, <2>8
<1>6. CASE RemoveDraft
  <2>1. PICK k \in 1..Len(D) : plan' = [plan EXCEPT !.drafts =
                      [i \in 1..(Len(D) - 1) |->
                          [D[IF i < k THEN i ELSE i + 1] EXCEPT !.order = i]]]
    BY <1>6 DEF RemoveDraft
  <2>2. n > 0
    BY <1>2
  <2>3. PICK m \in Nat : m = n - 1
    BY <2>2
  <2>4. PICK drafts : drafts = [i \in 1..m |-> [D[IF i < k THEN i ELSE i + 1] EXCEPT !.order = i]]
    OBVIOUS
  <2>5. ASSUME NEW i \in 1..m
        PROVE  drafts[i] \in Draft /\ \E j \in DOMAIN D : drafts[i].stop = D[j].stop
    <3>1. PICK j \in 1..n : j = IF i < k THEN i ELSE i + 1
      BY <2>3
    <3>2. D[j] \in Draft /\ drafts[i] = [D[j] EXCEPT !.order = i]
      BY <1>3, <2>4, <3>1
    <3>3. PICK d \in Draft : d = D[j]
      BY <3>2
    <3>4. [d EXCEPT !.order = i] \in Draft /\ [d EXCEPT !.order = i].stop = d.stop
      BY DEF Draft
    <3> QED
      BY <1>3, <3>2, <3>3, <3>4
  <2>6. drafts \in [1..m -> Draft]
    BY <2>4, <2>5
  <2>7. drafts \in Seq(Draft)
    BY <2>6
  <2>8. Kept(drafts) \subseteq Kept(D) \cup {Fresh}
    BY <2>5, <2>6 DEF Kept
  <2>9. plan' = [plan EXCEPT !.drafts = drafts]
    BY <1>2, <2>1, <2>3, <2>4
  <2> QED
    BY <1>4, <2>7, <2>8, <2>9
<1>7. CASE ChoosePlace
  <2>1. PICK k \in 1..Len(D), p \in Places \cup {NoPlace} :
           plan' = [plan EXCEPT !.drafts[k].place = p]
    BY <1>7 DEF ChoosePlace
  <2>2. PICK d \in Draft : d = D[k]
    BY <1>2, <1>3
  <2>3. PICK e : e = [d EXCEPT !.place = p]
    OBVIOUS
  <2>4. e \in Draft /\ e.stop = d.stop
    BY <2>3 DEF Draft
  <2>5. PICK drafts : drafts = [D EXCEPT ![k] = e]
    OBVIOUS
  <2>6. /\ drafts \in [1..n -> Draft] /\ drafts[k] = e
        /\ \A i \in 1..n : i # k => drafts[i] = D[i]
    BY <1>2, <1>3, <2>4, <2>5
  <2>7. drafts \in Seq(Draft)
    BY <2>6
  <2>8. Kept(drafts) \subseteq Kept(D) \cup {Fresh}
    BY <1>3, <2>2, <2>4, <2>6 DEF Kept
  <2>9. plan' = [plan EXCEPT !.drafts = drafts]
    BY <1>1, <2>1, <2>2, <2>3, <2>5 DEF Plan
  <2> QED
    BY <1>4, <2>7, <2>8, <2>9
<1> QED
  BY <1>5, <1>6, <1>7

With(vs, s, w) == [vs EXCEPT ![s] = w]

(***************************************************************************)
(* One save changes into another, with what it means for its form.        *)
(***************************************************************************)
LEMMA SaveChanges ==
    ASSUME SavesFit(saves, RowsIn(stops)), NEW s \in SaveIds,
           NEW w \in Save \cup {NotYet, Ended}, IsRunning(w) => SaveFits(w, RowsIn(stops)),
           saves' = With(saves, s, w)
    PROVE  /\ SavesFit(saves', RowsIn(stops))
           /\ saves'[s] = w /\ \A r \in SaveIds : r # s => saves'[r] = saves[r]
           /\ \A r \in SaveIds : r # s => (r \in MineIn(saves') <=> r \in MineIn(saves))
           /\ s \in MineIn(saves') <=> IsRunning(w) /\ w.mine = TRUE
<1>1. saves'[s] = w /\ \A r \in SaveIds : r # s => saves'[r] = saves[r]
  BY DEF SavesFit, With
<1>2. saves' \in [SaveIds -> Save \cup {NotYet, Ended}]
  BY DEF SavesFit, With
<1> QED
  BY <1>1, <1>2 DEF SavesFit, MineIn

(***************************************************************************)
(* A form is submitted: no save of it was running.                        *)
(***************************************************************************)
LEMMA SubmitKeeps ==
    ASSUME TripsInv, SubmitTrip
    PROVE  TripsInv'
<1>1. /\ SavesFit(saves, RowsIn(stops)) /\ PlanFits(plan, RowsIn(stops)) /\ VisitFits(visit)
      /\ OfForm(plan.made, plan.failed, saves) /\ TablesFit(trips, stops)
  BY DEF TripsInv
<1>2. PICK s \in SaveIds, calls \in Scripts : Started(s, calls)
  BY DEF SubmitTrip
<1>3. FormOpen
  BY DEF SubmitTrip
<1> DEFINE save == [trip |-> visit.trip, calls |-> calls, mine |-> TRUE,
                    drafts |-> plan.drafts, before |-> LiveStops(visit.trip),
                    seen |-> Cached, left |-> {}, alone |-> TRUE]
<1>4. PICK v : v = save
  OBVIOUS
<1>5. /\ saves[s] = NotYet
      /\ \/ saves' = [r \in SaveIds |-> IF r # s THEN Accompanied(saves[r]) ELSE v]
         \/ saves' = [r \in SaveIds |-> IF r # s THEN Accompanied(saves[r]) ELSE Accompanied(v)]
  BY <1>2, <1>4 DEF Started
<1>6. /\ calls \in Seq(TripCall) /\ CallsFit(calls, plan.drafts)
      /\ AtCreate(calls) <=> visit.page = "new"
  BY <1>2, <1>3, ScriptsFit
<1>7. /\ visit.trip \in TripIds \cup {NoTrip}
      /\ (visit.trip = NoTrip) <=> visit.page = "new"
  <2>1. visit.page \in {"new", "edit"}
    BY <1>3 DEF FormOpen
  <2> QED
    BY <1>1, <2>1 DEF VisitFits
<1>8. /\ v \in Save /\ v.mine = TRUE /\ v.calls = calls /\ v.trip = visit.trip
      /\ v.drafts = plan.drafts
  <2>1. LiveStops(visit.trip) \in SUBSET StopIds /\ Cached \in SUBSET StopIds
    BY <1>3, GoneIs DEF LiveStops
  <2>2. plan.drafts \in Seq(Draft)
    BY <1>3, GoneIs
  <2> QED
    BY <1>4, <1>6, <1>7, <2>1, <2>2 DEF Save
<1>9. SaveFits(v, RowsIn(stops)) /\ IsRunning(v)
  BY <1>1, <1>6, <1>7, <1>8, TripsMarkers DEF SaveFits, PlanFits, IsRunning
<1>10. PICK w : w = saves'[s]
  OBVIOUS
<1>11. saves' = [r \in SaveIds |-> IF r # s THEN Accompanied(saves[r]) ELSE w]
       /\ (w = v \/ w = Accompanied(v))
  BY <1>5, <1>10
<1>12. /\ w \in Save \cup {NotYet, Ended} /\ SaveFits(w, RowsIn(stops)) /\ IsRunning(w)
       /\ w.mine = TRUE
  BY <1>8, <1>9, <1>11, AccompaniedFits
<1>13. ASSUME NEW r \in SaveIds, r # s
       PROVE  /\ saves'[r] \in Save \cup {NotYet, Ended}
              /\ IsRunning(saves'[r]) => SaveFits(saves'[r], RowsIn(stops))
              /\ r \in MineIn(saves') => r \in MineIn(saves)
  <2>1. /\ saves'[r] = Accompanied(saves[r]) /\ saves[r] \in Save \cup {NotYet, Ended}
        /\ IsRunning(saves[r]) => SaveFits(saves[r], RowsIn(stops))
    BY <1>1, <1>11, <1>13 DEF SavesFit
  <2> QED
    BY <2>1, AccompaniedFits DEF MineIn
<1>14. SavesFit(saves', RowsIn(stops))
  BY <1>11, <1>12, <1>13 DEF SavesFit
<1>15. MineIn(saves) = {}
  <2>1. ASSUME NEW r \in SaveIds, Running(r), saves[r].mine = TRUE PROVE FALSE
    BY <2>1 DEF SubmitTrip, RunningHere
  <2> QED
    BY <2>1 DEF MineIn, IsRunning, Running
<1>16. MineIn(saves') \subseteq {s}
  BY <1>13, <1>15 DEF MineIn
<1>17. OfForm(plan.made, plan.failed, saves')
  <2>1. plan.made <= plan.failed /\ plan.made \in Nat /\ plan.failed \in Nat
    BY <1>1, <1>15 DEF OfForm, PlanFits, Plan
  <2> QED
    BY <1>16, <2>1 DEF OfForm
<1> QED
  BY <1>14, <1>17 DEF SubmitTrip, TripsInv

(***************************************************************************)
(* The call that is served, and what the save is afterwards.              *)
(***************************************************************************)
LEMMA ServedFits ==
    ASSUME TripsInv, NEW s \in SaveIds, NEW t \in TripIds, Served(s, t)
    PROVE  /\ IsRunning(saves[s]) /\ SaveFits(saves[s], RowsIn(stops))
           /\ TablesFit(trips', stops') /\ RowsIn(stops) \subseteq RowsIn(stops')
           /\ saves[s].calls \in Seq(TripCall) /\ saves[s].calls # <<>>
           /\ Head(saves[s].calls) \in TripCall
<1>1. /\ SavesFit(saves, RowsIn(stops)) /\ TablesFit(trips, stops)
      /\ IsRunning(saves[s]) /\ saves[s].calls # <<>> /\ Effect(Head(saves[s].calls), t)
  BY DEF TripsInv, Served, Running, IsRunning
<1>2. PICK v : v = saves[s]
  OBVIOUS
<1>3. SaveFits(v, RowsIn(stops)) /\ v.calls \in Seq(TripCall)
  BY <1>1, <1>2 DEF SavesFit, SaveFits, Save
<1>4. /\ Head(v.calls) \in TripCall
      /\ Head(v.calls).op = "addStop" => Head(v.calls).place # NoPlace
  BY <1>1, <1>2, <1>3, TailFits DEF SaveFits
<1>5. TablesFit(trips', stops') /\ RowsIn(stops) \subseteq RowsIn(stops')
  BY <1>1, <1>2, <1>4, EffectFits
<1> QED
  BY <1>1, <1>2, <1>3, <1>4, <1>5

(***************************************************************************)
(* What the form counts of it.                                             *)
(***************************************************************************)
LEMMA CountedIs ==
    ASSUME TripsInv, NEW s \in SaveIds, IsRunning(saves[s]), saves[s].calls # <<>>
    PROVE  /\ Counted(s) \in Plan /\ Counted(s).drafts = plan.drafts
           /\ Counted(s).failed = plan.failed
           /\ s \notin MineIn(saves) => Counted(s) = plan
           /\ s \in MineIn(saves) => /\ saves[s].mine = TRUE
                                     /\ Counted(s).made <= plan.failed + 1
                                     /\ AtCreate(saves[s].calls) => plan.made <= plan.failed
<1>1. plan \in Plan /\ OfForm(plan.made, plan.failed, saves) /\ saves[s] \in Save
  BY DEF TripsInv, PlanFits, SavesFit, SaveFits
<1>2. plan.made \in Nat /\ plan.failed \in Nat /\ saves[s].mine \in BOOLEAN
  BY <1>1 DEF Plan, Save
<1>3. s \in MineIn(saves) <=> saves[s].mine = TRUE
  BY DEF MineIn
<1>4. s \in MineIn(saves) /\ AtCreate(saves[s].calls) => plan.made <= plan.failed
  BY <1>1 DEF OfForm
<1>5. CASE saves[s].mine = TRUE /\ Head(saves[s].calls).op = "create"
  <2>1. Counted(s) = [plan EXCEPT !.made = plan.made + 1]
    BY <1>5 DEF Counted
  <2>2. /\ Counted(s) \in Plan /\ Counted(s).drafts = plan.drafts
        /\ Counted(s).failed = plan.failed /\ Counted(s).made = plan.made + 1
    BY <1>1, <1>2, <2>1 DEF Plan
  <2>3. AtCreate(saves[s].calls)
    BY <1>5 DEF AtCreate
  <2> QED
    BY <1>2, <1>3, <1>4, <1>5, <2>2, <2>3
<1>6. CASE ~(saves[s].mine = TRUE /\ Head(saves[s].calls).op = "create")
  <2>1. Counted(s) = plan
    BY <1>2, <1>6 DEF Counted
  <2> QED
    BY <1>1, <1>2, <1>3, <1>4, <2>1 DEF OfForm
<1> QED
  BY <1>5, <1>6

(***************************************************************************)
(* A call is served and answered.                                          *)
(***************************************************************************)
LEMMA ServeKeeps ==
    ASSUME TripsInv, NEW s \in SaveIds, ServeCall(s)
    PROVE  TripsInv'
<1>1. PICK t \in TripIds :
         Served(s, t) /\ saves' = [saves EXCEPT ![s].trip = t, ![s].calls = Tail(@)]
  BY DEF ServeCall
<1>2. /\ IsRunning(saves[s]) /\ SaveFits(saves[s], RowsIn(stops))
      /\ TablesFit(trips', stops') /\ RowsIn(stops) \subseteq RowsIn(stops')
      /\ saves[s].calls \in Seq(TripCall) /\ saves[s].calls # <<>>
  BY <1>1, ServedFits
<1>3. SavesFit(saves, RowsIn(stops)) /\ OfForm(plan.made, plan.failed, saves)
      /\ PlanFits(plan, RowsIn(stops))
  BY DEF TripsInv
<1>4. PICK v \in Save : v = saves[s]
  BY <1>2 DEF SaveFits
<1>5. PICK rest : rest = Tail(v.calls)
  OBVIOUS
<1>6. rest \in Seq(TripCall) /\ CallsFit(rest, v.drafts) /\ ~AtCreate(rest)
  BY <1>2, <1>4, <1>5, TailFits DEF SaveFits
<1>7. PICK w : w = [v EXCEPT !.trip = t, !.calls = rest]
  OBVIOUS
<1>8. w \in Save /\ w.trip = t /\ w.calls = rest /\ w.drafts = v.drafts /\ w.mine = v.mine
  BY <1>6, <1>7 DEF Save
<1>9. saves' = With(saves, s, w)
  BY <1>1, <1>3, <1>4, <1>5, <1>7 DEF SavesFit, With
<1>10. SaveFits(w, RowsIn(stops)) /\ IsRunning(w)
  BY <1>2, <1>4, <1>6, <1>8, TripsAssumption, TripsMarkers DEF SaveFits, IsRunning
<1>11. /\ SavesFit(saves', RowsIn(stops)) /\ saves'[s] = w
       /\ \A r \in SaveIds : r # s => saves'[r] = saves[r]
       /\ \A r \in SaveIds : r # s => (r \in MineIn(saves') <=> r \in MineIn(saves))
       /\ s \in MineIn(saves') <=> w.mine = TRUE
  BY <1>3, <1>8, <1>9, <1>10, SaveChanges
<1>12. MineIn(saves') = MineIn(saves)
  BY <1>2, <1>4, <1>8, <1>11 DEF MineIn
<1>13. plan' = Counted(s)
  BY DEF ServeCall
<1>14. /\ plan' \in Plan /\ plan'.drafts = plan.drafts /\ plan'.failed = plan.failed
       /\ s \notin MineIn(saves) => plan' = plan
       /\ s \in MineIn(saves) => plan'.made <= plan.failed + 1
  BY <1>2, <1>13, CountedIs
<1>15. PlanFits(plan', RowsIn(stops))
  BY <1>3, <1>14 DEF PlanFits
<1>16. OfForm(plan'.made, plan'.failed, saves')
  <2>1. CASE s \in MineIn(saves)
    BY <1>3, <1>6, <1>8, <1>11, <1>12, <1>14, <2>1 DEF OfForm
  <2>2. CASE s \notin MineIn(saves)
    BY <1>3, <1>11, <1>12, <1>14, <2>2 DEF OfForm, MineIn
  <2> QED
    BY <2>1, <2>2
<1>17. /\ PlanFits(plan', RowsIn(stops')) /\ SavesFit(saves', RowsIn(stops'))
       /\ KnownFits(known, RowsIn(stops'))
  BY <1>2, <1>11, <1>15, RowsGrow DEF TripsInv
<1> QED
  BY <1>2, <1>16, <1>17 DEF ServeCall, TripsInv

(***************************************************************************)
(* A deletion is answered that was not made.                               *)
(***************************************************************************)
LEMMA LeaveKeeps ==
    ASSUME TripsInv, NEW s \in SaveIds, LeaveStop(s)
    PROVE  TripsInv'
<1>1. SavesFit(saves, RowsIn(stops)) /\ OfForm(plan.made, plan.failed, saves)
  BY DEF TripsInv
<1>2. PICK v \in Save : v = saves[s] /\ IsRunning(v) /\ SaveFits(v, RowsIn(stops))
  BY <1>1 DEF LeaveStop, Running, IsRunning, SavesFit, SaveFits
<1>3. v.calls \in Seq(TripCall) /\ v.calls # <<>> /\ ~AtCreate(v.calls)
  BY <1>2 DEF LeaveStop, Save, AtCreate
<1>4. PICK rest, left : /\ rest = Tail(v.calls) /\ left \in SUBSET StopIds
                        /\ saves' = [saves EXCEPT ![s].calls = rest, ![s].left = left]
  BY <1>2 DEF LeaveStop, LiveStops, Save
<1>5. rest \in Seq(TripCall) /\ CallsFit(rest, v.drafts) /\ ~AtCreate(rest)
  BY <1>2, <1>3, <1>4, TailFits DEF SaveFits
<1>6. PICK w : w = [v EXCEPT !.calls = rest, !.left = left]
  OBVIOUS
<1>7. /\ w \in Save /\ w.trip = v.trip /\ w.calls = rest /\ w.drafts = v.drafts
      /\ w.mine = v.mine
  BY <1>4, <1>5, <1>6 DEF Save
<1>8. saves' = With(saves, s, w)
  BY <1>1, <1>2, <1>4, <1>6 DEF SavesFit, With
<1>9. SaveFits(w, RowsIn(stops)) /\ IsRunning(w)
  BY <1>2, <1>3, <1>5, <1>7, TripsMarkers DEF SaveFits, IsRunning
<1>10. /\ SavesFit(saves', RowsIn(stops)) /\ saves'[s] = w
       /\ \A r \in SaveIds : r # s => saves'[r] = saves[r]
       /\ \A r \in SaveIds : r # s => (r \in MineIn(saves') <=> r \in MineIn(saves))
       /\ s \in MineIn(saves') <=> w.mine = TRUE
  BY <1>1, <1>7, <1>8, <1>9, SaveChanges
<1>11. MineIn(saves') = MineIn(saves)
  BY <1>2, <1>7, <1>10 DEF MineIn
<1>12. OfForm(plan.made, plan.failed, saves')
  <2>1. CASE s \in MineIn(saves)
    BY <1>1, <1>5, <1>7, <1>10, <1>11, <2>1 DEF OfForm
  <2>2. CASE s \notin MineIn(saves)
    BY <1>1, <1>10, <1>11, <2>2 DEF OfForm, MineIn
  <2> QED
    BY <2>1, <2>2
<1>13. tripFaults' \in 0..MaxFaults
  BY TripsAssumption DEF LeaveStop, TripsInv
<1> QED
  BY <1>10, <1>12, <1>13 DEF LeaveStop, TripsInv

(***************************************************************************)
(* A save stops at a call that is refused, or lost on either way.         *)
(***************************************************************************)
LEMMA StopKeeps ==
    ASSUME TripsInv, NEW s \in SaveIds, CallRefused(s) \/ CallLost(s) \/ AnswerLost(s)
    PROVE  TripsInv'
<1>1. SavesFit(saves, RowsIn(stops)) /\ OfForm(plan.made, plan.failed, saves)
      /\ PlanFits(plan, RowsIn(stops)) /\ TablesFit(trips, stops)
  BY DEF TripsInv
<1>2. IsRunning(saves[s]) /\ saves[s].calls # <<>>
  BY DEF CallRefused, CallLost, AnswerLost, Served, Running, IsRunning
<1>3. TablesFit(trips', stops') /\ RowsIn(stops) \subseteq RowsIn(stops')
  <2>1. CASE UNCHANGED <<trips, stops>>
    BY <1>1, <2>1
  <2>2. CASE AnswerLost(s)
    BY <2>2, ServedFits DEF AnswerLost
  <2> QED
    BY <2>1, <2>2 DEF CallRefused, CallLost
<1>4. saves' = With(saves, s, Ended)
  BY DEF CallRefused, CallLost, AnswerLost, SaveStops, With
<1>5. /\ SavesFit(saves', RowsIn(stops)) /\ saves'[s] = Ended
      /\ \A r \in SaveIds : r # s => saves'[r] = saves[r]
      /\ \A r \in SaveIds : r # s => (r \in MineIn(saves') <=> r \in MineIn(saves))
      /\ s \notin MineIn(saves')
  BY <1>1, <1>4, SaveChanges DEF IsRunning
<1>6. PICK f : /\ f = plan \/ f = Counted(s)
               /\ plan' = IF saves[s].mine THEN [f EXCEPT !.failed = f.failed + 1] ELSE plan
  BY DEF CallRefused, CallLost, AnswerLost, SaveStops
<1>7. plan \in Plan /\ plan.made \in Nat /\ plan.failed \in Nat /\ saves[s].mine \in BOOLEAN
  BY <1>1, <1>2 DEF PlanFits, Plan, SavesFit, SaveFits, Save
<1>8. /\ f \in Plan /\ f.drafts = plan.drafts /\ f.failed = plan.failed
      /\ s \in MineIn(saves) => f.made <= plan.failed + 1
  BY <1>1, <1>2, <1>6, <1>7, CountedIs DEF OfForm
<1>9. PlanFits(plan', RowsIn(stops)) /\ OfForm(plan'.made, plan'.failed, saves')
  <2>1. CASE saves[s].mine = TRUE
    <3>1. plan' = [f EXCEPT !.failed = f.failed + 1]
      BY <1>6, <2>1
    <3>2. /\ plan' \in Plan /\ plan'.drafts = plan.drafts /\ plan'.made = f.made
          /\ plan'.failed = plan.failed + 1
      BY <1>7, <1>8, <3>1 DEF Plan
    <3>3. s \in MineIn(saves)
      BY <1>2, <2>1 DEF MineIn
    <3>4. plan'.made <= plan'.failed /\ plan'.made \in Nat /\ plan'.failed \in Nat
      BY <1>8, <3>2, <3>3 DEF Plan
    <3>5. MineIn(saves') = {}
      BY <1>1, <1>5, <3>3 DEF OfForm, MineIn
    <3> QED
      BY <1>1, <3>2, <3>4, <3>5 DEF PlanFits, OfForm
  <2>2. CASE saves[s].mine = FALSE
    <3>1. plan' = plan
      BY <1>6, <2>2
    <3>2. MineIn(saves') = MineIn(saves)
      BY <1>5, <2>2 DEF MineIn
    <3> QED
      BY <1>1, <1>5, <3>1, <3>2 DEF OfForm, MineIn
  <2> QED
    BY <1>7, <2>1, <2>2
<1>10. /\ PlanFits(plan', RowsIn(stops')) /\ SavesFit(saves', RowsIn(stops'))
       /\ KnownFits(known, RowsIn(stops'))
  BY <1>3, <1>5, <1>9, RowsGrow DEF TripsInv
<1>11. /\ UNCHANGED <<sortable, visit, known, erase>>
       /\ tripFaults' \in 0..MaxFaults
  <2>1. tripFaults \in 0..MaxFaults /\ MaxFaults \in Nat
    BY TripsAssumption DEF TripsInv
  <2> QED
    BY <2>1 DEF CallRefused, CallLost, AnswerLost
<1> QED
  BY <1>3, <1>9, <1>10, <1>11 DEF TripsInv

(***************************************************************************)
(* The save is over, and the visitor is taken to its itinerary.           *)
(***************************************************************************)
LEMMA EndKeeps ==
    ASSUME TripsInv, NEW s \in SaveIds, EndSave(s)
    PROVE  TripsInv'
<1>1. /\ SavesFit(saves, RowsIn(stops)) /\ TablesFit(trips, stops)
      /\ erase \in TripIds \cup {NotYet, Ended}
  BY DEF TripsInv
<1>2. IsRunning(saves[s]) /\ saves[s].calls = <<>>
  BY DEF EndSave, Running, IsRunning
<1>3. saves[s].trip \in TripIds
  <2>1. SaveFits(saves[s], RowsIn(stops))
    BY <1>1, <1>2 DEF SavesFit
  <2>2. ~AtCreate(saves[s].calls)
    BY <1>2 DEF AtCreate
  <2> QED
    BY <2>1, <2>2 DEF SaveFits, Save
<1>4. GoTo("detail", saves[s].trip)
  BY DEF EndSave
<1>5. /\ VisitFits(visit') /\ PlanFits(plan', RowsIn(stops))
      /\ plan'.made = 0 /\ plan'.failed = 0
  BY <1>3, <1>4, GoToFits, TripsAssumption
<1>6. PICK ws : ws = [r \in SaveIds |-> Disowned(saves[r])]
  OBVIOUS
<1>7. SavesFit(ws, RowsIn(stops)) /\ MineIn(ws) = {}
  BY <1>1, <1>6, DisownedFit
<1>8. saves' = [r \in SaveIds |-> IF r = s THEN Ended ELSE ws[r]]
  BY <1>6 DEF EndSave
<1>9. SavesFit(saves', RowsIn(stops)) /\ MineIn(saves') = {}
  <2>1. ~IsRunning(Ended)
    BY DEF IsRunning
  <2>2. SavesFit(saves', RowsIn(stops))
    BY <1>7, <1>8, <2>1 DEF SavesFit
  <2>3. MineIn(saves') = {}
    BY <1>7, <1>8, <2>1 DEF MineIn
  <2> QED
    BY <2>2, <2>3
<1>10. UNCHANGED <<trips, stops, sortable, known, erase, tripFaults>>
  BY DEF EndSave
<1> QED
  BY <1>1, <1>5, <1>9, <1>10, MovedKeeps

(***************************************************************************)
(* A deletion is asked for, and one that fails, served or not.            *)
(***************************************************************************)
LEMMA ErasesKeep ==
    ASSUME TripsInv, ConfirmErase \/ EraseFails
    PROVE  TripsInv'
<1>1. /\ TablesFit(trips, stops) /\ VisitFits(visit) /\ erase \in TripIds \cup {NotYet, Ended}
      /\ tripFaults \in 0..MaxFaults /\ MaxFaults \in Nat
  BY TripsAssumption DEF TripsInv
<1>2. CASE ConfirmErase
  <2>1. erase' \in TripIds
    BY <1>1, <1>2 DEF ConfirmErase, VisitFits
  <2> QED
    BY <1>2, <2>1 DEF ConfirmErase, TripsInv
<1>3. CASE EraseFails
  <2>1. TablesFit(trips', stops') /\ RowsIn(stops) \subseteq RowsIn(stops')
    <3>1. CASE UNCHANGED <<trips, stops>>
      BY <1>1, <3>1
    <3>2. CASE Erased(erase) /\ erase \in TripIds
      BY <1>1, <3>2, ErasedFits
    <3> QED
      BY <1>3, <3>1, <3>2 DEF EraseFails
  <2>2. /\ PlanFits(plan, RowsIn(stops')) /\ SavesFit(saves, RowsIn(stops'))
        /\ KnownFits(known, RowsIn(stops'))
    BY <2>1, RowsGrow DEF TripsInv
  <2>3. tripFaults' \in 0..MaxFaults
    BY <1>1, <1>3 DEF EraseFails
  <2> QED
    BY <1>3, <2>1, <2>2, <2>3 DEF EraseFails, TripsInv
<1> QED
  BY <1>2, <1>3

(***************************************************************************)
(* Every step keeps the first invariant.                                   *)
(***************************************************************************)
LEMMA TripsKeep == TripsInv /\ [TripsNext]_tripVars => TripsInv'
<1> SUFFICES ASSUME TripsInv, [TripsNext]_tripVars PROVE TripsInv'
  OBVIOUS
<1>1. CASE UNCHANGED tripVars
  BY <1>1 DEF tripVars, TripsInv
<1>2. ASSUME NEW s \in SaveIds, SaveStep(s) PROVE TripsInv'
  BY <1>2, ServeKeeps, LeaveKeeps, StopKeeps, EndKeeps DEF SaveStep
<1> QED
  BY <1>1, <1>2, PagesKeep, LoadKeeps, DraftsKeep, SubmitKeeps, ErasesKeep DEF TripsNext

(***************************************************************************)
(* So it always holds.                                                     *)
(***************************************************************************)
LEMMA TripsAlways == TripsSpec => []TripsInv
BY TripsStart, TripsKeep, PTL DEF TripsSpec

(***************************************************************************)
(* The itineraries, their stops, the cache, the forms and the saves keep  *)
(* their types, and a save knows its itinerary from its creation on.      *)
(***************************************************************************)
THEOREM TripsTypeCorrect == TripsSpec => []TripsTypeOK
<1>1. TripsInv => TripsTypeOK
  <2> SUFFICES ASSUME TripsInv PROVE TripsTypeOK
    OBVIOUS
  <2>1. \A s \in SaveIds : Running(s) /\ saves[s].trip = NoTrip =>
           saves[s].calls # <<>> /\ Head(saves[s].calls).op = "create"
    BY DEF TripsInv, SavesFit, SaveFits, IsRunning, Running, AtCreate
  <2> QED
    BY <2>1 DEF TripsInv, TripsTypeOK, TablesFit, VisitFits, KnownFits, PlanFits, SavesFit
<1> QED
  BY TripsAlways, <1>1, PTL

(***************************************************************************)
(* A form makes one itinerary, and one more at most for each attempt that *)
(* failed, whatever is lost or deleted meanwhile.                          *)
(***************************************************************************)
THEOREM FormsMakeOneTrip == TripsSpec => []OneTripPerForm
<1>1. TripsInv => OneTripPerForm
  BY DEF TripsInv, OfForm, PlanFits, Plan, OneTripPerForm
<1> QED
  BY TripsAlways, <1>1, PTL


(***************************************************************************)
(* A call that is served leaves the stops that the form of its save kept. *)
(***************************************************************************)
LEMMA ServedKeepsKept ==
    ASSUME TripsInv, NEW s \in SaveIds, NEW t \in TripIds, Served(s, t),
           NEW i \in StopIds, i \in Kept(saves[s].drafts)
    PROVE  stops'[i] = stops[i]
<1>1. PICK v : v = saves[s]
  OBVIOUS
<1>2. /\ SaveFits(v, RowsIn(stops)) /\ v.calls # <<>>
      /\ stops \in [StopIds -> Stop \cup {NotYet}]
  BY <1>1, ServedFits DEF TripsInv, TablesFit
<1>3. PICK c : c = Head(v.calls)
  OBVIOUS
<1>4. Effect(c, t) /\ (c.op = "deleteStop" => c.stop \notin Kept(v.drafts))
  BY <1>1, <1>2, <1>3, TailFits DEF Served, SaveFits, Save
<1>5. i \in Kept(v.drafts) /\ stops[i] # NotYet
  <2>1. i # Fresh
    BY DEF StopIds, Fresh
  <2> QED
    BY <1>1, <1>2, <2>1 DEF SaveFits, RowsIn
<1>6. CASE stops' = stops
  BY <1>6
<1>7. CASE c.op = "deleteStop" /\ stops' = [stops EXCEPT ![c.stop].live = FALSE]
  <2>1. c.stop # i
    BY <1>4, <1>5, <1>7
  <2> QED
    BY <1>2, <1>7, <2>1
<1>8. ASSUME NEW k \in StopIds, stops[k] = NotYet, NEW e, stops' = [stops EXCEPT ![k] = e]
      PROVE  stops'[i] = stops[i]
  BY <1>2, <1>5, <1>8
<1> QED
  BY <1>4, <1>6, <1>7, <1>8 DEF Effect

(***************************************************************************)
(* A save deletes only what was removed from its form, or never in it.    *)
(***************************************************************************)
THEOREM SavesDeleteOnlyRemoved == TripsSpec => DeletesOnlyRemoved
<1> DEFINE Keeps == \A i \in StopIds, s \in SaveIds :
                       /\ Running(s) /\ saves'[s] # saves[s] /\ erase' = erase
                       /\ i \in Kept(saves[s].drafts)
                       => stops'[i] = stops[i]
<1>1. TripsInv /\ TripsNext => Keeps
  <2> SUFFICES ASSUME TripsInv, TripsNext, NEW i \in StopIds, NEW s \in SaveIds,
                      Running(s), saves'[s] # saves[s], erase' = erase,
                      i \in Kept(saves[s].drafts)
               PROVE  stops'[i] = stops[i]
    OBVIOUS
  <2>1. ASSUME NEW r \in SaveIds, ServeCall(r) \/ AnswerLost(r)
        PROVE  stops'[i] = stops[i]
    <3>1. saves \in [SaveIds -> Save \cup {NotYet, Ended}]
      BY DEF TripsInv, SavesFit
    <3>2. PICK w : saves' = [saves EXCEPT ![r] = w]
      <4>1. CASE ServeCall(r)
        <5>1. PICK t : saves' = [saves EXCEPT ![r].trip = t, ![r].calls = Tail(@)]
          BY <4>1 DEF ServeCall
        <5>2. saves' = [saves EXCEPT ![r] = [saves[r] EXCEPT !.trip = t, !.calls = Tail(saves[r].calls)]]
          BY <3>1, <5>1
        <5> QED
          BY <5>2
      <4>2. CASE AnswerLost(r)
        BY <4>2 DEF AnswerLost, SaveStops
      <4> QED
        BY <2>1, <4>1, <4>2
    <3>3. r = s
      BY <3>1, <3>2
    <3>4. PICK t \in TripIds : Served(s, t)
      BY <2>1, <3>3 DEF ServeCall, AnswerLost
    <3> QED
      BY <3>4, ServedKeepsKept
  <2>2. CASE EraseTrip \/ EraseFails
    BY <2>2, TripsAssumption DEF EraseTrip, EraseFails
  <2>3. CASE UNCHANGED stops
    BY <2>3
  <2> QED
    BY <2>1, <2>2, <2>3
    DEF TripsNext, OpenNewTrip, OpenTrip, OpenEditTrip, LeaveTrip, LoadTrip, AddDraft,
        RemoveDraft, ChoosePlace, SubmitTrip, ConfirmErase, SaveStep, LeaveStop, CallRefused,
        CallLost, EndSave
<1>2. TripsInv /\ [TripsNext]_tripVars => [Keeps]_tripVars
  BY <1>1
<1> QED
  BY <1>2, TripsAlways, PTL DEF TripsSpec, DeletesOnlyRemoved

-----------------------------------------------------------------------------
(* A save that runs alone. *)

LiveOf(t, tbl) == {i \in StopIds : tbl[i] # NotYet /\ tbl[i].trip = t /\ tbl[i].live}

At(tbl, S, p, o) == {i \in S : tbl[i].place = p /\ tbl[i].order = o}
Made(v, tbl, p, o) == At(tbl, LiveOf(v.trip, tbl) \ v.before, p, o)

ToAdd(calls, p, o) ==
    {i \in DOMAIN calls : calls[i].op = "addStop" /\ calls[i].place = p /\ calls[i].order = o}
ToDelete(calls) == {calls[i].stop : i \in {j \in DOMAIN calls : calls[j].op = "deleteStop"}}
Once(calls) ==
    \A i, j \in DOMAIN calls : /\ calls[i].op = "deleteStop" /\ calls[j].op = "deleteStop"
                               /\ calls[i].stop = calls[j].stop
                               => i = j

\* What it has still to delete, each once: stops that were removed, and that
\* it was not told are deleted.
DeletesFit(v) ==
    /\ ToDelete(v.calls) \subseteq Gone(v.drafts, v.seen) /\ Once(v.calls)
    /\ v.left \cap ToDelete(v.calls) = {}

\* What it deleted so far.
Deleted(v) == (Gone(v.drafts, v.seen) \ ToDelete(v.calls)) \ v.left

\* The stops there were: those that are gone are the ones deleted so far.
OldFit(v, ts, tbl) ==
    /\ v.before \subseteq RowsIn(tbl) /\ v.seen \subseteq RowsIn(tbl)
    /\ \A i \in v.before : tbl[i].trip = v.trip
    /\ LiveOf(v.trip, tbl) \cap v.seen \subseteq v.before
    /\ v.trip # NoTrip /\ ts[v.trip] = "live" =>
          \A i \in v.before :
              i \in LiveOf(v.trip, tbl) <=> i \notin Deleted(v)

\* The stops it made, and the ones it has still to make, are those wanted.
NewFit(v, ts, tbl) ==
    v.trip = NoTrip \/ ts[v.trip] = "live" =>
        \A p \in Places, o \in Nat :
            Cardinality(Made(v, tbl, p, o)) + Cardinality(ToAdd(v.calls, p, o))
                = Wanted(v.drafts, p, o)

AloneFits(v, ts, tbl) == DeletesFit(v) /\ OldFit(v, ts, tbl) /\ NewFit(v, ts, tbl)

IsAlone(v) == IsRunning(v) /\ v.alone = TRUE

AloneInv ==
    \A s \in SaveIds : IsAlone(saves[s]) =>
        /\ \A r \in SaveIds : IsRunning(saves[r]) => r = s
        /\ AloneFits(saves[s], trips, stops)

(***************************************************************************)
(* Once the first call is served, there is one stop less to add or none,  *)
(***************************************************************************)
LEMMA TailAdds ==
    ASSUME NEW calls \in Seq(TripCall), calls # <<>>, NEW p, NEW o
    PROVE  /\ Cardinality(ToAdd(calls, p, o)) \in Nat
           /\ Cardinality(ToAdd(Tail(calls), p, o)) \in Nat
           /\ Head(calls).op = "addStop" /\ Head(calls).place = p /\ Head(calls).order = o =>
                 Cardinality(ToAdd(calls, p, o)) = Cardinality(ToAdd(Tail(calls), p, o)) + 1
           /\ ~(Head(calls).op = "addStop" /\ Head(calls).place = p /\ Head(calls).order = o) =>
                 Cardinality(ToAdd(calls, p, o)) = Cardinality(ToAdd(Tail(calls), p, o))
<1>1. PICK n \in Nat : n = Len(calls)
  BY LenProperties
<1>2. n > 0 /\ Head(calls) = calls[1] /\ DOMAIN calls = 1..n
  BY <1>1, LenProperties, EmptySeq
<1>3. PICK rest : rest = Tail(calls)
  OBVIOUS
<1>4. /\ rest \in Seq(TripCall) /\ Len(rest) = n - 1
      /\ \A i \in 1..(n - 1) : rest[i] = calls[i + 1]
  BY <1>1, <1>3, HeadTailProperties
<1>5. DOMAIN rest = 1..(n - 1)
  BY <1>4, LenProperties
<1> DEFINE S == ToAdd(rest, p, o)
           A == ToAdd(calls, p, o)
           T == A \ {1}
<1>6. /\ IsFiniteSet(S) /\ Cardinality(S) \in Nat /\ IsFiniteSet(A) /\ Cardinality(A) \in Nat
  <2>1. S \in SUBSET DOMAIN rest /\ A \in SUBSET DOMAIN calls
    BY DEF ToAdd
  <2> QED
    BY <1>4, <2>1, PositionsFinite
<1>7. PICK h : h = [i \in S |-> i + 1]
  OBVIOUS
<1>8. \A i \in S : i \in 1..(n - 1) /\ i + 1 \in T
  <2> SUFFICES ASSUME NEW i \in S PROVE i \in 1..(n - 1) /\ i + 1 \in T
    OBVIOUS
  <2>1. i \in 1..(n - 1) /\ rest[i] = calls[i + 1]
    BY <1>4, <1>5 DEF ToAdd
  <2>2. i + 1 \in DOMAIN calls /\ i + 1 # 1
    BY <1>2, <2>1
  <2> QED
    BY <2>1, <2>2 DEF ToAdd
<1>9. h \in [S -> T] /\ \A a, b \in S : h[a] = h[b] => a = b
  BY <1>7, <1>8
<1>10. \A b \in T : \E a \in S : h[a] = b
  <2> SUFFICES ASSUME NEW b \in T PROVE \E a \in S : h[a] = b
    OBVIOUS
  <2>1. b \in 1..n /\ b # 1 /\ calls[b].op = "addStop" /\ calls[b].place = p /\ calls[b].order = o
    BY <1>2 DEF ToAdd
  <2>2. PICK a \in 1..(n - 1) : b = a + 1
    <3>1. b - 1 \in 1..(n - 1) /\ b = (b - 1) + 1
      BY <1>1, <2>1
    <3> QED
      BY <3>1
  <2>3. a \in S
    BY <1>4, <1>5, <2>1, <2>2 DEF ToAdd
  <2> QED
    BY <1>7, <2>2, <2>3
<1>11. Cardinality(T) = Cardinality(S)
  <2> HIDE DEF S, T
  <2> QED
    BY <1>6, <1>9, <1>10, SameCount
<1>12. 1 \in A <=> Head(calls).op = "addStop" /\ Head(calls).place = p /\ Head(calls).order = o
  BY <1>2 DEF ToAdd
<1>13. Cardinality(A) = IF 1 \in A THEN Cardinality(T) + 1 ELSE Cardinality(T)
  <2> HIDE DEF A
  <2>1. CASE 1 \in A
    <3>1. Cardinality(A \ {1}) = Cardinality(A) - 1
      BY <1>6, <2>1, FS_RemoveElement
    <3> QED
      BY <1>6, <2>1, <3>1
  <2>2. CASE 1 \notin A
    <3>1. A \ {1} = A
      BY <2>2
    <3> QED
      BY <2>2, <3>1
  <2> QED
    BY <2>1, <2>2
<1> QED
  BY <1>3, <1>6, <1>11, <1>12, <1>13

(***************************************************************************)
(* and one less to delete or none.                                         *)
(***************************************************************************)
LEMMA TailDeletes ==
    ASSUME NEW calls \in Seq(TripCall), calls # <<>>, Once(calls)
    PROVE  /\ Once(Tail(calls))
           /\ Head(calls).op = "deleteStop" =>
                 ToDelete(Tail(calls)) = ToDelete(calls) \ {Head(calls).stop}
                 /\ Head(calls).stop \in ToDelete(calls)
           /\ Head(calls).op # "deleteStop" => ToDelete(Tail(calls)) = ToDelete(calls)
<1>1. PICK n \in Nat : n = Len(calls)
  BY LenProperties
<1>2. n > 0 /\ Head(calls) = calls[1] /\ DOMAIN calls = 1..n
  BY <1>1, LenProperties, EmptySeq
<1>3. PICK rest : rest = Tail(calls)
  OBVIOUS
<1>4. /\ rest \in Seq(TripCall) /\ Len(rest) = n - 1
      /\ \A i \in 1..(n - 1) : rest[i] = calls[i + 1]
  BY <1>1, <1>3, HeadTailProperties
<1>5. DOMAIN rest = 1..(n - 1)
  BY <1>4, LenProperties
<1>6. \A i \in 1..(n - 1) : i + 1 \in 1..n /\ i + 1 # 1 /\ rest[i] = calls[i + 1]
  BY <1>4
<1>7. \A k \in 1..n : k = 1 \/ \E i \in 1..(n - 1) : k = i + 1 /\ rest[i] = calls[k]
  <2> SUFFICES ASSUME NEW k \in 1..n, k # 1
               PROVE  \E i \in 1..(n - 1) : k = i + 1 /\ rest[i] = calls[k]
    OBVIOUS
  <2>1. k - 1 \in 1..(n - 1) /\ k = (k - 1) + 1
    OBVIOUS
  <2> QED
    BY <1>6, <2>1
<1>8. Once(rest)
  <2> SUFFICES ASSUME NEW i \in 1..(n - 1), NEW j \in 1..(n - 1),
                      rest[i].op = "deleteStop", rest[j].op = "deleteStop",
                      rest[i].stop = rest[j].stop
               PROVE  i = j
    BY <1>5 DEF Once
  <2>1. i + 1 = j + 1
    BY <1>2, <1>6 DEF Once
  <2> QED
    BY <2>1
<1>9. ToDelete(rest) \subseteq ToDelete(calls)
  BY <1>2, <1>5, <1>6 DEF ToDelete
<1>10. ASSUME NEW x \in ToDelete(calls)
       PROVE  \/ x \in ToDelete(rest)
              \/ Head(calls).op = "deleteStop" /\ x = Head(calls).stop
  <2>1. PICK k \in 1..n : calls[k].op = "deleteStop" /\ x = calls[k].stop
    BY <1>2 DEF ToDelete
  <2>2. CASE k = 1
    BY <1>2, <2>1, <2>2
  <2>3. CASE k # 1
    <3>1. PICK i \in 1..(n - 1) : k = i + 1 /\ rest[i] = calls[k]
      BY <1>7, <2>3
    <3> QED
      BY <1>5, <2>1, <3>1 DEF ToDelete
  <2> QED
    BY <2>2, <2>3
<1>11. Head(calls).op = "deleteStop" => Head(calls).stop \notin ToDelete(rest)
  <2> SUFFICES ASSUME Head(calls).op = "deleteStop", Head(calls).stop \in ToDelete(rest)
               PROVE  FALSE
    OBVIOUS
  <2>1. PICK i \in 1..(n - 1) : rest[i].op = "deleteStop" /\ rest[i].stop = Head(calls).stop
    BY <1>5 DEF ToDelete
  <2>2. i + 1 = 1
    BY <1>2, <1>6, <2>1 DEF Once
  <2> QED
    BY <1>6, <2>2
<1>12. Head(calls).op = "deleteStop" => Head(calls).stop \in ToDelete(calls)
  BY <1>2 DEF ToDelete
<1> QED
  BY <1>3, <1>8, <1>9, <1>10, <1>11, <1>12

\* Save v has its call c served for itinerary t, and is w afterwards.
Serves(v, w, t, c) ==
    /\ v \in Save /\ v.calls # <<>> /\ c = Head(v.calls)
    /\ v.trip \in {NoTrip, t} /\ (v.trip = NoTrip <=> c.op = "create")
    /\ w.trip = t /\ w.calls = Tail(v.calls)
    /\ w.drafts = v.drafts /\ w.before = v.before /\ w.seen = v.seen /\ w.left = v.left

\* What it has to add before and after it.
AddsServed(v, w, c) ==
    \A p, o : /\ Cardinality(ToAdd(v.calls, p, o)) \in Nat
                 /\ Cardinality(ToAdd(w.calls, p, o)) \in Nat
                 /\ Cardinality(ToAdd(v.calls, p, o)) =
                       IF c.op = "addStop" /\ c.place = p /\ c.order = o
                       THEN Cardinality(ToAdd(w.calls, p, o)) + 1
                       ELSE Cardinality(ToAdd(w.calls, p, o))

(***************************************************************************)
(* What there is to add and to delete before and after it.                *)
(***************************************************************************)
LEMMA ServesLeaves ==
    ASSUME NEW v, NEW w, NEW t \in TripIds, NEW c, Serves(v, w, t, c), DeletesFit(v)
    PROVE  /\ c \in TripCall /\ DeletesFit(w)
           /\ c.op = "deleteStop" => /\ ToDelete(w.calls) = ToDelete(v.calls) \ {c.stop}
                                     /\ c.stop \in ToDelete(v.calls)
           /\ c.op # "deleteStop" => ToDelete(w.calls) = ToDelete(v.calls)
           /\ AddsServed(v, w, c)
<1>1. PICK calls \in Seq(TripCall) : calls = v.calls /\ calls # <<>>
  BY DEF Serves, Save
<1>2. c = Head(calls) /\ w.calls = Tail(calls) /\ Once(calls)
  BY <1>1 DEF Serves, DeletesFit
<1>3. c \in TripCall
  BY <1>1, <1>2, HeadTailProperties
<1>4. /\ Once(w.calls)
      /\ c.op = "deleteStop" => /\ ToDelete(w.calls) = ToDelete(v.calls) \ {c.stop}
                                /\ c.stop \in ToDelete(v.calls)
      /\ c.op # "deleteStop" => ToDelete(w.calls) = ToDelete(v.calls)
  BY <1>1, <1>2, TailDeletes
<1>5. DeletesFit(w)
  BY <1>4 DEF DeletesFit, Serves
<1>6. ASSUME NEW p, NEW o
      PROVE  /\ Cardinality(ToAdd(v.calls, p, o)) \in Nat
             /\ Cardinality(ToAdd(w.calls, p, o)) \in Nat
             /\ Cardinality(ToAdd(v.calls, p, o)) =
                   IF c.op = "addStop" /\ c.place = p /\ c.order = o
                   THEN Cardinality(ToAdd(w.calls, p, o)) + 1
                   ELSE Cardinality(ToAdd(w.calls, p, o))
  BY <1>1, <1>2, TailAdds
<1> QED
  BY <1>3, <1>4, <1>5, <1>6 DEF AddsServed

(***************************************************************************)
(* The creation: an itinerary that was not there has no stops.            *)
(***************************************************************************)
LEMMA AloneCreates ==
    ASSUME TablesFit(trips, stops), NEW t \in TripIds, NEW v, NEW w, NEW c,
           Serves(v, w, t, c), Effect(c, t), AloneFits(v, trips, stops), c.op = "create"
    PROVE  AloneFits(w, trips', stops')
<1>1. /\ trips[t] = "unused" /\ trips' = [trips EXCEPT ![t] = "live"] /\ stops' = stops
  BY DEF Effect
<1>2. v.trip = NoTrip /\ w.trip = t /\ NoTrip \notin TripIds
  BY TripsAssumption DEF Serves
<1>3. \A i \in RowsIn(stops) : stops[i].trip \in TripIds /\ stops[i].trip # t
  BY <1>1 DEF TablesFit, RowsIn, Stop
<1>4. LiveOf(t, stops) = {} /\ LiveOf(NoTrip, stops) = {} /\ v.before = {}
  BY <1>2, <1>3 DEF LiveOf, RowsIn, AloneFits, OldFit
<1>5. DeletesFit(w)
  BY ServesLeaves DEF AloneFits
<1>6. OldFit(w, trips', stops')
  BY <1>1, <1>2, <1>4 DEF AloneFits, OldFit, Serves
<1>7. NewFit(w, trips', stops')
  <2> SUFFICES ASSUME NEW p \in Places, NEW o \in Nat
               PROVE  Cardinality(Made(w, stops, p, o)) + Cardinality(ToAdd(w.calls, p, o))
                         = Wanted(w.drafts, p, o)
    BY <1>1 DEF NewFit
  <2>1. Made(w, stops, p, o) = Made(v, stops, p, o)
    BY <1>2, <1>4 DEF Made, At
  <2>2. Cardinality(ToAdd(w.calls, p, o)) = Cardinality(ToAdd(v.calls, p, o))
    <3>1. AddsServed(v, w, c)
      BY ServesLeaves DEF AloneFits
    <3> QED
      BY <3>1 DEF AddsServed
  <2>3. Cardinality(Made(v, stops, p, o)) + Cardinality(ToAdd(v.calls, p, o))
           = Wanted(v.drafts, p, o)
    BY <1>2 DEF AloneFits, NewFit
  <2> QED
    BY <2>1, <2>2, <2>3 DEF Serves
<1> QED
  BY <1>5, <1>6, <1>7 DEF AloneFits

(***************************************************************************)
(* The update: no stop is changed.                                         *)
(***************************************************************************)
LEMMA AloneUpdates ==
    ASSUME TablesFit(trips, stops), NEW t \in TripIds, NEW v, NEW w, NEW c,
           Serves(v, w, t, c), Effect(c, t), AloneFits(v, trips, stops), c.op = "update"
    PROVE  AloneFits(w, trips', stops')
<1>1. trips' = trips /\ stops' = stops
  BY DEF Effect
<1>2. v.trip = t /\ w.trip = t
  BY DEF Serves
<1>3. DeletesFit(w) /\ ToDelete(w.calls) = ToDelete(v.calls)
  BY ServesLeaves DEF AloneFits
<1>4. OldFit(w, trips', stops')
  BY <1>1, <1>2, <1>3 DEF AloneFits, OldFit, Deleted, Serves
<1>5. \A p, o : Cardinality(ToAdd(w.calls, p, o)) = Cardinality(ToAdd(v.calls, p, o))
  <2>1. AddsServed(v, w, c)
    BY ServesLeaves DEF AloneFits
  <2> QED
    BY <2>1 DEF AddsServed
<1>6. NewFit(w, trips', stops')
  BY <1>1, <1>2, <1>5 DEF AloneFits, NewFit, Made, Serves
<1> QED
  BY <1>3, <1>4, <1>6 DEF AloneFits

(***************************************************************************)
(* A deletion: of a stop that was removed, and not deleted before.        *)
(***************************************************************************)
LEMMA AloneDeletes ==
    ASSUME TablesFit(trips, stops), NEW t \in TripIds, NEW v, NEW w, NEW c,
           Serves(v, w, t, c), Effect(c, t), AloneFits(v, trips, stops), c.op = "deleteStop"
    PROVE  AloneFits(w, trips', stops')
<1>1. trips' = trips /\ trips[t] = "live"
  BY DEF Effect, Found
<1>2. /\ v.trip = t /\ w.trip = t /\ w.before = v.before /\ w.seen = v.seen
      /\ w.drafts = v.drafts /\ w.left = v.left
  BY DEF Serves
<1>3. /\ DeletesFit(w) /\ ToDelete(w.calls) = ToDelete(v.calls) \ {c.stop}
      /\ c.stop \in ToDelete(v.calls)
  BY ServesLeaves DEF AloneFits
<1>4. c.stop \in Gone(v.drafts, v.seen) /\ c.stop \in v.seen /\ c.stop \notin v.left
  BY <1>3 DEF AloneFits, DeletesFit, Gone
<1>5. /\ LiveOf(t, stops') = LiveOf(t, stops) \ {c.stop}
      /\ \A i \in StopIds : stops[i] # NotYet =>
            /\ stops'[i] # NotYet /\ stops'[i].trip = stops[i].trip
            /\ stops'[i].place = stops[i].place /\ stops'[i].order = stops[i].order
  <2>1. stops \in [StopIds -> Stop \cup {NotYet}]
    BY DEF TablesFit
  <2>2. CASE c.stop \in LiveOf(t, stops)
    <3>1. stops' = [stops EXCEPT ![c.stop].live = FALSE]
      BY <2>2 DEF Effect, LiveOf, LiveStops
    <3>2. PICK k \in StopIds : k = c.stop /\ stops[k] # NotYet
      BY <2>2 DEF LiveOf
    <3>3. PICK e : e = [stops[k] EXCEPT !.live = FALSE]
      OBVIOUS
    <3>4. PICK old \in Stop : old = stops[k]
      BY <2>1, <3>2
    <3>5. /\ e \in Stop /\ e.trip = old.trip /\ e.place = old.place /\ e.order = old.order
          /\ e.live = FALSE
      BY <3>3, <3>4 DEF Stop
    <3>6. stops' = [stops EXCEPT ![k] = e]
      BY <2>1, <3>1, <3>2, <3>3
    <3>7. stops'[k] = e /\ \A i \in StopIds : i # k => stops'[i] = stops[i]
      BY <2>1, <3>6
    <3> QED
      BY <3>2, <3>4, <3>5, <3>7, TripsMarkers DEF LiveOf
  <2>3. CASE c.stop \notin LiveOf(t, stops)
    <3>1. stops' = stops
      BY <2>3 DEF Effect, LiveOf, LiveStops
    <3> QED
      BY <2>3, <3>1
  <2> QED
    BY <2>2, <2>3
<1>6. /\ v.before \subseteq RowsIn(stops) /\ v.seen \subseteq RowsIn(stops)
      /\ \A i \in v.before : stops[i].trip = t
      /\ LiveOf(t, stops) \cap v.seen \subseteq v.before
      /\ \A i \in v.before :
            i \in LiveOf(t, stops) <=> i \notin Deleted(v)
  BY <1>1, <1>2, TripsAssumption DEF AloneFits, OldFit
<1>7. OldFit(w, trips', stops')
  <2>1. \A i \in v.before :
           i \in LiveOf(t, stops') <=> i \notin Deleted(w)
    BY <1>2, <1>3, <1>4, <1>5, <1>6 DEF Deleted
  <2>2. /\ v.before \subseteq RowsIn(stops') /\ v.seen \subseteq RowsIn(stops')
        /\ \A i \in v.before : stops'[i].trip = t
    BY <1>5, <1>6 DEF RowsIn
  <2>3. LiveOf(t, stops') \cap v.seen \subseteq v.before
    BY <1>5, <1>6
  <2> QED
    BY <1>2, <2>1, <2>2, <2>3 DEF OldFit
<1>8. LiveOf(t, stops') \ v.before = LiveOf(t, stops) \ v.before
  BY <1>4, <1>5, <1>6
<1>9. \A p, o : Made(w, stops', p, o) = Made(v, stops, p, o)
  BY <1>2, <1>5, <1>8 DEF Made, At, LiveOf
<1>10. \A p, o : Cardinality(ToAdd(w.calls, p, o)) = Cardinality(ToAdd(v.calls, p, o))
  <2>1. AddsServed(v, w, c)
    BY ServesLeaves DEF AloneFits
  <2> QED
    BY <2>1 DEF AddsServed
<1>11. NewFit(w, trips', stops')
  BY <1>1, <1>2, <1>9, <1>10 DEF AloneFits, NewFit
<1> QED
  BY <1>3, <1>7, <1>11 DEF AloneFits

(***************************************************************************)
(* An addition: a new row, of the place and the order that were asked for.*)
(***************************************************************************)
LEMMA AloneAdds ==
    ASSUME TablesFit(trips, stops), NEW t \in TripIds, NEW v, NEW w, NEW c,
           Serves(v, w, t, c), Effect(c, t), AloneFits(v, trips, stops), c.op = "addStop",
           c.place # NoPlace
    PROVE  AloneFits(w, trips', stops')
<1>1. trips' = trips /\ trips[t] = "live"
  BY DEF Effect, Found
<1>2. /\ v.trip = t /\ w.trip = t /\ w.before = v.before /\ w.seen = v.seen
      /\ w.drafts = v.drafts /\ w.left = v.left
  BY DEF Serves
<1>3. DeletesFit(w) /\ ToDelete(w.calls) = ToDelete(v.calls) /\ c \in TripCall
  BY ServesLeaves DEF AloneFits
<1>4. PICK k \in StopIds : /\ stops[k] = NotYet
                           /\ stops' = [stops EXCEPT ![k] = [trip |-> t, place |-> c.place,
                                                             order |-> c.order, live |-> TRUE]]
  BY DEF Effect
<1>5. PICK e : e = [trip |-> t, place |-> c.place, order |-> c.order, live |-> TRUE]
  OBVIOUS
<1>6. e \in Stop /\ e.trip = t /\ e.place = c.place /\ e.order = c.order /\ e.live
  BY <1>3, <1>5 DEF Stop, TripCall
<1>7. stops' = [stops EXCEPT ![k] = e]
  BY <1>4, <1>5
<1>8. stops'[k] = e /\ \A i \in StopIds : i # k => stops'[i] = stops[i]
  BY <1>7 DEF TablesFit
<1>9. /\ k \notin RowsIn(stops) /\ k \in RowsIn(stops') /\ RowsIn(stops) \subseteq RowsIn(stops')
      /\ \A i \in RowsIn(stops) : stops'[i] = stops[i]
  BY <1>4, <1>6, <1>8, TripsMarkers DEF RowsIn
<1>10. /\ v.before \subseteq RowsIn(stops) /\ v.seen \subseteq RowsIn(stops)
       /\ \A i \in v.before : stops[i].trip = t
       /\ LiveOf(t, stops) \cap v.seen \subseteq v.before
       /\ \A i \in v.before :
             i \in LiveOf(t, stops) <=> i \notin Deleted(v)
  BY <1>1, <1>2, TripsAssumption DEF AloneFits, OldFit
<1>11. LiveOf(t, stops') = LiveOf(t, stops) \cup {k} /\ LiveOf(t, stops) \subseteq RowsIn(stops)
  BY <1>6, <1>8, <1>9 DEF LiveOf, RowsIn
<1>12. OldFit(w, trips', stops')
  <2>1. \A i \in v.before :
           i \in LiveOf(t, stops') <=> i \notin Deleted(w)
    BY <1>2, <1>3, <1>9, <1>10, <1>11 DEF Deleted
  <2>2. /\ v.before \subseteq RowsIn(stops') /\ v.seen \subseteq RowsIn(stops')
        /\ \A i \in v.before : stops'[i].trip = t
    BY <1>9, <1>10
  <2>3. LiveOf(t, stops') \cap v.seen \subseteq v.before
    BY <1>9, <1>10, <1>11
  <2> QED
    BY <1>2, <2>1, <2>2, <2>3 DEF OldFit
<1>13. AddsServed(v, w, c)
  BY ServesLeaves DEF AloneFits
<1>14. ASSUME NEW p \in Places, NEW o \in Nat
       PROVE  Cardinality(Made(w, stops', p, o)) + Cardinality(ToAdd(w.calls, p, o))
                 = Wanted(w.drafts, p, o)
  <2> DEFINE M == Made(v, stops, p, o)
             N == Made(w, stops', p, o)
  <2>1. Cardinality(M) + Cardinality(ToAdd(v.calls, p, o)) = Wanted(v.drafts, p, o)
    BY <1>1, <1>2 DEF AloneFits, NewFit
  <2>2. k \notin M /\ M \in SUBSET StopIds
    BY <1>2, <1>9, <1>11 DEF Made, At, RowsIn
  <2>3. N = IF c.place = p /\ c.order = o THEN M \cup {k} ELSE M
    <3>1. LiveOf(t, stops') \ v.before = (LiveOf(t, stops) \ v.before) \cup {k}
      BY <1>9, <1>10, <1>11
    <3>2. \A i \in LiveOf(t, stops) : stops'[i] = stops[i]
      BY <1>9, <1>11
    <3> QED
      BY <1>2, <1>6, <1>8, <3>1, <3>2 DEF Made, At
  <2> HIDE DEF M, N
  <2>4. IsFiniteSet(M)
    BY <2>2, StopsFinite
  <2>5. Cardinality(M) \in Nat /\ Cardinality(M \cup {k}) = Cardinality(M) + 1
    BY <2>2, <2>4, FS_CardinalityType, FS_AddElement
  <2>6. /\ Cardinality(ToAdd(v.calls, p, o)) \in Nat
        /\ Cardinality(ToAdd(w.calls, p, o)) \in Nat
        /\ Cardinality(ToAdd(v.calls, p, o)) =
              IF c.place = p /\ c.order = o THEN Cardinality(ToAdd(w.calls, p, o)) + 1
              ELSE Cardinality(ToAdd(w.calls, p, o))
    BY <1>13 DEF AddsServed
  <2>7. Cardinality(N) + Cardinality(ToAdd(w.calls, p, o)) = Wanted(v.drafts, p, o)
    <3>1. CASE c.place = p /\ c.order = o
      BY <2>1, <2>3, <2>5, <2>6, <3>1
    <3>2. CASE ~(c.place = p /\ c.order = o)
      BY <2>1, <2>3, <2>5, <2>6, <3>2
    <3> QED
      BY <3>1, <3>2
  <2> QED
    BY <1>2, <2>7 DEF N
<1>15. NewFit(w, trips', stops')
  BY <1>14 DEF NewFit
<1> QED
  BY <1>3, <1>12, <1>15 DEF AloneFits

(***************************************************************************)
(* A deletion of the itinerary: nothing is asked of its stops any more.   *)
(***************************************************************************)
LEMMA AloneErased ==
    ASSUME TablesFit(trips, stops), NEW t \in TripIds, Erased(t), NEW v \in Save,
           AloneFits(v, trips, stops)
    PROVE  AloneFits(v, trips', stops')
<1>1. /\ RowsIn(stops') = RowsIn(stops) /\ trips' = [trips EXCEPT ![t] = "deleted"]
      /\ \A i \in RowsIn(stops) : /\ stops'[i].trip = stops[i].trip
                                  /\ stops'[i].place = stops[i].place
                                  /\ stops'[i].order = stops[i].order
                                  /\ stops[i].trip # t => stops'[i] = stops[i]
  BY ErasedFits
<1>2. v.trip \in TripIds \cup {NoTrip} /\ NoTrip \notin TripIds
  BY TripsAssumption DEF Save
<1>3. trips \in [TripIds -> {"unused", "live", "deleted"}]
  BY DEF TablesFit
<1>4. v.trip \in TripIds => trips'[v.trip] = IF v.trip = t THEN "deleted" ELSE trips[v.trip]
  BY <1>1, <1>3
<1>5. LiveOf(v.trip, stops') \subseteq LiveOf(v.trip, stops)
  <2> SUFFICES ASSUME NEW i \in LiveOf(v.trip, stops') PROVE i \in LiveOf(v.trip, stops)
    OBVIOUS
  <2>1. i \in StopIds /\ stops'[i] # NotYet /\ stops'[i].trip = v.trip /\ stops'[i].live
    BY DEF LiveOf
  <2>2. stops[i] # NotYet /\ stops[i].trip = v.trip
    BY <1>1, <2>1 DEF RowsIn
  <2>3. stops[i].live
    <3>1. CASE i \in LiveStops(t)
      BY <3>1 DEF LiveStops
    <3>2. CASE i \notin LiveStops(t)
      BY <2>1, <3>2 DEF Erased
    <3> QED
      BY <3>1, <3>2
  <2> QED
    BY <2>1, <2>2, <2>3 DEF LiveOf
<1>6. v.trip # t => LiveOf(v.trip, stops') = LiveOf(v.trip, stops)
  BY <1>1 DEF LiveOf, RowsIn
<1>7. OldFit(v, trips', stops')
  BY <1>1, <1>2, <1>4, <1>5, <1>6 DEF AloneFits, OldFit
<1>8. NewFit(v, trips', stops')
  <2>1. CASE v.trip = t
    BY <1>2, <1>4, <2>1 DEF NewFit
  <2>2. CASE v.trip # t
    <3>1. \A p, o : Made(v, stops', p, o) = Made(v, stops, p, o)
      BY <1>1, <1>6, <2>2 DEF Made, At, LiveOf, RowsIn
    <3> QED
      BY <1>2, <1>4, <2>2, <3>1 DEF AloneFits, NewFit
  <2> QED
    BY <2>1, <2>2
<1> QED
  BY <1>7, <1>8 DEF AloneFits

AddsWanted(calls, drafts) ==
    \A p \in Places, o \in Nat : /\ Cardinality(ToAdd(calls, p, o)) = Wanted(drafts, p, o)
                                 /\ Wanted(drafts, p, o) \in Nat

(***************************************************************************)
(* The calls of a form add what it wants, and delete what it removed.     *)
(***************************************************************************)
LEMMA ScriptAdds ==
    ASSUME NEW c, NEW op \in {"create", "update"}, NEW drafts \in Seq(Draft), NEW gone, NEW f, NEW g,
           NEW m \in Nat, NEW n \in Nat, Script(c, op, drafts, gone, f, g, m, n)
    PROVE  AddsWanted(c, drafts)
<1> SUFFICES ASSUME NEW p \in Places, NEW o \in Nat
             PROVE  /\ Cardinality(ToAdd(c, p, o)) = Wanted(drafts, p, o)
                    /\ Wanted(drafts, p, o) \in Nat
  BY DEF AddsWanted
<1>1. c \in Seq(TripCall) /\ DOMAIN c = 1..(1 + m + n)
  BY LenProperties DEF Script
<1>2. \A i \in 1..(1 + m) : c[i].op # "addStop"
  <2> SUFFICES ASSUME NEW i \in 1..(1 + m) PROVE c[i].op # "addStop"
    OBVIOUS
  <2>1. CASE i = 1
    BY <2>1 DEF Script, CallTo
  <2>2. CASE i # 1
    <3>1. PICK j \in 1..m : i = 1 + j
      BY <2>2
    <3>2. c[1 + j] = CallTo("deleteStop", f[j], NoPlace, 1)
      BY DEF Script
    <3> QED
      BY <3>1, <3>2 DEF CallTo
  <2> QED
    BY <2>1, <2>2
<1>3. ASSUME NEW j \in 1..n
      PROVE  /\ g[j] \in NewDrafts(drafts) /\ c[1 + m + j].op = "addStop"
             /\ c[1 + m + j].place = drafts[g[j]].place
             /\ c[1 + m + j].order = drafts[g[j]].order
  <2>1. c[1 + m + j] = CallTo("addStop", Fresh, drafts[g[j]].place, drafts[g[j]].order)
    BY DEF Script
  <2> QED
    BY <2>1 DEF Script, CallTo
<1> DEFINE A == ToAdd(c, p, o)
           W == {i \in DOMAIN drafts : drafts[i] = [stop |-> Fresh, place |-> p, order |-> o]}
<1>4. IsFiniteSet(A)
  <2>1. A \in SUBSET DOMAIN c
    BY DEF ToAdd
  <2> QED
    BY <1>1, <2>1, PositionsFinite
<1>5. Cardinality(W) \in Nat
  <2>1. W \in SUBSET DOMAIN drafts
    OBVIOUS
  <2> QED
    BY <2>1, PositionsFinite
<1>6. \A i \in W : /\ i \in NewDrafts(drafts)
                   /\ drafts[i].place = p /\ drafts[i].order = o
  BY TripsAssumption DEF NewDrafts
<1>7. \A i \in NewDrafts(drafts) : drafts[i].place = p /\ drafts[i].order = o => i \in W
  <2> SUFFICES ASSUME NEW i \in NewDrafts(drafts), drafts[i].place = p, drafts[i].order = o
               PROVE  i \in W
    OBVIOUS
  <2>1. PICK d \in Draft : d = drafts[i] /\ i \in DOMAIN drafts /\ d.stop = Fresh
    BY LenProperties DEF NewDrafts
  <2>2. d = [stop |-> Fresh, place |-> p, order |-> o]
    BY <2>1 DEF Draft
  <2> QED
    BY <2>1, <2>2
<1>8. \A i \in A : \E j \in 1..n : i = 1 + m + j
  <2> SUFFICES ASSUME NEW i \in A PROVE \E j \in 1..n : i = 1 + m + j
    OBVIOUS
  <2>1. i \in 1..(1 + m + n) /\ c[i].op = "addStop"
    BY <1>1 DEF ToAdd
  <2>2. ~(i <= 1 + m)
    BY <1>2, <2>1
  <2>3. i - (1 + m) \in 1..n /\ i = 1 + m + (i - (1 + m))
    BY <2>1, <2>2
  <2> QED
    BY <2>3
<1>9. PICK h : h = [i \in A |-> g[i - (1 + m)]]
  OBVIOUS
<1>10. ASSUME NEW i \in A
       PROVE  \E j \in 1..n : i = 1 + m + j /\ h[i] = g[j] /\ h[i] \in W
  <2>1. PICK j \in 1..n : i = 1 + m + j
    BY <1>8
  <2>2. i - (1 + m) = j
    BY <2>1
  <2>3. h[i] = g[j]
    BY <1>9, <2>2
  <2>4. c[i].place = p /\ c[i].order = o
    BY DEF ToAdd
  <2>5. g[j] \in NewDrafts(drafts) /\ drafts[g[j]].place = p /\ drafts[g[j]].order = o
    BY <1>3, <2>1, <2>4
  <2>6. g[j] \in W
    BY <1>7, <2>5
  <2> QED
    BY <2>1, <2>3, <2>6
<1>11. h \in [A -> W]
  BY <1>9, <1>10
<1>12. \A a, b \in A : h[a] = h[b] => a = b
  <2> SUFFICES ASSUME NEW a \in A, NEW b \in A, h[a] = h[b] PROVE a = b
    OBVIOUS
  <2>1. PICK i \in 1..n : a = 1 + m + i /\ h[a] = g[i]
    BY <1>10
  <2>2. PICK j \in 1..n : b = 1 + m + j /\ h[b] = g[j]
    BY <1>10
  <2>3. i = j
    BY <2>1, <2>2 DEF Script
  <2> QED
    BY <2>1, <2>2, <2>3
<1>13. \A b \in W : \E a \in A : h[a] = b
  <2> SUFFICES ASSUME NEW b \in W PROVE \E a \in A : h[a] = b
    OBVIOUS
  <2>1. PICK j \in 1..n : g[j] = b
    BY <1>6 DEF Script
  <2>2. 1 + m + j \in DOMAIN c /\ (1 + m + j) - (1 + m) = j
    BY <1>1
  <2>3. 1 + m + j \in A
    BY <1>3, <1>6, <2>1, <2>2 DEF ToAdd
  <2> QED
    BY <1>9, <2>1, <2>2, <2>3
<1>14. Cardinality(W) = Cardinality(A)
  <2> HIDE DEF A, W
  <2> QED
    BY <1>4, <1>11, <1>12, <1>13, SameCount
<1> QED
  BY <1>5, <1>14 DEF Wanted

(***************************************************************************)
(* What it deletes.                                                        *)
(***************************************************************************)
LEMMA ScriptDeletes ==
    ASSUME NEW c, NEW op \in {"create", "update"}, NEW drafts, NEW gone, NEW f, NEW g,
           NEW m \in Nat, NEW n \in Nat, Script(c, op, drafts, gone, f, g, m, n)
    PROVE  ToDelete(c) = gone /\ Once(c)
<1>1. c \in Seq(TripCall) /\ DOMAIN c = 1..(1 + m + n)
  BY LenProperties DEF Script
<1>2. \A j \in 1..m : /\ 1 + j \in DOMAIN c
                      /\ c[1 + j].op = "deleteStop" /\ c[1 + j].stop = f[j] /\ f[j] \in gone
  <2> SUFFICES ASSUME NEW j \in 1..m
               PROVE  /\ 1 + j \in DOMAIN c /\ c[1 + j].op = "deleteStop"
                      /\ c[1 + j].stop = f[j] /\ f[j] \in gone
    OBVIOUS
  <2>1. c[1 + j] = CallTo("deleteStop", f[j], NoPlace, 1)
    BY DEF Script
  <2>2. 1 + j \in DOMAIN c /\ f[j] \in gone
    BY <1>1 DEF Script
  <2> QED
    BY <2>1, <2>2 DEF CallTo
<1>3. ASSUME NEW i \in DOMAIN c, c[i].op = "deleteStop"
      PROVE  \E j \in 1..m : i = 1 + j
  <2>1. CASE i = 1
    BY <1>3, <2>1 DEF Script, CallTo
  <2>2. CASE i > 1 + m
    <3>1. i - (1 + m) \in 1..n /\ i = 1 + m + (i - (1 + m))
      BY <1>1, <2>2
    <3>2. PICK j \in 1..n : i = 1 + m + j
      BY <3>1
    <3>3. c[1 + m + j] = CallTo("addStop", Fresh, drafts[g[j]].place, drafts[g[j]].order)
      BY DEF Script
    <3> QED
      BY <1>3, <3>2, <3>3 DEF CallTo
  <2>3. CASE i > 1 /\ i <= 1 + m
    <3>1. i - 1 \in 1..m /\ i = 1 + (i - 1)
      BY <1>1, <2>3
    <3> QED
      BY <3>1
  <2> QED
    BY <1>1, <2>1, <2>2, <2>3
<1>4. ToDelete(c) \subseteq gone
  <2> SUFFICES ASSUME NEW i \in DOMAIN c, c[i].op = "deleteStop" PROVE c[i].stop \in gone
    BY DEF ToDelete
  <2> QED
    BY <1>2, <1>3
<1>5. gone \subseteq ToDelete(c)
  <2> SUFFICES ASSUME NEW x \in gone PROVE x \in ToDelete(c)
    OBVIOUS
  <2>1. PICK j \in 1..m : f[j] = x
    BY DEF Script
  <2> QED
    BY <1>2, <2>1 DEF ToDelete
<1>6. Once(c)
  <2> SUFFICES ASSUME NEW i \in DOMAIN c, NEW j \in DOMAIN c, c[i].op = "deleteStop",
                      c[j].op = "deleteStop", c[i].stop = c[j].stop
               PROVE  i = j
    BY DEF Once
  <2>1. PICK a \in 1..m : i = 1 + a
    BY <1>3
  <2>2. PICK b \in 1..m : j = 1 + b
    BY <1>3
  <2>3. f[a] = f[b]
    BY <1>2, <2>1, <2>2
  <2>4. a = b
    BY <2>3 DEF Script
  <2> QED
    BY <2>1, <2>2, <2>4
<1> QED
  BY <1>4, <1>5, <1>6

(***************************************************************************)
(* A save that starts alone: nothing is deleted or added yet.             *)
(***************************************************************************)
LEMMA AloneStarts ==
    ASSUME TripsInv, FormOpen, NEW calls \in Scripts, NEW v,
           v.trip = visit.trip, v.calls = calls, v.drafts = plan.drafts,
           v.before = LiveStops(visit.trip), v.seen = Cached, v.left = {}
    PROVE  AloneFits(v, trips, stops)
<1> DEFINE gone == Gone(plan.drafts, Cached)
<1>1. PICK f, g : \E m, n \in Nat : Script(calls, FirstCall, plan.drafts, gone, f, g, m, n)
  BY ScriptsAre
<1>2. PICK m \in Nat, n \in Nat : Script(calls, FirstCall, plan.drafts, gone, f, g, m, n)
  BY <1>1
<1>3. FirstCall \in {"create", "update"} /\ plan.drafts \in Seq(Draft)
  BY GoneIs DEF FirstCall
<1>4. ToDelete(calls) = gone /\ Once(calls)
  BY <1>2, <1>3, ScriptDeletes
<1>5. DeletesFit(v)
  BY <1>4 DEF DeletesFit
<1>6. v.before = LiveOf(v.trip, stops)
  BY DEF LiveOf, LiveStops
<1>7. OldFit(v, trips, stops)
  <2>1. /\ v.before \subseteq RowsIn(stops) /\ \A i \in v.before : stops[i].trip = v.trip
    BY <1>6 DEF LiveOf, RowsIn
  <2>2. v.seen \subseteq RowsIn(stops)
    BY GoneIs
  <2>3. Deleted(v) = {}
    BY <1>4 DEF Deleted
  <2> QED
    BY <1>6, <2>1, <2>2, <2>3 DEF OldFit
<1>8. NewFit(v, trips, stops)
  <2> SUFFICES ASSUME NEW p \in Places, NEW o \in Nat
               PROVE  Cardinality(Made(v, stops, p, o)) + Cardinality(ToAdd(v.calls, p, o))
                         = Wanted(v.drafts, p, o)
    BY DEF NewFit
  <2>1. Made(v, stops, p, o) = {}
    BY <1>6 DEF Made, At
  <2>2. Cardinality(Made(v, stops, p, o)) = 0
    BY <2>1, FS_EmptySet
  <2>3. /\ Cardinality(ToAdd(calls, p, o)) = Wanted(plan.drafts, p, o)
        /\ Wanted(plan.drafts, p, o) \in Nat
    <3>1. AddsWanted(calls, plan.drafts)
      <4> HIDE DEF gone
      <4> QED
        BY <1>2, <1>3, ScriptAdds
    <3> QED
      BY <3>1 DEF AddsWanted
  <2> QED
    BY <2>2, <2>3
<1> QED
  BY <1>5, <1>7, <1>8 DEF AloneFits

(***************************************************************************)
(* The saves of before go on, or some of them; itineraries may be deleted.*)
(***************************************************************************)
LEMMA AloneCarried ==
    ASSUME TripsInv, AloneInv,
           \/ UNCHANGED <<trips, stops>>
           \/ \E t \in TripIds : Erased(t),
           \A s \in SaveIds : IsRunning(saves'[s]) =>
              /\ IsRunning(saves[s]) /\ saves'[s].alone = saves[s].alone
              /\ saves'[s].trip = saves[s].trip /\ saves'[s].calls = saves[s].calls
              /\ saves'[s].drafts = saves[s].drafts /\ saves'[s].before = saves[s].before
              /\ saves'[s].seen = saves[s].seen /\ saves'[s].left = saves[s].left
    PROVE  AloneInv'
<1> SUFFICES ASSUME NEW s \in SaveIds, IsAlone(saves'[s])
             PROVE  /\ \A r \in SaveIds : IsRunning(saves'[r]) => r = s
                    /\ AloneFits(saves'[s], trips', stops')
  BY DEF AloneInv
<1>1. IsAlone(saves[s])
  BY DEF IsAlone
<1>2. /\ \A r \in SaveIds : IsRunning(saves[r]) => r = s
      /\ AloneFits(saves[s], trips, stops)
  BY <1>1 DEF AloneInv
<1>3. PICK v : v = saves[s]
  OBVIOUS
<1>4. v \in Save /\ TablesFit(trips, stops)
  BY <1>1, <1>3 DEF IsAlone, TripsInv, SavesFit, SaveFits
<1>5. AloneFits(v, trips', stops')
  BY <1>2, <1>3, <1>4, AloneErased
<1>6. PICK w : w = saves'[s]
  OBVIOUS
<1>7. /\ w.trip = v.trip /\ w.calls = v.calls /\ w.drafts = v.drafts
      /\ w.before = v.before /\ w.seen = v.seen /\ w.left = v.left
  BY <1>3, <1>6 DEF IsAlone
<1>8. AloneFits(w, trips', stops')
  BY <1>5, <1>7 DEF AloneFits, DeletesFit, OldFit, Deleted, NewFit, Made
<1> QED
  BY <1>2, <1>6, <1>8

(***************************************************************************)
(* A form is submitted: from then on two saves run, or the one that does  *)
(* is of a form that did not fail.                                         *)
(***************************************************************************)
LEMMA AloneSubmits ==
    ASSUME TripsInv, SubmitTrip
    PROVE  AloneInv'
<1>1. PICK s \in SaveIds, calls \in Scripts : Started(s, calls)
  BY DEF SubmitTrip
<1>2. FormOpen /\ trips' = trips /\ stops' = stops
  BY DEF SubmitTrip
<1>3. PICK v : v = [trip |-> visit.trip, calls |-> calls, mine |-> TRUE,
                    drafts |-> plan.drafts, before |-> LiveStops(visit.trip),
                    seen |-> Cached, left |-> {}, alone |-> TRUE]
  OBVIOUS
<1>4. PICK alone \in BOOLEAN :
         /\ alone => \A r \in SaveIds : ~Running(r)
         /\ saves' = [r \in SaveIds |-> IF r # s THEN Accompanied(saves[r])
                                        ELSE IF alone THEN v ELSE Accompanied(v)]
  BY <1>1, <1>3 DEF Started
<1>5. v \in Save /\ SaveFits(v, RowsIn(stops))
  <2>1. /\ calls \in Seq(TripCall) /\ CallsFit(calls, plan.drafts)
        /\ AtCreate(calls) <=> visit.page = "new"
    BY <1>1, <1>2, ScriptsFit
  <2>2. /\ LiveStops(visit.trip) \in SUBSET StopIds /\ Cached \in SUBSET StopIds
        /\ plan.drafts \in Seq(Draft)
    BY <1>2, GoneIs DEF LiveStops
  <2>3. /\ visit.trip \in TripIds \cup {NoTrip}
        /\ (visit.trip = NoTrip) <=> visit.page = "new"
    BY <1>2 DEF FormOpen, TripsInv, VisitFits
  <2>4. /\ v.trip = visit.trip /\ v.calls = calls /\ v.drafts = plan.drafts
    BY <1>3
  <2>5. v \in Save
    BY <1>3, <2>1, <2>2, <2>3 DEF Save
  <2>6. Kept(plan.drafts) \subseteq RowsIn(stops) \cup {Fresh}
    BY DEF TripsInv, PlanFits
  <2> QED
    BY <2>1, <2>3, <2>4, <2>5, <2>6 DEF SaveFits
<1>6. ASSUME NEW r \in SaveIds, r # s
      PROVE  ~IsAlone(saves'[r]) /\ (IsRunning(saves'[r]) => IsRunning(saves[r]))
  <2>1. saves'[r] = Accompanied(saves[r])
    BY <1>4, <1>6
  <2>2. /\ saves[r] \in Save \cup {NotYet, Ended}
        /\ IsRunning(saves[r]) => SaveFits(saves[r], RowsIn(stops))
    BY DEF TripsInv, SavesFit
  <2> QED
    BY <2>1, <2>2, AccompaniedFits DEF IsAlone
<1>7. CASE ~alone
  <2>1. saves'[s] = Accompanied(v)
    BY <1>4, <1>7
  <2>2. ~IsAlone(saves'[s])
    BY <1>5, <2>1, AccompaniedFits DEF IsAlone
  <2> QED
    BY <1>6, <2>2 DEF AloneInv
<1>8. CASE alone
  <2>1. saves'[s] = v
    BY <1>4, <1>8
  <2>2. \A r \in SaveIds : IsRunning(saves'[r]) => r = s
    BY <1>4, <1>6, <1>8 DEF Running, IsRunning
  <2>3. /\ v.trip = visit.trip /\ v.calls = calls /\ v.drafts = plan.drafts
        /\ v.before = LiveStops(visit.trip) /\ v.seen = Cached /\ v.left = {}
    BY <1>3
  <2>4. AloneFits(v, trips, stops)
    BY <1>1, <1>2, <2>3, AloneStarts
  <2>5. AloneFits(saves'[s], trips', stops')
    BY <1>2, <2>1, <2>4
  <2> QED
    BY <1>6, <2>2, <2>5 DEF AloneInv
<1> QED
  BY <1>4, <1>7, <1>8

(***************************************************************************)
(* A call of a save is served: if a save is alone, it is that one.        *)
(***************************************************************************)
LEMMA AloneServes ==
    ASSUME TripsInv, AloneInv, NEW s \in SaveIds, ServeCall(s)
    PROVE  AloneInv'
<1>1. PICK t \in TripIds :
         Served(s, t) /\ saves' = [saves EXCEPT ![s].trip = t, ![s].calls = Tail(@)]
  BY DEF ServeCall
<1>2. /\ IsRunning(saves[s]) /\ SaveFits(saves[s], RowsIn(stops))
      /\ saves[s].calls # <<>> /\ saves[s].calls \in Seq(TripCall)
  BY <1>1, ServedFits
<1>3. SavesFit(saves, RowsIn(stops)) /\ TablesFit(trips, stops)
  BY DEF TripsInv
<1>4. PICK v \in Save : v = saves[s]
  BY <1>2 DEF SaveFits
<1>5. PICK rest : rest = Tail(v.calls)
  OBVIOUS
<1>6. PICK w : w = [v EXCEPT !.trip = t, !.calls = rest]
  OBVIOUS
<1>7. /\ w.trip = t /\ w.calls = rest /\ w.drafts = v.drafts /\ w.before = v.before
      /\ w.seen = v.seen /\ w.left = v.left /\ w.alone = v.alone
  BY <1>6 DEF Save
<1>8. saves' = With(saves, s, w)
  BY <1>1, <1>3, <1>4, <1>5, <1>6 DEF SavesFit, With
<1>9. saves'[s] = w /\ \A r \in SaveIds : r # s => saves'[r] = saves[r]
  BY <1>3, <1>8 DEF SavesFit, With
<1>10. \A r \in SaveIds : IsAlone(saves'[r]) => r = s /\ IsAlone(v)
  <2> SUFFICES ASSUME NEW r \in SaveIds, IsAlone(saves'[r]) PROVE r = s /\ IsAlone(v)
    OBVIOUS
  <2>1. r = s
    BY <1>2, <1>9 DEF AloneInv, IsAlone
  <2> QED
    BY <1>2, <1>4, <1>7, <1>9, <2>1 DEF IsAlone
<1>11. ASSUME IsAlone(v)
       PROVE  /\ \A r \in SaveIds : IsRunning(saves'[r]) => r = s
              /\ AloneFits(w, trips', stops')
  <2>1. (\A r \in SaveIds : IsRunning(saves[r]) => r = s) /\ AloneFits(v, trips, stops)
    BY <1>4, <1>11 DEF AloneInv
  <2>2. \A r \in SaveIds : IsRunning(saves'[r]) => r = s
    BY <1>9, <2>1
  <2>3. PICK c : c = Head(v.calls)
    OBVIOUS
  <2>4. Effect(c, t) /\ v.trip \in {NoTrip, t}
    BY <1>1, <1>4, <2>3 DEF Served
  <2>5. v.trip = NoTrip <=> c.op = "create"
    BY <1>2, <1>4, <2>3 DEF SaveFits, AtCreate
  <2>6. Serves(v, w, t, c)
    BY <1>2, <1>4, <1>5, <1>7, <2>3, <2>4, <2>5 DEF Serves
  <2>7. c.op = "addStop" => c.place # NoPlace
    BY <1>2, <1>4, <2>3, TailFits DEF SaveFits
  <2>8. c.op \in {"create", "update", "deleteStop", "addStop"}
    BY <2>4 DEF Effect
  <2>9. AloneFits(w, trips', stops')
    <3>1. CASE c.op = "create"
      BY <1>3, <2>1, <2>4, <2>6, <3>1, AloneCreates
    <3>2. CASE c.op = "update"
      BY <1>3, <2>1, <2>4, <2>6, <3>2, AloneUpdates
    <3>3. CASE c.op = "deleteStop"
      BY <1>3, <2>1, <2>4, <2>6, <3>3, AloneDeletes
    <3>4. CASE c.op = "addStop"
      BY <1>3, <2>1, <2>4, <2>6, <2>7, <3>4, AloneAdds
    <3> QED
      BY <2>8, <3>1, <3>2, <3>3, <3>4
  <2> QED
    BY <2>2, <2>9
<1> QED
  BY <1>9, <1>10, <1>11 DEF AloneInv

(***************************************************************************)
(* A deletion that was not made, of a save that is alone: the stop is     *)
(* there still, and it is not deleted a second time.                       *)
(***************************************************************************)
LEMMA AloneLeft ==
    ASSUME NEW t \in TripIds, NEW v, NEW w, NEW c, Serves(v, w, t, c), c.op = "deleteStop",
           AloneFits(v, trips, stops), trips[t] = "live", c.stop \in LiveOf(t, stops),
           NEW u, u.trip = t, u.calls = w.calls, u.drafts = v.drafts, u.before = v.before,
           u.seen = v.seen, u.left = v.left \cup {c.stop}
    PROVE  AloneFits(u, trips, stops)
<1>1. /\ DeletesFit(w) /\ ToDelete(w.calls) = ToDelete(v.calls) \ {c.stop}
      /\ c.stop \in ToDelete(v.calls) /\ AddsServed(v, w, c)
  BY ServesLeaves DEF AloneFits
<1>2. v.trip = t /\ w.drafts = v.drafts /\ w.seen = v.seen /\ w.left = v.left
  BY DEF Serves
<1>3. DeletesFit(u)
  BY <1>1, <1>2 DEF DeletesFit
<1>4. Deleted(u) = Deleted(v)
  BY <1>1 DEF Deleted
<1>5. OldFit(u, trips, stops)
  BY <1>2, <1>4 DEF AloneFits, OldFit
<1>6. \A p, o : Cardinality(ToAdd(u.calls, p, o)) = Cardinality(ToAdd(v.calls, p, o))
  BY <1>1 DEF AddsServed
<1>7. NewFit(u, trips, stops)
  BY <1>2, <1>6 DEF AloneFits, NewFit, Made
<1> QED
  BY <1>3, <1>5, <1>7 DEF AloneFits

(***************************************************************************)
(* It goes on alone, or is one of those that do not.                      *)
(***************************************************************************)
LEMMA AloneLeaves ==
    ASSUME TripsInv, AloneInv, NEW s \in SaveIds, LeaveStop(s)
    PROVE  AloneInv'
<1>1. SavesFit(saves, RowsIn(stops))
  BY DEF TripsInv
<1>2. PICK v \in Save : v = saves[s] /\ IsRunning(v) /\ SaveFits(v, RowsIn(stops))
  BY <1>1 DEF LeaveStop, Running, IsRunning, SavesFit, SaveFits
<1>3. PICK c : /\ c = Head(v.calls) /\ c.op = "deleteStop" /\ v.calls # <<>>
               /\ c.stop \in LiveOf(v.trip, stops) /\ trips[v.trip] = "live"
  BY <1>2 DEF LeaveStop, Found, LiveOf, LiveStops
<1>4. v.trip # NoTrip /\ v.trip \in TripIds /\ v.calls \in Seq(TripCall)
  BY <1>2, <1>3 DEF SaveFits, AtCreate, Save
<1>5. PICK rest, left : /\ rest = Tail(v.calls)
                        /\ left = IF v.alone THEN v.left \cup {c.stop} ELSE v.left
                        /\ saves' = [saves EXCEPT ![s].calls = rest, ![s].left = left]
  BY <1>2, <1>3 DEF LeaveStop
<1>6. PICK u : u = [v EXCEPT !.calls = rest, !.left = left]
  OBVIOUS
<1>7. /\ u.trip = v.trip /\ u.calls = rest /\ u.drafts = v.drafts /\ u.before = v.before
      /\ u.seen = v.seen /\ u.left = left /\ u.alone = v.alone
  BY <1>6 DEF Save
<1>8. saves' = With(saves, s, u)
  BY <1>1, <1>2, <1>5, <1>6 DEF SavesFit, With
<1>9. saves'[s] = u /\ \A r \in SaveIds : r # s => saves'[r] = saves[r]
  BY <1>1, <1>8 DEF SavesFit, With
<1>10. \A r \in SaveIds : IsAlone(saves'[r]) => r = s /\ IsAlone(v)
  <2> SUFFICES ASSUME NEW r \in SaveIds, IsAlone(saves'[r]) PROVE r = s /\ IsAlone(v)
    OBVIOUS
  <2>1. r = s
    BY <1>2, <1>9 DEF AloneInv, IsAlone
  <2> QED
    BY <1>2, <1>7, <1>9, <2>1 DEF IsAlone
<1>11. ASSUME IsAlone(v)
       PROVE  /\ \A r \in SaveIds : IsRunning(saves'[r]) => r = s
              /\ AloneFits(u, trips, stops)
  <2>1. (\A r \in SaveIds : IsRunning(saves[r]) => r = s) /\ AloneFits(v, trips, stops)
    BY <1>2, <1>11 DEF AloneInv
  <2>2. PICK w : w = [v EXCEPT !.calls = rest]
    OBVIOUS
  <2>3. /\ w.trip = v.trip /\ w.calls = rest /\ w.drafts = v.drafts /\ w.before = v.before
        /\ w.seen = v.seen /\ w.left = v.left
    BY <2>2 DEF Save
  <2>4. Serves(v, w, v.trip, c)
    BY <1>3, <1>4, <1>5, <2>3 DEF Serves
  <2>5. u.left = v.left \cup {c.stop}
    BY <1>5, <1>7, <1>11 DEF IsAlone
  <2>6. AloneFits(u, trips, stops)
    BY <1>3, <1>4, <1>7, <2>1, <2>3, <2>4, <2>5, AloneLeft
  <2> QED
    BY <1>2, <1>9, <2>1, <2>6
<1> QED
  BY <1>9, <1>10, <1>11 DEF AloneInv, LeaveStop

(***************************************************************************)
(* A save that ends, for whatever reason, leaves none alone.              *)
(***************************************************************************)
LEMMA AloneStops ==
    ASSUME TripsInv, AloneInv, NEW s \in SaveIds,
           CallRefused(s) \/ CallLost(s) \/ AnswerLost(s)
    PROVE  AloneInv'
<1>1. Running(s) /\ saves' = [saves EXCEPT ![s] = Ended]
  BY DEF CallRefused, CallLost, AnswerLost, Served, SaveStops
<1>2. saves \in [SaveIds -> Save \cup {NotYet, Ended}]
  BY DEF TripsInv, SavesFit
<1>3. saves'[s] = Ended /\ \A r \in SaveIds : r # s => saves'[r] = saves[r]
  BY <1>1, <1>2
<1>4. \A r \in SaveIds : ~IsAlone(saves'[r])
  BY <1>1, <1>3 DEF AloneInv, IsAlone, IsRunning, Running
<1> QED
  BY <1>4 DEF AloneInv

(***************************************************************************)
(* The saves of a page that was left are the same for this.               *)
(***************************************************************************)
LEMMA DisownedSame ==
    ASSUME TripsInv, NEW s \in SaveIds, IsRunning(Disowned(saves[s]))
    PROVE  /\ IsRunning(saves[s]) /\ Disowned(saves[s]).alone = saves[s].alone
           /\ Disowned(saves[s]).trip = saves[s].trip
           /\ Disowned(saves[s]).calls = saves[s].calls
           /\ Disowned(saves[s]).drafts = saves[s].drafts
           /\ Disowned(saves[s]).before = saves[s].before
           /\ Disowned(saves[s]).seen = saves[s].seen
           /\ Disowned(saves[s]).left = saves[s].left
<1>1. PICK v : v = saves[s]
  OBVIOUS
<1>2. IsRunning(v)
  BY <1>1 DEF Disowned, IsRunning
<1>3. v \in Save
  BY <1>1, <1>2 DEF TripsInv, SavesFit, SaveFits
<1>4. PICK w : w = Disowned(v)
  OBVIOUS
<1>5. w = [v EXCEPT !.mine = FALSE]
  BY <1>2, <1>4 DEF Disowned, IsRunning
<1>6. /\ w.alone = v.alone /\ w.trip = v.trip /\ w.calls = v.calls /\ w.drafts = v.drafts
      /\ w.before = v.before /\ w.seen = v.seen /\ w.left = v.left
  BY <1>3, <1>5 DEF Save
<1> QED
  BY <1>1, <1>2, <1>4, <1>6

(***************************************************************************)
(* Every step keeps the second invariant.                                  *)
(***************************************************************************)
LEMMA AloneKeeps == TripsInv /\ AloneInv /\ [TripsNext]_tripVars => AloneInv'
<1> SUFFICES ASSUME TripsInv, AloneInv, [TripsNext]_tripVars PROVE AloneInv'
  OBVIOUS
<1>1. CASE UNCHANGED tripVars
  BY <1>1 DEF tripVars, AloneInv
<1>2. CASE OpenNewTrip \/ OpenTrip \/ OpenEditTrip \/ LeaveTrip \/ EraseTrip
  <2>1. saves' = [s \in SaveIds |-> Disowned(saves[s])]
    BY <1>2 DEF OpenNewTrip, OpenTrip, OpenEditTrip, LeaveTrip, EraseTrip
  <2>2. UNCHANGED <<trips, stops>> \/ \E t \in TripIds : Erased(t)
    BY <1>2 DEF OpenNewTrip, OpenTrip, OpenEditTrip, LeaveTrip, EraseTrip
  <2>3. \A s \in SaveIds : saves'[s] = Disowned(saves[s])
    BY <2>1
  <2> QED
    BY <2>2, <2>3, DisownedSame, AloneCarried
<1>3. CASE LoadTrip \/ AddDraft \/ RemoveDraft \/ ChoosePlace \/ ConfirmErase \/ EraseFails
  <2>1. saves' = saves
    BY <1>3 DEF LoadTrip, AddDraft, RemoveDraft, ChoosePlace, ConfirmErase, EraseFails
  <2>2. UNCHANGED <<trips, stops>> \/ \E t \in TripIds : Erased(t)
    BY <1>3 DEF LoadTrip, AddDraft, RemoveDraft, ChoosePlace, ConfirmErase, EraseFails
  <2> QED
    BY <2>1, <2>2, AloneCarried
<1>4. ASSUME NEW s \in SaveIds, SaveStep(s) PROVE AloneInv'
  <2>1. CASE EndSave(s)
    <3>1. /\ saves' = [r \in SaveIds |-> IF r = s THEN Ended ELSE Disowned(saves[r])]
          /\ UNCHANGED <<trips, stops>>
      BY <2>1 DEF EndSave
    <3>2. \A r \in SaveIds : IsRunning(saves'[r]) => saves'[r] = Disowned(saves[r])
      BY <3>1 DEF IsRunning
    <3> QED
      BY <3>1, <3>2, DisownedSame, AloneCarried
  <2> QED
    BY <1>4, <2>1, AloneServes, AloneLeaves, AloneStops DEF SaveStep
<1> QED
  BY <1>1, <1>2, <1>3, <1>4, AloneSubmits DEF TripsNext

(***************************************************************************)
(* A save whose calls were all answered as done, and beside which no      *)
(* other ran, leaves the stops that its form kept and the ones it drafted,*)
(* each once, with those that the server failed to delete.                *)
(***************************************************************************)
THEOREM SavesAreAsDrafted == TripsSpec => []SavedAsDrafted
<1>1. TripsInit => AloneInv
  BY DEF TripsInit, AloneInv, IsAlone, IsRunning
<1>2. TripsInv /\ AloneInv => SavedAsDrafted
  <2> SUFFICES ASSUME TripsInv, AloneInv, NEW s \in SaveIds,
                      Running(s), saves[s].calls = <<>>, saves[s].alone,
                      trips[saves[s].trip] = "live"
               PROVE  LET now == LiveStops(saves[s].trip)
                          old == saves[s].before
                      IN  /\ now \cap old = old \cap (Kept(saves[s].drafts) \cup (old \ saves[s].seen)
                                                     \cup saves[s].left)
                          /\ \A p \in Places, o \in 1..MaxDrafts :
                                Cardinality({i \in now \ old : stops[i].place = p /\ stops[i].order = o})
                                    = Wanted(saves[s].drafts, p, o)
    BY DEF SavedAsDrafted
  <2>1. PICK v : v = saves[s]
    OBVIOUS
  <2>2. v \in Save /\ SaveFits(v, RowsIn(stops)) /\ IsRunning(v) /\ v.calls = <<>>
    BY <2>1 DEF TripsInv, SavesFit, SaveFits, Running, IsRunning
  <2>3. AloneFits(v, trips, stops)
    BY <2>1, <2>2 DEF AloneInv, IsAlone, Save
  <2>4. v.trip # NoTrip /\ trips[v.trip] = "live"
    BY <2>1, <2>2 DEF SaveFits, AtCreate
  <2>5. ToDelete(v.calls) = {} /\ \A p, o : ToAdd(v.calls, p, o) = {}
    BY <2>2 DEF ToDelete, ToAdd
  <2>6. LiveStops(v.trip) = LiveOf(v.trip, stops)
    BY DEF LiveOf, LiveStops
  <2>7. \A i \in v.before :
           i \in LiveOf(v.trip, stops) <=> i \notin Gone(v.drafts, v.seen) \ v.left
    BY <2>3, <2>4, <2>5 DEF AloneFits, OldFit, Deleted
  <2>8. LiveStops(v.trip) \cap v.before
           = v.before \cap (Kept(v.drafts) \cup (v.before \ v.seen) \cup v.left)
    BY <2>6, <2>7 DEF Gone
  <2>9. ASSUME NEW p \in Places, NEW o \in 1..MaxDrafts
        PROVE  Cardinality({i \in LiveStops(v.trip) \ v.before :
                              stops[i].place = p /\ stops[i].order = o})
                  = Wanted(v.drafts, p, o)
    <3>1. Cardinality(Made(v, stops, p, o)) + Cardinality(ToAdd(v.calls, p, o))
             = Wanted(v.drafts, p, o)
      BY <2>3, <2>4 DEF AloneFits, NewFit
    <3>2. Cardinality(ToAdd(v.calls, p, o)) = 0
      BY <2>5, FS_EmptySet
    <3>3. IsFiniteSet(Made(v, stops, p, o))
      <4>1. Made(v, stops, p, o) \in SUBSET StopIds
        BY DEF Made, At, LiveOf
      <4> QED
        BY <4>1, StopsFinite
    <3>4. Cardinality(Made(v, stops, p, o)) \in Nat
      BY <3>3, FS_CardinalityType
    <3>5. Cardinality(Made(v, stops, p, o)) = Wanted(v.drafts, p, o)
      BY <3>1, <3>2, <3>4
    <3> QED
      BY <2>6, <3>5 DEF Made, At
  <2> QED
    BY <2>1, <2>8, <2>9
<1> QED
  BY <1>1, <1>2, TripsStart, TripsKeep, AloneKeeps, PTL DEF TripsSpec
=============================================================================
