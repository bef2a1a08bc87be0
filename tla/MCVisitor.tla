------------------------------ MODULE MCVisitor ------------------------------
(***************************************************************************)
(* The pages of the web client that Editor has not, one at a time: what a *)
(* page keeps, and the rows it reads and writes, are its own, so that a   *)
(* behaviour runs the machine of one page and leaves the others where     *)
(* they start.                                                             *)
(***************************************************************************)
EXTENDS Trips, Favorites, Reviews, ReviewForm, Desk, Account, LiveSearch, Pager, Stays,
        StayDialog

VARIABLE machine

vars == <<machine, tripVars, favVars, revVars, formVars, deskVars, accountVars,
          searchVars, pagerVars, stayVars, dialogVars>>

One(S) == CHOOSE x \in S : TRUE

\* Three establishments: the page of two cannot hold all, and no filter keeps
\* exactly the same ones as another.
MCHotels == {"h1", "h2", "h3"}
House(type, stars, region, price, amenities, named) ==
    [type |-> type, stars |-> stars, region |-> region, price |-> price,
     amenities |-> amenities, named |-> named, free |-> TRUE]
MCCatalogues ==
    {[h \in MCHotels |-> CASE h = "h1" -> House("hotel", 1, "r1", 1, {"wifi"}, TRUE)
                           [] h = "h2" -> House("gite", 1, "r1", 1, {}, FALSE)
                           [] h = "h3" -> House("hotel", 0, "r2", 0, {}, TRUE)]}
MCRanges == {{0}}

TripsParked   == TripsInit /\ sortable /\ \A t \in TripIds : trips[t] = "unused"
FavParked     == FavInit /\ favRow = "none"
RevParked     == RevInit /\ Written = {} /\ calm
\* A review that is accounted for is one request away.
RevOpening    == RevInit /\ (calm => Written = {})
DeskParked    == DeskInit /\ desk = One(FormFields) /\ cell = NoCell
SearchParked  == SearchInit /\ category = One(Categories)
PagerParked   == PagerInit /\ filter = One(Filters) /\ \A f \in Filters : past[f] = {0}
DialogParked  == DialogInit /\ house.price = One(NightPrices)

MCInit ==
    /\ machine \in {"trips", "favorites", "reviews", "form", "desk", "account", "search",
                    "pager", "stays", "dialog"}
    /\ IF machine = "trips"     THEN TripsInit  ELSE TripsParked
    /\ IF machine = "favorites" THEN FavInit    ELSE FavParked
    /\ IF machine = "reviews"   THEN RevOpening ELSE RevParked
    /\ IF machine = "desk"      THEN DeskInit   ELSE DeskParked
    /\ IF machine = "search"    THEN SearchInit ELSE SearchParked
    /\ IF machine = "pager"     THEN PagerInit  ELSE PagerParked
    /\ IF machine = "dialog"    THEN DialogInit ELSE DialogParked
    /\ FormInit /\ AccountInit /\ StaysInit

MCNext ==
    \/ /\ machine = "trips" /\ TripsNext
       /\ UNCHANGED <<machine, favVars, revVars, formVars, deskVars,
                      accountVars, searchVars, pagerVars, stayVars, dialogVars>>
    \/ /\ machine = "favorites" /\ FavNext
       /\ UNCHANGED <<machine, tripVars, revVars, formVars, deskVars,
                      accountVars, searchVars, pagerVars, stayVars, dialogVars>>
    \/ /\ machine = "reviews" /\ RevNext
       /\ UNCHANGED <<machine, tripVars, favVars, formVars, deskVars,
                      accountVars, searchVars, pagerVars, stayVars, dialogVars>>
    \/ /\ machine = "form" /\ FormNext
       /\ UNCHANGED <<machine, tripVars, favVars, revVars, deskVars,
                      accountVars, searchVars, pagerVars, stayVars, dialogVars>>
    \/ /\ machine = "desk" /\ DeskNext
       /\ UNCHANGED <<machine, tripVars, favVars, revVars, formVars,
                      accountVars, searchVars, pagerVars, stayVars, dialogVars>>
    \/ /\ machine = "account" /\ AccountNext
       /\ UNCHANGED <<machine, tripVars, favVars, revVars, formVars,
                      deskVars, searchVars, pagerVars, stayVars, dialogVars>>
    \/ /\ machine = "search" /\ SearchNext
       /\ UNCHANGED <<machine, tripVars, favVars, revVars, formVars,
                      deskVars, accountVars, pagerVars, stayVars, dialogVars>>
    \/ /\ machine = "pager" /\ PagerNext
       /\ UNCHANGED <<machine, tripVars, favVars, revVars, formVars,
                      deskVars, accountVars, searchVars, stayVars, dialogVars>>
    \/ /\ machine = "stays" /\ StaysNext
       /\ UNCHANGED <<machine, tripVars, favVars, revVars, formVars,
                      deskVars, accountVars, searchVars, pagerVars, dialogVars>>
    \/ /\ machine = "dialog" /\ DialogNext
       /\ UNCHANGED <<machine, tripVars, favVars, revVars, formVars,
                      deskVars, accountVars, searchVars, pagerVars, stayVars>>

MCSpec == MCInit /\ [][MCNext]_vars

(***************************************************************************)
(* Each page, its requests and the rows they reach are as the code can    *)
(* make them: what is under way belongs to an open page or to none, a     *)
(* button is off only while its request runs, a count is what was counted.*)
(***************************************************************************)
VisitorTypeOK ==
    CASE machine = "trips"     -> TripsTypeOK
      [] machine = "favorites" -> FavTypeOK
      [] machine = "reviews"   -> RevTypeOK
      [] machine = "form"      -> FormTypeOK
      [] machine = "desk"      -> DeskTypeOK
      [] machine = "account"   -> AccountTypeOK
      [] machine = "search"    -> SearchTypeOK
      [] machine = "pager"     -> PagerTypeOK
      [] machine = "stays"     -> StaysTypeOK
      [] machine = "dialog"    -> DialogTypeOK
=============================================================================
