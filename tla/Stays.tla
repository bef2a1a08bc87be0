-------------------------------- MODULE Stays --------------------------------
(***************************************************************************)
(* Finding a place to stay: the search of the home page and the list with *)
(* its filters, some of them applied by the server and some by the page,   *)
(* over the answers that are kept in the cache, while owners change what   *)
(* they offer.  What the list leads to is in StayDialog.                   *)
(***************************************************************************)
EXTENDS Integers, FiniteSets

CONSTANTS Hotels, Types, Regions, Amenities, MaxStars, Prices,
          PriceRanges,  \* the price ranges of the panel, as sets of prices
          Catalogues,   \* the establishments there may be at first
          ListSize,     \* rows of a page of the server's list
          Any,          \* no filter
          NotAsked,
          MaxReads, MaxSteps, MaxTrouble  \* bounds; the last: on writes and losses

Hotel == [type : Types, stars : 0..MaxStars, region : Regions, price : Prices,
          amenities : SUBSET Amenities, named : BOOLEAN, free : BOOLEAN]

ASSUME StaysAssumption ==
    /\ IsFiniteSet(Hotels) /\ MaxStars \in Nat
    /\ MaxReads \in Nat /\ MaxSteps \in Nat /\ MaxTrouble \in Nat
    /\ Catalogues \subseteq [Hotels -> Hotel]
    /\ Prices \subseteq Nat /\ PriceRanges \subseteq SUBSET Prices
    /\ ListSize \in Nat \ {0} /\ Any \notin Types \cup Regions /\ Any \notin PriceRanges

VARIABLES hotels,    \* the establishments
          site,      \* the page on the screen
          lists,     \* the lists in the cache, by key
          spent      \* what was used of each bound

stayVars == <<hotels, site, lists, spent>>

Tabs       == {"hebergements", "other"}   \* the three others lead elsewhere
StayFilter == [type : Types \cup {Any}, stars : 0..MaxStars, region : Regions \cup {Any},
               range : PriceRanges \cup {Any}, amenities : SUBSET Amenities]
NoFilters  == [type |-> Any, stars |-> 0, region |-> Any, range |-> Any, amenities |-> {}]
Key        == (Types \cup {Any}) \X (0..MaxStars) \X (Regions \cup {Any})
Listing    == [page : SUBSET Hotels, at : [Hotels -> Hotel]]
Entry      == [data : Listing \cup {NotAsked}, failed : BOOLEAN,
               stage : {"idle", "sent", "refused", "read"}, sent : Key,
               answer : Listing \cup {NotAsked}]
Site       == [view : {"home", "list", "elsewhere"}, text : BOOLEAN, filters : StayFilter]

StaysTypeOK ==
    /\ hotels \in [Hotels -> Hotel]
    /\ site \in Site
    /\ DOMAIN lists = Key /\ \A k \in Key : lists[k] \in Entry
    /\ spent \in [reads : 0..MaxReads, steps : 0..MaxSteps, trouble : 0..MaxTrouble]

Spend(w) == spent' = [spent EXCEPT ![w] = @ + 1]

NewSite == [view |-> "home", text |-> FALSE, filters |-> NoFilters]

\* An entry of the cache for which no request is under way.
Settled(data, failed) == [data |-> data, failed |-> failed, stage |-> "idle",
                          sent |-> <<Any, 0, Any>>, answer |-> NotAsked]

StaysInit ==
    /\ hotels \in Catalogues
    /\ site = NewSite
    /\ lists = [k \in Key |-> Settled(NotAsked, FALSE)]
    /\ spent = [reads |-> 0, steps |-> 0, trouble |-> 0]

-----------------------------------------------------------------------------
(* The search of the home page. *)

\* The tab, the text and the region are chosen in any order before the search
\* is sent, and are forgotten with the page.  Only the first tab leads to the
\* list; the dates and the number of guests go there too, but into texts.
SearchStays ==
    /\ site.view = "home"
    /\ \E tab \in Tabs, text \in BOOLEAN, r \in Regions \cup {Any} :
          site' = IF tab = "hebergements"
                  THEN [NewSite EXCEPT !.view = "list", !.text = text, !.filters.region = r]
                  ELSE [NewSite EXCEPT !.view = "elsewhere"]
    /\ UNCHANGED <<hotels, lists, spent>>

GoHome ==
    /\ site.view # "home"
    /\ site' = NewSite
    /\ UNCHANGED <<hotels, lists, spent>>

-----------------------------------------------------------------------------
(* The list. *)

\* Mutant: the stars are sent, but not part of the key.
ListKey_starless(f) == <<f.type, 0, f.region>>

ListKey(f) == <<f.type, f.stars, f.region>>

\* The server's part of the filters, for the parameters of a request.
Matching(q) == {h \in Hotels : /\ hotels[h].free
                              /\ q[1] \in {Any, hotels[h].type}
                              /\ hotels[h].stars >= q[2]
                              /\ q[3] \in {Any, hotels[h].region}}

\* With both, the query joins places, and "type" is a column of two tables.
Ambiguous(q) == q[1] # Any /\ q[3] # Any

\* The page's part of the filters.
Passes(f, row, text) == /\ (text => row.named)
                        /\ f.range = Any \/ row.price \in f.range
                        /\ f.amenities \subseteq row.amenities

ListNow == lists[ListKey(site.filters)]
OnOffer == IF ListNow.data = NotAsked \/ ListNow.failed THEN {}
           ELSE {h \in ListNow.data.page :
                    Passes(site.filters, ListNow.data.at[h], site.text)}

\* Each control of the panel.  The range is a set of radio buttons, which only
\* the reset turns off.
Toggled(S, x) == IF x \in S THEN S \ {x} ELSE S \cup {x}
FilterSteps(f) ==
    {[f EXCEPT !.type = t] : t \in Types \cup {Any}}
    \cup {[f EXCEPT !.stars = IF @ = s THEN 0 ELSE s] : s \in 1..MaxStars}
    \cup {[f EXCEPT !.range = r] : r \in PriceRanges}
    \cup {[f EXCEPT !.region = r] : r \in Regions \cup {Any}}
    \cup {[f EXCEPT !.amenities = Toggled(@, a)] : a \in Amenities}
    \cup {NoFilters}

ChangeFilters ==
    /\ site.view = "list" /\ spent.steps < MaxSteps
    /\ \E f \in FilterSteps(site.filters) \ {site.filters} :
          site' = [site EXCEPT !.filters = f]
    /\ Spend("steps")
    /\ UNCHANGED <<hotels, lists>>

\* An entry once its list is asked for: the error of an entry with rows stays.
AskedFor(entry, q) == [entry EXCEPT !.stage = "sent", !.sent = q,
                                    !.failed = IF entry.data = NotAsked THEN FALSE ELSE @]

\* A list that is not in the cache, is old, or is asked for again after a
\* failure.  The request carries the filters, its answer goes under the key.
AskList ==
    /\ site.view = "list" /\ ListNow.stage = "idle" /\ spent.reads < MaxReads
    /\ LET f == site.filters
       IN  lists' = [lists EXCEPT ![ListKey(f)] =
                        AskedFor(@, <<f.type, f.stars, f.region>>)]
    /\ Spend("reads")
    /\ UNCHANGED <<hotels, site>>

\* One page of the rows that match, in no order the query asks for.
ServeList(k) ==
    /\ lists[k].stage = "sent"
    /\ LET rows == Matching(lists[k].sent)
       IN  \/ /\ Ambiguous(lists[k].sent)
              /\ lists' = [lists EXCEPT ![k].stage = "refused"]
           \/ /\ ~Ambiguous(lists[k].sent)
              /\ \E page \in SUBSET rows :
                    /\ Cardinality(page) = IF Cardinality(rows) < ListSize
                                           THEN Cardinality(rows) ELSE ListSize
                    /\ lists' = [lists EXCEPT ![k].stage = "read",
                                              ![k].answer = [page |-> page, at |-> hotels]]
    /\ UNCHANGED <<hotels, site, spent>>

ListArrives(k) ==
    /\ lists[k].stage = "read"
    /\ lists' = [lists EXCEPT ![k] = Settled(@.answer, FALSE)]
    /\ UNCHANGED <<hotels, site, spent>>

\* Refused, or lost, and so on the two retries: what the cache holds stays
\* there, but the page says that it failed.
ListFails(k) ==
    /\ \/ lists[k].stage = "refused" /\ UNCHANGED spent
       \/ /\ lists[k].stage \in {"sent", "read"} /\ spent.trouble < MaxTrouble
          /\ Spend("trouble")
    /\ lists' = [lists EXCEPT ![k] = Settled(@.data, TRUE)]
    /\ UNCHANGED <<hotels, site>>

-----------------------------------------------------------------------------
\* A card leads to the page of its establishment, whose link back to the list
\* carries no filter.
OpenDetail ==
    /\ site.view = "list" /\ OnOffer # {}
    /\ site' = [NewSite EXCEPT !.view = "elsewhere"]
    /\ UNCHANGED <<hotels, lists, spent>>

BackToList ==
    /\ site.view = "elsewhere"
    /\ site' = [NewSite EXCEPT !.view = "list"]
    /\ UNCHANGED <<hotels, lists, spent>>

\* An owner, or an administrator, changes a price or an availability.
OwnerWrites ==
    /\ spent.trouble < MaxTrouble
    /\ \E h \in Hotels : \/ hotels' = [hotels EXCEPT ![h].free = ~@]
                          \/ \E p \in Prices : hotels' = [hotels EXCEPT ![h].price = p]
    /\ Spend("trouble")
    /\ UNCHANGED <<site, lists>>

StaysNext ==
    \/ SearchStays \/ GoHome \/ ChangeFilters \/ AskList \/ OpenDetail \/ BackToList
    \/ \E k \in Key : ServeList(k) \/ ListArrives(k) \/ ListFails(k)
    \/ OwnerWrites

StaysSpec == StaysInit /\ [][StaysNext]_stayVars

-----------------------------------------------------------------------------
(* Properties. *)

\* What the panel says, of a row.
Meets(f, text, row) ==
    /\ row.free /\ row.stars >= f.stars
    /\ f.type \in {Any, row.type} /\ f.region \in {Any, row.region}
    /\ f.range = Any \/ row.price \in f.range
    /\ f.amenities \subseteq row.amenities /\ (text => row.named)

(***************************************************************************)
(* A list on the screen offers nothing but establishments that met the    *)
(* filters and the name searched, whichever filter is applied where and in *)
(* whatever order answers come; and all of those, as they were when the    *)
(* list was read, unless more than a page of the server's list matched its *)
(* own part of the filters.                                                *)
(***************************************************************************)
OffersMeetFilters ==
    site.view = "list" /\ ListNow.data # NotAsked /\ ~ListNow.failed =>
        LET meeting == {h \in Hotels : Meets(site.filters, site.text, ListNow.data.at[h])}
        IN  /\ OnOffer \subseteq meeting
            /\ Cardinality(ListNow.data.page) < ListSize => OnOffer = meeting
=============================================================================
