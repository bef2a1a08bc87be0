------------------------------- MODULE Pages -------------------------------
(***************************************************************************)
(* The pages on which an administrator or an owner edits rows, as data.   *)
(* Each page states the text its form starts with, how rows are turned    *)
(* into text and text into a request, which list each mutation refreshes  *)
(* and what its success callback resets, what a row's controls ask for and*)
(* which inputs the form has.  Editor runs any of them, and Desk takes     *)
(* each field of each form through its conversions.                       *)
(***************************************************************************)
EXTENDS Conversions

\* The fields of a page, spread over the conversions by name.
By(fields, how, other) ==
    [f \in fields |-> IF f \in DOMAIN how THEN how[f] ELSE other]

\* A mutation: the lists its success invalidates and the states it resets.
Mutation(refreshes, resets) == [refreshes |-> refreshes, resets |-> resets]

-----------------------------------------------------------------------------
(* admin/lieux: places. *)

LieuxForm == [name |-> "", slug |-> "", type |-> "a", description |-> "",
              lat |-> "", lng |-> "", regionId |-> "", tags |-> "",
              isActive |-> "true"]

LieuxCalls ==
    [list   |-> "admin-places",
     create |-> Mutation({"admin-places"}, {"dialog", "form"}),
     update |-> Mutation({"admin-places"}, {"dialog", "id", "form"}),
     delete |-> Mutation({"admin-places"}, {"asked"}),
     press  |-> Mutation({"admin-places"}, {}),
     sends  |-> By(DOMAIN LieuxForm, [lat |-> "0", lng |-> "0",
                     regionId |-> "null", tags |-> "list"], "text")]

LieuxOpen ==
    [shows |-> By(DOMAIN LieuxForm, [regionId |-> "blank"], "same"),
     update |-> "dialog and id"]

LieuxBar == [resets |-> {"form"}]

LieuxRows == [field |-> "isActive", offers |-> "negation", writes |-> "column",
              edit |-> TRUE, delete |-> "dialog"]

LieuxInputs ==
    By(DOMAIN LieuxForm, [name |-> "text*", slug |-> "text*",
       type |-> "option", lat |-> "number*", lng |-> "number*",
       regionId |-> "regions", tags |-> "list", isActive |-> "flag"], "text")

LieuxUpdate == By(DOMAIN LieuxForm, [tags |-> "set", isActive |-> "set",
                  regionId |-> "anchored"], "nonblank")
LieuxCreate == By(DOMAIN LieuxForm, [isActive |-> "true"], "as sent")

-----------------------------------------------------------------------------
(* admin/location: rental cars. *)

LocationForm ==
    [brand |-> "", model |-> "", year |-> "4", category |-> "a",
     seats |-> "5", transmission |-> "a", fuelType |-> "a",
     pricePerDay |-> "", depositFcfa |-> "0", features |-> "", phone |-> "",
     whatsapp |-> "", city |-> "", regionId |-> "", isAvailable |-> "true"]

LocationCalls ==
    [list   |-> "admin-car-rentals",
     create |-> Mutation({"admin-car-rentals"}, {"dialog", "form"}),
     update |-> Mutation({"admin-car-rentals"}, {"dialog", "id", "form"}),
     delete |-> Mutation({"admin-car-rentals"}, {"asked"}),
     press  |-> Mutation({"admin-car-rentals"}, {}),
     sends  |-> By(DOMAIN LocationForm, [year |-> "0", seats |-> "5",
                     pricePerDay |-> "0", depositFcfa |-> "0",
                     features |-> "list", regionId |-> "null"], "text")]

LocationOpen ==
    [shows |-> By(DOMAIN LocationForm, [regionId |-> "blank"], "same"),
     update |-> "dialog and id"]

LocationBar == [resets |-> {"form"}]

LocationRows ==
    [field |-> "isAvailable", offers |-> "negation", writes |-> "column",
     edit |-> TRUE, delete |-> "dialog"]

LocationInputs ==
    By(DOMAIN LocationForm, [brand |-> "text*", model |-> "text*",
       year |-> "number", category |-> "option", seats |-> "seats",
       transmission |-> "option", fuelType |-> "none",
       pricePerDay |-> "number*", depositFcfa |-> "number",
       features |-> "list", regionId |-> "regions",
       isAvailable |-> "flag"], "text")

\* Mutant: blank fields are skipped, as for places.
LocationUpdate_nonblank == By(DOMAIN LocationForm, [regionId |-> "anchored"], "nonblank")

LocationUpdate == By(DOMAIN LocationForm, [regionId |-> "anchored"], "set")
LocationCreate == By(DOMAIN LocationForm, [isAvailable |-> "true"], "as sent")

-----------------------------------------------------------------------------
(* admin/symboles: cultural symbols. *)

SymbolesForm == [name |-> "", category |-> "", description |-> "",
                 svgPath |-> "", sortOrder |-> "0"]

\* Mutant: an order of zero is taken for none.
SymbolesCalls_three ==
    [list   |-> "admin-symbols",
     create |-> Mutation({"admin-symbols"}, {"dialog", "form"}),
     update |-> Mutation({"admin-symbols"}, {"dialog", "id", "form"}),
     delete |-> Mutation({"admin-symbols"}, {"asked"}),
     sends  |-> By(DOMAIN SymbolesForm, [sortOrder |-> "3"], "text")]

SymbolesCalls ==
    [list   |-> "admin-symbols",
     create |-> Mutation({"admin-symbols"}, {"dialog", "form"}),
     update |-> Mutation({"admin-symbols"}, {"dialog", "id", "form"}),
     delete |-> Mutation({"admin-symbols"}, {"asked"}),
     sends  |-> By(DOMAIN SymbolesForm, [sortOrder |-> "0"], "text")]

SymbolesOpen == [shows |-> By(DOMAIN SymbolesForm, <<>>, "same"),
                 update |-> "dialog and id"]

SymbolesBar == [resets |-> {"form"}]

SymbolesRows == [field |-> "", offers |-> "none", writes |-> "none",
                 edit |-> TRUE, delete |-> "dialog"]

SymbolesInputs == By(DOMAIN SymbolesForm, [name |-> "text*",
                     sortOrder |-> "number"], "text")

-----------------------------------------------------------------------------
(* admin/regions. *)

RegionsForm == [name |-> "", capital |-> "", code |-> ""]

RegionsCalls ==
    [list   |-> "admin-regions",
     create |-> Mutation({"admin-regions"}, {"dialog", "form"}),
     update |-> Mutation({"admin-regions"}, {"dialog", "id", "form"}),
     delete |-> Mutation({"admin-regions"}, {"asked"}),
     sends  |-> By(DOMAIN RegionsForm, <<>>, "text")]

RegionsOpen == [shows |-> By(DOMAIN RegionsForm, <<>>, "same"),
                update |-> "dialog and id"]

RegionsBar == [resets |-> {"form"}]

RegionsRows == [field |-> "", offers |-> "none", writes |-> "none",
                edit |-> TRUE, delete |-> "dialog"]

RegionsInputs == By(DOMAIN RegionsForm, [name |-> "text*",
                    code |-> "capitals*"], "text")

\* Symbols and regions: the request is bound into the row that was read.
BoundUpdate(form) == By(DOMAIN form, <<>>, "set")
BoundCreate(form) == By(DOMAIN form, <<>>, "as sent")

-----------------------------------------------------------------------------
(* admin/publicites: advertisements.  One test on the edited id tells an   *)
(* update from a creation.                                                 *)

AdsForm == [title |-> "", partnerName |-> "", placement |-> "a",
            imageUrl |-> "", linkUrl |-> "", altText |-> "", pages |-> "",
            priority |-> "0", isActive |-> "true", startsAt |-> "",
            endsAt |-> ""]

AdsCalls ==
    [list   |-> "admin-ads",
     create |-> Mutation({"admin-ads"}, {"dialog", "id", "form"}),
     update |-> Mutation({"admin-ads"}, {"dialog", "id", "form"}),
     delete |-> Mutation({"admin-ads"}, {}),
     sends  |-> By(DOMAIN AdsForm, [startsAt |-> "null", endsAt |-> "null"],
                   "text")]

AdsOpen == [shows |-> By(DOMAIN AdsForm, [startsAt |-> "blank",
                         endsAt |-> "blank"], "same"),
            update |-> "id"]

AdsBar == [resets |-> {"form", "id"}]

\* The image is not a required input, but the service refuses a blank one.
AdsInputs ==
    By(DOMAIN AdsForm, [title |-> "line*", partnerName |-> "line*",
       altText |-> "line", placement |-> "option", linkUrl |-> "text*", imageUrl |-> "text*",
       pages |-> "choices", priority |-> "count", isActive |-> "flag",
       startsAt |-> "moment", endsAt |-> "moment"], "text")

AdsRows == [field |-> "", offers |-> "none", writes |-> "none", edit |-> TRUE,
            delete |-> "confirm"]

\* The service sanitizes three texts; the dates are not among its columns.
AdsUpdate == By(DOMAIN AdsForm, [title |-> "sanitized",
                partnerName |-> "sanitized", altText |-> "sanitized",
                startsAt |-> "never", endsAt |-> "never"], "set")
AdsCreate == By(DOMAIN AdsForm, [title |-> "sanitized",
                partnerName |-> "sanitized", altText |-> "sanitized",
                startsAt |-> "null", endsAt |-> "null",
                isActive |-> "true"], "as sent")

-----------------------------------------------------------------------------
(* proprietaire/etablissements: the establishments of an owner.  The place*)
(* is chosen on creation only, and the availability only on the row, whose *)
(* control saves the whole row.                                            *)

EstabForm == [placeId |-> "", type |-> "a", priceMinFcfa |-> "",
              priceMaxFcfa |-> "", stars |-> "3", amenities |-> "",
              phone |-> "", email |-> "", website |-> ""]

EstabCalls ==
    [list   |-> "owner-establishments",
     create |-> Mutation({"owner-establishments", "owner-stats"},
                         {"dialog", "form"}),
     update |-> Mutation({"owner-establishments"}, {"dialog", "id", "form"}),
     delete |-> Mutation({"owner-establishments", "owner-stats"}, {"asked"}),
     press  |-> Mutation({"owner-establishments"}, {}),
     sends  |-> By(DOMAIN EstabForm, [placeId |-> "int",
                     priceMinFcfa |-> "0", priceMaxFcfa |-> "0",
                     stars |-> "3", amenities |-> "list"], "text")]

EstabOpen == [shows |-> By(DOMAIN EstabForm, [phone |-> "blank",
                           email |-> "blank", website |-> "blank"], "same"),
              update |-> "dialog and id"]

EstabBar == [resets |-> {"form"}]

EstabRows == [field |-> "isAvailable", offers |-> "negation",
              writes |-> "row", edit |-> TRUE, delete |-> "dialog"]

EstabInputs ==
    By(DOMAIN EstabForm, [placeId |-> "option*", type |-> "option",
       priceMinFcfa |-> "number", priceMaxFcfa |-> "number",
       stars |-> "grade", amenities |-> "list"], "text")

EstabUpdate == By(DOMAIN EstabForm, [placeId |-> "never",
                  amenities |-> "set"], "nonblank")
EstabCreate == By(DOMAIN EstabForm, <<>>, "as sent")

-----------------------------------------------------------------------------
(* Pages without a form: a control on each row and, on three of them, a   *)
(* deletion.                                                               *)

HotelsCalls == [list   |-> "admin-establishments",
                delete |-> Mutation({"admin-establishments"}, {"asked"}),
                press  |-> Mutation({"admin-establishments"}, {})]
HotelsRows  == [field |-> "isAvailable", offers |-> "negation",
                writes |-> "column", edit |-> FALSE, delete |-> "dialog"]

TripsCalls == [list   |-> "admin-itineraries",
               delete |-> Mutation({"admin-itineraries"}, {"asked"}),
               press  |-> Mutation({"admin-itineraries"}, {})]
TripsRows  == [field |-> "isPublic", offers |-> "negation",
               writes |-> "column", edit |-> FALSE, delete |-> "dialog"]

UsersCalls == [list   |-> "admin-users",
               delete |-> Mutation({"admin-users"}, {}),
               press  |-> Mutation({"admin-users"}, {})]
UsersRows  == [field |-> "role", offers |-> "another", writes |-> "row",
               edit |-> FALSE, delete |-> "confirm"]

StaysCalls == [list  |-> "admin-reservations",
               press |-> Mutation({"admin-reservations"}, {})]
StaysRows  == [field |-> "status", offers |-> "another", writes |-> "column",
               edit |-> FALSE, delete |-> "none"]

GuestsCalls == [list  |-> "owner-reservations",
                press |-> Mutation({"owner-reservations", "owner-stats"}, {})]
GuestsRows  == [field |-> "status", offers |-> "another", writes |-> "column",
                edit |-> FALSE, delete |-> "none"]

\* compte: the stays a manager of stays booked, and those at their own
\* establishments, each under its tab.
BookedCalls == [list  |-> "my-reservations",
                press |-> Mutation({"my-reservations", "owner-reservations"}, {})]
BookedRows  == [field |-> "status", offers |-> "another", writes |-> "column",
                edit |-> FALSE, delete |-> "none"]

ReceivedCalls == [list  |-> "owner-reservations",
                  press |-> Mutation({"my-reservations", "owner-reservations"}, {})]
ReceivedRows  == [field |-> "status", offers |-> "another", writes |-> "column",
                  edit |-> FALSE, delete |-> "none"]

WikiCalls == [list  |-> "admin-wiki",
              press |-> Mutation({"admin-wiki"}, {})]
WikiRows  == [field |-> "isApproved", offers |-> "negation",
              writes |-> "column", edit |-> FALSE, delete |-> "none"]

\* Mutant: every article is listed.
WikiListed_all(v) == TRUE

\* The list is the public one: the approved articles, without the column
\* that says so, which the client then reads as false.
WikiListed(v) == v = "true"
WikiSeen(v) == "false"

-----------------------------------------------------------------------------
(* The pages together. *)

FormPage(form, calls, open, bar, rows, inputs, updates, creates) ==
    [form |-> form, calls |-> calls, open |-> open, bar |-> bar,
     rows |-> rows, inputs |-> inputs, updates |-> updates,
     creates |-> creates]

FormPages ==
    [lieux |-> FormPage(LieuxForm, LieuxCalls, LieuxOpen, LieuxBar, LieuxRows,
                        LieuxInputs, LieuxUpdate, LieuxCreate),
     location |-> FormPage(LocationForm, LocationCalls, LocationOpen,
                           LocationBar, LocationRows, LocationInputs,
                           LocationUpdate, LocationCreate),
     symboles |-> FormPage(SymbolesForm, SymbolesCalls, SymbolesOpen,
                           SymbolesBar, SymbolesRows, SymbolesInputs,
                           BoundUpdate(SymbolesForm), BoundCreate(SymbolesForm)),
     regions |-> FormPage(RegionsForm, RegionsCalls, RegionsOpen, RegionsBar,
                          RegionsRows, RegionsInputs,
                          BoundUpdate(RegionsForm), BoundCreate(RegionsForm)),
     publicites |-> FormPage(AdsForm, AdsCalls, AdsOpen, AdsBar, AdsRows,
                             AdsInputs, AdsUpdate, AdsCreate),
     etablissements |-> FormPage(EstabForm, EstabCalls, EstabOpen, EstabBar,
                                 EstabRows, EstabInputs, EstabUpdate,
                                 EstabCreate)]

RowPages ==
    [hotels |-> [calls |-> HotelsCalls, rows |-> HotelsRows],
     trips  |-> [calls |-> TripsCalls,  rows |-> TripsRows],
     users  |-> [calls |-> UsersCalls,  rows |-> UsersRows],
     stays  |-> [calls |-> StaysCalls,  rows |-> StaysRows],
     guests |-> [calls |-> GuestsCalls, rows |-> GuestsRows],
     booked |-> [calls |-> BookedCalls, rows |-> BookedRows],
     received |-> [calls |-> ReceivedCalls, rows |-> ReceivedRows],
     wiki   |-> [calls |-> WikiCalls,   rows |-> WikiRows]]

Rows(p) == IF p \in DOMAIN FormPages THEN FormPages[p].rows
           ELSE RowPages[p].rows

Ranges(p) == IF Rows(p).offers = "negation" THEN {"true", "false"}
             ELSE {"a", "b"}
=============================================================================
