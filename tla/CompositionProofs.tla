-------------------------- MODULE CompositionProofs --------------------------
(***************************************************************************)
(* The pages of MCVisitor together: that a behaviour of all of them is one *)
(* of each, so that what is proved of a page holds beside the others.     *)
(* First the page that has no proofs elsewhere, Desk, for every field of  *)
(* every form.                                                             *)
(***************************************************************************)
EXTENDS MCVisitor, VisitorProofs, TripsProofs

-----------------------------------------------------------------------------
(* Desk: the conversions on their way.                                     *)

\* What a row may hold in a field: what rows hold at the start, and the five
\* seats of a car that was given none.
Cells(how) == Held(how) \cup (IF how = "seats" THEN {"5"} ELSE {})

\* An input and how its text is sent, in some field of some form.
Ways == {<<"text", "text">>, <<"text*", "text">>, <<"capitals*", "text">>,
         <<"count", "text">>, <<"choices", "text">>, <<"option", "text">>,
         <<"flag", "text">>, <<"none", "text">>, <<"list", "list">>,
         <<"number", "0">>, <<"number*", "0">>, <<"seats", "5">>, <<"grade", "3">>,
         <<"option*", "int">>, <<"regions", "null">>, <<"moment", "null">>,
         <<"line", "text">>, <<"line*", "text">>}

\* The inputs whose text the service sanitizes.
Lines == {"line", "line*"}

\* What each input may hold, and each field with it.
LEMMA InputSets ==
    /\ Typed("text") = {"", "a", "b"} /\ Cells("text") = {"", "a", "b"}
    /\ Typed("text*") = {"a", "b"} /\ Cells("text*") = {"a", "b"}
    /\ Typed("capitals*") = {"A"} /\ Cells("capitals*") = {"A"}
    /\ Typed("number") = {"", "0", "1", "4"} /\ Cells("number") = {"0", "1", "4"}
    /\ Typed("seats") = {"", "0", "1", "4"} /\ Cells("seats") = {"1", "4", "5"}
    /\ Typed("number*") = {"0", "1", "4"} /\ Cells("number*") = {"0", "1", "4"}
    /\ Typed("count") = {"0", "1", "4"} /\ Cells("count") = {"0", "1", "4"}
    /\ Typed("grade") = {"1", "3", "4"} /\ Cells("grade") = {"1", "3", "4"}
    /\ Typed("list") = {"", "a", "a,", "a, b"} /\ Cells("list") = {"", "a", "a, b"}
    /\ Typed("choices") = {"", "a", "a, b"} /\ Cells("choices") = {"", "a", "a, b"}
    /\ Typed("option") = {"a", "b"} /\ Cells("option") = {"a", "b"}
    /\ Typed("option*") = {"1", "4"} /\ Cells("option*") = {"1", "4"}
    /\ Typed("regions") = {""} /\ Cells("regions") = {"NULL", "1", "4"}
    /\ Typed("moment") = {"", "1"} /\ Cells("moment") = {"NULL"}
    /\ Typed("flag") = {"true", "false"} /\ Cells("flag") = {"true", "false"}
    /\ Typed("none") = {} /\ Cells("none") = {"a", "b"}
    /\ Typed("line") = {"", "a", "b", " ", "a ", "long", "wide"}
    /\ Cells("line") = {"", "a", "b", "cut", "cut "}
    /\ Typed("line*") = {"a", "b", " ", "a ", "long", "wide"}
    /\ Cells("line*") = {"", "a", "b", "cut", "cut "}
BY DEF Typed, Held, Cells

\* A value that is shown and sent again is the same value.
LEMMA SentBack ==
    ASSUME NEW w \in Ways, NEW shows \in {"same", "blank"}, NEW v \in Cells(w[1])
    PROVE  /\ v \in Texts /\ Shown(shows, v) \in Texts
           /\ Sent(w[2], Shown(shows, v)) = v
<1>1. CASE w = <<"text", "text">>
  BY <1>1, InputSets DEF Shown, Sent, Texts
<1>2. CASE w = <<"text*", "text">>
  BY <1>2, InputSets DEF Shown, Sent, Texts
<1>3. CASE w = <<"capitals*", "text">>
  BY <1>3, InputSets DEF Shown, Sent, Texts
<1>4. CASE w = <<"number", "0">>
  BY <1>4, InputSets DEF Shown, Sent, Texts
<1>5. CASE w = <<"seats", "5">>
  BY <1>5, InputSets DEF Shown, Sent, Texts
<1>6. CASE w = <<"number*", "0">>
  BY <1>6, InputSets DEF Shown, Sent, Texts
<1>7. CASE w = <<"count", "text">>
  BY <1>7, InputSets DEF Shown, Sent, Texts
<1>8. CASE w = <<"grade", "3">>
  BY <1>8, InputSets DEF Shown, Sent, Texts
<1>9. CASE w = <<"list", "list">>
  BY <1>9, InputSets DEF Shown, Sent, Texts
<1>10. CASE w = <<"choices", "text">>
  BY <1>10, InputSets DEF Shown, Sent, Texts
<1>11. CASE w = <<"option", "text">>
  BY <1>11, InputSets DEF Shown, Sent, Texts
<1>12. CASE w = <<"option*", "int">>
  BY <1>12, InputSets DEF Shown, Sent, Texts
<1>13. CASE w = <<"regions", "null">>
  BY <1>13, InputSets DEF Shown, Sent, Texts
<1>14. CASE w = <<"moment", "null">>
  BY <1>14, InputSets DEF Shown, Sent, Texts
<1>15. CASE w = <<"flag", "text">>
  BY <1>15, InputSets DEF Shown, Sent, Texts
<1>16. CASE w = <<"none", "text">>
  BY <1>16, InputSets DEF Shown, Sent, Texts
<1>17. CASE w = <<"line", "text">>
  BY <1>17, InputSets DEF Shown, Sent, Texts
<1>18. CASE w = <<"line*", "text">>
  BY <1>18, InputSets DEF Shown, Sent, Texts
<1> QED
  BY <1>1, <1>2, <1>3, <1>4, <1>5, <1>6, <1>7, <1>8, <1>9, <1>10,
     <1>11, <1>12, <1>13, <1>14, <1>15, <1>16, <1>17, <1>18 DEF Ways

\* What is typed is sent for what it means, but for a car without seats, and
\* is what a row may hold, but for a moment; a line is sent as it was typed.
LEMMA SentIs ==
    ASSUME NEW w \in Ways, NEW t \in Typed(w[1])
    PROVE  /\ t \in Texts
           /\ w[1] \notin {"seats"} \cup Lines => Sent(w[2], t) = Meant(w[1], t)
           /\ w[1] \notin {"moment"} \cup Lines => Sent(w[2], t) \in Cells(w[1])
           /\ w[1] \in Lines => Sent(w[2], t) = t
           /\ w[1] \in {"text*", "option", "grade"} => Sent(w[2], t) \notin {"", "0", "NULL"}
<1>1. CASE w = <<"text", "text">>
  BY <1>1, InputSets DEF Sent, Meant, Texts, Lines
<1>2. CASE w = <<"text*", "text">>
  BY <1>2, InputSets DEF Sent, Meant, Texts, Lines
<1>3. CASE w = <<"capitals*", "text">>
  BY <1>3, InputSets DEF Sent, Meant, Texts, Lines
<1>4. CASE w = <<"number", "0">>
  BY <1>4, InputSets DEF Sent, Meant, Texts, Lines
<1>5. CASE w = <<"seats", "5">>
  BY <1>5, InputSets DEF Sent, Meant, Texts, Lines
<1>6. CASE w = <<"number*", "0">>
  BY <1>6, InputSets DEF Sent, Meant, Texts, Lines
<1>7. CASE w = <<"count", "text">>
  BY <1>7, InputSets DEF Sent, Meant, Texts, Lines
<1>8. CASE w = <<"grade", "3">>
  BY <1>8, InputSets DEF Sent, Meant, Texts, Lines
<1>9. CASE w = <<"list", "list">>
  BY <1>9, InputSets DEF Sent, Meant, Texts, Lines
<1>10. CASE w = <<"choices", "text">>
  BY <1>10, InputSets DEF Sent, Meant, Texts, Lines
<1>11. CASE w = <<"option", "text">>
  BY <1>11, InputSets DEF Sent, Meant, Texts, Lines
<1>12. CASE w = <<"option*", "int">>
  BY <1>12, InputSets DEF Sent, Meant, Texts, Lines
<1>13. CASE w = <<"regions", "null">>
  BY <1>13, InputSets DEF Sent, Meant, Texts, Lines
<1>14. CASE w = <<"moment", "null">>
  BY <1>14, InputSets DEF Sent, Meant, Texts, Lines
<1>15. CASE w = <<"flag", "text">>
  BY <1>15, InputSets DEF Sent, Meant, Texts, Lines
<1>16. CASE w = <<"none", "text">>
  BY <1>16, InputSets DEF Sent, Meant, Texts, Lines
<1>17. CASE w = <<"line", "text">>
  BY <1>17, InputSets DEF Sent, Meant, Texts, Lines
<1>18. CASE w = <<"line*", "text">>
  BY <1>18, InputSets DEF Sent, Meant, Texts, Lines
<1> QED
  BY <1>1, <1>2, <1>3, <1>4, <1>5, <1>6, <1>7, <1>8, <1>9, <1>10,
     <1>11, <1>12, <1>13, <1>14, <1>15, <1>16, <1>17, <1>18 DEF Ways

\* A line that is sanitized is one that a row may hold, and is what was meant
\* unless it was cut; a line that is stored again loses a blank behind the cut.
LEMMA LinesAre ==
    ASSUME NEW k \in Lines
    PROVE  /\ \A t \in Typed(k) : /\ Sanitized(t) \in Cells(k)
                                  /\ t \in TooLong \/ Sanitized(t) = Meant(k, t)
           /\ \A v \in Cells(k) : /\ Sanitized(v) \in Cells(k)
                                  /\ Sanitized(v) = IF v = CutAtBlank THEN "cut" ELSE v
<1>1. CASE k = "line"
  BY <1>1, InputSets DEF Sanitized, Meant, TooLong, CutAtBlank
<1>2. CASE k = "line*"
  BY <1>2, InputSets DEF Sanitized, Meant, TooLong, CutAtBlank
<1> QED
  BY <1>1, <1>2 DEF Lines

\* No other field holds such a text.
LEMMA OthersWhole == \A w \in Ways : w[1] \notin Lines => CutAtBlank \notin Cells(w[1])
<1> SUFFICES ASSUME NEW w \in Ways, w[1] \notin Lines PROVE CutAtBlank \notin Cells(w[1])
  OBVIOUS
<1>1. w[1] \in {"text", "text*", "capitals*", "count", "choices", "option", "flag", "none",
                "list", "number", "number*", "seats", "grade", "option*", "regions", "moment"}
  BY DEF Ways, Lines
<1>2. /\ CutAtBlank \notin Cells("text") /\ CutAtBlank \notin Cells("text*")
      /\ CutAtBlank \notin Cells("capitals*") /\ CutAtBlank \notin Cells("count")
      /\ CutAtBlank \notin Cells("choices") /\ CutAtBlank \notin Cells("option")
      /\ CutAtBlank \notin Cells("flag") /\ CutAtBlank \notin Cells("none")
      /\ CutAtBlank \notin Cells("list") /\ CutAtBlank \notin Cells("number")
      /\ CutAtBlank \notin Cells("number*") /\ CutAtBlank \notin Cells("seats")
      /\ CutAtBlank \notin Cells("grade") /\ CutAtBlank \notin Cells("option*")
      /\ CutAtBlank \notin Cells("regions") /\ CutAtBlank \notin Cells("moment")
  BY InputSets DEF CutAtBlank
<1> QED
  BY <1>1, <1>2

\* An update stores what was sent or keeps what the row held.
LEMMA UpdatedIs ==
    ASSUME NEW policy \in {"set", "sanitized", "nonblank", "anchored", "never"}, NEW v, NEW b
    PROVE  /\ policy # "sanitized" => Updated(policy, v, b) \in {v, b}
           /\ policy = "sanitized" => Updated(policy, v, b) = Sanitized(b)
           /\ policy = "never" => Updated(policy, v, b) = v
           /\ policy = "set" => Updated(policy, v, b) = b
           /\ policy = "nonblank" /\ b \notin {"", "0", "NULL"} => Updated(policy, v, b) = b
BY DEF Updated

\* A creation stores what was sent, or the default of the column.
LEMMA CreatedIs ==
    ASSUME NEW policy \in {"as sent", "sanitized", "true", "null"}, NEW b
    PROVE  /\ policy = "as sent" => Created(policy, b) = b
           /\ policy = "sanitized" => Created(policy, b) = Sanitized(b)
           /\ policy = "true" => Created(policy, b) = "true"
           /\ policy = "null" => Created(policy, b) = "NULL"
BY DEF Created

-----------------------------------------------------------------------------
(* Desk: the fields, page by page. *)

(***************************************************************************)
(* What the proofs need of a field: its conversions are among those above;*)
(* a moment is never stored; only a flag is created as "true"; the lines, *)
(* and they alone, are sanitized; and unless the field is listed as lost, *)
(* what is sent is stored.                                                 *)
(***************************************************************************)
FieldFits(p, f) ==
    LET P == FormPages[p]
    IN  /\ <<P.inputs[f], P.calls.sends[f]>> \in Ways
        /\ P.open.shows[f] \in {"same", "blank"}
        /\ P.updates[f] \in {"set", "sanitized", "nonblank", "anchored", "never"}
        /\ P.creates[f] \in {"as sent", "sanitized", "true", "null"}
        /\ P.inputs[f] \in Lines <=> P.updates[f] = "sanitized"
        /\ P.inputs[f] \in Lines <=> P.creates[f] = "sanitized"
        /\ P.form[f] \in Texts
        /\ P.inputs[f] = "none" => P.form[f] \in {"a", "b"}
        /\ P.inputs[f] = "moment" => P.updates[f] = "never"
        /\ P.inputs[f] = "moment" <=> P.creates[f] = "null"
        /\ P.creates[f] = "true" => P.inputs[f] = "flag"
        /\ \/ <<p, f>> \in LostOnUpdate
           \/ P.updates[f] = "sanitized"
           \/ P.updates[f] = "set" /\ P.inputs[f] # "seats"
           \/ P.updates[f] = "nonblank" /\ P.inputs[f] \in {"text*", "option", "grade"}
        /\ \/ <<p, f>> \in LostOnCreate
           \/ P.creates[f] = "sanitized"
           \/ P.creates[f] = "as sent" /\ P.inputs[f] # "seats"

\* A page that names no field treats them all alike.
LEMMA NoneNamed == DOMAIN <<>> = {}
OBVIOUS

\* The fields of each page.
LEMMA LieuxFit == \A f \in DOMAIN LieuxForm : FieldFits("lieux", f)
<1>1. DOMAIN LieuxForm =
        {"name", "slug", "type", "description", "lat", "lng", "regionId", "tags", "isActive"}
  BY DEF LieuxForm
<1>2. /\ \A f \in {"description", "lat", "lng", "regionId"} : <<"lieux", f>> \in LostOnUpdate
      /\ \A f \in {"isActive"} : <<"lieux", f>> \in LostOnCreate
  BY DEF LostOnUpdate, LostOnCreate
<1>3. /\ FieldFits("lieux", "name")
      /\ FieldFits("lieux", "slug")
      /\ FieldFits("lieux", "type")
      /\ FieldFits("lieux", "description")
      /\ FieldFits("lieux", "lat")
      /\ FieldFits("lieux", "lng")
      /\ FieldFits("lieux", "regionId")
      /\ FieldFits("lieux", "tags")
      /\ FieldFits("lieux", "isActive")
  BY <1>2, ZenonT(60)
     DEF FieldFits, Ways, Lines, Texts, By, FormPages, FormPage, LieuxForm, LieuxCalls, LieuxOpen,
         LieuxInputs, LieuxUpdate, LieuxCreate
<1> QED
  BY <1>1, <1>3

LEMMA LocationFit == \A f \in DOMAIN LocationForm : FieldFits("location", f)
<1>1. DOMAIN LocationForm =
        {"brand", "model", "year", "category", "seats", "transmission", "fuelType",
         "pricePerDay", "depositFcfa", "features", "phone", "whatsapp", "city",
         "regionId", "isAvailable"}
  BY DEF LocationForm
<1>2. /\ \A f \in {"seats", "regionId"} : <<"location", f>> \in LostOnUpdate
      /\ \A f \in {"isAvailable", "seats"} : <<"location", f>> \in LostOnCreate
  BY DEF LostOnUpdate, LostOnCreate
<1>3. /\ FieldFits("location", "brand")
      /\ FieldFits("location", "model")
      /\ FieldFits("location", "year")
      /\ FieldFits("location", "category")
      /\ FieldFits("location", "seats")
      /\ FieldFits("location", "transmission")
      /\ FieldFits("location", "fuelType")
      /\ FieldFits("location", "pricePerDay")
      /\ FieldFits("location", "depositFcfa")
      /\ FieldFits("location", "features")
      /\ FieldFits("location", "phone")
      /\ FieldFits("location", "whatsapp")
      /\ FieldFits("location", "city")
      /\ FieldFits("location", "regionId")
      /\ FieldFits("location", "isAvailable")
  BY <1>2, ZenonT(60)
     DEF FieldFits, Ways, Lines, Texts, By, FormPages, FormPage, LocationForm, LocationCalls,
         LocationOpen, LocationInputs, LocationUpdate, LocationCreate
<1> QED
  BY <1>1, <1>3

LEMMA SymbolesFit == \A f \in DOMAIN SymbolesForm : FieldFits("symboles", f)
<1>1. DOMAIN SymbolesForm =
        {"name", "category", "description", "svgPath", "sortOrder"}
  BY DEF SymbolesForm
<1>2. /\ FieldFits("symboles", "name")
      /\ FieldFits("symboles", "category")
      /\ FieldFits("symboles", "description")
      /\ FieldFits("symboles", "svgPath")
      /\ FieldFits("symboles", "sortOrder")
  BY NoneNamed, ZenonT(60)
     DEF FieldFits, Ways, Lines, Texts, By, FormPages, FormPage, SymbolesForm, SymbolesCalls,
         SymbolesOpen, SymbolesInputs, BoundUpdate, BoundCreate
<1> QED
  BY <1>1, <1>2

LEMMA RegionsFit == \A f \in DOMAIN RegionsForm : FieldFits("regions", f)
<1>1. DOMAIN RegionsForm =
        {"name", "capital", "code"}
  BY DEF RegionsForm
<1>2. /\ FieldFits("regions", "name")
      /\ FieldFits("regions", "capital")
      /\ FieldFits("regions", "code")
  BY NoneNamed, ZenonT(60)
     DEF FieldFits, Ways, Lines, Texts, By, FormPages, FormPage, RegionsForm, RegionsCalls,
         RegionsOpen, RegionsInputs, BoundUpdate, BoundCreate
<1> QED
  BY <1>1, <1>2

LEMMA AdsFit == \A f \in DOMAIN AdsForm : FieldFits("publicites", f)
<1>1. DOMAIN AdsForm =
        {"title", "partnerName", "placement", "imageUrl", "linkUrl", "altText", "pages",
         "priority", "isActive", "startsAt", "endsAt"}
  BY DEF AdsForm
<1>2. /\ \A f \in {"startsAt", "endsAt"} : <<"publicites", f>> \in LostOnUpdate
      /\ \A f \in {"isActive", "startsAt", "endsAt"} : <<"publicites", f>> \in LostOnCreate
  BY DEF LostOnUpdate, LostOnCreate
<1>3. /\ FieldFits("publicites", "title")
      /\ FieldFits("publicites", "partnerName")
      /\ FieldFits("publicites", "placement")
      /\ FieldFits("publicites", "imageUrl")
      /\ FieldFits("publicites", "linkUrl")
      /\ FieldFits("publicites", "altText")
      /\ FieldFits("publicites", "pages")
      /\ FieldFits("publicites", "priority")
      /\ FieldFits("publicites", "isActive")
      /\ FieldFits("publicites", "startsAt")
      /\ FieldFits("publicites", "endsAt")
  BY <1>2, ZenonT(60)
     DEF FieldFits, Ways, Lines, Texts, By, FormPages, FormPage, AdsForm, AdsCalls, AdsOpen,
         AdsInputs, AdsUpdate, AdsCreate
<1> QED
  BY <1>1, <1>3

LEMMA EstabFit == \A f \in DOMAIN EstabForm : FieldFits("etablissements", f)
<1>1. DOMAIN EstabForm =
        {"placeId", "type", "priceMinFcfa", "priceMaxFcfa", "stars", "amenities", "phone",
         "email", "website"}
  BY DEF EstabForm
<1>2. \A f \in {"placeId", "priceMinFcfa", "priceMaxFcfa", "phone", "email", "website"} :
        <<"etablissements", f>> \in LostOnUpdate
  BY DEF LostOnUpdate, LostOnCreate
<1>3. /\ FieldFits("etablissements", "placeId")
      /\ FieldFits("etablissements", "type")
      /\ FieldFits("etablissements", "priceMinFcfa")
      /\ FieldFits("etablissements", "priceMaxFcfa")
      /\ FieldFits("etablissements", "stars")
      /\ FieldFits("etablissements", "amenities")
      /\ FieldFits("etablissements", "phone")
      /\ FieldFits("etablissements", "email")
      /\ FieldFits("etablissements", "website")
  BY <1>2, NoneNamed, ZenonT(60)
     DEF FieldFits, Ways, Lines, Texts, By, FormPages, FormPage, EstabForm, EstabCalls, EstabOpen,
         EstabInputs, EstabUpdate, EstabCreate
<1> QED
  BY <1>1, <1>3

\* Every field of every form is one of these.
LEMMA FieldsFit == \A d \in FormFields : FieldFits(d[1], d[2])
<1>1. /\ FormPages.lieux.form = LieuxForm /\ FormPages.location.form = LocationForm
      /\ FormPages.symboles.form = SymbolesForm /\ FormPages.regions.form = RegionsForm
      /\ FormPages.publicites.form = AdsForm /\ FormPages.etablissements.form = EstabForm
  BY DEF FormPages, FormPage
<1>2. DOMAIN FormPages = {"lieux", "location", "symboles", "regions", "publicites",
                          "etablissements"}
  BY DEF FormPages
<1>3. \A p \in DOMAIN FormPages : \A f \in DOMAIN FormPages[p].form : FieldFits(p, f)
  BY <1>1, <1>2, LieuxFit, LocationFit, SymbolesFit, RegionsFit, AdsFit, EstabFit
<1> QED
  BY <1>3 DEF FormFields

\* A control writes one of two values, neither of them the one it is shown.
LEMMA OffersTwo ==
    ASSUME NEW p, Rows(p).offers \in {"negation", "another"}
    PROVE  /\ Ranges(p) \subseteq Texts
           /\ \A v : Offered(Rows(p).offers, v) = Ranges(p) \ {v}
           /\ Rows(p).offers = "negation" => Ranges(p) = {"true", "false"}
BY DEF Ranges, Offered, Texts

\* The controls of the pages that have forms are switches.
LEMMA FormControls ==
    ASSUME NEW d \in FormFields, Rows(d[1]).field = d[2]
    PROVE  /\ Rows(d[1]).offers = "negation" /\ d[1] # "wiki"
           /\ Cells(FormPages[d[1]].inputs[d[2]]) = {"true", "false"}
<1>1. /\ d[1] \in {"lieux", "location", "symboles", "regions", "publicites", "etablissements"}
      /\ d[2] \in DOMAIN FormPages[d[1]].form
  BY DEF FormFields, FormPages
<1>2. CASE d[1] = "lieux"
  <2>1. Rows("lieux").field = "isActive" /\ Rows("lieux").offers = "negation"
    BY DEF Rows, FormPages, FormPage, LieuxRows
  <2>2. FormPages["lieux"].inputs["isActive"] = "flag"
    BY DEF FormPages, FormPage, LieuxInputs, LieuxForm, By
  <2> QED
    BY <1>2, <2>1, <2>2, InputSets
<1>3. CASE d[1] = "location"
  <2>1. Rows("location").field = "isAvailable" /\ Rows("location").offers = "negation"
    BY DEF Rows, FormPages, FormPage, LocationRows
  <2>2. FormPages["location"].inputs["isAvailable"] = "flag"
    BY DEF FormPages, FormPage, LocationInputs, LocationForm, By
  <2> QED
    BY <1>3, <2>1, <2>2, InputSets
<1>4. CASE d[1] \in {"symboles", "regions", "publicites"}
  <2>1. /\ Rows("symboles").field = "" /\ Rows("regions").field = ""
        /\ Rows("publicites").field = ""
    BY DEF Rows, FormPages, FormPage, SymbolesRows, RegionsRows, AdsRows
  <2>2. /\ "" \notin DOMAIN FormPages["symboles"].form
        /\ "" \notin DOMAIN FormPages["regions"].form
        /\ "" \notin DOMAIN FormPages["publicites"].form
    BY DEF FormPages, FormPage, SymbolesForm, RegionsForm, AdsForm
  <2> QED
    BY <1>1, <1>4, <2>1, <2>2
<1>5. CASE d[1] = "etablissements"
  <2>1. /\ Rows("etablissements").field = "isAvailable"
        /\ "isAvailable" \notin DOMAIN FormPages["etablissements"].form
    BY DEF Rows, FormPages, FormPage, EstabRows, EstabForm
  <2> QED
    BY <1>1, <1>5, <2>1
<1> QED
  BY <1>1, <1>2, <1>3, <1>4, <1>5

\* The others write a column or a row of the page they are on.
LEMMA RowControls ==
    ASSUME NEW d \in RowFields
    PROVE  /\ d \notin FormFields
           /\ Rows(d[1]).offers \in {"negation", "another"}
           /\ d[1] = "wiki" => Rows(d[1]).offers = "negation"
<1>1. d[1] \in {"hotels", "trips", "users", "stays", "guests", "booked", "received", "wiki"}
  BY DEF RowFields, RowPages
<1>2. \A p \in {"hotels", "trips", "users", "stays", "guests", "booked", "received", "wiki"} :
        /\ p \notin DOMAIN FormPages
        /\ Rows(p) = RowPages[p].rows
  BY DEF FormPages, Rows
<1>3. \A p \in {"hotels", "trips", "users", "stays", "guests", "booked", "received", "wiki"} :
        /\ RowPages[p].rows.offers \in {"negation", "another"}
        /\ p = "wiki" => RowPages[p].rows.offers = "negation"
  BY DEF RowPages, HotelsRows, TripsRows, UsersRows, StaysRows, GuestsRows, BookedRows,
         ReceivedRows, WikiRows
<1>4. d \notin FormFields
  BY <1>1, <1>2 DEF FormFields
<1> QED
  BY <1>1, <1>2, <1>3, <1>4

-----------------------------------------------------------------------------
(* Desk: what the fields keep. *)

CellFits == cell \in IF OnForm THEN Cells(On.inputs[Field]) \cup {NoCell} ELSE Ranges(desk[1])

\* An open form has a row or makes one, and holds what was typed or else what
\* the row, or the blank form, put there.
InputFits ==
    input.open =>
        /\ OnForm
        /\ input.new <=> cell = NoCell
        /\ input.typed => input.text \in Typed(On.inputs[Field])
        /\ ~input.typed => input.text = IF input.new THEN On.form[Field]
                                        ELSE Shown(On.open.shows[Field], cell)

DeskInv == DeskTypeOK /\ CellFits /\ InputFits /\ SavesStoreWhatIsTyped

\* What a form that can be saved sends, and what is made of it.
LEMMA SaveIs ==
    ASSUME DeskInv, SaveCell
    PROVE  LET sent == Sent(On.calls.sends[Field], input.text)
               new  == Created(On.creates[Field], sent)
               over == Updated(On.updates[Field], cell, sent)
               kind == On.inputs[Field]
           IN  /\ OnForm /\ FieldFits(desk[1], Field)
               /\ input.new => /\ new \in Cells(kind)
                               /\ desk \notin LostOnCreate =>
                                      input.text \in TooLong \/ new = Meant(kind, input.text)
               /\ ~input.new => over \in Cells(kind) /\ cell # NoCell
               /\ ~input.new /\ ~input.typed =>
                      over = IF cell = CutAtBlank THEN "cut" ELSE cell
               /\ ~input.new /\ input.typed /\ desk \notin LostOnUpdate =>
                      input.text \in TooLong \/ over = Meant(kind, input.text)
<1> DEFINE sent == Sent(On.calls.sends[Field], input.text)
           new  == Created(On.creates[Field], sent)
           over == Updated(On.updates[Field], cell, sent)
           kind == On.inputs[Field]
           way  == <<kind, On.calls.sends[Field]>>
<1>1. /\ OnForm /\ FieldFits(desk[1], Field) /\ desk = <<desk[1], Field>>
  BY FieldsFit DEF DeskInv, InputFits, SaveCell, OnForm, Field, FormFields
<1>2. /\ way \in Ways /\ way[1] = kind /\ On.open.shows[Field] \in {"same", "blank"}
      /\ On.updates[Field] \in {"set", "sanitized", "nonblank", "anchored", "never"}
      /\ On.creates[Field] \in {"as sent", "sanitized", "true", "null"}
      /\ kind \in Lines <=> On.updates[Field] = "sanitized"
      /\ kind \in Lines <=> On.creates[Field] = "sanitized"
  BY <1>1 DEF FieldFits, On
<1>3. ~input.new => cell # NoCell /\ cell \in Cells(kind)
  BY <1>1 DEF DeskInv, InputFits, CellFits, SaveCell
<1>4. /\ kind \notin Lines => over \in {cell, sent}
      /\ kind \in Lines => over = Sanitized(sent)
      /\ On.updates[Field] = "never" => over = cell
      /\ On.updates[Field] = "set" => over = sent
      /\ On.updates[Field] = "nonblank" /\ sent \notin {"", "0", "NULL"} => over = sent
  <2> HIDE DEF kind, sent
  <2>1. /\ On.updates[Field] # "sanitized" => over \in {cell, sent}
        /\ On.updates[Field] = "sanitized" => over = Sanitized(sent)
        /\ On.updates[Field] = "never" => over = cell
        /\ On.updates[Field] = "set" => over = sent
        /\ On.updates[Field] = "nonblank" /\ sent \notin {"", "0", "NULL"} => over = sent
    <3>1. On.updates[Field] \in {"set", "sanitized", "nonblank", "anchored", "never"}
      BY <1>2
    <3>2. ASSUME NEW policy \in {"set", "sanitized", "nonblank", "anchored", "never"}
          PROVE  /\ policy # "sanitized" => Updated(policy, cell, sent) \in {cell, sent}
                 /\ policy = "sanitized" => Updated(policy, cell, sent) = Sanitized(sent)
                 /\ policy = "never" => Updated(policy, cell, sent) = cell
                 /\ policy = "set" => Updated(policy, cell, sent) = sent
                 /\ policy = "nonblank" /\ sent \notin {"", "0", "NULL"} =>
                        Updated(policy, cell, sent) = sent
      BY UpdatedIs
    <3> QED
      BY <3>1, <3>2
  <2> QED
    BY <1>2, <2>1
<1>5. CASE input.new
  <2>1. /\ kind = "none" => On.form[Field] \in {"a", "b"}
        /\ kind = "moment" <=> On.creates[Field] = "null"
        /\ On.creates[Field] = "true" => kind = "flag"
        /\ \/ desk \in LostOnCreate
           \/ On.creates[Field] = "sanitized"
           \/ On.creates[Field] = "as sent" /\ kind # "seats"
    BY <1>1 DEF FieldFits, On
  <2>2. /\ On.creates[Field] = "as sent" => new = sent
        /\ On.creates[Field] = "sanitized" => new = Sanitized(sent)
        /\ On.creates[Field] = "true" => new = "true"
        /\ On.creates[Field] = "null" => new = "NULL"
    BY <1>2, CreatedIs
  <2>3. /\ Cells("moment") = {"NULL"} /\ Cells("flag") = {"true", "false"}
        /\ Cells("none") = {"a", "b"}
    BY InputSets
  <2>4. \/ input.text \in Typed(kind)
        \/ kind = "none" /\ input.text \in {"a", "b"}
    BY <1>1, <1>5, <2>1 DEF DeskInv, InputFits, SaveCell, Acceptable
  <2>5. CASE input.text \in Typed(kind) /\ kind \notin Lines
    <3>1. /\ kind # "seats" => sent = Meant(kind, input.text)
          /\ kind # "moment" => sent \in Cells(kind)
      BY <1>2, <2>5, SentIs
    <3> QED
      BY <1>1, <1>2, <1>5, <2>1, <2>2, <2>3, <2>5, <3>1
  <2>6. CASE input.text \in Typed(kind) /\ kind \in Lines
    <3>1. sent = input.text
      BY <1>2, <2>6, SentIs
    <3> QED
      BY <1>1, <1>2, <1>5, <2>2, <2>6, <3>1, LinesAre
  <2>7. CASE kind = "none" /\ input.text \in {"a", "b"}
    <3>1. On.calls.sends[Field] = "text" /\ kind \notin Lines
      BY <1>2, <2>7 DEF Ways, Lines
    <3>2. sent = input.text /\ Meant(kind, input.text) = input.text
      BY <2>7, <3>1 DEF Sent, Meant
    <3> QED
      BY <1>1, <1>2, <1>5, <2>1, <2>2, <2>3, <2>7, <3>1, <3>2
  <2> QED
    BY <2>4, <2>5, <2>6, <2>7
<1>6. CASE ~input.new /\ ~input.typed
  <2>1. sent = cell
    BY <1>1, <1>2, <1>3, <1>6, SentBack DEF DeskInv, InputFits, SaveCell
  <2>2. CASE kind \in Lines
    <3>1. over = Sanitized(cell)
      BY <1>4, <2>1, <2>2
    <3> QED
      BY <1>1, <1>3, <1>6, <2>2, <3>1, LinesAre
  <2>3. CASE kind \notin Lines
    <3>1. cell # CutAtBlank
      BY <1>2, <1>3, <1>6, <2>3, OthersWhole
    <3>2. over = cell
      BY <1>4, <2>1, <2>3
    <3> QED
      BY <1>1, <1>3, <1>6, <3>1, <3>2
  <2> QED
    BY <2>2, <2>3
<1>7. CASE ~input.new /\ input.typed
  <2>1. input.text \in Typed(kind)
    BY <1>7 DEF DeskInv, InputFits, SaveCell
  <2>2. CASE kind \in Lines
    <3>1. sent = input.text
      BY <1>2, <2>1, <2>2, SentIs
    <3>2. over = Sanitized(sent)
      BY <1>4, <2>2
    <3> QED
      BY <1>1, <1>3, <1>7, <2>1, <2>2, <3>1, <3>2, LinesAre
  <2>3. CASE kind \notin Lines
    <3>1. /\ kind # "seats" => sent = Meant(kind, input.text)
          /\ kind # "moment" => sent \in Cells(kind)
          /\ kind \in {"text*", "option", "grade"} => sent \notin {"", "0", "NULL"}
      BY <1>2, <2>1, <2>3, SentIs
    <3>2. /\ over \in {cell, sent}
          /\ On.updates[Field] = "never" => over = cell
          /\ On.updates[Field] = "set" => over = sent
          /\ On.updates[Field] = "nonblank" /\ sent \notin {"", "0", "NULL"} => over = sent
      BY <1>4, <2>3
    <3>3. /\ kind = "moment" => On.updates[Field] = "never"
          /\ \/ desk \in LostOnUpdate
             \/ On.updates[Field] = "set" /\ kind # "seats"
             \/ On.updates[Field] = "nonblank" /\ kind \in {"text*", "option", "grade"}
      BY <1>1, <1>2, <2>3 DEF FieldFits, On
    <3> QED
      BY <1>1, <1>3, <1>7, <3>1, <3>2, <3>3
  <2> QED
    BY <2>2, <2>3
<1> QED
  BY <1>5, <1>6, <1>7 DEF DeskInv, DeskTypeOK

\* A control that is pressed.
LEMMA PressIs ==
    ASSUME DeskInv, PressCell
    PROVE  /\ desk' = desk /\ cell # NoCell
           /\ cell' \in Ranges(desk[1]) /\ cell' \in Texts /\ cell' # Seen
           /\ OnForm => Ranges(desk[1]) = Cells(On.inputs[Field])
           /\ desk[1] = "wiki" => Ranges(desk[1]) = {"true", "false"}
<1>1. CASE OnForm
  <2>1. /\ Rows(desk[1]).offers = "negation"
        /\ Cells(On.inputs[Field]) = {"true", "false"} /\ desk[1] # "wiki"
    BY <1>1, FormControls DEF OnForm, PressCell, Field, On
  <2> QED
    BY <2>1, OffersTwo DEF PressCell
<1>2. CASE ~OnForm
  <2>1. desk \in RowFields
    BY <1>2 DEF DeskInv, DeskTypeOK, OnForm
  <2> QED
    BY <1>2, <2>1, RowControls, OffersTwo DEF PressCell
<1> QED
  BY <1>1, <1>2

\* The invariant is inductive.
LEMMA DeskInitInv == DeskInit => DeskInv
<1> SUFFICES ASSUME DeskInit PROVE DeskInv
  OBVIOUS
<1>1. input = NoInput /\ stored = "no"
  BY DEF DeskInit
<1>2. DeskTypeOK
  <2>1. NoInput \in [open : BOOLEAN, text : Texts, new : BOOLEAN, typed : BOOLEAN]
    BY DEF NoInput, Texts
  <2> QED
    BY <1>1, <2>1, Zenon DEF DeskInit, DeskTypeOK
<1>3. CellFits
  BY DEF DeskInit, CellFits, Cells
<1> QED
  BY <1>1, <1>2, <1>3 DEF DeskInv, InputFits, NoInput, SavesStoreWhatIsTyped

LEMMA DeskNextInv == DeskInv /\ [DeskNext]_deskVars => DeskInv'
<1> SUFFICES ASSUME DeskInv, [DeskNext]_deskVars PROVE DeskInv'
  OBVIOUS
<1>1. DeskTypeOK /\ CellFits /\ InputFits /\ SavesStoreWhatIsTyped
  BY DEF DeskInv
<1>2. /\ input \in [open : BOOLEAN, text : Texts, new : BOOLEAN, typed : BOOLEAN]
      /\ desk \in FormFields \cup RowFields
  BY <1>1 DEF DeskTypeOK
<1>3. OnForm => /\ FieldFits(desk[1], Field) /\ On.form[Field] \in Texts
                /\ On.open.shows[Field] \in {"same", "blank"}
                /\ <<On.inputs[Field], On.calls.sends[Field]>> \in Ways
  BY FieldsFit DEF OnForm, Field, On, FieldFits
<1>4. CASE OpenBlank
  BY <1>1, <1>2, <1>3, <1>4
     DEF OpenBlank, DeskInv, DeskTypeOK, CellFits, InputFits, SavesStoreWhatIsTyped, OnForm, On,
         Field
<1>5. CASE OpenCell
  <2>1. cell \in Cells(On.inputs[Field])
    BY <1>1, <1>5 DEF OpenCell, CellFits
  <2>2. Shown(On.open.shows[Field], cell) \in Texts
    BY <1>3, <1>5, <2>1, SentBack DEF OpenCell
  <2> QED
    BY <1>1, <1>2, <1>5, <2>2
       DEF OpenCell, DeskInv, DeskTypeOK, CellFits, InputFits, SavesStoreWhatIsTyped, OnForm,
           On, Field
<1>6. CASE TypeOver
  <2>1. PICK t \in Typed(On.inputs[Field]) : input' = [input EXCEPT !.text = t, !.typed = TRUE]
    BY <1>6 DEF TypeOver
  <2>2. t \in Texts
    BY <1>1, <1>3, <1>6, <2>1, SentIs DEF TypeOver, InputFits
  <2> QED
    BY <1>1, <1>2, <1>6, <2>1, <2>2
       DEF TypeOver, DeskInv, DeskTypeOK, CellFits, InputFits, SavesStoreWhatIsTyped, OnForm,
           On, Field
<1>7. CASE SaveCell
  <2>1. /\ input' = [input EXCEPT !.open = FALSE] /\ desk' = desk
        /\ input.new => /\ stored' = "created"
                        /\ cell' = Created(On.creates[Field],
                                           Sent(On.calls.sends[Field], input.text))
        /\ ~input.new => /\ stored' = IF input.typed THEN "typed" ELSE "untouched"
                         /\ cell' = Updated(On.updates[Field], cell,
                                            Sent(On.calls.sends[Field], input.text))
    BY <1>7 DEF SaveCell
  <2>2. /\ OnForm /\ cell' \in Cells(On.inputs[Field])
        /\ stored' = "created" /\ desk \notin LostOnCreate =>
               input.text \in TooLong \/ cell' = Meant(On.inputs[Field], input.text)
        /\ stored' = "typed" /\ desk \notin LostOnUpdate =>
               input.text \in TooLong \/ cell' = Meant(On.inputs[Field], input.text)
    BY <1>2, <1>7, <2>1, SaveIs
  <2>3. /\ input'.open = FALSE /\ input'.text = input.text
        /\ input' \in [open : BOOLEAN, text : Texts, new : BOOLEAN, typed : BOOLEAN]
        /\ stored' \in {"created", "typed", "untouched"}
    BY <1>2, <2>1
  <2> QED
    BY <1>1, <2>1, <2>2, <2>3
       DEF DeskInv, DeskTypeOK, CellFits, InputFits, SavesStoreWhatIsTyped, OnForm, On, Field
<1>8. CASE PressCell
  <2>1. input' = NoInput /\ stored' = "pressed"
    BY <1>8 DEF PressCell
  <2> QED
    BY <1>1, <1>8, <2>1, PressIs
       DEF DeskInv, DeskTypeOK, CellFits, InputFits, SavesStoreWhatIsTyped, OnForm, On, Field,
           NoInput, Texts
<1>9. CASE UNCHANGED deskVars
  BY <1>1, <1>9 DEF deskVars, DeskInv, DeskTypeOK, CellFits, InputFits, SavesStoreWhatIsTyped,
     OnForm, On, Field
<1> QED
  BY <1>4, <1>5, <1>6, <1>7, <1>8, <1>9 DEF DeskNext

LEMMA DeskInvariant == DeskSpec => []DeskInv
  BY DeskInitInv, DeskNextInv, PTL DEF DeskSpec

(***************************************************************************)
(* What is typed into a form is what the row then holds, but in the fields *)
(* that are named and for a text too long for its column.                  *)
(***************************************************************************)
THEOREM SavesKeepWhatIsTyped == DeskSpec => []SavesStoreWhatIsTyped
<1>1. DeskInv => SavesStoreWhatIsTyped
  BY DEF DeskInv
<1> QED
  BY <1>1, DeskInvariant, PTL

(***************************************************************************)
(* The form holds one of the texts the conversions tell apart, whatever   *)
(* was opened, typed or saved.                                             *)
(***************************************************************************)
THEOREM DeskTypeCorrect == DeskSpec => []DeskTypeOK
<1>1. DeskInv => DeskTypeOK
  BY DEF DeskInv
<1> QED
  BY <1>1, DeskInvariant, PTL

(***************************************************************************)
(* A row that is opened and saved untouched is the row it was: whatever is *)
(* shown of a value and sent again is that value, and every way to update *)
(* then stores or keeps it, but for the blank that a cut left at the end. *)
(***************************************************************************)
THEOREM UntouchedRowsStay == DeskSpec => UntouchedSaveKeepsRow
<1>1. DeskInv /\ [DeskNext]_deskVars =>
        [stored' = "untouched" => cell' = IF cell = CutAtBlank THEN "cut" ELSE cell]_deskVars
  <2> SUFFICES ASSUME DeskInv, DeskNext, stored' = "untouched"
               PROVE  cell' = IF cell = CutAtBlank THEN "cut" ELSE cell
    BY DEF deskVars
  <2>1. SaveCell /\ ~input.new /\ ~input.typed
    BY DEF DeskNext, OpenBlank, OpenCell, TypeOver, PressCell, SaveCell
  <2> QED
    BY <2>1, SaveIs DEF SaveCell
<1> QED
  BY <1>1, DeskInvariant, PTL DEF DeskSpec, UntouchedSaveKeepsRow

(***************************************************************************)
(* A control changes its row, but for the moderation, which never does.   *)
(***************************************************************************)
THEOREM ControlsWrite == DeskSpec => ControlsChangeTheirRows
<1>1. DeskInv /\ [DeskNext]_deskVars =>
        [stored' = "pressed" => (cell' # cell <=> desk[1] # "wiki")]_deskVars
  <2> SUFFICES ASSUME DeskInv, DeskNext, stored' = "pressed"
               PROVE  cell' # cell <=> desk[1] # "wiki"
    BY DEF deskVars
  <2>1. PressCell
    BY DEF DeskNext, OpenBlank, OpenCell, TypeOver, PressCell, SaveCell
  <2> QED
    BY <2>1, PressIs DEF PressCell, Listed, Seen, WikiListed, WikiSeen
<1> QED
  BY <1>1, DeskInvariant, PTL DEF DeskSpec, ControlsChangeTheirRows

-----------------------------------------------------------------------------
(* The pages together. *)

Machines == {"trips", "favorites", "reviews", "form", "desk", "account", "search", "pager",
             "stays", "dialog"}

\* Each page starts where it can, running or parked.
LEMMA PagesStart ==
    ASSUME MCInit
    PROVE  /\ machine \in Machines
           /\ TripsInit /\ FavInit /\ RevInit /\ FormInit /\ DeskInit /\ AccountInit
           /\ SearchInit /\ PagerInit /\ StaysInit /\ DialogInit
BY Zenon DEF MCInit, Machines, TripsParked, FavParked, RevParked, RevOpening, DeskParked,
   SearchParked, PagerParked, DialogParked

\* A step is a step of one page and leaves the others alone.
LEMMA PagesStep ==
    ASSUME [MCNext]_vars
    PROVE  /\ machine' = machine
           /\ [TripsNext]_tripVars /\ [FavNext]_favVars /\ [RevNext]_revVars
           /\ [FormNext]_formVars /\ [DeskNext]_deskVars /\ [AccountNext]_accountVars
           /\ [SearchNext]_searchVars /\ [PagerNext]_pagerVars /\ [StaysNext]_stayVars
           /\ [DialogNext]_dialogVars
BY DEF MCNext, vars

(***************************************************************************)
(* A behaviour of the pages together is a behaviour of every page: no page*)
(* relies on what another keeps, or writes it.                            *)
(***************************************************************************)
THEOREM PagesCompose ==
    MCSpec => /\ [](machine \in Machines)
              /\ TripsSpec /\ FavSpec /\ RevSpec /\ FormSpec /\ DeskSpec /\ AccountSpec
              /\ SearchSpec /\ PagerSpec /\ StaysSpec /\ DialogSpec
<1>1. machine \in Machines /\ [MCNext]_vars => (machine \in Machines)'
  BY PagesStep
<1> QED
  BY <1>1, PagesStart, PagesStep, PTL
     DEF MCSpec, TripsSpec, FavSpec, RevSpec, FormSpec, DeskSpec, AccountSpec, SearchSpec,
         PagerSpec, StaysSpec, DialogSpec


(***************************************************************************)
(* Each page that runs is as the code can make it.                        *)
(***************************************************************************)
THEOREM VisitorTypeCorrect == MCSpec => []VisitorTypeOK
<1>1. /\ machine \in Machines /\ TripsTypeOK /\ FavTypeOK /\ RevTypeOK /\ FormTypeOK
      /\ DeskTypeOK /\ AccountTypeOK /\ SearchTypeOK /\ PagerTypeOK /\ StaysTypeOK
      /\ DialogTypeOK
      => VisitorTypeOK
  BY DEF Machines, VisitorTypeOK
<1> QED
  BY <1>1, PagesCompose, TripsTypeCorrect, FavoritesTypeCorrect, ReviewsTypeCorrect,
     ReviewFormTypeCorrect, DeskTypeCorrect, AccountTypeCorrect, SearchTypeCorrect,
     PagerTypeCorrect, StaysTypeCorrect, DialogTypeCorrect, PTL

(***************************************************************************)
(* What each page promises holds of the pages together, one invariant     *)
(* after the other as the run of all pages checks them, and then the      *)
(* steps.                                                                  *)
(***************************************************************************)
THEOREM VisitorKeepsPromises ==
    MCSpec => /\ [](/\ OneTripPerForm /\ SavedAsDrafted /\ HeartTellsTruth /\ RatingIsAverage
                    /\ PhotosAsChosen /\ SavesStoreWhatIsTyped /\ SessionTellsTruth
                    /\ ResultsAnswerInput /\ PageExists /\ OffersMeetFilters /\ ReservedAsShown)
              /\ DeletesOnlyRemoved /\ RemovedForGood /\ OtherFieldsKept /\ PhotoKeepsProfile
              /\ UntouchedSaveKeepsRow /\ ControlsChangeTheirRows
BY PagesCompose, FormsMakeOneTrip, SavesAreAsDrafted, SavesDeleteOnlyRemoved,
   HeartAlwaysTellsTruth, FavoriteRemovedForGood, RatingIsAlwaysAverage, PhotosAlwaysAsChosen,
   SavesKeepWhatIsTyped, UntouchedRowsStay, ControlsWrite, SessionAlwaysTellsTruth,
   OtherFieldsAlwaysKept, PhotoAlwaysKeepsProfile, ResultsAlwaysAnswerInput, PageAlwaysExists,
   OffersAlwaysMeetFilters, ReservedAlwaysAsShown, PTL
=============================================================================
