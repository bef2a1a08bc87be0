------------------------------ MODULE Reviews ------------------------------
(***************************************************************************)
(* The reviews of one place.  On the server a review is written, then the *)
(* place's rating is computed and saved with the rest of its row, in one  *)
(* request but not in one transaction, while other reviews and the        *)
(* administrator's form do the same.  The migrations, which every start of*)
(* the container runs, write ratings and reviews on their own.            *)
(***************************************************************************)
EXTENDS Integers, FiniteSets, FiniteSetsExt

CONSTANTS Ratings,     \* what a review may give
          MaxReviews,  \* bound: rows
          MaxRevReqs,  \* bound: requests made
          MaxCrashes,  \* bound: requests that fail, starts of the container
          NoRow

RevIds == 1..MaxReviews
ReqIds == 1..MaxRevReqs
Nobody == 0

ASSUME ReviewsAssumption ==
    /\ Ratings \subseteq 1..5
    /\ MaxReviews \in Nat /\ MaxRevReqs \in Nat /\ MaxCrashes \in Nat

VARIABLES revRows,     \* the reviews
          placeRow,    \* the place: its rating and what the administrator wrote
          revReqs,     \* the requests
          crashes,
          solo, calm   \* see RatingIsAverage

revVars == <<revRows, placeRow, revReqs, crashes, solo, calm>>

\* An average is kept as the sum and the number it is computed from.  It lies in
\* the range of the ratings.
Average == {a \in [sum : Nat, n : Nat] : a.n <= a.sum /\ a.sum <= 5 * a.n}
\* What the migrations give a place: some rating, and no number of reviews.
Seeded == [sum |-> 4, n |-> 0]
PlaceRow == [rating : Average \cup {Seeded}, text : Nat]
Review == [rating : Ratings, live : BOOLEAN]

\* stage: read (the review was read), written (and saved), averaged, loaded
\* (the place was read), replied.  avg, place: what was computed and read.
Req == [kind : {"create", "update", "delete", "place"}, id : RevIds \cup {Nobody},
        rating : Ratings \cup {0}, avg : Average, place : PlaceRow,
        stage : {"unsent", "sent", "read", "written", "averaged", "loaded", "replied"}]

UnderReq(k) == revReqs[k].stage \notin {"unsent", "replied"}
Quiet == \A k \in ReqIds : ~UnderReq(k)

RevTypeOK ==
    /\ revRows \in [RevIds -> Review \cup {NoRow}]
    /\ placeRow \in PlaceRow
    /\ revReqs \in [ReqIds -> Req]
    /\ crashes \in 0..MaxCrashes
    /\ solo \in BOOLEAN /\ calm \in BOOLEAN

WrittenIn(rows) == {i \in RevIds : rows[i] # NoRow /\ rows[i].live}
AverageOf(rows) == [sum |-> MapThenSumSet(LAMBDA i : rows[i].rating, WrittenIn(rows)),
                    n   |-> Cardinality(WrittenIn(rows))]
Written == WrittenIn(revRows)
Truth   == AverageOf(revRows)

Zero == [sum |-> 0, n |-> 0]
Unread == [rating |-> Zero, text |-> 0]
RevRequest(kind, id, r, stage) == [kind |-> kind, id |-> id, rating |-> r, avg |-> Zero,
                                   place |-> Unread, stage |-> stage]

\* No review, or one, of a place that accounts for it or that the migrations made.
RevInit ==
    /\ \E r \in Ratings, n \in {0, 1} :
          revRows = [i \in RevIds |-> IF i <= n THEN [rating |-> r, live |-> TRUE] ELSE NoRow]
    /\ placeRow \in [rating : {Truth, Seeded}, text : {0}]
    /\ revReqs = [k \in ReqIds |-> RevRequest("place", Nobody, 0, "unsent")]
    /\ crashes = 0
    /\ solo = TRUE /\ calm = (placeRow.rating = Truth)

-----------------------------------------------------------------------------
(* The requests. *)

\* A request that is alone from here to its end computes the rating anew.
Begin(k, kind, id, r) ==
    /\ revReqs[k].stage = "unsent" /\ \A j \in 1..(k - 1) : revReqs[j].stage # "unsent"
    /\ revReqs' = [revReqs EXCEPT ![k] = RevRequest(kind, id, r, "sent")]
    /\ solo' = Quiet
    /\ calm' = (calm /\ Quiet)

\* Visitors write reviews; their authors change and delete them, and so does
\* an administrator, who also saves the place.
AskReview ==
    /\ \E k \in ReqIds :
          \/ \E r \in Ratings : \/ Begin(k, "create", Nobody, r)
                               \/ \E i \in Written : Begin(k, "update", i, r)
          \/ \E i \in Written : Begin(k, "delete", i, 0)
          \/ Begin(k, "place", Nobody, 0)
    /\ UNCHANGED <<revRows, placeRow, crashes>>

Stage(k, stage) == revReqs' = [revReqs EXCEPT ![k].stage = stage]

\* Update and Delete look the review up; the administrator's save, the place.
ReadFirst(k) ==
    /\ revReqs[k].stage = "sent" /\ revReqs[k].kind # "create"
    /\ \/ /\ revReqs[k].kind = "place"
          /\ revReqs' = [revReqs EXCEPT ![k].stage = "read", ![k].place = placeRow]
       \/ revReqs[k].kind # "place" /\ revReqs[k].id \in Written /\ Stage(k, "read")
    /\ UNCHANGED <<revRows, placeRow, crashes, solo, calm>>

Inserted(r) ==
    \E i \in RevIds :
        /\ revRows[i] = NoRow /\ \A j \in 1..(i - 1) : revRows[j] # NoRow
        /\ revRows' = [revRows EXCEPT ![i] = [rating |-> r, live |-> TRUE]]

\* Saving a review that was deleted since brings it back.
WriteReview(k) ==
    /\ \/ /\ revReqs[k].kind = "create" /\ revReqs[k].stage = "sent"
          /\ Inserted(revReqs[k].rating)
       \/ /\ revReqs[k].kind = "update" /\ revReqs[k].stage = "read"
          /\ revRows' = [revRows EXCEPT ![revReqs[k].id] = [rating |-> revReqs[k].rating, live |-> TRUE]]
       \/ /\ revReqs[k].kind = "delete" /\ revReqs[k].stage = "read"
          /\ revRows' = [revRows EXCEPT ![revReqs[k].id].live = FALSE]
    /\ Stage(k, "written")
    /\ UNCHANGED <<placeRow, crashes, solo, calm>>

\* updatePlaceRating, in three statements.
ComputeAverage(k) ==
    /\ revReqs[k].stage = "written"
    /\ revReqs' = [revReqs EXCEPT ![k].stage = "averaged", ![k].avg = Truth]
    /\ UNCHANGED <<revRows, placeRow, crashes, solo, calm>>

LoadPlace(k) ==
    /\ revReqs[k].stage = "averaged"
    /\ revReqs' = [revReqs EXCEPT ![k].stage = "loaded", ![k].place = placeRow]
    /\ UNCHANGED <<revRows, placeRow, crashes, solo, calm>>

\* Mutant: the rating that was read with the place is saved again.
Rated_asLoaded(k) == revReqs[k].place

\* The place as it was read, with the rating that was computed before.
Rated(k) == [revReqs[k].place EXCEPT !.rating = revReqs[k].avg]

Over    == RevRequest("place", Nobody, 0, "replied")
Ends(k) == revReqs' = [revReqs EXCEPT ![k] = Over]

SavePlace(k) ==
    /\ \/ revReqs[k].stage = "loaded" /\ placeRow' = Rated(k)
       \/ /\ revReqs[k].kind = "place" /\ revReqs[k].stage = "read"
          /\ placeRow' = [revReqs[k].place EXCEPT !.text = 1]
    /\ Ends(k)
    /\ calm' = (calm \/ (solo /\ revReqs[k].kind # "place"))
    /\ UNCHANGED <<revRows, crashes, solo>>

\* The review is gone when it is looked up.
RefuseReview(k) ==
    /\ revReqs[k].kind \in {"update", "delete"} /\ revReqs[k].stage = "sent"
    /\ revReqs[k].id \notin Written
    /\ Ends(k)
    /\ UNCHANGED <<revRows, placeRow, crashes, solo, calm>>

\* A statement fails, or the answer is lost.  The errors of the rating are
\* not reported: the review is there and the request ends all the same.
Crash(k) ==
    /\ crashes < MaxCrashes /\ crashes' = crashes + 1
    /\ Ends(k)
    /\ calm' = (calm /\ revReqs[k].stage \in {"sent", "read"})
    /\ UNCHANGED <<revRows, placeRow, solo>>

\* A start of the container: the requests are gone, and the migrations insert
\* their reviews once more.  Not every place has one.
Redeploy ==
    /\ crashes < MaxCrashes /\ crashes' = crashes + 1
    /\ revReqs' = [k \in ReqIds |-> IF UnderReq(k) THEN Over ELSE revReqs[k]]
    /\ \/ (\E r \in Ratings : Inserted(r)) /\ calm' = FALSE
       \/ /\ calm' = (calm /\ \A k \in ReqIds : UnderReq(k) => revReqs[k].stage \in {"sent", "read"})
          /\ UNCHANGED revRows
    /\ UNCHANGED <<placeRow, solo>>

-----------------------------------------------------------------------------
RevNext ==
    \/ AskReview \/ Redeploy
    \/ \E k \in ReqIds :
          /\ UnderReq(k)
          /\ \/ ReadFirst(k) \/ WriteReview(k) \/ ComputeAverage(k) \/ LoadPlace(k)
             \/ SavePlace(k) \/ RefuseReview(k) \/ Crash(k)

RevSpec == RevInit /\ [][RevNext]_revVars

-----------------------------------------------------------------------------
(* Properties. *)

(***************************************************************************)
(* With no request under way the place's rating and number of reviews are *)
(* those of its reviews, but after requests that overlapped, a request    *)
(* that failed between its review and the rating, or a migration that     *)
(* wrote the one without the other; the next review request that runs     *)
(* alone sets them right.                                                  *)
(***************************************************************************)
RatingIsAverage == Quiet /\ calm => placeRow.rating = Truth
=============================================================================
