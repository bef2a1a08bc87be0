# FASO ATLAS: TLA+ models and proofs

FASO ATLAS is a tourism platform for Burkina Faso: a Go/Gin backend over
PostgreSQL (GORM) and Redis, a Next.js web client and a Flutter client. This
directory keeps models of the parts of it whose correctness depends on the order
of things — goroutines that interleave between two SQL statements, Stripe's
retries, restarts, time, answers that find another form than the one that asked —
together with the checks made of them by TLC and the proofs checked by TLAPS.

    tlc -workers 2 -config MCBookingSafety.cfg MCBooking.tla
    tlapm BookingProofs.tla

## The system

| component | state | operations | interacts with |
|---|---|---|---|
| Reservations (`reservation_service.go`, `reservation_repo.go`) | table `reservations` | create, cancel, change status (guest, owner, admin) | Establishments (price, availability), Payments |
| Payments (`payment_service.go`) | columns `payment_intent_id`, `payment_status` | open a Checkout session, handle a webhook | Stripe (HTTP call out, webhooks in), Reservations |
| Establishments (`owner_handler.go`, `admin_handler.go`, `establishment_repo.go`) | table `establishments` | create, update, delete, switch availability | Reservations |
| Rate limiting (`ratelimit.go`, `router.go`) | a map under a mutex; Redis counters | admit or refuse a request, forget old visitors | every request; Redis |
| Start-up (`entrypoint.sh`, `cmd/seed`, `postgres.go`, `migrations/`) | schema and seed rows | run every SQL file, AutoMigrate | every table |
| Accounts (`auth_service.go`, `token_repo.go`, `user_repo.go`, `admin_service.go`) | `users`, `refresh_tokens`, `verification_tokens` | register, login, refresh, verify, reset, change password and profile, change role | both clients' interceptors |
| Reviews and places (`review_service.go`, `place_repo.go`) | `reviews`, `places.rating`, `places.review_count` | create, update, delete; recompute the average | Caches |
| Favorites (`favorite_handler.go`) | `favorites`, soft-deleted | toggle | mobile provider |
| Wiki (`wiki_service.go`) | `wiki_articles`, `wiki_revisions` | create, revise, approve | |
| Advertising (`ad_service.go`) | `ads` and their counters | list (counting in a goroutine), click, create, update, delete | Caches |
| Itineraries (`itinerary_handler.go`) | `itineraries`, `itinerary_stops` | create, update, delete, add and remove stops | |
| Notifications (`notification_service.go`) | `notifications` | list, mark read | |
| Caches and map (`response_cache.go`, `map_service.go`) | Redis values with a TTL | read through, store | Places, Ads, catalogues |
| Web client, its requests (`lib/api.ts`, `authStore.ts`) | tokens in localStorage, `isRefreshing`, `failedQueue` | attach token, refresh on 401 | Accounts |
| Web client, administration and owners (`app/admin/*`, `app/proprietaire/*`) | per page: a cached list, a form, an edited id, dialogs, mutations under way | open, fill, save, delete, switch | the handlers of each table |
| Web client, visitors (`app/itineraires/*`, `app/reservation/*`, `app/compte`, `app/favoris`, `components/*`) | per page: forms, cached queries, sequences of calls | write an itinerary, a review, a profile; favor; search; ask for a stay | Itineraries, Reviews, Accounts, Favorites, Reservations |
| Mobile client (`dio_client.dart`, providers) | tokens, `_isRefreshing`, offline cache | the same | Accounts |

What makes it hard: the server runs one goroutine per request and opens the
database with `SkipDefaultTransaction`, so that every statement commits by
itself and any number of other requests may run between two statements of one
handler. Nothing is locked and no column is a version. Stripe posts events at
least once and in any order. A restart loses every request in progress. On the
client a component keeps its state in several independent variables, TanStack
Query keeps lists that are older than the rows, callbacks run when their answer
comes, on the state of then or on that of the render they were made in, and
nothing is ever cancelled.

What makes each part correct: payments agree with Stripe and are neither lost
nor taken back; the price charged is the one stored; the limiters keep their
rate; one refresh token is exchanged once and a client with a valid one stays
logged in; a whole-row save takes back nothing it did not mean to write; a
place's rating is the average of its reviews once the writers are done; a form is
saved to the row it was opened on, once, and leaves alone what was not typed; a
page shows what its own user wrote, what was asked for and what will be charged. `PROJECT.json` lists the hazards, each at its line,
with the property that looks at it.

## Modules

| module | what it is |
|---|---|
| `Tables` | a keyed store (table, map, key space) as a function: `Put`, `Drop`, `IsTable` |
| `Ledger` | an abstract specification: what becomes of a Checkout session |
| `Session` | an abstract specification: what becomes of the calls of a logged-in browser |
| `Booking` | reservations, payments and Stripe, statement by statement |
| `RateLimits` | the Redis limiter followed by the in-memory one |
| `TokenRotation` | login, refresh and revocation on the server; the web client's interceptors, tab by tab |
| `Conversions`, `Pages` | the pages of the administration and of the owners, as data: how each field of each form becomes text, request and column |
| `Editor` | one such page at work: list, form, dialogs, mutations, the rows, other writers |
| `Desk` | one field of one row through the form of its page and back |
| `Trips` | the itineraries of a visitor: forms, sequences of calls, rows |
| `Favorites`, `Reviews`, `ReviewForm`, `Account` | hearts and lists against the toggle; a place's rating; the photos of a review; profile, photo and password |
| `LiveSearch`, `Pager` | the search field as one types; the destinations a page at a time |
| `Stays`, `StayDialog` | the search and the filters of the places to stay; the dialog that asks for a stay |
| `MCBooking`, `MCRateLimits`, `MCTokenRotation`, `MCEditor`, `MCVisitor` | values and constraints for TLC |
| `TablesTheorems`, `BookingProofs`, `RateLimitsProofs`, `TokenRotationProofs`, `EditorProofs`, `TripsProofs` | the proofs about each module |
| `VisitorProofs` | the proofs about `ReviewForm`, `Pager`, `LiveSearch`, `Favorites`, `Account`, `Stays`, `Reviews` and `StayDialog` |
| `CompositionProofs` | the proofs about `Desk`, and those about the pages of `MCVisitor` together |

`Booking`, `RateLimits` and `TokenRotation` share no state in the code but the
process they run in, so they are not composed; all three extend `Tables`.
`Editor` and `Desk` are two views of the same pages: `Editor` has the order of
things with one field of the rows, `Desk` has all fields with nothing going on
beside them. The pages of visitors share no state with one another but the
session and rows that each page's module has its share of; `MCVisitor` runs them
one at a time, so that one run checks all of them.

### Booking

`estab` and `resa` are the two tables; `stripe` is Stripe's side, which the code
never reads back; `req` maps each goroutine that is in the middle of a handler
to what it keeps in local variables. An action is a handler up to its next
statement or call to Stripe: `Checkout` is the reads and checks of
`CreateCheckoutSession`, `StripeAnswers`, `StripeAnswerLost` and `StripeRefuses`
are the three ends of the HTTP call, `SavePending` is the save that follows and
the answer to the guest; `Deliver`, `MarkSucceeded`, `ConfirmPaid` and
`MarkExpired` are `HandleWebhook`. A request whose checks fail changes nothing
and is no action. A statement (`Outcomes`) commits, fails, or commits although
its caller is told of an error, and the three error paths of the code differ:
the first and second UPDATE of a completed event answer 400, the UPDATE of an
expired one is ignored, and the save after Stripe's answer is logged only.

`Restart` loses `req`. `Redeploy` is a start of the container: the entry point
runs all migration files, 014 drops the payment columns in its Down section and
AutoMigrate adds them back with their defaults. (That AutoMigrate accepts tables
made by the SQL files is assumed. 015 also inserts its demonstration
reservations anew, for demonstration accounts: left out. A file that fails ends
the seed, which the entry point tolerates: that is a `Restart`.) `recorded` and
`confirmed` are history variables that no guard reads; `handed` and `acked` are
what the guest and Stripe saw.

`WriteEstablishment` lets an establishment change in every way one statement of
its handlers can change a row, deletion and the undoing of a deletion by a
whole-row save included; how these handlers overwrite one another is in `Editor`.

`Ledger` says what is owed: a session is opened, then paid or expired, never
both; a payment is marked, then settled; and once paid it is settled in the end.
`Booking` maps to it by `PhaseOf`, which reads the phase off Stripe's state and
the two histories.

### RateLimits

A request to an `/auth` route goes through the limiter of the API group (Redis,
300 a minute) and the one of the auth group (a map, 10 a minute). Both count by
address: the API limiter runs before the `Auth` middleware, so the user id it
looks for is never there. `Count`, `TooMany` and `FailOpen` are INCR with its
outcomes, `SetExpiry` and `ExpiryLost` the EXPIRE that the request which made the
key sends next; between them other requests, the clock and a restart may come.
The mutex makes `AdmitNew`, `AdmitAgain`, `Reject` and a pass of `Cleanup` one
step each. `counted` and `admitted` log when requests were let through; the log
of the auth limiter starts with the process, as its map does. Time is in ticks
and may stand still between any two steps. Cleanup runs at any time, which
includes the code's once per window.

### TokenRotation

One user in one browser. `rows` is `refresh_tokens`; `store` is localStorage,
which the tabs share; `refreshing` and `call` are what each page holds: its
`isRefreshing`, and its API calls with their `_retry`. A call is `sent`, waits in
`failedQueue` (`queued`) or does the refresh for its page (`exchanging`). `auth`
keeps the requests to `/auth`, by the pair of tokens they hand out, so that an
access token and its refresh token have one name; they stay when they are over
because the properties speak of the past.

`Send` is the request interceptor. The response interceptor is `Settle` (any
answer but 401), `Reject`, `Enqueue` and `StartExchange` up to its `await`, and
`Exchanged`, `AnsweredWithError` or `AnswerLost` after it: JavaScript runs from
one await to the next without interruption, so `processQueue`, the two items and
`isRefreshing` change in one step. `Login`, `Register` and `LoggedIn` are the two
pages and `setAuth`; a login that is refused is a call of `Refused`, which goes
through the interceptor like any other and is answered 401 whatever its token.
`Reload` is a page load, also the one to `/login` after a failed refresh: the
page's memory is lost, its request is not.

On the server `FindToken`, `RevokeToken` and `StoreToken` are the three statements
of `Refresh` (a login makes the last one only), with the outcomes of `Booking`'s
statements and the code's three error paths: a failed query counts as no token
found, a failed revocation is ignored, a failed INSERT answers 500. An error is a
fault while the client waits; once the client is gone the request's context is
cancelled and errors are free. `EndTokens` is the 30 days or `ResetPassword`'s
`RevokeAllForUser`, `AccessExpires` the 15 minutes. The reading of the user
between two statements, and bcrypt, have no effect of their own; a user that was
deleted is a failed `StoreToken`. Left out: the copy of the access token that the
persisted auth store keeps, which no request uses.

`Session` is what all this is for, without server, access tokens or 401s: a page
holds back its refused calls and exchanges the refresh token once for all of them;
then all are sent again, or all are given up and the browser is logged out; a call
is the cause of one exchange at most, a pair is heard of once, and every call is
settled in the end. `TokenRotation` maps to it by `heard`, `sent`, `held` and
`tried`, which read its requests, its calls and the queues; the steps of the server
are stutters.

### Editor, Pages, Conversions and Desk

The pages under `admin/` and `proprietaire/` are one design written many times: a
query for the list, a `useState` each for dialog, edited id and form, one mutation
each for create, update and delete, whose `onSuccess` invalidates a query and
resets some of the states. What differs from page to page (which states which
callback resets, which query it invalidates, how each field is converted) is data,
in `Pages`; `Editor` is the design. `MCEditor` takes its `Samples` from `Pages`,
one for each manner in which some page treats some field, and its assumption
`EveryManner` has TLC check that no field of no page is treated otherwise.
`WellRead` says that a page's conversions fit together: whatever its form may
send, the row comes to hold a value that the form, saved untouched, leaves as it
is. The assumption `ConversionsAssumption` states it of the samples, on which the
proofs rest, and `EveryFieldRead` has TLC check it of each field of each form. The
moderation of the wiki, whose list shows another column than the one it writes,
is in `Desk` only.

In `Editor`, `OpenNew`, `OpenEdit`, `Type`, `CloseForm`, `Submit`, `AskDelete`,
`ConfirmDelete` and `Press` are what the user presses. `ServeRead` and `ServeSave`
are a handler that reads the row, sets fields and saves all of it: two steps, with
whatever `OtherWrites` and other calls do in between. `Answered` and `Failed` run
the callbacks of the mutation on the states as they are by then. `list`, `stale`
and `fetch` are the query: an invalidation restarts a request under way only if
there is a list already. `Leave` and `Return` unmount and mount the page.

`Desk` takes each field of each form through `openEdit`, the input, the mutation
and the service. The values are the few strings that tell these conversions apart:
"", "0", a number, a list with a stray comma, NULL. Three texts of an advertisement
pass `SanitizeString` (`ad_service.go:77-82`, `108-113`): blanks at their ends are
taken off, and a text over 120 or 255 bytes is cut without the page being told
(`Sanitized`; "long" and "wide" are such texts, "wide" with a blank where the cut
falls). A cut in the middle of a character makes a text that PostgreSQL refuses,
so that the save fails; that is a refusal like others and is left out. The dialogs
of all pages cover the page, the form of the advertisements included (`InReach`).

### Trips

The new form and the edit form are sequences of awaited calls: an itinerary is
created or updated, then stops deleted, then stops added, one by one, and each
call may be lost, answered with an error, or served and its answer lost, with
those before it done. `known` is the cached itinerary, `plan` the form (filled
once), `saves` the scripts under way, which outlive their page. `sortable` says
whether the table of the stops has the column "order" that the query sorts by:
only databases an older version made have it. `DeleteStop` does not look at the
error of its deletion and answers 200 (`itinerary_handler.go:210`): that is
`LeaveStop`, which counts as a fault, and `left` notes the stops a save believes
deleted. `SavedAsDrafted` excepts exactly these.

### Favorites, Reviews, ReviewForm, Account

`Favorites`: two tabs with the heart (which asks once whether it is filled, then
turns it over when its toggle is answered) or the list (which removes by the same
toggle), against a handler that reads, then inserts or soft-deletes under a
unique key. `Reviews`: the handler writes a review, reads the average, reads the
place and saves the place's whole row, each a step, and any of them may be the
last. The migrations write both tables without that handler: they give a place a
rating between 3.8 and 4.9 with no number of reviews (`Seeded`; 003, 011 and 015),
and insert reviews without computing a rating (015:177-259), once more at each start
of the container, which also ends the requests under way (`Redeploy`). `calm` says
that none of this has happened since a review request last ran alone to its end.
`ReviewForm`: an upload appends to the photos of the render it was started
from. `Account`: four requests (profile, photo, password, and a change by somebody
else) that read, change and save the whole row of a user, and whose answers are
put in the session with the token that localStorage holds by then.

### LiveSearch, Pager

`LiveSearch`: a search starts a moment after the last key, or at once for a
category, the one chosen already included; none is cancelled; the last answer is
shown. `Pager`: the page of the
destinations, where the filter is reset to page 1 in an effect and the server's
list may shrink. An answer may be of an older list: the query's own, shown while it
is asked for again, or one the server kept (`router.go:124`, `144`).

### Stays, StayDialog

The list of the places to stay applies its filters in two places: type, stars and
region go to the server and are part of the key the answer is cached under,
price, amenities and the text of the home page are applied to whatever the cache
has under that key. `SearchStays` is the search of the home page: the region and
the text are used, dates and guests reach texts only, and the other tabs' pages
do not read the parameters they are given. Only the first page of the server's
list (12 rows, `ListSize`) is ever asked for, in spite of the comment "Fetch all
establishments" (`reservation/page.tsx:43`); `OffersMeetFilters` says what is left
of it. With a type and a region the server's query joins two tables that both have
a column `type` and is refused (`Ambiguous`): that list always fails.

The dialog computes nights and total from dates that no form checks, for the price
of the card that was pressed or of the page as it is read again; it can be closed
while its request runs, and opened again. The server computes the total anew.

## Properties and what the runs show

| run | checks | bounds |
|---|---|---|
| `booking_safety` | `TypeOK`; `IntentIsOwnSession`; `PaymentMatchesStripe`; `RecordedPaymentStands`; `AckedMeansRecorded`; `InFlightAgrees` | 2 users, 1 establishment, 1 reservation, 2 sessions, 2 goroutines; 1 fault, 1 restart, 1 redeployment; 1 182 432 states |
| `booking_liveness` | `LedgerSpec` (refinement with its liveness), `SoleSessionSettles` | 1 user who is also the owner, 1 session, 2 goroutines, 2 faults, 1 restart; 71 848 states |
| `booking_paid_twice` | `PaidIsNotCharged` is violated | 2 sessions, 1 goroutine, no fault |
| `booking_redeploy` | `RedeployKeepsPayments` is violated | 1 session, 1 goroutine, 1 redeployment |
| `limits_safety` | `TypeOK`; `AuthRateHolds`; `ApiRateHolds` | 1 client, 2 goroutines, both limits 2, window 2, 6 ticks, 6 requests, 1 fault, 1 restart; 4 062 999 states |
| `limits_polite` | `RefusesOnlyAboveRate` is violated | limits 2 and 5, 5 requests, no fault |
| `limits_atomic` | `EveryKeyExpires` is violated | 4 requests, 4 ticks, 1 fault |
| `tokens` | `TypeOK`; `QueueHasExchange`; `PresentsOnce`; `StoredIsExchangeable`; `RefusedForAReason`; `SessionSpec` (refinement with its liveness) | 2 tabs, 2 calls of which one is answered 401 always, 3 pairs of tokens, 1 fault; 735 000 states |
| `tokens_logout` | `LogoutClears` is violated | 1 tab, 1 call, 2 pairs, no fault |
| `editor` | `TypeOK`; `SaveHitsItsRow`; `OwnWritesShown`; `OneRowPerForm`; `NoSilentOverwrite` | 2 rows, 2 mutations, 2 forms opened, 2 writes; 3 724 360 states |
| `visitor` | `VisitorTypeOK` and the properties below | see below; 3 105 242 states |
| `trips_sorted` | `SaveFailsOnlyOnFault` is violated | 1 itinerary, 1 stop, no fault |

In `visitor`:

| module | properties | bounds |
|---|---|---|
| `Trips` | `SavedAsDrafted`: a save that nothing disturbed leaves the stops its form had, and those whose deletion was answered but not made; `DeletesOnlyRemoved`; `OneTripPerForm` | 2 itineraries, 2 stops, 1 place, 2 drafts, 2 saves, 1 fault |
| `Favorites` | `HeartTellsTruth`: what is shown is what is stored, but for named cases; `RemovedForGood` | 2 tabs, 4 requests, 1 lost |
| `Reviews` | `RatingIsAverage` | 2 reviews, 3 requests, 1 request that fails or start of the container; the place is seeded, with a review or none, or has no review and no rating |
| `ReviewForm` | `PhotosAsChosen` | 3 photos |
| `Desk` | `UntouchedSaveKeepsRow`; `SavesStoreWhatIsTyped`; `ControlsChangeTheirRows` | every field of every form, every value of `Conversions` |
| `Account` | `OtherFieldsKept`; `PhotoKeepsProfile`; `SessionTellsTruth` | 2 users, 2 names, 2 requests |
| `LiveSearch` | `ResultsAnswerInput` | 2 words, 2 categories, 4 changes |
| `Pager` | `PageExists` | 2 filters, pages of 2, up to 4 rows |
| `Stays` | `OffersMeetFilters` | 3 establishments, pages of 2, 2 reads, 2 changes of the filters, 1 write or loss |
| `StayDialog` | `ReservedAsShown` | 2 dialogs, 2 requests, 2 prices, dates of none, today and two nights on, 1 write or loss |

Between them the runs that are meant to pass fire each action and each disjunct of
the modules they check.

Why these bounds: the hazards of Booking need one reservation, two sessions
that compete for its row, and two goroutines (one between its read and its
write, one that writes); the tables of different reservations never meet except
through the establishment's price. That nothing depends on the numbers is what
the proofs show. In the limiters clients do not meet; six requests and six ticks
are three windows of two, enough for a counter to be made, to expire and to be
made again, and for a visit to be longer than a window. `ApiRateHolds` allows
twice the limit, because a fixed window gives no more: the end of one and the
beginning of the next fit in one span. In TokenRotation two calls are one that
refreshes and one that waits; three pairs are a login and two exchanges of it,
one after the other or by two tabs at once, or two logins and an exchange.
`Room` keeps a page from starting what the pairs left could not finish, so that
no call gets stuck for lack of names. Pairs are taken in the order of their
numbers (`MCInOrder`, an action constraint) in place of a symmetry, which TLC does
not allow with the liveness of `SessionSpec`. `AccessExpires` may come at any time, also
before the new token was used once. In `editor` two forms are one that is opened
while the answer to the other is on its way, for the same row or for another; two
mutations are a save and what is pressed beside it. In `Trips` two stops are one
that stays and one that goes, and two saves one that is sent again, or from a page
left and opened anew. Three requests of `Reviews` are two that overlap and one that
sets things right, or a seeded place, a start and the request that rates it. A place
whose rating is right and that has a review is not opened with, but reached. In `Stays` two reads are a list and one that replaces it, under
the same key or another; the page of two is too small for the three
establishments, and they differ in every filter. Dates before today are refused by
the same check as a departure that does not follow the arrival, which the bounds
include.

The violations are disagreements between the code and what it says of itself:

- **`PaidIsNotCharged`** ("reservation already paid", `payment_service.go:61-62`).
  A guest who starts a checkout twice holds two open sessions. When one is paid
  and the other expires later, `checkout.session.expired` writes "failed" and its
  own id over the paid row (line 177), and the next checkout is accepted.
- **`RedeployKeepsPayments`** ("only once", `entrypoint.sh:4`). Every start of
  the container runs all files again, and 014 drops the payment columns.
- **`RefusesOnlyAboveRate`** ("maxRequests per window duration",
  `ratelimit.go:21-22`). The count only starts again after a whole silent window.
- **`EveryKeyExpires`** ("INCR + EXPIRE for atomic rate limiting",
  `ratelimit.go:83`). The INCR of the first request is answered, its EXPIRE fails,
  nobody looks at that answer, and the key stays for ever. (An INCR that was made
  but reported as an error also leaves a key without TTL; the property leaves such
  keys out, since there the code could not know.)
- **`LogoutClears`** ("logout clears everything", `authStore.test.ts:45`). The
  interceptor does not look, when the answer to a refresh arrives, whether the
  user logged out meanwhile: it stores both new tokens (`api.ts:66-67`). Logging
  out does not load a new page, and another tab may be the one that refreshes.
- **`SaveFailsOnlyOnFault`** ("2. Add stops", `itineraires/nouveau/page.tsx:100`).
  `GetByID` sorts the stops by the column "order" (`itinerary_repo.go:51`), which a
  database made by the present schema does not have; adding a stop begins with
  `GetByID`, so every new itinerary stays without stops.

What `RefusedForAReason` leaves open is what the code leaves open: two tabs that
refresh at the same time present the same token, the server may refuse the second,
and that tab then removes the tokens the first one just stored. Likewise
`HeartTellsTruth`, `SessionTellsTruth`, `RatingIsAverage`, `PhotosAsChosen`,
`ResultsAnswerInput`, `OwnWritesShown` and `PageExists` name the races the code
leaves open, each in the comment of the property; outside of them the page tells
the truth. `RemovedForGood` is of that kind too: a favorite that was removed keeps
its row and its unique key, so that it cannot be added again.
`SavesStoreWhatIsTyped` lists the fields that cannot be cleared or set to zero
(`LostOnUpdate`, `LostOnCreate`) and the texts that are cut (`TooLong`);
`UntouchedSaveKeepsRow` names the text that was cut behind a blank, which a save
of the row untouched takes off; and `ControlsChangeTheirRows` names the moderation of
the wiki, whose button changes nothing. The samples of `MCEditor` leave that one text
out, of which `NoSilentOverwrite` would say what `Desk` says.

Every property of a passing run comes with a mutant of the code that breaks it
(`PROJECT.json`), defined next to the definition it replaces.

### Fairness

`WF(Step(h))`: the Go scheduler runs every goroutine that can run. `SF` of the
delivery of an unacknowledged event: Stripe posts again until it gets a 200. It
is strong because in the model its posts compete with other requests for the
bounded `Handlers`, which the server does not have. No fairness is assumed of
guests, of requests or of payments. Faults and restarts are bounded in number,
which says that the database answers in the end; without it nothing could be
promised. `SoleSessionSettles` is stated of a session that stays the only one of
its reservation: with two, `PaidIsNotCharged` shows what happens instead. The
liveness run has no redeployment for the reason `RedeployKeepsPayments` shows.

In TokenRotation (the run `tokens`), `WF(Answer(c))`, `WF(Serve(k))` and `WF(Receive(k))`: goroutines
run, and a request that was sent is answered or its connection breaks (the server's
read and write timeouts and TCP see to it). Nothing is assumed of the user, who
may log in and out, load pages and send calls or not, nor of the clock. The other
modules state no fairness: their properties are of safety only.

## Proofs

From the named assumptions on the constants alone (`ConstantsOK`, `LimitsOK`,
`NamesOK`, `EditorAssumption`, `ConversionsAssumption`, `TripsAssumption`,
`TripsMarkers`, `StayAssumption`, and the one of each module of `VisitorProofs`),
which say that bounds are numbers, that markers such as `NoUser` are no members of
what they mark the absence in, and that the pages' callbacks and conversions are of
the kind the code has; TLC evaluates all of them. For any number of users,
reservations, sessions, goroutines, clients, tabs, calls, tokens, rows, forms,
mutations, itineraries, stops, drafts, saves, dialogs, prices, dates, reviews,
establishments, faults, restarts and redeployments:

**`BookingProofs`.** The invariant is `Inv == TypeOK /\ Consistent`. The
properties are not inductive one by one: that the row agrees with Stripe after
`SavePending` needs to know what the goroutine holds (`InFlightAgrees`: its
session is open for the row's price, nobody else is about to save it and it was
not handed out, hence is not paid), and that in turn needs every session to be
of an existing reservation and a payment to come after the URL was handed out
(`SessionsAgree`). One lemma per action shows that it keeps `Inv`; `InvAlways`
puts them together, and the theorems on the single properties follow.
`ImplementsLedger` shows that every step of `Booking` is a step of `Ledger` or
leaves it as it is; its liveness is left to TLC.

**`RateLimitsProofs`.** `TypeCorrect`, and `AuthRateAlwaysHolds` from `AuthInv`:
the log of a client ends with the `min(count, AuthMax)` requests of its current
visit, every earlier one is more than a window older than all of these, and a
client that is not in the map has not been let through for more than a window.
Of any `AuthMax + 1` requests in a row the first is then of an earlier visit
than the last. `ApiRateAlwaysHolds` rests on `ApiInv`: the requests counted for a
client fall in three spans (`Epochs`): at most `ApiMax` under the key that is in
Redis, at most `ApiMax` under the one before, and older ones, which are more than a
window older than the present key. A late or repeated EXPIRE only moves a deadline
on, and a lost one leaves a key for ever, so that a key is made anew a window after
it was made at the earliest.

**`TokenRotationProofs`.** The invariant is `TypeOK /\ Consistent`. Not even
`TypeOK` is inductive alone: that the row revoked is one of the table rests on
`TokensAgree`, by which localStorage and the requests name only tokens that were
stored, handed out and received, and a token shows as exchanged only after a
request that presented it. `PresentsOnce` needs `StoredIsUnanswered`, that an
exchange which was answered is not of the token now stored (success replaces it,
failure removes it), and `QueueHasExchange`, that a page has no second exchange
under way. `StoredIsExchangeable` then follows without a step of its own.
`ImplementsSession` shows that every step of `TokenRotation` is a step of `Session`
or leaves it as it is; that an answer releases every call its page holds rests on
`QueueHasExchange`, by which `isRefreshing` is up exactly while a call is held. The
liveness of `Session` is left to TLC.

**`EditorProofs`.** For every page whose callbacks keep the rules of `WellKept` (which
every sample of the run is found to keep): a new form empties the form, and no
callback empties form or id and leaves the dialog open. `TypeCorrect` rests on the
conversions being total (`Converted`). `SavesHitTheirRows` is inductive with
`FormMatches`, by which the dialog's mode, the edited id and the row the form was
loaded from agree while the dialog is open, whatever callback ran last.
`ListsShowOwnWrites` needs `Fresh`: what a request under way has read, unless an
answer found it and could not restart it, is not older than the last own write
that was answered. `FormsMakeOneRow` needs `Once`: a creation under way was made by
the form that is still open or by one that is gone, and keeps the button of the
open one off. `SavesOverwriteOnlyUnread` is an action property; its invariant
`WriteInv` says that whatever was read of a row (by the list, the form or a call)
is what the row holds until a later write, and that a form which was not typed in
still shows it. That such a form sends back what it read is `WellRead`, which is why
the conversions of a page enter the proof as an assumption on its data.

**`TripsProofs`.** `TripsInv` types the tables, the form and the running saves, and
says what the calls of a save are: a creation comes first or not at all, and a
deletion is of a stop that the form does not have (`CallsFit`). `TripsTypeCorrect`
and `SavesDeleteOnlyRemoved` follow, and `FormsMakeOneTrip` from `OfForm`: the form
waits for one save at most, which has a creation to make only if the form has none
yet, or made one in an attempt that failed. `SavesAreAsDrafted` is of another kind,
because it relates the rows to two lists, the cached itinerary and the form.
`AloneInv` says it half-way: of a save that runs alone, the stops it has made and
those it has still to add are together the ones wanted, place by place and order by
order (`NewFit`), and of the stops there were, those gone are the ones removed from
the form less those still to delete and those in `left` (`OldFit`). Each call moves
one element from one side to the other, which `TailAdds` and its companions count.

**`VisitorProofs`.** One section and one invariant for each page.
`FormInv` (`ReviewForm`): an upload under way was started with the photos of the form.
`PagerInv`: until an answer misled the page, the total shown is no greater than the
present one and has the page. `SearchInv`: unless searches crossed there is one
under way at most, with the spinner on, and it is of what is typed unless a key is
still to start another. `FavInv`: a heart or a list without doubt has an answer on
the way that says what is stored, or will ask, or shows it (`HeartFits`,
`ListFits`), which needs that a waiting request belongs to the page of its tab and
that a list is asked for once. `AccountInv`: somebody who was told a row at some
write knows the name unless it was changed since (`KnowsIn`); so do the session,
every answer under way and every photo, and a handler has the row as it is or the
row was written since. `AccountCounts` bounds the writes by the requests that are
past, each of which wrote once at most. `StaysInv`: a list in the cache has what
met the server's part of the filters of its own key when it was read, all of it
unless it filled a page. `RevInv`: a request that is alone will save the average of
the reviews, and while all is calm one that has not written yet found the rating
right, to which the migrations put an end; how an average is added up does not matter there. It does in
`ReviewsTypeCorrect`: the sum over the reviews is a fold, and that it is at least
their number and at most five times that goes by induction over the set of reviews
added so far. The library's induction theorems cannot be instantiated, so the
induction is made from the well-foundedness of the naturals, over a set of numbers
in place of a predicate (`NatSetInduction`, `FoldExists`, `SumBounds`). In
`DialogInv` (`StayDialog`) every request carries what its dates and the price its page had come
to (`WellMade`), so that the total stored, computed once more from the server's
price, is the one shown whenever the two prices agree. And a dialog is held by one
request at most (`OneHolds`): one that is under way, or that stored a reservation
and told the dialog so. While it is held its button is off; an answer that was
lost is the only way to get it back after a reservation was stored. `OneChanges`
is the step all answers have in common.

**`CompositionProofs`.** `Desk` first. Its three properties hold of every field of
every form for one reason: what is shown of a value and sent again is that value
(`SentBack`), what is typed is sent for what it means (`SentIs`), and each policy of
the service stores what was sent or keeps what there was (`UpdatedIs`, `CreatedIs`).
That every field of every page is of this kind, but for the lost ones, is
`FieldsFit`, page by page; `DeskInv` adds that an open form holds what was typed, or
else what the row or the blank form put there. Then the pages together:
`PagesCompose` shows that a behaviour of `MCVisitor` is a behaviour of every page,
and `VisitorTypeCorrect` and `VisitorKeepsPromises` that all properties of the run
`visitor` hold of the composition, whatever the values of the constants.

**`TablesTheorems`.** Put, Drop and Restrict keep tables tables.

Only model-checked is liveness, which is beyond the prover: `SoleSessionSettles`, and
the temporal part of `LedgerSpec` and of `SessionSpec` (their safety parts are
`ImplementsLedger` and `ImplementsSession`). Every invariant and every action
property of a passing run is a theorem. The violations are TLC's counterexamples.

## Not modelled

Parsing, JSON, the signature of webhooks, and wording: no property is about them,
and the inputs of the models are those that pass. Images and e-mail: pure I/O.
Notifications: single UPDATEs of a user's own rows, and nothing calls the
functions that would write one. The caches and the map: only a TTL is promised
and no write path knows them. What a client receives of a cache is modelled in
`Pager` (any total the list had) and in the reads of `Stays`; in `Trips` it is
not: an itinerary answered from the server's cache is some minutes old at most, and
one that its visitor was answered before, unless others read it in between. Verification and reset tokens. The revisions of the
wiki, of which an older one may be approved after a newer one: no page of the
client reaches their approval. The votes on places. The counters of
advertisements. The mobile client: its queue of waiting requests is never filled.
The atlas, the map, the home page, the wiki's articles and the other public pages:
they show what one query returned. Statistics, the search boxes of the lists and
the pager of the users.

Left out of modules that exist:

- Two guests may reserve the same nights: nothing in the code relates two
  reservations of one establishment, so there is no rule to check.
- Several writers of a reservation's status: the code does not say which of them
  should win (`Booking` has them all).
- The lists of the administration ask for 200 rows and get 100 at most, so that a
  row past the first 100 is on no page; a soft-deleted slug or region code keeps
  its unique index, as the favorite does. Rows of `Editor` have no such keys.
- `handleImageUpload` of the advertisements sets the image of whatever form is
  open when the upload ends; `ReviewForm` has such a callback.
- Symbols of equal `sortOrder` come in any order, and the sort of the
  destinations' filter is never sent: presentation.
- Two pages keep data of different shapes under one query key (`regions`: an array
  in `admin/lieux/page.tsx:72`, an object elsewhere; `owner-reservations`
  likewise): which of the two a page finds depends on the page visited before. The
  models have no shapes of data.
- `Trips`: the validation of the title, the redirection of a visitor who is not the
  owner, a second deletion; the server's handler reads and writes in one step
  there. What is typed into a stop that was kept is never sent. Deleting an
  itinerary leaves its stops in their table. After a deletion that failed the
  button stays off.
- `Stays`: the order of the cards. `StayDialog`: the text, which is stored as it is
  but for its length, and the number of guests: more than 20 are refused
  (`reservation_service.go:63-65`), and a refusal is in the model already.

## Plan

1. `Booking`, `Ledger`, `RateLimits`, `TokenRotation` and their proofs (done).
2. `Editor`, `Pages`, `Desk` and the proofs of `Editor` (done); the pages of the
   visitors: `Trips`, `Favorites`, `Reviews`, `ReviewForm`, `Account`, `LiveSearch`,
   `Pager`, `Stays`, `StayDialog` (done).
3. Proofs of every invariant and action property of the runs, and that `Booking` and
   `TokenRotation` implement their abstract specifications (done). Left: an abstract
   specification of `Trips`, which would have to say what a save that stopped
   half-way leaves behind; the code promises nothing about that.
4. The persisted copy of the session in the web client beside the tokens
   (`TokenRotation` and `Account` each hold one half); reset and verification
   tokens, should the code come to promise that they are used once.
