--------------------------- MODULE TokenRotation ----------------------------
(***************************************************************************)
(* How a browser stays logged in: AuthService's login and refresh, the     *)
(* refresh_tokens table, and the response interceptor of the web client,   *)
(* which exchanges the refresh token when a call is answered with 401.     *)
(*                                                                         *)
(* An access token and the refresh token handed out with it go by one      *)
(* name.  The server commits each statement by itself; a page runs its     *)
(* JavaScript up to the next await without being interrupted; the tabs of  *)
(* one browser share localStorage and nothing else.                        *)
(***************************************************************************)
EXTENDS Tables, Integers, FiniteSets

CONSTANTS
  Tabs,
  Calls,        \* API calls that may be under way at once
  Refused,      \* those answered with 401 whatever the token: a wrong password
  Tokens,       \* bound: pairs of tokens the server ever makes
  NoToken,      \* localStorage has no such item; a login presents none
  MaxFaults     \* bound: statements that report an error, and answers lost

ASSUME NamesOK ==
  /\ Refused \subseteq Calls
  /\ NoToken \notin Tokens
  /\ MaxFaults \in Nat

VARIABLES
  rows,        \* refresh_tokens: what became of each token stored there
  spent,       \* access tokens older than their 15 minutes
  auth,        \* requests to /auth/login, /register and /refresh, by the pair
               \* they hand out; kept when they are over
  store,       \* localStorage
  refreshing,  \* isRefreshing of each tab
  call,        \* the calls under way
  loggedOut,   \* history: the last thing the user did was to log out
  faults

vars == <<rows, spent, auth, store, refreshing, call, loggedOut, faults>>

-----------------------------------------------------------------------------
TokenRow == {"live", "exchanged", "ended"}

AuthRequest == [op: {"login", "register", "exchange"}, tab: Tabs,
                step: {"find", "revoke", "store", "granted", "refused", "failed"},
                presents: Tokens \cup {NoToken},
                client: {"waiting", "answered", "left"}]

Call == [tab: Tabs, at: {"sent", "queued", "exchanging"},
         access: Tokens \cup {NoToken}, retried: BOOLEAN]

TypeOK ==
  /\ IsTable(rows, Tokens, TokenRow)
  /\ spent \subseteq Tokens
  /\ IsTable(auth, Tokens, AuthRequest)
  /\ store \in [access: Tokens \cup {NoToken}, refresh: Tokens \cup {NoToken}]
  /\ refreshing \in [Tabs -> BOOLEAN]
  /\ IsTable(call, Calls, Call)
  /\ loggedOut \in BOOLEAN
  /\ faults \in Nat

NothingStored == [access |-> NoToken, refresh |-> NoToken]

Init ==
  /\ rows = NoRows /\ spent = {} /\ auth = NoRows
  /\ store = NothingStored
  /\ refreshing = [t \in Tabs |-> FALSE]
  /\ call = NoRows
  /\ loggedOut = TRUE
  /\ faults = 0

-----------------------------------------------------------------------------
\* Bound: a page starts nothing that the pairs left could not finish.
Room ==
  Cardinality({c \in DOMAIN call : ~call[c].retried})
    < Cardinality(Tokens \ DOMAIN auth)

Waiting(k) == k \in DOMAIN auth /\ auth[k].client = "waiting"

Ask(k, op, t, step, presents) ==
  /\ k \notin DOMAIN auth
  /\ auth' = Put(auth, k, [op |-> op, tab |-> t, step |-> step,
                           presents |-> presents, client |-> "waiting"])

-----------------------------------------------------------------------------
\* A page: calls, and the interceptors they go through.

\* A call takes the access token from localStorage.
Send(c, t) ==
  /\ c \notin DOMAIN call /\ Room
  /\ call' = Put(call, c, [tab |-> t, at |-> "sent", access |-> store.access,
                           retried |-> FALSE])
  /\ UNCHANGED <<rows, spent, auth, store, refreshing, loggedOut, faults>>

\* It is answered, or fails, with anything but 401.
Settle(c) ==
  /\ c \in DOMAIN call /\ call[c].at = "sent"
  /\ call' = Drop(call, c)
  /\ UNCHANGED <<rows, spent, auth, store, refreshing, loggedOut, faults>>

Unauthorized(c) ==
  /\ c \in DOMAIN call /\ call[c].at = "sent"
  /\ c \in Refused \/ call[c].access \in spent \cup {NoToken}

MayExchange(c) == ~call[c].retried /\ store.refresh # NoToken

\* 401 to a call that was tried again already, or with no refresh token.
Reject(c) ==
  /\ Unauthorized(c) /\ ~MayExchange(c)
  /\ call' = Drop(call, c)
  /\ UNCHANGED <<rows, spent, auth, store, refreshing, loggedOut, faults>>

\* Mutant: isRefreshing is not looked at.
AlwaysFree(t) == TRUE

Free(t) == ~refreshing[t]

\* 401 while the page exchanges its token: the call waits in failedQueue.
Enqueue(c) ==
  /\ Unauthorized(c) /\ MayExchange(c) /\ ~Free(call[c].tab)
  /\ call' = Put(call, c, [call[c] EXCEPT !.at = "queued"])
  /\ UNCHANGED <<rows, spent, auth, store, refreshing, loggedOut, faults>>

\* 401 otherwise: this call exchanges the token for the whole page.
StartExchange(c, k) ==
  /\ Unauthorized(c) /\ MayExchange(c) /\ Free(call[c].tab)
  /\ call' = Put(call, c, [call[c] EXCEPT !.at = "exchanging", !.retried = TRUE])
  /\ refreshing' = [refreshing EXCEPT ![call[c].tab] = TRUE]
  /\ Ask(k, "exchange", call[c].tab, "find", store.refresh)
  /\ UNCHANGED <<rows, spent, store, loggedOut, faults>>

Login(t, k) ==
  /\ Room
  /\ Ask(k, "login", t, "store", NoToken)
  /\ UNCHANGED <<rows, spent, store, refreshing, call, loggedOut, faults>>

\* A registration stores no refresh token and hands out none.
Register(t, k) ==
  /\ Room
  /\ Ask(k, "register", t, "granted", NoToken)
  /\ UNCHANGED <<rows, spent, store, refreshing, call, loggedOut, faults>>

-----------------------------------------------------------------------------
(***************************************************************************)
(* The server.  A statement commits, fails, or commits although its caller *)
(* is told of an error.  When the client is gone the context is cancelled  *)
(* and any of the three may happen; otherwise an error is a fault.         *)
(***************************************************************************)
Outcomes == {"done", "failed", "unknown"}

Statement(k, o) ==
  IF o # "done" /\ Waiting(k)
  THEN faults < MaxFaults /\ faults' = faults + 1
  ELSE faults' = faults

At(k, step) == k \in DOMAIN auth /\ auth[k].step = step

GoTo(k, step) == auth' = Put(auth, k, [auth[k] EXCEPT !.step = step])

Valid(p) == p \in DOMAIN rows /\ rows[p] = "live"

\* Refresh reads the valid tokens; when the query fails it sees none.
FindToken(k, o) ==
  /\ At(k, "find")
  /\ Statement(k, o)
  /\ GoTo(k, IF o # "done" THEN "failed"
             ELSE IF Valid(auth[k].presents) THEN "revoke" ELSE "refused")
  /\ UNCHANGED <<rows, spent, store, refreshing, call, loggedOut>>

\* Mutant: the status written is not one the queries know.
RevokeMisspelt(p) == rows' = Put(rows, p, "revoked")

Revoke(p) == rows' = Put(rows, p, "exchanged")

\* It revokes the token it found, without looking at the result.
RevokeToken(k, o) ==
  /\ At(k, "revoke")
  /\ Statement(k, o)
  /\ IF o # "failed" THEN Revoke(auth[k].presents) ELSE rows' = rows
  /\ GoTo(k, "store")
  /\ UNCHANGED <<spent, store, refreshing, call, loggedOut>>

\* Login and Refresh make the new pair and store its refresh token.  "failed" also
\* stands for a user that cannot be read.
StoreToken(k, o) ==
  /\ At(k, "store")
  /\ Statement(k, o)
  /\ rows' = IF o # "failed" THEN Put(rows, k, "live") ELSE rows
  /\ GoTo(k, IF o = "done" THEN "granted" ELSE "failed")
  /\ UNCHANGED <<spent, store, refreshing, call, loggedOut>>

\* Thirty days pass, or ResetPassword revokes every token of the user.
EndTokens(K) ==
  /\ K # {} /\ K \subseteq DOMAIN rows /\ \A p \in K : rows[p] = "live"
  /\ rows' = [p \in DOMAIN rows |-> IF p \in K THEN "ended" ELSE rows[p]]
  /\ UNCHANGED <<spent, auth, store, refreshing, call, loggedOut, faults>>

\* Fifteen minutes pass.
AccessExpires(k) ==
  /\ At(k, "granted") /\ k \notin spent
  /\ spent' = spent \cup {k}
  /\ UNCHANGED <<rows, auth, store, refreshing, call, loggedOut, faults>>

-----------------------------------------------------------------------------
\* The page goes on after a request to /auth.

Close(k) == auth' = Put(auth, k, [auth[k] EXCEPT !.client = "answered"])

\* Mutant: only the access token is stored.
KeepOldRefresh(k) == store' = [store EXCEPT !.access = k]

StorePair(k) == store' = [access |-> k, refresh |-> k]

\* setAuth after a login or a registration.
LoggedIn(k) ==
  /\ Waiting(k) /\ At(k, "granted") /\ auth[k].op # "exchange"
  /\ store' = [access |-> k,
               refresh |-> IF auth[k].op = "login" THEN k ELSE store.refresh]
  /\ loggedOut' = FALSE
  /\ Close(k)
  /\ UNCHANGED <<rows, spent, refreshing, call, faults>>

\* Calls of tab t that wait for its exchange.
Held(t) == {c \in DOMAIN call : call[c].tab = t /\ call[c].at # "sent"}

\* processQueue(null), and the call that exchanged the token: all are sent again.
Release(t, k) ==
  call' = [c \in DOMAIN call |->
             IF c \in Held(t) THEN [call[c] EXCEPT !.at = "sent", !.access = k]
                              ELSE call[c]]

\* The exchange succeeded.
Exchanged(k) ==
  /\ Waiting(k) /\ At(k, "granted") /\ auth[k].op = "exchange"
  /\ StorePair(k)
  /\ Release(auth[k].tab, k)
  /\ refreshing' = [refreshing EXCEPT ![auth[k].tab] = FALSE]
  /\ Close(k)
  /\ UNCHANGED <<rows, spent, loggedOut, faults>>

\* Mutant: the queue is left as it is.
RejectOne(t) ==
  call' = Restrict(call, {c \in DOMAIN call : c \notin Held(t) \/ call[c].at = "queued"})

\* processQueue(err), and the call that tried.
RejectHeld(t) == call' = Restrict(call, DOMAIN call \ Held(t))

\* Mutant: a failed exchange leaves the tokens.
KeepTokens == store' = store

ClearTokens == store' = NothingStored

\* The catch clause: a failed exchange of any cause logs the browser out.  A failed
\* login changes nothing.
Fails(k) ==
  /\ Close(k)
  /\ IF auth[k].op = "exchange"
     THEN /\ RejectHeld(auth[k].tab)
          /\ ClearTokens
          /\ refreshing' = [refreshing EXCEPT ![auth[k].tab] = FALSE]
     ELSE UNCHANGED <<call, store, refreshing>>

AnsweredWithError(k) ==
  /\ Waiting(k) /\ (At(k, "refused") \/ At(k, "failed"))
  /\ Fails(k)
  /\ UNCHANGED <<rows, spent, loggedOut, faults>>

\* The connection breaks or the server stops; what the server was doing may go on.
AnswerLost(k) ==
  /\ Waiting(k)
  /\ faults < MaxFaults /\ faults' = faults + 1
  /\ Fails(k)
  /\ UNCHANGED <<rows, spent, loggedOut>>

\* The user logs out, in any tab.
Logout ==
  /\ store' = NothingStored
  /\ loggedOut' = TRUE
  /\ UNCHANGED <<rows, spent, auth, refreshing, call, faults>>

\* The page is loaded again or left, by the user or for /login after a failed
\* exchange: its calls and its isRefreshing are gone, what it asked the server
\* for is not.
Reload(t) ==
  /\ call' = Restrict(call, {c \in DOMAIN call : call[c].tab # t})
  /\ refreshing' = [refreshing EXCEPT ![t] = FALSE]
  /\ auth' = [k \in DOMAIN auth |->
                IF auth[k].tab = t /\ auth[k].client = "waiting"
                THEN [auth[k] EXCEPT !.client = "left"] ELSE auth[k]]
  /\ UNCHANGED <<rows, spent, store, loggedOut, faults>>

-----------------------------------------------------------------------------
\* The server works on the request that hands out k.
Serve(k) ==
  \E o \in Outcomes : FindToken(k, o) \/ RevokeToken(k, o) \/ StoreToken(k, o)

\* The page receives its answer.
Receive(k) == LoggedIn(k) \/ Exchanged(k) \/ AnsweredWithError(k)

\* The call is answered.
Answer(c) ==
  \/ Settle(c) \/ Reject(c) \/ Enqueue(c)
  \/ \E k \in Tokens : StartExchange(c, k)

Next ==
  \/ \E c \in Calls, t \in Tabs : Send(c, t)
  \/ \E c \in Calls : Answer(c)
  \/ \E t \in Tabs, k \in Tokens : Login(t, k) \/ Register(t, k)
  \/ \E k \in Tokens : Serve(k) \/ Receive(k) \/ AnswerLost(k) \/ AccessExpires(k)
  \/ \E K \in SUBSET Tokens : EndTokens(K)
  \/ \E t \in Tabs : Reload(t)
  \/ Logout

Spec == Init /\ [][Next]_vars

\* Goroutines run, and TCP brings an answer or an error.
Fairness ==
  /\ \A c \in Calls : WF_vars(Answer(c))
  /\ \A k \in Tokens : WF_vars(Serve(k)) /\ WF_vars(Receive(k))

FairSpec == Spec /\ Fairness

-----------------------------------------------------------------------------
(***************************************************************************)
(* Properties.                                                             *)
(***************************************************************************)

Exchanges(t) == {k \in DOMAIN auth : auth[k].op = "exchange" /\ auth[k].tab = t}

UnderWay(t) == {k \in Exchanges(t) : Waiting(k)}

\* isRefreshing is up exactly while the page waits for one exchange, that one is the
\* only one, and it is under way exactly as long as calls wait for it: none is left
\* in failedQueue with nobody to release it, and none is sent again before its end,
\* whatever the order of 401s, answers, errors and page loads.
QueueHasExchange ==
  \A t \in Tabs :
    /\ refreshing[t] <=> UnderWay(t) # {}
    /\ refreshing[t] <=> Held(t) # {}
    /\ \A j, k \in UnderWay(t) : j = k

\* A page presents a refresh token once (the server would refuse it the second time
\* and the page log the user out), whatever other tabs, logins and logouts write
\* in between.  Only a page that was left without an answer may have presented a
\* token that the next page presents again.
PresentsOnce ==
  \A t \in Tabs : \A j, k \in Exchanges(t) :
    /\ j # k /\ auth[j].presents = auth[k].presents
    => auth[j].client = "left" \/ auth[k].client = "left"

\* The refresh token in localStorage was not exchanged already, unless an exchange of
\* it is under way or was abandoned by the page that asked for it: an error after
\* the revocation never leaves a dead token behind.
StoredIsExchangeable ==
  \A p \in DOMAIN rows : store.refresh = p /\ rows[p] = "exchanged" =>
    \E k \in DOMAIN auth : auth[k].presents = p /\ auth[k].client \in {"waiting", "left"}

\* A refresh is refused only for a token that ended, or when another tab, or a page
\* since left, presented the same one: alone in its browser a page is never logged
\* out by an exchange of its own.
RefusedForAReason ==
  \A k \in DOMAIN auth : auth[k].step = "refused" =>
    \/ rows[auth[k].presents] = "ended"
    \/ \E j \in DOMAIN auth \ {k} :
         /\ auth[j].presents = auth[k].presents
         /\ auth[j].tab # auth[k].tab \/ auth[j].client = "left" \/ auth[k].client = "left"

\* A token the browser knows: its pair was stored, handed out and received.
Known(p) ==
  /\ p \in DOMAIN rows \cap DOMAIN auth
  /\ auth[p].step = "granted" /\ auth[p].client = "answered"

Past == {"store", "granted", "failed"}

\* localStorage and the requests to /auth/refresh name only tokens that were handed
\* out, and a token shows as exchanged only after a request that presented it.
TokensAgree ==
  /\ store.refresh # NoToken => Known(store.refresh)
  /\ \A k \in DOMAIN auth :
       /\ auth[k].op = "exchange" => Known(auth[k].presents)
       /\ auth[k].op # "exchange" => auth[k].presents = NoToken /\ auth[k].step \in Past
       /\ auth[k].op # "register" /\ auth[k].step = "granted" => k \in DOMAIN rows
  /\ \A p \in DOMAIN rows : rows[p] = "exchanged" =>
       \E k \in DOMAIN auth : auth[k].presents = p /\ auth[k].step \in Past

\* An exchange whose end the page saw is not of the token now in localStorage.
StoredIsUnanswered ==
  \A k \in DOMAIN auth :
    store.refresh # NoToken /\ auth[k].presents = store.refresh =>
      auth[k].client # "answered"

\* The inductive invariant.
Consistent ==
  /\ TokensAgree /\ StoredIsUnanswered
  /\ QueueHasExchange /\ PresentsOnce /\ RefusedForAReason

\* What Session sees of a state.
heard == {k \in DOMAIN auth : auth[k].client = "answered"}

SentBy(t) == {c \in DOMAIN call : call[c].tab = t /\ call[c].at = "sent"}

sent == [t \in Tabs |-> SentBy(t)]
held == [t \in Tabs |-> Held(t)]
tried == {c \in DOMAIN call : call[c].retried}

S == INSTANCE Session WITH token <- store.refresh

\* The interceptor, whatever the order of 401s, answers, errors, logouts and page
\* loads in all the tabs: calls held together are released together, each call causes
\* one exchange at most, no pair comes back, and every call of a page that is not
\* left is settled in the end, those in failedQueue included.
SessionSpec == S!Spec

\* authStore.test.ts:45 "logout clears everything": after a logout localStorage holds
\* no token until somebody logs in.
LogoutClears == loggedOut => store = NothingStored
=============================================================================
