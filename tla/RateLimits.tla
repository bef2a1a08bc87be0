----------------------------- MODULE RateLimits -----------------------------
(***************************************************************************)
(* The two rate limiters a request to an /auth route goes through: the API *)
(* limiter, which counts in Redis, then the auth limiter, which counts in  *)
(* a map of the process.  Both count by client address: the API limiter    *)
(* runs before a route's Auth middleware, so it never has a user id.       *)
(***************************************************************************)
EXTENDS Tables, Integers, Sequences, FiniteSets

CONSTANTS
  Clients,        \* client addresses
  Handlers,       \* goroutines the server may run at once
  AuthMax,        \* maxRequests of the auth limiter (10)
  ApiMax,         \* maxRequests of the API limiter (300)
  Window,         \* the window of both (one minute), in ticks
  NoDeadline,     \* a Redis key without TTL
  MaxTime,        \* bound: ticks of the clock
  MaxArrivals,    \* bound: requests
  MaxFaults,      \* bound: calls to Redis that report an error
  MaxRestarts     \* bound: restarts of the server process

ASSUME LimitsOK ==
  /\ AuthMax \in Nat \ {0} /\ ApiMax \in Nat \ {0} /\ Window \in Nat \ {0}
  /\ NoDeadline \notin Nat
  /\ MaxTime \in Nat /\ MaxArrivals \in Nat
  /\ MaxFaults \in Nat /\ MaxRestarts \in Nat

VARIABLES
  now,        \* the clock
  redis,      \* counters in Redis; a key past its deadline is not there
  visitors,   \* the auth limiter's map
  req,        \* requests inside the limiters
  counted,    \* history: when the API limiter let a counted request pass
  admitted,   \* history: when the auth limiter let a request pass, since the process began
  arrivals, faults, restarts

vars == <<now, redis, visitors, req, counted, admitted, arrivals, faults, restarts>>

-----------------------------------------------------------------------------
Counter == [count: Nat \ {0}, deadline: Nat \cup {NoDeadline}]
Visitor == [count: Nat \ {0}, lastSeen: Nat]
Request == [at: {"expire", "enter"}, client: Clients]

TypeOK ==
  /\ now \in Nat
  /\ IsTable(redis, Clients, Counter)
  /\ IsTable(visitors, Clients, Visitor)
  /\ IsTable(req, Handlers, Request)
  /\ counted \in [Clients -> Seq(Nat)]
  /\ admitted \in [Clients -> Seq(Nat)]
  /\ arrivals \in Nat /\ faults \in Nat /\ restarts \in Nat

Init ==
  /\ now = 0
  /\ redis = NoRows /\ visitors = NoRows /\ req = NoRows
  /\ counted = [c \in Clients |-> << >>]
  /\ admitted = [c \in Clients |-> << >>]
  /\ arrivals = 0 /\ faults = 0 /\ restarts = 0

Tick ==
  /\ now < MaxTime
  /\ now' = now + 1
  /\ UNCHANGED <<redis, visitors, req, counted, admitted, arrivals, faults, restarts>>

Log(log, c) == [log EXCEPT ![c] = Append(@, now)]

-----------------------------------------------------------------------------
\* RedisRateLimiter.

\* The key is there: its deadline has not come.
Live(c) == /\ c \in DOMAIN redis
           /\ redis[c].deadline = NoDeadline \/ now < redis[c].deadline

CountOf(c) == IF Live(c) THEN redis[c].count ELSE 0

\* INCR adds one, and makes a key without TTL when there is none.
Incr(c) ==
  redis' = Put(redis, c,
               [count |-> CountOf(c) + 1,
                deadline |-> IF Live(c) THEN redis[c].deadline ELSE NoDeadline])

NewRequest(h) ==
  /\ h \notin DOMAIN req
  /\ arrivals < MaxArrivals
  /\ arrivals' = arrivals + 1

Goto(h, at, c) == req' = Put(req, h, [at |-> at, client |-> c])

Fault == faults < MaxFaults /\ faults' = faults + 1

\* Mutant: the count before INCR is compared with the limit.
CountOneMore(h, c) ==
  /\ NewRequest(h) /\ CountOf(c) <= ApiMax
  /\ Incr(c)
  /\ counted' = Log(counted, c)
  /\ Goto(h, IF CountOf(c) = 0 THEN "expire" ELSE "enter", c)
  /\ UNCHANGED <<now, visitors, admitted, faults, restarts>>

\* The count is within the limit: the request goes on, after EXPIRE if it is 1.
Count(h, c) ==
  /\ NewRequest(h) /\ CountOf(c) < ApiMax
  /\ Incr(c)
  /\ counted' = Log(counted, c)
  /\ Goto(h, IF CountOf(c) = 0 THEN "expire" ELSE "enter", c)
  /\ UNCHANGED <<now, visitors, admitted, faults, restarts>>

\* The count is above it: 429.
TooMany(h, c) ==
  /\ NewRequest(h) /\ CountOf(c) >= ApiMax
  /\ Incr(c)
  /\ UNCHANGED <<now, visitors, req, counted, admitted, faults, restarts>>

\* INCR reports an error, whether or not it was made: the request goes on.
FailOpen(h, c, made) ==
  /\ NewRequest(h) /\ Fault
  /\ IF made THEN Incr(c) ELSE redis' = redis
  /\ Goto(h, "enter", c)
  /\ UNCHANGED <<now, visitors, counted, admitted, restarts>>

\* EXPIRE: nothing to do if the key is gone.
SetExpiry(h) ==
  LET c == req[h].client IN
  /\ h \in DOMAIN req /\ req[h].at = "expire"
  /\ redis' = IF Live(c) THEN Put(redis, c, [redis[c] EXCEPT !.deadline = now + Window])
                         ELSE redis
  /\ Goto(h, "enter", c)
  /\ UNCHANGED <<now, visitors, counted, admitted, arrivals, faults, restarts>>

\* The answer of EXPIRE is not looked at: an error leaves the key without TTL.
ExpiryLost(h) ==
  /\ h \in DOMAIN req /\ req[h].at = "expire"
  /\ Fault
  /\ Goto(h, "enter", req[h].client)
  /\ UNCHANGED <<now, redis, visitors, counted, admitted, arrivals, restarts>>

-----------------------------------------------------------------------------
\* RateLimiter: the mutex makes each of the three outcomes, and a pass of the
\* cleanup, one step.

Recent(c) == c \in DOMAIN visitors /\ now - visitors[c].lastSeen <= Window

AtLimiter(h) == h \in DOMAIN req /\ req[h].at = "enter"

Seen(c, count) == visitors' = Put(visitors, c, [count |-> count, lastSeen |-> now])

\* Mutant: the request that makes the entry is not counted.
AdmitNewUncounted(h) ==
  LET c == req[h].client IN
  /\ AtLimiter(h) /\ ~Recent(c)
  /\ Seen(c, 0)
  /\ admitted' = Log(admitted, c)
  /\ req' = Drop(req, h)
  /\ UNCHANGED <<now, redis, counted, arrivals, faults, restarts>>

AdmitNew(h) ==
  LET c == req[h].client IN
  /\ AtLimiter(h) /\ ~Recent(c)
  /\ Seen(c, 1)
  /\ admitted' = Log(admitted, c)
  /\ req' = Drop(req, h)
  /\ UNCHANGED <<now, redis, counted, arrivals, faults, restarts>>

AdmitAgain(h) ==
  LET c == req[h].client IN
  /\ AtLimiter(h) /\ Recent(c) /\ visitors[c].count < AuthMax
  /\ Seen(c, visitors[c].count + 1)
  /\ admitted' = Log(admitted, c)
  /\ req' = Drop(req, h)
  /\ UNCHANGED <<now, redis, counted, arrivals, faults, restarts>>

\* A rejected request counts, and moves lastSeen, like any other.
Reject(h) ==
  LET c == req[h].client IN
  /\ AtLimiter(h) /\ Recent(c) /\ visitors[c].count >= AuthMax
  /\ Seen(c, visitors[c].count + 1)
  /\ req' = Drop(req, h)
  /\ UNCHANGED <<now, redis, counted, admitted, arrivals, faults, restarts>>

\* Mutant: the cleanup forgets a visitor one tick too early.
CleanupEarly ==
  /\ visitors' = Restrict(visitors, {c \in DOMAIN visitors :
                                       now - visitors[c].lastSeen < Window})
  /\ UNCHANGED <<now, redis, req, counted, admitted, arrivals, faults, restarts>>

Cleanup ==
  /\ visitors' = Restrict(visitors, {c \in DOMAIN visitors : Recent(c)})
  /\ UNCHANGED <<now, redis, req, counted, admitted, arrivals, faults, restarts>>

\* The process stops: the map and the requests are lost, Redis keeps its keys.
Restart ==
  /\ restarts < MaxRestarts
  /\ restarts' = restarts + 1
  /\ visitors' = NoRows /\ req' = NoRows
  /\ admitted' = [c \in Clients |-> << >>]
  /\ UNCHANGED <<now, redis, counted, arrivals, faults>>

-----------------------------------------------------------------------------
Next ==
  \/ Tick \/ Cleanup \/ Restart
  \/ \E h \in Handlers :
       \/ \E c \in Clients : Count(h, c) \/ TooMany(h, c)
       \/ \E c \in Clients, made \in BOOLEAN : FailOpen(h, c, made)
       \/ SetExpiry(h) \/ ExpiryLost(h)
       \/ AdmitNew(h) \/ AdmitAgain(h) \/ Reject(h)

Spec == Init /\ [][Next]_vars

-----------------------------------------------------------------------------
(***************************************************************************)
(* Properties.                                                             *)
(***************************************************************************)

\* Of any n + 1 requests let through in a row, the last comes more than a window
\* after the first.
AtMost(n, log) ==
  \A i \in 1 .. Len(log) - n : log[i + n] - log[i] > Window

\* The auth limiter lets through at most AuthMax requests of a client in any span
\* of one window, wherever the span begins and whenever the cleanup ran.
AuthRateHolds == \A c \in Clients : AtMost(AuthMax, admitted[c])

\* The API limiter, whose windows are fixed, lets through at most twice ApiMax
\* counted requests in any span of one window, through late, lost or repeated
\* EXPIREs and restarts.  (A request let through because Redis failed is not counted.)
ApiRateHolds == \A c \in Clients : AtMost(2 * ApiMax, counted[c])

\* ratelimit.go:21-22 "limits requests per IP. maxRequests per window duration":
\* a request is refused only to a client that had its AuthMax requests let
\* through during the window that ends now.
RefusesOnlyAboveRate ==
  [][\A h \in Handlers : Reject(h) =>
       LET log == admitted[req[h].client]
       IN Cardinality({i \in DOMAIN log : now - log[i] <= Window}) >= AuthMax]_vars

\* ratelimit.go:83 "Use Redis INCR + EXPIRE for atomic rate limiting": a key has
\* a TTL, but for the time between the two commands of the request that made it.
\* (A key that counts more than the requests Redis answered for is left out: an
\* INCR that was made and reported as an error is not followed by an EXPIRE.)
EveryKeyExpires ==
  \A c \in DOMAIN redis :
    redis[c].deadline = NoDeadline /\ redis[c].count <= Len(counted[c]) =>
      \E h \in DOMAIN req : req[h] = [at |-> "expire", client |-> c]
=============================================================================
