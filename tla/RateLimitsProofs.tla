-------------------------- MODULE RateLimitsProofs --------------------------
(***************************************************************************)
(* RateLimits, for every number of clients and requests and every limit    *)
(* and window: type correctness, and what each limiter lets through.       *)
(***************************************************************************)
EXTENDS RateLimits, TablesTheorems, TLAPS

\* One more time at the end of a log.
LEMMA AppendTimes ==
  ASSUME NEW log \in Seq(Nat), NEW t \in Nat
  PROVE  /\ Append(log, t) \in Seq(Nat)
         /\ Len(log) \in Nat
         /\ Len(Append(log, t)) = Len(log) + 1
         /\ \A i \in 1 .. Len(log) : Append(log, t)[i] = log[i]
         /\ Append(log, t)[Len(log) + 1] = t
         /\ \A i \in 1 .. Len(log) : log[i] \in Nat
OBVIOUS

\* Times in a log do not decrease.
Sorted(log) == \A i, j \in 1 .. Len(log) : i <= j => log[i] <= log[j]

\* The present time keeps a log sorted.
LEMMA SortedAppend ==
  ASSUME NEW log \in Seq(Nat), NEW t \in Nat, Sorted(log),
         \A i \in 1 .. Len(log) : log[i] <= t
  PROVE  Sorted(Append(log, t))
BY AppendTimes DEF Sorted

\* The rate still holds if the n-th last request so far is old enough.
LEMMA AtMostAppend ==
  ASSUME NEW log \in Seq(Nat), NEW t \in Nat, NEW n \in Nat \ {0}, AtMost(n, log),
         Len(log) + 1 - n >= 1 => t - log[Len(log) + 1 - n] > Window
  PROVE  AtMost(n, Append(log, t))
<1>1. SUFFICES ASSUME NEW i \in 1 .. Len(Append(log, t)) - n
               PROVE  Append(log, t)[i + n] - Append(log, t)[i] > Window
  BY DEF AtMost
<1>2. /\ Len(log) \in Nat
      /\ Len(Append(log, t)) = Len(log) + 1
      /\ \A j \in 1 .. Len(log) : Append(log, t)[j] = log[j]
      /\ Append(log, t)[Len(log) + 1] = t
  BY AppendTimes
<1>3. i \in 1 .. Len(log)
  BY <1>1, <1>2
<1>4. CASE i + n = Len(log) + 1
  BY <1>2, <1>3, <1>4
<1>5. CASE i + n # Len(log) + 1
  <2>1. i \in 1 .. Len(log) - n /\ i + n \in 1 .. Len(log)
    BY <1>1, <1>2, <1>5
  <2>2. QED
    BY <1>2, <1>3, <2>1 DEF AtMost
<1>6. QED
  BY <1>4, <1>5

\* Logging a request adds the present time to the log of its client.
LEMMA LogTimes ==
  ASSUME NEW logs \in [Clients -> Seq(Nat)], NEW c \in Clients, now \in Nat
  PROVE  /\ Log(logs, c) \in [Clients -> Seq(Nat)]
         /\ Log(logs, c)[c] = Append(logs[c], now)
         /\ \A d \in Clients \ {c} : Log(logs, c)[d] = logs[d]
BY DEF Log

-----------------------------------------------------------------------------
\* Type correctness.

\* INCR keeps the counters typed.
LEMMA IncrType ==
  ASSUME TypeOK, NEW c \in Clients, Incr(c)
  PROVE  IsTable(redis', Clients, Counter)
<1> DEFINE row == [count |-> CountOf(c) + 1,
                   deadline |-> IF Live(c) THEN redis[c].deadline ELSE NoDeadline]
<1>1. row \in Counter
  <2>1. CASE Live(c)
    <3>1. c \in DOMAIN redis
      BY <2>1 DEF Live
    <3>2. redis[c] \in Counter
      BY <3>1, TableRows DEF TypeOK
    <3>3. QED
      BY <2>1, <3>2 DEF CountOf, Counter
  <2>2. CASE ~Live(c)
    BY <2>2 DEF CountOf, Counter
  <2>3. QED
    BY <2>1, <2>2
<1> HIDE DEF row
<1>2. redis' = Put(redis, c, row)
  BY DEF Incr, row
<1>3. QED
  BY <1>1, <1>2, PutTable DEF TypeOK

\* A request in the limiters keeps its type.
LEMMA GotoType ==
  ASSUME TypeOK, NEW h \in Handlers, NEW c \in Clients, NEW at \in {"expire", "enter"},
         Goto(h, at, c)
  PROVE  IsTable(req', Handlers, Request)
<1>1. [at |-> at, client |-> c] \in Request
  BY DEF Request
<1>2. QED
  BY <1>1, PutTable DEF Goto, TypeOK

\* So does the map of the auth limiter.
LEMMA SeenType ==
  ASSUME TypeOK, NEW c \in Clients, NEW n \in Nat \ {0}, Seen(c, n)
  PROVE  IsTable(visitors', Clients, Visitor)
<1>1. [count |-> n, lastSeen |-> now] \in Visitor
  BY DEF TypeOK, Visitor
<1>2. QED
  BY <1>1, PutTable DEF Seen, TypeOK

\* The request a goroutine has in the limiters, and its client.
LEMMA RequestType ==
  ASSUME TypeOK, NEW h \in DOMAIN req
  PROVE  h \in Handlers /\ req[h] \in Request /\ req[h].client \in Clients
<1>1. h \in Handlers /\ req[h] \in Request
  BY TableRows DEF TypeOK
<1>2. QED
  BY <1>1 DEF Request

\* Every step keeps the types.
LEMMA TypeStep == TypeOK /\ [Next]_vars => TypeOK'
<1> SUFFICES ASSUME TypeOK, [Next]_vars PROVE TypeOK'
  OBVIOUS
<1>1. ASSUME NEW h \in Handlers, NEW c \in Clients, Count(h, c) PROVE TypeOK'
  <2>1. IsTable(redis', Clients, Counter) /\ IsTable(req', Handlers, Request)
    BY <1>1, IncrType, GotoType DEF Count
  <2>2. counted' \in [Clients -> Seq(Nat)]
    BY <1>1, LogTimes DEF Count, TypeOK
  <2>3. QED
    BY <1>1, <2>1, <2>2 DEF Count, NewRequest, TypeOK
<1>2. ASSUME NEW h \in Handlers, NEW c \in Clients, TooMany(h, c) PROVE TypeOK'
  <2>1. IsTable(redis', Clients, Counter)
    BY <1>2, IncrType DEF TooMany
  <2>2. QED
    BY <1>2, <2>1 DEF TooMany, NewRequest, TypeOK
<1>3. ASSUME NEW h \in Handlers, NEW c \in Clients, NEW made \in BOOLEAN, FailOpen(h, c, made)
      PROVE  TypeOK'
  <2>1. IsTable(redis', Clients, Counter) /\ IsTable(req', Handlers, Request)
    BY <1>3, IncrType, GotoType DEF FailOpen, TypeOK
  <2>2. QED
    BY <1>3, <2>1 DEF FailOpen, NewRequest, Fault, TypeOK
<1>4. ASSUME NEW h \in Handlers, SetExpiry(h) PROVE TypeOK'
  <2>1. PICK c \in Clients :
          /\ redis' = IF Live(c) THEN Put(redis, c, [redis[c] EXCEPT !.deadline = now + Window])
                                 ELSE redis
          /\ Goto(h, "enter", c)
          /\ UNCHANGED <<now, visitors, counted, admitted, arrivals, faults, restarts>>
    BY <1>4, RequestType DEF SetExpiry
  <2>2. IsTable(req', Handlers, Request)
    BY <2>1, GotoType
  <2>3. IsTable(redis', Clients, Counter)
    <3>1. CASE Live(c)
      <4>1. redis[c] \in Counter
        <5>1. c \in DOMAIN redis
          BY <3>1 DEF Live
        <5>2. QED
          BY <5>1, TableRows DEF TypeOK
      <4>2. PICK row \in Counter : row = [redis[c] EXCEPT !.deadline = now + Window]
        <5>1. PICK d \in Nat \cup {NoDeadline} : d = now + Window
          BY LimitsOK DEF TypeOK
        <5>2. [redis[c] EXCEPT !.deadline = d] \in Counter
          BY <4>1 DEF Counter
        <5>3. QED
          BY <5>1, <5>2
      <4>3. redis' = Put(redis, c, row)
        BY <2>1, <3>1, <4>2
      <4>4. QED
        BY <4>3, PutTable DEF TypeOK
    <3>2. CASE ~Live(c)
      BY <2>1, <3>2 DEF TypeOK
    <3>3. QED
      BY <3>1, <3>2
  <2>4. QED
    BY <2>1, <2>2, <2>3 DEF TypeOK
<1>5. ASSUME NEW h \in Handlers, ExpiryLost(h) PROVE TypeOK'
  <2>1. IsTable(req', Handlers, Request)
    BY <1>5, RequestType, GotoType DEF ExpiryLost
  <2>2. QED
    BY <1>5, <2>1 DEF ExpiryLost, Fault, TypeOK
<1>6. ASSUME NEW h \in Handlers, AdmitNew(h) \/ AdmitAgain(h) \/ Reject(h) PROVE TypeOK'
  <2>1. PICK c \in Clients, n \in Nat \ {0} :
          /\ Seen(c, n)
          /\ admitted' \in {admitted, Log(admitted, c)}
          /\ req' = Drop(req, h)
          /\ UNCHANGED <<now, redis, counted, arrivals, faults, restarts>>
    <3>1. req[h].client \in Clients
      BY <1>6, RequestType DEF AdmitNew, AdmitAgain, Reject, AtLimiter
    <3>2. CASE AdmitNew(h)
      BY <3>1, <3>2 DEF AdmitNew
    <3>3. CASE ~AdmitNew(h)
      <4>1. visitors[req[h].client] \in Visitor
        BY <1>6, <3>3, TableRows DEF AdmitAgain, Reject, Recent, TypeOK
      <4>2. visitors[req[h].client].count + 1 \in Nat \ {0}
        BY <4>1 DEF Visitor
      <4>3. QED
        BY <1>6, <3>1, <3>3, <4>2 DEF AdmitAgain, Reject
    <3>4. QED
      BY <3>2, <3>3
  <2>2. IsTable(visitors', Clients, Visitor)
    BY <2>1, SeenType
  <2>3. IsTable(req', Handlers, Request)
    BY <2>1, DropTable DEF TypeOK
  <2>4. admitted' \in [Clients -> Seq(Nat)]
    BY <2>1, LogTimes DEF TypeOK
  <2>5. QED
    BY <2>1, <2>2, <2>3, <2>4 DEF TypeOK
<1>7. CASE Cleanup
  <2>1. IsTable(visitors', Clients, Visitor)
    BY <1>7, RestrictTable DEF Cleanup, TypeOK
  <2>2. QED
    BY <1>7, <2>1 DEF Cleanup, TypeOK
<1>8. CASE Restart
  <2>1. IsTable(visitors', Clients, Visitor) /\ IsTable(req', Handlers, Request)
    BY <1>8, NoRowsTable DEF Restart
  <2>2. QED
    BY <1>8, <2>1 DEF Restart, TypeOK
<1>9. CASE Tick
  BY <1>9 DEF Tick, TypeOK
<1>10. CASE UNCHANGED vars
  BY <1>10 DEF vars, TypeOK
<1>11. QED
  BY <1>1, <1>2, <1>3, <1>4, <1>5, <1>6, <1>7, <1>8, <1>9, <1>10 DEF Next

\* Every counter, visitor, request and log has its type.
THEOREM TypeCorrect == Spec => []TypeOK
<1>1. Init => TypeOK
  BY NoRowsTable DEF Init, TypeOK
<1>2. TypeOK /\ [Next]_vars => TypeOK'
  BY TypeStep
<1>3. QED
  BY <1>1, <1>2, PTL DEF Spec

-----------------------------------------------------------------------------
(***************************************************************************)
(* The auth limiter.  A client's admitted requests end with those of the   *)
(* visit that its entry in the map counts; every earlier one is more than  *)
(* a window older than all of these.                                       *)
(***************************************************************************)
InVisit(c) ==
  IF c \notin DOMAIN visitors THEN 0
  ELSE IF visitors[c].count < AuthMax THEN visitors[c].count ELSE AuthMax

VisitorAgrees(c) ==
  LET log == admitted[c]  n == Len(log) - InVisit(c) IN
  /\ Sorted(log)
  /\ \A i \in 1 .. Len(log) : log[i] <= now
  /\ n >= 0
  /\ \A i \in 1 .. n, j \in n + 1 .. Len(log) : log[j] - log[i] > Window
  /\ c \notin DOMAIN visitors => \A i \in 1 .. Len(log) : now - log[i] > Window
  /\ c \in DOMAIN visitors =>
       /\ visitors[c].lastSeen <= now
       /\ \A i \in 1 .. Len(log) : log[i] <= visitors[c].lastSeen
  /\ AtMost(AuthMax, log)

AuthInv == \A c \in Clients : VisitorAgrees(c)

\* The n-th request of a visit is let through: every request before the visit is
\* more than a window older than it.
LEMMA AdmittedKeeps ==
  ASSUME TypeOK, AuthInv, NEW c \in Clients, NEW n \in 1 .. AuthMax,
         Seen(c, n), admitted' = Log(admitted, c), now' = now,
         Len(admitted[c]) + 1 - n >= 0,
         \A i \in 1 .. Len(admitted[c]) + 1 - n :
           /\ now - admitted[c][i] > Window
           /\ \A j \in Len(admitted[c]) + 2 - n .. Len(admitted[c]) :
                admitted[c][j] - admitted[c][i] > Window
  PROVE  AuthInv'
<1>1. /\ now \in Nat /\ Window \in Nat /\ AuthMax \in Nat \ {0} /\ n \in Nat \ {0}
      /\ admitted \in [Clients -> Seq(Nat)]
  BY LimitsOK DEF TypeOK
<1>2. /\ DOMAIN visitors' = DOMAIN visitors \cup {c}
      /\ visitors'[c] = [count |-> n, lastSeen |-> now]
      /\ \A d \in DOMAIN visitors \ {c} : visitors'[d] = visitors[d]
  BY DEF Seen, Put
<1>3. PICK log \in Seq(Nat) : log = admitted[c]
  BY <1>1
<1>4. PICK new \in Seq(Nat) :
        /\ new = Append(log, now) /\ Len(log) \in Nat /\ Len(new) = Len(log) + 1
        /\ \A i \in 1 .. Len(log) : new[i] = log[i] /\ log[i] \in Nat
        /\ new[Len(log) + 1] = now
  BY <1>1, AppendTimes
<1>5. /\ admitted'[c] = new
      /\ \A d \in Clients \ {c} : admitted'[d] = admitted[d]
  BY <1>1, <1>3, <1>4, LogTimes
<1>6. Sorted(log) /\ AtMost(AuthMax, log) /\ \A i \in 1 .. Len(log) : log[i] <= now
  BY <1>3 DEF AuthInv, VisitorAgrees
<1>7. VisitorAgrees(c)'
  <2>1. InVisit(c)' = n
    BY <1>1, <1>2 DEF InVisit
  <2>2. Sorted(new)
    BY <1>1, <1>4, <1>6, SortedAppend
  <2>3. AtMost(AuthMax, new)
    <3>1. Len(log) + 1 - AuthMax >= 1 => now - log[Len(log) + 1 - AuthMax] > Window
      BY <1>1, <1>3, <1>4
    <3>2. QED
      BY <1>1, <1>4, <1>6, <3>1, AtMostAppend
  <2>4. /\ \A i \in 1 .. Len(new) : new[i] <= now
        /\ \A i \in 1 .. Len(new) - n, j \in Len(new) - n + 1 .. Len(new) :
             new[j] - new[i] > Window
    <3>1. ASSUME NEW i \in 1 .. Len(new) - n, NEW j \in Len(new) - n + 1 .. Len(new)
          PROVE  new[j] - new[i] > Window
      <4>1. i \in 1 .. Len(log) + 1 - n /\ i \in 1 .. Len(log) /\ new[i] = log[i]
        BY <1>1, <1>4
      <4>2. CASE j = Len(log) + 1
        BY <1>3, <1>4, <4>1, <4>2
      <4>3. CASE j # Len(log) + 1
        <5>1. j \in Len(log) + 2 - n .. Len(log) /\ j \in 1 .. Len(log)
          BY <1>1, <1>3, <1>4, <4>3
        <5>2. QED
          BY <1>3, <1>4, <4>1, <5>1
      <4>4. QED
        BY <4>2, <4>3
    <3>2. ASSUME NEW i \in 1 .. Len(new) PROVE new[i] <= now
      <4>1. CASE i = Len(log) + 1
        BY <1>1, <1>4, <4>1
      <4>2. CASE i # Len(log) + 1
        <5>1. i \in 1 .. Len(log)
          BY <1>4, <4>2
        <5>2. QED
          BY <1>4, <1>6, <5>1
      <4>3. QED
        BY <4>1, <4>2
    <3>3. QED
      BY <3>1, <3>2
  <2>5. /\ Sorted(admitted[c])' /\ AtMost(AuthMax, admitted[c])'
        /\ (Len(admitted[c]) - InVisit(c) >= 0)'
        /\ (c \in DOMAIN visitors /\ visitors[c].lastSeen <= now)'
    BY <1>1, <1>2, <1>3, <1>4, <1>5, <2>1, <2>2, <2>3
  <2>6. (\A i \in 1 .. Len(admitted[c]) :
           admitted[c][i] <= now /\ admitted[c][i] <= visitors[c].lastSeen)'
    BY <1>2, <1>5, <2>4
  <2>7. (\A i \in 1 .. Len(admitted[c]) - InVisit(c),
            j \in Len(admitted[c]) - InVisit(c) + 1 .. Len(admitted[c]) :
           admitted[c][j] - admitted[c][i] > Window)'
    BY <1>5, <2>1, <2>4
  <2>8. QED
    BY <2>5, <2>6, <2>7 DEF VisitorAgrees
<1>8. ASSUME NEW d \in Clients \ {c} PROVE VisitorAgrees(d)'
  BY <1>2, <1>5 DEF AuthInv, VisitorAgrees, InVisit
<1>9. QED
  BY <1>7, <1>8 DEF AuthInv

\* The first request of a visit: the client was silent for more than a window.
LEMMA AdmitNewKeeps ==
  ASSUME TypeOK, AuthInv, NEW h, AdmitNew(h)
  PROVE  AuthInv'
<1>1. PICK c \in Clients :
        /\ ~Recent(c) /\ Seen(c, 1) /\ admitted' = Log(admitted, c) /\ now' = now
  BY RequestType DEF AdmitNew, AtLimiter
<1>2. /\ now \in Nat /\ Window \in Nat /\ AuthMax \in Nat \ {0}
      /\ admitted[c] \in Seq(Nat)
  BY LimitsOK DEF TypeOK
<1>3. VisitorAgrees(c) /\ Len(admitted[c]) \in Nat
      /\ \A i \in 1 .. Len(admitted[c]) : admitted[c][i] \in Nat
  BY <1>2, AppendTimes DEF AuthInv
<1>4. \A i \in 1 .. Len(admitted[c]) : now - admitted[c][i] > Window
  <2>1. CASE c \notin DOMAIN visitors
    BY <1>3, <2>1 DEF VisitorAgrees
  <2>2. CASE c \in DOMAIN visitors
    <3>1. visitors[c] \in Visitor
      BY <2>2, TableRows DEF TypeOK
    <3>2. now - visitors[c].lastSeen > Window /\ visitors[c].lastSeen \in Nat
      BY <1>1, <1>2, <2>2, <3>1 DEF Recent, Visitor
    <3>3. QED
      BY <1>2, <1>3, <2>2, <3>2 DEF VisitorAgrees
  <2>3. QED
    BY <2>1, <2>2
<1>5. 1 \in 1 .. AuthMax
  BY <1>2
<1>6. /\ Len(admitted[c]) + 1 - 1 >= 0
      /\ \A i \in 1 .. Len(admitted[c]) + 1 - 1 :
           /\ now - admitted[c][i] > Window
           /\ \A j \in Len(admitted[c]) + 2 - 1 .. Len(admitted[c]) :
                admitted[c][j] - admitted[c][i] > Window
  BY <1>3, <1>4
<1>7. QED
  BY <1>1, <1>5, <1>6, AdmittedKeeps

\* A later one, within the limit.
LEMMA AdmitAgainKeeps ==
  ASSUME TypeOK, AuthInv, NEW h, AdmitAgain(h)
  PROVE  AuthInv'
<1>1. PICK c \in Clients :
        /\ Recent(c) /\ visitors[c].count < AuthMax /\ Seen(c, visitors[c].count + 1)
        /\ admitted' = Log(admitted, c) /\ now' = now
  BY RequestType DEF AdmitAgain, AtLimiter
<1>2. /\ now \in Nat /\ Window \in Nat /\ AuthMax \in Nat \ {0}
      /\ admitted[c] \in Seq(Nat)
  BY LimitsOK DEF TypeOK
<1>3. VisitorAgrees(c) /\ Len(admitted[c]) \in Nat
      /\ \A i \in 1 .. Len(admitted[c]) : admitted[c][i] \in Nat
  BY <1>2, AppendTimes DEF AuthInv
<1>4. PICK n \in 1 .. AuthMax : /\ n = visitors[c].count + 1 /\ n > 1
                                /\ InVisit(c) = n - 1
  <2>1. c \in DOMAIN visitors
    BY <1>1 DEF Recent
  <2>2. visitors[c] \in Visitor
    BY <2>1, TableRows DEF TypeOK
  <2>3. visitors[c].count \in Nat \ {0}
    BY <2>2 DEF Visitor
  <2>4. QED
    BY <1>1, <1>2, <2>1, <2>3 DEF InVisit
<1>5. /\ Len(admitted[c]) + 1 - n >= 0
      /\ \A i \in 1 .. Len(admitted[c]) + 1 - n,
            j \in Len(admitted[c]) + 2 - n .. Len(admitted[c]) :
              admitted[c][j] - admitted[c][i] > Window
      /\ \A i \in 1 .. Len(admitted[c]) : admitted[c][i] <= now
  <2>1. PICK m \in Int : m = Len(admitted[c]) - InVisit(c) /\ m = Len(admitted[c]) + 1 - n
    <3>1. n \in Nat /\ Len(admitted[c]) + 1 - n \in Int
      BY <1>2, <1>3
    <3>2. Len(admitted[c]) - InVisit(c) = Len(admitted[c]) + 1 - n
      BY <1>3, <1>4, <3>1
    <3>3. QED
      BY <3>1, <3>2
  <2>2. /\ m >= 0 /\ m + 1 = Len(admitted[c]) + 2 - n
        /\ \A i \in 1 .. m, j \in m + 1 .. Len(admitted[c]) :
             admitted[c][j] - admitted[c][i] > Window
    <3>1. m >= 0 /\ \A i \in 1 .. m, j \in m + 1 .. Len(admitted[c]) :
                      admitted[c][j] - admitted[c][i] > Window
      BY <1>3, <2>1 DEF VisitorAgrees
    <3>2. m + 1 = Len(admitted[c]) + 2 - n
      BY <1>2, <1>3, <2>1
    <3>3. QED
      BY <3>1, <3>2
  <2>3. \A i \in 1 .. Len(admitted[c]) : admitted[c][i] <= now
    BY <1>3 DEF VisitorAgrees
  <2>4. QED
    BY <2>1, <2>2, <2>3
<1>6. ASSUME NEW i \in 1 .. Len(admitted[c]) + 1 - n
      PROVE  now - admitted[c][i] > Window
  <2>1. /\ Len(admitted[c]) \in Len(admitted[c]) + 2 - n .. Len(admitted[c])
        /\ Len(admitted[c]) \in 1 .. Len(admitted[c])
        /\ i \in 1 .. Len(admitted[c])
    BY <1>3, <1>4, <1>5
  <2>2. admitted[c][Len(admitted[c])] - admitted[c][i] > Window
    BY <1>5, <2>1
  <2>3. /\ admitted[c][Len(admitted[c])] \in Nat /\ admitted[c][i] \in Nat
        /\ admitted[c][Len(admitted[c])] <= now
    BY <1>3, <1>5, <2>1
  <2>4. QED
    BY <1>2, <2>2, <2>3
<1>7. QED
  BY <1>1, <1>4, <1>5, <1>6, AdmittedKeeps

\* A refused request moves lastSeen, and the visit already has AuthMax requests.
LEMMA RejectKeeps ==
  ASSUME TypeOK, AuthInv, NEW h, Reject(h)
  PROVE  AuthInv'
<1>1. PICK c \in Clients :
        /\ Recent(c) /\ visitors[c].count >= AuthMax /\ Seen(c, visitors[c].count + 1)
        /\ admitted' = admitted /\ now' = now
  BY RequestType DEF Reject, AtLimiter
<1>2. PICK k \in Nat : k = visitors[c].count /\ k >= AuthMax /\ visitors[c].lastSeen \in Nat
  <2>1. c \in DOMAIN visitors
    BY <1>1 DEF Recent
  <2>2. visitors[c] \in Visitor
    BY <2>1, TableRows DEF TypeOK
  <2>3. QED
    BY <1>1, <2>2 DEF Visitor
<1>3. /\ c \in DOMAIN visitors /\ DOMAIN visitors' = DOMAIN visitors
      /\ visitors'[c] = [count |-> k + 1, lastSeen |-> now]
      /\ \A d \in DOMAIN visitors \ {c} : visitors'[d] = visitors[d]
  BY <1>1, <1>2 DEF Seen, Put, Recent
<1>4. /\ now \in Nat /\ AuthMax \in Nat /\ admitted \in [Clients -> Seq(Nat)]
  BY LimitsOK DEF TypeOK
<1>5. VisitorAgrees(c)'
  <2>1. InVisit(c) = AuthMax /\ InVisit(c)' = AuthMax
    BY <1>2, <1>3, <1>4 DEF InVisit
  <2>2. VisitorAgrees(c)
    BY DEF AuthInv
  <2>3. (c \in DOMAIN visitors /\ visitors[c].lastSeen <= now
         /\ \A i \in 1 .. Len(admitted[c]) : admitted[c][i] <= visitors[c].lastSeen)'
    BY <1>1, <1>3, <1>4, <2>2 DEF VisitorAgrees
  <2>4. QED
    BY <1>1, <2>1, <2>2, <2>3 DEF VisitorAgrees
<1>6. ASSUME NEW d \in Clients \ {c} PROVE VisitorAgrees(d)'
  BY <1>1, <1>3 DEF AuthInv, VisitorAgrees, InVisit
<1>7. QED
  BY <1>5, <1>6 DEF AuthInv

\* The cleanup only forgets clients that were silent for more than a window.
LEMMA CleanupKeeps ==
  ASSUME TypeOK, AuthInv, Cleanup
  PROVE  AuthInv'
<1>1. /\ admitted' = admitted /\ now' = now
      /\ DOMAIN visitors' = {c \in DOMAIN visitors : Recent(c)}
      /\ \A c \in DOMAIN visitors' : visitors'[c] = visitors[c]
  BY DEF Cleanup, Restrict
<1>2. SUFFICES ASSUME NEW c \in Clients PROVE VisitorAgrees(c)'
  BY DEF AuthInv
<1>3. VisitorAgrees(c)
  BY DEF AuthInv
<1>4. CASE c \in DOMAIN visitors' \/ c \notin DOMAIN visitors
  BY <1>1, <1>3, <1>4 DEF VisitorAgrees, InVisit
<1>5. CASE c \in DOMAIN visitors /\ c \notin DOMAIN visitors'
  <2>1. /\ now \in Nat /\ Window \in Nat /\ Len(admitted[c]) \in Nat
        /\ \A i \in 1 .. Len(admitted[c]) : admitted[c][i] \in Nat
    BY LimitsOK, AppendTimes DEF TypeOK
  <2>2. visitors[c].lastSeen \in Nat /\ now - visitors[c].lastSeen > Window
    <3>1. visitors[c] \in Visitor
      BY <1>5, TableRows DEF TypeOK
    <3>2. visitors[c].lastSeen \in Nat
      BY <3>1 DEF Visitor
    <3>3. QED
      BY <1>1, <1>5, <2>1, <3>2 DEF Recent
  <2>3. \A i \in 1 .. Len(admitted[c]) : now - admitted[c][i] > Window
    BY <1>3, <1>5, <2>1, <2>2 DEF VisitorAgrees
  <2>4. InVisit(c)' = 0
    BY <1>5 DEF InVisit
  <2>5. (Len(admitted[c]) - InVisit(c) >= 0
         /\ \A i \in 1 .. Len(admitted[c]) - InVisit(c),
               j \in Len(admitted[c]) - InVisit(c) + 1 .. Len(admitted[c]) :
              admitted[c][j] - admitted[c][i] > Window)'
    BY <1>1, <2>1, <2>4
  <2>6. (\A i \in 1 .. Len(admitted[c]) : now - admitted[c][i] > Window)'
    BY <1>1, <2>3
  <2>7. (Sorted(admitted[c]) /\ AtMost(AuthMax, admitted[c])
         /\ \A i \in 1 .. Len(admitted[c]) : admitted[c][i] <= now)'
    BY <1>1, <1>3 DEF VisitorAgrees
  <2>8. QED
    BY <1>5, <2>5, <2>6, <2>7 DEF VisitorAgrees
<1>6. QED
  BY <1>4, <1>5

\* Time only makes the logs older.
LEMMA TickKeeps ==
  ASSUME TypeOK, AuthInv, Tick
  PROVE  AuthInv'
<1>1. SUFFICES ASSUME NEW c \in Clients PROVE VisitorAgrees(c)'
  BY DEF AuthInv
<1>2. VisitorAgrees(c) /\ now \in Nat /\ now' = now + 1 /\ Window \in Nat
      /\ admitted' = admitted /\ visitors' = visitors
      /\ \A i \in 1 .. Len(admitted[c]) : admitted[c][i] \in Nat
  BY LimitsOK, AppendTimes DEF AuthInv, Tick, TypeOK
<1>3. (\A i \in 1 .. Len(admitted[c]) : admitted[c][i] <= now)'
  BY <1>2 DEF VisitorAgrees
<1>4. (c \notin DOMAIN visitors =>
         \A i \in 1 .. Len(admitted[c]) : now - admitted[c][i] > Window)'
  BY <1>2 DEF VisitorAgrees
<1>5. (c \in DOMAIN visitors => visitors[c].lastSeen <= now)'
  <2>1. CASE c \in DOMAIN visitors
    <3>1. visitors[c] \in Visitor
      BY <2>1, TableRows DEF TypeOK
    <3>2. visitors[c].lastSeen \in Nat /\ visitors[c].lastSeen <= now
      BY <1>2, <2>1, <3>1 DEF Visitor, VisitorAgrees
    <3>3. QED
      BY <1>2, <3>2
  <2>2. CASE c \notin DOMAIN visitors
    BY <1>2, <2>2
  <2>3. QED
    BY <2>1, <2>2
<1>6. QED
  BY <1>2, <1>3, <1>4, <1>5 DEF VisitorAgrees, InVisit

\* With nothing let through yet, the invariant holds.
LEMMA NoVisits ==
  visitors = NoRows /\ admitted = [c \in Clients |-> << >>] => AuthInv
<1> SUFFICES ASSUME visitors = NoRows, admitted = [c \in Clients |-> << >>]
             PROVE  AuthInv
  OBVIOUS
<1>1. DOMAIN visitors = {}
  BY NoRowsTable
<1>2. AuthMax \in Nat
  BY LimitsOK
<1>3. QED
  BY <1>1, <1>2 DEF AuthInv, VisitorAgrees, InVisit, Sorted, AtMost

\* The auth limiter lets through at most AuthMax requests of a client in any
\* span of one window.
THEOREM AuthRateAlwaysHolds == Spec => []AuthRateHolds
<1>1. Init => AuthInv
  BY NoVisits DEF Init
<1>2. TypeOK /\ AuthInv /\ [Next]_vars => AuthInv'
  <2> SUFFICES ASSUME TypeOK, AuthInv, [Next]_vars PROVE AuthInv'
    OBVIOUS
  <2>1. ASSUME visitors' = visitors, admitted' = admitted, now' = now PROVE AuthInv'
    BY <2>1 DEF AuthInv, VisitorAgrees, InVisit
  <2>2. CASE \E h \in Handlers, c \in Clients : Count(h, c) \/ TooMany(h, c)
    BY <2>1, <2>2 DEF Count, TooMany
  <2>3. CASE \E h \in Handlers, c \in Clients, made \in BOOLEAN : FailOpen(h, c, made)
    BY <2>1, <2>3 DEF FailOpen
  <2>4. CASE \E h \in Handlers : SetExpiry(h) \/ ExpiryLost(h)
    BY <2>1, <2>4 DEF SetExpiry, ExpiryLost
  <2>5. CASE \E h \in Handlers : AdmitNew(h)
    BY <2>5, AdmitNewKeeps
  <2>6. CASE \E h \in Handlers : AdmitAgain(h)
    BY <2>6, AdmitAgainKeeps
  <2>7. CASE \E h \in Handlers : Reject(h)
    BY <2>7, RejectKeeps
  <2>8. CASE Cleanup
    BY <2>8, CleanupKeeps
  <2>9. CASE Tick
    BY <2>9, TickKeeps
  <2>10. CASE Restart
    <3>1. (visitors = NoRows /\ admitted = [c \in Clients |-> << >>])'
      BY <2>10 DEF Restart
    <3>2. (visitors = NoRows /\ admitted = [c \in Clients |-> << >>] => AuthInv)'
      BY NoVisits, PTL
    <3>3. QED
      BY <3>1, <3>2
  <2>11. CASE UNCHANGED vars
    BY <2>1, <2>11 DEF vars
  <2>12. QED
    BY <2>2, <2>3, <2>4, <2>5, <2>6, <2>7, <2>8, <2>9, <2>10, <2>11 DEF Next
<1>3. AuthInv => AuthRateHolds
  BY DEF AuthInv, VisitorAgrees, AuthRateHolds
<1>4. QED
  BY <1>1, <1>2, <1>3, TypeCorrect, PTL DEF Spec

-----------------------------------------------------------------------------
(***************************************************************************)
(* The API limiter.  The requests counted for a client are those of three  *)
(* spans: at most ApiMax under the key that is in Redis, made at time      *)
(* `made`; at most ApiMax under the one before, whose deadline had come by *)
(* then; and older ones, a window older than that key at least.            *)
(***************************************************************************)
Epochs(log, row, made, a, b) ==
  /\ b - a <= ApiMax /\ Len(log) - b <= ApiMax /\ Len(log) - b <= row.count
  /\ \A i \in 1 .. a : log[i] + Window < made
  /\ \A i \in 1 .. b : log[i] < made
  /\ row.deadline # NoDeadline =>
       /\ made + Window <= row.deadline
       /\ \A i \in 1 .. Len(log) : log[i] < row.deadline

KeyAgrees(c) ==
  /\ \A i \in 1 .. Len(counted[c]) : counted[c][i] <= now
  /\ c \notin DOMAIN redis => counted[c] = << >>
  /\ c \in DOMAIN redis =>
       \E made \in 0 .. now, b \in 0 .. Len(counted[c]) : \E a \in 0 .. b :
         Epochs(counted[c], redis[c], made, a, b)
  /\ AtMost(2 * ApiMax, counted[c])

ApiInv == \A c \in Clients : KeyAgrees(c)

\* A key that is past its deadline, or was never there, is made anew now: what was
\* counted under it is older, and what was counted before it by a window.
LEMMA NewKey ==
  ASSUME TypeOK, NEW c \in Clients, KeyAgrees(c), ~Live(c)
  PROVE  \E a \in 0 .. Len(counted[c]) :
           /\ Len(counted[c]) - a <= ApiMax
           /\ \A i \in 1 .. a : counted[c][i] + Window < now
           /\ \A i \in 1 .. Len(counted[c]) : counted[c][i] < now
<1>1. PICK log \in Seq(Nat) : log = counted[c] /\ Len(log) \in Nat
                              /\ \A i \in 1 .. Len(log) : log[i] \in Nat
  BY AppendTimes DEF TypeOK
<1>2. now \in Nat /\ Window \in Nat /\ ApiMax \in Nat /\ NoDeadline \notin Nat
  BY LimitsOK DEF TypeOK
<1>3. CASE c \notin DOMAIN redis
  <2>1. log = << >> /\ Len(log) = 0
    BY <1>1, <1>3 DEF KeyAgrees
  <2>2. 0 \in 0 .. Len(log) /\ Len(log) - 0 <= ApiMax
    BY <1>2, <2>1
  <2>3. (\A i \in 1 .. 0 : log[i] + Window < now) /\ \A i \in 1 .. Len(log) : log[i] < now
    BY <2>1
  <2>4. QED
    BY <1>1, <2>2, <2>3
<1>4. CASE c \in DOMAIN redis
  <2>1. redis[c] \in Counter
    BY <1>4, TableRows DEF TypeOK
  <2>2. /\ redis[c].deadline # NoDeadline /\ redis[c].deadline \in Nat
        /\ redis[c].deadline <= now
    BY <1>2, <1>4, <2>1 DEF Live, Counter
  <2>3. PICK made \in 0 .. now, b \in 0 .. Len(log) : \E a \in 0 .. b :
               Epochs(log, redis[c], made, a, b)
    BY <1>1, <1>4 DEF KeyAgrees
  <2>4. /\ made \in Nat /\ made + Window <= now /\ b \in 0 .. Len(log)
        /\ Len(log) - b <= ApiMax
        /\ \A i \in 1 .. b : log[i] < made
        /\ \A i \in 1 .. Len(log) : log[i] < redis[c].deadline
    BY <1>1, <1>2, <2>2, <2>3 DEF Epochs
  <2>5. \A i \in 1 .. b : log[i] + Window < now
    BY <1>1, <1>2, <2>4
  <2>6. \A i \in 1 .. Len(log) : log[i] < now
    BY <1>1, <1>2, <2>2, <2>4
  <2>7. QED
    BY <1>1, <2>4, <2>5, <2>6
<1>5. QED
  BY <1>3, <1>4

\* INCR, and in the same step the log of a request that is let through.
LEMMA IncrKeeps ==
  ASSUME TypeOK, ApiInv, NEW c \in Clients, Incr(c), now' = now,
         \/ counted' = counted
         \/ counted' = Log(counted, c) /\ CountOf(c) < ApiMax
  PROVE  ApiInv'
<1> DEFINE row == [count |-> CountOf(c) + 1,
                   deadline |-> IF Live(c) THEN redis[c].deadline ELSE NoDeadline]
<1>1. /\ DOMAIN redis' = DOMAIN redis \cup {c} /\ redis'[c] = row
      /\ \A d \in DOMAIN redis \ {c} : redis'[d] = redis[d]
  BY DEF Incr, Put
<1>2. /\ now \in Nat /\ Window \in Nat \ {0} /\ ApiMax \in Nat \ {0} /\ NoDeadline \notin Nat
      /\ counted \in [Clients -> Seq(Nat)] /\ KeyAgrees(c)
  BY LimitsOK DEF TypeOK, ApiInv
<1>3. PICK log \in Seq(Nat) : log = counted[c]
  BY <1>2
<1>4. /\ Len(log) \in Nat /\ \A i \in 1 .. Len(log) : log[i] \in Nat /\ log[i] <= now
      /\ AtMost(2 * ApiMax, log)
  BY <1>2, <1>3, AppendTimes DEF KeyAgrees
\* Where the spans begin after the step, whether or not a request is logged.
<1>5. PICK made \in 0 .. now, b \in 0 .. Len(log) : \E a \in 0 .. b :
         /\ b - a <= ApiMax
         /\ Len(log) - b <= ApiMax /\ Len(log) - b <= CountOf(c)
         /\ \A i \in 1 .. a : log[i] + Window < made
         /\ \A i \in 1 .. b : log[i] < made
         /\ row.deadline # NoDeadline =>
              /\ made + Window <= row.deadline /\ now < row.deadline
              /\ row.deadline \in Nat
              /\ \A i \in 1 .. Len(log) : log[i] < row.deadline
  <2>1. CASE Live(c)
    <3>1. c \in DOMAIN redis /\ row.deadline = redis[c].deadline /\ CountOf(c) = redis[c].count
      BY <2>1 DEF Live, CountOf
    <3>2. redis[c] \in Counter
      BY <3>1, TableRows DEF TypeOK
    <3>3. row.deadline # NoDeadline => now < row.deadline /\ row.deadline \in Nat
      BY <2>1, <3>1, <3>2 DEF Live, Counter
    <3>4. PICK made \in 0 .. now, b \in 0 .. Len(log), a \in 0 .. Len(log) :
             a \in 0 .. b /\ Epochs(log, redis[c], made, a, b)
      BY <1>2, <1>3, <1>4, <3>1 DEF KeyAgrees
    <3>5. QED
      BY <3>1, <3>3, <3>4 DEF Epochs
  <2>2. CASE ~Live(c)
    <3>1. row.deadline = NoDeadline /\ CountOf(c) = 0
      BY <2>2 DEF CountOf
    <3>2. PICK a \in 0 .. Len(log) :
             /\ Len(log) - a <= ApiMax
             /\ \A i \in 1 .. a : log[i] + Window < now
             /\ \A i \in 1 .. Len(log) : log[i] < now
      BY <1>2, <1>3, <2>2, NewKey
    <3> now \in 0 .. now /\ Len(log) \in 0 .. Len(log) /\ Len(log) - Len(log) = 0
      BY <1>2, <1>4
    <3>3. WITNESS now \in 0 .. now, Len(log) \in 0 .. Len(log)
    <3>4. WITNESS a \in 0 .. Len(log)
    <3>5. QED
      BY <1>2, <3>1, <3>2
  <2>3. QED
    BY <2>1, <2>2
<1>6. PICK a \in 0 .. b :
         /\ b - a <= ApiMax
         /\ \A i \in 1 .. a : log[i] + Window < made
  BY <1>5
<1>7. CountOf(c) \in Nat
  <2>1. Live(c) => redis[c] \in Counter
    BY TableRows DEF Live, TypeOK
  <2>2. QED
    BY <2>1 DEF CountOf, Counter
<1> HIDE DEF row
<1>8. row.count = CountOf(c) + 1
  BY DEF row
<1>9. PICK new \in Seq(Nat) :
        /\ new = counted'[c] /\ Len(new) \in Nat
        /\ \A i \in 1 .. Len(new) : new[i] \in Nat /\ new[i] <= now
        /\ b \in 0 .. Len(new) /\ Epochs(new, row, made, a, b) /\ AtMost(2 * ApiMax, new)
  <2>1. CASE counted' = counted
    <3>1. Epochs(log, row, made, a, b)
      BY <1>4, <1>5, <1>6, <1>7, <1>8 DEF Epochs
    <3>2. QED
      BY <1>3, <1>4, <2>1, <3>1
  <2>2. CASE counted' = Log(counted, c) /\ CountOf(c) < ApiMax
    <3>1. PICK new \in Seq(Nat) :
            /\ new = Append(log, now) /\ Len(new) = Len(log) + 1
            /\ \A i \in 1 .. Len(log) : new[i] = log[i]
            /\ new[Len(log) + 1] = now
      BY <1>2, AppendTimes
    <3>2. counted'[c] = new
      BY <1>2, <1>3, <2>2, <3>1, LogTimes
    <3>3. \A i \in 1 .. Len(new) : new[i] \in Nat /\ new[i] <= now
      <4>1. \A i \in 1 .. Len(new) : i \in 1 .. Len(log) \/ i = Len(log) + 1
        BY <1>4, <3>1
      <4>2. QED
        BY <1>2, <1>4, <3>1, <4>1
    <3>4. Epochs(new, row, made, a, b)
      <4>1. Len(new) - b <= ApiMax /\ Len(new) - b <= row.count
        BY <1>2, <1>4, <1>5, <1>7, <1>8, <2>2, <3>1
      <4>2. /\ \A i \in 1 .. a : new[i] + Window < made
            /\ \A i \in 1 .. b : new[i] < made
        <5>1. \A i \in 1 .. b : i \in 1 .. Len(log) /\ new[i] = log[i]
          BY <1>4, <3>1
        <5>2. \A i \in 1 .. a : i \in 1 .. b
          OBVIOUS
        <5>3. QED
          BY <1>5, <1>6, <5>1, <5>2
      <4>3. row.deadline # NoDeadline =>
               /\ made + Window <= row.deadline
               /\ \A i \in 1 .. Len(new) : new[i] < row.deadline
        BY <1>2, <1>5, <3>3
      <4>4. QED
        BY <1>6, <4>1, <4>2, <4>3 DEF Epochs
    <3>5. AtMost(2 * ApiMax, new)
      <4>1. PICK n \in Nat \ {0} : n = 2 * ApiMax /\ n = ApiMax + ApiMax
        BY <1>2
      <4>2. ASSUME Len(log) + 1 - n >= 1
            PROVE  now - log[Len(log) + 1 - n] > Window
        <5>1. Len(log) + 1 - b <= ApiMax
          BY <1>2, <1>4, <1>5, <1>7, <2>2
        <5>2. Len(log) + 1 - n \in 1 .. a /\ Len(log) + 1 - n \in 1 .. Len(log)
          BY <1>2, <1>4, <1>6, <4>1, <4>2, <5>1
        <5>3. log[Len(log) + 1 - n] + Window < made /\ log[Len(log) + 1 - n] \in Nat
          BY <1>4, <1>6, <5>2
        <5>4. QED
          BY <1>2, <5>3
      <4>3. AtMost(n, Append(log, now))
        BY <1>2, <1>4, <4>1, <4>2, AtMostAppend
      <4>4. QED
        BY <3>1, <4>1, <4>3
    <3>6. Len(new) \in Nat /\ b \in 0 .. Len(new)
      BY <1>4, <3>1
    <3>7. QED
      BY <3>2, <3>3, <3>4, <3>5, <3>6
  <2>3. QED
    BY <2>1, <2>2
<1>10. KeyAgrees(c)'
  BY <1>1, <1>9 DEF KeyAgrees
<1>11. ASSUME NEW d \in Clients \ {c} PROVE KeyAgrees(d)'
  <2>1. CASE counted' = Log(counted, c)
    <3>1. counted'[d] = counted[d]
      BY <1>2, <2>1, LogTimes
    <3>2. QED
      BY <1>1, <3>1 DEF ApiInv, KeyAgrees
  <2>2. CASE counted' = counted
    BY <1>1, <2>2 DEF ApiInv, KeyAgrees
  <2>3. QED
    BY <2>1, <2>2
<1>12. QED
  BY <1>10, <1>11 DEF ApiInv

\* EXPIRE: the key will end no earlier than a window from now.
LEMMA SetExpiryKeeps ==
  ASSUME TypeOK, ApiInv, NEW h, SetExpiry(h)
  PROVE  ApiInv'
<1>1. PICK c \in Clients :
        /\ redis' = IF Live(c) THEN Put(redis, c, [redis[c] EXCEPT !.deadline = now + Window])
                               ELSE redis
        /\ counted' = counted /\ now' = now
  BY RequestType DEF SetExpiry
<1>2. CASE ~Live(c)
  BY <1>1, <1>2 DEF ApiInv, KeyAgrees
<1>3. CASE Live(c)
  <2>1. redis[c] \in Counter /\ c \in DOMAIN redis
    BY <1>3, TableRows DEF Live, TypeOK
  <2>2. PICK row \in [count : Nat, deadline : Nat \cup {NoDeadline}] :
               /\ row = [redis[c] EXCEPT !.deadline = now + Window]
               /\ row.count = redis[c].count /\ row.deadline = now + Window
    <3>1. PICK d \in Nat : d = now + Window
      BY LimitsOK DEF TypeOK
    <3>2. [redis[c] EXCEPT !.deadline = d] \in [count : Nat, deadline : Nat \cup {NoDeadline}]
      BY <2>1 DEF Counter
    <3>3. [redis[c] EXCEPT !.deadline = d].deadline = d
          /\ [redis[c] EXCEPT !.deadline = d].count = redis[c].count
      BY <2>1 DEF Counter
    <3>4. QED
      BY <3>1, <3>2, <3>3
  <2>3. /\ DOMAIN redis' = DOMAIN redis /\ redis'[c] = row
        /\ \A d \in DOMAIN redis \ {c} : redis'[d] = redis[d]
    BY <1>1, <1>3, <2>1, <2>2 DEF Put
  <2>4. now \in Nat /\ Window \in Nat \ {0} /\ KeyAgrees(c)
    BY LimitsOK DEF TypeOK, ApiInv
  <2>5. PICK log \in Seq(Nat) : /\ log = counted[c] /\ Len(log) \in Nat
                                /\ \A i \in 1 .. Len(log) : log[i] \in Nat /\ log[i] <= now
    BY <2>4, AppendTimes DEF TypeOK, KeyAgrees
  <2>6. PICK made \in 0 .. now, b \in 0 .. Len(log), a \in 0 .. Len(log) :
               a \in 0 .. b /\ Epochs(log, redis[c], made, a, b)
    BY <2>1, <2>4, <2>5 DEF KeyAgrees
  <2>7. Epochs(log, row, made, a, b)
    <3>1. /\ made + Window <= row.deadline
          /\ \A i \in 1 .. Len(log) : log[i] < row.deadline
      BY <2>2, <2>4, <2>5
    <3>2. QED
      BY <2>2, <2>6, <3>1 DEF Epochs
  <2>8. KeyAgrees(c)'
    BY <1>1, <2>1, <2>3, <2>4, <2>5, <2>6, <2>7 DEF KeyAgrees
  <2>9. ASSUME NEW d \in Clients \ {c} PROVE KeyAgrees(d)'
    BY <1>1, <2>3 DEF ApiInv, KeyAgrees
  <2>10. QED
    BY <2>8, <2>9 DEF ApiInv
<1>4. QED
  BY <1>2, <1>3

\* Time passes: the logs and the keys stay what they were.
LEMMA TickKeepsKeys ==
  ASSUME TypeOK, ApiInv, Tick
  PROVE  ApiInv'
<1>1. now \in Nat /\ now' = now + 1 /\ UNCHANGED <<redis, counted>>
  BY DEF Tick, TypeOK
<1>2. 0 .. now \subseteq 0 .. now'
  BY <1>1
<1>3. SUFFICES ASSUME NEW c \in Clients PROVE KeyAgrees(c)'
  BY DEF ApiInv
<1>4. \A i \in 1 .. Len(counted[c]) : counted[c][i] <= now'
  BY <1>1, AppendTimes DEF TypeOK, ApiInv, KeyAgrees
<1>5. c \in DOMAIN redis =>
        \E made \in 0 .. now', b \in 0 .. Len(counted[c]) : \E a \in 0 .. b :
          Epochs(counted[c], redis[c], made, a, b)
  BY <1>2 DEF ApiInv, KeyAgrees
<1>6. QED
  BY <1>1, <1>4, <1>5 DEF ApiInv, KeyAgrees

\* The API limiter lets through at most twice ApiMax counted requests of a client
\* in any span of one window, whatever became of the EXPIREs (redis_ratelimit.go).
THEOREM ApiRateAlwaysHolds == Spec => []ApiRateHolds
<1>1. Init => ApiInv
  <2> SUFFICES ASSUME Init PROVE ApiInv
    OBVIOUS
  <2>1. DOMAIN redis = {} /\ \A c \in Clients : counted[c] = << >>
    BY NoRowsTable DEF Init
  <2>2. ApiMax \in Nat
    BY LimitsOK
  <2>3. QED
    BY <2>1, <2>2 DEF ApiInv, KeyAgrees, AtMost
<1>2. TypeOK /\ ApiInv /\ [Next]_vars => ApiInv'
  <2> SUFFICES ASSUME TypeOK, ApiInv, [Next]_vars PROVE ApiInv'
    OBVIOUS
  <2>1. ASSUME UNCHANGED <<redis, counted, now>> PROVE ApiInv'
    BY <2>1 DEF ApiInv, KeyAgrees
  <2>2. CASE \E h \in Handlers, c \in Clients : Count(h, c) \/ TooMany(h, c)
    BY <2>2, IncrKeeps DEF Count, TooMany
  <2>3. CASE \E h \in Handlers, c \in Clients, made \in BOOLEAN : FailOpen(h, c, made)
    BY <2>1, <2>3, IncrKeeps DEF FailOpen
  <2>4. CASE \E h \in Handlers : SetExpiry(h)
    BY <2>4, SetExpiryKeeps
  <2>5. CASE \E h \in Handlers : ExpiryLost(h)
    BY <2>1, <2>5 DEF ExpiryLost
  <2>6. CASE \E h \in Handlers : AdmitNew(h) \/ AdmitAgain(h) \/ Reject(h)
    BY <2>1, <2>6 DEF AdmitNew, AdmitAgain, Reject
  <2>7. CASE Cleanup \/ Restart
    BY <2>1, <2>7 DEF Cleanup, Restart
  <2>8. CASE Tick
    BY <2>8, TickKeepsKeys
  <2>9. CASE UNCHANGED vars
    BY <2>1, <2>9 DEF vars
  <2>10. QED
    BY <2>2, <2>3, <2>4, <2>5, <2>6, <2>7, <2>8, <2>9 DEF Next
<1>3. ApiInv => ApiRateHolds
  BY DEF ApiInv, KeyAgrees, ApiRateHolds
<1>4. QED
  BY <1>1, <1>2, <1>3, TypeCorrect, PTL DEF Spec
=============================================================================
