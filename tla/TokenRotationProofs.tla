------------------------ MODULE TokenRotationProofs -------------------------
(***************************************************************************)
(* TokenRotation, for every set of tabs, calls and tokens and every number *)
(* of faults: type correctness, the safety invariants that the run tokens  *)
(* checks, and that TokenRotation implements the safety part of Session.   *)
(***************************************************************************)
EXTENDS TokenRotation, TablesTheorems, TLAPS

Places == {"find", "revoke", "store", "granted", "refused", "failed"}

\* A request to /auth that starts: no other is touched.
LEMMA AskAuth ==
  ASSUME IsTable(auth, Tokens, AuthRequest),
         NEW k \in Tokens, NEW op \in {"login", "register", "exchange"}, NEW t \in Tabs,
         NEW step \in Places, NEW presents \in Tokens \cup {NoToken},
         Ask(k, op, t, step, presents)
  PROVE  /\ IsTable(auth', Tokens, AuthRequest)
         /\ k \notin DOMAIN auth
         /\ DOMAIN auth' = DOMAIN auth \cup {k}
         /\ auth'[k] = [op |-> op, tab |-> t, step |-> step,
                        presents |-> presents, client |-> "waiting"]
         /\ \A j \in DOMAIN auth : auth'[j] = auth[j]
<1> DEFINE row == [op |-> op, tab |-> t, step |-> step,
                   presents |-> presents, client |-> "waiting"]
<1>1. row \in AuthRequest
  BY DEF AuthRequest, Places
<1>2. auth' = Put(auth, k, row) /\ k \notin DOMAIN auth
  BY DEF Ask
<1> HIDE DEF row
<1>3. IsTable(auth', Tokens, AuthRequest)
  BY <1>1, <1>2, PutTable
<1>4. /\ DOMAIN auth' = DOMAIN auth \cup {k}
      /\ auth'[k] = row
      /\ \A j \in DOMAIN auth : auth'[j] = auth[j]
  BY <1>2 DEF Put
<1>5. QED
  BY <1>2, <1>3, <1>4 DEF row

\* One that goes on to its next step.
LEMMA GoToAuth ==
  ASSUME IsTable(auth, Tokens, AuthRequest),
         NEW k \in DOMAIN auth, NEW step \in Places, GoTo(k, step)
  PROVE  /\ IsTable(auth', Tokens, AuthRequest)
         /\ DOMAIN auth' = DOMAIN auth
         /\ auth'[k].step = step
         /\ \A j \in DOMAIN auth :
              /\ auth'[j].op = auth[j].op
              /\ auth'[j].tab = auth[j].tab
              /\ auth'[j].presents = auth[j].presents
              /\ auth'[j].client = auth[j].client
              /\ j # k => auth'[j].step = auth[j].step
<1> DEFINE row == [auth[k] EXCEPT !.step = step]
<1>1. k \in Tokens /\ auth[k] \in AuthRequest
  BY TableRows
<1>2. /\ row \in AuthRequest
      /\ row.op = auth[k].op /\ row.tab = auth[k].tab
      /\ row.presents = auth[k].presents /\ row.client = auth[k].client
      /\ row.step = step
  BY <1>1 DEF AuthRequest, Places
<1>3. auth' = Put(auth, k, row)
  BY DEF GoTo
<1> HIDE DEF row
<1>4. IsTable(auth', Tokens, AuthRequest)
  BY <1>1, <1>2, <1>3, PutTable
<1>5. QED
  BY <1>2, <1>3, <1>4 DEF Put

\* One whose answer the page has seen, or has given up.
LEMMA CloseAuth ==
  ASSUME IsTable(auth, Tokens, AuthRequest), NEW k \in DOMAIN auth, Close(k)
  PROVE  /\ IsTable(auth', Tokens, AuthRequest)
         /\ DOMAIN auth' = DOMAIN auth
         /\ auth'[k].client = "answered"
         /\ \A j \in DOMAIN auth :
              /\ auth'[j].op = auth[j].op
              /\ auth'[j].tab = auth[j].tab
              /\ auth'[j].presents = auth[j].presents
              /\ auth'[j].step = auth[j].step
              /\ j # k => auth'[j].client = auth[j].client
<1> DEFINE row == [auth[k] EXCEPT !.client = "answered"]
<1>1. k \in Tokens /\ auth[k] \in AuthRequest
  BY TableRows
<1>2. /\ row \in AuthRequest
      /\ row.op = auth[k].op /\ row.tab = auth[k].tab
      /\ row.presents = auth[k].presents /\ row.step = auth[k].step
      /\ row.client = "answered"
  BY <1>1 DEF AuthRequest
<1>3. auth' = Put(auth, k, row)
  BY DEF Close
<1> HIDE DEF row
<1>4. IsTable(auth', Tokens, AuthRequest)
  BY <1>1, <1>2, <1>3, PutTable
<1>5. QED
  BY <1>2, <1>3, <1>4 DEF Put

\* Those of a page that is left.
LEMMA ReloadAuth ==
  ASSUME IsTable(auth, Tokens, AuthRequest), NEW t \in Tabs, Reload(t)
  PROVE  /\ IsTable(auth', Tokens, AuthRequest)
         /\ DOMAIN auth' = DOMAIN auth
         /\ \A j \in DOMAIN auth :
              /\ auth'[j].op = auth[j].op
              /\ auth'[j].tab = auth[j].tab
              /\ auth'[j].presents = auth[j].presents
              /\ auth'[j].step = auth[j].step
              /\ auth'[j].client =
                   IF auth[j].tab = t /\ auth[j].client = "waiting" THEN "left"
                                                                     ELSE auth[j].client
<1>1. DOMAIN auth \subseteq Tokens /\ \A j \in DOMAIN auth : auth[j] \in AuthRequest
  BY TableRows
<1>2. /\ DOMAIN auth' = DOMAIN auth
      /\ auth' = [j \in DOMAIN auth' |-> auth'[j]]
  BY DEF Reload
<1>3. ASSUME NEW j \in DOMAIN auth
      PROVE  /\ auth'[j] \in AuthRequest
             /\ auth'[j].op = auth[j].op
             /\ auth'[j].tab = auth[j].tab
             /\ auth'[j].presents = auth[j].presents
             /\ auth'[j].step = auth[j].step
             /\ auth'[j].client =
                  IF auth[j].tab = t /\ auth[j].client = "waiting" THEN "left"
                                                                    ELSE auth[j].client
  <2>1. auth[j] \in AuthRequest
    BY <1>1
  <2>2. auth'[j] = IF auth[j].tab = t /\ auth[j].client = "waiting"
                   THEN [auth[j] EXCEPT !.client = "left"] ELSE auth[j]
    BY DEF Reload
  <2>3. QED
    BY <2>1, <2>2 DEF AuthRequest
<1>4. QED
  BY <1>1, <1>2, <1>3 DEF IsTable

\* A call that is put in another state, or drops out.
LEMMA PutCall ==
  ASSUME IsTable(call, Calls, Call), NEW c \in DOMAIN call, NEW row \in Call,
         call' = Put(call, c, row)
  PROVE  /\ IsTable(call', Calls, Call)
         /\ DOMAIN call' = DOMAIN call
         /\ call'[c] = row
         /\ \A b \in DOMAIN call \ {c} : call'[b] = call[b]
<1>1. c \in Calls
  BY TableRows
<1>2. IsTable(call', Calls, Call)
  BY <1>1, PutTable
<1>3. QED
  BY <1>2 DEF Put

\* A call that is settled or rejected leaves the others as they were.
LEMMA DropCall ==
  ASSUME IsTable(call, Calls, Call), NEW c, call' = Drop(call, c)
  PROVE  /\ IsTable(call', Calls, Call)
         /\ DOMAIN call' = DOMAIN call \ {c}
         /\ \A b \in DOMAIN call' : call'[b] = call[b]
<1>1. IsTable(call', Calls, Call)
  BY DropTable
<1>2. QED
  BY <1>1 DEF Drop, Restrict

\* So do the calls that a failed exchange or a page load takes away.
LEMMA KeepCalls ==
  ASSUME IsTable(call, Calls, Call), NEW C \in SUBSET DOMAIN call,
         call' = Restrict(call, C)
  PROVE  /\ IsTable(call', Calls, Call)
         /\ DOMAIN call' = C
         /\ \A b \in C : call'[b] = call[b]
<1>1. IsTable(call', Calls, Call)
  BY RestrictTable
<1>2. QED
  BY <1>1 DEF Restrict

\* After a successful exchange the calls that waited for it are sent, and only they
\* have changed.
LEMMA ReleaseCalls ==
  ASSUME IsTable(call, Calls, Call), NEW t, NEW k \in Tokens, Release(t, k)
  PROVE  /\ IsTable(call', Calls, Call)
         /\ DOMAIN call' = DOMAIN call
         /\ \A b \in DOMAIN call :
              /\ call'[b].tab = call[b].tab
              /\ call'[b].retried = call[b].retried
              /\ call'[b].at = IF b \in Held(t) THEN "sent" ELSE call[b].at
<1>1. DOMAIN call \subseteq Calls /\ \A b \in DOMAIN call : call[b] \in Call
  BY TableRows
<1>2. /\ DOMAIN call' = DOMAIN call
      /\ call' = [b \in DOMAIN call' |-> call'[b]]
  BY DEF Release
<1>3. ASSUME NEW b \in DOMAIN call
      PROVE  /\ call'[b] \in Call
             /\ call'[b].tab = call[b].tab
             /\ call'[b].retried = call[b].retried
             /\ call'[b].at = IF b \in Held(t) THEN "sent" ELSE call[b].at
  <2>1. call[b] \in Call
    BY <1>1
  <2>2. call'[b] = IF b \in Held(t) THEN [call[b] EXCEPT !.at = "sent", !.access = k]
                                    ELSE call[b]
    BY DEF Release
  <2>3. QED
    BY <2>1, <2>2 DEF Call
<1>4. QED
  BY <1>1, <1>2, <1>3 DEF IsTable

\* The three ends a call can come to in the interceptor, and its first step.
LEMMA SendCall ==
  ASSUME TypeOK, NEW c \in Calls, NEW t \in Tabs, Send(c, t)
  PROVE  /\ IsTable(call', Calls, Call)
         /\ DOMAIN call' = DOMAIN call \cup {c}
         /\ c \notin DOMAIN call
         /\ call'[c].tab = t /\ call'[c].at = "sent" /\ ~call'[c].retried
         /\ \A b \in DOMAIN call \ {c} : call'[b] = call[b]
<1> DEFINE row == [tab |-> t, at |-> "sent", access |-> store.access, retried |-> FALSE]
<1>1. row \in Call /\ row.tab = t /\ row.at = "sent" /\ ~row.retried
  BY DEF TypeOK, Call
<1>2. call' = Put(call, c, row) /\ IsTable(call, Calls, Call) /\ c \notin DOMAIN call
  BY DEF Send, TypeOK
<1> HIDE DEF row
<1>3. IsTable(call', Calls, Call)
  BY <1>1, <1>2, PutTable
<1>4. QED
  BY <1>1, <1>2, <1>3 DEF Put

\* A call that waits in failedQueue stays a call of its page.
LEMMA EnqueueCall ==
  ASSUME TypeOK, NEW c \in Calls, Enqueue(c)
  PROVE  /\ IsTable(call', Calls, Call)
         /\ DOMAIN call' = DOMAIN call /\ c \in DOMAIN call
         /\ call[c].tab \in Tabs /\ call[c].at = "sent" /\ ~call[c].retried
         /\ call'[c].tab = call[c].tab
         /\ call'[c].at = "queued" /\ ~call'[c].retried
         /\ \A b \in DOMAIN call \ {c} : call'[b] = call[b]
<1> DEFINE row == [call[c] EXCEPT !.at = "queued"]
<1>1. IsTable(call, Calls, Call) /\ c \in DOMAIN call
  BY DEF TypeOK, Enqueue, Unauthorized
<1>2. call[c] \in Call
  BY <1>1, TableRows
<1>3. /\ row \in Call /\ row.tab = call[c].tab /\ call[c].tab \in Tabs
      /\ row.at = "queued" /\ row.retried = call[c].retried
  BY <1>2 DEF Call
<1>4. call' = Put(call, c, row) /\ call[c].at = "sent" /\ ~call[c].retried
  BY DEF Enqueue, Unauthorized, MayExchange
<1> HIDE DEF row
<1>5. QED
  BY <1>1, <1>3, <1>4, PutCall

\* So does the one that exchanges the token.
LEMMA StartExchangeCall ==
  ASSUME TypeOK, NEW c \in Calls, NEW k \in Tokens, StartExchange(c, k)
  PROVE  /\ IsTable(call', Calls, Call)
         /\ DOMAIN call' = DOMAIN call /\ c \in DOMAIN call
         /\ call[c].tab \in Tabs /\ call[c].at = "sent" /\ ~call[c].retried
         /\ call'[c].tab = call[c].tab
         /\ call'[c].at = "exchanging" /\ call'[c].retried
         /\ \A b \in DOMAIN call \ {c} : call'[b] = call[b]
<1> DEFINE row == [call[c] EXCEPT !.at = "exchanging", !.retried = TRUE]
<1>1. IsTable(call, Calls, Call) /\ c \in DOMAIN call
  BY DEF TypeOK, StartExchange, Unauthorized
<1>2. call[c] \in Call
  BY <1>1, TableRows
<1>3. /\ row \in Call /\ row.tab = call[c].tab /\ call[c].tab \in Tabs
      /\ row.at = "exchanging" /\ row.retried
  BY <1>2 DEF Call
<1>4. call' = Put(call, c, row) /\ call[c].at = "sent" /\ ~call[c].retried
  BY DEF StartExchange, Unauthorized, MayExchange
<1> HIDE DEF row
<1>5. QED
  BY <1>1, <1>3, <1>4, PutCall

-----------------------------------------------------------------------------
\* Type correctness.

\* A browser that was never logged in, and an empty refresh_tokens.
LEMMA TypeInit == Init => TypeOK
<1> SUFFICES ASSUME Init PROVE TypeOK
  OBVIOUS
<1>1. IsTable(NoRows, Tokens, TokenRow) /\ IsTable(NoRows, Tokens, AuthRequest)
      /\ IsTable(NoRows, Calls, Call)
  BY NoRowsTable
<1>2. store \in [access: Tokens \cup {NoToken}, refresh: Tokens \cup {NoToken}]
  BY DEF Init, NothingStored
<1>3. QED
  BY <1>1, <1>2 DEF Init, TypeOK

\* Whoever writes localStorage writes tokens to it.
LEMMA StoreTypes ==
  ASSUME NEW a \in Tokens \cup {NoToken}, NEW r \in Tokens \cup {NoToken}
  PROVE  [access |-> a, refresh |-> r]
           \in [access: Tokens \cup {NoToken}, refresh: Tokens \cup {NoToken}]
OBVIOUS

\* The end of a request to /auth that failed keeps the types.
LEMMA FailsTypes ==
  ASSUME TypeOK, NEW k \in DOMAIN auth, Fails(k)
  PROVE  /\ IsTable(auth', Tokens, AuthRequest)
         /\ IsTable(call', Calls, Call)
         /\ store' \in [access: Tokens \cup {NoToken}, refresh: Tokens \cup {NoToken}]
         /\ refreshing' \in [Tabs -> BOOLEAN]
<1>1. Close(k) /\ IsTable(auth, Tokens, AuthRequest) /\ IsTable(call, Calls, Call)
  BY DEF Fails, TypeOK
<1>2. IsTable(auth', Tokens, AuthRequest)
  BY <1>1, CloseAuth
<1>3. CASE auth[k].op = "exchange"
  <2>1. call' = Restrict(call, DOMAIN call \ Held(auth[k].tab))
    BY <1>3 DEF Fails, RejectHeld
  <2>2. DOMAIN call \ Held(auth[k].tab) \in SUBSET DOMAIN call
    OBVIOUS
  <2>3. IsTable(call', Calls, Call)
    BY <1>1, <2>1, <2>2, KeepCalls
  <2>4. store' = [access |-> NoToken, refresh |-> NoToken]
    BY <1>3 DEF Fails, ClearTokens, NothingStored
  <2>5. refreshing' \in [Tabs -> BOOLEAN]
    BY <1>3 DEF Fails, TypeOK
  <2>6. QED
    BY <1>2, <2>3, <2>4, <2>5, StoreTypes
<1>4. CASE auth[k].op # "exchange"
  BY <1>2, <1>4 DEF Fails, TypeOK
<1>5. QED
  BY <1>3, <1>4

\* A request to /auth that waits for a statement.
LEMMA StepsOn ==
  ASSUME TypeOK, NEW k, NEW step \in Places, NEW next \in Places,
         At(k, step), GoTo(k, next)
  PROVE  IsTable(auth', Tokens, AuthRequest)
<1>1. k \in DOMAIN auth /\ IsTable(auth, Tokens, AuthRequest)
  BY DEF At, TypeOK
<1>2. QED
  BY <1>1, GoToAuth

\* (What is revoked is a token only because TokensAgree.)
LEMMA TypeStep == TypeOK /\ TokensAgree /\ [Next]_vars => TypeOK'
<1> SUFFICES ASSUME TypeOK, TokensAgree, [Next]_vars PROVE TypeOK'
  OBVIOUS
<1> USE DEF TypeOK
<1>1. ASSUME NEW c \in Calls, NEW t \in Tabs, Send(c, t) PROVE TypeOK'
  BY <1>1, SendCall DEF Send
<1>2. ASSUME NEW c \in Calls, Settle(c) PROVE TypeOK'
  BY <1>2, DropCall DEF Settle
<1>3. ASSUME NEW c \in Calls, Reject(c) PROVE TypeOK'
  BY <1>3, DropCall DEF Reject
<1>4. ASSUME NEW c \in Calls, Enqueue(c) PROVE TypeOK'
  BY <1>4, EnqueueCall DEF Enqueue
<1>5. ASSUME NEW c \in Calls, NEW k \in Tokens, StartExchange(c, k) PROVE TypeOK'
  <2>1. IsTable(call', Calls, Call) /\ call[c].tab \in Tabs
    BY <1>5, StartExchangeCall
  <2>2. Ask(k, "exchange", call[c].tab, "find", store.refresh)
    BY <1>5 DEF StartExchange
  <2>3. store.refresh \in Tokens \cup {NoToken} /\ "find" \in Places
    BY DEF Places
  <2>4. IsTable(auth', Tokens, AuthRequest)
    BY <2>1, <2>2, <2>3, AskAuth
  <2>5. QED
    BY <1>5, <2>1, <2>4 DEF StartExchange
<1>6. ASSUME NEW t \in Tabs, NEW k \in Tokens, Login(t, k) PROVE TypeOK'
  <2>1. Ask(k, "login", t, "store", NoToken) /\ "store" \in Places
    BY <1>6 DEF Login, Places
  <2>2. IsTable(auth', Tokens, AuthRequest)
    BY <2>1, AskAuth
  <2>3. QED
    BY <1>6, <2>2 DEF Login
<1>7. ASSUME NEW t \in Tabs, NEW k \in Tokens, Register(t, k) PROVE TypeOK'
  <2>1. Ask(k, "register", t, "granted", NoToken) /\ "granted" \in Places
    BY <1>7 DEF Register, Places
  <2>2. IsTable(auth', Tokens, AuthRequest)
    BY <2>1, AskAuth
  <2>3. QED
    BY <1>7, <2>2 DEF Register
<1>8. ASSUME NEW k \in Tokens, NEW o \in Outcomes, Statement(k, o) PROVE faults' \in Nat
  BY <1>8 DEF Statement
<1>9. ASSUME NEW k \in Tokens, NEW o \in Outcomes, FindToken(k, o) PROVE TypeOK'
  <2>1. IsTable(auth', Tokens, AuthRequest)
    BY <1>9, StepsOn DEF FindToken, Places
  <2>2. QED
    BY <1>8, <1>9, <2>1 DEF FindToken
<1>10. ASSUME NEW k \in Tokens, NEW o \in Outcomes, RevokeToken(k, o) PROVE TypeOK'
  <2>1. IsTable(auth', Tokens, AuthRequest)
    BY <1>10, StepsOn DEF RevokeToken, Places
  <2>2. rows' = rows \/ rows' = Put(rows, auth[k].presents, "exchanged")
    BY <1>10 DEF RevokeToken, Revoke
  <2>3. "exchanged" \in TokenRow
    BY DEF TokenRow
  <2>4. k \in DOMAIN auth /\ auth[k].step = "revoke"
    BY <1>10 DEF RevokeToken, At
  <2>5. auth[k].presents \in DOMAIN rows
    BY <2>4 DEF TokensAgree, Known, Past
  <2>6. auth[k].presents \in Tokens
    BY <2>5 DEF IsTable
  <2>7. IsTable(rows', Tokens, TokenRow)
    BY <2>2, <2>3, <2>6, PutTable
  <2>8. QED
    BY <1>8, <1>10, <2>1, <2>7 DEF RevokeToken
<1>11. ASSUME NEW k \in Tokens, NEW o \in Outcomes, StoreToken(k, o) PROVE TypeOK'
  <2>1. IsTable(auth', Tokens, AuthRequest)
    BY <1>11, StepsOn DEF StoreToken, Places
  <2>2. rows' = rows \/ rows' = Put(rows, k, "live")
    BY <1>11 DEF StoreToken
  <2>3. "live" \in TokenRow
    BY DEF TokenRow
  <2>4. IsTable(rows', Tokens, TokenRow)
    BY <2>2, <2>3, PutTable
  <2>5. QED
    BY <1>8, <1>11, <2>1, <2>4 DEF StoreToken
<1>12. ASSUME NEW K \in SUBSET Tokens, EndTokens(K) PROVE TypeOK'
  <2>1. /\ DOMAIN rows' = DOMAIN rows
        /\ rows' = [p \in DOMAIN rows' |-> rows'[p]]
    BY <1>12 DEF EndTokens
  <2>2. \A p \in DOMAIN rows : rows[p] \in TokenRow /\ DOMAIN rows \subseteq Tokens
    BY DEF IsTable
  <2>3. \A p \in DOMAIN rows : rows'[p] \in TokenRow
    BY <1>12, <2>2 DEF EndTokens, TokenRow
  <2>4. IsTable(rows', Tokens, TokenRow)
    BY <2>1, <2>2, <2>3 DEF IsTable
  <2>5. QED
    BY <1>12, <2>4 DEF EndTokens
<1>13. ASSUME NEW k \in Tokens, AccessExpires(k) PROVE TypeOK'
  BY <1>13 DEF AccessExpires
<1>14. ASSUME NEW k \in Tokens, LoggedIn(k) PROVE TypeOK'
  <2>1. k \in DOMAIN auth /\ Close(k)
    BY <1>14 DEF LoggedIn, Waiting
  <2>2. IsTable(auth', Tokens, AuthRequest)
    BY <2>1, CloseAuth
  <2>3. store' \in [access: Tokens \cup {NoToken}, refresh: Tokens \cup {NoToken}]
    BY <1>14 DEF LoggedIn
  <2>4. QED
    BY <1>14, <2>2, <2>3 DEF LoggedIn
<1>15. ASSUME NEW k \in Tokens, Exchanged(k) PROVE TypeOK'
  <2>1. k \in DOMAIN auth /\ Close(k) /\ Release(auth[k].tab, k)
    BY <1>15 DEF Exchanged, Waiting
  <2>2. IsTable(auth', Tokens, AuthRequest)
    BY <2>1, CloseAuth
  <2>3. IsTable(call', Calls, Call)
    BY <2>1, ReleaseCalls
  <2>4. store' \in [access: Tokens \cup {NoToken}, refresh: Tokens \cup {NoToken}]
    BY <1>15 DEF Exchanged, StorePair
  <2>5. QED
    BY <1>15, <2>2, <2>3, <2>4 DEF Exchanged
<1>16. ASSUME NEW k \in Tokens, AnsweredWithError(k) PROVE TypeOK'
  <2>1. k \in DOMAIN auth /\ Fails(k)
    BY <1>16 DEF AnsweredWithError, Waiting
  <2>2. QED
    BY <1>16, <2>1, FailsTypes DEF AnsweredWithError
<1>17. ASSUME NEW k \in Tokens, AnswerLost(k) PROVE TypeOK'
  <2>1. k \in DOMAIN auth /\ Fails(k)
    BY <1>17 DEF AnswerLost, Waiting
  <2>2. QED
    BY <1>17, <2>1, FailsTypes DEF AnswerLost
<1>18. CASE Logout
  BY <1>18, StoreTypes DEF Logout, NothingStored
<1>19. ASSUME NEW t \in Tabs, Reload(t) PROVE TypeOK'
  <2>1. IsTable(auth', Tokens, AuthRequest)
    BY <1>19, ReloadAuth
  <2>2. {c \in DOMAIN call : call[c].tab # t} \in SUBSET DOMAIN call
    OBVIOUS
  <2>3. IsTable(call', Calls, Call)
    BY <1>19, <2>2, KeepCalls DEF Reload
  <2>4. QED
    BY <1>19, <2>1, <2>3 DEF Reload
<1>20. CASE UNCHANGED vars
  BY <1>20 DEF vars
<1>21. QED
  BY <1>1, <1>2, <1>3, <1>4, <1>5, <1>6, <1>7, <1>9, <1>10, <1>11, <1>12, <1>13,
     <1>14, <1>15, <1>16, <1>17, <1>18, <1>19, <1>20
     DEF Next, Answer, Serve, Receive

-----------------------------------------------------------------------------
\* What the browser knows and what the server did.

TokensConsistent ==
  TokensAgree /\ StoredIsUnanswered /\ PresentsOnce /\ RefusedForAReason

\* NoToken is no token, hence no row.
LEMMA NoTokenUnknown == TypeOK => NoToken \notin DOMAIN rows
BY NamesOK DEF TypeOK, IsTable

\* A request to /auth that starts.  An exchange presents the token in localStorage, in
\* a page that waits for no other.
LEMMA AskConsistent ==
  ASSUME TypeOK, TokensConsistent, UNCHANGED <<rows, store>>,
         NEW k \in Tokens, NEW op \in {"login", "register", "exchange"}, NEW t \in Tabs,
         NEW step \in Places, NEW presents \in Tokens \cup {NoToken},
         Ask(k, op, t, step, presents),
         op = "exchange" => /\ step = "find"
                            /\ presents = store.refresh /\ presents # NoToken
                            /\ UnderWay(t) = {},
         op = "login" => presents = NoToken /\ step = "store",
         op = "register" => presents = NoToken /\ step = "granted"
  PROVE  TokensConsistent'
<1>1. IsTable(auth, Tokens, AuthRequest)
  BY DEF TypeOK
<1>2. /\ k \notin DOMAIN auth
      /\ DOMAIN auth' = DOMAIN auth \cup {k}
      /\ auth'[k] = [op |-> op, tab |-> t, step |-> step,
                     presents |-> presents, client |-> "waiting"]
      /\ \A j \in DOMAIN auth : auth'[j] = auth[j]
  BY <1>1, AskAuth
<1>3. \A p : Known(p) => Known(p)'
  BY <1>2 DEF Known
<1>4. TokensAgree'
  <2>1. (store.refresh # NoToken => Known(store.refresh))'
    BY <1>3 DEF TokensConsistent, TokensAgree
  <2>2. ASSUME NEW j \in DOMAIN auth'
        PROVE  /\ auth'[j].op = "exchange" => Known(auth[j].presents)'
               /\ auth'[j].op # "exchange" =>
                    auth'[j].presents = NoToken /\ auth'[j].step \in Past
               /\ auth'[j].op # "register" /\ auth'[j].step = "granted" =>
                    j \in DOMAIN rows'
    <3>1. CASE j = k
      BY <1>2, <1>3, <3>1 DEF TokensConsistent, TokensAgree, Past
    <3>2. CASE j \in DOMAIN auth
      BY <1>2, <1>3, <3>2 DEF TokensConsistent, TokensAgree
    <3>3. QED
      BY <1>2, <3>1, <3>2
  <2>3. ASSUME NEW p \in DOMAIN rows', rows'[p] = "exchanged"
        PROVE  \E j \in DOMAIN auth' : auth'[j].presents = p /\ auth'[j].step \in Past
    BY <1>2, <2>3 DEF TokensConsistent, TokensAgree
  <2>4. QED
    BY <2>1, <2>2, <2>3 DEF TokensAgree
<1>5. StoredIsUnanswered'
  BY <1>2 DEF TokensConsistent, StoredIsUnanswered
<1>6. PresentsOnce'
  <2>1. ASSUME NEW i \in DOMAIN auth, auth[i].op = "exchange", auth[i].tab = t,
               op = "exchange", auth[i].presents = presents
        PROVE  auth[i].client = "left"
    <3>1. auth[i].client # "answered"
      BY <2>1 DEF TokensConsistent, StoredIsUnanswered
    <3>2. auth[i].client # "waiting"
      BY <2>1 DEF UnderWay, Exchanges, Waiting
    <3>3. auth[i] \in AuthRequest
      BY <1>1, TableRows
    <3>4. QED
      BY <3>1, <3>2, <3>3 DEF AuthRequest
  <2>2. ASSUME NEW u \in Tabs, NEW i \in Exchanges(u)', NEW j \in Exchanges(u)',
               i # j, auth'[i].presents = auth'[j].presents
        PROVE  auth'[i].client = "left" \/ auth'[j].client = "left"
    <3>1. CASE i \in DOMAIN auth /\ j \in DOMAIN auth
      BY <1>2, <2>2, <3>1 DEF TokensConsistent, PresentsOnce, Exchanges
    <3>2. CASE i = k
      BY <1>2, <2>1, <2>2, <3>2 DEF Exchanges
    <3>3. CASE j = k
      BY <1>2, <2>1, <2>2, <3>3 DEF Exchanges
    <3>4. QED
      BY <1>2, <3>1, <3>2, <3>3 DEF Exchanges
  <2>3. QED
    BY <2>2 DEF PresentsOnce
<1>7. RefusedForAReason'
  <2>1. ASSUME NEW j \in DOMAIN auth', auth'[j].step = "refused"
        PROVE  j \in DOMAIN auth
    BY <1>2, <2>1
  <2>2. QED
    BY <1>2, <2>1 DEF TokensConsistent, RefusedForAReason
<1>8. QED
  BY <1>4, <1>5, <1>6, <1>7 DEF TokensConsistent

\* A request that goes on leaves what the browser knows, and what it asked.
LEMMA KnownStays ==
  ASSUME TypeOK, NEW k \in DOMAIN auth, auth[k].step # "granted",
         NEW step \in Places, GoTo(k, step), DOMAIN rows \subseteq DOMAIN rows'
  PROVE  \A p : Known(p) => Known(p)'
<1>1. IsTable(auth, Tokens, AuthRequest)
  BY DEF TypeOK
<1>2. /\ DOMAIN auth' = DOMAIN auth
      /\ \A j \in DOMAIN auth : /\ auth'[j].client = auth[j].client
                                /\ j # k => auth'[j].step = auth[j].step
  BY <1>1, GoToAuth
<1>3. QED
  BY <1>2 DEF Known

\* A statement of the server changes nothing that PresentsOnce looks at.
LEMMA StepKeepsPresents ==
  ASSUME TypeOK, PresentsOnce, NEW k \in DOMAIN auth, NEW step \in Places, GoTo(k, step)
  PROVE  PresentsOnce'
<1>1. IsTable(auth, Tokens, AuthRequest)
  BY DEF TypeOK
<1>2. /\ DOMAIN auth' = DOMAIN auth
      /\ \A j \in DOMAIN auth : /\ auth'[j].op = auth[j].op
                                /\ auth'[j].tab = auth[j].tab
                                /\ auth'[j].presents = auth[j].presents
                                /\ auth'[j].client = auth[j].client
  BY <1>1, GoToAuth
<1>3. \A t \in Tabs : Exchanges(t)' = Exchanges(t)
  BY <1>2 DEF Exchanges
<1>4. ASSUME NEW t \in Tabs, NEW i \in Exchanges(t), NEW j \in Exchanges(t),
             i # j, auth'[i].presents = auth'[j].presents
      PROVE  auth'[i].client = "left" \/ auth'[j].client = "left"
  BY <1>2, <1>4 DEF PresentsOnce, Exchanges
<1>5. QED
  BY <1>3, <1>4 DEF PresentsOnce

\* Refresh looks for its token.  That it finds it exchanged already takes another
\* request that presented it, which by PresentsOnce is of another tab or of a page
\* that was left.
LEMMA FindConsistent ==
  ASSUME TypeOK, TokensConsistent, NEW k \in Tokens, NEW o \in Outcomes, FindToken(k, o)
  PROVE  TokensConsistent'
<1> DEFINE next == IF o # "done" THEN "failed"
                   ELSE IF Valid(auth[k].presents) THEN "revoke" ELSE "refused"
<1>1. /\ k \in DOMAIN auth /\ auth[k].step = "find" /\ GoTo(k, next)
      /\ next \in Places /\ IsTable(auth, Tokens, AuthRequest)
      /\ UNCHANGED <<rows, store>>
  BY DEF FindToken, At, Places, TypeOK
<1>2. next # "granted"
  OBVIOUS
<1>3. next = "refused" => ~Valid(auth[k].presents)
  OBVIOUS
<1> HIDE DEF next
<1>4. /\ DOMAIN auth' = DOMAIN auth
      /\ auth'[k].step = next
      /\ \A j \in DOMAIN auth :
           /\ auth'[j].op = auth[j].op
           /\ auth'[j].tab = auth[j].tab
           /\ auth'[j].presents = auth[j].presents
           /\ auth'[j].client = auth[j].client
           /\ j # k => auth'[j].step = auth[j].step
  BY <1>1, GoToAuth
<1>5. \A p : Known(p) => Known(p)'
  BY <1>1, KnownStays
<1>6. auth[k].op = "exchange" /\ auth[k].presents \in DOMAIN rows /\ auth[k].tab \in Tabs
  <2>1. auth[k] \in AuthRequest
    BY <1>1, TableRows
  <2>2. auth[k].op = "exchange"
    BY <1>1 DEF TokensConsistent, TokensAgree, Past
  <2>3. Known(auth[k].presents)
    BY <1>1, <2>2 DEF TokensConsistent, TokensAgree
  <2>4. QED
    BY <2>1, <2>2, <2>3 DEF Known, AuthRequest
<1>7. TokensAgree'
  <2>1. (store.refresh # NoToken => Known(store.refresh))'
    BY <1>1, <1>5 DEF TokensConsistent, TokensAgree
  <2>2. ASSUME NEW j \in DOMAIN auth'
        PROVE  /\ auth'[j].op = "exchange" => Known(auth[j].presents)'
               /\ auth'[j].op # "exchange" =>
                    auth'[j].presents = NoToken /\ auth'[j].step \in Past
               /\ auth'[j].op # "register" /\ auth'[j].step = "granted" =>
                    j \in DOMAIN rows'
    <3>1. CASE j = k
      BY <1>1, <1>2, <1>4, <1>5, <1>6, <3>1 DEF TokensConsistent, TokensAgree
    <3>2. CASE j # k
      BY <1>1, <1>4, <1>5, <3>2 DEF TokensConsistent, TokensAgree
    <3>3. QED
      BY <3>1, <3>2
  <2>3. ASSUME NEW p \in DOMAIN rows', rows'[p] = "exchanged"
        PROVE  \E j \in DOMAIN auth' : auth'[j].presents = p /\ auth'[j].step \in Past
    <3>1. PICK j \in DOMAIN auth : auth[j].presents = p /\ auth[j].step \in Past
      BY <1>1, <2>3 DEF TokensConsistent, TokensAgree
    <3>2. j # k
      BY <1>1, <3>1 DEF Past
    <3>3. QED
      BY <1>4, <3>1, <3>2
  <2>4. QED
    BY <2>1, <2>2, <2>3 DEF TokensAgree
<1>8. StoredIsUnanswered'
  BY <1>1, <1>4 DEF TokensConsistent, StoredIsUnanswered
<1>9. PresentsOnce'
  BY <1>1, StepKeepsPresents DEF TokensConsistent
<1>10. ASSUME next = "refused", rows[auth[k].presents] # "ended"
       PROVE  \E j \in DOMAIN auth \ {k} :
                /\ auth[j].presents = auth[k].presents
                /\ \/ auth[j].tab # auth[k].tab
                   \/ auth[j].client = "left" \/ auth[k].client = "left"
  <2>1. rows[auth[k].presents] = "exchanged"
    <3>1. rows[auth[k].presents] \in TokenRow
      <4>1. IsTable(rows, Tokens, TokenRow)
        BY DEF TypeOK
      <4>2. QED
        BY <1>6, <4>1, TableRows
    <3>2. QED
      BY <1>3, <1>6, <1>10, <3>1 DEF Valid, TokenRow
  <2>2. PICK j \in DOMAIN auth : auth[j].presents = auth[k].presents /\ auth[j].step \in Past
    BY <1>6, <2>1 DEF TokensConsistent, TokensAgree
  <2>3. j # k
    BY <1>1, <2>2 DEF Past
  <2>4. auth[j].op = "exchange"
    <3>1. auth[j].presents # NoToken
      BY <1>6, <2>2, NoTokenUnknown
    <3>2. QED
      BY <3>1 DEF TokensConsistent, TokensAgree
  <2>5. QED
    BY <1>1, <1>6, <2>2, <2>3, <2>4 DEF TokensConsistent, PresentsOnce, Exchanges
<1>11. RefusedForAReason'
  <2>1. ASSUME NEW i \in DOMAIN auth', auth'[i].step = "refused"
        PROVE  \/ rows[auth[i].presents] = "ended"
               \/ \E j \in DOMAIN auth \ {i} :
                    /\ auth[j].presents = auth[i].presents
                    /\ \/ auth[j].tab # auth[i].tab
                       \/ auth[j].client = "left" \/ auth[i].client = "left"
    <3>1. CASE i = k
      BY <1>4, <1>10, <2>1, <3>1
    <3>2. CASE i # k
      BY <1>4, <2>1, <3>2 DEF TokensConsistent, RefusedForAReason
    <3>3. QED
      BY <3>1, <3>2
  <2>2. QED
    BY <1>1, <1>4, <2>1 DEF RefusedForAReason
<1>12. QED
  BY <1>7, <1>8, <1>9, <1>11 DEF TokensConsistent

\* Refresh revokes the token it was asked about: the request itself is the reason.
LEMMA RevokeConsistent ==
  ASSUME TypeOK, TokensConsistent, NEW k \in Tokens, NEW o \in Outcomes, RevokeToken(k, o)
  PROVE  TokensConsistent'
<1> DEFINE p == auth[k].presents
<1>1. /\ k \in DOMAIN auth /\ auth[k].step = "revoke" /\ GoTo(k, "store")
      /\ "store" \in Places /\ IsTable(auth, Tokens, AuthRequest)
      /\ store' = store
  BY DEF RevokeToken, At, Places, TypeOK
<1>2. /\ DOMAIN auth' = DOMAIN auth
      /\ auth'[k].step = "store"
      /\ \A j \in DOMAIN auth :
           /\ auth'[j].op = auth[j].op
           /\ auth'[j].tab = auth[j].tab
           /\ auth'[j].presents = auth[j].presents
           /\ auth'[j].client = auth[j].client
           /\ j # k => auth'[j].step = auth[j].step
  BY <1>1, GoToAuth
<1>3. auth[k].op = "exchange" /\ p \in DOMAIN rows /\ auth[k].tab \in Tabs
  <2>1. auth[k] \in AuthRequest
    BY <1>1, TableRows
  <2>2. auth[k].op = "exchange"
    BY <1>1 DEF TokensConsistent, TokensAgree, Past
  <2>3. Known(p)
    BY <1>1, <2>2 DEF TokensConsistent, TokensAgree
  <2>4. QED
    BY <2>1, <2>2, <2>3 DEF Known, AuthRequest
<1> HIDE DEF p
<1>4. /\ DOMAIN rows' = DOMAIN rows
      /\ \A q \in DOMAIN rows \ {p} : rows'[q] = rows[q]
  BY <1>3 DEF RevokeToken, Revoke, Put, p
<1>5. \A q : Known(q) => Known(q)'
  BY <1>1, <1>4, KnownStays
<1>6. TokensAgree'
  <2>1. (store.refresh # NoToken => Known(store.refresh))'
    BY <1>1, <1>5 DEF TokensConsistent, TokensAgree
  <2>2. ASSUME NEW j \in DOMAIN auth'
        PROVE  /\ auth'[j].op = "exchange" => Known(auth[j].presents)'
               /\ auth'[j].op # "exchange" =>
                    auth'[j].presents = NoToken /\ auth'[j].step \in Past
               /\ auth'[j].op # "register" /\ auth'[j].step = "granted" =>
                    j \in DOMAIN rows'
    <3>1. CASE j = k
      BY <1>1, <1>2, <1>3, <1>4, <1>5, <3>1 DEF TokensConsistent, TokensAgree
    <3>2. CASE j # k
      BY <1>2, <1>4, <1>5, <3>2 DEF TokensConsistent, TokensAgree
    <3>3. QED
      BY <3>1, <3>2
  <2>3. ASSUME NEW q \in DOMAIN rows', rows'[q] = "exchanged"
        PROVE  \E j \in DOMAIN auth' : auth'[j].presents = q /\ auth'[j].step \in Past
    <3>1. CASE q = p
      BY <1>1, <1>2, <3>1 DEF Past, p
    <3>2. CASE q # p
      <4>1. PICK j \in DOMAIN auth : auth[j].presents = q /\ auth[j].step \in Past
        BY <1>4, <2>3, <3>2 DEF TokensConsistent, TokensAgree
      <4>2. QED
        BY <1>2, <4>1 DEF Past
    <3>3. QED
      BY <3>1, <3>2
  <2>4. QED
    BY <2>1, <2>2, <2>3 DEF TokensAgree
<1>7. StoredIsUnanswered'
  BY <1>1, <1>2 DEF TokensConsistent, StoredIsUnanswered
<1>8. PresentsOnce'
  BY <1>1, StepKeepsPresents DEF TokensConsistent
<1>9. RefusedForAReason'
  <2>1. ASSUME NEW i \in DOMAIN auth', auth'[i].step = "refused"
        PROVE  \/ rows'[auth[i].presents] = "ended"
               \/ \E j \in DOMAIN auth \ {i} :
                    /\ auth[j].presents = auth[i].presents
                    /\ \/ auth[j].tab # auth[i].tab
                       \/ auth[j].client = "left" \/ auth[i].client = "left"
    <3>1. i # k /\ i \in DOMAIN auth /\ auth[i].step = "refused"
      BY <1>2, <2>1
    <3>2. auth[i].op = "exchange"
      BY <3>1 DEF TokensConsistent, TokensAgree, Past
    <3>3. auth[i].presents \in DOMAIN rows
      BY <3>1, <3>2 DEF TokensConsistent, TokensAgree, Known
    <3>4. CASE auth[i].presents = p
      BY <1>1, <1>3, <3>1, <3>2, <3>4 DEF TokensConsistent, PresentsOnce, Exchanges, p
    <3>5. CASE auth[i].presents # p
      BY <1>4, <3>1, <3>3, <3>5 DEF TokensConsistent, RefusedForAReason
    <3>6. QED
      BY <3>4, <3>5
  <2>2. QED
    BY <1>2, <2>1 DEF RefusedForAReason
<1>10. QED
  BY <1>6, <1>7, <1>8, <1>9 DEF TokensConsistent

\* The new refresh token is stored: nobody can have presented it.
LEMMA StoreConsistent ==
  ASSUME TypeOK, TokensConsistent, NEW k \in Tokens, NEW o \in Outcomes, StoreToken(k, o)
  PROVE  TokensConsistent'
<1> DEFINE next == IF o = "done" THEN "granted" ELSE "failed"
<1>1. /\ k \in DOMAIN auth /\ auth[k].step = "store" /\ GoTo(k, next)
      /\ next \in Places /\ next \in Past /\ IsTable(auth, Tokens, AuthRequest)
      /\ store' = store
  BY DEF StoreToken, At, Places, Past, TypeOK
<1>2. /\ DOMAIN rows \subseteq DOMAIN rows'
      /\ DOMAIN rows' \subseteq DOMAIN rows \cup {k}
      /\ \A q \in DOMAIN rows \ {k} : rows'[q] = rows[q]
      /\ k \in DOMAIN rows' => rows'[k] = "live" \/ rows' = rows
      /\ next = "granted" => k \in DOMAIN rows'
  BY DEF StoreToken, Put, Outcomes
<1>3. next # "refused"
  OBVIOUS
<1> HIDE DEF next
<1>4. /\ DOMAIN auth' = DOMAIN auth
      /\ auth'[k].step = next
      /\ \A j \in DOMAIN auth :
           /\ auth'[j].op = auth[j].op
           /\ auth'[j].tab = auth[j].tab
           /\ auth'[j].presents = auth[j].presents
           /\ auth'[j].client = auth[j].client
           /\ j # k => auth'[j].step = auth[j].step
  BY <1>1, GoToAuth
<1>5. \A q : Known(q) => Known(q)'
  BY <1>1, <1>2, KnownStays
<1>6. TokensAgree'
  <2>1. (store.refresh # NoToken => Known(store.refresh))'
    BY <1>1, <1>5 DEF TokensConsistent, TokensAgree
  <2>2. ASSUME NEW j \in DOMAIN auth'
        PROVE  /\ auth'[j].op = "exchange" => Known(auth[j].presents)'
               /\ auth'[j].op # "exchange" =>
                    auth'[j].presents = NoToken /\ auth'[j].step \in Past
               /\ auth'[j].op # "register" /\ auth'[j].step = "granted" =>
                    j \in DOMAIN rows'
    <3>1. CASE j = k
      BY <1>1, <1>2, <1>4, <1>5, <3>1 DEF TokensConsistent, TokensAgree
    <3>2. CASE j # k
      BY <1>2, <1>4, <1>5, <3>2 DEF TokensConsistent, TokensAgree
    <3>3. QED
      BY <3>1, <3>2
  <2>3. ASSUME NEW q \in DOMAIN rows', rows'[q] = "exchanged"
        PROVE  \E j \in DOMAIN auth' : auth'[j].presents = q /\ auth'[j].step \in Past
    <3>1. q \in DOMAIN rows /\ rows[q] = "exchanged"
      BY <1>2, <2>3
    <3>2. PICK j \in DOMAIN auth : auth[j].presents = q /\ auth[j].step \in Past
      BY <3>1 DEF TokensConsistent, TokensAgree
    <3>3. QED
      BY <1>1, <1>4, <3>2
  <2>4. QED
    BY <2>1, <2>2, <2>3 DEF TokensAgree
<1>7. StoredIsUnanswered'
  BY <1>1, <1>4 DEF TokensConsistent, StoredIsUnanswered
<1>8. PresentsOnce'
  BY <1>1, StepKeepsPresents DEF TokensConsistent
<1>9. RefusedForAReason'
  <2>1. ASSUME NEW i \in DOMAIN auth', auth'[i].step = "refused"
        PROVE  \/ rows'[auth[i].presents] = "ended"
               \/ \E j \in DOMAIN auth \ {i} :
                    /\ auth[j].presents = auth[i].presents
                    /\ \/ auth[j].tab # auth[i].tab
                       \/ auth[j].client = "left" \/ auth[i].client = "left"
    <3>1. i \in DOMAIN auth /\ auth[i].step = "refused"
      BY <1>3, <1>4, <2>1
    <3>2. auth[i].op = "exchange"
      BY <3>1 DEF TokensConsistent, TokensAgree, Past
    <3>3. Known(auth[i].presents)
      BY <3>1, <3>2 DEF TokensConsistent, TokensAgree
    <3>4. auth[i].presents \in DOMAIN rows \ {k}
      BY <1>1, <3>3 DEF Known
    <3>5. QED
      BY <1>2, <3>1, <3>4 DEF TokensConsistent, RefusedForAReason
  <2>2. QED
    BY <1>4, <2>1 DEF RefusedForAReason
<1>10. QED
  BY <1>6, <1>7, <1>8, <1>9 DEF TokensConsistent

\* Tokens end: one that was live did not show as exchanged.
LEMMA EndConsistent ==
  ASSUME TypeOK, TokensConsistent, NEW K \in SUBSET Tokens, EndTokens(K)
  PROVE  TokensConsistent'
<1>1. /\ UNCHANGED <<auth, store>>
      /\ DOMAIN rows' = DOMAIN rows
      /\ \A p \in DOMAIN rows : /\ rows'[p] = "exchanged" => rows[p] = "exchanged"
                                /\ rows[p] = "ended" => rows'[p] = "ended"
  BY DEF EndTokens
<1>2. TokensAgree'
  <2>1. \A p : Known(p) => Known(p)'
    BY <1>1 DEF Known
  <2>2. QED
    BY <1>1, <2>1 DEF TokensConsistent, TokensAgree
<1>3. StoredIsUnanswered' /\ PresentsOnce'
  BY <1>1 DEF TokensConsistent, StoredIsUnanswered, PresentsOnce, Exchanges
<1>4. RefusedForAReason'
  <2>1. ASSUME NEW i \in DOMAIN auth, auth[i].step = "refused",
               rows[auth[i].presents] = "ended"
        PROVE  rows'[auth[i].presents] = "ended"
    <3>1. auth[i].op = "exchange"
      BY <2>1 DEF TokensConsistent, TokensAgree, Past
    <3>2. auth[i].presents \in DOMAIN rows
      BY <3>1 DEF TokensConsistent, TokensAgree, Known
    <3>3. QED
      BY <1>1, <2>1, <3>2
  <2>2. QED
    BY <1>1, <2>1 DEF TokensConsistent, RefusedForAReason
<1>5. QED
  BY <1>2, <1>3, <1>4 DEF TokensConsistent

\* The page sees the end of a request, and writes to localStorage nothing, the old
\* refresh token, or the new one.
LEMMA CloseConsistent ==
  ASSUME TypeOK, TokensConsistent, UNCHANGED rows,
         NEW k \in Tokens, Waiting(k), Close(k),
         store'.refresh = store.refresh => store.refresh = NoToken \/ auth[k].op # "exchange",
         store'.refresh \in {NoToken, store.refresh, k},
         store'.refresh = k => auth[k].op # "register" /\ auth[k].step = "granted"
  PROVE  TokensConsistent'
<1>1. k \in DOMAIN auth /\ auth[k].client = "waiting" /\ IsTable(auth, Tokens, AuthRequest)
  BY DEF Waiting, TypeOK
<1>2. /\ DOMAIN auth' = DOMAIN auth
      /\ auth'[k].client = "answered"
      /\ \A j \in DOMAIN auth :
           /\ auth'[j].op = auth[j].op
           /\ auth'[j].tab = auth[j].tab
           /\ auth'[j].presents = auth[j].presents
           /\ auth'[j].step = auth[j].step
           /\ j # k => auth'[j].client = auth[j].client
  BY <1>1, CloseAuth
<1>3. \A p : Known(p) => Known(p)'
  BY <1>2 DEF Known
<1>4. k # NoToken
  BY NamesOK
<1>5. TokensAgree'
  <2>1. (store.refresh # NoToken => Known(store.refresh))'
    <3>1. CASE store'.refresh = store.refresh
      BY <1>3, <3>1 DEF TokensConsistent, TokensAgree
    <3>2. CASE store'.refresh = k
      <4>1. k \in DOMAIN rows
        BY <1>1, <3>2 DEF TokensConsistent, TokensAgree
      <4>2. QED
        BY <1>1, <1>2, <3>2, <4>1 DEF Known
    <3>3. QED
      BY <3>1, <3>2
  <2>2. ASSUME NEW j \in DOMAIN auth'
        PROVE  /\ auth'[j].op = "exchange" => Known(auth[j].presents)'
               /\ auth'[j].op # "exchange" =>
                    auth'[j].presents = NoToken /\ auth'[j].step \in Past
               /\ auth'[j].op # "register" /\ auth'[j].step = "granted" =>
                    j \in DOMAIN rows'
    BY <1>2, <1>3 DEF TokensConsistent, TokensAgree
  <2>3. ASSUME NEW p \in DOMAIN rows', rows'[p] = "exchanged"
        PROVE  \E j \in DOMAIN auth' : auth'[j].presents = p /\ auth'[j].step \in Past
    BY <1>2, <2>3 DEF TokensConsistent, TokensAgree
  <2>4. QED
    BY <2>1, <2>2, <2>3 DEF TokensAgree
<1>6. StoredIsUnanswered'
  <2>1. ASSUME NEW j \in DOMAIN auth, store'.refresh # NoToken,
               auth[j].presents = store'.refresh
        PROVE  auth'[j].client # "answered"
    <3>1. auth[j].op = "exchange"
      BY <2>1 DEF TokensConsistent, TokensAgree
    <3>2. store'.refresh # k
      <4>1. Known(auth[j].presents)
        BY <3>1 DEF TokensConsistent, TokensAgree
      <4>2. QED
        BY <1>1, <2>1, <4>1 DEF Known
    <3>3. store'.refresh = store.refresh
      BY <2>1, <3>2
    <3>4. j # k
      BY <2>1, <3>1, <3>3
    <3>5. QED
      BY <1>2, <2>1, <3>3, <3>4 DEF TokensConsistent, StoredIsUnanswered
  <2>2. QED
    BY <1>2, <2>1 DEF StoredIsUnanswered
<1>7. PresentsOnce'
  <2>1. \A t \in Tabs : Exchanges(t)' = Exchanges(t)
    BY <1>2 DEF Exchanges
  <2>2. \A j \in DOMAIN auth : auth[j].client = "left" => auth'[j].client = "left"
    BY <1>1, <1>2
  <2>3. ASSUME NEW t \in Tabs, NEW i \in Exchanges(t), NEW j \in Exchanges(t),
               i # j, auth'[i].presents = auth'[j].presents
        PROVE  auth'[i].client = "left" \/ auth'[j].client = "left"
    BY <1>2, <2>2, <2>3 DEF TokensConsistent, PresentsOnce, Exchanges
  <2>4. QED
    BY <2>1, <2>3 DEF PresentsOnce
<1>8. RefusedForAReason'
  <2>1. \A j \in DOMAIN auth : auth[j].client = "left" => auth'[j].client = "left"
    BY <1>1, <1>2
  <2>2. QED
    BY <1>2, <2>1 DEF TokensConsistent, RefusedForAReason
<1>9. QED
  BY <1>5, <1>6, <1>7, <1>8 DEF TokensConsistent

\* A page that is left forgets its requests, and changes nothing that is stored.
LEMMA ReloadConsistent ==
  ASSUME TypeOK, TokensConsistent, NEW t \in Tabs, Reload(t)
  PROVE  TokensConsistent'
<1>1. IsTable(auth, Tokens, AuthRequest) /\ UNCHANGED <<rows, store>>
  BY DEF TypeOK, Reload
<1>2. /\ DOMAIN auth' = DOMAIN auth
      /\ \A j \in DOMAIN auth :
           /\ auth'[j].op = auth[j].op
           /\ auth'[j].tab = auth[j].tab
           /\ auth'[j].presents = auth[j].presents
           /\ auth'[j].step = auth[j].step
           /\ auth[j].client # "waiting" => auth'[j].client = auth[j].client
           /\ auth'[j].client = "answered" => auth[j].client = "answered"
  BY <1>1, ReloadAuth
<1>3. TokensAgree'
  <2>1. \A p : Known(p) => Known(p)'
    BY <1>1, <1>2 DEF Known
  <2>2. QED
    BY <1>1, <1>2, <2>1 DEF TokensConsistent, TokensAgree
<1>4. StoredIsUnanswered'
  BY <1>1, <1>2 DEF TokensConsistent, StoredIsUnanswered
<1>5. PresentsOnce'
  <2>1. \A u \in Tabs : Exchanges(u)' = Exchanges(u)
    BY <1>2 DEF Exchanges
  <2>2. ASSUME NEW u \in Tabs, NEW i \in Exchanges(u), NEW j \in Exchanges(u),
               i # j, auth'[i].presents = auth'[j].presents
        PROVE  auth'[i].client = "left" \/ auth'[j].client = "left"
    BY <1>2, <2>2 DEF TokensConsistent, PresentsOnce, Exchanges
  <2>3. QED
    BY <2>1, <2>2 DEF PresentsOnce
<1>6. RefusedForAReason'
  BY <1>1, <1>2 DEF TokensConsistent, RefusedForAReason
<1>7. QED
  BY <1>3, <1>4, <1>5, <1>6 DEF TokensConsistent

\* Steps that touch neither the server nor localStorage, and a logout.
LEMMA RestConsistent ==
  ASSUME TypeOK, TokensConsistent, UNCHANGED <<rows, auth>>,
         store' = store \/ store'.refresh = NoToken
  PROVE  TokensConsistent'
<1>1. \A p : Known(p) <=> Known(p)'
  BY DEF Known
<1>2. TokensAgree'
  BY <1>1 DEF TokensConsistent, TokensAgree
<1>3. StoredIsUnanswered' /\ PresentsOnce' /\ RefusedForAReason'
  BY DEF TokensConsistent, StoredIsUnanswered, PresentsOnce, Exchanges, RefusedForAReason
<1>4. QED
  BY <1>2, <1>3 DEF TokensConsistent

\* Every step keeps the part of the invariant that is about tokens.
LEMMA TokensStep == TypeOK /\ Consistent /\ [Next]_vars => TokensConsistent'
<1> SUFFICES ASSUME TypeOK, Consistent, [Next]_vars PROVE TokensConsistent'
  OBVIOUS
<1>1. TokensConsistent
  BY DEF Consistent, TokensConsistent
<1>2. ASSUME NEW c \in Calls, NEW t \in Tabs, Send(c, t) PROVE TokensConsistent'
  BY <1>1, <1>2, RestConsistent DEF Send
<1>3. ASSUME NEW c \in Calls, Settle(c) \/ Reject(c) \/ Enqueue(c)
      PROVE  TokensConsistent'
  BY <1>1, <1>3, RestConsistent DEF Settle, Reject, Enqueue
<1>4. ASSUME NEW c \in Calls, NEW k \in Tokens, StartExchange(c, k)
      PROVE  TokensConsistent'
  <2>1. call[c].tab \in Tabs
    BY <1>4, StartExchangeCall
  <2>2. Ask(k, "exchange", call[c].tab, "find", store.refresh)
    BY <1>4 DEF StartExchange
  <2>3. store.refresh \in Tokens \cup {NoToken} /\ "find" \in Places
    BY DEF TypeOK, Places
  <2>4. store.refresh # NoToken /\ ~refreshing[call[c].tab]
    BY <1>4 DEF StartExchange, MayExchange, Free
  <2>5. UnderWay(call[c].tab) = {}
    BY <2>1, <2>4 DEF Consistent, QueueHasExchange
  <2>6. UNCHANGED <<rows, store>>
    BY <1>4 DEF StartExchange
  <2>7. QED
    BY <1>1, <2>1, <2>2, <2>3, <2>4, <2>5, <2>6, AskConsistent
<1>5. ASSUME NEW t \in Tabs, NEW k \in Tokens, Login(t, k) PROVE TokensConsistent'
  <2>1. Ask(k, "login", t, "store", NoToken) /\ "store" \in Places
    BY <1>5 DEF Login, Places
  <2>2. UNCHANGED <<rows, store>>
    BY <1>5 DEF Login
  <2>3. QED
    BY <1>1, <2>1, <2>2, AskConsistent
<1>6. ASSUME NEW t \in Tabs, NEW k \in Tokens, Register(t, k) PROVE TokensConsistent'
  <2>1. Ask(k, "register", t, "granted", NoToken) /\ "granted" \in Places
    BY <1>6 DEF Register, Places
  <2>2. UNCHANGED <<rows, store>>
    BY <1>6 DEF Register
  <2>3. QED
    BY <1>1, <2>1, <2>2, AskConsistent
<1>7. ASSUME NEW k \in Tokens, Serve(k) PROVE TokensConsistent'
  BY <1>1, <1>7, FindConsistent, RevokeConsistent, StoreConsistent DEF Serve
<1>8. ASSUME NEW K \in SUBSET Tokens, EndTokens(K) PROVE TokensConsistent'
  BY <1>1, <1>8, EndConsistent
<1>9. ASSUME NEW k \in Tokens, AccessExpires(k) PROVE TokensConsistent'
  BY <1>1, <1>9, RestConsistent DEF AccessExpires
<1>10. ASSUME NEW k \in Tokens, Waiting(k) PROVE store.refresh # k
  BY <1>1, <1>10, NamesOK DEF TokensConsistent, TokensAgree, Known, Waiting
<1>11. ASSUME NEW k \in Tokens, LoggedIn(k) PROVE TokensConsistent'
  <2>1. /\ Waiting(k) /\ Close(k) /\ auth[k].step = "granted"
        /\ auth[k].op # "exchange" /\ UNCHANGED rows
    BY <1>11 DEF LoggedIn, At
  <2>2. store'.refresh = IF auth[k].op = "login" THEN k ELSE store.refresh
    BY <1>11 DEF LoggedIn
  <2>3. store.refresh # k
    BY <1>10, <2>1
  <2>4. QED
    BY <1>1, <2>1, <2>2, <2>3, CloseConsistent
<1>12. ASSUME NEW k \in Tokens, Exchanged(k) PROVE TokensConsistent'
  <2>1. /\ Waiting(k) /\ Close(k) /\ auth[k].step = "granted"
        /\ auth[k].op = "exchange" /\ UNCHANGED rows
    BY <1>12 DEF Exchanged, At
  <2>2. store'.refresh = k
    BY <1>12 DEF Exchanged, StorePair
  <2>3. store.refresh # k
    BY <1>10, <2>1
  <2>4. QED
    BY <1>1, <2>1, <2>2, <2>3, CloseConsistent
<1>13. ASSUME NEW k \in Tokens, Waiting(k), Fails(k), UNCHANGED rows
       PROVE  TokensConsistent'
  <2>1. Close(k)
    BY <1>13 DEF Fails
  <2>2. store.refresh # k /\ k # NoToken
    BY <1>10, <1>13, NamesOK
  <2>3. CASE auth[k].op = "exchange"
    <3>1. store'.refresh = NoToken
      BY <1>13, <2>3 DEF Fails, ClearTokens, NothingStored
    <3>2. QED
      BY <1>1, <1>13, <2>1, <2>2, <3>1, CloseConsistent
  <2>4. CASE auth[k].op # "exchange"
    <3>1. store' = store
      BY <1>13, <2>4 DEF Fails
    <3>2. QED
      BY <1>1, <1>13, <2>1, <2>2, <2>4, <3>1, CloseConsistent
  <2>5. QED
    BY <2>3, <2>4
<1>14. ASSUME NEW k \in Tokens, AnsweredWithError(k) \/ AnswerLost(k)
       PROVE  TokensConsistent'
  BY <1>13, <1>14 DEF AnsweredWithError, AnswerLost
<1>15. CASE Logout
  BY <1>1, <1>15, RestConsistent DEF Logout, NothingStored
<1>16. ASSUME NEW t \in Tabs, Reload(t) PROVE TokensConsistent'
  BY <1>1, <1>16, ReloadConsistent
<1>17. CASE UNCHANGED vars
  BY <1>1, <1>17, RestConsistent DEF vars
<1>18. QED
  BY <1>2, <1>3, <1>4, <1>5, <1>6, <1>7, <1>8, <1>9, <1>11, <1>12, <1>14, <1>15,
     <1>16, <1>17 DEF Next, Answer, Receive

-----------------------------------------------------------------------------
\* The page's queue.

\* What the queue depends on: which requests wait, for which tab, and which calls.
LEMMA QueueKept ==
  ASSUME QueueHasExchange, UNCHANGED refreshing,
         \A t \in Tabs : UnderWay(t)' = UnderWay(t) /\ Held(t)' = Held(t)
  PROVE  QueueHasExchange'
BY DEF QueueHasExchange

\* A step of the server changes neither.
LEMMA StepKeepsQueue ==
  ASSUME TypeOK, QueueHasExchange, NEW k \in DOMAIN auth, NEW step \in Places,
         GoTo(k, step), UNCHANGED <<refreshing, call>>
  PROVE  QueueHasExchange'
<1>1. IsTable(auth, Tokens, AuthRequest)
  BY DEF TypeOK
<1>2. /\ DOMAIN auth' = DOMAIN auth
      /\ \A j \in DOMAIN auth : /\ auth'[j].op = auth[j].op
                                /\ auth'[j].tab = auth[j].tab
                                /\ auth'[j].client = auth[j].client
  BY <1>1, GoToAuth
<1>3. \A t \in Tabs : UnderWay(t)' = UnderWay(t)
  BY <1>2 DEF UnderWay, Exchanges, Waiting
<1>4. \A t \in Tabs : Held(t)' = Held(t)
  BY DEF Held
<1>5. QED
  BY <1>3, <1>4, QueueKept

\* Nor does a login or a registration that starts.
LEMMA AskKeepsQueue ==
  ASSUME TypeOK, QueueHasExchange, UNCHANGED <<refreshing, call>>,
         NEW k \in Tokens, NEW op \in {"login", "register", "exchange"}, NEW t \in Tabs,
         NEW step \in Places, NEW presents \in Tokens \cup {NoToken},
         Ask(k, op, t, step, presents)
  PROVE  op # "exchange" => QueueHasExchange'
<1>1. /\ k \notin DOMAIN auth
      /\ auth' = Put(auth, k, [op |-> op, tab |-> t, step |-> step,
                               presents |-> presents, client |-> "waiting"])
  BY DEF Ask
<1>2. /\ DOMAIN auth' = DOMAIN auth \cup {k}
      /\ auth'[k].op = op
      /\ \A j \in DOMAIN auth : auth'[j] = auth[j]
  BY <1>1 DEF Put
<1>3. op # "exchange" => \A u \in Tabs : UnderWay(u)' = UnderWay(u)
  BY <1>1, <1>2 DEF UnderWay, Exchanges, Waiting
<1>4. \A u \in Tabs : Held(u)' = Held(u)
  BY DEF Held
<1>5. QED
  BY <1>3, <1>4, QueueKept

\* The end of a login or a registration frees no page,
LEMMA CloseKeepsQueue ==
  ASSUME TypeOK, QueueHasExchange, UNCHANGED <<refreshing, call>>,
         NEW k \in DOMAIN auth, auth[k].op # "exchange", Close(k)
  PROVE  QueueHasExchange'
<1>1. IsTable(auth, Tokens, AuthRequest)
  BY DEF TypeOK
<1>2. /\ DOMAIN auth' = DOMAIN auth
      /\ \A j \in DOMAIN auth :
           /\ auth'[j].op = auth[j].op
           /\ auth'[j].tab = auth[j].tab
           /\ j # k => auth'[j].client = auth[j].client
  BY <1>1, CloseAuth
<1>3. \A t \in Tabs : UnderWay(t)' = UnderWay(t)
  BY <1>2 DEF UnderWay, Exchanges, Waiting
<1>4. \A t \in Tabs : Held(t)' = Held(t)
  BY DEF Held
<1>5. QED
  BY <1>3, <1>4, QueueKept

\* and the end of an exchange empties the queue of its page and of no other.
LEMMA CloseFreesPage ==
  ASSUME TypeOK, QueueHasExchange, NEW k \in DOMAIN auth, Waiting(k), Close(k),
         auth[k].op = "exchange", NEW u \in Tabs, auth[k].tab = u,
         refreshing' = [refreshing EXCEPT ![u] = FALSE],
         Held(u)' = {},
         \A t \in Tabs \ {u} : Held(t)' = Held(t)
  PROVE  QueueHasExchange'
<1>1. IsTable(auth, Tokens, AuthRequest) /\ refreshing \in [Tabs -> BOOLEAN]
  BY DEF TypeOK
<1>2. /\ DOMAIN auth' = DOMAIN auth
      /\ auth'[k].client = "answered"
      /\ \A j \in DOMAIN auth :
           /\ auth'[j].op = auth[j].op
           /\ auth'[j].tab = auth[j].tab
           /\ j # k => auth'[j].client = auth[j].client
  BY <1>1, CloseAuth
<1>3. k \in UnderWay(u)
  BY DEF UnderWay, Exchanges
<1>4. UnderWay(u) = {k}
  BY <1>3 DEF QueueHasExchange
<1>5. UnderWay(u)' = {}
  <2>1. ASSUME NEW j \in UnderWay(u)' PROVE FALSE
    <3>1. j \in DOMAIN auth /\ j # k /\ auth[j].op = "exchange" /\ auth[j].tab = u
          /\ auth[j].client = "waiting"
      BY <1>2, <2>1 DEF UnderWay, Exchanges, Waiting
    <3>2. QED
      BY <1>4, <3>1 DEF UnderWay, Exchanges, Waiting
  <2>2. QED
    BY <2>1
<1>6. \A t \in Tabs \ {u} : UnderWay(t)' = UnderWay(t)
  BY <1>2 DEF UnderWay, Exchanges, Waiting
<1>7. /\ refreshing'[u] = FALSE
      /\ \A t \in Tabs \ {u} : refreshing'[t] = refreshing[t]
  BY <1>1
<1>8. ASSUME NEW t \in Tabs
      PROVE  /\ refreshing'[t] <=> UnderWay(t)' # {}
             /\ refreshing'[t] <=> Held(t)' # {}
             /\ \A i, j \in UnderWay(t)' : i = j
  <2>1. CASE t = u
    BY <1>5, <1>7, <2>1
  <2>2. CASE t # u
    BY <1>6, <1>7, <2>2 DEF QueueHasExchange
  <2>3. QED
    BY <2>1, <2>2
<1>9. QED
  BY <1>8 DEF QueueHasExchange

\* A failed exchange takes the calls it held with it.
LEMMA FailsQueue ==
  ASSUME TypeOK, QueueHasExchange, NEW k, Waiting(k), Fails(k)
  PROVE  QueueHasExchange'
<1>1. k \in DOMAIN auth /\ Close(k) /\ IsTable(auth, Tokens, AuthRequest)
      /\ IsTable(call, Calls, Call)
  BY DEF Waiting, Fails, TypeOK
<1>2. CASE auth[k].op = "exchange"
  <2>1. auth[k] \in AuthRequest
    BY <1>1, TableRows
  <2>2. PICK u \in Tabs : auth[k].tab = u
    BY <2>1 DEF AuthRequest
  <2>3. call' = Restrict(call, DOMAIN call \ Held(u))
    BY <1>2, <2>2 DEF Fails, RejectHeld
  <2>4. DOMAIN call \ Held(u) \in SUBSET DOMAIN call
    OBVIOUS
  <2>5. /\ DOMAIN call' = DOMAIN call \ Held(u)
        /\ \A b \in DOMAIN call' : call'[b] = call[b]
    BY <1>1, <2>3, <2>4, KeepCalls
  <2>6. Held(u)' = {}
    BY <2>5 DEF Held
  <2>7. \A t \in Tabs \ {u} : Held(t)' = Held(t)
    BY <2>5 DEF Held
  <2>8. refreshing' = [refreshing EXCEPT ![u] = FALSE]
    BY <1>2, <2>2 DEF Fails
  <2>9. QED
    BY <1>1, <1>2, <2>2, <2>6, <2>7, <2>8, CloseFreesPage
<1>3. CASE auth[k].op # "exchange"
  BY <1>1, <1>3, CloseKeepsQueue DEF Fails
<1>4. QED
  BY <1>2, <1>3

\* A call that starts the exchange of its page: the page had none under way.
LEMMA StartExchangeQueue ==
  ASSUME TypeOK, QueueHasExchange, NEW c \in Calls, NEW k \in Tokens, StartExchange(c, k)
  PROVE  QueueHasExchange'
<1>1. /\ DOMAIN call' = DOMAIN call /\ c \in DOMAIN call
      /\ call[c].tab \in Tabs /\ call'[c].tab = call[c].tab
      /\ call'[c].at = "exchanging"
      /\ \A b \in DOMAIN call \ {c} : call'[b] = call[b]
  BY StartExchangeCall
<1>2. PICK u \in Tabs : call[c].tab = u
  BY <1>1
<1>3. /\ k \notin DOMAIN auth
      /\ auth' = Put(auth, k, [op |-> "exchange", tab |-> u, step |-> "find",
                               presents |-> store.refresh, client |-> "waiting"])
  BY <1>2 DEF StartExchange, Ask
<1>4. /\ DOMAIN auth' = DOMAIN auth \cup {k}
      /\ auth'[k].op = "exchange" /\ auth'[k].tab = u /\ auth'[k].client = "waiting"
      /\ \A j \in DOMAIN auth : auth'[j] = auth[j]
  BY <1>3 DEF Put
<1>5. ~refreshing[u] /\ refreshing' = [refreshing EXCEPT ![u] = TRUE]
  BY <1>2 DEF StartExchange, Free
<1>6. UnderWay(u) = {}
  BY <1>5 DEF QueueHasExchange
<1>7. UnderWay(u)' = {k}
  <2>1. k \in UnderWay(u)'
    BY <1>4 DEF UnderWay, Exchanges, Waiting
  <2>2. ASSUME NEW j \in UnderWay(u)', j # k PROVE FALSE
    <3>1. j \in UnderWay(u)
      BY <1>4, <2>2 DEF UnderWay, Exchanges, Waiting
    <3>2. QED
      BY <1>6, <3>1
  <2>3. QED
    BY <2>1, <2>2
<1>8. \A t \in Tabs \ {u} : UnderWay(t)' = UnderWay(t)
  BY <1>3, <1>4 DEF UnderWay, Exchanges, Waiting
<1>9. \A t \in Tabs \ {u} : Held(t)' = Held(t)
  BY <1>1, <1>2 DEF Held
<1>10. /\ refreshing'[u] = TRUE /\ c \in Held(u)'
       /\ \A t \in Tabs \ {u} : refreshing'[t] = refreshing[t]
  BY <1>1, <1>2, <1>5 DEF TypeOK, Held
<1>11. ASSUME NEW t \in Tabs
       PROVE  /\ refreshing'[t] <=> UnderWay(t)' # {}
              /\ refreshing'[t] <=> Held(t)' # {}
              /\ \A i, j \in UnderWay(t)' : i = j
  <2>1. CASE t = u
    BY <1>7, <1>10, <2>1
  <2>2. CASE t # u
    BY <1>8, <1>9, <1>10, <2>2 DEF QueueHasExchange
  <2>3. QED
    BY <2>1, <2>2
<1>12. QED
  BY <1>11 DEF QueueHasExchange

\* A page that is left has no queue and waits for nothing.
LEMMA ReloadQueue ==
  ASSUME TypeOK, QueueHasExchange, NEW u \in Tabs, Reload(u)
  PROVE  QueueHasExchange'
<1>1. IsTable(auth, Tokens, AuthRequest) /\ IsTable(call, Calls, Call)
  BY DEF TypeOK
<1>2. /\ DOMAIN auth' = DOMAIN auth
      /\ \A j \in DOMAIN auth :
           /\ auth'[j].op = auth[j].op
           /\ auth'[j].tab = auth[j].tab
           /\ auth'[j].client =
                IF auth[j].tab = u /\ auth[j].client = "waiting" THEN "left"
                                                                  ELSE auth[j].client
  BY <1>1, ReloadAuth
<1>3. {c \in DOMAIN call : call[c].tab # u} \in SUBSET DOMAIN call
  OBVIOUS
<1>4. /\ DOMAIN call' = {c \in DOMAIN call : call[c].tab # u}
      /\ \A b \in DOMAIN call' : call'[b] = call[b]
  BY <1>1, <1>3, KeepCalls DEF Reload
<1>5. UnderWay(u)' = {}
  BY <1>2 DEF UnderWay, Exchanges, Waiting
<1>6. \A t \in Tabs \ {u} : UnderWay(t)' = UnderWay(t)
  BY <1>2 DEF UnderWay, Exchanges, Waiting
<1>7. Held(u)' = {} /\ \A t \in Tabs \ {u} : Held(t)' = Held(t)
  BY <1>4 DEF Held
<1>8. /\ refreshing'[u] = FALSE
      /\ \A t \in Tabs \ {u} : refreshing'[t] = refreshing[t]
  BY DEF Reload, TypeOK
<1>9. ASSUME NEW t \in Tabs
      PROVE  /\ refreshing'[t] <=> UnderWay(t)' # {}
             /\ refreshing'[t] <=> Held(t)' # {}
             /\ \A i, j \in UnderWay(t)' : i = j
  <2>1. CASE t = u
    BY <1>5, <1>7, <1>8, <2>1
  <2>2. CASE t # u
    BY <1>6, <1>7, <1>8, <2>2 DEF QueueHasExchange
  <2>3. QED
    BY <2>1, <2>2
<1>10. QED
  BY <1>9 DEF QueueHasExchange

\* Every step keeps the agreement of isRefreshing, failedQueue and the exchanges.
LEMMA QueueStep == TypeOK /\ Consistent /\ [Next]_vars => QueueHasExchange'
<1> SUFFICES ASSUME TypeOK, Consistent, [Next]_vars PROVE QueueHasExchange'
  OBVIOUS
<1>1. QueueHasExchange /\ IsTable(call, Calls, Call)
  BY DEF Consistent, TypeOK
<1>2. (auth' = auth) => \A t \in Tabs : UnderWay(t)' = UnderWay(t)
  BY DEF UnderWay, Exchanges, Waiting
<1>3. (call' = call) => \A t \in Tabs : Held(t)' = Held(t)
  BY DEF Held
<1>4. ASSUME NEW c \in Calls, NEW t \in Tabs, Send(c, t) PROVE QueueHasExchange'
  <2>1. /\ DOMAIN call' = DOMAIN call \cup {c} /\ call'[c].at = "sent"
        /\ c \notin DOMAIN call
        /\ \A b \in DOMAIN call \ {c} : call'[b] = call[b]
    BY <1>4, SendCall
  <2>2. \A u \in Tabs : Held(u)' = Held(u)
    BY <2>1 DEF Held
  <2>3. auth' = auth /\ refreshing' = refreshing
    BY <1>4 DEF Send
  <2>4. QED
    BY <1>1, <1>2, <2>2, <2>3, QueueKept
<1>5. ASSUME NEW c \in Calls, Settle(c) \/ Reject(c) PROVE QueueHasExchange'
  <2>1. /\ call' = Drop(call, c) /\ auth' = auth /\ refreshing' = refreshing
        /\ call[c].at = "sent"
    BY <1>5 DEF Settle, Reject, Unauthorized
  <2>2. DOMAIN call' = DOMAIN call \ {c} /\ \A b \in DOMAIN call' : call'[b] = call[b]
    BY <1>1, <2>1, DropCall
  <2>3. \A u \in Tabs : Held(u)' = Held(u)
    BY <2>1, <2>2 DEF Held
  <2>4. QED
    BY <1>1, <1>2, <2>1, <2>3, QueueKept
<1>6. ASSUME NEW c \in Calls, Enqueue(c) PROVE QueueHasExchange'
  <2>1. /\ DOMAIN call' = DOMAIN call /\ c \in DOMAIN call
        /\ call'[c].tab = call[c].tab /\ call'[c].at = "queued"
        /\ \A b \in DOMAIN call \ {c} : call'[b] = call[b]
    BY <1>6, EnqueueCall
  <2>2. auth' = auth /\ refreshing' = refreshing /\ refreshing[call[c].tab]
    BY <1>6 DEF Enqueue, Free
  <2>3. ASSUME NEW u \in Tabs PROVE refreshing'[u] <=> Held(u)' # {}
    <3>1. CASE u = call[c].tab
      <4>1. c \in Held(u)'
        BY <2>1, <3>1 DEF Held
      <4>2. QED
        BY <2>2, <3>1, <4>1
    <3>2. CASE u # call[c].tab
      <4>1. Held(u)' = Held(u)
        BY <2>1, <3>2 DEF Held
      <4>2. QED
        BY <1>1, <2>2, <4>1 DEF QueueHasExchange
    <3>3. QED
      BY <3>1, <3>2
  <2>4. QED
    BY <1>1, <1>2, <2>2, <2>3 DEF QueueHasExchange
<1>7. ASSUME NEW c \in Calls, NEW k \in Tokens, StartExchange(c, k)
      PROVE  QueueHasExchange'
  BY <1>1, <1>7, StartExchangeQueue
<1>8. ASSUME NEW t \in Tabs, NEW k \in Tokens, Login(t, k) PROVE QueueHasExchange'
  <2>1. /\ Ask(k, "login", t, "store", NoToken) /\ "store" \in Places
        /\ UNCHANGED <<refreshing, call>>
    BY <1>8 DEF Login, Places
  <2>2. QED
    BY <1>1, <2>1, AskKeepsQueue
<1>9. ASSUME NEW t \in Tabs, NEW k \in Tokens, Register(t, k) PROVE QueueHasExchange'
  <2>1. /\ Ask(k, "register", t, "granted", NoToken) /\ "granted" \in Places
        /\ UNCHANGED <<refreshing, call>>
    BY <1>9 DEF Register, Places
  <2>2. QED
    BY <1>1, <2>1, AskKeepsQueue
<1>10. ASSUME NEW k \in Tokens, NEW next \in Places, k \in DOMAIN auth, GoTo(k, next),
              UNCHANGED <<refreshing, call>>
       PROVE  QueueHasExchange'
  BY <1>1, <1>10, StepKeepsQueue
<1>11. ASSUME NEW k \in Tokens, Serve(k) PROVE QueueHasExchange'
  BY <1>10, <1>11 DEF Serve, FindToken, RevokeToken, StoreToken, At, Places
<1>12. ASSUME UNCHANGED <<auth, refreshing, call>> PROVE QueueHasExchange'
  BY <1>1, <1>2, <1>3, <1>12, QueueKept
<1>13. ASSUME NEW K \in SUBSET Tokens, EndTokens(K) PROVE QueueHasExchange'
  BY <1>12, <1>13 DEF EndTokens
<1>14. ASSUME NEW k \in Tokens, AccessExpires(k) PROVE QueueHasExchange'
  BY <1>12, <1>14 DEF AccessExpires
<1>15. ASSUME NEW k \in Tokens, LoggedIn(k) PROVE QueueHasExchange'
  BY <1>1, <1>15, CloseKeepsQueue DEF LoggedIn, Waiting
<1>16. ASSUME NEW k \in Tokens, Exchanged(k) PROVE QueueHasExchange'
  <2>1. /\ k \in DOMAIN auth /\ Waiting(k) /\ Close(k) /\ auth[k].op = "exchange"
        /\ IsTable(auth, Tokens, AuthRequest)
    BY <1>16 DEF Exchanged, Waiting, TypeOK
  <2>2. auth[k] \in AuthRequest
    BY <2>1, TableRows
  <2>3. PICK u \in Tabs : auth[k].tab = u
    BY <2>2 DEF AuthRequest
  <2>4. Release(u, k) /\ refreshing' = [refreshing EXCEPT ![u] = FALSE]
    BY <1>16, <2>3 DEF Exchanged
  <2>5. /\ DOMAIN call' = DOMAIN call
        /\ \A b \in DOMAIN call :
             /\ call'[b].tab = call[b].tab
             /\ call'[b].at = IF b \in Held(u) THEN "sent" ELSE call[b].at
    BY <1>1, <2>4, ReleaseCalls
  <2>6. Held(u)' = {}
    BY <2>5 DEF Held
  <2>7. \A t \in Tabs \ {u} : Held(t)' = Held(t)
    BY <2>5 DEF Held
  <2>8. QED
    BY <1>1, <2>1, <2>3, <2>4, <2>6, <2>7, CloseFreesPage
<1>17. ASSUME NEW k \in Tokens, AnsweredWithError(k) \/ AnswerLost(k)
       PROVE  QueueHasExchange'
  BY <1>1, <1>17, FailsQueue DEF AnsweredWithError, AnswerLost
<1>18. CASE Logout
  BY <1>12, <1>18 DEF Logout
<1>19. ASSUME NEW t \in Tabs, Reload(t) PROVE QueueHasExchange'
  BY <1>1, <1>19, ReloadQueue
<1>20. CASE UNCHANGED vars
  BY <1>12, <1>20 DEF vars
<1>21. QED
  BY <1>4, <1>5, <1>6, <1>7, <1>8, <1>9, <1>11, <1>13, <1>14, <1>15, <1>16, <1>17,
     <1>18, <1>19, <1>20 DEF Next, Answer, Receive

-----------------------------------------------------------------------------
\* The inductive invariant, and what follows from it.

\* With no token and no request there is nothing to disagree.
LEMMA ConsistentInit == Init => Consistent
BY DEF Init, Consistent, TokensAgree, StoredIsUnanswered, QueueHasExchange, PresentsOnce,
       RefusedForAReason, UnderWay, Exchanges, Held, NoRows, NothingStored

\* The invariant is inductive, given the types.
LEMMA ConsistentStep == TypeOK /\ Consistent /\ [Next]_vars => Consistent'
BY TokensStep, QueueStep DEF Consistent, TokensConsistent

\* In every reachable state the types hold and everything the browser, its tabs and
\* the server believe of the tokens fits together.
THEOREM InvAlways == Spec => [](TypeOK /\ Consistent)
<1>1. Init => TypeOK /\ Consistent
  BY TypeInit, ConsistentInit
<1>2. TypeOK /\ Consistent /\ [Next]_vars => (TypeOK /\ Consistent)'
  BY TypeStep, ConsistentStep DEF Consistent
<1>3. QED
  BY <1>1, <1>2, PTL DEF Spec

\* Every variable of the server and of the browser keeps its type.
THEOREM TypeCorrect == Spec => []TypeOK
BY InvAlways, PTL

\* isRefreshing and failedQueue: no call waits for an exchange that is not under way.
THEOREM QueueAlwaysHasExchange == Spec => []QueueHasExchange
<1>1. Consistent => QueueHasExchange
  BY DEF Consistent
<1>2. QED
  BY <1>1, InvAlways, PTL

\* No page presents the same refresh token to the server twice.
THEOREM AlwaysPresentsOnce == Spec => []PresentsOnce
<1>1. Consistent => PresentsOnce
  BY DEF Consistent
<1>2. QED
  BY <1>1, InvAlways, PTL

\* Refresh refuses a token only if it ended or somebody else presented it.
THEOREM AlwaysRefusedForAReason == Spec => []RefusedForAReason
<1>1. Consistent => RefusedForAReason
  BY DEF Consistent
<1>2. QED
  BY <1>1, InvAlways, PTL

\* What interrupts a refresh never leaves an exchanged token in localStorage, except
\* for a page that was left in the middle of it.
THEOREM StoredAlwaysExchangeable == Spec => []StoredIsExchangeable
<1>1. TypeOK /\ Consistent => StoredIsExchangeable
  <2>1. ASSUME TypeOK, Consistent,
               NEW p \in DOMAIN rows, store.refresh = p, rows[p] = "exchanged"
        PROVE  \E k \in DOMAIN auth :
                 auth[k].presents = p /\ auth[k].client \in {"waiting", "left"}
    <3>1. PICK k \in DOMAIN auth : auth[k].presents = p
      BY <2>1 DEF Consistent, TokensAgree
    <3>2. p # NoToken
      BY <2>1, NoTokenUnknown
    <3>3. auth[k].client # "answered"
      BY <2>1, <3>1, <3>2 DEF Consistent, StoredIsUnanswered
    <3>4. auth[k] \in AuthRequest
      BY <2>1, TableRows DEF TypeOK
    <3>5. QED
      BY <3>1, <3>3, <3>4 DEF AuthRequest
  <2>2. QED
    BY <2>1 DEF StoredIsExchangeable
<1>2. QED
  BY <1>1, InvAlways, PTL

-----------------------------------------------------------------------------
\* TokenRotation implements Session: what each part of a step does to what Session
\* sees, and then one step of Session, or none, for each step of TokenRotation.

\* The calls of one page change.
LEMMA OnePage ==
  ASSUME NEW t \in Tabs,
         \A u \in Tabs \ {t} : SentBy(u)' = SentBy(u) /\ Held(u)' = Held(u)
  PROVE  /\ sent' = [sent EXCEPT ![t] = SentBy(t)']
         /\ held' = [held EXCEPT ![t] = Held(t)']
BY DEF sent, held

\* The calls stay as they were.
LEMMA NoPage ==
  ASSUME UNCHANGED call
  PROVE  UNCHANGED <<sent, held, tried>>
BY DEF sent, held, tried, SentBy, Held

\* A step that touches no call, no answer and no token is none of Session's.
LEMMA StepUnseen ==
  ASSUME UNCHANGED <<auth, store, call>>
  PROVE  UNCHANGED S!vars
BY NoPage DEF S!vars, heard

\* A page hears of a pair only by the answer to its request: neither a new request
LEMMA AskUnheard ==
  ASSUME NEW k, NEW op, NEW t, NEW step, NEW presents, Ask(k, op, t, step, presents)
  PROVE  heard' = heard
<1>1. /\ k \notin DOMAIN auth
      /\ auth' = Put(auth, k, [op |-> op, tab |-> t, step |-> step,
                               presents |-> presents, client |-> "waiting"])
  BY DEF Ask
<1>2. /\ DOMAIN auth' = DOMAIN auth \cup {k}
      /\ auth'[k].client = "waiting"
      /\ \A j \in DOMAIN auth : auth'[j] = auth[j]
  BY <1>1 DEF Put
<1>3. QED
  BY <1>1, <1>2 DEF heard

\* nor a step of the server tells it,
LEMMA ServeUnseen ==
  ASSUME TypeOK, NEW k \in Tokens, Serve(k)
  PROVE  UNCHANGED S!vars
<1>1. PICK next \in Places : k \in DOMAIN auth /\ GoTo(k, next)
  BY DEF Serve, FindToken, RevokeToken, StoreToken, At, Places
<1>2. UNCHANGED <<store, call>>
  BY DEF Serve, FindToken, RevokeToken, StoreToken
<1>3. /\ DOMAIN auth' = DOMAIN auth
      /\ \A j \in DOMAIN auth : auth'[j].client = auth[j].client
  BY <1>1, GoToAuth DEF TypeOK
<1>4. heard' = heard
  BY <1>3 DEF heard
<1>5. QED
  BY <1>2, <1>4, NoPage DEF S!vars

\* and an answer tells it of one pair.
LEMMA CloseHeard ==
  ASSUME TypeOK, NEW k, Waiting(k), Close(k)
  PROVE  S!Hear(k)
<1>1. k \in DOMAIN auth /\ auth[k].client = "waiting"
  BY DEF Waiting
<1>2. /\ DOMAIN auth' = DOMAIN auth
      /\ auth'[k].client = "answered"
      /\ \A j \in DOMAIN auth : j # k => auth'[j].client = auth[j].client
  BY <1>1, CloseAuth DEF TypeOK
<1>3. k \notin heard /\ heard' = heard \cup {k}
  BY <1>1, <1>2 DEF heard
<1>4. QED
  BY <1>3 DEF S!Hear

\* A call is sent.
LEMMA SendImplements ==
  ASSUME TypeOK, NEW c \in Calls, NEW t \in Tabs, Send(c, t)
  PROVE  S!Send(t, c)
<1>1. /\ DOMAIN call' = DOMAIN call \cup {c} /\ c \notin DOMAIN call
      /\ call'[c].tab = t /\ call'[c].at = "sent" /\ ~call'[c].retried
      /\ \A b \in DOMAIN call \ {c} : call'[b] = call[b]
  BY SendCall
<1>2. SentBy(t)' = SentBy(t) \cup {c} /\ Held(t)' = Held(t)
  BY <1>1 DEF SentBy, Held
<1>3. \A u \in Tabs \ {t} : SentBy(u)' = SentBy(u) /\ Held(u)' = Held(u)
  BY <1>1 DEF SentBy, Held
<1>4. sent' = [sent EXCEPT ![t] = sent[t] \cup {c}] /\ held' = held
  BY <1>2, <1>3, OnePage DEF sent, held
<1>5. tried' = tried
  BY <1>1 DEF tried
<1>6. \A u \in Tabs : c \notin sent[u] /\ c \notin held[u]
  BY <1>1 DEF sent, held, SentBy, Held
<1>7. UNCHANGED <<store, heard>>
  BY DEF Send, heard
<1>8. QED
  BY <1>4, <1>5, <1>6, <1>7 DEF S!Send, S!Open

\* It is answered for good.
LEMMA SettleImplements ==
  ASSUME TypeOK, NEW c \in Calls, Settle(c) \/ Reject(c)
  PROVE  \E t \in Tabs : S!Settle(t, c)
<1>1. /\ c \in DOMAIN call /\ call[c].at = "sent" /\ call' = Drop(call, c)
      /\ IsTable(call, Calls, Call) /\ UNCHANGED <<store, auth>>
  BY DEF Settle, Reject, Unauthorized, TypeOK
<1>2. call[c] \in Call
  BY <1>1, TableRows
<1>3. PICK t \in Tabs : call[c].tab = t
  BY <1>2 DEF Call
<1>4. DOMAIN call' = DOMAIN call \ {c} /\ \A b \in DOMAIN call' : call'[b] = call[b]
  BY <1>1, DropCall
<1>5. c \in SentBy(t) /\ SentBy(t)' = SentBy(t) \ {c} /\ Held(t)' = Held(t)
  BY <1>1, <1>3, <1>4 DEF SentBy, Held
<1>6. \A u \in Tabs \ {t} : SentBy(u)' = SentBy(u) /\ Held(u)' = Held(u)
  BY <1>1, <1>3, <1>4 DEF SentBy, Held
<1>7. c \in sent[t] /\ sent' = [sent EXCEPT ![t] = sent[t] \ {c}] /\ held' = held
  BY <1>5, <1>6, OnePage DEF sent, held
<1>8. tried' = tried \ {c}
  BY <1>4 DEF tried
<1>9. heard' = heard
  BY <1>1 DEF heard
<1>10. QED
  BY <1>1, <1>7, <1>8, <1>9 DEF S!Settle

\* A call that goes from its page's calls on their way to those that wait.
LEMMA HoldCalls ==
  ASSUME NEW c \in DOMAIN call, NEW t \in Tabs, call[c].tab = t, call[c].at = "sent",
         DOMAIN call' = DOMAIN call,
         call'[c].tab = t, call'[c].at # "sent",
         \A b \in DOMAIN call \ {c} : call'[b] = call[b]
  PROVE  /\ c \in sent[t]
         /\ sent' = [sent EXCEPT ![t] = sent[t] \ {c}]
         /\ held' = [held EXCEPT ![t] = held[t] \cup {c}]
<1>1. /\ c \in SentBy(t)
      /\ SentBy(t)' = SentBy(t) \ {c} /\ Held(t)' = Held(t) \cup {c}
  BY DEF SentBy, Held
<1>2. \A u \in Tabs \ {t} : SentBy(u)' = SentBy(u) /\ Held(u)' = Held(u)
  BY DEF SentBy, Held
<1>3. QED
  BY <1>1, <1>2, OnePage DEF sent, held

\* It waits for an exchange that its page has under way.
LEMMA EnqueueImplements ==
  ASSUME TypeOK, QueueHasExchange, NEW c \in Calls, Enqueue(c)
  PROVE  \E t \in Tabs : S!Hold(t, c)
<1>1. /\ DOMAIN call' = DOMAIN call /\ c \in DOMAIN call
      /\ call[c].tab \in Tabs /\ call[c].at = "sent" /\ ~call[c].retried
      /\ call'[c].tab = call[c].tab /\ call'[c].at = "queued" /\ ~call'[c].retried
      /\ \A b \in DOMAIN call \ {c} : call'[b] = call[b]
  BY EnqueueCall
<1>2. PICK t \in Tabs : call[c].tab = t
  BY <1>1
<1>3. /\ c \in sent[t]
      /\ sent' = [sent EXCEPT ![t] = sent[t] \ {c}]
      /\ held' = [held EXCEPT ![t] = held[t] \cup {c}]
  BY <1>1, <1>2, HoldCalls
<1>4. store.refresh # NoToken /\ refreshing[t] /\ UNCHANGED <<auth, store>>
  BY <1>2 DEF Enqueue, MayExchange, Free
<1>5. held[t] # {}
  BY <1>4 DEF QueueHasExchange, held
<1>6. c \notin tried /\ tried' = tried /\ heard' = heard
  BY <1>1, <1>4 DEF tried, heard
<1>7. QED
  BY <1>3, <1>4, <1>5, <1>6 DEF S!Hold

\* It causes the exchange: no call of its page is held yet.
LEMMA StartExchangeImplements ==
  ASSUME TypeOK, QueueHasExchange, NEW c \in Calls, NEW k \in Tokens, StartExchange(c, k)
  PROVE  \E t \in Tabs : S!Hold(t, c)
<1>1. /\ DOMAIN call' = DOMAIN call /\ c \in DOMAIN call
      /\ call[c].tab \in Tabs /\ call[c].at = "sent" /\ ~call[c].retried
      /\ call'[c].tab = call[c].tab /\ call'[c].at = "exchanging" /\ call'[c].retried
      /\ \A b \in DOMAIN call \ {c} : call'[b] = call[b]
  BY StartExchangeCall
<1>2. PICK t \in Tabs : call[c].tab = t
  BY <1>1
<1>3. /\ c \in sent[t]
      /\ sent' = [sent EXCEPT ![t] = sent[t] \ {c}]
      /\ held' = [held EXCEPT ![t] = held[t] \cup {c}]
  BY <1>1, <1>2, HoldCalls
<1>4. /\ store.refresh # NoToken /\ ~refreshing[t] /\ UNCHANGED store
      /\ Ask(k, "exchange", t, "find", store.refresh)
  BY <1>2 DEF StartExchange, MayExchange, Free
<1>5. held[t] = {}
  BY <1>4 DEF QueueHasExchange, held
<1>6. c \notin tried /\ tried' = tried \cup {c}
  BY <1>1 DEF tried
<1>7. heard' = heard
  BY <1>4, AskUnheard
<1>8. QED
  BY <1>3, <1>4, <1>5, <1>6, <1>7 DEF S!Hold

\* A login or a registration that is answered.
LEMMA LoggedInImplements ==
  ASSUME TypeOK, NEW k \in Tokens, LoggedIn(k)
  PROVE  S!Begin(k) \/ S!Ignore(k)
<1>1. Waiting(k) /\ Close(k) /\ UNCHANGED call
  BY DEF LoggedIn
<1>2. S!Hear(k) /\ UNCHANGED <<sent, held, tried>>
  BY <1>1, CloseHeard, NoPage
<1>3. store'.refresh = k \/ store'.refresh = store.refresh
  BY DEF LoggedIn
<1>4. QED
  BY <1>2, <1>3 DEF S!Begin, S!Ignore

\* An exchange that is answered: its page holds calls.
LEMMA ExchangeHolds ==
  ASSUME TypeOK, QueueHasExchange, NEW k, Waiting(k), auth[k].op = "exchange"
  PROVE  auth[k].tab \in Tabs /\ Held(auth[k].tab) # {}
<1>1. k \in DOMAIN auth /\ IsTable(auth, Tokens, AuthRequest)
  BY DEF Waiting, TypeOK
<1>2. auth[k] \in AuthRequest
  BY <1>1, TableRows
<1>3. PICK t \in Tabs : auth[k].tab = t
  BY <1>2 DEF AuthRequest
<1>4. k \in UnderWay(t)
  BY <1>1, <1>3 DEF UnderWay, Exchanges
<1>5. QED
  BY <1>3, <1>4 DEF QueueHasExchange

\* It brings a pair: all are sent again.
LEMMA ExchangedImplements ==
  ASSUME TypeOK, QueueHasExchange, NEW k \in Tokens, Exchanged(k)
  PROVE  \E t \in Tabs : S!Renew(t, k)
<1>1. /\ Waiting(k) /\ Close(k) /\ auth[k].op = "exchange"
      /\ IsTable(call, Calls, Call) /\ store'.refresh = k
  BY DEF Exchanged, StorePair, TypeOK
<1>2. PICK t \in Tabs : auth[k].tab = t /\ Held(t) # {}
  BY <1>1, ExchangeHolds
<1>3. Release(t, k)
  BY <1>2 DEF Exchanged
<1>4. /\ DOMAIN call' = DOMAIN call
      /\ \A b \in DOMAIN call :
           /\ call'[b].tab = call[b].tab
           /\ call'[b].retried = call[b].retried
           /\ call'[b].at = IF b \in Held(t) THEN "sent" ELSE call[b].at
  BY <1>1, <1>3, ReleaseCalls
<1>5. SentBy(t)' = SentBy(t) \cup Held(t) /\ Held(t)' = {}
  BY <1>4 DEF SentBy, Held
<1>6. \A u \in Tabs \ {t} : SentBy(u)' = SentBy(u) /\ Held(u)' = Held(u)
  BY <1>4 DEF SentBy, Held
<1>7. /\ held[t] # {} /\ held' = [held EXCEPT ![t] = {}]
      /\ sent' = [sent EXCEPT ![t] = sent[t] \cup held[t]]
  BY <1>2, <1>5, <1>6, OnePage DEF sent, held
<1>8. tried' = tried
  BY <1>4 DEF tried
<1>9. S!Hear(k)
  BY <1>1, CloseHeard
<1>10. QED
  BY <1>1, <1>7, <1>8, <1>9 DEF S!Renew

\* It fails, or its answer is lost: all are given up and the browser is logged out.
LEMMA FailsImplements ==
  ASSUME TypeOK, QueueHasExchange, NEW k \in Tokens, Waiting(k), Fails(k)
  PROVE  S!Ignore(k) \/ \E t \in Tabs : S!GiveUp(t, k)
<1>1. S!Hear(k) /\ IsTable(call, Calls, Call)
  BY CloseHeard DEF Fails, TypeOK
<1>2. CASE auth[k].op = "exchange"
  <2>1. PICK t \in Tabs : auth[k].tab = t /\ Held(t) # {}
    BY <1>2, ExchangeHolds
  <2>2. call' = Restrict(call, DOMAIN call \ Held(t)) /\ store'.refresh = NoToken
    BY <1>2, <2>1 DEF Fails, RejectHeld, ClearTokens, NothingStored
  <2>3. DOMAIN call \ Held(t) \in SUBSET DOMAIN call
    OBVIOUS
  <2>4. /\ DOMAIN call' = DOMAIN call \ Held(t)
        /\ \A b \in DOMAIN call' : call'[b] = call[b]
    BY <1>1, <2>2, <2>3, KeepCalls
  <2>5. SentBy(t)' = SentBy(t) /\ Held(t)' = {}
    BY <2>4 DEF SentBy, Held
  <2>6. \A u \in Tabs \ {t} : SentBy(u)' = SentBy(u) /\ Held(u)' = Held(u)
    BY <2>4 DEF SentBy, Held
  <2>7. sent' = sent /\ held' = [held EXCEPT ![t] = {}] /\ held[t] # {}
    BY <2>1, <2>5, <2>6, OnePage DEF sent, held
  <2>8. tried' = tried \ held[t]
    BY <2>4 DEF tried, held
  <2>9. QED
    BY <1>1, <2>2, <2>7, <2>8 DEF S!GiveUp
<1>3. CASE auth[k].op # "exchange"
  <2>1. UNCHANGED <<call, store>>
    BY <1>3 DEF Fails
  <2>2. QED
    BY <1>1, <2>1, NoPage DEF S!Ignore
<1>4. QED
  BY <1>2, <1>3

\* A page that is left takes its calls with it.
LEMMA ReloadImplements ==
  ASSUME TypeOK, NEW t \in Tabs, Reload(t)
  PROVE  S!Leave(t)
<1>1. IsTable(auth, Tokens, AuthRequest) /\ IsTable(call, Calls, Call)
  BY DEF TypeOK
<1>2. /\ DOMAIN auth' = DOMAIN auth
      /\ \A j \in DOMAIN auth :
           auth'[j].client = IF auth[j].tab = t /\ auth[j].client = "waiting" THEN "left"
                                                                  ELSE auth[j].client
  BY <1>1, ReloadAuth
<1>3. heard' = heard
  BY <1>2 DEF heard
<1>4. {c \in DOMAIN call : call[c].tab # t} \in SUBSET DOMAIN call
  OBVIOUS
<1>5. /\ DOMAIN call' = {c \in DOMAIN call : call[c].tab # t}
      /\ \A b \in DOMAIN call' : call'[b] = call[b]
  BY <1>1, <1>4, KeepCalls DEF Reload
<1>6. SentBy(t)' = {} /\ Held(t)' = {}
  BY <1>5 DEF SentBy, Held
<1>7. \A u \in Tabs \ {t} : SentBy(u)' = SentBy(u) /\ Held(u)' = Held(u)
  BY <1>5 DEF SentBy, Held
<1>8. sent' = [sent EXCEPT ![t] = {}] /\ held' = [held EXCEPT ![t] = {}]
  BY <1>6, <1>7, OnePage
<1>9. sent[t] \cup held[t] = {c \in DOMAIN call : call[c].tab = t}
  BY DEF sent, held, SentBy, Held
<1>10. tried' = tried \ (sent[t] \cup held[t])
  BY <1>5, <1>9 DEF tried
<1>11. store' = store
  BY DEF Reload
<1>12. QED
  BY <1>3, <1>8, <1>10, <1>11 DEF S!Leave

\* Each step of a consistent state is one of Session's, or none.
LEMMA NextImplementsSession == TypeOK /\ Consistent /\ [Next]_vars => [S!Next]_(S!vars)
<1> SUFFICES ASSUME TypeOK, Consistent, [Next]_vars
             PROVE  S!Next \/ UNCHANGED S!vars
  OBVIOUS
<1>1. QueueHasExchange
  BY DEF Consistent
<1>2. ASSUME NEW c \in Calls, NEW t \in Tabs, Send(c, t) PROVE S!Next
  BY <1>2, SendImplements DEF S!Next
<1>3. ASSUME NEW c \in Calls, Answer(c) PROVE S!Next
  BY <1>1, <1>3, SettleImplements, EnqueueImplements, StartExchangeImplements
     DEF S!Next, Answer
<1>4. ASSUME NEW t \in Tabs, NEW k \in Tokens, Login(t, k) \/ Register(t, k)
      PROVE  UNCHANGED S!vars
  <2>1. \E op, step : Ask(k, op, t, step, NoToken)
    BY <1>4 DEF Login, Register
  <2>2. heard' = heard
    BY <2>1, AskUnheard
  <2>3. UNCHANGED <<store, call>>
    BY <1>4 DEF Login, Register
  <2>4. QED
    BY <2>2, <2>3, NoPage DEF S!vars
<1>5. ASSUME NEW k \in Tokens, Serve(k) PROVE UNCHANGED S!vars
  BY <1>5, ServeUnseen
<1>6. ASSUME NEW k \in Tokens, Receive(k) PROVE S!Next
  BY <1>1, <1>6, LoggedInImplements, ExchangedImplements, FailsImplements
     DEF S!Next, Receive, AnsweredWithError
<1>7. ASSUME NEW k \in Tokens, AnswerLost(k) PROVE S!Next
  BY <1>1, <1>7, FailsImplements DEF S!Next, AnswerLost
<1>8. ASSUME NEW k \in Tokens, AccessExpires(k) PROVE UNCHANGED S!vars
  BY <1>8, StepUnseen DEF AccessExpires
<1>9. ASSUME NEW K \in SUBSET Tokens, EndTokens(K) PROVE UNCHANGED S!vars
  BY <1>9, StepUnseen DEF EndTokens
<1>10. ASSUME NEW t \in Tabs, Reload(t) PROVE S!Next
  BY <1>10, ReloadImplements DEF S!Next
<1>11. CASE Logout
  <2>1. UNCHANGED <<auth, call>> /\ store'.refresh = NoToken
    BY <1>11 DEF Logout, NothingStored
  <2>2. S!Logout
    BY <2>1, NoPage DEF S!Logout, heard
  <2>3. QED
    BY <2>2 DEF S!Next
<1>12. CASE UNCHANGED vars
  BY <1>12, StepUnseen DEF vars
<1>13. QED
  BY <1>2, <1>3, <1>4, <1>5, <1>6, <1>7, <1>8, <1>9, <1>10, <1>11, <1>12 DEF Next

\* A browser nobody has logged in with.
LEMMA InitImplementsSession == Init => S!Init
BY DEF Init, S!Init, NothingStored, NoRows, heard, sent, held, tried, SentBy, Held

\* Whatever the server, the connection and the tabs do, and in whatever order: the
\* calls that a page holds during an exchange are released together by its end, a
\* call causes one exchange at most, and the session only ever goes on with a pair
\* that no page had heard of.
THEOREM ImplementsSession == Spec => S!Safety
<1>1. Init => S!Init
  BY InitImplementsSession
<1>2. TypeOK /\ Consistent /\ [Next]_vars => [S!Next]_(S!vars)
  BY NextImplementsSession
<1>3. QED
  BY <1>1, <1>2, InvAlways, PTL DEF Spec, S!Safety
=============================================================================
