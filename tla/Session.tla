------------------------------- MODULE Session -------------------------------
(***************************************************************************)
(* What the session code promises to the pages of one browser and to the   *)
(* user, whatever the server, the connection and the other tabs do.  A     *)
(* page whose calls are refused holds them back and exchanges the refresh  *)
(* token once for all of them: then all are sent again, or all are given   *)
(* up and the browser is logged out.  A call is the cause of one exchange  *)
(* at most, a pair that was heard of once never becomes the session's      *)
(* again, and every call is settled in the end.                            *)
(***************************************************************************)
CONSTANTS Tabs, Calls, Tokens, NoToken

VARIABLES
  token,   \* the refresh token of the browser
  heard,   \* pairs whose making, or whose failure, a page was told of
  sent,    \* the calls of each page that are on their way
  held,    \* those that wait for its exchange
  tried    \* calls that caused an exchange already

vars == <<token, heard, sent, held, tried>>

TypeOK ==
  /\ token \in Tokens \cup {NoToken}
  /\ heard \subseteq Tokens
  /\ sent \in [Tabs -> SUBSET Calls] /\ held \in [Tabs -> SUBSET Calls]
  /\ tried \subseteq Calls

Init ==
  /\ token = NoToken /\ heard = {} /\ tried = {}
  /\ sent = [t \in Tabs |-> {}] /\ held = [t \in Tabs |-> {}]

Open(c) == \E t \in Tabs : c \in sent[t] \/ c \in held[t]

Send(t, c) ==
  /\ ~Open(c)
  /\ sent' = [sent EXCEPT ![t] = @ \cup {c}]
  /\ UNCHANGED <<token, heard, held, tried>>

Settle(t, c) ==
  /\ c \in sent[t]
  /\ sent' = [sent EXCEPT ![t] = @ \ {c}]
  /\ tried' = tried \ {c}
  /\ UNCHANGED <<token, heard, held>>

\* The first call that is held is the one that causes the exchange.
Hold(t, c) ==
  /\ c \in sent[t] /\ token # NoToken /\ c \notin tried
  /\ sent' = [sent EXCEPT ![t] = @ \ {c}]
  /\ held' = [held EXCEPT ![t] = @ \cup {c}]
  /\ tried' = IF held[t] = {} THEN tried \cup {c} ELSE tried
  /\ UNCHANGED <<token, heard>>

Hear(k) == k \notin heard /\ heard' = heard \cup {k}

\* A login.
Begin(k) == Hear(k) /\ token' = k /\ UNCHANGED <<sent, held, tried>>

\* A registration, or a login that fails.
Ignore(k) == Hear(k) /\ UNCHANGED <<token, sent, held, tried>>

\* The exchange of the page brings a pair.
Renew(t, k) ==
  /\ held[t] # {} /\ Hear(k)
  /\ token' = k
  /\ sent' = [sent EXCEPT ![t] = @ \cup held[t]]
  /\ held' = [held EXCEPT ![t] = {}]
  /\ UNCHANGED tried

\* It fails.
GiveUp(t, k) ==
  /\ held[t] # {} /\ Hear(k)
  /\ token' = NoToken
  /\ held' = [held EXCEPT ![t] = {}]
  /\ tried' = tried \ held[t]
  /\ UNCHANGED sent

Logout == token' = NoToken /\ UNCHANGED <<heard, sent, held, tried>>

\* The page is left, or loaded again.
Leave(t) ==
  /\ sent' = [sent EXCEPT ![t] = {}]
  /\ held' = [held EXCEPT ![t] = {}]
  /\ tried' = tried \ (sent[t] \cup held[t])
  /\ UNCHANGED <<token, heard>>

Next ==
  \/ \E t \in Tabs, c \in Calls : Send(t, c) \/ Settle(t, c) \/ Hold(t, c)
  \/ \E k \in Tokens : Begin(k) \/ Ignore(k)
  \/ \E t \in Tabs, k \in Tokens : Renew(t, k) \/ GiveUp(t, k)
  \/ \E t \in Tabs : Leave(t)
  \/ Logout

Safety == Init /\ [][Next]_vars

Spec == Safety /\ \A c \in Calls : Open(c) ~> ~Open(c)
=============================================================================
