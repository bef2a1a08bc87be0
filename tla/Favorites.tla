----------------------------- MODULE Favorites -----------------------------
(***************************************************************************)
(* One favorite of one user, looked at from several tabs: the heart of a  *)
(* destination, which asks once whether it is a favorite and then toggles *)
(* it, and the page that lists the favorites and removes them with the    *)
(* same toggle.  The handler reads, then adds or removes; a removal marks *)
(* the row as deleted, and the row goes on holding its unique key.        *)
(***************************************************************************)
EXTENDS Integers, FiniteSets

CONSTANTS FavTabs,    \* the tabs
          MaxAsks,    \* bound: requests made
          MaxLost     \* bound: requests or answers lost

ASSUME FavoritesAssumption == MaxAsks \in Nat /\ MaxLost \in Nat

VARIABLES favRow,     \* the row of the favorite
          favTabs,    \* what each tab shows
          asks,       \* the requests
          asked,      \* how many were made
          lostAsks

favVars == <<favRow, favTabs, asks, asked, lostAsks>>

\* view: the page of the tab.  shown: the heart is filled, or the list has
\* the favorite.  loading: the heart's button is off.  doubt: what the tab
\* was last told need not hold any more, see HeartTellsTruth.  cached: what
\* the last list said, if there was one.
FavTab == [view : {"none", "heart", "list"}, shown : BOOLEAN, loading : BOOLEAN,
           doubt : BOOLEAN, cached : {"no list", "in", "out"}]

\* mine: the tab still shows the page that asked.  saw: what the handler
\* read, and what it answers.
FavAsk == [tab : FavTabs, kind : {"check", "toggle", "list"}, mine : BOOLEAN,
           stage : {"sent", "read", "answer", "refused", "over"}, saw : BOOLEAN]

AskOpen(k) == asks[k].stage # "over"
FavAsking(t, kinds) == \E k \in 1..asked : /\ AskOpen(k) /\ asks[k].mine
                                           /\ asks[k].tab = t /\ asks[k].kind \in kinds

\* A button is off during a toggle only.
FavTypeOK ==
    /\ favRow \in {"none", "live", "removed"}
    /\ favTabs \in [FavTabs -> FavTab]
    /\ asked \in 0..MaxAsks
    /\ asks \in [1..asked -> FavAsk]
    /\ lostAsks \in 0..MaxLost
    /\ \A t \in FavTabs : favTabs[t].loading => FavAsking(t, {"toggle"})

Closed == [view |-> "none", shown |-> FALSE, loading |-> FALSE, doubt |-> FALSE,
           cached |-> "no list"]

FavInit ==
    /\ favRow \in {"none", "live"}
    /\ favTabs = [t \in FavTabs |-> Closed]
    /\ asks = <<>>
    /\ asked = 0 /\ lostAsks = 0

-----------------------------------------------------------------------------
(* The tabs. *)

NewAsk(t, kind) == [tab |-> t, kind |-> kind, mine |-> TRUE, stage |-> "sent",
                    saw |-> FALSE]

\* Bound: a request is made only while there are some left.
Post(old, t, kind) ==
    /\ asked < MaxAsks /\ asked' = asked + 1
    /\ asks' = [k \in 1..asked' |-> IF k = asked' THEN NewAsk(t, kind) ELSE old[k]]

Finished(k) == [asks EXCEPT ![k].stage = "over", ![k].mine = FALSE, ![k].saw = FALSE]

\* The page of tab t goes: nobody waits for its questions any more.
Abandoned(t) == [k \in 1..asked |->
    IF asks[k].tab # t THEN asks[k]
    ELSE IF asks[k].kind = "toggle" THEN [asks[k] EXCEPT !.mine = FALSE]
    ELSE Finished(k)[k]]

\* The effect of the button asks once; the list is asked for unless there is
\* one that is still held to be fresh, which no toggle makes stale.
OpenView(t) ==
    /\ favTabs[t].view = "none"
    /\ \/ /\ favTabs' = [favTabs EXCEPT ![t].view = "heart"]
          /\ Post(asks, t, "check")
       \/ /\ favTabs' = [favTabs EXCEPT ![t].view = "list", ![t].doubt = TRUE,
                                        ![t].shown = favTabs[t].cached = "in"]
          /\ \/ Post(asks, t, "list")
             \/ favTabs[t].cached # "no list" /\ UNCHANGED <<asks, asked>>
    /\ UNCHANGED <<favRow, lostAsks>>

CloseView(t) ==
    /\ favTabs[t].view # "none"
    /\ favTabs' = [favTabs EXCEPT ![t] = [Closed EXCEPT !.cached = favTabs[t].cached]]
    /\ asks' = Abandoned(t)
    /\ UNCHANGED <<favRow, asked, lostAsks>>

\* The check may still be under way: its answer can then come last.
ToggleHeart(t) ==
    /\ favTabs[t].view = "heart" /\ ~favTabs[t].loading
    /\ favTabs' = [favTabs EXCEPT ![t].loading = TRUE]
    /\ Post(asks, t, "toggle")
    /\ UNCHANGED <<favRow, lostAsks>>

\* Nothing turns the removal's button off.
RemoveListed(t) ==
    /\ favTabs[t].view = "list" /\ favTabs[t].shown
    /\ Post(asks, t, "toggle")
    /\ UNCHANGED <<favRow, favTabs, lostAsks>>

-----------------------------------------------------------------------------
(* The handler. *)

Advanced(k, stage, saw) == asks' = [asks EXCEPT ![k].stage = stage, ![k].saw = saw]

\* What is read or written is what the tab will be told; the heart that has
\* another answer on the way may be told that one last.
Promised(k) ==
    asks[k].mine /\ ~\E j \in (1..asked) \ {k} :
        /\ asks[j].tab = asks[k].tab /\ asks[j].mine /\ asks[j].stage = "answer"
        /\ favTabs[asks[k].tab].view = "heart"

\* Exists, or the list.
ReadFavorite(k) ==
    /\ asks[k].stage = "sent"
    /\ Advanced(k, IF asks[k].kind = "toggle" THEN "read" ELSE "answer", favRow = "live")
    /\ favTabs' = IF asks[k].mine /\ asks[k].kind # "toggle"
                  THEN [favTabs EXCEPT ![asks[k].tab].doubt = ~Promised(k)] ELSE favTabs
    /\ UNCHANGED <<favRow, asked, lostAsks>>

\* After a write the tabs that did not ask for it are out of date.
FavTold(k) ==
    favTabs' = [t \in FavTabs |->
        IF asks[k].mine /\ asks[k].tab = t
        THEN [favTabs[t] EXCEPT !.doubt = IF favTabs[t].view = "list" \/ asks'[k].stage = "refused"
                                          THEN @ ELSE ~Promised(k)]
        ELSE [favTabs[t] EXCEPT !.doubt = @ \/ (favRow' # favRow /\ favTabs[t].view # "none")]]

\* Delete marks the row, if it is not marked yet.
RemoveRow == favRow' = IF favRow = "live" THEN "removed" ELSE favRow

\* Mutant: the key of a hidden row is free.
KeyFree_hidden == favRow # "live"

\* The unique key counts the rows that are hidden.
KeyFree == favRow = "none"

\* Remove, or Add, which the unique key refuses when there is a row.
WriteFavorite(k) ==
    /\ asks[k].stage = "read"
    /\ IF asks[k].saw THEN RemoveRow /\ Advanced(k, "answer", FALSE)
       ELSE IF KeyFree THEN favRow' = "live" /\ Advanced(k, "answer", TRUE)
       ELSE favRow' = favRow /\ Advanced(k, "refused", FALSE)
    /\ FavTold(k)
    /\ UNCHANGED <<asked, lostAsks>>

-----------------------------------------------------------------------------
(* The answers. *)

\* Mutant: the answer is not read, the heart is turned over.
ToldBy_turned(k) == IF asks[k].kind = "toggle" THEN ~favTabs[asks[k].tab].shown
                   ELSE asks[k].saw

\* The answer of the check or of the toggle is what is shown.
ToldBy(k) == asks[k].saw

\* The heart takes its answers; the page takes its list, and asks for it
\* again after a toggle.
AnswerFavorite(k) ==
    /\ asks[k].stage = "answer"
    /\ LET t == asks[k].tab
           over == Finished(k)
       IN  IF ~asks[k].mine THEN asks' = over /\ UNCHANGED <<favTabs, asked>>
           ELSE IF favTabs[t].view = "list" /\ asks[k].kind = "toggle"
           THEN /\ Post([i \in 1..asked |->
                           IF over[i].tab = t /\ over[i].kind = "list" /\ over[i].mine
                           THEN [over[i] EXCEPT !.mine = FALSE] ELSE over[i]], t, "list")
                /\ UNCHANGED favTabs
           ELSE /\ asks' = over /\ UNCHANGED asked
                /\ favTabs' = [favTabs EXCEPT ![t].shown = ToldBy(k),
                      ![t].loading = @ /\ asks[k].kind # "toggle",
                      ![t].cached = IF asks[k].kind # "list" THEN @
                                    ELSE IF ToldBy(k) THEN "in" ELSE "out"]
    /\ UNCHANGED <<favRow, lostAsks>>

\* A refusal is silent: only the button is turned on again.
Silence(k) ==
    /\ asks' = Finished(k)
    /\ favTabs' = IF ~asks[k].mine THEN favTabs
                  ELSE [favTabs EXCEPT ![asks[k].tab].loading = @ /\ asks[k].kind # "toggle"]

RefusedFavorite(k) ==
    /\ asks[k].stage = "refused"
    /\ Silence(k)
    /\ UNCHANGED <<favRow, asked, lostAsks>>
\* The request or its answer is lost.
LoseFavorite(k) ==
    /\ AskOpen(k) /\ lostAsks < MaxLost
    /\ lostAsks' = lostAsks + 1
    /\ asks' = Finished(k)
    /\ favTabs' = IF ~asks[k].mine THEN favTabs
                  ELSE [favTabs EXCEPT ![asks[k].tab].doubt = TRUE,
                           ![asks[k].tab].loading = @ /\ asks[k].kind # "toggle"]
    /\ UNCHANGED <<favRow, asked>>

-----------------------------------------------------------------------------
FavNext ==
    \/ \E t \in FavTabs : OpenView(t) \/ CloseView(t) \/ ToggleHeart(t) \/ RemoveListed(t)
    \/ \E k \in 1..asked : \/ ReadFavorite(k) \/ WriteFavorite(k) \/ AnswerFavorite(k)
                            \/ RefusedFavorite(k) \/ LoseFavorite(k)

FavSpec == FavInit /\ [][FavNext]_favVars

-----------------------------------------------------------------------------
(* Properties. *)

(***************************************************************************)
(* A heart, or a list, with nothing under way shows what is stored, but   *)
(* for a list taken from the cache, what another page or tab wrote since, *)
(* an answer that was lost, and two answers of the heart that were on the *)
(* way together (it can be toggled before its check is answered).         *)
(***************************************************************************)
HeartTellsTruth ==
    \A t \in FavTabs :
        /\ favTabs[t].view # "none" /\ ~favTabs[t].doubt
        /\ ~FavAsking(t, {"check", "toggle", "list"})
        => favTabs[t].shown = (favRow = "live")

(***************************************************************************)
(* What was once removed is never a favorite again: a removal keeps the   *)
(* row, hidden, and its unique key refuses the next addition, whatever    *)
(* the order of the toggles of several tabs.                               *)
(***************************************************************************)
RemovedForGood == [][favRow = "removed" => favRow' = "removed"]_favVars
=============================================================================
