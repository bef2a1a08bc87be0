----------------------------- MODULE LiveSearch -----------------------------
(***************************************************************************)
(* The search field above every page: it asks a moment after the last key,*)
(* asks at once when a category is chosen, cancels nothing it has asked,  *)
(* and shows whatever answer comes last.                                   *)
(***************************************************************************)
EXTENDS Integers, FiniteSets

CONSTANTS Words,      \* texts long enough to be searched for
          Brief,      \* a text that is too short
          Categories,
          NoSearch,
          MaxKeys     \* bound: changes of the text or the category

ASSUME LiveSearchAssumption ==
    /\ MaxKeys \in Nat /\ Brief \notin Words
    /\ NoSearch \notin [word : Words \cup {Brief}, category : Categories]

VARIABLES typedText,  \* the text: Brief stands for the empty one too
          category,
          timer,      \* the search that the last key will start
          finding,    \* the searches asked for, some of them maybe twice
          results,    \* the search whose results are kept
          dropdown,   \* they are shown
          spinner,
          crossed,    \* see ResultsAnswerInput
          keys

searchVars == <<typedText, category, timer, finding, results, dropdown, spinner, crossed, keys>>

Search  == [word : Words \cup {Brief}, category : Categories]
Finding == [1..2 -> SUBSET [word : Words, category : Categories]]

SearchTypeOK ==
    /\ typedText \in Words \cup {Brief}
    /\ category \in Categories
    /\ timer \in Search \cup {NoSearch}
    /\ finding \in Finding
    /\ results \in Search \cup {NoSearch}
    /\ dropdown \in BOOLEAN /\ spinner \in BOOLEAN /\ crossed \in BOOLEAN
    /\ keys \in 0..MaxKeys

Idle1 == finding[1] = {}

SearchInit ==
    /\ typedText = Brief /\ category \in Categories
    /\ timer = NoSearch /\ finding = [i \in 1..2 |-> {}]
    /\ results = NoSearch
    /\ dropdown = FALSE /\ spinner = FALSE /\ crossed = FALSE
    /\ keys = 0

-----------------------------------------------------------------------------
Input ==
    /\ keys < MaxKeys /\ keys' = keys + 1
    /\ \E w \in Words \cup {Brief} :
          typedText' = w /\ timer' = [word |-> w, category |-> category]
    /\ UNCHANGED <<category, finding, results, dropdown, spinner, crossed>>

\* A search asked for again while it is under way is under way twice.
Added(s) == IF s \in finding[1] THEN [finding EXCEPT ![2] = @ \cup {s}]
            ELSE [finding EXCEPT ![1] = @ \cup {s}]
Removed(s) == IF s \in finding[2] THEN [finding EXCEPT ![2] = @ \ {s}]
              ELSE [finding EXCEPT ![1] = @ \ {s}]

\* Mutant: a text that is too short leaves the results as they are.
Find_briefKept(s) ==
    /\ crossed' = (~Idle1 \/ s # [word |-> typedText, category |-> category'])
    /\ IF s.word = Brief THEN UNCHANGED <<finding, results, spinner>>
       ELSE /\ s \notin finding[2]
            /\ finding' = Added(s) /\ spinner' = TRUE /\ UNCHANGED results

\* A text that is too short has no results.
Find(s) ==
    /\ crossed' = (~Idle1 \/ s # [word |-> typedText, category |-> category'])
    /\ IF s.word = Brief THEN results' = NoSearch /\ UNCHANGED <<finding, spinner>>
       ELSE /\ s \notin finding[2]
            /\ finding' = Added(s) /\ spinner' = TRUE /\ UNCHANGED results

\* The category is the one there was at the last key.
TimerFires ==
    /\ timer # NoSearch
    /\ timer' = NoSearch
    /\ category' = category
    /\ Find(timer)
    /\ UNCHANGED <<typedText, dropdown, keys>>

\* The one that is chosen already, too.  The timer is left to run.
ChooseCategory ==
    /\ keys < MaxKeys /\ keys' = keys + 1
    /\ category' \in Categories
    /\ IF typedText = Brief THEN UNCHANGED <<finding, results, spinner, crossed>>
       ELSE Find([word |-> typedText, category |-> category'])
    /\ UNCHANGED <<typedText, timer, dropdown>>

\* So it is here.
ClearText ==
    /\ typedText # Brief /\ ~spinner
    /\ typedText' = Brief /\ results' = NoSearch /\ dropdown' = FALSE
    /\ UNCHANGED <<category, timer, finding, spinner, crossed, keys>>

\* The answer is shown, whatever was asked since; one is enough to stop the
\* spinner.
ResultsArrive ==
    /\ \E s \in finding[1] : finding' = Removed(s) /\ results' = s
    /\ dropdown' = TRUE /\ spinner' = FALSE
    /\ UNCHANGED <<typedText, category, timer, crossed, keys>>

FindFails ==
    /\ \E s \in finding[1] : finding' = Removed(s)
    /\ results' = NoSearch /\ spinner' = FALSE
    /\ UNCHANGED <<typedText, category, timer, dropdown, crossed, keys>>

\* A press outside, a result followed, or Enter with a text.
HideResults ==
    /\ dropdown
    /\ dropdown' = FALSE
    /\ UNCHANGED <<typedText, category, timer, finding, results, spinner, crossed, keys>>

\* The field is entered and there are results.
ShowResults ==
    /\ ~dropdown /\ results # NoSearch
    /\ dropdown' = TRUE
    /\ UNCHANGED <<typedText, category, timer, finding, results, spinner, crossed, keys>>

SearchNext == \/ Input \/ TimerFires \/ ChooseCategory \/ ClearText \/ ResultsArrive
              \/ FindFails \/ HideResults \/ ShowResults

SearchSpec == SearchInit /\ [][SearchNext]_searchVars

-----------------------------------------------------------------------------
(***************************************************************************)
(* Results that are kept with nothing under way are those of the text and *)
(* the category that are shown, unless the last search was started while  *)
(* another was under way, or was not of that text and category (a category*)
(* was chosen, or the text cleared, between the last key and its search). *)
(***************************************************************************)
ResultsAnswerInput ==
    timer = NoSearch /\ Idle1 /\ ~crossed /\ results # NoSearch
    => results = [word |-> typedText, category |-> category]
=============================================================================
