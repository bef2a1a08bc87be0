-------------------------------- MODULE Pager --------------------------------
(***************************************************************************)
(* The list of destinations, a page at a time: the filters, the page, and *)
(* the number of places that the answer on the screen was given with,     *)
(* while the server's list changes.                                        *)
(***************************************************************************)
EXTENDS Integers, FiniteSets

CONSTANTS Filters,
          PageSize,
          MaxTotal,   \* bound: places under one filter
          MaxPage,    \* bound: pages asked for
          NoAnswer

ASSUME PagerAssumption ==
    /\ PageSize \in Nat \ {0} /\ MaxTotal \in Nat /\ MaxPage \in Nat \ {0}
    /\ NoAnswer \notin Nat

VARIABLES totals,     \* how many places there are under each filter
          past,       \* how many there were, as far as answers are kept
          filter, page,
          shown,      \* the total of the answer on the screen
          cut         \* see PageExists

pagerVars == <<totals, past, filter, page, shown, cut>>

PagerTypeOK ==
    /\ totals \in [Filters -> 0..MaxTotal]
    /\ past \in [Filters -> SUBSET (0..MaxTotal)]
    /\ filter \in Filters
    /\ page \in 1..MaxPage
    /\ shown \in 0..MaxTotal \cup {NoAnswer}
    /\ cut \in BOOLEAN

PagesOf(n) == (n + PageSize - 1) \div PageSize
PagesShown == IF shown = NoAnswer THEN 0 ELSE PagesOf(shown)

PagerInit ==
    /\ totals \in [Filters -> 0..MaxTotal]
    /\ \E older \in [Filters -> 0..MaxTotal] : past = [f \in Filters |-> {totals[f], older[f]}]
    /\ filter \in Filters /\ page = 1
    /\ shown = NoAnswer /\ cut = FALSE

-----------------------------------------------------------------------------
\* An answer from before with which page p of filter f need not exist.
Misleads(n, f, p) == p > PagesOf(n) \/ n > totals[f]

\* A page that was seen before shows its former answer while it is asked for
\* again: some total the list had.
Turn(f, p) ==
    /\ filter' = f /\ page' = p
    /\ shown' \in past[f] \cup {NoAnswer}
    /\ cut' = (cut \/ (shown' # NoAnswer /\ Misleads(shown', f, p)))
    /\ UNCHANGED <<totals, past>>

\* Mutant: the page stays when the filters change.
SetFilter_keepsPage == \E f \in Filters : Turn(f, page)

\* The effect takes every change of the filters back to the first page.
SetFilter == \E f \in Filters : Turn(f, 1)

NextPage ==
    /\ PagesShown > 1 /\ page # PagesShown
    /\ page < MaxPage
    /\ Turn(filter, page + 1)

PreviousPage ==
    /\ PagesShown > 1 /\ page # 1
    /\ Turn(filter, page - 1)

\* The server keeps its answers too, each for some minutes.
PageArrives ==
    /\ shown' \in past[filter]
    /\ cut' = (cut \/ Misleads(shown', filter, page))
    /\ UNCHANGED <<totals, past, filter, page>>

\* A place is added, withdrawn, or filed elsewhere.
ListChanges ==
    /\ \E f \in Filters, n \in 0..MaxTotal :
          /\ totals' = [totals EXCEPT ![f] = n]
          /\ past' = [past EXCEPT ![f] = @ \cup {n}]
          /\ cut' = (cut \/ (f = filter /\ n < totals[f]))
    /\ UNCHANGED <<filter, page, shown>>

PagerNext == SetFilter \/ NextPage \/ PreviousPage \/ PageArrives \/ ListChanges

PagerSpec == PagerInit /\ [][PagerNext]_pagerVars

-----------------------------------------------------------------------------
(***************************************************************************)
(* The page exists, whatever filters are chosen and whatever older        *)
(* answer is on the screen, until the list becomes shorter or an older    *)
(* answer comes back that has too few pages, or more places than the list.*)
(* After that it need not: the button that goes on is off on the last page*)
(* only, not beyond it.                                                    *)
(***************************************************************************)
PageExists == ~cut => page = 1 \/ page <= PagesOf(totals[filter])
=============================================================================
