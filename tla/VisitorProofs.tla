---------------------------- MODULE VisitorProofs ----------------------------
(***************************************************************************)
(* What is proved of the smaller pages a visitor uses: the review form,   *)
(* the pager, the search field, the heart and the list of the favorites,  *)
(* the account, the reviews of a place, the filtered establishments and   *)
(* the dialog that asks for a stay.                                        *)
(* Each section has the inductive invariant of one page and what follows  *)
(* from it.                                                                *)
(***************************************************************************)
EXTENDS Favorites, Reviews, ReviewForm, LiveSearch, Pager, Account, Stays, StayDialog,
        FiniteSetTheorems, WellFoundedInduction, TLAPS

(***************************************************************************)
(* The review form.  While nothing tainted it, the form has the photos    *)
(* that were chosen, and the upload under way was started with them.      *)
(***************************************************************************)
FormInv ==
    /\ FormTypeOK
    /\ ~revForm.tainted => /\ revForm.photos = revForm.chosen
                           /\ Uploading => upload.with = revForm.photos

USE DEF EmptyForm, NoUpload, Uploading, Nothing

(***************************************************************************)
(* A form without photos, no upload, nothing sent.                        *)
(***************************************************************************)
LEMMA FormStarts == FormInit => FormInv
<1> SUFFICES ASSUME FormInit PROVE FormInv
  OBVIOUS
<1>1. revForm \in RevForm
  BY DEF FormInit, RevForm
<1>2. upload \in [photo : Photos \cup {0}, with : SUBSET Photos] /\ sending \in BOOLEAN
  BY DEF FormInit
<1>3. revForm.photos = revForm.chosen /\ upload.photo = 0
  BY DEF FormInit
<1> QED
  BY <1>1, <1>2, <1>3 DEF FormInv, FormTypeOK

(***************************************************************************)
(* Every step of the form keeps its invariant: a step that changes the    *)
(* photos while an upload runs taints the form.                            *)
(***************************************************************************)
LEMMA FormKeeps == FormInv /\ [FormNext]_formVars => FormInv'
<1> SUFFICES ASSUME FormInv, [FormNext]_formVars PROVE FormInv'
  OBVIOUS
<1> USE DEF FormInv, FormTypeOK, RevForm
<1>1. CASE OpenReview
  BY <1>1 DEF OpenReview
<1>2. CASE ChoosePhoto
  BY <1>2 DEF ChoosePhoto, Photos
<1>3. CASE PhotoUploaded
  BY <1>3 DEF PhotoUploaded, PhotosAfter
<1>4. CASE UploadFails
  BY <1>4 DEF UploadFails
<1>5. CASE RemovePhoto
  BY <1>5 DEF RemovePhoto
<1>6. CASE CancelReview \/ ReviewSent
  BY <1>6 DEF CancelReview, ReviewSent, Emptied
<1>7. CASE SendReview \/ SendFails
  BY <1>7 DEF SendReview, SendFails
<1>8. CASE UNCHANGED formVars
  BY <1>8 DEF formVars
<1> QED
  BY <1>1, <1>2, <1>3, <1>4, <1>5, <1>6, <1>7, <1>8 DEF FormNext

(***************************************************************************)
(* The photos of the form are those the visitor chose for it and has not  *)
(* removed, unless one was removed, or a form ended, during an upload,    *)
(* whatever the number of photos and the order of the answers.            *)
(***************************************************************************)
THEOREM PhotosAlwaysAsChosen == FormSpec => []PhotosAsChosen
<1>1. FormInv => PhotosAsChosen
  BY DEF FormInv, PhotosAsChosen
<1> QED
  BY FormStarts, FormKeeps, <1>1, PTL DEF FormSpec

(***************************************************************************)
(* The form, the upload and the request keep their types: an upload began *)
(* from photos, whatever the form has become since.                       *)
(***************************************************************************)
THEOREM ReviewFormTypeCorrect == FormSpec => []FormTypeOK
<1>1. FormInv => FormTypeOK
  BY DEF FormInv
<1> QED
  BY FormStarts, FormKeeps, <1>1, PTL DEF FormSpec

-----------------------------------------------------------------------------
(***************************************************************************)
(* The pager.  A total is one of those the list has had; while the list   *)
(* became no shorter and no misleading answer came back, the total that is*)
(* shown is no greater than the list's own, and the page exists under     *)
(* both.                                                                   *)
(***************************************************************************)
PagerInv ==
    /\ PagerTypeOK
    /\ \A f \in Filters : totals[f] \in past[f]
    /\ shown \in past[filter] \cup {NoAnswer}
    /\ ~cut => /\ shown # NoAnswer => /\ shown <= totals[filter]
                                      /\ page = 1 \/ page <= PagesOf(shown)
               /\ page = 1 \/ page <= PagesOf(totals[filter])

(***************************************************************************)
(* A longer list has no fewer pages.                                      *)
(***************************************************************************)
LEMMA MorePages ==
    ASSUME NEW m \in Nat, NEW n \in Nat, m <= n
    PROVE  PagesOf(m) \in Nat /\ PagesOf(m) <= PagesOf(n)
<1> USE PagerAssumption
<1> DEFINE a == m + PageSize - 1
           b == n + PageSize - 1
           p == a \div PageSize
           q == b \div PageSize
<1>1. a \in Nat /\ b \in Nat /\ a <= b
  OBVIOUS
<1>2. p \in Nat /\ q \in Nat
  BY <1>1
<1>3. p * PageSize <= a /\ b < (q + 1) * PageSize
  BY <1>1
<1> HIDE DEF a, b, p, q
<1>4. p <= q
  <2> SUFFICES ASSUME q + 1 <= p PROVE FALSE
    BY <1>2
  <2>1. PICK d \in Nat : p = q + 1 + d
    <3>1. p - (q + 1) \in Nat /\ p = q + 1 + (p - (q + 1))
      BY <1>2
    <3> QED BY <3>1
  <2>2. p * PageSize = (q + 1) * PageSize + d * PageSize
    BY <2>1, <1>2
  <2>3. d * PageSize \in Nat /\ (q + 1) * PageSize \in Int
    BY <1>2, <2>1
  <2> QED
    BY <2>2, <2>3, <1>1, <1>3
<1> QED
  BY <1>2, <1>4 DEF PagesOf, p, q, a, b

(***************************************************************************)
(* The first page, without an answer.                                     *)
(***************************************************************************)
LEMMA PagerStarts == PagerInit => PagerInv
<1> SUFFICES ASSUME PagerInit PROVE PagerInv
  OBVIOUS
<1>1. \A f \in Filters : /\ totals[f] \in 0..MaxTotal
                         /\ totals[f] \in past[f] /\ past[f] \in SUBSET (0..MaxTotal)
  BY DEF PagerInit
<1>2. past \in [Filters -> SUBSET (0..MaxTotal)]
  BY <1>1 DEF PagerInit
<1>3. PagerTypeOK
  <2>1. 1 \in 1..MaxPage
    BY PagerAssumption
  <2>2. page \in 1..MaxPage /\ filter \in Filters /\ cut \in BOOLEAN /\ shown = NoAnswer
    BY <2>1 DEF PagerInit
  <2>3. totals \in [Filters -> 0..MaxTotal]
    BY DEF PagerInit
  <2> QED
    BY <1>2, <2>2, <2>3 DEF PagerTypeOK
<1> QED
  BY <1>1, <1>3 DEF PagerInit, PagerInv

(***************************************************************************)
(* Turning to a page of a filter keeps the invariant if the page exists   *)
(* under the filter's total, or none of the list's totals is certain.     *)
(***************************************************************************)
LEMMA TurnKeeps ==
    ASSUME PagerInv, NEW f \in Filters, NEW p \in 1..MaxPage, Turn(f, p),
           ~cut' => p = 1 \/ p <= PagesOf(totals[f])
    PROVE  PagerInv'
<1> USE PagerAssumption DEF PagerInv, PagerTypeOK, Turn
<1>1. shown' \in 0..MaxTotal \cup {NoAnswer} /\ past[f] \subseteq 0..MaxTotal
  OBVIOUS
<1>2. PagerTypeOK'
  BY <1>1
<1>3. (~cut => p = 1 \/ p <= PagesOf(totals[f]))'
  BY DEF PagesOf
<1>4. ASSUME cut' = FALSE, shown' # NoAnswer
      PROVE  p <= PagesOf(shown') /\ shown' <= totals[f]
  <2>1. shown' \in Nat /\ PagesOf(shown') \in Nat /\ totals[f] \in Nat
    BY <1>1, <1>4, MorePages
  <2>2. ~(p > PagesOf(shown')) /\ ~(shown' > totals[f])
    BY <1>4 DEF Misleads
  <2> QED BY <2>1, <2>2
<1> QED
  BY <1>2, <1>3, <1>4 DEF PagesOf

(***************************************************************************)
(* Every step of the pager keeps the invariant.                           *)
(***************************************************************************)
LEMMA PagerKeeps == PagerInv /\ [PagerNext]_pagerVars => PagerInv'
<1> SUFFICES ASSUME PagerInv, [PagerNext]_pagerVars PROVE PagerInv'
  OBVIOUS
<1> USE PagerAssumption
<1>0. PagerTypeOK
  BY DEF PagerInv
<1>1. CASE SetFilter
  BY <1>1, TurnKeeps DEF SetFilter
<1>2. CASE NextPage
  <2>1. page + 1 \in 1..MaxPage
    BY <1>2, <1>0 DEF NextPage, PagerTypeOK
  <2>2. ASSUME ~cut' PROVE page + 1 <= PagesOf(totals[filter])
    <3>1. ~cut /\ shown # NoAnswer /\ shown \in past[filter] /\ shown \in Nat
      BY <1>2, <1>0, <2>2 DEF NextPage, Turn, PagesShown, PagerInv, PagerTypeOK
    <3>2. totals[filter] \in Nat /\ shown <= totals[filter]
      BY <3>1, <1>0 DEF PagerInv, PagerTypeOK
    <3>3. PagesOf(shown) \in Nat /\ PagesOf(totals[filter]) \in Nat
          /\ PagesOf(shown) <= PagesOf(totals[filter])
      BY <3>1, <3>2, MorePages
    <3>4. PagesOf(shown) > 1 /\ page # PagesOf(shown)
      BY <1>2, <3>1 DEF NextPage, PagesShown
    <3>5. page = 1 \/ page <= PagesOf(shown)
      BY <3>1 DEF PagerInv
    <3>6. page \in Nat
      BY <1>0 DEF PagerTypeOK
    <3> QED
      BY <3>3, <3>4, <3>5, <3>6
  <2> QED
    BY <1>2, <2>1, <2>2, <1>0, TurnKeeps DEF NextPage, PagerTypeOK
<1>3. CASE PreviousPage
  <2>1. page - 1 \in 1..MaxPage /\ page \in Nat /\ filter \in Filters
    BY <1>3, <1>0 DEF PreviousPage, PagerTypeOK
  <2>2. ASSUME ~cut' PROVE page - 1 <= PagesOf(totals[filter])
    <3>1. ~cut /\ page # 1
      BY <1>3, <2>2 DEF PreviousPage, Turn
    <3>2. page <= PagesOf(totals[filter]) /\ PagesOf(totals[filter]) \in Nat
      BY <3>1, <1>0, MorePages DEF PagerInv, PagerTypeOK
    <3> QED
      BY <3>2, <2>1
  <2> QED
    BY <1>3, <2>1, <2>2, TurnKeeps DEF PreviousPage
<1>4. CASE PageArrives
  <2>1. PICK n \in past[filter] : /\ shown' = n /\ n \in 0..MaxTotal
                                  /\ cut' = (cut \/ Misleads(n, filter, page))
    BY <1>4, <1>0 DEF PageArrives, PagerTypeOK
  <2>2. ASSUME ~cut' PROVE ~cut /\ n <= totals[filter] /\ page <= PagesOf(n)
    <3>1. n \in Nat /\ PagesOf(n) \in Nat /\ totals[filter] \in Nat /\ page \in Nat
      BY <2>1, <1>0, MorePages DEF PagerTypeOK
    <3>2. ~cut /\ ~(page > PagesOf(n)) /\ ~(n > totals[filter])
      BY <2>1, <2>2 DEF Misleads
    <3> QED
      BY <3>1, <3>2
  <2> QED
    BY <1>4, <2>1, <2>2, <1>0 DEF PageArrives, PagerInv, PagerTypeOK, PagesOf
<1>5. CASE ListChanges
  <2>1. PICK f \in Filters, n \in 0..MaxTotal :
             /\ totals' = [totals EXCEPT ![f] = n]
             /\ past' = [past EXCEPT ![f] = @ \cup {n}]
             /\ cut' = (cut \/ (f = filter /\ n < totals[f]))
    BY <1>5 DEF ListChanges
  <2>2. UNCHANGED <<filter, page, shown>>
    BY <1>5 DEF ListChanges
  <2>3. PagerTypeOK'
    BY <2>1, <2>2, <1>0 DEF PagerTypeOK
  <2>4. \A g \in Filters : totals'[g] \in past'[g] /\ past[g] \subseteq past'[g]
    BY <2>1, <1>0 DEF PagerInv, PagerTypeOK
  <2>5. shown' \in past'[filter'] \cup {NoAnswer}
    BY <2>2, <2>4, <1>0 DEF PagerInv, PagerTypeOK
  <2>6. ASSUME ~cut' PROVE totals[filter] <= totals'[filter]
    <3>1. f = filter => ~(n < totals[f])
      BY <2>6, <2>1
    <3>2. totals[filter] \in Nat /\ n \in Nat /\ filter \in Filters
      BY <1>0, PagerAssumption DEF PagerTypeOK
    <3> QED
      BY <3>1, <3>2, <2>1, <1>0 DEF PagerTypeOK
  <2>7. ASSUME ~cut'
        PROVE  page = 1 \/ page <= PagesOf(totals'[filter])
    <3>1. totals[filter] \in Nat /\ totals'[filter] \in Nat /\ totals[filter] <= totals'[filter]
      BY <2>7, <2>6, <2>3, <1>0, <2>2 DEF PagerTypeOK
    <3>2. /\ PagesOf(totals[filter]) \in Nat /\ PagesOf(totals'[filter]) \in Nat
          /\ PagesOf(totals[filter]) <= PagesOf(totals'[filter])
      BY <3>1, MorePages
    <3>3. page \in Nat /\ (page = 1 \/ page <= PagesOf(totals[filter]))
      BY <2>1, <2>7, <1>0 DEF PagerInv, PagerTypeOK
    <3> QED
      BY <3>2, <3>3
  <2>8. ASSUME ~cut', shown # NoAnswer
        PROVE  shown <= totals'[filter] /\ (page = 1 \/ page <= PagesOf(shown))
    <3>1. ~cut /\ totals[filter] <= totals'[filter]
      BY <2>1, <2>6, <2>8
    <3>2. shown \in Nat /\ totals[filter] \in Nat /\ totals'[filter] \in Nat
      BY <2>2, <2>3, <2>8, <1>0 DEF PagerTypeOK
    <3> QED
      BY <2>8, <3>1, <3>2 DEF PagerInv
  <2> QED
    BY <2>2, <2>3, <2>4, <2>5, <2>7, <2>8 DEF PagerInv, PagesOf
<1>6. CASE UNCHANGED pagerVars
  BY <1>6 DEF pagerVars, PagerInv, PagerTypeOK, PagesOf
<1> QED
  BY <1>1, <1>2, <1>3, <1>4, <1>5, <1>6 DEF PagerNext

(***************************************************************************)
(* The page exists whatever filters are chosen, until the list becomes    *)
(* shorter or an older answer comes back that has too few pages or too    *)
(* many places, for every size of a page and every number of filters and  *)
(* places.                                                                 *)
(***************************************************************************)
THEOREM PageAlwaysExists == PagerSpec => []PageExists
<1>1. PagerInv => PageExists
  BY DEF PagerInv, PageExists
<1> QED
  BY PagerStarts, PagerKeeps, <1>1, PTL DEF PagerSpec

(***************************************************************************)
(* The page asked for is one of the pages, and what is shown is the total *)
(* of some list, whatever the filters, the lists and the answers.         *)
(***************************************************************************)
THEOREM PagerTypeCorrect == PagerSpec => []PagerTypeOK
<1>1. PagerInv => PagerTypeOK
  BY DEF PagerInv
<1> QED
  BY PagerStarts, PagerKeeps, <1>1, PTL DEF PagerSpec

-----------------------------------------------------------------------------
(***************************************************************************)
(* The search field.  While no searches crossed there is at most one under*)
(* way, with the spinner on; unless a key is still to start a search, it  *)
(* is the search of what is typed, and so are the results that are kept   *)
(* when there is none.  What is under way twice is under way once.        *)
(***************************************************************************)
Current == [word |-> typedText, category |-> category]
LongSearch == [word : Words, category : Categories]

SearchTypes ==
    /\ typedText \in Words \cup {Brief} /\ category \in Categories
    /\ timer \in Search \cup {NoSearch}
    /\ finding \in Finding /\ finding[2] \subseteq finding[1]
    /\ results \in LongSearch \cup {NoSearch}
    /\ dropdown \in BOOLEAN /\ spinner \in BOOLEAN /\ crossed \in BOOLEAN
    /\ keys \in 0..MaxKeys

OneSearch ==
    /\ finding[2] = {}
    /\ \A s, t \in finding[1] : s = t
    /\ finding[1] # {} => spinner
    /\ timer = NoSearch => /\ \A s \in finding[1] : s = Current
                           /\ finding[1] = {} /\ results # NoSearch => results = Current

SearchInv == SearchTypes /\ (~crossed => OneSearch)

(***************************************************************************)
(* Nothing typed, nothing asked.                                          *)
(***************************************************************************)
LEMMA SearchStarts == SearchInit => SearchInv
<1> SUFFICES ASSUME SearchInit PROVE SearchInv
  OBVIOUS
<1>1. finding \in Finding /\ finding[1] = {} /\ finding[2] = {}
  BY DEF SearchInit, Finding
<1>2. 0 \in 0..MaxKeys
  BY LiveSearchAssumption
<1>3. SearchTypes
  BY <1>1, <1>2 DEF SearchInit, SearchTypes
<1>4. OneSearch
  BY <1>1 DEF SearchInit, OneSearch
<1> QED
  BY <1>3, <1>4 DEF SearchInv

(***************************************************************************)
(* A search that is started alone, and is the one of what is typed, is the*)
(* only one; a brief one leaves no results.                               *)
(***************************************************************************)
LEMMA FindKeeps ==
    ASSUME SearchTypes, NEW s \in Search, Find(s),
           category' \in Categories, typedText' = typedText
    PROVE  /\ finding' \in Finding /\ finding'[2] \subseteq finding'[1]
           /\ results' \in LongSearch \cup {NoSearch}
           /\ spinner' \in BOOLEAN /\ crossed' \in BOOLEAN
           /\ ~crossed' => /\ finding'[2] = {}
                           /\ \A x, y \in finding'[1] : x = y
                           /\ finding'[1] # {} => spinner'
                           /\ \A x \in finding'[1] : x = Current'
                           /\ finding'[1] = {} => results' = NoSearch
<1> USE DEF SearchTypes, LongSearch
<1>1. crossed' = FALSE => finding[1] = {} /\ finding[2] = {} /\ s = Current'
  BY DEF Find, Idle1, Current
<1>2. crossed' \in BOOLEAN
  BY DEF Find
<1>3. CASE s.word = Brief
  BY <1>1, <1>2, <1>3 DEF Find
<1>4. CASE s.word # Brief
  <2>1. s \notin finding[2] /\ finding' = Added(s) /\ spinner' = TRUE /\ results' = results
    BY <1>4 DEF Find
  <2>2. s \in LongSearch
    BY <1>4 DEF Search
  <2>3. CASE s \in finding[1]
    <3>1. finding' = [finding EXCEPT ![2] = @ \cup {s}]
      BY <2>1, <2>3 DEF Added
    <3>2. finding' \in Finding /\ finding'[2] \subseteq finding'[1]
      BY <3>1, <2>2, <2>3 DEF Finding
    <3> QED
      BY <3>2, <2>1, <2>3, <1>1, <1>2
  <2>4. CASE s \notin finding[1]
    <3>1. finding' = [finding EXCEPT ![1] = @ \cup {s}]
      BY <2>1, <2>4 DEF Added
    <3>2. finding' \in Finding /\ finding'[1] = finding[1] \cup {s} /\ finding'[2] = finding[2]
      BY <3>1, <2>2 DEF Finding
    <3> QED
      BY <3>2, <2>1, <1>1, <1>2
  <2> QED
    BY <2>3, <2>4
<1> QED
  BY <1>3, <1>4

(***************************************************************************)
(* An answer ends one search; if it was the only one, none is left.       *)
(***************************************************************************)
LEMMA RemovedLeaves ==
    ASSUME SearchTypes, NEW s \in finding[1]
    PROVE  /\ Removed(s) \in Finding /\ Removed(s)[2] \subseteq Removed(s)[1]
           /\ OneSearch => Removed(s)[1] = {} /\ Removed(s)[2] = {}
<1> USE DEF SearchTypes
<1>1. CASE s \in finding[2]
  BY <1>1 DEF Removed, Finding, OneSearch
<1>2. CASE s \notin finding[2]
  <2>1. Removed(s) = [finding EXCEPT ![1] = @ \ {s}]
    BY <1>2 DEF Removed
  <2>2. /\ Removed(s) \in Finding
        /\ Removed(s)[1] = finding[1] \ {s} /\ Removed(s)[2] = finding[2]
    BY <2>1 DEF Finding
  <2> QED
    BY <2>2, <1>2 DEF OneSearch
<1> QED
  BY <1>1, <1>2

(***************************************************************************)
(* Every step of the search field keeps its invariant.                    *)
(***************************************************************************)
LEMMA SearchKeeps == SearchInv /\ [SearchNext]_searchVars => SearchInv'
<1> SUFFICES ASSUME SearchInv, [SearchNext]_searchVars PROVE SearchInv'
  OBVIOUS
<1> USE LiveSearchAssumption
<1>0. SearchTypes /\ (~crossed => OneSearch)
  BY DEF SearchInv
<1>1. CASE Input
  <2>1. timer' \in Search /\ timer' # NoSearch /\ typedText' \in Words \cup {Brief}
    BY <1>1, <1>0 DEF Input, SearchTypes, Search
  <2>2. UNCHANGED <<category, finding, results, dropdown, spinner, crossed>> /\ keys' \in 0..MaxKeys
    BY <1>1, <1>0 DEF Input, SearchTypes
  <2> QED
    BY <2>1, <2>2, <1>0 DEF SearchInv, SearchTypes, OneSearch
<1>2. CASE TimerFires
  <2>1. timer \in Search /\ category' = category /\ Find(timer)
        /\ UNCHANGED <<typedText, dropdown, keys>> /\ timer' = NoSearch
    BY <1>2, <1>0 DEF TimerFires, SearchTypes
  <2>2. category' \in Categories
    BY <2>1, <1>0 DEF SearchTypes
  <2> HIDE DEF Find
  <2>3. /\ finding' \in Finding /\ finding'[2] \subseteq finding'[1]
        /\ results' \in LongSearch \cup {NoSearch}
        /\ spinner' \in BOOLEAN /\ crossed' \in BOOLEAN
        /\ ~crossed' => /\ finding'[2] = {}
                        /\ \A x, y \in finding'[1] : x = y
                        /\ finding'[1] # {} => spinner'
                        /\ \A x \in finding'[1] : x = Current'
                        /\ finding'[1] = {} => results' = NoSearch
    BY <2>1, <2>2, <1>0, FindKeeps
  <2> QED
    BY <2>1, <2>2, <2>3, <1>0 DEF SearchInv, SearchTypes, OneSearch
<1>3. CASE ChooseCategory
  <2>1. category' \in Categories /\ UNCHANGED <<typedText, timer, dropdown>> /\ keys' \in 0..MaxKeys
    BY <1>3, <1>0 DEF ChooseCategory, SearchTypes
  <2>2. CASE typedText = Brief
    <3>1. UNCHANGED <<finding, results, spinner, crossed>>
      BY <1>3, <2>2 DEF ChooseCategory
    <3>2. \A s \in finding[1] \cup {results} : s # NoSearch => s # Current
      BY <1>0, <2>2 DEF SearchTypes, Finding, LongSearch, Current
    <3>3. ~crossed /\ timer = NoSearch => finding[1] = {} /\ results = NoSearch
      BY <3>2, <1>0 DEF OneSearch, SearchTypes, Finding, Search
    <3> QED
      BY <2>1, <3>1, <3>3, <1>0 DEF SearchInv, SearchTypes, OneSearch
  <2>3. CASE typedText # Brief
    <3>1. Find([word |-> typedText, category |-> category'])
      BY <1>3, <2>3 DEF ChooseCategory
    <3>2. [word |-> typedText, category |-> category'] \in Search
      BY <2>1, <1>0 DEF SearchTypes, Search
    <3>3. /\ finding' \in Finding /\ finding'[2] \subseteq finding'[1]
          /\ results' \in LongSearch \cup {NoSearch}
          /\ spinner' \in BOOLEAN /\ crossed' \in BOOLEAN
          /\ ~crossed' => /\ finding'[2] = {}
                          /\ \A x, y \in finding'[1] : x = y
                          /\ finding'[1] # {} => spinner'
                          /\ \A x \in finding'[1] : x = Current'
                          /\ finding'[1] = {} => results' = NoSearch
      BY <3>1, <3>2, <2>1, <1>0, FindKeeps
    <3> QED
      BY <2>1, <3>3, <1>0 DEF SearchInv, SearchTypes, OneSearch
  <2> QED
    BY <2>2, <2>3
<1>4. CASE ClearText
  <2>1. /\ ~spinner /\ typedText' = Brief /\ results' = NoSearch /\ dropdown' = FALSE
        /\ UNCHANGED <<category, timer, finding, spinner, crossed, keys>>
    BY <1>4 DEF ClearText
  <2> QED
    BY <2>1, <1>0 DEF SearchInv, SearchTypes, OneSearch
<1>5. CASE ResultsArrive
  <2>1. PICK s \in finding[1] : finding' = Removed(s) /\ results' = s
    BY <1>5 DEF ResultsArrive
  <2>2. /\ dropdown' = TRUE /\ spinner' = FALSE
        /\ UNCHANGED <<typedText, category, timer, crossed, keys>>
    BY <1>5 DEF ResultsArrive
  <2>3. s \in LongSearch
    BY <1>0 DEF SearchTypes, Finding, LongSearch
  <2>4. /\ finding' \in Finding /\ finding'[2] \subseteq finding'[1]
        /\ OneSearch => finding'[1] = {} /\ finding'[2] = {}
    BY <2>1, <1>0, RemovedLeaves
  <2>5. OneSearch /\ timer = NoSearch => s = Current
    BY DEF OneSearch
  <2>6. Current' = Current
    BY <2>2 DEF Current
  <2>7. SearchTypes'
    BY <2>1, <2>2, <2>3, <2>4, <1>0 DEF SearchTypes
  <2>8. ~crossed' => OneSearch'
    BY <2>1, <2>2, <2>4, <2>5, <2>6, <1>0 DEF OneSearch
  <2> QED
    BY <2>7, <2>8 DEF SearchInv
<1>6. CASE FindFails
  <2>1. PICK s \in finding[1] : finding' = Removed(s)
    BY <1>6 DEF FindFails
  <2>2. /\ results' = NoSearch /\ spinner' = FALSE
        /\ UNCHANGED <<typedText, category, timer, dropdown, crossed, keys>>
    BY <1>6 DEF FindFails
  <2>3. /\ finding' \in Finding /\ finding'[2] \subseteq finding'[1]
        /\ OneSearch => finding'[1] = {} /\ finding'[2] = {}
    BY <2>1, <1>0, RemovedLeaves
  <2> QED
    BY <2>2, <2>3, <1>0 DEF SearchInv, SearchTypes, OneSearch
<1>7. CASE HideResults \/ ShowResults
  BY <1>7, <1>0 DEF HideResults, ShowResults, SearchInv, SearchTypes, OneSearch, Current
<1>8. CASE UNCHANGED searchVars
  BY <1>8, <1>0 DEF searchVars, SearchInv, SearchTypes, OneSearch, Current
<1> QED
  BY <1>1, <1>2, <1>3, <1>4, <1>5, <1>6, <1>7, <1>8 DEF SearchNext

(***************************************************************************)
(* Results that are kept with nothing under way are those of the text and *)
(* the category that are shown, unless the last search crossed another or *)
(* was not of that text and category, for any texts and categories.       *)
(***************************************************************************)
THEOREM ResultsAlwaysAnswerInput == SearchSpec => []ResultsAnswerInput
<1>1. SearchInv => ResultsAnswerInput
  BY DEF SearchInv, OneSearch, ResultsAnswerInput, Idle1, Current
<1> QED
  BY SearchStarts, SearchKeeps, <1>1, PTL DEF SearchSpec

(***************************************************************************)
(* What is asked for, kept and shown are searches: no text that is too    *)
(* short is ever sent.                                                     *)
(***************************************************************************)
THEOREM SearchTypeCorrect == SearchSpec => []SearchTypeOK
<1>1. SearchInv => SearchTypeOK
  BY DEF SearchInv, SearchTypes, SearchTypeOK, LongSearch, Search
<1> QED
  BY SearchStarts, SearchKeeps, <1>1, PTL DEF SearchSpec

-----------------------------------------------------------------------------
(***************************************************************************)
(* What was once removed is never a favorite again, in any number of tabs.*)
(***************************************************************************)
THEOREM FavoriteRemovedForGood == FavSpec => RemovedForGood
<1>1. ASSUME [FavNext]_favVars, favRow = "removed" PROVE favRow' = "removed"
  <2> USE <1>1
  <2>1. ASSUME NEW t \in FavTabs,
               OpenView(t) \/ CloseView(t) \/ ToggleHeart(t) \/ RemoveListed(t)
        PROVE  favRow' = favRow
    BY <2>1 DEF OpenView, CloseView, ToggleHeart, RemoveListed
  <2>2. ASSUME NEW k \in 1..asked,
               \/ ReadFavorite(k) \/ AnswerFavorite(k)
               \/ RefusedFavorite(k) \/ LoseFavorite(k)
        PROVE  favRow' = favRow
    BY <2>2 DEF ReadFavorite, AnswerFavorite, RefusedFavorite, LoseFavorite
  <2>3. ASSUME NEW k \in 1..asked, WriteFavorite(k)
        PROVE  favRow' = favRow
    BY <2>3 DEF WriteFavorite, RemoveRow, KeyFree
  <2> QED
    BY <2>1, <2>2, <2>3 DEF FavNext, favVars
<1> QED
  BY <1>1, PTL DEF FavSpec, RemovedForGood

-----------------------------------------------------------------------------
(***************************************************************************)
(* The favorites.  A question that waits belongs to the page of its tab,  *)
(* which has one list at most under way, and a button that is off waits   *)
(* for a toggle.  A heart without doubt has one answer on the way, which  *)
(* is what is stored, or none, and then shows it or is still to ask; a    *)
(* list without doubt shows what is stored, or will take a list that says *)
(* it, or will ask for one.                                                *)
(***************************************************************************)
Stored == favRow = "live"
Mine(k, t) == asks[k].mine /\ asks[k].tab = t
Is(k, kind, stage) == asks[k].kind = kind /\ asks[k].stage = stage

FavShapes ==
    /\ favRow \in {"none", "live", "removed"}
    /\ favTabs \in [FavTabs -> FavTab]
    /\ asked \in 0..MaxAsks
    /\ asks \in [1..asked -> FavAsk]
    /\ lostAsks \in 0..MaxLost

AskFits(k) ==
    /\ asks[k].stage = "over" => ~asks[k].mine
    /\ asks[k].kind # "toggle" => asks[k].stage \in {"sent", "answer", "over"}

WaitingFits(t) ==
    \A k \in 1..asked : Mine(k, t) =>
        \/ favTabs[t].view = "heart" /\ asks[k].kind \in {"check", "toggle"}
        \/ favTabs[t].view = "list" /\ asks[k].kind \in {"list", "toggle"}

ListAlone(t) ==
    \A j, k \in 1..asked :
        Mine(j, t) /\ asks[j].kind = "list" /\ Mine(k, t) /\ asks[k].kind = "list" => j = k

ButtonFits(t) ==
    favTabs[t].loading = TRUE =>
        /\ favTabs[t].view = "heart"
        /\ \E k \in 1..asked : Mine(k, t) /\ asks[k].kind = "toggle"

HeartFits(t) ==
    favTabs[t].view = "heart" /\ favTabs[t].doubt = FALSE =>
        /\ \A j, k \in 1..asked :
              Mine(j, t) /\ asks[j].stage = "answer" /\ Mine(k, t) /\ asks[k].stage = "answer"
              => j = k
        /\ \A k \in 1..asked : Mine(k, t) /\ asks[k].stage = "answer" => asks[k].saw = Stored
        /\ \/ \E k \in 1..asked : Mine(k, t) /\ asks[k].stage = "answer"
           \/ \E k \in 1..asked : Mine(k, t) /\ Is(k, "check", "sent")
           \/ favTabs[t].shown = Stored

ListFits(t) ==
    favTabs[t].view = "list" /\ favTabs[t].doubt = FALSE =>
        \/ \E k \in 1..asked : Mine(k, t) /\ Is(k, "toggle", "answer")
        \/ \E k \in 1..asked : Mine(k, t) /\ Is(k, "list", "sent")
        \/ \E k \in 1..asked : Mine(k, t) /\ Is(k, "list", "answer") /\ asks[k].saw = Stored
        \/ /\ \A k \in 1..asked : Mine(k, t) => asks[k].kind # "list"
           /\ favTabs[t].shown = Stored

TabFits(t) ==
    WaitingFits(t) /\ ListAlone(t) /\ ButtonFits(t) /\ HeartFits(t) /\ ListFits(t)

FavInv ==
    /\ FavShapes
    /\ \A k \in 1..asked : AskFits(k)
    /\ \A t \in FavTabs : TabFits(t)

(***************************************************************************)
(* No page is open, nothing was asked.                                    *)
(***************************************************************************)
LEMMA FavStarts == FavInit => FavInv
<1> SUFFICES ASSUME FavInit PROVE FavInv
  OBVIOUS
<1>1. asked = 0 /\ 1..asked = {} /\ 0 \in 0..MaxAsks /\ 0 \in 0..MaxLost
  BY FavoritesAssumption DEF FavInit
<1>2. asks \in [1..asked -> FavAsk]
  BY <1>1 DEF FavInit
<1>3. favTabs \in [FavTabs -> FavTab] /\ \A t \in FavTabs : favTabs[t] = Closed
  BY DEF FavInit, FavTab, Closed
<1>4. FavShapes
  BY <1>1, <1>2, <1>3 DEF FavInit, FavShapes
<1>5. Closed.view = "none" /\ Closed.loading = FALSE
  BY DEF Closed
<1>6. \A t \in FavTabs : favTabs[t].view = "none" /\ favTabs[t].loading = FALSE
  BY <1>3, <1>5
<1> QED
  BY <1>1, <1>4, <1>6
     DEF FavInv, TabFits, WaitingFits, ListAlone, ButtonFits, HeartFits, ListFits

(***************************************************************************)
(* A request that is made is the newest; the others are as they were left.*)
(***************************************************************************)
LEMMA PostAdds ==
    ASSUME FavShapes, NEW old \in [1..asked -> FavAsk], NEW t \in FavTabs,
           NEW kind \in {"check", "toggle", "list"}, Post(old, t, kind)
    PROVE  /\ asked' \in 0..MaxAsks /\ asked' \in 1..asked'
           /\ asks' \in [1..asked' -> FavAsk]
           /\ asks'[asked'].tab = t /\ asks'[asked'].kind = kind
           /\ asks'[asked'].mine = TRUE /\ asks'[asked'].stage = "sent"
           /\ \A k \in 1..asked : k \in 1..asked' /\ k # asked' /\ asks'[k] = old[k]
           /\ \A k \in 1..asked' : k = asked' \/ k \in 1..asked
<1> USE DEF FavShapes, Post
<1>1. asked' \in 0..MaxAsks /\ asked' = asked + 1 /\ asked \in Nat
  BY FavoritesAssumption
<1>2. \A k \in 1..asked : k \in 1..asked' /\ k # asked'
  BY <1>1
<1>3. \A k \in 1..asked' : k = asked' \/ k \in 1..asked
  BY <1>1
<1>4. /\ NewAsk(t, kind) \in FavAsk
      /\ NewAsk(t, kind).tab = t /\ NewAsk(t, kind).kind = kind
      /\ NewAsk(t, kind).mine = TRUE /\ NewAsk(t, kind).stage = "sent"
  BY DEF NewAsk, FavAsk
<1>5. asked' \in 1..asked'
  BY <1>1
<1> QED
  BY <1>1, <1>2, <1>3, <1>4, <1>5

(***************************************************************************)
(* A request that is over waits for nothing; the others do not change.    *)
(***************************************************************************)
LEMMA FinishedEnds ==
    ASSUME FavShapes, NEW k \in 1..asked
    PROVE  /\ Finished(k) \in [1..asked -> FavAsk]
           /\ Finished(k)[k].stage = "over" /\ Finished(k)[k].mine = FALSE
           /\ Finished(k)[k].kind = asks[k].kind /\ Finished(k)[k].tab = asks[k].tab
           /\ \A i \in 1..asked : i # k => Finished(k)[i] = asks[i]
BY DEF FavShapes, Finished, FavAsk

(***************************************************************************)
(* A tab whose page and waiting requests a step leaves alone still fits,  *)
(* if the step changes what is stored only for tabs it puts in doubt.     *)
(***************************************************************************)
LEMMA OtherTab ==
    ASSUME NEW t \in FavTabs, TabFits(t),
           favTabs'[t].view = favTabs[t].view,
           favTabs'[t].shown = favTabs[t].shown,
           favTabs'[t].loading = favTabs[t].loading,
           favTabs[t].view # "none" /\ favTabs'[t].doubt = FALSE
               => favTabs[t].doubt = FALSE /\ favRow' = favRow,
           \A k \in 1..asked : Mine(k, t) => k \in 1..asked' /\ asks'[k] = asks[k],
           \A k \in 1..asked' : Mine(k, t)' => k \in 1..asked /\ asks'[k] = asks[k]
    PROVE  TabFits(t)'
<1>1. \A k \in 1..asked : Mine(k, t) => k \in 1..asked' /\ Mine(k, t)'
  BY DEF Mine
<1>2. \A k \in 1..asked' : Mine(k, t)' => k \in 1..asked /\ Mine(k, t)
  BY DEF Mine
<1> USE DEF TabFits
<1>3. WaitingFits(t)'
  BY <1>1, <1>2 DEF WaitingFits
<1>4. ListAlone(t)'
  <2> SUFFICES ASSUME NEW j \in 1..asked', NEW k \in 1..asked',
                      Mine(j, t)', asks'[j].kind = "list", Mine(k, t)', asks'[k].kind = "list"
               PROVE  j = k
    BY DEF ListAlone
  <2>1. /\ j \in 1..asked /\ Mine(j, t) /\ asks[j].kind = "list"
        /\ k \in 1..asked /\ Mine(k, t) /\ asks[k].kind = "list"
    BY <1>2
  <2> QED
    BY <2>1 DEF ListAlone
<1>5. ButtonFits(t)'
  BY <1>1, <1>2 DEF ButtonFits
<1>6. HeartFits(t)'
  <2> SUFFICES ASSUME favTabs'[t].view = "heart", favTabs'[t].doubt = FALSE
               PROVE  HeartFits(t)'
    BY DEF HeartFits
  <2>1. favTabs[t].view = "heart" /\ favTabs[t].doubt = FALSE /\ Stored' = Stored
    BY DEF Stored
  <2>2. ASSUME NEW j \in 1..asked', NEW k \in 1..asked',
               Mine(j, t)', asks'[j].stage = "answer", Mine(k, t)', asks'[k].stage = "answer"
        PROVE  j = k /\ asks'[k].saw = Stored
    <3>1. /\ j \in 1..asked /\ Mine(j, t) /\ asks[j].stage = "answer"
          /\ k \in 1..asked /\ Mine(k, t) /\ asks[k].stage = "answer"
      BY <1>2, <2>2
    <3> QED
      BY <2>1, <2>2, <3>1 DEF HeartFits
  <2>3. \/ \E k \in 1..asked' : Mine(k, t)' /\ asks'[k].stage = "answer"
        \/ \E k \in 1..asked' : Mine(k, t)' /\ Is(k, "check", "sent")'
        \/ favTabs'[t].shown = Stored
    BY <1>1, <2>1 DEF HeartFits, Is
  <2> QED
    BY <2>1, <2>2, <2>3 DEF HeartFits
<1>7. ListFits(t)'
  <2> SUFFICES ASSUME favTabs'[t].view = "list", favTabs'[t].doubt = FALSE
               PROVE  ListFits(t)'
    BY DEF ListFits
  <2> QED
    BY <1>1, <1>2 DEF ListFits, Stored, Is
<1> QED
  BY <1>3, <1>4, <1>5, <1>6, <1>7

(***************************************************************************)
(* Opening the heart asks once; opening the list may ask, in doubt.       *)
(***************************************************************************)
LEMMA FavOpens ==
    ASSUME FavInv, NEW t \in FavTabs, OpenView(t)
    PROVE  FavInv'
<1> USE DEF FavInv
<1>1. \A k \in 1..asked : ~Mine(k, t)
  BY DEF TabFits, WaitingFits, OpenView
<1>2. favRow' = favRow /\ lostAsks' = lostAsks
  BY DEF OpenView
<1>3. asks \in [1..asked -> FavAsk] /\ favTabs[t] \in FavTab
  BY DEF FavShapes
<1>4. favTabs[t].loading = FALSE
  BY <1>3 DEF TabFits, ButtonFits, OpenView, FavTab
<1>5. PICK kind \in {"check", "list"} :
         /\ favTabs' \in [FavTabs -> FavTab]
         /\ \A u \in FavTabs : u # t => favTabs'[u] = favTabs[u]
         /\ favTabs'[t].loading = favTabs[t].loading
         /\ kind = "check" => favTabs'[t].view = "heart" /\ Post(asks, t, kind)
         /\ kind = "list" => /\ favTabs'[t].view = "list" /\ favTabs'[t].doubt = TRUE
                             /\ Post(asks, t, kind) \/ UNCHANGED <<asks, asked>>
  <2>1. CASE favTabs' = [favTabs EXCEPT ![t].view = "heart"] /\ Post(asks, t, "check")
    <3>1. /\ favTabs' \in [FavTabs -> FavTab]
          /\ \A u \in FavTabs : u # t => favTabs'[u] = favTabs[u]
          /\ favTabs'[t].loading = favTabs[t].loading /\ favTabs'[t].view = "heart"
      BY <1>3, <2>1 DEF FavShapes, FavTab
    <3> QED
      BY <2>1, <3>1
  <2>2. CASE /\ favTabs' = [favTabs EXCEPT ![t].view = "list", ![t].doubt = TRUE,
                                           ![t].shown = favTabs[t].cached = "in"]
             /\ Post(asks, t, "list") \/ UNCHANGED <<asks, asked>>
    <3>1. /\ favTabs' \in [FavTabs -> FavTab]
          /\ \A u \in FavTabs : u # t => favTabs'[u] = favTabs[u]
          /\ favTabs'[t].loading = favTabs[t].loading /\ favTabs'[t].view = "list"
          /\ favTabs'[t].doubt = TRUE
      BY <1>3, <2>2 DEF FavShapes, FavTab
    <3> QED
      BY <2>2, <3>1
  <2> QED
    BY <2>1, <2>2 DEF OpenView
<1>6. CASE UNCHANGED <<asks, asked>>
  <2>1. FavShapes' /\ \A k \in 1..asked' : AskFits(k)'
    BY <1>2, <1>5, <1>6 DEF FavShapes, AskFits
  <2>2. ASSUME NEW u \in FavTabs, u # t PROVE TabFits(u)'
    BY <1>2, <1>5, <1>6, <2>2, OtherTab DEF Mine
  <2>3. favTabs'[t].view # "heart" \/ favTabs'[t].doubt = TRUE \/ kind = "check"
    BY <1>5
  <2>4. kind = "list"
    BY <1>5, <1>6 DEF Post, FavShapes
  <2>5. TabFits(t)'
    BY <1>1, <1>4, <1>5, <1>6, <2>4
       DEF TabFits, WaitingFits, ListAlone, ButtonFits, HeartFits, ListFits, Mine
  <2> QED
    BY <2>1, <2>2, <2>5
<1>7. CASE Post(asks, t, kind)
  <2>1. /\ asked' \in 0..MaxAsks /\ asked' \in 1..asked'
        /\ asks' \in [1..asked' -> FavAsk]
        /\ asks'[asked'].tab = t /\ asks'[asked'].kind = kind
        /\ asks'[asked'].mine = TRUE /\ asks'[asked'].stage = "sent"
        /\ \A k \in 1..asked : k \in 1..asked' /\ k # asked' /\ asks'[k] = asks[k]
        /\ \A k \in 1..asked' : k = asked' \/ k \in 1..asked
    BY <1>3, <1>7, PostAdds
  <2>2. FavShapes'
    BY <1>2, <1>5, <2>1 DEF FavShapes
  <2>3. \A k \in 1..asked' : AskFits(k)'
    BY <1>7, <2>1 DEF AskFits
  <2>4. ASSUME NEW u \in FavTabs, u # t PROVE TabFits(u)'
    <3>1. /\ \A k \in 1..asked : Mine(k, u) => k \in 1..asked' /\ asks'[k] = asks[k]
          /\ \A k \in 1..asked' : Mine(k, u)' => k \in 1..asked /\ asks'[k] = asks[k]
      BY <2>1, <2>4 DEF Mine
    <3> QED
      BY <1>2, <1>5, <2>4, <3>1, OtherTab
  <2>5. \A k \in 1..asked' : Mine(k, t)' => k = asked'
    BY <1>1, <2>1 DEF Mine
  <2>6. asks'[asked'].mine /\ asks'[asked'].tab = t
    BY <2>1
  <2>7. WaitingFits(t)'
    BY <1>5, <2>1, <2>5 DEF WaitingFits
  <2>8. ListAlone(t)'
    <3> SUFFICES ASSUME NEW j \in 1..asked', NEW k \in 1..asked', Mine(j, t)', Mine(k, t)'
                 PROVE  j = k
      BY DEF ListAlone
    <3> QED
      BY <2>5
  <2>9. ButtonFits(t)'
    BY <1>4, <1>5 DEF ButtonFits
  <2>10. HeartFits(t)'
    <3> SUFFICES ASSUME favTabs'[t].view = "heart" PROVE HeartFits(t)'
      BY DEF HeartFits
    <3>1. kind = "check"
      BY <1>5
    <3>2. \E k \in 1..asked' : Mine(k, t)' /\ Is(k, "check", "sent")'
      BY <2>1, <2>6, <3>1 DEF Mine, Is
    <3>3. \A k \in 1..asked' : Mine(k, t)' => asks'[k].stage # "answer"
      BY <2>1, <2>5
    <3> QED
      BY <3>2, <3>3 DEF HeartFits
  <2>11. ListFits(t)'
    <3> SUFFICES ASSUME favTabs'[t].view = "list" PROVE ListFits(t)'
      BY DEF ListFits
    <3>1. kind = "list"
      BY <1>5
    <3>2. \E k \in 1..asked' : Mine(k, t)' /\ Is(k, "list", "sent")'
      BY <2>1, <2>6, <3>1 DEF Mine, Is
    <3> QED
      BY <3>2 DEF ListFits
  <2> QED
    BY <2>2, <2>3, <2>4, <2>7, <2>8, <2>9, <2>10, <2>11 DEF TabFits
<1> QED
  BY <1>5, <1>6, <1>7

(***************************************************************************)
(* A page that goes leaves nothing that waits for it.                     *)
(***************************************************************************)
LEMMA FavCloses ==
    ASSUME FavInv, NEW t \in FavTabs, CloseView(t)
    PROVE  FavInv'
<1> USE DEF FavInv
<1>1. UNCHANGED <<favRow, asked, lostAsks>>
  BY DEF CloseView
<1>2. favTabs[t] \in FavTab
  BY DEF FavShapes
<1>3. /\ favTabs' \in [FavTabs -> FavTab]
      /\ favTabs'[t].view = "none" /\ favTabs'[t].loading = FALSE
      /\ \A u \in FavTabs : u # t => favTabs'[u] = favTabs[u]
  BY <1>2 DEF FavShapes, FavTab, CloseView, Closed
<1>4. \A k \in 1..asked :
        /\ asks'[k] \in FavAsk /\ asks'[k].tab = asks[k].tab
        /\ asks'[k].kind = asks[k].kind
        /\ asks[k].tab # t => asks'[k] = asks[k]
        /\ asks[k].tab = t => asks'[k].mine = FALSE /\ asks'[k].stage \in {asks[k].stage, "over"}
  BY FinishedEnds DEF CloseView, Abandoned, FavShapes, FavAsk
<1>5. asks' \in [1..asked' -> FavAsk]
  BY <1>1, <1>4 DEF CloseView, Abandoned
<1>6. FavShapes'
  BY <1>1, <1>3, <1>5 DEF FavShapes
<1>7. \A k \in 1..asked' : AskFits(k)'
  BY <1>1, <1>4 DEF AskFits
<1>8. ASSUME NEW u \in FavTabs, u # t PROVE TabFits(u)'
  <2>1. /\ \A k \in 1..asked : Mine(k, u) => k \in 1..asked' /\ asks'[k] = asks[k]
        /\ \A k \in 1..asked' : Mine(k, u)' => k \in 1..asked /\ asks'[k] = asks[k]
    BY <1>1, <1>4, <1>8 DEF Mine
  <2> QED
    BY <1>1, <1>3, <1>8, <2>1, OtherTab
<1>9. TabFits(t)'
  <2>1. \A k \in 1..asked' : ~Mine(k, t)'
    BY <1>1, <1>4 DEF Mine
  <2> QED
    BY <1>3, <2>1 DEF TabFits, WaitingFits, ListAlone, ButtonFits, HeartFits, ListFits
<1> QED
  BY <1>6, <1>7, <1>8, <1>9

(***************************************************************************)
(* A toggle is sent from a page that is open; a heart's button goes off.  *)
(***************************************************************************)
LEMMA FavToggles ==
    ASSUME FavInv, NEW t \in FavTabs, ToggleHeart(t) \/ RemoveListed(t)
    PROVE  FavInv'
<1> USE DEF FavInv
<1>1. /\ favTabs[t] \in FavTab /\ favTabs[t].view \in {"heart", "list"}
      /\ UNCHANGED <<favRow, lostAsks>> /\ asks \in [1..asked -> FavAsk]
  BY DEF FavShapes, ToggleHeart, RemoveListed
<1>2. /\ favTabs' \in [FavTabs -> FavTab]
      /\ \A u \in FavTabs : u # t => favTabs'[u] = favTabs[u]
      /\ favTabs'[t].view = favTabs[t].view /\ favTabs'[t].shown = favTabs[t].shown
      /\ favTabs'[t].doubt = favTabs[t].doubt
      /\ favTabs'[t].loading = favTabs[t].loading \/ favTabs[t].view = "heart"
  BY <1>1 DEF FavShapes, FavTab, ToggleHeart, RemoveListed
<1>3. /\ asked' \in 0..MaxAsks /\ asked' \in 1..asked'
      /\ asks' \in [1..asked' -> FavAsk]
      /\ asks'[asked'].tab = t /\ asks'[asked'].kind = "toggle"
      /\ asks'[asked'].mine = TRUE /\ asks'[asked'].stage = "sent"
      /\ \A k \in 1..asked : k \in 1..asked' /\ k # asked' /\ asks'[k] = asks[k]
      /\ \A k \in 1..asked' : k = asked' \/ k \in 1..asked
  BY <1>1, PostAdds DEF ToggleHeart, RemoveListed
<1>6. FavShapes'
  BY <1>1, <1>2, <1>3 DEF FavShapes
<1>7. \A k \in 1..asked' : AskFits(k)'
  BY <1>3 DEF AskFits
<1>8. ASSUME NEW u \in FavTabs, u # t PROVE TabFits(u)'
  <2>1. /\ \A k \in 1..asked : Mine(k, u) => k \in 1..asked' /\ asks'[k] = asks[k]
        /\ \A k \in 1..asked' : Mine(k, u)' => k \in 1..asked /\ asks'[k] = asks[k]
    BY <1>3, <1>8 DEF Mine
  <2> QED
    BY <1>1, <1>2, <1>8, <2>1, OtherTab
<1>9. /\ \A k \in 1..asked : Mine(k, t) => k \in 1..asked' /\ Mine(k, t)' /\ asks'[k] = asks[k]
      /\ \A k \in 1..asked' : Mine(k, t)' /\ k # asked'
                              => k \in 1..asked /\ Mine(k, t) /\ asks'[k] = asks[k]
  <2>1. ASSUME NEW k \in 1..asked, Mine(k, t)
        PROVE  k \in 1..asked' /\ Mine(k, t)' /\ asks'[k] = asks[k]
    BY <1>3, <2>1 DEF Mine
  <2>2. ASSUME NEW k \in 1..asked', Mine(k, t)', k # asked'
        PROVE  k \in 1..asked /\ Mine(k, t) /\ asks'[k] = asks[k]
    <3>1. k \in 1..asked
      BY <1>3, <2>2
    <3> QED
      BY <1>3, <2>2, <3>1 DEF Mine
  <2> QED
    BY <2>1, <2>2
<1>10. \E k \in 1..asked' : Mine(k, t)' /\ asks'[k].kind = "toggle"
  BY <1>3 DEF Mine
<1>11. Stored' = Stored
  BY <1>1 DEF Stored
<1> USE DEF TabFits
<1>12. WaitingFits(t)'
  BY <1>1, <1>2, <1>3, <1>9 DEF WaitingFits
<1>13. ListAlone(t)'
  <2> SUFFICES ASSUME NEW j \in 1..asked', NEW k \in 1..asked',
                      Mine(j, t)', asks'[j].kind = "list", Mine(k, t)', asks'[k].kind = "list"
               PROVE  j = k
    BY DEF ListAlone
  <2>1. /\ j \in 1..asked /\ Mine(j, t) /\ asks[j].kind = "list"
        /\ k \in 1..asked /\ Mine(k, t) /\ asks[k].kind = "list"
    BY <1>3, <1>9
  <2> QED
    BY <2>1 DEF ListAlone
<1>14. ButtonFits(t)'
  BY <1>2, <1>10 DEF ButtonFits
<1>15. HeartFits(t)'
  <2> SUFFICES ASSUME favTabs'[t].view = "heart", favTabs'[t].doubt = FALSE
               PROVE  HeartFits(t)'
    BY DEF HeartFits
  <2>1. favTabs[t].view = "heart" /\ favTabs[t].doubt = FALSE
    BY <1>2
  <2>2. ASSUME NEW j \in 1..asked', NEW k \in 1..asked',
               Mine(j, t)', asks'[j].stage = "answer", Mine(k, t)', asks'[k].stage = "answer"
        PROVE  j = k /\ asks'[k].saw = Stored
    <3>1. /\ j \in 1..asked /\ Mine(j, t) /\ asks[j].stage = "answer"
          /\ k \in 1..asked /\ Mine(k, t) /\ asks[k].stage = "answer"
      BY <1>3, <1>9, <2>2
    <3> QED
      BY <2>1, <2>2, <1>9, <3>1 DEF HeartFits
  <2>3. \/ \E k \in 1..asked' : Mine(k, t)' /\ asks'[k].stage = "answer"
        \/ \E k \in 1..asked' : Mine(k, t)' /\ Is(k, "check", "sent")'
        \/ favTabs'[t].shown = Stored
    BY <1>2, <1>9, <2>1 DEF HeartFits, Is
  <2> QED
    BY <1>11, <2>2, <2>3 DEF HeartFits
<1>16. ListFits(t)'
  <2> SUFFICES ASSUME favTabs'[t].view = "list", favTabs'[t].doubt = FALSE
               PROVE  ListFits(t)'
    BY DEF ListFits
  <2>1. favTabs[t].view = "list" /\ favTabs[t].doubt = FALSE
    BY <1>2
  <2>2. CASE (\A k \in 1..asked : Mine(k, t) => asks[k].kind # "list") /\ favTabs[t].shown = Stored
    <3>1. \A k \in 1..asked' : Mine(k, t)' => asks'[k].kind # "list"
      BY <1>3, <1>9, <2>2
    <3> QED
      BY <1>2, <1>11, <2>2, <3>1 DEF ListFits
  <2>3. CASE \E k \in 1..asked : Mine(k, t) /\ Is(k, "toggle", "answer")
    BY <1>9, <2>3 DEF ListFits, Is
  <2>4. CASE \E k \in 1..asked : Mine(k, t) /\ Is(k, "list", "sent")
    BY <1>9, <2>4 DEF ListFits, Is
  <2>5. CASE \E k \in 1..asked : Mine(k, t) /\ Is(k, "list", "answer") /\ asks[k].saw = Stored
    BY <1>9, <1>11, <2>5 DEF ListFits, Is
  <2> QED
    BY <2>1, <2>2, <2>3, <2>4, <2>5 DEF ListFits
<1> QED
  BY <1>6, <1>7, <1>8, <1>12, <1>13, <1>14, <1>15, <1>16

(***************************************************************************)
(* The handler changes the stage of one request and what it saw.          *)
(***************************************************************************)
LEMMA AdvancedIs ==
    ASSUME FavShapes, NEW k \in 1..asked, NEW stage \in {"sent", "read", "answer", "refused"},
           NEW saw \in BOOLEAN, Advanced(k, stage, saw)
    PROVE  /\ asks' \in [1..asked -> FavAsk]
           /\ asks'[k].stage = stage /\ asks'[k].saw = saw /\ asks'[k].mine = asks[k].mine
           /\ asks'[k].kind = asks[k].kind /\ asks'[k].tab = asks[k].tab
           /\ asks[k].tab \in FavTabs /\ asks[k].mine \in BOOLEAN
           /\ \A i \in 1..asked : i # k => asks'[i] = asks[i]
BY DEF FavShapes, Advanced, FavAsk

(***************************************************************************)
(* Of a heart whose answer is promised, no other answer is on the way.    *)
(***************************************************************************)
LEMMA PromisedAlone ==
    ASSUME NEW k \in 1..asked, Promised(k), favTabs[asks[k].tab].view = "heart",
           NEW j \in 1..asked, Mine(j, asks[k].tab), asks[j].stage = "answer"
    PROVE  j = k
BY DEF Promised, Mine

(***************************************************************************)
(* What is read is what the tab will be told, if nothing else is coming.  *)
(***************************************************************************)
LEMMA FavReads ==
    ASSUME FavInv, NEW k \in 1..asked, ReadFavorite(k)
    PROVE  FavInv'
<1> USE DEF FavInv
<1>0. PICK t \in FavTabs : t = asks[k].tab
  BY DEF FavShapes, FavAsk
<1> DEFINE stage == IF asks[k].kind = "toggle" THEN "read" ELSE "answer"
<1>1. UNCHANGED <<favRow, asked, lostAsks>> /\ asks[k].stage = "sent"
  BY DEF ReadFavorite
<1>2. /\ asks' \in [1..asked -> FavAsk]
      /\ asks'[k].stage = stage /\ asks'[k].saw = Stored /\ asks'[k].mine = asks[k].mine
      /\ asks'[k].kind = asks[k].kind /\ asks'[k].tab = t /\ asks[k].mine \in BOOLEAN
      /\ \A i \in 1..asked : i # k => asks'[i] = asks[i]
  BY <1>0, AdvancedIs DEF ReadFavorite, Stored
<1>3. /\ favTabs' \in [FavTabs -> FavTab]
      /\ \A u \in FavTabs : u # t => favTabs'[u] = favTabs[u]
      /\ favTabs'[t].view = favTabs[t].view /\ favTabs'[t].shown = favTabs[t].shown
      /\ favTabs'[t].loading = favTabs[t].loading
      /\ asks[k].mine = FALSE \/ asks[k].kind = "toggle" => favTabs'[t] = favTabs[t]
      /\ asks[k].mine = TRUE /\ asks[k].kind # "toggle" => favTabs'[t].doubt = ~Promised(k)
  BY <1>0, <1>2 DEF ReadFavorite, FavShapes, FavTab
<1>6. FavShapes'
  BY <1>1, <1>2, <1>3 DEF FavShapes
<1>7. \A i \in 1..asked' : AskFits(i)'
  BY <1>1, <1>2 DEF AskFits
<1>8. ASSUME NEW u \in FavTabs, u # t \/ asks[k].mine = FALSE PROVE TabFits(u)'
  <2>1. /\ \A i \in 1..asked : Mine(i, u) => i \in 1..asked' /\ asks'[i] = asks[i]
        /\ \A i \in 1..asked' : Mine(i, u)' => i \in 1..asked /\ asks'[i] = asks[i]
    BY <1>0, <1>1, <1>2, <1>8 DEF Mine
  <2> QED
    BY <1>1, <1>3, <1>8, <2>1, OtherTab
<1>9. ASSUME asks[k].mine = TRUE PROVE TabFits(t)'
  <2>1. \A i \in 1..asked : /\ Mine(i, t)' <=> Mine(i, t)
                            /\ asks'[i].kind = asks[i].kind
                            /\ i # k => asks'[i] = asks[i]
    BY <1>0, <1>2 DEF Mine
  <2>2. Mine(k, t) /\ Mine(k, t)' /\ Stored' = Stored
    BY <1>0, <1>1, <1>2, <1>9 DEF Mine, Stored
  <2> HIDE DEF stage
  <2>3. TabFits(t)
    OBVIOUS
  <2> USE DEF TabFits
  <2>4. WaitingFits(t)'
    BY <1>1, <1>3, <2>1, <2>3 DEF WaitingFits
  <2>5. ListAlone(t)'
    BY <1>1, <2>1, <2>3 DEF ListAlone
  <2>6. ButtonFits(t)'
    BY <1>1, <1>3, <2>1, <2>3 DEF ButtonFits
  <2>7. CASE asks[k].kind = "toggle"
    <3>1. stage = "read" /\ favTabs'[t] = favTabs[t]
      BY <1>3, <2>7 DEF stage
    <3>2. \A i \in 1..asked : asks'[i].stage = "answer" <=> asks[i].stage = "answer" /\ i # k
      BY <1>1, <1>2, <2>1, <3>1
    <3>3. \A i \in 1..asked : i = k => asks[i].kind = "toggle" /\ asks[i].stage = "sent"
      BY <1>1, <2>7
    <3>4. HeartFits(t)'
      <4> SUFFICES ASSUME favTabs'[t].view = "heart", favTabs'[t].doubt = FALSE
                   PROVE  HeartFits(t)'
        BY DEF HeartFits
      <4> QED
        BY <1>1, <2>1, <2>2, <2>3, <3>1, <3>2, <3>3 DEF HeartFits, Is
    <3>5. ListFits(t)'
      <4> SUFFICES ASSUME favTabs'[t].view = "list", favTabs'[t].doubt = FALSE
                   PROVE  ListFits(t)'
        BY DEF ListFits
      <4> QED
        BY <1>1, <2>1, <2>2, <2>3, <3>1, <3>2, <3>3 DEF ListFits, Is
    <3> QED
      BY <2>4, <2>5, <2>6, <3>4, <3>5
  <2>8. CASE asks[k].kind # "toggle"
    <3>1. stage = "answer" /\ (favTabs'[t].doubt = FALSE => Promised(k))
      BY <1>3, <1>9, <2>8 DEF stage
    <3>2. HeartFits(t)'
      <4> SUFFICES ASSUME favTabs'[t].view = "heart", favTabs'[t].doubt = FALSE
                   PROVE  HeartFits(t)'
        BY DEF HeartFits
      <4>1. \A i \in 1..asked : Mine(i, t) /\ asks[i].stage = "answer" => i = k
        BY <1>0, <1>3, <3>1, PromisedAlone
      <4>2. \A i \in 1..asked' : Mine(i, t)' /\ asks'[i].stage = "answer" => i = k
        BY <1>1, <2>1, <4>1
      <4> QED
        BY <1>1, <1>2, <2>2, <3>1, <4>2 DEF HeartFits
    <3>3. ListFits(t)'
      <4> SUFFICES ASSUME favTabs'[t].view = "list"
                   PROVE  ListFits(t)'
        BY DEF ListFits
      <4>1. asks[k].kind = "list"
        BY <1>3, <2>2, <2>3, <2>8 DEF WaitingFits
      <4> QED
        BY <1>1, <1>2, <2>1, <2>2, <3>1, <4>1 DEF ListFits, Is
    <3> QED
      BY <2>4, <2>5, <2>6, <3>2, <3>3
  <2> QED
    BY <2>7, <2>8
<1> QED
  BY <1>2, <1>6, <1>7, <1>8, <1>9

(***************************************************************************)
(* What is written is what the tab will be told; the other tabs that are  *)
(* open are in doubt when it changed what is stored.                      *)
(***************************************************************************)
LEMMA FavWrites ==
    ASSUME FavInv, NEW k \in 1..asked, WriteFavorite(k)
    PROVE  FavInv'
<1> USE DEF FavInv
<1>0. PICK t \in FavTabs : t = asks[k].tab
  BY DEF FavShapes, FavAsk
<1>1. /\ UNCHANGED <<asked, lostAsks>> /\ asks[k].stage = "read" /\ asks[k].kind = "toggle"
      /\ FavTold(k)
  BY DEF WriteFavorite, AskFits
<1>2. PICK stage \in {"answer", "refused"}, saw \in BOOLEAN :
         /\ Advanced(k, stage, saw) /\ favRow' \in {"none", "live", "removed"}
         /\ stage = "answer" => saw = Stored'
         /\ stage = "refused" => favRow' = favRow
  <2>1. favRow \in {"none", "live", "removed"}
    BY DEF FavShapes
  <2> QED
    BY <2>1 DEF WriteFavorite, RemoveRow, KeyFree, Stored
<1>3. /\ asks' \in [1..asked -> FavAsk]
      /\ asks'[k].stage = stage /\ asks'[k].saw = saw /\ asks'[k].mine = asks[k].mine
      /\ asks'[k].kind = "toggle" /\ asks'[k].tab = t /\ asks[k].mine \in BOOLEAN
      /\ \A i \in 1..asked : i # k => asks'[i] = asks[i]
  BY <1>0, <1>1, <1>2, AdvancedIs
<1>4. favTabs \in [FavTabs -> FavTab] /\ Promised(k) \in BOOLEAN
  BY DEF FavShapes, Promised
<1>5. ASSUME NEW u \in FavTabs
      PROVE  /\ favTabs'[u] \in FavTab
             /\ favTabs'[u].view = favTabs[u].view /\ favTabs'[u].shown = favTabs[u].shown
             /\ favTabs'[u].loading = favTabs[u].loading
             /\ u # t \/ asks[k].mine = FALSE =>
                   (favTabs[u].view # "none" /\ favTabs'[u].doubt = FALSE
                    => favTabs[u].doubt = FALSE /\ favRow' = favRow)
             /\ u = t /\ asks[k].mine = TRUE =>
                   IF favTabs[t].view = "list" \/ stage = "refused"
                   THEN favTabs'[t].doubt = favTabs[t].doubt
                   ELSE favTabs'[t].doubt = ~Promised(k)
  <2>1. favTabs[u] \in FavTab
    BY <1>4
  <2>2. CASE u = t /\ asks[k].mine = TRUE
    <3>1. favTabs'[u] = [favTabs[t] EXCEPT !.doubt =
                           IF favTabs[t].view = "list" \/ stage = "refused" THEN favTabs[t].doubt
                           ELSE ~Promised(k)]
      BY <1>0, <1>1, <1>3, <2>2 DEF FavTold
    <3> QED
      BY <1>4, <2>1, <2>2, <3>1 DEF FavTab
  <2>3. CASE ~(u = t /\ asks[k].mine = TRUE)
    <3>1. favTabs'[u] = [favTabs[u] EXCEPT !.doubt =
                           favTabs[u].doubt \/ (favRow' # favRow /\ favTabs[u].view # "none")]
      BY <1>0, <1>1, <1>3, <2>3 DEF FavTold
    <3> QED
      BY <2>1, <2>3, <3>1 DEF FavTab
  <2> QED
    BY <2>2, <2>3
<1>6. FavShapes'
  <2>1. favTabs' \in [FavTabs -> FavTab]
    BY <1>1, <1>5 DEF FavTold
  <2> QED
    BY <1>1, <1>2, <1>3, <2>1 DEF FavShapes
<1>7. \A i \in 1..asked' : AskFits(i)'
  BY <1>1, <1>3 DEF AskFits
<1>8. ASSUME NEW u \in FavTabs, u # t \/ asks[k].mine = FALSE PROVE TabFits(u)'
  <2>1. /\ \A i \in 1..asked : Mine(i, u) => i \in 1..asked' /\ asks'[i] = asks[i]
        /\ \A i \in 1..asked' : Mine(i, u)' => i \in 1..asked /\ asks'[i] = asks[i]
    BY <1>0, <1>1, <1>3, <1>8 DEF Mine
  <2>2. TabFits(u)
    OBVIOUS
  <2>3. /\ favTabs'[u].view = favTabs[u].view /\ favTabs'[u].shown = favTabs[u].shown
        /\ favTabs'[u].loading = favTabs[u].loading
        /\ favTabs[u].view # "none" /\ favTabs'[u].doubt = FALSE
              => favTabs[u].doubt = FALSE /\ favRow' = favRow
    BY <1>5, <1>8
  <2> QED
    BY <2>1, <2>2, <2>3, OtherTab
<1>9. ASSUME asks[k].mine = TRUE PROVE TabFits(t)'
  <2>1. \A i \in 1..asked : /\ Mine(i, t)' <=> Mine(i, t)
                            /\ asks'[i].kind = asks[i].kind
                            /\ i # k => asks'[i] = asks[i]
    BY <1>0, <1>1, <1>3 DEF Mine
  <2>2. Mine(k, t) /\ Mine(k, t)'
    BY <1>0, <1>3, <1>9 DEF Mine
  <2>3. TabFits(t) /\ favTabs'[t].view = favTabs[t].view /\ favTabs'[t].shown = favTabs[t].shown
        /\ favTabs'[t].loading = favTabs[t].loading
    BY <1>5
  <2> USE DEF TabFits
  <2>4. WaitingFits(t)'
    BY <1>1, <2>1, <2>3 DEF WaitingFits
  <2>5. ListAlone(t)'
    BY <1>1, <2>1, <2>3 DEF ListAlone
  <2>6. ButtonFits(t)'
    BY <1>1, <2>1, <2>3 DEF ButtonFits
  <2>7. CASE stage = "refused"
    <3>1. \A i \in 1..asked : asks'[i].stage = "answer" <=> asks[i].stage = "answer" /\ i # k
      BY <1>1, <1>3, <2>7
    <3>2. \A i \in 1..asked : i = k => asks[i].kind = "toggle" /\ asks[i].stage = "read"
      BY <1>1
    <3>3. favTabs'[t].doubt = favTabs[t].doubt /\ Stored' = Stored
      BY <1>2, <1>5, <1>9, <2>7 DEF Stored
    <3>4. HeartFits(t)'
      <4> SUFFICES ASSUME favTabs'[t].view = "heart", favTabs'[t].doubt = FALSE
                   PROVE  HeartFits(t)'
        BY DEF HeartFits
      <4> QED
        BY <1>1, <2>1, <2>2, <2>3, <3>1, <3>2, <3>3 DEF HeartFits, Is
    <3>5. ListFits(t)'
      <4> SUFFICES ASSUME favTabs'[t].view = "list", favTabs'[t].doubt = FALSE
                   PROVE  ListFits(t)'
        BY DEF ListFits
      <4> QED
        BY <1>1, <2>1, <2>2, <2>3, <3>1, <3>2, <3>3 DEF ListFits, Is
    <3> QED
      BY <2>4, <2>5, <2>6, <3>4, <3>5
  <2>8. CASE stage = "answer"
    <3>1. HeartFits(t)'
      <4> SUFFICES ASSUME favTabs'[t].view = "heart", favTabs'[t].doubt = FALSE
                   PROVE  HeartFits(t)'
        BY DEF HeartFits
      <4>1. Promised(k)
        BY <1>4, <1>5, <1>9, <2>3, <2>8
      <4>2. \A i \in 1..asked : Mine(i, t) /\ asks[i].stage = "answer" => i = k
        BY <1>0, <2>3, <4>1, PromisedAlone
      <4>3. \A i \in 1..asked' : Mine(i, t)' /\ asks'[i].stage = "answer" => i = k
        BY <1>1, <2>1, <4>2
      <4> QED
        BY <1>1, <1>2, <1>3, <2>2, <2>8, <4>3 DEF HeartFits
    <3>2. ListFits(t)'
      BY <1>1, <1>3, <2>2, <2>8 DEF ListFits, Is
    <3> QED
      BY <2>4, <2>5, <2>6, <3>1, <3>2
  <2> QED
    BY <2>7, <2>8
<1> QED
  BY <1>3, <1>6, <1>7, <1>8, <1>9

(***************************************************************************)
(* A request that ends leaves the tabs as they fit, if its own tab does:  *)
(* the one that waited for it, if one did.                                 *)
(***************************************************************************)
LEMMA FavEnds ==
    ASSUME FavInv, NEW k \in 1..asked, asks' = Finished(k),
           UNCHANGED <<favRow, asked>>, lostAsks' \in 0..MaxLost,
           favTabs' \in [FavTabs -> FavTab],
           \A u \in FavTabs : u # asks[k].tab \/ asks[k].mine = FALSE => favTabs'[u] = favTabs[u],
           NEW t \in FavTabs, t = asks[k].tab,
           favTabs'[t].view = favTabs[t].view,
           favTabs'[t].loading = TRUE =>
               favTabs[t].loading = TRUE /\ (asks[k].mine = TRUE => asks[k].kind # "toggle"),
           asks[k].mine = TRUE => HeartFits(t)' /\ ListFits(t)'
    PROVE  FavInv'
<1> USE DEF FavInv
<1>1. /\ asks' \in [1..asked -> FavAsk]
      /\ asks'[k].stage = "over" /\ asks'[k].mine = FALSE
      /\ asks'[k].kind = asks[k].kind /\ asks'[k].tab = t /\ asks[k].mine \in BOOLEAN
      /\ \A i \in 1..asked : i # k => asks'[i] = asks[i]
  BY FinishedEnds DEF FavShapes, FavAsk
<1>2. FavShapes'
  BY <1>1 DEF FavShapes
<1>3. \A i \in 1..asked' : AskFits(i)'
  BY <1>1 DEF AskFits
<1>4. ASSUME NEW u \in FavTabs, u # t \/ asks[k].mine = FALSE PROVE TabFits(u)'
  <2>1. /\ \A i \in 1..asked : Mine(i, u) => i \in 1..asked' /\ asks'[i] = asks[i]
        /\ \A i \in 1..asked' : Mine(i, u)' => i \in 1..asked /\ asks'[i] = asks[i]
    BY <1>1, <1>4 DEF Mine
  <2>2. favTabs'[u] = favTabs[u] /\ TabFits(u)
    BY <1>4
  <2> QED
    BY <2>1, <2>2, OtherTab
<1>5. ASSUME asks[k].mine = TRUE PROVE TabFits(t)'
  <2>1. /\ \A i \in 1..asked' : Mine(i, t)' => Mine(i, t) /\ asks'[i] = asks[i]
        /\ \A i \in 1..asked : Mine(i, t) /\ i # k => Mine(i, t)' /\ asks'[i] = asks[i]
    BY <1>1 DEF Mine
  <2>2. TabFits(t)
    OBVIOUS
  <2>3. WaitingFits(t)'
    BY <2>1, <2>2 DEF TabFits, WaitingFits
  <2>4. ListAlone(t)'
    BY <2>1, <2>2 DEF TabFits, ListAlone
  <2>5. ButtonFits(t)'
    BY <1>5, <2>1, <2>2 DEF TabFits, ButtonFits
  <2> QED
    BY <1>5, <2>3, <2>4, <2>5 DEF TabFits
<1> QED
  BY <1>1, <1>2, <1>3, <1>4, <1>5

(***************************************************************************)
(* A refusal and a loss are not told: a loss leaves its tab in doubt.     *)
(***************************************************************************)
LEMMA FavFails ==
    ASSUME FavInv, NEW k \in 1..asked, RefusedFavorite(k) \/ LoseFavorite(k)
    PROVE  FavInv'
<1>0. PICK t \in FavTabs : t = asks[k].tab
  BY DEF FavInv, FavShapes, FavAsk
<1>1. favTabs \in [FavTabs -> FavTab] /\ favTabs[t] \in FavTab /\ asks[k] \in FavAsk
  BY DEF FavInv, FavShapes
<1>2. /\ asks' = Finished(k) /\ UNCHANGED <<favRow, asked>> /\ lostAsks' \in 0..MaxLost
  <2>1. lostAsks' \in 0..MaxLost
    BY FavoritesAssumption DEF FavInv, FavShapes, RefusedFavorite, LoseFavorite
  <2> QED
    BY <2>1 DEF RefusedFavorite, LoseFavorite, Silence
<1>3. /\ favTabs' \in [FavTabs -> FavTab]
      /\ \A u \in FavTabs : u # t \/ asks[k].mine = FALSE => favTabs'[u] = favTabs[u]
      /\ favTabs'[t].view = favTabs[t].view /\ favTabs'[t].shown = favTabs[t].shown
      /\ favTabs'[t].loading = TRUE =>
            favTabs[t].loading = TRUE /\ (asks[k].mine = TRUE => asks[k].kind # "toggle")
      /\ \/ favTabs'[t].doubt = favTabs[t].doubt /\ asks[k].stage = "refused"
         \/ favTabs'[t].doubt = TRUE
         \/ asks[k].mine = FALSE
  <2>1. CASE asks[k].mine = FALSE
    BY <1>0, <1>1, <2>1 DEF RefusedFavorite, LoseFavorite, Silence
  <2>2. CASE asks[k].mine = TRUE /\ RefusedFavorite(k)
    <3>1. favTabs' = [favTabs EXCEPT ![t].loading = favTabs[t].loading /\ asks[k].kind # "toggle"]
      BY <1>0, <2>2 DEF RefusedFavorite, Silence
    <3> QED
      BY <1>0, <1>1, <2>2, <3>1 DEF FavTab, RefusedFavorite
  <2>3. CASE asks[k].mine = TRUE /\ LoseFavorite(k)
    <3>1. favTabs' = [favTabs EXCEPT ![t].doubt = TRUE,
                         ![t].loading = favTabs[t].loading /\ asks[k].kind # "toggle"]
      BY <1>0, <2>3 DEF LoseFavorite
    <3> QED
      BY <1>0, <1>1, <2>3, <3>1 DEF FavTab
  <2> QED
    BY <1>1, <2>1, <2>2, <2>3 DEF FavAsk
<1>4. ASSUME asks[k].mine = TRUE PROVE HeartFits(t)' /\ ListFits(t)'
  <2>1. CASE favTabs'[t].doubt = TRUE
    BY <2>1 DEF HeartFits, ListFits
  <2>2. CASE favTabs'[t].doubt = favTabs[t].doubt /\ asks[k].stage = "refused"
    <3>1. asks[k].kind = "toggle"
      BY <2>2 DEF FavInv, AskFits
    <3>2. /\ asks'[k].mine = FALSE
          /\ \A i \in 1..asked : i # k => asks'[i] = asks[i]
      BY <1>2, FinishedEnds DEF FavInv
    <3>3. /\ \A i \in 1..asked' : Mine(i, t)' => Mine(i, t) /\ asks'[i] = asks[i]
          /\ \A i \in 1..asked : Mine(i, t) /\ i # k => Mine(i, t)' /\ asks'[i] = asks[i]
      BY <1>2, <3>2 DEF Mine
    <3>4. TabFits(t) /\ Stored' = Stored
      BY <1>2 DEF FavInv, Stored
    <3>5. HeartFits(t)'
      <4> SUFFICES ASSUME favTabs'[t].view = "heart", favTabs'[t].doubt = FALSE
                   PROVE  HeartFits(t)'
        BY DEF HeartFits
      <4> QED
        BY <1>2, <1>3, <2>2, <3>1, <3>3, <3>4 DEF TabFits, HeartFits, Is
    <3>6. ListFits(t)'
      <4> SUFFICES ASSUME favTabs'[t].view = "list", favTabs'[t].doubt = FALSE
                   PROVE  ListFits(t)'
        BY DEF ListFits
      <4> QED
        BY <1>2, <1>3, <2>2, <3>1, <3>3, <3>4 DEF TabFits, ListFits, Is
    <3> QED
      BY <3>5, <3>6
  <2> QED
    BY <1>3, <1>4, <2>1, <2>2
<1> QED
  BY <1>0, <1>2, <1>3, <1>4, FavEnds

(***************************************************************************)
(* An answer nobody waits for changes nothing; the heart shows its answer,*)
(* and the page its list.                                                  *)
(***************************************************************************)
LEMMA FavShowsAnswer ==
    ASSUME FavInv, NEW k \in 1..asked, AnswerFavorite(k),
           ~(asks[k].mine /\ favTabs[asks[k].tab].view = "list" /\ asks[k].kind = "toggle")
    PROVE  FavInv'
<1>0. PICK t \in FavTabs : t = asks[k].tab
  BY DEF FavInv, FavShapes, FavAsk
<1>1. favTabs \in [FavTabs -> FavTab] /\ favTabs[t] \in FavTab /\ asks[k] \in FavAsk
  BY DEF FavInv, FavShapes
<1>2. /\ asks' = Finished(k) /\ UNCHANGED <<favRow, asked>> /\ lostAsks' \in 0..MaxLost
      /\ asks[k].stage = "answer"
  BY <1>1 DEF FavInv, FavShapes, AnswerFavorite, FavAsk
<1>3. /\ favTabs' \in [FavTabs -> FavTab]
      /\ \A u \in FavTabs : u # t \/ asks[k].mine = FALSE => favTabs'[u] = favTabs[u]
      /\ favTabs'[t].view = favTabs[t].view /\ favTabs'[t].doubt = favTabs[t].doubt
      /\ favTabs'[t].loading = TRUE =>
            favTabs[t].loading = TRUE /\ (asks[k].mine = TRUE => asks[k].kind # "toggle")
      /\ asks[k].mine = TRUE => favTabs'[t].shown = asks[k].saw
  <2>1. CASE asks[k].mine = FALSE
    BY <1>0, <1>1, <2>1 DEF AnswerFavorite
  <2>2. CASE asks[k].mine = TRUE
    <3>1. PICK c \in {"in", "out", "no list"} :
            favTabs' = [favTabs EXCEPT ![t].shown = asks[k].saw,
                           ![t].loading = favTabs[t].loading /\ asks[k].kind # "toggle",
                           ![t].cached = c]
      BY <1>0, <1>1, <2>2 DEF AnswerFavorite, ToldBy, FavTab
    <3> QED
      BY <1>0, <1>1, <2>2, <3>1 DEF FavTab, FavAsk
  <2> QED
    BY <1>1, <2>1, <2>2 DEF FavAsk
<1>4. ASSUME asks[k].mine = TRUE PROVE HeartFits(t)' /\ ListFits(t)'
  <2>1. Mine(k, t) /\ TabFits(t) /\ Stored' = Stored
    BY <1>0, <1>2, <1>4 DEF FavInv, Mine, Stored
  <2>2. /\ asks'[k].mine = FALSE
        /\ \A i \in 1..asked : i # k => asks'[i] = asks[i]
    BY <1>2, FinishedEnds DEF FavInv
  <2>3. /\ \A i \in 1..asked' : Mine(i, t)' => i \in 1..asked /\ i # k /\ Mine(i, t) /\ asks'[i] = asks[i]
        /\ \A i \in 1..asked : Mine(i, t) /\ i # k => i \in 1..asked' /\ Mine(i, t)' /\ asks'[i] = asks[i]
    BY <1>2, <2>2 DEF Mine
  <2>4. HeartFits(t)'
    <3> SUFFICES ASSUME favTabs'[t].view = "heart", favTabs'[t].doubt = FALSE
                 PROVE  HeartFits(t)'
      BY DEF HeartFits
    <3>1. /\ asks[k].saw = Stored
          /\ \A i \in 1..asked : Mine(i, t) /\ asks[i].stage = "answer" => i = k
      BY <1>2, <1>3, <2>1 DEF TabFits, HeartFits
    <3>2. \A i \in 1..asked' : Mine(i, t)' => asks'[i].stage # "answer"
      BY <2>3, <3>1
    <3> QED
      BY <1>3, <1>4, <2>1, <3>1, <3>2 DEF HeartFits
  <2>5. ListFits(t)'
    <3> SUFFICES ASSUME favTabs'[t].view = "list", favTabs'[t].doubt = FALSE
                 PROVE  ListFits(t)'
      BY DEF ListFits
    <3>1. favTabs[t].view = "list" /\ favTabs[t].doubt = FALSE /\ asks[k].kind = "list"
      BY <1>0, <1>3, <1>4, <2>1 DEF TabFits, WaitingFits
    <3>2. \A i \in 1..asked : Mine(i, t) /\ asks[i].kind = "list" => i = k
      BY <2>1, <3>1 DEF TabFits, ListAlone
    <3>3. CASE \E i \in 1..asked : Mine(i, t) /\ Is(i, "toggle", "answer")
      BY <2>3, <3>1, <3>3 DEF ListFits, Is
    <3>4. CASE asks[k].saw = Stored
      <4>1. \A i \in 1..asked' : Mine(i, t)' => asks'[i].kind # "list"
        BY <2>3, <3>2
      <4> QED
        BY <1>3, <1>4, <2>1, <3>4, <4>1 DEF ListFits
    <3>5. \/ \E i \in 1..asked : Mine(i, t) /\ Is(i, "toggle", "answer")
          \/ asks[k].saw = Stored
      BY <1>2, <2>1, <3>1, <3>2 DEF TabFits, ListFits, Is
    <3> QED
      BY <3>3, <3>4, <3>5
  <2> QED
    BY <2>4, <2>5
<1> QED
  BY <1>0, <1>2, <1>3, <1>4, FavEnds

(***************************************************************************)
(* After its toggle the page gives up its list and asks for another.      *)
(***************************************************************************)
LEMMA FavAsksAgain ==
    ASSUME FavInv, NEW k \in 1..asked, AnswerFavorite(k),
           asks[k].mine, favTabs[asks[k].tab].view = "list", asks[k].kind = "toggle"
    PROVE  FavInv'
<1> USE DEF FavInv
<1>0. PICK t \in FavTabs : t = asks[k].tab
  BY DEF FavShapes, FavAsk
<1> DEFINE over == Finished(k)
           left == [i \in 1..asked |->
                      IF over[i].tab = t /\ over[i].kind = "list" /\ over[i].mine
                      THEN [over[i] EXCEPT !.mine = FALSE] ELSE over[i]]
<1>1. /\ UNCHANGED <<favRow, favTabs, lostAsks>> /\ Post(left, t, "list")
      /\ favTabs[t].view = "list"
  BY <1>0 DEF AnswerFavorite
<1>2. /\ over \in [1..asked -> FavAsk]
      /\ over[k].stage = "over" /\ over[k].mine = FALSE
      /\ over[k].kind = asks[k].kind /\ over[k].tab = t
      /\ \A i \in 1..asked : i # k => over[i] = asks[i]
  BY <1>0, FinishedEnds
<1> HIDE DEF over
<1>3. \A i \in 1..asked :
        /\ left[i] \in FavAsk /\ left[i].tab = over[i].tab
        /\ left[i].kind = over[i].kind /\ left[i].stage = over[i].stage
        /\ over[i].tab # t \/ over[i].kind # "list" => left[i] = over[i]
        /\ over[i].tab = t /\ over[i].kind = "list" => left[i].mine = FALSE
  BY <1>2 DEF FavAsk
<1>4. left \in [1..asked -> FavAsk]
  BY <1>3
<1> HIDE DEF left
<1>5. /\ asked' \in 0..MaxAsks /\ asked' \in 1..asked'
      /\ asks' \in [1..asked' -> FavAsk]
      /\ asks'[asked'].tab = t /\ asks'[asked'].kind = "list"
      /\ asks'[asked'].mine = TRUE /\ asks'[asked'].stage = "sent"
      /\ \A i \in 1..asked : i \in 1..asked' /\ i # asked' /\ asks'[i] = left[i]
      /\ \A i \in 1..asked' : i = asked' \/ i \in 1..asked
  BY <1>1, <1>4, PostAdds
<1>6. FavShapes'
  BY <1>1, <1>5 DEF FavShapes
<1>7. \A i \in 1..asked : /\ left[i].stage = "over" => left[i].mine = FALSE
                          /\ left[i].kind # "toggle" => left[i].stage \in {"sent", "answer", "over"}
  BY <1>2, <1>3 DEF AskFits, FavAsk
<1>8. \A i \in 1..asked' : AskFits(i)'
  BY <1>5, <1>7 DEF AskFits
<1>9. \A i \in 1..asked : asks[i].tab # t => left[i] = asks[i]
  BY <1>0, <1>2, <1>3
<1>10. ASSUME NEW u \in FavTabs, u # t PROVE TabFits(u)'
  <2>1. ASSUME NEW i \in 1..asked, Mine(i, u) PROVE i \in 1..asked' /\ asks'[i] = asks[i]
    BY <1>5, <1>9, <1>10, <2>1 DEF Mine
  <2>2. ASSUME NEW i \in 1..asked', Mine(i, u)' PROVE i \in 1..asked /\ asks'[i] = asks[i]
    <3>1. i \in 1..asked /\ asks'[i] = left[i] /\ left[i].tab # t
      BY <1>5, <1>10, <2>2 DEF Mine
    <3>2. asks[i].tab # t
      BY <1>0, <1>2, <1>3, <3>1
    <3> QED
      BY <1>9, <3>1, <3>2
  <2> QED
    BY <1>1, <1>10, <2>1, <2>2, OtherTab
<1>11. ASSUME NEW i \in 1..asked', Mine(i, t)', i # asked'
       PROVE  asks'[i].kind = "toggle"
  <2>1. i \in 1..asked /\ left[i].mine = TRUE /\ asks'[i] = left[i] /\ left[i].tab = t
    BY <1>4, <1>5, <1>11 DEF Mine, FavAsk
  <2>2. i # k /\ left[i].kind # "list" /\ left[i] = asks[i]
    BY <1>2, <1>3, <2>1
  <2>3. Mine(i, t)
    BY <2>1, <2>2 DEF Mine
  <2> QED
    BY <1>1, <2>1, <2>2, <2>3 DEF TabFits, WaitingFits
<1>12. TabFits(t)'
  <2>1. WaitingFits(t)'
    BY <1>1, <1>5, <1>11 DEF WaitingFits
  <2>2. ListAlone(t)'
    <3> SUFFICES ASSUME NEW i \in 1..asked', NEW j \in 1..asked',
                        Mine(i, t)', asks'[i].kind = "list", Mine(j, t)', asks'[j].kind = "list"
                 PROVE  i = j
      BY DEF ListAlone
    <3> QED
      BY <1>11
  <2>3. ButtonFits(t)' /\ HeartFits(t)'
    BY <1>1 DEF TabFits, ButtonFits, HeartFits
  <2>4. ListFits(t)'
    <3>1. \E i \in 1..asked' : Mine(i, t)' /\ Is(i, "list", "sent")'
      BY <1>5 DEF Mine, Is
    <3> QED
      BY <3>1 DEF ListFits
  <2> QED
    BY <2>1, <2>2, <2>3, <2>4 DEF TabFits
<1> QED
  BY <1>6, <1>8, <1>10, <1>12

(***************************************************************************)
(* Every step of the tabs and of the handler keeps the invariant.         *)
(***************************************************************************)
LEMMA FavKeeps == FavInv /\ [FavNext]_favVars => FavInv'
<1> SUFFICES ASSUME FavInv, [FavNext]_favVars PROVE FavInv'
  OBVIOUS
<1>1. CASE UNCHANGED favVars
  BY <1>1 DEF favVars, FavInv, FavShapes, AskFits, TabFits, WaitingFits, ListAlone,
              ButtonFits, HeartFits, ListFits, Mine, Is, Stored
<1>2. ASSUME NEW t \in FavTabs,
             OpenView(t) \/ CloseView(t) \/ ToggleHeart(t) \/ RemoveListed(t)
      PROVE  FavInv'
  BY <1>2, FavOpens, FavCloses, FavToggles
<1>3. ASSUME NEW k \in 1..asked,
             \/ ReadFavorite(k) \/ WriteFavorite(k) \/ AnswerFavorite(k)
             \/ RefusedFavorite(k) \/ LoseFavorite(k)
      PROVE  FavInv'
  BY <1>3, FavReads, FavWrites, FavShowsAnswer, FavAsksAgain, FavFails
<1> QED
  BY <1>1, <1>2, <1>3 DEF FavNext

(***************************************************************************)
(* The favorite, the tabs and the requests keep their types, and a button *)
(* is off during a toggle only, for any number of tabs and requests.      *)
(***************************************************************************)
THEOREM FavoritesTypeCorrect == FavSpec => []FavTypeOK
<1>1. ASSUME FavInv PROVE FavTypeOK
  <2> USE <1>1 DEF FavInv
  <2>1. ASSUME NEW t \in FavTabs, favTabs[t].loading PROVE FavAsking(t, {"toggle"})
    <3>1. favTabs[t].loading = TRUE
      BY <2>1 DEF FavShapes, FavTab
    <3>2. PICK k \in 1..asked : Mine(k, t) /\ asks[k].kind = "toggle"
      BY <3>1 DEF TabFits, ButtonFits
    <3>3. asks[k].stage # "over"
      BY <3>2 DEF Mine, AskFits
    <3> QED
      BY <3>2, <3>3 DEF FavAsking, AskOpen, Mine
  <2> QED
    BY <2>1 DEF FavTypeOK, FavShapes
<1> QED
  BY <1>1, FavStarts, FavKeeps, PTL DEF FavSpec

(***************************************************************************)
(* A heart, or a list, without doubt and with nothing under way shows what*)
(* is stored, for any number of tabs, requests and losses.                *)
(***************************************************************************)
THEOREM HeartAlwaysTellsTruth == FavSpec => []HeartTellsTruth
<1>1. ASSUME FavInv PROVE HeartTellsTruth
  <2> USE <1>1 DEF FavInv
  <2> SUFFICES ASSUME NEW t \in FavTabs, favTabs[t].view # "none", ~favTabs[t].doubt,
                      ~FavAsking(t, {"check", "toggle", "list"})
               PROVE  favTabs[t].shown = Stored
    BY DEF HeartTellsTruth, Stored
  <2>1. favTabs[t].doubt = FALSE /\ favTabs[t].view \in {"heart", "list"}
    BY DEF FavShapes, FavTab
  <2>2. ASSUME NEW k \in 1..asked PROVE ~Mine(k, t)
    <3> SUFFICES ASSUME Mine(k, t) PROVE FALSE
      OBVIOUS
    <3>1. asks[k].stage # "over" /\ asks[k].kind \in {"check", "toggle", "list"}
      BY DEF AskFits, Mine, FavShapes, FavAsk
    <3> QED
      BY <3>1 DEF FavAsking, AskOpen, Mine
  <2> QED
    BY <2>1, <2>2 DEF TabFits, HeartFits, ListFits
<1> QED
  BY <1>1, FavStarts, FavKeeps, PTL DEF FavSpec

-----------------------------------------------------------------------------
(***************************************************************************)
(* The account.  Somebody who was told the row of a user at some write    *)
(* knows the name if it was not changed since.  A handler that has read   *)
(* has the row as it is, or the row was written since; an answer, a photo *)
(* under way and the session know the name in that sense; and while no    *)
(* requests of the page mixed, the only one carries the stored token and  *)
(* answers with a row no older than what the session was told.            *)
(***************************************************************************)
KnowsIn(p, u, since, name) == since <= p[u].at /\ (p[u].named <= since => p[u].name = name)

AnyPerson  == [name : Names, photo : Nat, rest : Nat, at : Nat, named : Nat]
AnyRequest == [kind : {"profile", "upload", "elsewhere", "secret"},
               whose : Users \cup {NoUser}, name : Names, photo : BOOLEAN,
               held : Users \cup {NoUser}, seen : Nat, mine : BOOLEAN,
               row : AnyPerson, stage : {"sent", "read", "answer", "over"}]

RequestFits(r, p) ==
    /\ r.stage # "over" => r.whose \in Users
    /\ r.kind = "upload" => r.stage \in {"sent", "over"}
    /\ r.photo = TRUE => r.kind = "profile"
    /\ r.stage = "read" => /\ r.row.at <= p[r.whose].at
                           /\ r.row.at = p[r.whose].at => r.row = p[r.whose]
    /\ r.stage = "answer" => KnowsIn(p, r.whose, r.row.at, r.row.name)
    /\ (r.kind = "upload" \/ r.photo = TRUE) /\ r.held \in Users => KnowsIn(p, r.held, r.seen, r.name)

AccountShapes ==
    /\ people \in [Users -> AnyPerson]
    /\ session \in [user : Users \cup {NoUser}, name : Names, at : Nat]
    /\ token \in Users \cup {NoUser}
    /\ account \in Page /\ (account.open = TRUE => token \in Users)
    /\ sentReqs \in Nat
    /\ reqs \in [1..sentReqs -> AnyRequest]
    /\ acked \in Nat /\ mixed \in BOOLEAN

SessionKnows == session.user \in Users => KnowsIn(people, session.user, session.at, session.name)

Unmixed ==
    /\ session.user = token /\ acked <= session.at
    /\ \A j, k \in 1..sentReqs : Own(j) /\ Own(k) => j = k
    /\ \A k \in 1..sentReqs :
          Own(k) => /\ reqs[k].whose = token
                    /\ reqs[k].stage = "answer" => session.at <= reqs[k].row.at

AccountInv ==
    /\ AccountShapes
    /\ \A k \in 1..sentReqs : RequestFits(reqs[k], people)
    /\ SessionKnows
    /\ mixed = FALSE => Unmixed

\* There is a name.
LEMMA NamesExist == AnyName \in Names
BY AccountAssumption DEF AnyName

(***************************************************************************)
(* Nobody is logged in, nothing was asked.                                *)
(***************************************************************************)
LEMMA AccountStarts == AccountInit => AccountInv
<1> SUFFICES ASSUME AccountInit PROVE AccountInv
  OBVIOUS
<1>1. 1..sentReqs = {} /\ sentReqs \in Nat /\ acked = 0
  BY DEF AccountInit
<1>2. NewPerson \in AnyPerson
  BY NamesExist DEF NewPerson, AnyPerson
<1>3. people \in [Users -> AnyPerson]
  BY <1>2 DEF AccountInit
<1>4. /\ session \in [user : Users \cup {NoUser}, name : Names, at : Nat]
      /\ session.user = NoUser /\ session.at = 0 /\ token = NoUser
  BY NamesExist DEF AccountInit, LoggedOut
<1>5. account \in Page /\ account.open = FALSE
  BY NamesExist DEF AccountInit, ClosedPage, Page
<1>6. reqs \in [1..sentReqs -> AnyRequest] /\ mixed = FALSE
  BY <1>1 DEF AccountInit
<1>7. AccountShapes
  BY <1>1, <1>3, <1>4, <1>5, <1>6 DEF AccountShapes
<1>8. SessionKnows
  BY <1>4, AccountAssumption DEF SessionKnows
<1>9. Unmixed
  BY <1>1, <1>4 DEF Unmixed
<1> QED
  BY <1>1, <1>7, <1>8, <1>9 DEF AccountInv

(***************************************************************************)
(* A request that only its page forgot fits as before.                    *)
(***************************************************************************)
LEMMA OrphanedFit ==
    ASSUME AccountShapes
    PROVE  /\ Orphaned \in [1..sentReqs -> AnyRequest]
           /\ \A k \in 1..sentReqs :
                 /\ Orphaned[k].kind = reqs[k].kind /\ Orphaned[k].whose = reqs[k].whose
                 /\ Orphaned[k].name = reqs[k].name /\ Orphaned[k].photo = reqs[k].photo
                 /\ Orphaned[k].held = reqs[k].held /\ Orphaned[k].seen = reqs[k].seen
                 /\ Orphaned[k].row = reqs[k].row /\ Orphaned[k].stage = reqs[k].stage
BY DEF AccountShapes, Orphaned, AnyRequest

(***************************************************************************)
(* The session begins and ends, and the page with it: requests that are   *)
(* still under way mix.                                                    *)
(***************************************************************************)
LEMMA SessionSteps ==
    ASSUME AccountInv, Login \/ Logout \/ OpenAccount \/ LeaveAccount \/ TypeName
    PROVE  AccountInv'
<1> USE DEF AccountInv
<1>1. /\ people \in [Users -> AnyPerson] /\ account \in Page /\ token \in Users \cup {NoUser}
      /\ session \in [user : Users \cup {NoUser}, name : Names, at : Nat]
      /\ UNCHANGED <<people, sentReqs>>
  BY DEF AccountShapes, Login, Logout, OpenAccount, LeaveAccount, TypeName
<1>2. /\ reqs' \in [1..sentReqs -> AnyRequest]
      /\ \A k \in 1..sentReqs :
            /\ reqs'[k].kind = reqs[k].kind /\ reqs'[k].whose = reqs[k].whose
            /\ reqs'[k].name = reqs[k].name /\ reqs'[k].photo = reqs[k].photo
            /\ reqs'[k].held = reqs[k].held /\ reqs'[k].seen = reqs[k].seen
            /\ reqs'[k].row = reqs[k].row /\ reqs'[k].stage = reqs[k].stage
  BY OrphanedFit DEF AccountShapes, Login, Logout, OpenAccount, LeaveAccount, TypeName
<1>3. \A k \in 1..sentReqs' : RequestFits(reqs'[k], people')
  BY <1>1, <1>2 DEF RequestFits
<1>4. /\ account' \in Page /\ (account'.open = TRUE => token' \in Users)
      /\ token' \in Users \cup {NoUser}
  <2>1. ClosedPage \in Page /\ ClosedPage.open = FALSE
    BY NamesExist DEF ClosedPage, Page
  <2>2. CASE Login
    BY <1>1, <2>2 DEF AccountShapes, Login, Page
  <2>3. CASE Logout \/ LeaveAccount
    BY <1>1, <2>1, <2>3 DEF Logout, LeaveAccount
  <2>4. CASE OpenAccount
    <3>1. account' \in Page /\ token' = token /\ token # NoUser
      BY <1>1, <2>1, <2>4 DEF OpenAccount, Page
    <3> QED
      BY <1>1, <3>1
  <2>5. CASE TypeName
    BY <1>1, <2>5 DEF AccountShapes, TypeName, Page
  <2> QED
    BY <2>2, <2>3, <2>4, <2>5
<1>5. \A k \in 1..sentReqs : Own(k)' <=> Own(k)
  BY <1>2 DEF Own
<1>6. CASE Login \/ Logout
  <2>1. /\ mixed' = OwnUnderWay /\ acked' = 0
        /\ session'.user = token' /\ session' \in [user : Users \cup {NoUser}, name : Names, at : Nat]
        /\ session'.user \in Users =>
              session'.name = people[session'.user].name /\ session'.at = people[session'.user].at
    BY <1>1, <1>6, NamesExist, AccountAssumption DEF Login, Logout, LoggedOut, AnyPerson
  <2>2. mixed' \in BOOLEAN
    BY <2>1 DEF OwnUnderWay
  <2>3. AccountShapes'
    BY <1>1, <1>2, <1>4, <2>1, <2>2 DEF AccountShapes
  <2>4. SessionKnows'
    BY <1>1, <2>1 DEF SessionKnows, KnowsIn, AnyPerson
  <2>5. mixed' = FALSE => \A k \in 1..sentReqs : ~Own(k)
    BY <2>1 DEF OwnUnderWay
  <2>6. mixed' = FALSE => Unmixed'
    BY <1>1, <1>5, <2>1, <2>5 DEF Unmixed
  <2> QED
    BY <1>3, <2>3, <2>4, <2>6
<1>7. CASE OpenAccount \/ LeaveAccount \/ TypeName
  <2>1. UNCHANGED <<session, token, acked, mixed>>
    BY <1>7 DEF OpenAccount, LeaveAccount, TypeName
  <2>2. AccountShapes'
    BY <1>1, <1>2, <1>4, <2>1 DEF AccountShapes
  <2>3. SessionKnows'
    BY <1>1, <2>1 DEF SessionKnows
  <2>4. mixed' = FALSE => Unmixed'
    BY <1>1, <1>2, <1>5, <2>1 DEF Unmixed
  <2> QED
    BY <1>3, <2>2, <2>3, <2>4
<1> QED
  BY <1>6, <1>7

(***************************************************************************)
(* A request that is made is the newest, and only sent; the others are as *)
(* they were.                                                              *)
(***************************************************************************)
LEMMA MakeAdds ==
    ASSUME AccountShapes, NEW kind \in {"profile", "upload", "elsewhere", "secret"},
           NEW u \in Users, NEW n \in Names, Make(kind, u, n)
    PROVE  /\ sentReqs' \in Nat /\ sentReqs' \in 1..sentReqs'
           /\ reqs' \in [1..sentReqs' -> AnyRequest]
           /\ reqs'[sentReqs'].kind = kind /\ reqs'[sentReqs'].whose = u
           /\ reqs'[sentReqs'].name = n /\ reqs'[sentReqs'].photo = FALSE
           /\ reqs'[sentReqs'].held = session.user /\ reqs'[sentReqs'].seen = session.at
           /\ reqs'[sentReqs'].stage = "sent"
           /\ \A k \in 1..sentReqs : k \in 1..sentReqs' /\ reqs'[k] = reqs[k]
           /\ \A k \in 1..sentReqs' : k = sentReqs' \/ k \in 1..sentReqs
<1> DEFINE new == [kind |-> kind, whose |-> u, name |-> n, photo |-> FALSE,
                   held |-> session.user, seen |-> session.at,
                   mine |-> kind \in {"profile", "upload"},
                   row |-> NewPerson, stage |-> "sent"]
<1>1. sentReqs \in Nat /\ sentReqs' = sentReqs + 1
  BY DEF AccountShapes, Make
<1>2. /\ sentReqs' \in Nat /\ sentReqs' \in 1..sentReqs'
      /\ \A k \in 1..sentReqs : k \in 1..sentReqs' /\ k # sentReqs'
      /\ \A k \in 1..sentReqs' : k = sentReqs' \/ k \in 1..sentReqs
  BY <1>1
<1>3. NewPerson \in AnyPerson
  BY NamesExist DEF NewPerson, AnyPerson
<1>4. new \in AnyRequest
  BY <1>3 DEF AccountShapes, AnyRequest
<1>5. reqs' = [k \in 1..sentReqs' |-> IF k # sentReqs' THEN reqs[k] ELSE new]
  BY DEF Make
<1>6. /\ new.kind = kind /\ new.whose = u /\ new.name = n /\ new.photo = FALSE
      /\ new.held = session.user /\ new.seen = session.at /\ new.stage = "sent"
  OBVIOUS
<1> HIDE DEF new
<1>7. reqs' \in [1..sentReqs' -> AnyRequest]
  BY <1>2, <1>4, <1>5 DEF AccountShapes
<1> QED
  BY <1>2, <1>5, <1>6, <1>7

(***************************************************************************)
(* A new request of the page is alone or mixes, and a photo goes with the *)
(* name the session knows.                                                 *)
(***************************************************************************)
LEMMA MakeKeeps ==
    ASSUME AccountInv, NEW kind \in {"profile", "upload", "elsewhere", "secret"},
           NEW u \in Users, NEW n \in Names, Make(kind, u, n),
           UNCHANGED <<people, session, token, acked>>,
           account' \in Page, account'.open = account.open, mixed' \in BOOLEAN,
           kind = "upload" => n = session.name,
           mixed' = FALSE => /\ mixed = FALSE
                             /\ kind \in {"profile", "upload"} =>
                                   u = token /\ \A k \in 1..sentReqs : ~Own(k)
    PROVE  AccountInv'
<1> USE DEF AccountInv
<1>1. /\ sentReqs' \in Nat /\ sentReqs' \in 1..sentReqs'
      /\ reqs' \in [1..sentReqs' -> AnyRequest]
      /\ reqs'[sentReqs'].kind = kind /\ reqs'[sentReqs'].whose = u
      /\ reqs'[sentReqs'].name = n /\ reqs'[sentReqs'].photo = FALSE
      /\ reqs'[sentReqs'].held = session.user /\ reqs'[sentReqs'].seen = session.at
      /\ reqs'[sentReqs'].stage = "sent"
      /\ \A k \in 1..sentReqs : k \in 1..sentReqs' /\ reqs'[k] = reqs[k]
      /\ \A k \in 1..sentReqs' : k = sentReqs' \/ k \in 1..sentReqs
  BY MakeAdds
<1>2. AccountShapes'
  BY <1>1 DEF AccountShapes
<1>3. SessionKnows'
  BY DEF SessionKnows
<1>4. RequestFits(reqs'[sentReqs'], people')
  BY <1>1 DEF RequestFits, SessionKnows
<1>5. \A k \in 1..sentReqs' : RequestFits(reqs'[k], people')
  BY <1>1, <1>4
<1>6. ASSUME mixed' = FALSE PROVE Unmixed'
  <2>1. Unmixed
    BY <1>6
  <2>2. \A k \in 1..sentReqs : Own(k)' <=> Own(k)
    BY <1>1 DEF Own
  <2>3. ASSUME NEW k \in 1..sentReqs', Own(k)'
        PROVE  /\ reqs'[k].whose = token'
               /\ reqs'[k].stage = "answer" => session'.at <= reqs'[k].row.at
    <3>1. CASE k = sentReqs'
      <4>1. kind \in {"profile", "upload"}
        BY <1>1, <2>3, <3>1 DEF Own
      <4> QED
        BY <1>1, <1>6, <3>1, <4>1
    <3>2. CASE k \in 1..sentReqs
      BY <1>1, <2>1, <2>2, <2>3, <3>2 DEF Unmixed
    <3> QED
      BY <1>1, <3>1, <3>2
  <2>4. ASSUME NEW j \in 1..sentReqs', NEW k \in 1..sentReqs', Own(j)', Own(k)'
        PROVE  j = k
    <3>1. CASE kind \in {"profile", "upload"}
      <4>1. \A i \in 1..sentReqs : ~Own(i)'
        BY <1>6, <2>2, <3>1
      <4> QED
        BY <1>1, <2>4, <4>1
    <3>2. CASE kind \notin {"profile", "upload"}
      <4>1. j \in 1..sentReqs /\ k \in 1..sentReqs
        BY <1>1, <2>4, <3>2 DEF Own
      <4> QED
        BY <2>1, <2>2, <2>4, <4>1 DEF Unmixed
    <3> QED
      BY <3>1, <3>2
  <2> QED
    BY <2>1, <2>3, <2>4 DEF Unmixed
<1> QED
  BY <1>2, <1>3, <1>5, <1>6

(***************************************************************************)
(* What the page, another device or an administrator asks for.            *)
(***************************************************************************)
LEMMA RequestsMade ==
    ASSUME AccountInv, SaveProfile \/ PickPhoto \/ ChangePassword \/ Elsewhere
    PROVE  AccountInv'
<1>1. /\ account \in Page /\ (account.open = TRUE => token \in Users) /\ mixed \in BOOLEAN
      /\ session.name \in Names
  BY DEF AccountInv, AccountShapes
<1>2. OwnUnderWay \in BOOLEAN /\ (OwnUnderWay = FALSE => \A k \in 1..sentReqs : ~Own(k))
  BY DEF OwnUnderWay
<1>3. CASE SaveProfile
  <2>1. /\ token \in Users /\ account.text \in Names /\ Make("profile", token, account.text)
        /\ UNCHANGED <<people, session, token, acked, account>>
        /\ mixed' = (mixed \/ OwnUnderWay)
    BY <1>1, <1>3 DEF SaveProfile, Page
  <2>2. mixed' \in BOOLEAN /\ (mixed' = FALSE => mixed = FALSE /\ OwnUnderWay = FALSE)
    BY <1>1, <1>2, <2>1
  <2> QED
    BY <1>1, <1>2, <2>1, <2>2, MakeKeeps
<1>4. CASE PickPhoto
  <2>1. /\ token \in Users /\ Make("upload", token, session.name)
        /\ UNCHANGED <<people, session, token, acked>>
        /\ account' = [account EXCEPT !.uploading = TRUE]
        /\ mixed' = (mixed \/ OwnUnderWay)
    BY <1>1, <1>4 DEF PickPhoto, Page
  <2>2. mixed' \in BOOLEAN /\ (mixed' = FALSE => mixed = FALSE /\ OwnUnderWay = FALSE)
    BY <1>1, <1>2, <2>1
  <2>3. account' \in Page /\ account'.open = account.open
    BY <1>1, <2>1 DEF Page
  <2> QED
    BY <1>1, <1>2, <2>1, <2>2, <2>3, MakeKeeps
<1>5. CASE ChangePassword
  <2>1. /\ token \in Users /\ Make("secret", token, AnyName)
        /\ UNCHANGED <<people, session, token, acked, account, mixed>>
    BY <1>1, <1>5 DEF ChangePassword, Page
  <2> QED
    BY <1>1, <2>1, NamesExist, MakeKeeps
<1>6. CASE Elsewhere
  <2>1. PICK kind \in {"elsewhere", "secret"}, u \in Users, n \in Names : Make(kind, u, n)
    BY <1>6, NamesExist DEF Elsewhere
  <2>2. UNCHANGED <<people, session, token, acked, account, mixed>>
    BY <1>6 DEF Elsewhere
  <2> QED
    BY <1>1, <2>1, <2>2, MakeKeeps
<1> QED
  BY <1>3, <1>4, <1>5, <1>6

(***************************************************************************)
(* A handler reads the row; the stored photo becomes a profile to save,   *)
(* with the token of the moment.                                           *)
(***************************************************************************)
LEMMA ReadsKeep ==
    ASSUME AccountInv, NEW k \in 1..sentReqs, ReadPerson(k) \/ PhotoStored(k)
    PROVE  AccountInv'
<1> USE DEF AccountInv
<1>1. /\ UNCHANGED <<people, session, token, account, sentReqs, acked, mixed>>
      /\ reqs[k].stage = "sent" /\ reqs[k] \in AnyRequest /\ people \in [Users -> AnyPerson]
      /\ RequestFits(reqs[k], people)
  BY DEF ReadPerson, PhotoStored, AccountShapes
<1>2. PICK r \in AnyRequest :
         /\ reqs' = [reqs EXCEPT ![k] = r]
         /\ r.whose \in Users /\ r.stage \in {"sent", "read"}
         /\ r.name = reqs[k].name /\ r.held = reqs[k].held /\ r.seen = reqs[k].seen
         /\ \/ r.kind = reqs[k].kind /\ r.photo = reqs[k].photo /\ r.whose = reqs[k].whose
            \/ reqs[k].kind = "upload" /\ r.kind = "profile" /\ r.stage = "sent" /\ r.whose = token
         /\ r.stage = "read" => r.row = people[r.whose] /\ reqs[k].kind # "upload"
  <2>1. CASE ReadPerson(k)
    <3> DEFINE r == [reqs[k] EXCEPT !.stage = "read", !.row = people[reqs[k].whose]]
    <3>1. reqs[k].whose \in Users
      BY <1>1 DEF RequestFits
    <3>2. reqs' = [reqs EXCEPT ![k] = r] /\ reqs[k].kind # "upload"
      BY <2>1 DEF ReadPerson, AccountShapes
    <3>3. r \in AnyRequest
      BY <1>1, <3>1 DEF AnyRequest
    <3>4. /\ r.whose = reqs[k].whose /\ r.stage = "read" /\ r.row = people[r.whose]
          /\ r.name = reqs[k].name /\ r.held = reqs[k].held /\ r.seen = reqs[k].seen
          /\ r.kind = reqs[k].kind /\ r.photo = reqs[k].photo
      BY <1>1 DEF AnyRequest
    <3> HIDE DEF r
    <3> QED
      BY <3>1, <3>2, <3>3, <3>4
  <2>2. CASE PhotoStored(k)
    <3> DEFINE r == [reqs[k] EXCEPT !.kind = "profile", !.photo = TRUE, !.whose = token]
    <3>1. reqs' = [reqs EXCEPT ![k] = r] /\ token \in Users /\ reqs[k].kind = "upload"
      BY <2>2 DEF PhotoStored, AccountShapes
    <3>2. r \in AnyRequest
      BY <1>1, <3>1 DEF AnyRequest
    <3> QED
      BY <1>1, <3>1, <3>2 DEF AnyRequest
  <2> QED
    BY <2>1, <2>2
<1>3. /\ reqs' \in [1..sentReqs -> AnyRequest] /\ reqs'[k] = r
      /\ \A j \in 1..sentReqs : j # k => reqs'[j] = reqs[j]
  BY <1>2 DEF AccountShapes
<1>4. AccountShapes' /\ SessionKnows'
  BY <1>1, <1>3 DEF AccountShapes, SessionKnows
<1>5. RequestFits(r, people)
  BY <1>1, <1>2 DEF RequestFits, AnyPerson, AnyRequest
<1>6. \A j \in 1..sentReqs' : RequestFits(reqs'[j], people')
  BY <1>1, <1>3, <1>5
<1>7. \A j \in 1..sentReqs : Own(j)' <=> Own(j)
  BY <1>1, <1>2, <1>3 DEF Own
<1>8. mixed' = FALSE => Unmixed'
  BY <1>1, <1>2, <1>3, <1>7 DEF Unmixed
<1> QED
  BY <1>4, <1>6, <1>8

(***************************************************************************)
(* A write is numbered: who knew a name before it still knows it, or the  *)
(* name was changed since.                                                 *)
(***************************************************************************)
LEMMA KnowsKept ==
    ASSUME NEW p \in [Users -> AnyPerson], NEW u \in Users, NEW new \in AnyPerson,
           new.at = p[u].at + 1,
           new.named = IF new.name # p[u].name THEN p[u].at + 1 ELSE p[u].named,
           NEW v \in Users, NEW since \in Nat, NEW name, KnowsIn(p, v, since, name)
    PROVE  KnowsIn([p EXCEPT ![u] = new], v, since, name)
<1>1. p[v].at \in Nat /\ p[v].named \in Nat /\ p[u].at \in Nat /\ p[u].named \in Nat
  BY DEF AnyPerson
<1>2. CASE v = u
  BY <1>1, <1>2 DEF KnowsIn
<1>3. CASE v # u
  BY <1>3 DEF KnowsIn
<1> QED
  BY <1>2, <1>3

(***************************************************************************)
(* What a handler writes: the row it read, with its own fields, numbered. *)
(***************************************************************************)
LEMMA WritesRow ==
    ASSUME AccountInv, NEW k \in 1..sentReqs, WritePerson(k)
    PROVE  \E u \in Users, new \in AnyPerson :
              /\ u = reqs[k].whose /\ reqs[k].stage = "read"
              /\ people' = [people EXCEPT ![u] = new]
              /\ new.at = people[u].at + 1
              /\ new.named = IF new.name # people[u].name THEN people[u].at + 1 ELSE people[u].named
              /\ IF reqs[k].kind = "secret"
                 THEN new.name = reqs[k].row.name /\ new.photo = reqs[k].row.photo
                 ELSE /\ new.name = reqs[k].name /\ new.rest = reqs[k].row.rest
                      /\ reqs[k].photo = FALSE => new.photo = reqs[k].row.photo
              /\ reqs' = [reqs EXCEPT ![k].stage = "answer", ![k].row = new]
<1> USE DEF AccountInv
<1>1. /\ reqs[k] \in AnyRequest /\ people \in [Users -> AnyPerson] /\ reqs[k].stage = "read"
      /\ k \in Nat
  BY DEF AccountShapes, WritePerson
<1>2. PICK u \in Users : u = reqs[k].whose
  BY <1>1 DEF RequestFits
<1> DEFINE changed == Changed(k)
           new == Numbered(changed, people[u])
<1>3. /\ people' = [people EXCEPT ![u] = new]
      /\ reqs' = [reqs EXCEPT ![k].stage = "answer", ![k].row = new]
  BY <1>2 DEF WritePerson
<1>4. /\ changed \in AnyPerson
      /\ IF reqs[k].kind = "secret"
         THEN changed.name = reqs[k].row.name /\ changed.photo = reqs[k].row.photo
         ELSE /\ changed.name = reqs[k].name /\ changed.rest = reqs[k].row.rest
              /\ reqs[k].photo = FALSE => changed.photo = reqs[k].row.photo
  <2>1. reqs[k].row \in AnyPerson /\ reqs[k].name \in Names /\ reqs[k].photo \in BOOLEAN
    BY <1>1 DEF AnyRequest
  <2>2. CASE reqs[k].kind = "secret"
    <3>1. changed = [reqs[k].row EXCEPT !.rest = k]
      BY <2>2 DEF Changed
    <3> QED
      BY <1>1, <2>1, <2>2, <3>1 DEF AnyPerson
  <2>3. CASE reqs[k].kind # "secret"
    <3>1. changed = [reqs[k].row EXCEPT !.name = reqs[k].name,
                        !.photo = IF reqs[k].photo THEN k ELSE reqs[k].row.photo]
      BY <2>3 DEF Changed
    <3> QED
      BY <1>1, <2>1, <2>3, <3>1 DEF AnyPerson
  <2> QED
    BY <2>2, <2>3
<1> HIDE DEF changed
<1>5. people[u].at \in Nat /\ people[u].named \in Nat
  BY <1>1 DEF AnyPerson
<1>6. /\ new \in AnyPerson
      /\ new.at = people[u].at + 1
      /\ new.named = IF new.name # people[u].name THEN people[u].at + 1 ELSE people[u].named
      /\ new.name = changed.name /\ new.photo = changed.photo /\ new.rest = changed.rest
  <2> DEFINE named == IF changed.name # people[u].name THEN people[u].at + 1 ELSE people[u].named
  <2>1. new = [changed EXCEPT !.at = people[u].at + 1, !.named = named]
    BY DEF Numbered
  <2>2. named \in Nat
    BY <1>5
  <2> HIDE DEF named, new
  <2>3. /\ new \in AnyPerson /\ new.at = people[u].at + 1 /\ new.named = named
        /\ new.name = changed.name /\ new.photo = changed.photo /\ new.rest = changed.rest
    <3>1. changed \in AnyPerson /\ people[u].at + 1 \in Nat
      BY <1>4, <1>5
    <3> QED
      BY <3>1, <2>1, <2>2 DEF AnyPerson
  <2> QED
    BY <2>3 DEF named
<1> HIDE DEF new
<1> QED
  BY <1>1, <1>2, <1>3, <1>4, <1>6

(***************************************************************************)
(* A write leaves what others know true, and answers with the newest row. *)
(***************************************************************************)
LEMMA WriteKeeps ==
    ASSUME AccountInv, NEW k \in 1..sentReqs, WritePerson(k)
    PROVE  AccountInv'
<1> USE DEF AccountInv
<1>1. PICK u \in Users, new \in AnyPerson :
         /\ u = reqs[k].whose /\ reqs[k].stage = "read"
         /\ people' = [people EXCEPT ![u] = new]
         /\ new.at = people[u].at + 1
         /\ new.named = IF new.name # people[u].name THEN people[u].at + 1 ELSE people[u].named
         /\ IF reqs[k].kind = "secret"
            THEN new.name = reqs[k].row.name /\ new.photo = reqs[k].row.photo
            ELSE /\ new.name = reqs[k].name /\ new.rest = reqs[k].row.rest
                 /\ reqs[k].photo = FALSE => new.photo = reqs[k].row.photo
         /\ reqs' = [reqs EXCEPT ![k].stage = "answer", ![k].row = new]
  BY WritesRow
<1>2. /\ UNCHANGED <<session, token, account, sentReqs, acked, mixed>>
      /\ reqs \in [1..sentReqs -> AnyRequest] /\ people \in [Users -> AnyPerson]
      /\ session \in [user : Users \cup {NoUser}, name : Names, at : Nat]
  BY DEF WritePerson, AccountShapes
<1>3. /\ reqs' \in [1..sentReqs -> AnyRequest]
      /\ reqs'[k].stage = "answer" /\ reqs'[k].row = new
      /\ reqs'[k].kind = reqs[k].kind /\ reqs'[k].whose = u /\ reqs'[k].photo = reqs[k].photo
      /\ reqs'[k].held = reqs[k].held /\ reqs'[k].seen = reqs[k].seen
      /\ reqs'[k].name = reqs[k].name
      /\ \A j \in 1..sentReqs : j # k => reqs'[j] = reqs[j]
  <2>1. /\ u = reqs[k].whose /\ new \in AnyPerson /\ reqs[k] \in AnyRequest
        /\ reqs' = [reqs EXCEPT ![k].stage = "answer", ![k].row = new]
    BY <1>1, <1>2
  <2> QED
    BY <1>2, <2>1 DEF AnyRequest
<1>4. /\ people' \in [Users -> AnyPerson] /\ people'[u] = new
      /\ \A v \in Users : v # u => people'[v] = people[v]
      /\ \A v \in Users : people[v].at \in Nat
  BY <1>1, <1>2 DEF AnyPerson
<1>5. AccountShapes'
  BY <1>2, <1>3, <1>4 DEF AccountShapes
<1>6. ASSUME NEW v \in Users, NEW since \in Nat, NEW name, KnowsIn(people, v, since, name)
      PROVE  KnowsIn(people', v, since, name)
  BY <1>1, <1>2, <1>6, KnowsKept
<1>7. SessionKnows'
  BY <1>2, <1>6 DEF SessionKnows
<1>8. ASSUME NEW j \in 1..sentReqs PROVE RequestFits(reqs'[j], people')
  <2>1. RequestFits(reqs[j], people) /\ reqs[j] \in AnyRequest
    BY <1>2
  <2>2. /\ reqs[j].seen \in Nat /\ reqs[j].row.at \in Nat /\ reqs[j].row \in AnyPerson
    BY <2>1 DEF AnyRequest, AnyPerson
  <2>3. CASE j # k
    <3>1. reqs[j].stage = "answer" => KnowsIn(people', reqs[j].whose, reqs[j].row.at, reqs[j].row.name)
      BY <1>6, <2>1, <2>2 DEF RequestFits
    <3>2. (reqs[j].kind = "upload" \/ reqs[j].photo = TRUE) /\ reqs[j].held \in Users
          => KnowsIn(people', reqs[j].held, reqs[j].seen, reqs[j].name)
      BY <1>6, <2>1, <2>2 DEF RequestFits
    <3>3. reqs[j].stage = "read" => /\ reqs[j].row.at <= people'[reqs[j].whose].at
                                    /\ reqs[j].row.at = people'[reqs[j].whose].at
                                       => reqs[j].row = people'[reqs[j].whose]
      <4> SUFFICES ASSUME reqs[j].stage = "read"
                   PROVE  /\ reqs[j].row.at <= people'[reqs[j].whose].at
                          /\ reqs[j].row.at = people'[reqs[j].whose].at
                             => reqs[j].row = people'[reqs[j].whose]
        OBVIOUS
      <4>1. /\ reqs[j].whose \in Users /\ reqs[j].row.at <= people[reqs[j].whose].at
            /\ reqs[j].row.at = people[reqs[j].whose].at => reqs[j].row = people[reqs[j].whose]
        BY <2>1 DEF RequestFits
      <4>2. CASE reqs[j].whose = u
        BY <1>1, <1>4, <2>2, <4>1, <4>2
      <4>3. CASE reqs[j].whose # u
        BY <1>4, <4>1, <4>3
      <4> QED
        BY <4>2, <4>3
    <3>4. reqs'[j] = reqs[j]
      BY <1>3, <2>3
    <3> QED
      BY <2>1, <3>1, <3>2, <3>3, <3>4 DEF RequestFits
  <2>4. CASE j = k
    <3>1. KnowsIn(people', u, new.at, new.name)
      BY <1>1, <1>4 DEF KnowsIn, AnyPerson
    <3>2. (reqs[k].kind = "upload" \/ reqs[k].photo = TRUE) /\ reqs[k].held \in Users
          => KnowsIn(people', reqs[k].held, reqs[k].seen, reqs[k].name)
      BY <1>6, <2>1, <2>2, <2>4 DEF RequestFits
    <3>3. reqs[k].kind # "upload" /\ (reqs[k].photo = TRUE => reqs[k].kind = "profile")
      BY <1>1, <2>1, <2>4 DEF RequestFits
    <3> QED
      BY <1>3, <2>4, <3>1, <3>2, <3>3 DEF RequestFits
  <2> QED
    BY <2>3, <2>4
<1>9. ASSUME mixed' = FALSE PROVE Unmixed'
  <2>1. Unmixed
    BY <1>2, <1>9
  <2>2. \A j \in 1..sentReqs : Own(j)' <=> Own(j)
    BY <1>1, <1>3 DEF Own
  <2>3. ASSUME Own(k) PROVE session.at <= new.at
    <3>1. session.user = u
      BY <1>1, <2>1, <2>3 DEF Unmixed
    <3>2. session.at <= people[u].at
      BY <3>1 DEF SessionKnows, KnowsIn
    <3> QED
      BY <1>1, <1>2, <1>4, <3>2
  <2> QED
    BY <1>1, <1>2, <1>3, <2>1, <2>2, <2>3 DEF Unmixed
<1> QED
  BY <1>2, <1>5, <1>7, <1>8, <1>9

(***************************************************************************)
(* A request that ends leaves nothing; the answer of the page's own tells *)
(* the session the user it was made for, as of its write.                 *)
(***************************************************************************)
LEMMA EndsKeep ==
    ASSUME AccountInv, NEW k \in 1..sentReqs,
           ProfileAnswered(k) \/ OtherAnswered(k) \/ RequestFails(k)
    PROVE  AccountInv'
<1> USE DEF AccountInv
<1>1. /\ UNCHANGED <<people, token, sentReqs, mixed>>
      /\ reqs' = [reqs EXCEPT ![k] = SpentRequest]
      /\ reqs \in [1..sentReqs -> AnyRequest] /\ account \in Page
      /\ session \in [user : Users \cup {NoUser}, name : Names, at : Nat] /\ acked \in Nat
  BY DEF ProfileAnswered, OtherAnswered, RequestFails, Finish, AccountShapes
<1>2. /\ SpentRequest \in AnyRequest /\ SpentRequest.stage = "over"
      /\ SpentRequest.kind = "secret" /\ SpentRequest.photo = FALSE
  BY NamesExist DEF SpentRequest, NewPerson, AnyRequest, AnyPerson
<1>3. /\ reqs' \in [1..sentReqs -> AnyRequest] /\ reqs'[k] = SpentRequest
      /\ \A j \in 1..sentReqs : j # k => reqs'[j] = reqs[j]
  BY <1>1, <1>2
<1>4. \A j \in 1..sentReqs' : RequestFits(reqs'[j], people')
  BY <1>1, <1>2, <1>3 DEF RequestFits
<1>5. \A j \in 1..sentReqs : Own(j)' <=> Own(j) /\ j # k
  BY <1>2, <1>3 DEF Own
<1>6. reqs[k] \in AnyRequest /\ reqs[k].row \in AnyPerson /\ RequestFits(reqs[k], people)
  BY <1>1 DEF AnyRequest
<1>7. Idle(k) \in Page /\ Idle(k).open = account.open
  BY <1>1 DEF Idle, Page
<1>8. CASE ProfileAnswered(k)
  <2>1. /\ reqs[k].kind = "profile" /\ reqs[k].stage = "answer" /\ session' = Told(k)
        /\ acked' = IF reqs[k].whose = token /\ reqs[k].row.at > acked THEN reqs[k].row.at ELSE acked
    BY <1>8 DEF ProfileAnswered
  <2>2. /\ session'.user = reqs[k].whose /\ session'.at = reqs[k].row.at
        /\ session'.name = reqs[k].row.name
        /\ session' \in [user : Users \cup {NoUser}, name : Names, at : Nat] /\ acked' \in Nat
    BY <1>1, <1>6, <2>1 DEF Told, AnyRequest, AnyPerson
  <2>3. account' \in Page /\ account'.open = account.open
    BY <1>1, <1>7, <1>8, <2>2 DEF ProfileAnswered, Page
  <2>4. AccountShapes'
    BY <1>1, <1>3, <2>2, <2>3 DEF AccountShapes
  <2>5. SessionKnows'
    BY <1>1, <1>6, <2>1, <2>2 DEF SessionKnows, RequestFits
  <2>6. ASSUME mixed' = FALSE PROVE Unmixed'
    <3>1. Unmixed /\ Own(k)
      BY <1>1, <2>1, <2>6 DEF Own
    <3>2. session'.user = token' /\ session.at <= reqs[k].row.at /\ acked <= session.at
      BY <1>1, <2>1, <2>2, <3>1 DEF Unmixed
    <3>3. acked' <= session'.at
      BY <1>1, <2>1, <2>2, <3>2
    <3>4. \A j \in 1..sentReqs' : ~Own(j)'
      BY <1>1, <1>5, <3>1 DEF Unmixed
    <3> QED
      BY <3>2, <3>3, <3>4 DEF Unmixed
  <2> QED
    BY <1>4, <2>4, <2>5, <2>6
<1>9. CASE OtherAnswered(k) \/ RequestFails(k)
  <2>1. UNCHANGED <<session, acked>> /\ account' \in Page /\ account'.open = account.open
    BY <1>1, <1>7, <1>9 DEF OtherAnswered, RequestFails
  <2>2. AccountShapes' /\ SessionKnows'
    BY <1>1, <1>3, <2>1 DEF AccountShapes, SessionKnows
  <2>3. mixed' = FALSE => Unmixed'
    BY <1>1, <1>3, <1>5, <2>1 DEF Unmixed
  <2> QED
    BY <1>4, <2>2, <2>3
<1> QED
  BY <1>8, <1>9

(***************************************************************************)
(* Every step of the account keeps the invariant.                         *)
(***************************************************************************)
LEMMA AccountKeeps == AccountInv /\ [AccountNext]_accountVars => AccountInv'
<1> SUFFICES ASSUME AccountInv, [AccountNext]_accountVars PROVE AccountInv'
  OBVIOUS
<1>1. CASE UNCHANGED accountVars
  BY <1>1 DEF accountVars, AccountInv, AccountShapes, SessionKnows, Unmixed, Own
<1>2. CASE Login \/ Logout \/ OpenAccount \/ LeaveAccount \/ TypeName
  BY <1>2, SessionSteps
<1>3. CASE SaveProfile \/ PickPhoto \/ ChangePassword \/ Elsewhere
  BY <1>3, RequestsMade
<1>4. ASSUME NEW k \in 1..sentReqs,
             \/ ReadPerson(k) \/ WritePerson(k) \/ PhotoStored(k)
             \/ ProfileAnswered(k) \/ OtherAnswered(k) \/ RequestFails(k)
      PROVE  AccountInv'
  BY <1>4, ReadsKeep, WriteKeeps, EndsKeep
<1> QED
  BY <1>1, <1>2, <1>3, <1>4 DEF AccountNext

(***************************************************************************)
(* With no request of the page under way the session shows the user whose *)
(* token is stored, as of the last save that was answered or later, unless*)
(* requests mixed, for any number of users, names and requests.           *)
(***************************************************************************)
THEOREM SessionAlwaysTellsTruth == AccountSpec => []SessionTellsTruth
<1>1. ASSUME AccountInv PROVE SessionTellsTruth
  <2>1. session.at \in Nat /\ acked \in Nat /\ mixed \in BOOLEAN
    BY <1>1 DEF AccountInv, AccountShapes
  <2> QED
    BY <1>1, <2>1 DEF AccountInv, Unmixed, SessionTellsTruth
<1> QED
  BY <1>1, AccountStarts, AccountKeeps, PTL DEF AccountSpec

(***************************************************************************)
(* Only its own handler's write answers a request that was read.          *)
(***************************************************************************)
LEMMA SavesAreWrites ==
    ASSUME AccountInv, AccountNext, NEW k \in 1..sentReqs, Saves(k)
    PROVE  WritePerson(k)
<1> USE DEF Saves
<1>1. AccountShapes
  BY DEF AccountInv
<1>2. CASE Login \/ Logout \/ OpenAccount \/ LeaveAccount \/ TypeName
  BY <1>1, <1>2, OrphanedFit DEF Login, Logout, OpenAccount, LeaveAccount, TypeName
<1>3. CASE SaveProfile \/ PickPhoto \/ ChangePassword \/ Elsewhere
  <2>1. PICK kind, u, n : Make(kind, u, n)
    BY <1>3 DEF SaveProfile, PickPhoto, ChangePassword, Elsewhere
  <2>2. k \in 1..sentReqs' /\ k # sentReqs'
    BY <1>1, <2>1 DEF Make, AccountShapes
  <2>3. reqs'[k] = reqs[k]
    BY <2>1, <2>2 DEF Make
  <2> QED
    BY <2>3
<1>4. ASSUME NEW j \in 1..sentReqs, j # k,
             \/ ReadPerson(j) \/ WritePerson(j) \/ PhotoStored(j)
             \/ ProfileAnswered(j) \/ OtherAnswered(j) \/ RequestFails(j)
      PROVE  FALSE
  <2>1. reqs'[k] = reqs[k]
    BY <1>1, <1>4 DEF AccountShapes, ReadPerson, WritePerson, PhotoStored,
                      ProfileAnswered, OtherAnswered, RequestFails, Finish
  <2> QED
    BY <2>1
<1>5. CASE ReadPerson(k) \/ PhotoStored(k)
  BY <1>5 DEF ReadPerson, PhotoStored
<1>6. CASE ProfileAnswered(k) \/ OtherAnswered(k) \/ RequestFails(k)
  <2>1. reqs'[k] = SpentRequest
    BY <1>1, <1>6 DEF AccountShapes, ProfileAnswered, OtherAnswered, RequestFails, Finish
  <2> QED
    BY <2>1 DEF SpentRequest
<1> QED
  BY <1>2, <1>3, <1>4, <1>5, <1>6 DEF AccountNext

(***************************************************************************)
(* A handler that saves the whole row changes a field its request is not  *)
(* about only if somebody wrote the row after it was read, for any number *)
(* of users and requests.                                                  *)
(***************************************************************************)
THEOREM OtherFieldsAlwaysKept == AccountSpec => OtherFieldsKept
<1> DEFINE Kept(k) ==
       LET old == people[reqs[k].whose]
           new == people'[reqs[k].whose]
       IN  \/ old.at > reqs[k].row.at
           \/ /\ reqs[k].kind # "secret" => new.rest = old.rest
              /\ reqs[k].kind = "secret" => new.name = old.name
              /\ ~reqs[k].photo => new.photo = old.photo
<1>1. ASSUME AccountInv, [AccountNext]_accountVars, NEW k \in 1..sentReqs, Saves(k) PROVE Kept(k)
  <2>1. CASE UNCHANGED accountVars
    BY <1>1, <2>1 DEF accountVars, Saves
  <2>2. CASE AccountNext
    <3>1. WritePerson(k)
      BY <1>1, <2>2, SavesAreWrites
    <3>2. PICK u \in Users, new \in AnyPerson :
              /\ u = reqs[k].whose /\ reqs[k].stage = "read"
              /\ people' = [people EXCEPT ![u] = new]
              /\ IF reqs[k].kind = "secret"
                 THEN new.name = reqs[k].row.name /\ new.photo = reqs[k].row.photo
                 ELSE /\ new.name = reqs[k].name /\ new.rest = reqs[k].row.rest
                      /\ reqs[k].photo = FALSE => new.photo = reqs[k].row.photo
      BY <1>1, <3>1, WritesRow
    <3>3. /\ people \in [Users -> AnyPerson] /\ people'[u] = new
          /\ reqs[k].photo \in BOOLEAN /\ reqs[k].row.at \in Nat /\ people[u].at \in Nat
      BY <1>1, <3>2 DEF AccountInv, AccountShapes, AnyPerson, AnyRequest
    <3>4. reqs[k].row.at <= people[u].at /\ (reqs[k].row.at = people[u].at => reqs[k].row = people[u])
      BY <1>1, <3>2 DEF AccountInv, RequestFits
    <3> QED
      BY <3>2, <3>3, <3>4
  <2> QED
    BY <1>1, <2>1, <2>2
<1>2. AccountInv /\ [AccountNext]_accountVars
      => [\A k \in 1..sentReqs : Saves(k) => Kept(k)]_accountVars
  BY <1>1
<1>3. AccountSpec => [][\A k \in 1..sentReqs : Saves(k) => Kept(k)]_accountVars
  BY <1>2, AccountStarts, AccountKeeps, PTL DEF AccountSpec
<1> QED
  BY <1>3 DEF OtherFieldsKept

(***************************************************************************)
(* Changing the photo changes the rest of the profile only if that was    *)
(* changed after the session was told of it, or the user logged in is not *)
(* the one who picked the photo any more.                                  *)
(***************************************************************************)
THEOREM PhotoAlwaysKeepsProfile == AccountSpec => PhotoKeepsProfile
<1> DEFINE Renamed(k) ==
       /\ Saves(k) /\ reqs[k].photo /\ reqs[k].held = reqs[k].whose
       /\ people'[reqs[k].whose].name # people[reqs[k].whose].name
           Since(k) == people[reqs[k].whose].named > reqs[k].seen
<1>1. ASSUME AccountInv, [AccountNext]_accountVars, NEW k \in 1..sentReqs, Renamed(k) PROVE Since(k)
  <2>1. CASE UNCHANGED accountVars
    BY <1>1, <2>1 DEF accountVars
  <2>2. CASE AccountNext
    <3>1. WritePerson(k)
      BY <1>1, <2>2, SavesAreWrites
    <3>2. PICK u \in Users, new \in AnyPerson :
              /\ u = reqs[k].whose
              /\ people' = [people EXCEPT ![u] = new]
              /\ IF reqs[k].kind = "secret"
                 THEN new.name = reqs[k].row.name /\ new.photo = reqs[k].row.photo
                 ELSE /\ new.name = reqs[k].name /\ new.rest = reqs[k].row.rest
                      /\ reqs[k].photo = FALSE => new.photo = reqs[k].row.photo
      BY <1>1, <3>1, WritesRow
    <3>3. /\ people \in [Users -> AnyPerson] /\ people'[u] = new
          /\ reqs[k].photo = TRUE /\ reqs[k].seen \in Nat /\ people[u].named \in Nat
      BY <1>1, <3>2 DEF AccountInv, AccountShapes, AnyPerson, AnyRequest
    <3>4. reqs[k].kind = "profile" /\ KnowsIn(people, u, reqs[k].seen, reqs[k].name)
      BY <1>1, <3>2, <3>3 DEF AccountInv, RequestFits
    <3>5. new.name = reqs[k].name /\ new.name # people[u].name
      BY <1>1, <3>2, <3>3, <3>4
    <3> QED
      BY <3>2, <3>3, <3>4, <3>5 DEF KnowsIn
  <2> QED
    BY <1>1, <2>1, <2>2
<1>2. AccountInv /\ [AccountNext]_accountVars
      => [\A k \in 1..sentReqs : Renamed(k) => Since(k)]_accountVars
  BY <1>1
<1>3. AccountSpec => [][\A k \in 1..sentReqs : Renamed(k) => Since(k)]_accountVars
  BY <1>2, AccountStarts, AccountKeeps, PTL DEF AccountSpec
<1> QED
  BY <1>3 DEF PhotoKeepsProfile

(***************************************************************************)
(* The bounds of the account.  Every write of a row is of a request of its*)
(* own that was then answered or failed, so that no row was written more  *)
(* often than requests were made.                                          *)
(***************************************************************************)
Past(q, n) == {k \in 1..n : q[k].stage \in {"answer", "over"}}

AccountCounts ==
    /\ AccountTypeOK
    /\ \A u \in Users : people[u].at <= Cardinality(Past(reqs, sentReqs))

(***************************************************************************)
(* Of the requests made so far, those that are past are finite in number. *)
(***************************************************************************)
LEMMA PastFinite ==
    ASSUME NEW n \in 0..MaxReqs, NEW q
    PROVE  IsFiniteSet(Past(q, n)) /\ Cardinality(Past(q, n)) \in 0..MaxReqs
<1>1. IsFiniteSet(1..n) /\ Cardinality(1..n) = n
  <2>1. n \in Int /\ 1 \in Int /\ n >= 0
    BY AccountAssumption
  <2>2. IsFiniteSet(1..n) /\ Cardinality(1..n) = IF 1 > n THEN 0 ELSE n - 1 + 1
    BY <2>1, FS_Interval
  <2> QED
    BY <2>1, <2>2
<1>2. Past(q, n) \in SUBSET (1..n)
  BY DEF Past
<1>3. IsFiniteSet(Past(q, n)) /\ Cardinality(Past(q, n)) <= n
  BY <1>1, <1>2, FS_Subset
<1>4. Cardinality(Past(q, n)) \in Nat
  BY <1>3, FS_CardinalityType
<1> QED
  BY <1>3, <1>4, AccountAssumption

(***************************************************************************)
(* A request that is past stays so: the count grows with the requests.    *)
(***************************************************************************)
LEMMA PastGrows ==
    ASSUME NEW m \in 0..MaxReqs, NEW n \in 0..MaxReqs, NEW q, NEW r, m <= n,
           \A k \in 1..m : q[k].stage \in {"answer", "over"} => r[k].stage \in {"answer", "over"}
    PROVE  Cardinality(Past(q, m)) <= Cardinality(Past(r, n))
<1>1. Past(q, m) \in SUBSET Past(r, n)
  BY AccountAssumption DEF Past
<1>2. IsFiniteSet(Past(r, n))
  BY PastFinite
<1> QED
  BY <1>1, <1>2, FS_Subset

(***************************************************************************)
(* At first nothing was written.                                          *)
(***************************************************************************)
LEMMA CountsStart == AccountInit => AccountCounts
<1> SUFFICES ASSUME AccountInit PROVE AccountCounts
  OBVIOUS
<1>1. 1..sentReqs = {} /\ 0 \in 0..MaxReqs /\ sentReqs = 0 /\ acked = 0 /\ mixed = FALSE
  BY AccountAssumption DEF AccountInit
<1>2. NewPerson \in Person /\ NewPerson.at = 0
  BY <1>1, NamesExist DEF NewPerson, Person
<1>3. people \in [Users -> Person] /\ \A u \in Users : people[u].at = 0
  BY <1>2 DEF AccountInit
<1>4. session \in Session /\ token \in Users \cup {NoUser} /\ account \in Page
  BY <1>1, NamesExist DEF AccountInit, LoggedOut, ClosedPage, Session, Page
<1>5. reqs \in [1..sentReqs -> Request]
  BY <1>1 DEF AccountInit
<1>6. Cardinality(Past(reqs, sentReqs)) \in Nat
  BY <1>1, PastFinite
<1>7. \A u \in Users : people[u].at <= Cardinality(Past(reqs, sentReqs))
  BY <1>3, <1>6
<1>8. AccountTypeOK
  BY <1>1, <1>3, <1>4, <1>5 DEF AccountTypeOK
<1> QED
  BY <1>7, <1>8 DEF AccountCounts

(***************************************************************************)
(* Every step of the account keeps the bounds.                            *)
(***************************************************************************)
LEMMA CountsKept ==
    ASSUME AccountInv, AccountInv', AccountCounts, [AccountNext]_accountVars
    PROVE  AccountCounts'
<1> USE DEF AccountCounts
<1>1. /\ people \in [Users -> Person] /\ session \in Session /\ token \in Users \cup {NoUser}
      /\ account \in Page /\ sentReqs \in 0..MaxReqs /\ reqs \in [1..sentReqs -> Request]
      /\ acked \in 0..MaxReqs /\ 0 \in 0..MaxReqs
  BY AccountAssumption DEF AccountTypeOK
<1>2. \A u \in Users : people[u].at \in 0..MaxReqs
  BY <1>1 DEF Person
<1>3. /\ account' \in Page /\ token' \in Users \cup {NoUser} /\ mixed' \in BOOLEAN
      /\ \A k \in 1..sentReqs' : reqs'[k].whose = NoUser => reqs'[k].stage = "over"
      /\ \A u \in Users : people'[u].at \in Nat
  BY AccountAssumption DEF AccountInv, AccountShapes, RequestFits, AnyPerson
\* What a step is to keep, when it writes no row.
<1>4. ASSUME people' = people, sentReqs' \in 0..MaxReqs, sentReqs <= sentReqs',
             session' \in Session, acked' \in 0..MaxReqs,
             reqs' \in [1..sentReqs' -> Request],
             \A k \in 1..sentReqs :
                reqs[k].stage \in {"answer", "over"} => reqs'[k].stage \in {"answer", "over"}
      PROVE  AccountCounts'
  <2>1. Cardinality(Past(reqs, sentReqs)) <= Cardinality(Past(reqs', sentReqs'))
    BY <1>1, <1>4, PastGrows
  <2>2. /\ Cardinality(Past(reqs, sentReqs)) \in Nat
        /\ Cardinality(Past(reqs', sentReqs')) \in Nat
    BY <1>1, <1>4, PastFinite
  <2>3. \A u \in Users : people'[u].at <= Cardinality(Past(reqs', sentReqs'))
    BY <1>2, <1>4, <2>1, <2>2
  <2> QED
    BY <1>1, <1>3, <1>4, <2>3 DEF AccountTypeOK
<1>5. CASE UNCHANGED accountVars
  <2>1. UNCHANGED <<people, session, sentReqs, reqs, acked>>
    BY <1>5 DEF accountVars
  <2> QED
    BY <1>1, <1>4, <2>1
<1>6. CASE Login \/ Logout \/ OpenAccount \/ LeaveAccount \/ TypeName
  <2>1. UNCHANGED <<people, sentReqs>> /\ reqs' \in {reqs, Orphaned} /\ acked' \in {0, acked}
    BY <1>6 DEF Login, Logout, OpenAccount, LeaveAccount, TypeName
  <2>2. Orphaned \in [1..sentReqs -> Request]
    BY <1>1 DEF Orphaned, Request
  <2>3. \A k \in 1..sentReqs : Orphaned[k].stage = reqs[k].stage
    BY OrphanedFit DEF AccountInv
  <2>4. session' \in Session
    BY <1>1, <1>6, NamesExist
       DEF Login, Logout, OpenAccount, LeaveAccount, TypeName, LoggedOut, Session, Person
  <2> QED
    BY <1>1, <1>4, <2>1, <2>2, <2>3, <2>4
<1>7. CASE SaveProfile \/ PickPhoto \/ ChangePassword \/ Elsewhere
  <2>1. PICK kind \in {"profile", "upload", "elsewhere", "secret"}, u \in Users, n \in Names :
           Make(kind, u, n)
    <3>1. token # NoUser => token \in Users
      BY <1>1
    <3>2. account.open = TRUE => token \in Users
      BY DEF AccountInv, AccountShapes
    <3>3. account.text \in Names /\ session.name \in Names /\ account.open \in BOOLEAN
      BY <1>1 DEF Page, Session
    <3> QED
      BY <1>7, <3>2, <3>3, NamesExist DEF SaveProfile, PickPhoto, ChangePassword, Elsewhere
  <2>2. UNCHANGED <<people, session, acked>>
    BY <1>7 DEF SaveProfile, PickPhoto, ChangePassword, Elsewhere
  <2> DEFINE new == [kind |-> kind, whose |-> u, name |-> n, photo |-> FALSE,
                     held |-> session.user, seen |-> session.at,
                     mine |-> kind \in {"profile", "upload"},
                     row |-> NewPerson, stage |-> "sent"]
  <2>3. sentReqs' = sentReqs + 1 /\ sentReqs' \in 0..MaxReqs /\ sentReqs \in Nat
    BY <1>1, <2>1, AccountAssumption DEF Make
  <2>4. NewPerson \in Person
    BY <1>1, NamesExist DEF NewPerson, Person
  <2>5. new \in Request
    BY <1>1, <2>4 DEF Request, Session
  <2>6. reqs' = [k \in 1..sentReqs' |-> IF k # sentReqs' THEN reqs[k] ELSE new]
    BY <2>1 DEF Make
  <2> HIDE DEF new
  <2>7. reqs' \in [1..sentReqs' -> Request] /\ \A k \in 1..sentReqs : reqs'[k] = reqs[k]
    BY <1>1, <2>3, <2>5, <2>6
  <2> QED
    BY <1>1, <1>4, <2>2, <2>3, <2>7
<1>8. ASSUME NEW k \in 1..sentReqs, ReadPerson(k) \/ PhotoStored(k)
      PROVE  AccountCounts'
  <2>1. UNCHANGED <<people, session, sentReqs, acked>> /\ reqs[k].stage = "sent"
    BY <1>8 DEF ReadPerson, PhotoStored
  <2>2. RequestFits(reqs[k], people) /\ reqs[k] \in Request
    BY <1>1 DEF AccountInv
  <2>3. reqs[k].whose \in Users /\ people[reqs[k].whose] \in Person
    BY <1>1, <2>1, <2>2 DEF RequestFits
  <2>4. PICK r \in Request : reqs' = [reqs EXCEPT ![k] = r]
    <3>1. CASE ReadPerson(k)
      <4>1. [reqs[k] EXCEPT !.stage = "read", !.row = people[reqs[k].whose]] \in Request
        BY <2>2, <2>3 DEF Request
      <4> QED
        BY <1>1, <3>1, <4>1 DEF ReadPerson
    <3>2. CASE PhotoStored(k)
      <4>1. [reqs[k] EXCEPT !.kind = "profile", !.photo = TRUE, !.whose = token] \in Request
        BY <1>1, <2>2 DEF Request
      <4> QED
        BY <1>1, <3>2, <4>1 DEF PhotoStored
    <3> QED
      BY <1>8, <3>1, <3>2
  <2>5. reqs' \in [1..sentReqs' -> Request] /\ \A j \in 1..sentReqs : j # k => reqs'[j] = reqs[j]
    BY <1>1, <2>1, <2>4
  <2> QED
    BY <1>1, <1>4, <2>1, <2>5
<1>9. ASSUME NEW k \in 1..sentReqs, WritePerson(k)
      PROVE  AccountCounts'
  <2>1. PICK u \in Users, new \in AnyPerson :
           /\ u = reqs[k].whose /\ reqs[k].stage = "read"
           /\ people' = [people EXCEPT ![u] = new]
           /\ new.at = people[u].at + 1
           /\ new.named = IF new.name # people[u].name THEN people[u].at + 1 ELSE people[u].named
           /\ IF reqs[k].kind = "secret"
              THEN new.name = reqs[k].row.name /\ new.photo = reqs[k].row.photo
              ELSE /\ new.name = reqs[k].name /\ new.rest = reqs[k].row.rest
                   /\ reqs[k].photo = FALSE => new.photo = reqs[k].row.photo
           /\ reqs' = [reqs EXCEPT ![k].stage = "answer", ![k].row = new]
    BY <1>9, WritesRow
  <2>2. UNCHANGED <<session, sentReqs, acked>>
    BY <1>9 DEF WritePerson
  <2>3. /\ reqs[k] \in Request /\ reqs[k].row \in Person /\ people[u] \in Person
        /\ k \in 0..MaxReqs /\ reqs[k].name \in Names
    BY <1>1, AccountAssumption DEF Request
  <2>4. reqs' = [reqs EXCEPT ![k] = [reqs[k] EXCEPT !.stage = "answer", !.row = new]]
    BY <1>1, <2>1
  <2>5. reqs'[k].stage = "answer" /\ \A j \in 1..sentReqs : j # k => reqs'[j] = reqs[j]
    BY <1>1, <2>3, <2>4 DEF Request
  <2>6. Past(reqs', sentReqs') = Past(reqs, sentReqs) \cup {k} /\ k \notin Past(reqs, sentReqs)
    BY <2>1, <2>2, <2>5 DEF Past
  <2>7. IsFiniteSet(Past(reqs, sentReqs)) /\ Cardinality(Past(reqs, sentReqs)) \in 0..MaxReqs
    BY <1>1, PastFinite
  <2>8. Cardinality(Past(reqs', sentReqs')) = Cardinality(Past(reqs, sentReqs)) + 1
    BY <2>6, <2>7, FS_AddElement
  <2>9. Cardinality(Past(reqs', sentReqs')) \in 0..MaxReqs
    BY <1>1, <2>2, PastFinite
  <2>10. people[u].at + 1 \in 0..MaxReqs
    BY <1>2, <2>7, <2>8, <2>9, AccountAssumption
  <2>11. new \in Person
    <3> DEFINE changed == Changed(k)
    <3>1. people' = [people EXCEPT ![u] = Numbered(changed, people[u])]
      BY <1>9, <2>1 DEF WritePerson
    <3>2. new = Numbered(changed, people[u])
      BY <1>1, <2>1, <3>1
    <3>3. changed \in Person
      <4>1. reqs[k].photo \in BOOLEAN
        BY <2>3 DEF Request
      <4>2. CASE reqs[k].kind = "secret"
        <5>1. changed = [reqs[k].row EXCEPT !.rest = k]
          BY <4>2 DEF Changed
        <5> QED
          BY <2>3, <5>1 DEF Person
      <4>3. CASE reqs[k].kind # "secret"
        <5>1. changed = [reqs[k].row EXCEPT !.name = reqs[k].name,
                            !.photo = IF reqs[k].photo THEN k ELSE reqs[k].row.photo]
          BY <4>3 DEF Changed
        <5> QED
          BY <2>3, <4>1, <5>1 DEF Person
      <4> QED
        BY <4>2, <4>3
    <3> HIDE DEF changed
    <3> DEFINE named == IF changed.name # people[u].name THEN people[u].at + 1 ELSE people[u].named
    <3>4. named \in 0..MaxReqs
      BY <2>3, <2>10 DEF Person
    <3>5. new = [changed EXCEPT !.at = people[u].at + 1, !.named = named]
      BY <3>2 DEF Numbered
    <3> HIDE DEF named
    <3> QED
      BY <2>10, <3>3, <3>4, <3>5 DEF Person
  <2>12. people' \in [Users -> Person] /\ reqs' \in [1..sentReqs' -> Request]
    <3>1. [reqs[k] EXCEPT !.stage = "answer", !.row = new] \in Request
      BY <2>3, <2>11 DEF Request
    <3> QED
      BY <1>1, <2>1, <2>2, <2>4, <2>11, <3>1
  <2>13. ASSUME NEW v \in Users
         PROVE  people'[v].at <= Cardinality(Past(reqs', sentReqs'))
    <3>1. people[v].at <= Cardinality(Past(reqs, sentReqs)) /\ people[v].at \in Nat
      BY <1>2, AccountAssumption
    <3>2. people'[v].at \in {people[v].at, people[v].at + 1}
      BY <1>1, <2>1
    <3> QED
      BY <2>7, <2>8, <3>1, <3>2
  <2> QED
    BY <1>1, <1>3, <2>2, <2>12, <2>13 DEF AccountTypeOK
<1>10. ASSUME NEW k \in 1..sentReqs,
              ProfileAnswered(k) \/ OtherAnswered(k) \/ RequestFails(k)
       PROVE  AccountCounts'
  <2>1. UNCHANGED <<people, sentReqs>> /\ reqs' = [reqs EXCEPT ![k] = SpentRequest]
    BY <1>10 DEF ProfileAnswered, OtherAnswered, RequestFails, Finish
  <2>2. SpentRequest \in Request /\ SpentRequest.stage = "over"
    BY <1>1, NamesExist DEF SpentRequest, NewPerson, Request, Person
  <2>3. /\ reqs' \in [1..sentReqs' -> Request] /\ reqs'[k].stage = "over"
        /\ \A j \in 1..sentReqs : j # k => reqs'[j] = reqs[j]
    BY <1>1, <2>1, <2>2
  <2>4. session' \in Session /\ acked' \in 0..MaxReqs
    <3>1. /\ reqs[k] \in Request /\ reqs[k].row \in Person /\ reqs[k].row.at \in 0..MaxReqs
          /\ reqs[k].row.name \in Names /\ reqs[k].whose \in Users \cup {NoUser}
      BY <1>1 DEF Request, Person
    <3>2. Told(k) \in Session
      BY <3>1 DEF Told, Session
    <3> QED
      BY <1>1, <1>10, <3>1, <3>2 DEF ProfileAnswered, OtherAnswered, RequestFails
  <2>5. \A j \in 1..sentReqs :
           reqs[j].stage \in {"answer", "over"} => reqs'[j].stage \in {"answer", "over"}
    BY <2>3
  <2> HIDE DEF AccountCounts
  <2> QED
    BY <1>1, <1>4, <2>1, <2>3, <2>4, <2>5
<1> QED
  BY <1>5, <1>6, <1>7, <1>8, <1>9, <1>10 DEF AccountNext

(***************************************************************************)
(* The rows, the session, the page and the requests keep their types, with*)
(* all numbers within the bound: no row is written twice for a request.   *)
(***************************************************************************)
THEOREM AccountTypeCorrect == AccountSpec => []AccountTypeOK
<1>1. AccountInv /\ AccountCounts /\ [AccountNext]_accountVars => AccountCounts' /\ AccountInv'
  BY AccountKeeps, CountsKept
<1>2. AccountCounts => AccountTypeOK
  BY DEF AccountCounts
<1> QED
  BY <1>1, <1>2, AccountStarts, CountsStart, PTL DEF AccountSpec

-----------------------------------------------------------------------------
(***************************************************************************)
(* The establishments.  A list of the cache holds establishments that met *)
(* the server's part of the filters of its key when it was read, and all  *)
(* of them unless they filled a page of the server's list; a request under*)
(* way asks for its key, and its answer is such a list.                    *)
(***************************************************************************)
Fitting(q, rows) == {h \in Hotels : /\ rows[h].free
                                   /\ q[1] \in {Any, rows[h].type}
                                   /\ rows[h].stars >= q[2]
                                   /\ q[3] \in {Any, rows[h].region}}

ListedFor(q, l) ==
    /\ l \in Listing
    /\ l.page \subseteq Fitting(q, l.at)
    /\ Cardinality(l.page) < ListSize => l.page = Fitting(q, l.at)

EntryFits(q, e) ==
    /\ e.data # NotAsked => ListedFor(q, e.data)
    /\ e.stage # "idle" => e.sent = q
    /\ e.stage = "read" => ListedFor(q, e.answer)

StaysInv ==
    /\ hotels \in [Hotels -> Hotel]
    /\ site \in Site
    /\ lists \in [Key -> Entry]
    /\ \A q \in Key : EntryFits(q, lists[q])

(***************************************************************************)
(* The page that opens has no filters, and the cache no lists.            *)
(***************************************************************************)
LEMMA NoFiltersIs == NoFilters \in StayFilter /\ NewSite \in Site /\ <<Any, 0, Any>> \in Key
BY StaysAssumption DEF NoFilters, StayFilter, NewSite, Site, Key

\* A list at rest holds what it is given and asks for nothing.
LEMMA SettledIs ==
    ASSUME NEW data \in Listing \cup {NotAsked}, NEW failed \in BOOLEAN
    PROVE  /\ Settled(data, failed) \in Entry
           /\ Settled(data, failed).data = data /\ Settled(data, failed).stage = "idle"
BY NoFiltersIs DEF Settled, Entry

\* The page opens with the invariant.
LEMMA StaysStart == StaysInit => StaysInv
<1> SUFFICES ASSUME StaysInit PROVE StaysInv
  OBVIOUS
<1>1. hotels \in [Hotels -> Hotel] /\ site \in Site
  BY StaysAssumption, NoFiltersIs DEF StaysInit
<1>2. \A q \in Key : lists[q] = Settled(NotAsked, FALSE)
  BY DEF StaysInit
<1>3. lists \in [Key -> Entry]
  BY SettledIs DEF StaysInit
<1>4. \A q \in Key : EntryFits(q, lists[q])
  BY <1>2, SettledIs DEF EntryFits
<1> QED
  BY <1>1, <1>3, <1>4 DEF StaysInv

(***************************************************************************)
(* A step that leaves the lists alone, and the filters in their types,    *)
(* keeps the invariant.                                                    *)
(***************************************************************************)
LEMMA ListsLeft ==
    ASSUME StaysInv, lists' = lists, hotels' \in [Hotels -> Hotel], site' \in Site
    PROVE  StaysInv'
BY DEF StaysInv

(***************************************************************************)
(* Every control of the panel leaves filters.                             *)
(***************************************************************************)
LEMMA FiltersStay ==
    ASSUME NEW f \in StayFilter, NEW g \in FilterSteps(f)
    PROVE  g \in StayFilter
<1>1. CASE g = NoFilters
  BY <1>1, NoFiltersIs
<1>2. CASE \E t \in Types \cup {Any} : g = [f EXCEPT !.type = t]
  BY <1>2 DEF StayFilter
<1>3. CASE \E s \in 1..MaxStars : g = [f EXCEPT !.stars = IF f.stars = s THEN 0 ELSE s]
  <2>1. PICK s \in 1..MaxStars : g = [f EXCEPT !.stars = IF f.stars = s THEN 0 ELSE s]
    BY <1>3
  <2>2. (IF f.stars = s THEN 0 ELSE s) \in 0..MaxStars
    BY StaysAssumption
  <2> QED
    BY <2>1, <2>2 DEF StayFilter
<1>4. CASE \E r \in PriceRanges : g = [f EXCEPT !.range = r]
  BY <1>4 DEF StayFilter
<1>5. CASE \E r \in Regions \cup {Any} : g = [f EXCEPT !.region = r]
  BY <1>5 DEF StayFilter
<1>6. CASE \E a \in Amenities : g = [f EXCEPT !.amenities = Toggled(f.amenities, a)]
  <2>1. PICK a \in Amenities : g = [f EXCEPT !.amenities = Toggled(f.amenities, a)]
    BY <1>6
  <2>2. Toggled(f.amenities, a) \in SUBSET Amenities
    BY DEF Toggled, StayFilter
  <2> QED
    BY <2>1, <2>2 DEF StayFilter
<1> QED
  BY <1>1, <1>2, <1>3, <1>4, <1>5, <1>6 DEF FilterSteps

(***************************************************************************)
(* The visitor's own steps, and the owner's.                              *)
(***************************************************************************)
LEMMA VisitorKeeps ==
    ASSUME StaysInv,
           \/ SearchStays \/ GoHome \/ ChangeFilters \/ OpenDetail \/ BackToList
           \/ OwnerWrites
    PROVE  StaysInv'
<1>1. lists' = lists /\ site \in Site /\ hotels \in [Hotels -> Hotel]
  BY DEF SearchStays, GoHome, ChangeFilters, OpenDetail, BackToList, OwnerWrites, StaysInv
<1>2. CASE SearchStays
  <2>1. PICK tab \in Tabs, text \in BOOLEAN, r \in Regions \cup {Any} :
          site' = IF tab = "hebergements"
                  THEN [NewSite EXCEPT !.view = "list", !.text = text, !.filters.region = r]
                  ELSE [NewSite EXCEPT !.view = "elsewhere"]
    BY <1>2 DEF SearchStays
  <2>2. [NoFilters EXCEPT !.region = r] \in StayFilter
    BY NoFiltersIs DEF StayFilter
  <2>3. site' = [view |-> "list", text |-> text, filters |-> [NoFilters EXCEPT !.region = r]]
        \/ site' = [view |-> "elsewhere", text |-> FALSE, filters |-> NoFilters]
    BY <2>1 DEF NewSite
  <2>4. site' \in Site
    <3>1. CASE site' = [view |-> "list", text |-> text, filters |-> [NoFilters EXCEPT !.region = r]]
      <4>1. PICK f \in StayFilter : f = [NoFilters EXCEPT !.region = r]
        BY <2>2
      <4> QED
        BY <3>1, <4>1 DEF Site
    <3>2. CASE site' = [view |-> "elsewhere", text |-> FALSE, filters |-> NoFilters]
      BY <3>2, NoFiltersIs DEF Site
    <3> QED
      BY <2>3, <3>1, <3>2
  <2> QED
    BY <1>1, <1>2, <2>4, ListsLeft DEF SearchStays
<1>3. CASE GoHome \/ OpenDetail \/ BackToList
  <2>1. site' \in Site
    BY <1>3, NoFiltersIs DEF GoHome, OpenDetail, BackToList, Site
  <2> QED
    BY <1>1, <1>3, <2>1, ListsLeft DEF GoHome, OpenDetail, BackToList
<1>4. CASE ChangeFilters
  <2>1. PICK f \in FilterSteps(site.filters) : site' = [site EXCEPT !.filters = f]
    BY <1>4 DEF ChangeFilters
  <2>2. f \in StayFilter
    BY <1>1, <2>1, FiltersStay DEF Site
  <2>3. site' \in Site
    BY <1>1, <2>1, <2>2 DEF Site
  <2> QED
    BY <1>1, <1>4, <2>3, ListsLeft DEF ChangeFilters
<1>5. CASE OwnerWrites
  <2>1. PICK h \in Hotels : \/ hotels' = [hotels EXCEPT ![h].free = ~hotels[h].free]
                            \/ \E p \in Prices : hotels' = [hotels EXCEPT ![h].price = p]
    BY <1>5 DEF OwnerWrites
  <2>2. hotels' \in [Hotels -> Hotel]
    BY <1>1, <2>1 DEF Hotel
  <2> QED
    BY <1>1, <1>5, <2>2, ListsLeft DEF OwnerWrites
<1> QED
  BY <1>2, <1>3, <1>4, <1>5

(***************************************************************************)
(* One entry of the cache changes into another that fits its key.         *)
(***************************************************************************)
LEMMA EntryKeeps ==
    ASSUME StaysInv, NEW q \in Key, NEW e \in Entry, EntryFits(q, e),
           lists' = [lists EXCEPT ![q] = e], UNCHANGED <<hotels, site>>
    PROVE  StaysInv'
<1>1. /\ lists' \in [Key -> Entry] /\ lists'[q] = e
      /\ \A k \in Key : k # q => lists'[k] = lists[k]
  BY DEF StaysInv
<1> QED
  BY <1>1 DEF StaysInv

(***************************************************************************)
(* A page of the rows that match is such a list: a full one, or all.      *)
(***************************************************************************)
LEMMA PageListed ==
    ASSUME hotels \in [Hotels -> Hotel], NEW q \in Key, NEW served \in SUBSET Matching(q),
           Cardinality(served) = IF Cardinality(Matching(q)) < ListSize
                               THEN Cardinality(Matching(q)) ELSE ListSize
    PROVE  ListedFor(q, [page |-> served, at |-> hotels])
<1>1. Matching(q) = Fitting(q, hotels) /\ Matching(q) \subseteq Hotels
  BY DEF Matching, Fitting
<1>2. IsFiniteSet(Matching(q))
  BY <1>1, StaysAssumption, FS_Subset
<1>3. Cardinality(served) = Cardinality(Matching(q)) => served = Matching(q)
  BY <1>2, FS_Subset
<1>4. Cardinality(served) < ListSize => served = Matching(q)
  <2> SUFFICES ASSUME Cardinality(served) < ListSize, Cardinality(served) = ListSize PROVE FALSE
    BY <1>3
  <2> QED
    BY StaysAssumption
<1>5. [page |-> served, at |-> hotels] \in Listing
  BY <1>1 DEF Listing
<1> QED
  BY <1>1, <1>4, <1>5 DEF ListedFor

(***************************************************************************)
(* An entry that is asked for keeps its rows, and says what was sent.      *)
(***************************************************************************)
LEMMA AskedForIs ==
    ASSUME NEW entry \in Entry, NEW q \in Key
    PROVE  /\ AskedFor(entry, q) \in Entry
           /\ AskedFor(entry, q).data = entry.data
           /\ AskedFor(entry, q).stage = "sent" /\ AskedFor(entry, q).sent = q
<1>1. PICK b \in BOOLEAN : b = IF entry.data = NotAsked THEN FALSE ELSE entry.failed
  BY DEF Entry
<1>2. AskedFor(entry, q) = [entry EXCEPT !.stage = "sent", !.sent = q, !.failed = b]
  BY <1>1 DEF AskedFor, Entry
<1> QED
  BY <1>2 DEF Entry

(***************************************************************************)
(* The requests: the filters go to the server, the answer goes under the  *)
(* key, and they are the same.                                             *)
(***************************************************************************)
LEMMA ListsKeep ==
    ASSUME StaysInv, AskList \/ \E q \in Key : ServeList(q) \/ ListArrives(q) \/ ListFails(q)
    PROVE  StaysInv'
<1>1. /\ lists \in [Key -> Entry] /\ site \in Site /\ hotels \in [Hotels -> Hotel]
      /\ \A q \in Key : lists[q] \in Entry /\ EntryFits(q, lists[q])
  BY DEF StaysInv
<1>2. CASE AskList
  <2>1. PICK f \in StayFilter : f = site.filters
    BY <1>1 DEF Site
  <2>2. PICK q \in Key : q = <<f.type, f.stars, f.region>>
    BY <2>1 DEF StayFilter, Key
  <2> DEFINE e == AskedFor(lists[q], q)
  <2>3. lists' = [lists EXCEPT ![q] = e] /\ UNCHANGED <<hotels, site>>
    <3>1. ListKey(site.filters) = q /\ <<site.filters.type, site.filters.stars, site.filters.region>> = q
      BY <2>1, <2>2 DEF ListKey
    <3>2. lists' = [lists EXCEPT ![ListKey(site.filters)] =
                      AskedFor(lists[ListKey(site.filters)],
                               <<site.filters.type, site.filters.stars, site.filters.region>>)]
      BY <1>2, Zenon DEF AskList
    <3>3. lists' = [lists EXCEPT ![q] = e]
      BY <3>1, <3>2, Zenon
    <3> QED
      BY <1>2, <3>3 DEF AskList
  <2>4. e \in Entry /\ e.data = lists[q].data /\ e.stage = "sent" /\ e.sent = q
    BY <1>1, <2>2, AskedForIs
  <2> HIDE DEF e
  <2>5. EntryFits(q, e)
    BY <1>1, <2>4 DEF EntryFits
  <2> QED
    BY <2>3, <2>4, <2>5, EntryKeeps
<1>3. ASSUME NEW q \in Key, ServeList(q) PROVE StaysInv'
  <2>1. lists[q].stage = "sent" /\ lists[q].sent = q /\ UNCHANGED <<hotels, site>>
    BY <1>1, <1>3 DEF ServeList, EntryFits
  <2>2. CASE lists' = [lists EXCEPT ![q].stage = "refused"]
    <3> DEFINE e == [lists[q] EXCEPT !.stage = "refused"]
    <3>1. lists' = [lists EXCEPT ![q] = e]
      BY <1>1, <2>2
    <3>2. e \in Entry /\ e.data = lists[q].data /\ e.stage = "refused" /\ e.sent = q
      BY <1>1, <2>1 DEF Entry
    <3> HIDE DEF e
    <3>3. EntryFits(q, e)
      BY <1>1, <3>2 DEF EntryFits
    <3> QED
      BY <2>1, <3>1, <3>2, <3>3, EntryKeeps
  <2>3. CASE \E served \in SUBSET Matching(q) :
                /\ Cardinality(served) = IF Cardinality(Matching(q)) < ListSize
                                       THEN Cardinality(Matching(q)) ELSE ListSize
                /\ lists' = [lists EXCEPT ![q].stage = "read",
                                          ![q].answer = [page |-> served, at |-> hotels]]
    <3>1. PICK served \in SUBSET Matching(q) :
                /\ Cardinality(served) = IF Cardinality(Matching(q)) < ListSize
                                       THEN Cardinality(Matching(q)) ELSE ListSize
                /\ lists' = [lists EXCEPT ![q].stage = "read",
                                          ![q].answer = [page |-> served, at |-> hotels]]
      BY <2>3
    <3>2. PICK l : l = [page |-> served, at |-> hotels]
      OBVIOUS
    <3>3. ListedFor(q, l)
      BY <1>1, <3>1, <3>2, PageListed
    <3>4. l \in Listing
      BY <3>3 DEF ListedFor
    <3> DEFINE e == [lists[q] EXCEPT !.stage = "read", !.answer = l]
    <3>5. lists' = [lists EXCEPT ![q] = e]
      BY <1>1, <3>1, <3>2
    <3>6. e \in Entry /\ e.data = lists[q].data /\ e.stage = "read" /\ e.sent = q /\ e.answer = l
      BY <1>1, <2>1, <3>4 DEF Entry
    <3> HIDE DEF e
    <3>7. EntryFits(q, e)
      BY <1>1, <3>3, <3>6 DEF EntryFits
    <3> QED
      BY <2>1, <3>5, <3>6, <3>7, EntryKeeps
  <2> QED
    BY <1>3, <2>1, <2>2, <2>3 DEF ServeList
<1>4. ASSUME NEW q \in Key, ListArrives(q) \/ ListFails(q) PROVE StaysInv'
  <2>1. /\ UNCHANGED <<hotels, site>>
        /\ \/ lists' = [lists EXCEPT ![q] = Settled(lists[q].answer, FALSE)]
              /\ lists[q].stage = "read"
           \/ lists' = [lists EXCEPT ![q] = Settled(lists[q].data, TRUE)]
    BY <1>4 DEF ListArrives, ListFails
  <2>2. lists[q].answer \in Listing \cup {NotAsked} /\ lists[q].data \in Listing \cup {NotAsked}
    BY <1>1 DEF Entry
  <2>3. /\ Settled(lists[q].data, TRUE) \in Entry
        /\ EntryFits(q, Settled(lists[q].data, TRUE))
    BY <1>1, <2>2, SettledIs DEF EntryFits
  <2>4. lists[q].stage = "read" =>
           /\ Settled(lists[q].answer, FALSE) \in Entry
           /\ EntryFits(q, Settled(lists[q].answer, FALSE))
    BY <1>1, <2>2, SettledIs DEF EntryFits
  <2> QED
    BY <2>1, <2>3, <2>4, EntryKeeps
<1> QED
  BY <1>2, <1>3, <1>4

\* Every step of the page keeps it.
LEMMA StaysKeep == StaysInv /\ [StaysNext]_stayVars => StaysInv'
<1> SUFFICES ASSUME StaysInv, [StaysNext]_stayVars PROVE StaysInv'
  OBVIOUS
<1>1. CASE UNCHANGED stayVars
  BY <1>1 DEF stayVars, StaysInv
<1> QED
  BY <1>1, VisitorKeeps, ListsKeep DEF StaysNext

(***************************************************************************)
(* A list on the screen offers nothing but establishments that met the    *)
(* filters and the name searched, and all of them unless they filled a    *)
(* page of the server's list, for every catalogue and every filter.       *)
(***************************************************************************)
THEOREM OffersAlwaysMeetFilters == StaysSpec => []OffersMeetFilters
<1>1. ASSUME StaysInv PROVE OffersMeetFilters
  <2> SUFFICES ASSUME ListNow.data # NotAsked, ~ListNow.failed
               PROVE  LET meeting == {h \in Hotels : Meets(site.filters, site.text, ListNow.data.at[h])}
                      IN  /\ OnOffer \subseteq meeting
                          /\ Cardinality(ListNow.data.page) < ListSize => OnOffer = meeting
    BY DEF OffersMeetFilters
  <2>1. PICK f \in StayFilter : f = site.filters
    BY <1>1 DEF StaysInv, Site
  <2>2. PICK q \in Key : q = <<f.type, f.stars, f.region>>
    BY <2>1 DEF StayFilter, Key
  <2>3. q[1] = f.type /\ q[2] = f.stars /\ q[3] = f.region
    BY <2>2
  <2>4. PICK l : l = ListNow.data
    OBVIOUS
  <2>5. ListedFor(q, l)
    BY <1>1, <2>1, <2>2, <2>4 DEF StaysInv, EntryFits, ListNow, ListKey
  <2>6. OnOffer = {h \in l.page : Passes(f, l.at[h], site.text)}
    BY <2>1, <2>4 DEF OnOffer
  <2>7. \A h \in Hotels : Meets(f, site.text, l.at[h])
                          <=> h \in Fitting(q, l.at) /\ Passes(f, l.at[h], site.text)
    BY <2>3 DEF Meets, Fitting, Passes
  <2>8. l.page \subseteq Hotels
    BY <2>5 DEF ListedFor, Fitting
  <2> QED
    BY <2>1, <2>4, <2>5, <2>6, <2>7, <2>8 DEF ListedFor
<1> QED
  BY <1>1, StaysStart, StaysKeep, PTL DEF StaysSpec

SpentFits == spent \in [reads : 0..MaxReads, steps : 0..MaxSteps, trouble : 0..MaxTrouble]

\* Reads, changes of the filters and failures are counted up to their bounds.
LEMMA SpentStays == SpentFits /\ [StaysNext]_stayVars => SpentFits'
<1> SUFFICES ASSUME SpentFits, [StaysNext]_stayVars PROVE SpentFits'
  OBVIOUS
<1> USE StaysAssumption DEF SpentFits
<1>1. CASE UNCHANGED spent
  BY <1>1
<1>2. CASE Spend("steps") /\ spent.steps < MaxSteps
  BY <1>2 DEF Spend
<1>3. CASE Spend("reads") /\ spent.reads < MaxReads
  BY <1>3 DEF Spend
<1>4. CASE Spend("trouble") /\ spent.trouble < MaxTrouble
  BY <1>4 DEF Spend
<1>5. CASE SearchStays \/ GoHome \/ OpenDetail \/ BackToList
  BY <1>1, <1>5 DEF SearchStays, GoHome, OpenDetail, BackToList
<1>6. CASE ChangeFilters \/ AskList \/ OwnerWrites
  BY <1>2, <1>3, <1>4, <1>6 DEF ChangeFilters, AskList, OwnerWrites
<1>7. CASE \E k \in Key : ServeList(k) \/ ListArrives(k) \/ ListFails(k)
  BY <1>1, <1>4, <1>7 DEF ServeList, ListArrives, ListFails
<1> QED
  BY <1>1, <1>5, <1>6, <1>7 DEF StaysNext, stayVars

(***************************************************************************)
(* Every list in the cache is one of establishments, under the parameters *)
(* it was asked with, for every catalogue, filter and bound.              *)
(***************************************************************************)
THEOREM StaysTypeCorrect == StaysSpec => []StaysTypeOK
<1>1. StaysInit => SpentFits
  BY StaysAssumption DEF StaysInit, SpentFits
<1>2. StaysInv /\ SpentFits => StaysTypeOK
  BY DEF StaysInv, SpentFits, StaysTypeOK
<1> QED
  BY <1>1, <1>2, SpentStays, StaysStart, StaysKeep, PTL DEF StaysSpec

-----------------------------------------------------------------------------
(***************************************************************************)
(* The reviews of a place.  What a request holds that the rating depends  *)
(* on: "truth" is the average of the reviews, "rating" the place's.  A    *)
(* request that is alone will save the truth; while all is calm, one that *)
(* has not written yet found the place's rating right, and a request of   *)
(* the administrator keeps that rating.                                    *)
(***************************************************************************)
RevFits(r, truth, rating, so, ca) ==
    /\ r.stage \in {"averaged", "loaded"} /\ so => r.avg = truth
    /\ r.stage \in {"sent", "read"} /\ ca => rating = truth
    /\ r.stage = "read" /\ r.kind = "place" /\ ca => r.place.rating = truth

\* The fields of a place and of a request: how an average is added up does not
\* matter, so nothing is said of what they hold.
PlaceShaped(p) == p = [rating |-> p.rating, text |-> p.text]
ReqShaped(r) == /\ r = [kind |-> r.kind, id |-> r.id, rating |-> r.rating, avg |-> r.avg,
                        place |-> r.place, stage |-> r.stage]
                /\ PlaceShaped(r.place)

RevInv ==
    /\ DOMAIN revReqs = ReqIds /\ \A k \in ReqIds : ReqShaped(revReqs[k])
    /\ PlaceShaped(placeRow)
    /\ solo \in BOOLEAN /\ calm \in BOOLEAN
    /\ calm => solo
    /\ solo => \A j, k \in ReqIds : UnderReq(j) /\ UnderReq(k) => j = k
    /\ \A k \in ReqIds : RevFits(revReqs[k], Truth, placeRow.rating, solo, calm)
    /\ Quiet /\ calm => placeRow.rating = Truth

(***************************************************************************)
(* A request that is made has its fields.                                  *)
(***************************************************************************)
LEMMA RequestIs ==
    ASSUME NEW kind, NEW id, NEW r, NEW stage
    PROVE  /\ ReqShaped(RevRequest(kind, id, r, stage))
           /\ RevRequest(kind, id, r, stage).stage = stage
           /\ RevRequest(kind, id, r, stage).kind = kind
BY DEF RevRequest, ReqShaped, PlaceShaped, Unread, Zero

(***************************************************************************)
(* At first nothing is under way, and it is calm if the rating is right.  *)
(***************************************************************************)
LEMMA RevStarts == RevInit => RevInv
<1> SUFFICES ASSUME RevInit PROVE RevInv
  OBVIOUS
<1>1. /\ PlaceShaped(placeRow) /\ solo = TRUE /\ calm \in BOOLEAN
      /\ calm => placeRow.rating = Truth
  BY DEF RevInit, PlaceShaped
<1>2. DOMAIN revReqs = ReqIds
      /\ \A k \in ReqIds : revReqs[k] = RevRequest("place", Nobody, 0, "unsent")
  BY DEF RevInit
<1>3. \A k \in ReqIds : ReqShaped(revReqs[k]) /\ revReqs[k].stage = "unsent"
  BY <1>2, RequestIs
<1> QED
  BY <1>1, <1>2, <1>3 DEF RevInv, RevFits, UnderReq

(***************************************************************************)
(* A step of the request k, which was under way and becomes e.  The others*)
(* do not matter: alone there are none, and else nothing is claimed.      *)
(***************************************************************************)
LEMMA RevStep ==
    ASSUME RevInv, NEW k \in ReqIds, UnderReq(k), NEW e, ReqShaped(e), e.stage # "unsent",
           revReqs' = [revReqs EXCEPT ![k] = e], solo' = solo,
           NEW truth, truth = Truth', NEW p, p = placeRow', PlaceShaped(p),
           NEW ca \in BOOLEAN, ca = calm', ca => solo,
           RevFits(e, truth, p.rating, solo, ca),
           e.stage = "replied" /\ ca => p.rating = truth
    PROVE  RevInv'
<1>1. /\ DOMAIN revReqs' = ReqIds /\ revReqs'[k] = e
      /\ \A j \in ReqIds : j # k => revReqs'[j] = revReqs[j]
  BY DEF RevInv
<1>2. solo => \A j \in ReqIds : j # k => revReqs[j].stage \in {"unsent", "replied"}
  BY DEF RevInv, UnderReq
<1>3. \A j \in ReqIds : ReqShaped(revReqs'[j])
  BY <1>1 DEF RevInv
<1>4. \A j \in ReqIds : RevFits(revReqs'[j], truth, p.rating, solo, ca)
  <2> SUFFICES ASSUME NEW j \in ReqIds, j # k PROVE RevFits(revReqs[j], truth, p.rating, solo, ca)
    BY <1>1
  <2> QED
    BY <1>2 DEF RevFits
<1>5. solo => \A i, j \in ReqIds : UnderReq(i)' /\ UnderReq(j)' => i = j
  BY <1>1, <1>2 DEF UnderReq
<1>6. Quiet' /\ ca => p.rating = truth
  BY <1>1 DEF Quiet, UnderReq
<1>7. solo \in BOOLEAN
  BY DEF RevInv
<1> QED
  BY <1>1, <1>3, <1>4, <1>5, <1>6, <1>7 DEF RevInv

(***************************************************************************)
(* A new request: it is alone, and calm, if it is the only one.           *)
(***************************************************************************)
LEMMA BeginKeeps ==
    ASSUME RevInv, NEW k \in ReqIds, NEW kind, NEW id, NEW r, Begin(k, kind, id, r),
           UNCHANGED <<revRows, placeRow>>
    PROVE  RevInv'
<1> DEFINE e == RevRequest(kind, id, r, "sent")
<1>1. /\ revReqs' = [revReqs EXCEPT ![k] = e] /\ revReqs[k].stage = "unsent"
      /\ solo' = Quiet /\ calm' = (calm /\ Quiet) /\ placeRow' = placeRow
  BY DEF Begin
<1>2. Truth' = Truth
  BY DEF Truth
<1>3. ReqShaped(e) /\ e.stage = "sent"
  BY RequestIs
<1> HIDE DEF e
<1>4. /\ DOMAIN revReqs' = ReqIds /\ revReqs'[k] = e
      /\ \A j \in ReqIds : j # k => revReqs'[j] = revReqs[j]
  BY <1>1 DEF RevInv
<1>5. \A j \in ReqIds : ReqShaped(revReqs'[j])
  BY <1>3, <1>4 DEF RevInv
<1>6. PICK so \in BOOLEAN : so = Quiet
  BY DEF Quiet
<1>7. PICK ca \in BOOLEAN : ca = (calm /\ so)
  OBVIOUS
<1>8. solo' = so /\ calm' = ca /\ (ca => so)
  BY <1>1, <1>6, <1>7
<1>9. so => \A j \in ReqIds : revReqs[j].stage \in {"unsent", "replied"}
  BY <1>6 DEF Quiet, UnderReq
<1>10. ca => placeRow.rating = Truth
  BY <1>6, <1>7 DEF RevInv
<1>11. \A j \in ReqIds : RevFits(revReqs'[j], Truth, placeRow.rating, so, ca)
  <2>1. RevFits(e, Truth, placeRow.rating, so, ca)
    BY <1>3, <1>10 DEF RevFits
  <2>2. ASSUME NEW j \in ReqIds, j # k PROVE RevFits(revReqs[j], Truth, placeRow.rating, so, ca)
    BY <1>8, <1>9 DEF RevFits
  <2> QED
    BY <1>4, <2>1, <2>2
<1>12. so => \A i, j \in ReqIds : UnderReq(i)' /\ UnderReq(j)' => i = j
  BY <1>4, <1>9 DEF UnderReq
<1>13. PlaceShaped(placeRow)
  BY DEF RevInv
<1> QED
  BY <1>1, <1>2, <1>4, <1>5, <1>8, <1>10, <1>11, <1>12, <1>13 DEF RevInv

\* A request that computed the average, and one that read the place.
Averaged(r, stage, avg) == [r EXCEPT !.stage = stage, !.avg = avg]
Placed(r, stage, place) == [r EXCEPT !.stage = stage, !.place = place]

(***************************************************************************)
(* Both still have their fields.                                          *)
(***************************************************************************)
LEMMA AveragedIs ==
    ASSUME NEW r, ReqShaped(r), NEW stage, NEW avg
    PROVE  LET e == Averaged(r, stage, avg)
           IN  /\ ReqShaped(e) /\ e.stage = stage /\ e.kind = r.kind
               /\ e.avg = avg /\ e.place = r.place
<1>1. PICK kind, id, rating, a, p, s :
         r = [kind |-> kind, id |-> id, rating |-> rating, avg |-> a, place |-> p, stage |-> s]
  BY DEF ReqShaped
<1>2. PICK e : e = Averaged(r, stage, avg)
  OBVIOUS
<1>3. e = [kind |-> kind, id |-> id, rating |-> rating, avg |-> avg, place |-> p,
           stage |-> stage]
  BY <1>1, <1>2 DEF Averaged
<1>4. PlaceShaped(p)
  BY <1>1 DEF ReqShaped
<1>5. /\ ReqShaped(e) /\ e.stage = stage /\ e.kind = r.kind
      /\ e.avg = avg /\ e.place = r.place
  BY <1>1, <1>3, <1>4 DEF ReqShaped
<1> QED
  BY <1>2, <1>5

(***************************************************************************)
(* The same, of the place that is read.                                   *)
(***************************************************************************)
LEMMA PlacedIs ==
    ASSUME NEW r, ReqShaped(r), NEW stage, NEW place, PlaceShaped(place)
    PROVE  LET e == Placed(r, stage, place)
           IN  /\ ReqShaped(e) /\ e.stage = stage /\ e.kind = r.kind
               /\ e.avg = r.avg /\ e.place = place
<1>1. PICK kind, id, rating, a, p, s :
         r = [kind |-> kind, id |-> id, rating |-> rating, avg |-> a, place |-> p, stage |-> s]
  BY DEF ReqShaped
<1>2. PICK e : e = Placed(r, stage, place)
  OBVIOUS
<1>3. e = [kind |-> kind, id |-> id, rating |-> rating, avg |-> a, place |-> place,
           stage |-> stage]
  BY <1>1, <1>2 DEF Placed
<1>4. PlaceShaped(place)
  BY <1>1 DEF ReqShaped
<1>5. /\ ReqShaped(e) /\ e.stage = stage /\ e.kind = r.kind
      /\ e.avg = r.avg /\ e.place = place
  BY <1>1, <1>3, <1>4 DEF ReqShaped
<1> QED
  BY <1>2, <1>5

(***************************************************************************)
(* A step of a request before its last one: what it becomes, case by case.*)
(***************************************************************************)
LEMMA HandlersKeep ==
    ASSUME RevInv, NEW k \in ReqIds, UnderReq(k),
           ReadFirst(k) \/ WriteReview(k) \/ ComputeAverage(k) \/ LoadPlace(k)
    PROVE  RevInv'
<1> DEFINE r == revReqs[k]
<1>0. /\ ReqShaped(r) /\ RevFits(r, Truth, placeRow.rating, solo, calm)
      /\ DOMAIN revReqs = ReqIds /\ PlaceShaped(placeRow)
      /\ solo \in BOOLEAN /\ calm \in BOOLEAN /\ (calm => solo)
  BY DEF RevInv
<1>1. placeRow' = placeRow /\ calm' = calm /\ solo' = solo
  BY DEF ReadFirst, WriteReview, ComputeAverage, LoadPlace
<1>2. ASSUME NEW stage \in {"read", "written"}, Stage(k, stage),
             stage = "read" => r.stage = "sent" /\ r.kind # "place" /\ revRows' = revRows
      PROVE  RevInv'
  <2> DEFINE e == [r EXCEPT !.stage = stage]
  <2>1. revReqs' = [revReqs EXCEPT ![k] = e]
    BY <1>0, <1>2 DEF Stage
  <2>2. ReqShaped(e) /\ e.stage = stage /\ e.kind = r.kind
    BY <1>0 DEF ReqShaped
  <2>3. PICK truth : truth = Truth'
    OBVIOUS
  <2>4. stage = "read" => truth = Truth
    BY <1>2, <2>3 DEF Truth
  <2> HIDE DEF e
  <2>5. RevFits(e, truth, placeRow.rating, solo, calm)
    BY <1>0, <1>2, <2>2, <2>4 DEF RevFits
  <2> QED
    BY <1>0, <1>1, <1>2, <2>1, <2>2, <2>3, <2>5, RevStep
<1>3. CASE ReadFirst(k)
  <2>1. r.stage = "sent" /\ revRows' = revRows
    BY <1>3 DEF ReadFirst
  <2>2. CASE r.kind # "place"
    BY <1>2, <1>3, <2>1, <2>2 DEF ReadFirst
  <2>3. CASE r.kind = "place"
    <3>0. PICK e : e = Placed(r, "read", placeRow)
      OBVIOUS
    <3>1. revReqs' = [revReqs EXCEPT ![k] = e]
      BY <1>0, <1>3, <2>3, <3>0 DEF ReadFirst, Placed
    <3>2. ReqShaped(e) /\ e.stage = "read" /\ e.kind = "place" /\ e.place = placeRow
      BY <1>0, <2>3, <3>0, PlacedIs
    <3>3. Truth' = Truth
      BY <2>1 DEF Truth
    <3>4. RevFits(e, Truth, placeRow.rating, solo, calm)
      BY <1>0, <2>1, <3>2 DEF RevFits
    <3> QED
      BY <1>0, <1>1, <3>1, <3>2, <3>3, <3>4, RevStep
  <2> QED
    BY <2>2, <2>3
<1>4. CASE WriteReview(k)
  BY <1>2, <1>4 DEF WriteReview
<1>5. CASE ComputeAverage(k)
  <2>0. PICK e : e = Averaged(r, "averaged", Truth)
    OBVIOUS
  <2>1. revReqs' = [revReqs EXCEPT ![k] = e] /\ revRows' = revRows
    BY <1>0, <1>5, <2>0 DEF ComputeAverage, Averaged
  <2>2. ReqShaped(e) /\ e.stage = "averaged" /\ e.avg = Truth
    BY <1>0, <2>0, AveragedIs
  <2>3. Truth' = Truth
    BY <2>1 DEF Truth
  <2>4. RevFits(e, Truth, placeRow.rating, solo, calm)
    BY <2>2 DEF RevFits
  <2> QED
    BY <1>0, <1>1, <2>1, <2>2, <2>3, <2>4, RevStep
<1>6. CASE LoadPlace(k)
  <2>0. PICK e : e = Placed(r, "loaded", placeRow)
    OBVIOUS
  <2>1. revReqs' = [revReqs EXCEPT ![k] = e] /\ revRows' = revRows /\ r.stage = "averaged"
    BY <1>0, <1>6, <2>0 DEF LoadPlace, Placed
  <2>2. ReqShaped(e) /\ e.stage = "loaded" /\ e.avg = r.avg
    BY <1>0, <2>0, PlacedIs
  <2>3. Truth' = Truth
    BY <2>1 DEF Truth
  <2>4. RevFits(e, Truth, placeRow.rating, solo, calm)
    BY <1>0, <2>1, <2>2 DEF RevFits
  <2> QED
    BY <1>0, <1>1, <2>1, <2>2, <2>3, <2>4, RevStep
<1> QED
  BY <1>3, <1>4, <1>5, <1>6

(***************************************************************************)
(* The end of a request: it saved the place, or found no review, or was   *)
(* lost on the way.                                                        *)
(***************************************************************************)
LEMMA RepliesKeep ==
    ASSUME RevInv, NEW k \in ReqIds, UnderReq(k), SavePlace(k) \/ RefuseReview(k) \/ Crash(k)
    PROVE  RevInv'
<1> DEFINE r == revReqs[k]
<1>0. /\ ReqShaped(r) /\ RevFits(r, Truth, placeRow.rating, solo, calm)
      /\ PlaceShaped(placeRow)
      /\ solo \in BOOLEAN /\ calm \in BOOLEAN /\ (calm => solo)
  BY DEF RevInv
<1> DEFINE e == RevRequest("place", Nobody, 0, "replied")
<1>1. /\ revReqs' = [revReqs EXCEPT ![k] = e]
      /\ UNCHANGED <<revRows, solo>>
  BY DEF SavePlace, RefuseReview, Crash, Ends, Over
<1>2. Truth' = Truth
  BY <1>1 DEF Truth
<1>3. ReqShaped(e) /\ e.stage = "replied"
  BY RequestIs
<1> HIDE DEF e
<1>4. \A rating, ca : RevFits(e, Truth, rating, solo, ca)
  BY <1>3 DEF RevFits
<1>5. ASSUME NEW p, p = placeRow', PlaceShaped(p), NEW ca \in BOOLEAN, ca = calm', ca => solo,
             ca => p.rating = Truth
      PROVE  RevInv'
  BY <1>1, <1>2, <1>3, <1>4, <1>5, RevStep
<1>6. CASE SavePlace(k)
  <2>1. PICK ca \in BOOLEAN : ca = (calm \/ (solo /\ r.kind # "place"))
    OBVIOUS
  <2>2. calm' = ca /\ (ca => solo)
    BY <1>0, <1>6, <2>1 DEF SavePlace
  <2>3. PICK p : p = placeRow'
    OBVIOUS
  <2>4. CASE r.stage = "loaded" /\ placeRow' = Rated(k)
    <3>1. p = [r.place EXCEPT !.rating = r.avg]
      BY <2>3, <2>4 DEF Rated
    <3>2. PlaceShaped(p) /\ p.rating = r.avg
      BY <1>0, <3>1 DEF ReqShaped, PlaceShaped
    <3>3. ca => p.rating = Truth
      BY <1>0, <2>2, <2>4, <3>2 DEF RevFits
    <3> QED
      BY <1>5, <2>2, <2>3, <3>2, <3>3
  <2>5. CASE /\ r.kind = "place" /\ r.stage = "read"
             /\ placeRow' = [r.place EXCEPT !.text = 1]
    <3>1. PlaceShaped(p) /\ p.rating = r.place.rating
      BY <1>0, <2>3, <2>5 DEF ReqShaped, PlaceShaped
    <3>2. ca => p.rating = Truth
      BY <1>0, <2>1, <2>5, <3>1 DEF RevFits
    <3> QED
      BY <1>5, <2>2, <2>3, <3>1, <3>2
  <2> QED
    BY <1>6, <2>4, <2>5 DEF SavePlace
<1>7. CASE RefuseReview(k)
  <2>1. placeRow' = placeRow /\ calm' = calm /\ r.stage = "sent"
    BY <1>7 DEF RefuseReview
  <2>2. calm => placeRow.rating = Truth
    BY <1>0, <2>1 DEF RevFits
  <2> QED
    BY <1>0, <1>5, <2>1, <2>2
<1>8. CASE Crash(k)
  <2>1. PICK ca \in BOOLEAN : ca = (calm /\ r.stage \in {"sent", "read"})
    OBVIOUS
  <2>2. placeRow' = placeRow /\ calm' = ca
    BY <1>8, <2>1 DEF Crash
  <2>3. ca => placeRow.rating = Truth
    BY <1>0, <2>1 DEF RevFits
  <2> QED
    BY <1>0, <1>5, <2>1, <2>2, <2>3
<1> QED
  BY <1>6, <1>7, <1>8

(***************************************************************************)
(* A start of the container: nothing is under way, and it is calm if it   *)
(* was and every request that is gone had written nothing.                *)
(***************************************************************************)
LEMMA RedeployKeeps ==
    ASSUME RevInv, Redeploy
    PROVE  RevInv'
<1>1. /\ placeRow' = placeRow /\ solo' = solo
      /\ revReqs' = [k \in ReqIds |-> IF UnderReq(k) THEN Over ELSE revReqs[k]]
  BY DEF Redeploy
<1>2. ReqShaped(Over) /\ Over.stage = "replied"
  BY RequestIs DEF Over
<1>3. /\ DOMAIN revReqs' = ReqIds
      /\ \A k \in ReqIds : /\ ReqShaped(revReqs'[k])
                           /\ revReqs'[k].stage \in {"unsent", "replied"}
  BY <1>1, <1>2 DEF RevInv, UnderReq
<1>4. PICK ca \in BOOLEAN : /\ calm' = ca
                            /\ ca => /\ calm = TRUE /\ revRows' = revRows
                                     /\ \A k \in ReqIds : UnderReq(k) =>
                                           revReqs[k].stage \in {"sent", "read"}
  <2>1. CASE calm' = FALSE
    BY <2>1
  <2>2. CASE /\ revRows' = revRows
             /\ calm' = (calm /\ \A k \in ReqIds : UnderReq(k) =>
                                                 revReqs[k].stage \in {"sent", "read"})
    <3>1. PICK b \in BOOLEAN : b = \A k \in ReqIds : UnderReq(k) =>
                                                     revReqs[k].stage \in {"sent", "read"}
      OBVIOUS
    <3>2. calm' = (calm /\ b) /\ calm \in BOOLEAN
      BY <2>2, <3>1 DEF RevInv
    <3> QED
      BY <2>2, <3>1, <3>2
  <2> QED
    BY <2>1, <2>2 DEF Redeploy
<1>5. ca => placeRow.rating = Truth /\ Truth' = Truth
  <2> SUFFICES ASSUME ca PROVE placeRow.rating = Truth
    BY <1>4 DEF Truth
  <2>1. CASE Quiet
    BY <1>4, <2>1 DEF RevInv
  <2>2. CASE ~Quiet
    <3>1. PICK k \in ReqIds : UnderReq(k)
      BY <2>2 DEF Quiet
    <3>2. revReqs[k].stage \in {"sent", "read"}
      BY <1>4, <3>1
    <3>3. RevFits(revReqs[k], Truth, placeRow.rating, solo, calm)
      BY <3>1 DEF RevInv
    <3> QED
      BY <1>4, <3>2, <3>3 DEF RevFits
  <2> QED
    BY <2>1, <2>2
<1>6. \A k \in ReqIds : ~UnderReq(k)'
  BY <1>3 DEF UnderReq
<1>7. \A k \in ReqIds : RevFits(revReqs'[k], Truth', placeRow'.rating, solo', calm')
  BY <1>3 DEF RevFits
<1>8. ca => solo
  BY <1>4 DEF RevInv
<1> QED
  BY <1>1, <1>3, <1>4, <1>5, <1>6, <1>7, <1>8 DEF RevInv

(***************************************************************************)
(* Every step of the requests keeps the invariant.                        *)
(***************************************************************************)
LEMMA RevKeeps == RevInv /\ [RevNext]_revVars => RevInv'
<1> SUFFICES ASSUME RevInv, [RevNext]_revVars PROVE RevInv'
  OBVIOUS
<1>1. CASE AskReview
  <2>1. PICK k \in ReqIds, kind \in {"create", "update", "delete", "place"},
             id \in RevIds \cup {Nobody}, r \in Ratings \cup {0} : Begin(k, kind, id, r)
    BY <1>1 DEF AskReview, Written, WrittenIn
  <2>2. UNCHANGED <<revRows, placeRow>>
    BY <1>1 DEF AskReview
  <2> QED
    BY <2>1, <2>2, BeginKeeps
<1>2. CASE Redeploy
  BY <1>2, RedeployKeeps
<1>3. CASE UNCHANGED revVars
  BY <1>3 DEF revVars, RevInv, Truth, UnderReq, Quiet
<1> QED
  BY <1>1, <1>2, <1>3, HandlersKeep, RepliesKeep DEF RevNext

(***************************************************************************)
(* With nothing under way the rating and the number of reviews of a place *)
(* are those of its reviews, unless requests overlapped, one failed after *)
(* its write or a migration wrote the rating or a review without the      *)
(* other, and no review request ran alone since: for any number           *)
(* of reviews, of requests, of failures and of starts of the container.   *)
(***************************************************************************)
THEOREM RatingIsAlwaysAverage == RevSpec => []RatingIsAverage
<1>1. RevInv => RatingIsAverage
  BY DEF RevInv, RatingIsAverage
<1> QED
  BY RevStarts, RevKeeps, <1>1, PTL DEF RevSpec

(***************************************************************************)
(* Types.  A rating is added up by recursion over the set of the reviews, *)
(* so that its range is shown by induction: of a set of numbers, as the   *)
(* induction theorems of the library are of an operator, which no prover  *)
(* here can be given.                                                      *)
(***************************************************************************)
LEMMA NatSetInduction ==
    ASSUME NEW G, 0 \in G, \A n \in Nat : n \in G => n + 1 \in G
    PROVE  Nat \subseteq G
<1> DEFINE Bad == Nat \ G
<1> SUFFICES ASSUME Bad # {} PROVE FALSE
  OBVIOUS
<1>1. PICK m \in Bad : \A n \in Bad : ~(<<n, m>> \in OpToRel(<, Nat))
  <2>1. Bad \subseteq Nat
    OBVIOUS
  <2> HIDE DEF Bad
  <2> QED
    BY <2>1, NatLessThanWellFounded, WFMin
<1>2. \A n \in Bad : ~(n < m)
  BY <1>1 DEF OpToRel
<1>3. m # 0 /\ m \in Nat
  OBVIOUS
<1>4. m - 1 \in Nat /\ m - 1 \notin Bad
  BY <1>2, <1>3
<1> QED
  BY <1>3, <1>4

\* The sum of the ratings of some of the reviews, as the fold computes it.
SumOf(rows, S) ==
    LET iter[s \in SUBSET S] ==
          IF s = {} THEN 0
          ELSE LET x == CHOOSE y \in s : TRUE IN rows[x].rating + iter[s \ {x}]
    IN  iter[S]

(***************************************************************************)
(* That is what the average of a place adds up.                           *)
(***************************************************************************)
LEMMA FoldIs == ASSUME NEW rows PROVE AverageOf(rows).sum = SumOf(rows, WrittenIn(rows))
BY DEF AverageOf, MapThenSumSet, MapThenFoldSet, SumOf

\* What one step of the fold adds to the sum of the rest.
FoldStep(rows, f, s) ==
    IF s = {} THEN 0
    ELSE LET x == CHOOSE y \in s : TRUE IN rows[x].rating + f[s \ {x}]

\* The subsets of S with at most n elements.
UpTo(S, n) == {s \in SUBSET S : Cardinality(s) <= n}

(***************************************************************************)
(* A step of the fold goes to a set with one element less.                *)
(***************************************************************************)
LEMMA Smaller ==
    ASSUME NEW S, IsFiniteSet(S), NEW s \in SUBSET S, s # {}
    PROVE  LET x == CHOOSE y \in s : TRUE
           IN  /\ x \in s /\ s \ {x} \in SUBSET S
               /\ Cardinality(s) \in Nat /\ Cardinality(s \ {x}) = Cardinality(s) - 1
               /\ Cardinality(s) > 0
<1> DEFINE x == CHOOSE y \in s : TRUE
<1>1. x \in s
  OBVIOUS
<1> HIDE DEF x
<1>2. IsFiniteSet(s)
  BY FS_Subset
<1>3. Cardinality(s) \in Nat
  BY <1>2, FS_CardinalityType
<1>4. Cardinality(s \ {x}) = Cardinality(s) - 1
  BY <1>1, <1>2, FS_RemoveElement
<1>5. Cardinality(s) # 0
  BY <1>2, FS_EmptySet
<1>6. s \ {x} \in SUBSET S /\ Cardinality(s) > 0
  BY <1>3, <1>5
<1>7. /\ x \in s /\ s \ {x} \in SUBSET S
      /\ Cardinality(s) \in Nat /\ Cardinality(s \ {x}) = Cardinality(s) - 1
      /\ Cardinality(s) > 0
  BY <1>1, <1>3, <1>4, <1>6
<1> QED
  BY <1>7 DEF x

(***************************************************************************)
(* The fold is defined: some function does on the subsets of S what it     *)
(* asks for.                                                               *)
(***************************************************************************)
LEMMA FoldExists ==
    ASSUME NEW rows, NEW S, IsFiniteSet(S)
    PROVE  \E f : f = [s \in SUBSET S |-> FoldStep(rows, f, s)]
<1> DEFINE Good == {n \in Nat : \E f : f = [s \in UpTo(S, n) |-> FoldStep(rows, f, s)]}
<1>0. \A s \in SUBSET S : Cardinality(s) \in Nat
  BY FS_Subset, FS_CardinalityType
<1>1. 0 \in Good
  <2>1. \A s \in UpTo(S, 0) : s = {}
    <3>1. ASSUME NEW s \in UpTo(S, 0), s # {} PROVE FALSE
      <4>1. s \in SUBSET S /\ Cardinality(s) <= 0
        BY DEF UpTo
      <4>2. Cardinality(s) \in Nat /\ Cardinality(s) > 0
        BY <3>1, <4>1, Smaller
      <4> QED
        BY <4>1, <4>2
    <3> QED
      BY <3>1
  <2> DEFINE f == [s \in UpTo(S, 0) |-> 0]
  <2>2. \A s \in UpTo(S, 0) : FoldStep(rows, f, s) = 0
    BY <2>1 DEF FoldStep
  <2>3. f = [s \in UpTo(S, 0) |-> FoldStep(rows, f, s)]
    BY <2>2
  <2> QED
    BY <2>3
<1>2. ASSUME NEW n \in Nat, n \in Good PROVE n + 1 \in Good
  <2>1. PICK f : f = [s \in UpTo(S, n) |-> FoldStep(rows, f, s)]
    BY <1>2
  <2> DEFINE g == [s \in UpTo(S, n + 1) |-> FoldStep(rows, f, s)]
  <2>2. UpTo(S, n) \subseteq UpTo(S, n + 1)
    BY <1>0 DEF UpTo
  <2>3. \A s \in UpTo(S, n) : g[s] = f[s]
    BY <2>1, <2>2
  <2> HIDE DEF g
  <2>4. ASSUME NEW s \in UpTo(S, n + 1) PROVE FoldStep(rows, g, s) = FoldStep(rows, f, s)
    <3>1. CASE s = {}
      BY <3>1 DEF FoldStep
    <3>2. CASE s # {}
      <4> DEFINE x == CHOOSE y \in s : TRUE
      <4>1. s \in SUBSET S /\ Cardinality(s) <= n + 1
        BY DEF UpTo
      <4>2. /\ s \ {x} \in SUBSET S /\ Cardinality(s) \in Nat
            /\ Cardinality(s \ {x}) = Cardinality(s) - 1
        BY <3>2, <4>1, Smaller
      <4>3. s \ {x} \in UpTo(S, n)
        BY <4>1, <4>2 DEF UpTo
      <4>4. g[s \ {x}] = f[s \ {x}]
        BY <2>3, <4>3
      <4> QED
        BY <4>4 DEF FoldStep
    <3> QED
      BY <3>1, <3>2
  <2>5. g = [s \in UpTo(S, n + 1) |-> FoldStep(rows, g, s)]
    BY <2>4 DEF g
  <2> QED
    BY <2>5
<1>3. Nat \subseteq Good
  <2> HIDE DEF Good
  <2> QED
    BY <1>1, <1>2, NatSetInduction
<1>4. Cardinality(S) \in Nat
  BY <1>0
<1>5. UpTo(S, Cardinality(S)) = SUBSET S
  BY FS_Subset DEF UpTo
<1> QED
  BY <1>3, <1>4, <1>5

(***************************************************************************)
(* The sum of n ratings is between n and 5 * n.                            *)
(***************************************************************************)
LEMMA SumBounds ==
    ASSUME NEW rows, NEW S, IsFiniteSet(S), \A i \in S : rows[i].rating \in 1..5
    PROVE  /\ SumOf(rows, S) \in Nat
           /\ Cardinality(S) <= SumOf(rows, S)
           /\ SumOf(rows, S) <= 5 * Cardinality(S)
<1> DEFINE Folds(f) == f = [s \in SUBSET S |-> FoldStep(rows, f, s)]
<1>1. PICK f : Folds(f) /\ SumOf(rows, S) = f[S]
  <2> DEFINE f == CHOOSE g : Folds(g)
  <2>1. Folds(f)
    BY FoldExists
  <2>2. SumOf(rows, S) = f[S]
    BY DEF SumOf, FoldStep
  <2> QED
    BY <2>1, <2>2
<1> DEFINE Fits(s) == f[s] \in Nat /\ Cardinality(s) <= f[s] /\ f[s] <= 5 * Cardinality(s)
           Good == {n \in Nat : \A s \in UpTo(S, n) : Fits(s)}
<1>2. \A s \in SUBSET S : Cardinality(s) \in Nat
  BY FS_Subset, FS_CardinalityType
<1>3. \A s \in SUBSET S : f[s] = FoldStep(rows, f, s)
  BY <1>1
<1>4. Fits({})
  <2>1. f[{}] = 0
    BY <1>3 DEF FoldStep
  <2> QED
    BY <2>1, FS_EmptySet
<1>5. ASSUME NEW s \in SUBSET S, s # {}, \A q \in SUBSET S : Cardinality(q) < Cardinality(s) => Fits(q)
      PROVE  Fits(s)
  <2> DEFINE x == CHOOSE y \in s : TRUE
  <2>1. /\ x \in s /\ s \ {x} \in SUBSET S /\ Cardinality(s) \in Nat
        /\ Cardinality(s \ {x}) = Cardinality(s) - 1
    BY <1>5, Smaller
  <2>2. f[s] = rows[x].rating + f[s \ {x}]
    BY <1>3, <1>5 DEF FoldStep
  <2> HIDE DEF x
  <2>3. Fits(s \ {x})
    BY <1>5, <2>1
  <2>4. rows[x].rating \in 1..5
    BY <2>1
  <2> QED
    BY <2>1, <2>2, <2>3, <2>4
<1> HIDE DEF Fits
<1>6. 0 \in Good
  <2>1. ASSUME NEW s \in UpTo(S, 0), s # {} PROVE FALSE
    <3>1. s \in SUBSET S /\ Cardinality(s) <= 0
      BY DEF UpTo
    <3>2. Cardinality(s) \in Nat /\ Cardinality(s) > 0
      BY <2>1, <3>1, Smaller
    <3> QED
      BY <3>1, <3>2
  <2> QED
    BY <1>4, <2>1
<1>7. ASSUME NEW n \in Nat, n \in Good PROVE n + 1 \in Good
  <2> SUFFICES ASSUME NEW s \in UpTo(S, n + 1) PROVE Fits(s)
    OBVIOUS
  <2>1. s \in SUBSET S /\ Cardinality(s) <= n + 1
    BY DEF UpTo
  <2>2. \A q \in SUBSET S : Cardinality(q) < Cardinality(s) => Fits(q)
    BY <1>2, <1>7, <2>1 DEF UpTo
  <2> QED
    BY <1>4, <1>5, <2>1, <2>2
<1>8. Nat \subseteq Good
  <2> HIDE DEF Good
  <2> QED
    BY <1>6, <1>7, NatSetInduction
<1>9. Cardinality(S) \in Nat /\ S \in UpTo(S, Cardinality(S))
  BY <1>2 DEF UpTo
<1>10. Fits(S)
  BY <1>8, <1>9
<1> QED
  BY <1>1, <1>10 DEF Fits

(***************************************************************************)
(* The average of any reviews lies in the range of their ratings.          *)
(***************************************************************************)
LEMMA AverageIs ==
    ASSUME NEW rows, rows \in [RevIds -> Review \cup {NoRow}]
    PROVE  AverageOf(rows) \in Average
<1> DEFINE S == WrittenIn(rows)
<1>1. S \subseteq RevIds /\ IsFiniteSet(RevIds)
  BY ReviewsAssumption, FS_Interval DEF WrittenIn, RevIds
<1>2. IsFiniteSet(S)
  BY <1>1, FS_Subset
<1>3. ASSUME NEW i \in S PROVE rows[i].rating \in 1..5
  <2>1. rows[i] \in Review
    BY DEF WrittenIn
  <2> QED
    BY <2>1, ReviewsAssumption DEF Review
<1>4. /\ AverageOf(rows).sum = SumOf(rows, S)
      /\ AverageOf(rows).n = Cardinality(S)
      /\ AverageOf(rows) = [sum |-> AverageOf(rows).sum, n |-> AverageOf(rows).n]
  BY FoldIs DEF AverageOf
<1> HIDE DEF S
<1>5. Cardinality(S) \in Nat
  BY <1>2, FS_CardinalityType
<1> QED
  BY <1>2, <1>3, <1>4, <1>5, SumBounds DEF Average

(***************************************************************************)
(* The types.  Until it is written a review request names a review that   *)
(* was there once, unless it makes one, and what it gives is a rating,    *)
(* unless it deletes.                                                      *)
(***************************************************************************)
ToWrite(r) == r.stage \in {"sent", "read"}

ReqHolds(r, rows) ==
    ToWrite(r) => /\ r.kind \in {"update", "delete"} => r.id \in RevIds /\ rows[r.id] \in Review
                  /\ r.kind \in {"create", "update"} => r.rating \in Ratings

RevTypes == RevTypeOK /\ \A k \in ReqIds : ReqHolds(revReqs[k], revRows)

(***************************************************************************)
(* What a request holds that has read nothing.                             *)
(***************************************************************************)
LEMMA ZeroIs == Zero \in Average /\ Unread \in PlaceRow /\ Unread.rating = Zero
BY DEF Zero, Unread, Average, PlaceRow

(***************************************************************************)
(* A request that is made, or answered, is of the right type.              *)
(***************************************************************************)
LEMMA RevRequestIs ==
    ASSUME NEW kind \in {"create", "update", "delete", "place"}, NEW id \in RevIds \cup {Nobody},
           NEW r \in Ratings \cup {0}, NEW stage \in {"unsent", "sent", "replied"}
    PROVE  LET e == RevRequest(kind, id, r, stage)
           IN  /\ e \in Req /\ e.kind = kind /\ e.id = id /\ e.rating = r /\ e.stage = stage
BY ZeroIs DEF RevRequest, Req

(***************************************************************************)
(* At first no request was made and no review but the first is there.      *)
(***************************************************************************)
LEMMA RevTypesStart == RevInit => RevTypes
<1> SUFFICES ASSUME RevInit PROVE RevTypes
  OBVIOUS
<1>1. revRows \in [RevIds -> Review \cup {NoRow}]
  <2>1. PICK r \in Ratings, n \in {0, 1} :
          revRows = [i \in RevIds |-> IF i <= n THEN [rating |-> r, live |-> TRUE] ELSE NoRow]
    BY DEF RevInit
  <2>2. [rating |-> r, live |-> TRUE] \in Review
    BY DEF Review
  <2> QED
    BY <2>1, <2>2
<1>2. Truth \in Average
  BY <1>1, AverageIs DEF Truth
<1>3. placeRow \in PlaceRow
  BY <1>2 DEF RevInit, PlaceRow
<1>4. /\ revReqs \in [ReqIds -> Req]
      /\ \A k \in ReqIds : revReqs[k].stage = "unsent"
  <2>1. RevRequest("place", Nobody, 0, "unsent") \in Req
        /\ RevRequest("place", Nobody, 0, "unsent").stage = "unsent"
    BY RevRequestIs
  <2> QED
    BY <2>1 DEF RevInit
<1>5. crashes \in 0..MaxCrashes
  BY ReviewsAssumption DEF RevInit
<1>6. \A k \in ReqIds : ReqHolds(revReqs[k], revRows)
  BY <1>4 DEF ReqHolds, ToWrite
<1> QED
  BY <1>1, <1>3, <1>4, <1>5, <1>6 DEF RevTypes, RevTypeOK, RevInit

(***************************************************************************)
(* A step of the request k, which becomes e; the reviews that were there   *)
(* still are.                                                              *)
(***************************************************************************)
LEMMA RevTypesStep ==
    ASSUME RevTypes, NEW k \in ReqIds, NEW e \in Req,
           revReqs' = [revReqs EXCEPT ![k] = e],
           NEW rows \in [RevIds -> Review \cup {NoRow}], rows = revRows',
           \A i \in RevIds : revRows[i] \in Review => rows[i] \in Review,
           ReqHolds(e, rows),
           placeRow' \in PlaceRow, crashes' \in 0..MaxCrashes,
           solo' \in BOOLEAN, calm' \in BOOLEAN
    PROVE  RevTypes'
<1>1. revReqs' \in [ReqIds -> Req]
  BY DEF RevTypes, RevTypeOK
<1>2. \A j \in ReqIds : ReqHolds(revReqs'[j], rows)
  <2> SUFFICES ASSUME NEW j \in ReqIds PROVE ReqHolds(revReqs'[j], rows)
    OBVIOUS
  <2>1. CASE j = k
    BY <2>1 DEF RevTypes, RevTypeOK
  <2>2. CASE j # k
    <3>1. revReqs'[j] = revReqs[j] /\ ReqHolds(revReqs[j], revRows)
      BY <2>2 DEF RevTypes, RevTypeOK
    <3> QED
      BY <3>1 DEF ReqHolds
  <2> QED
    BY <2>1, <2>2
<1> QED
  BY <1>1, <1>2 DEF RevTypes, RevTypeOK

(***************************************************************************)
(* Every step of the requests keeps the types.                             *)
(***************************************************************************)
LEMMA RevTypesKeep == RevTypes /\ [RevNext]_revVars => RevTypes'
<1> SUFFICES ASSUME RevTypes, [RevNext]_revVars PROVE RevTypes'
  OBVIOUS
<1>0. /\ revRows \in [RevIds -> Review \cup {NoRow}] /\ placeRow \in PlaceRow
      /\ revReqs \in [ReqIds -> Req] /\ crashes \in 0..MaxCrashes
      /\ solo \in BOOLEAN /\ calm \in BOOLEAN
      /\ \A k \in ReqIds : revReqs[k] \in Req /\ ReqHolds(revReqs[k], revRows)
  BY DEF RevTypes, RevTypeOK
<1>1. \A i \in Written : i \in RevIds /\ revRows[i] \in Review
  BY <1>0 DEF Written, WrittenIn
<1>2. CASE AskReview
  <2>1. UNCHANGED <<revRows, placeRow, crashes>>
    BY <1>2 DEF AskReview
  <2>2. ASSUME NEW k \in ReqIds, NEW kind \in {"create", "update", "delete", "place"},
               NEW id \in RevIds \cup {Nobody}, NEW r \in Ratings \cup {0},
               kind \in {"update", "delete"} => id \in Written,
               kind \in {"create", "update"} => r \in Ratings,
               Begin(k, kind, id, r)
        PROVE  RevTypes'
    <3>1. PICK e : e = RevRequest(kind, id, r, "sent")
      OBVIOUS
    <3>2. e \in Req /\ e.kind = kind /\ e.id = id /\ e.rating = r
      BY <3>1, RevRequestIs
    <3>3. revReqs' = [revReqs EXCEPT ![k] = e] /\ solo' \in BOOLEAN /\ calm' \in BOOLEAN
      BY <1>0, <2>2, <3>1 DEF Begin, Quiet
    <3>4. ReqHolds(e, revRows)
      BY <1>1, <2>2, <3>2 DEF ReqHolds
    <3> QED
      BY <1>0, <2>1, <3>2, <3>3, <3>4, RevTypesStep
  <2> QED
    BY <1>1, <1>2, <2>2 DEF AskReview
<1>3. ASSUME NEW k \in ReqIds, UnderReq(k), ReadFirst(k) PROVE RevTypes'
  <2>1. UNCHANGED <<revRows, placeRow, crashes, solo, calm>> /\ revReqs[k].stage = "sent"
    BY <1>3 DEF ReadFirst
  <2>2. PICK e : /\ revReqs' = [revReqs EXCEPT ![k] = e]
                 /\ \/ e = [revReqs[k] EXCEPT !.stage = "read", !.place = placeRow]
                    \/ e = [revReqs[k] EXCEPT !.stage = "read"]
    BY <1>3 DEF ReadFirst, Stage
  <2>3. e \in Req /\ e.kind = revReqs[k].kind /\ e.id = revReqs[k].id
        /\ e.rating = revReqs[k].rating
    BY <1>0, <2>2 DEF Req
  <2>4. ReqHolds(e, revRows)
    BY <1>0, <2>1, <2>3 DEF ReqHolds, ToWrite
  <2> QED
    BY <1>0, <2>1, <2>2, <2>3, <2>4, RevTypesStep
<1>4. ASSUME NEW k \in ReqIds, WriteReview(k) PROVE RevTypes'
  <2>1. UNCHANGED <<placeRow, crashes, solo, calm>>
    BY <1>4 DEF WriteReview
  <2>2. PICK e : e = [revReqs[k] EXCEPT !.stage = "written"]
    OBVIOUS
  <2>3. e \in Req /\ e.stage = "written" /\ revReqs' = [revReqs EXCEPT ![k] = e]
    BY <1>0, <1>4, <2>2 DEF WriteReview, Stage, Req
  <2>4. ReqHolds(e, revRows')
    BY <2>3 DEF ReqHolds, ToWrite
  <2>5. PICK i \in RevIds, row \in Review : revRows' = [revRows EXCEPT ![i] = row]
    <3>1. CASE revReqs[k].kind = "delete" /\ revReqs[k].stage = "read"
      <4>1. revReqs[k].id \in RevIds /\ revRows[revReqs[k].id] \in Review
        BY <1>0, <3>1 DEF ReqHolds, ToWrite
      <4>2. [revRows[revReqs[k].id] EXCEPT !.live = FALSE] \in Review
        BY <4>1 DEF Review
      <4>3. revRows' = [revRows EXCEPT ![revReqs[k].id] =
                          [revRows[revReqs[k].id] EXCEPT !.live = FALSE]]
        BY <1>4, <3>1 DEF WriteReview
      <4> QED
        BY <4>1, <4>2, <4>3
    <3>2. CASE revReqs[k].kind \in {"create", "update"} /\ revReqs[k].stage \in {"sent", "read"}
      <4>1. /\ revReqs[k].rating \in Ratings
            /\ revReqs[k].kind = "update" => revReqs[k].id \in RevIds
        BY <1>0, <3>2 DEF ReqHolds, ToWrite
      <4>2. [rating |-> revReqs[k].rating, live |-> TRUE] \in Review
        BY <4>1 DEF Review
      <4> QED
        BY <1>4, <3>2, <4>1, <4>2 DEF WriteReview, Inserted
    <3> QED
      BY <1>4, <3>1, <3>2 DEF WriteReview
  <2>6. /\ revRows' \in [RevIds -> Review \cup {NoRow}]
        /\ \A j \in RevIds : revRows[j] \in Review => revRows'[j] \in Review
    BY <1>0, <2>5
  <2> QED
    BY <1>0, <2>1, <2>3, <2>4, <2>6, RevTypesStep
<1>5. ASSUME NEW k \in ReqIds, ComputeAverage(k) \/ LoadPlace(k) PROVE RevTypes'
  <2>1. UNCHANGED <<revRows, placeRow, crashes, solo, calm>>
    BY <1>5 DEF ComputeAverage, LoadPlace
  <2>2. Truth \in Average
    BY <1>0, AverageIs DEF Truth
  <2>3. PICK e \in Req : ~ToWrite(e) /\ revReqs' = [revReqs EXCEPT ![k] = e]
    <3>1. CASE ComputeAverage(k)
      <4> DEFINE e == [revReqs[k] EXCEPT !.stage = "averaged", !.avg = Truth]
      <4>1. e \in Req /\ e.stage = "averaged"
        BY <1>0, <2>2 DEF Req
      <4>2. revReqs' = [revReqs EXCEPT ![k] = e]
        BY <1>0, <3>1 DEF ComputeAverage
      <4> QED
        BY <4>1, <4>2 DEF ToWrite
    <3>2. CASE LoadPlace(k)
      <4> DEFINE e == [revReqs[k] EXCEPT !.stage = "loaded", !.place = placeRow]
      <4>1. e \in Req /\ e.stage = "loaded"
        BY <1>0 DEF Req
      <4>2. revReqs' = [revReqs EXCEPT ![k] = e]
        BY <1>0, <3>2 DEF LoadPlace
      <4> QED
        BY <4>1, <4>2 DEF ToWrite
    <3> QED
      BY <1>5, <3>1, <3>2
  <2>4. ReqHolds(e, revRows)
    BY <2>3 DEF ReqHolds
  <2> QED
    BY <1>0, <2>1, <2>3, <2>4, RevTypesStep
<1>6. ASSUME NEW k \in ReqIds, SavePlace(k) \/ RefuseReview(k) \/ Crash(k) PROVE RevTypes'
  <2>1. PICK e : e = RevRequest("place", Nobody, 0, "replied")
    OBVIOUS
  <2>2. e \in Req /\ e.stage = "replied"
    BY <2>1, RevRequestIs
  <2>3. revReqs' = [revReqs EXCEPT ![k] = e] /\ UNCHANGED <<revRows, solo>>
    BY <1>6, <2>1 DEF SavePlace, RefuseReview, Crash, Ends, Over
  <2>4. ReqHolds(e, revRows)
    BY <2>2 DEF ReqHolds, ToWrite
  <2>5. placeRow' \in PlaceRow
    <3>1. CASE SavePlace(k)
      <4>1. revReqs[k].place \in PlaceRow /\ revReqs[k].avg \in Average
        BY <1>0 DEF Req
      <4> QED
        BY <3>1, <4>1 DEF SavePlace, Rated, PlaceRow
    <3>2. CASE RefuseReview(k) \/ Crash(k)
      BY <1>0, <3>2 DEF RefuseReview, Crash
    <3> QED
      BY <1>6, <3>1, <3>2
  <2>6. crashes' \in 0..MaxCrashes
    BY <1>0, <1>6, ReviewsAssumption DEF SavePlace, RefuseReview, Crash
  <2>7. calm' \in BOOLEAN
    BY <1>0, <1>6 DEF SavePlace, RefuseReview, Crash
  <2> QED
    BY <1>0, <2>2, <2>3, <2>4, <2>5, <2>6, <2>7, RevTypesStep
<1>7. CASE UNCHANGED revVars
  BY <1>7 DEF revVars, RevTypes, RevTypeOK
<1>8. CASE Redeploy
  <2>1. /\ placeRow' = placeRow /\ solo' = solo
        /\ revReqs' = [k \in ReqIds |-> IF UnderReq(k) THEN Over ELSE revReqs[k]]
    BY <1>8 DEF Redeploy
  <2>2. Over \in Req /\ Over.stage = "replied"
    BY RevRequestIs DEF Over
  <2>3. revReqs' \in [ReqIds -> Req]
    BY <1>0, <2>1, <2>2
  <2>4. \A k \in ReqIds : ~ToWrite(revReqs'[k])
    BY <2>1, <2>2 DEF UnderReq, ToWrite
  <2>5. crashes' \in 0..MaxCrashes
    BY <1>0, <1>8, ReviewsAssumption DEF Redeploy
  <2>7. calm' \in BOOLEAN
    <3>1. PICK b \in BOOLEAN :
             b = (\A k \in ReqIds : UnderReq(k) => revReqs[k].stage \in {"sent", "read"})
      OBVIOUS
    <3>2. calm' = FALSE \/ calm' = (calm /\ b)
      BY <1>8, <3>1 DEF Redeploy
    <3> QED
      BY <1>0, <3>2
  <2>6. revRows' \in [RevIds -> Review \cup {NoRow}]
    <3>1. ASSUME NEW r \in Ratings PROVE [rating |-> r, live |-> TRUE] \in Review
      BY DEF Review
    <3> QED
      BY <1>0, <1>8, <3>1 DEF Redeploy, Inserted
  <2> QED
    BY <1>0, <2>1, <2>3, <2>4, <2>5, <2>6, <2>7 DEF RevTypes, RevTypeOK, ReqHolds
<1> QED
  BY <1>2, <1>3, <1>4, <1>5, <1>6, <1>7, <1>8 DEF RevNext

(***************************************************************************)
(* The reviews, the place and the requests keep their types, and every     *)
(* average that is computed, carried or stored lies between the lowest     *)
(* and the highest rating there is, but what the migrations stored: for    *)
(* any number of reviews, requests, failures and starts.                   *)
(***************************************************************************)
THEOREM ReviewsTypeCorrect == RevSpec => []RevTypeOK
<1>1. RevTypes => RevTypeOK
  BY DEF RevTypes
<1> QED
  BY RevTypesStart, RevTypesKeep, <1>1, PTL DEF RevSpec

-----------------------------------------------------------------------------
Nights(in, out) == IF in # 0 /\ out > in THEN out - in ELSE 0

\* What a request of one of n dialogs carries, and what it was stored with.
WellMade(s, n) ==
    /\ s \in StayRequest /\ s.dialog \in 1..n
    /\ s.in # 0 /\ s.shown = Nights(s.in, s.out) * s.seen
    /\ s.stage \in {"sent", "refused"} => s.total = NotStored
    /\ s.total # NotStored =>
          /\ s.out = 0 \/ s.out > s.in
          /\ s.total = IF s.out = 0 THEN 0 ELSE (s.out - s.in) * s.price

DialogTypes ==
    /\ house \in [price : NightPrices, free : BOOLEAN]
    /\ at \in PageAt
    /\ dialog # NoDialog => /\ dialog \in Dialog /\ dialog.id = opened
                            /\ at.price # NotRead
    /\ opened \in 0..MaxDialogs /\ upsets \in 0..MaxUpsets
    /\ stays \in Seq(StayRequest) /\ Len(stays) <= MaxStays
    /\ \A k \in DOMAIN stays : WellMade(stays[k], opened)

\* A request that keeps its dialog from sending another.
Holds(s) == \/ s.stage \in {"sent", "stored", "refused"}
            \/ s.stage = "told" /\ s.total # NotStored

OneHolds ==
    /\ \A j, k \in DOMAIN stays :
          Holds(stays[j]) /\ Holds(stays[k]) /\ stays[j].dialog = stays[k].dialog => j = k
    /\ \A k \in DOMAIN stays :
          Holds(stays[k]) /\ dialog # NoDialog /\ dialog.id = stays[k].dialog
          => dialog.status # "editing"

DialogInv == DialogTypes /\ OneHolds

\* The constants as the steps use them.
LEMMA Numbers ==
    /\ NightPrices \subseteq Nat /\ Days \subseteq Nat /\ 0 \in Days
    /\ NotRead \notin Nat /\ NotStored \notin Nat
    /\ MaxDialogs \in Nat /\ MaxStays \in Nat /\ MaxUpsets \in Nat
BY StayAssumption

\* What is computed with the dates is a number.
LEMMA Products ==
  ASSUME NEW a \in Nat, NEW b \in Nat, NEW p \in Nat
  PROVE  /\ Nights(a, b) * p \in Nat
         /\ a > b \/ a = b => Nights(a, b) * p = 0
         /\ a # 0 /\ b > a => (b - a) * p \in Nat /\ Nights(a, b) * p = (b - a) * p
<1>1. CASE a # 0 /\ b > a
  BY <1>1 DEF Nights
<1>2. CASE ~(a # 0 /\ b > a)
  BY <1>2 DEF Nights
<1>3. QED
  BY <1>1, <1>2

\* The page opens with the invariant.
LEMMA DialogStart == DialogInit => DialogInv
<1> SUFFICES ASSUME DialogInit PROVE DialogInv
  OBVIOUS
<1>1. stays = <<>> /\ stays \in Seq(StayRequest) /\ Len(stays) = 0 /\ DOMAIN stays = {}
  BY DEF DialogInit
<1>2. DialogTypes
  <2>1. house \in [price : NightPrices, free : BOOLEAN]
    BY DEF DialogInit
  <2>2. at \in PageAt /\ opened \in 0..MaxDialogs /\ upsets \in 0..MaxUpsets
    BY Numbers DEF DialogInit, PageAt
  <2>3. QED
    BY <1>1, <2>1, <2>2, Numbers DEF DialogInit, DialogTypes
<1>3. OneHolds
  BY <1>1 DEF OneHolds
<1>4. QED
  BY <1>2, <1>3 DEF DialogInv

\* Steps that leave the requests and the number of dialogs alone.
LEMMA SameStays ==
  ASSUME DialogInv, UNCHANGED <<stays, opened>>,
         house' \in [price : NightPrices, free : BOOLEAN], at' \in PageAt,
         upsets' \in 0..MaxUpsets,
         dialog' # NoDialog => /\ dialog' \in Dialog /\ dialog'.id = opened
                               /\ at'.price # NotRead
                               /\ dialog # NoDialog
                               /\ dialog'.status # dialog.status => dialog'.status # "editing"
  PROVE  DialogInv'
<1>1. DialogTypes'
  BY DEF DialogInv, DialogTypes
<1>2. OneHolds'
  <2>1. ASSUME NEW k \in DOMAIN stays, Holds(stays[k]), dialog' # NoDialog,
               dialog'.id = stays[k].dialog
        PROVE  dialog'.status # "editing"
    <3>1. dialog # NoDialog /\ dialog.id = dialog'.id
      BY <2>1 DEF DialogInv, DialogTypes
    <3>2. dialog.status # "editing"
      BY <2>1, <3>1 DEF DialogInv, OneHolds
    <3>3. QED
      BY <2>1, <3>2
  <2>2. QED
    BY <2>1 DEF DialogInv, OneHolds
<1>3. QED
  BY <1>1, <1>2 DEF DialogInv

\* What the visitor does in the dialog keeps it.
LEMMA AskingSteps ==
  ASSUME DialogInv, ReadHouse \/ TurnTo \/ OpenDialog \/ TypeDates \/ CloseDialog \/ HouseChanges
  PROVE  DialogInv'
<1>1. CASE ReadHouse
  <2>1. at' \in PageAt /\ at'.price # NotRead
    BY <1>1, Numbers DEF ReadHouse, DialogInv, DialogTypes, PageAt
  <2>2. QED
    BY <1>1, <2>1, SameStays DEF ReadHouse, DialogInv, DialogTypes
<1>2. CASE TurnTo
  <2>1. at' \in PageAt
    BY <1>2 DEF TurnTo, PageAt
  <2>2. QED
    BY <1>2, <2>1, SameStays DEF TurnTo, DialogInv, DialogTypes
<1>3. CASE OpenDialog
  <2>1. /\ dialog' \in Dialog /\ dialog'.id = opened' /\ opened' = opened + 1
        /\ opened' \in 0..MaxDialogs /\ at.price # NotRead
    BY <1>3, Numbers DEF OpenDialog, DialogInv, DialogTypes, Dialog, PageAt
  <2>2. \A k \in DOMAIN stays : stays[k].dialog # opened' /\ WellMade(stays[k], opened')
    BY <2>1, Numbers DEF DialogInv, DialogTypes, WellMade
  <2>3. DialogTypes'
    BY <1>3, <2>1, <2>2 DEF OpenDialog, DialogInv, DialogTypes
  <2>4. OneHolds'
    BY <1>3, <2>1, <2>2 DEF OpenDialog, DialogInv, OneHolds, Holds
  <2>5. QED
    BY <2>3, <2>4 DEF DialogInv
<1>4. CASE TypeDates
  <2>1. dialog' \in Dialog /\ dialog'.id = dialog.id /\ dialog'.status = dialog.status
    BY <1>4 DEF TypeDates, DialogInv, DialogTypes, Dialog
  <2>2. QED
    BY <1>4, <2>1, SameStays DEF TypeDates, DialogInv, DialogTypes
<1>5. CASE CloseDialog
  BY <1>5, SameStays DEF CloseDialog, DialogInv, DialogTypes
<1>6. CASE HouseChanges
  <2>1. house' \in [price : NightPrices, free : BOOLEAN] /\ upsets' \in 0..MaxUpsets
    BY <1>6, Numbers DEF HouseChanges, DialogInv, DialogTypes
  <2>2. QED
    BY <1>6, <2>1, SameStays DEF HouseChanges, DialogInv, DialogTypes
<1>7. QED
  BY <1>1, <1>2, <1>3, <1>4, <1>5, <1>6

\* Sending the request keeps it: the dialog waits for one answer.
LEMMA SubmitSteps ==
  ASSUME DialogInv, SubmitStay
  PROVE  DialogInv'
<1> DEFINE s == [stage |-> "sent", dialog |-> dialog.id, in |-> dialog.in,
                 out |-> dialog.out, shown |-> TotalShown,
                 seen |-> PriceSeen, total |-> NotStored, price |-> NotStored]
           n == Len(stays) + 1
<1>1. /\ dialog # NoDialog /\ dialog \in Dialog /\ dialog.id = opened
      /\ dialog.status = "editing" /\ dialog.in # 0 /\ at.price # NotRead
      /\ opened \in 1..MaxDialogs
  BY Numbers DEF SubmitStay, DialogInv, DialogTypes, Dialog
<1>2. PriceSeen \in NightPrices
  BY <1>1 DEF PriceSeen, DialogInv, DialogTypes, PageAt, Dialog
<1>3. TotalShown = Nights(dialog.in, dialog.out) * PriceSeen /\ TotalShown \in Nat
  <2>1. dialog.in \in Nat /\ dialog.out \in Nat /\ PriceSeen \in Nat
    BY <1>1, <1>2, Numbers DEF Dialog
  <2>2. TotalShown = Nights(dialog.in, dialog.out) * PriceSeen
    BY DEF TotalShown, NightsShown, Nights
  <2>3. QED
    BY <2>1, <2>2, Products
<1>4. s \in StayRequest
  BY <1>1, <1>2, <1>3 DEF StayRequest, Dialog
<1>5. /\ stays' = Append(stays, s) /\ stays' \in Seq(StayRequest) /\ Len(stays') = n
      /\ n \in Nat /\ DOMAIN stays' = DOMAIN stays \cup {n} /\ n \notin DOMAIN stays
      /\ stays'[n] = s /\ \A k \in DOMAIN stays : stays'[k] = stays[k]
  BY <1>4 DEF SubmitStay, DialogInv, DialogTypes
<1>6. WellMade(s, opened)
  BY <1>1, <1>3, <1>4, Numbers DEF WellMade
<1>7. DialogTypes'
  <2>1. dialog' \in Dialog /\ dialog'.id = opened'
    BY <1>1 DEF SubmitStay, Dialog
  <2>2. \A k \in DOMAIN stays' : WellMade(stays'[k], opened')
    BY <1>5, <1>6 DEF SubmitStay, DialogInv, DialogTypes
  <2>3. Len(stays') <= MaxStays
    BY <1>5, Numbers DEF SubmitStay, DialogInv, DialogTypes
  <2>4. QED
    BY <1>5, <2>1, <2>2, <2>3 DEF SubmitStay, DialogInv, DialogTypes
<1>8. OneHolds'
  <2>1. \A k \in DOMAIN stays : Holds(stays[k]) => stays[k].dialog # dialog.id
    BY <1>1 DEF DialogInv, OneHolds
  <2>2. dialog'.status = "loading" /\ dialog'.id = dialog.id
    BY <1>1 DEF SubmitStay, Dialog
  <2>3. QED
    BY <1>5, <2>1, <2>2 DEF OneHolds, DialogInv
<1>9. QED
  BY <1>7, <1>8 DEF DialogInv

\* Request k, which held its dialog, becomes r, and the dialog is given back
\* its button only if r does not hold it.
LEMMA OneChanges ==
  ASSUME DialogInv, NEW k \in DOMAIN stays, NEW r,
         stays' = [stays EXCEPT ![k] = r], UNCHANGED <<house, at, opened>>,
         upsets' \in 0..MaxUpsets,
         WellMade(r, opened), r.dialog = stays[k].dialog, Holds(stays[k]),
         dialog' # NoDialog =>
            /\ dialog # NoDialog /\ dialog' \in Dialog /\ dialog'.id = dialog.id
            /\ dialog'.status = "editing" =>
                  dialog.status = "editing" \/ (dialog.id = r.dialog /\ ~Holds(r))
  PROVE  DialogInv'
<1>1. stays \in Seq(StayRequest) /\ r \in StayRequest
  BY DEF DialogInv, DialogTypes, WellMade
<1>2. /\ stays' \in Seq(StayRequest) /\ Len(stays') = Len(stays)
      /\ DOMAIN stays' = DOMAIN stays /\ stays'[k] = r
      /\ \A j \in DOMAIN stays \ {k} : stays'[j] = stays[j]
  BY <1>1
<1>3. DialogTypes'
  <2>1. \A j \in DOMAIN stays' : WellMade(stays'[j], opened')
    BY <1>2 DEF DialogInv, DialogTypes
  <2>2. QED
    BY <1>2, <2>1 DEF DialogInv, DialogTypes
<1>4. ASSUME NEW j \in DOMAIN stays, Holds(stays'[j])
      PROVE  Holds(stays[j]) /\ stays'[j].dialog = stays[j].dialog
  BY <1>2, <1>4
<1>5. OneHolds'
  <2>1. ASSUME NEW i \in DOMAIN stays, NEW j \in DOMAIN stays,
               Holds(stays'[i]), Holds(stays'[j]), stays'[i].dialog = stays'[j].dialog
        PROVE  i = j
    BY <1>4, <2>1 DEF DialogInv, OneHolds
  <2>2. ASSUME NEW j \in DOMAIN stays, Holds(stays'[j]), dialog' # NoDialog,
               dialog'.id = stays'[j].dialog
        PROVE  dialog'.status # "editing"
    <3>1. Holds(stays[j]) /\ dialog # NoDialog /\ dialog.id = stays[j].dialog
      BY <1>4, <2>2
    <3>2. dialog.status # "editing"
      BY <3>1 DEF DialogInv, OneHolds
    <3>3. CASE j = k
      BY <1>2, <2>2, <3>2, <3>3
    <3>4. CASE j # k
      <4>1. dialog.id # r.dialog
        BY <3>1, <3>4 DEF DialogInv, OneHolds
      <4>2. QED
        BY <1>2, <2>2, <3>1, <3>2, <3>4, <4>1
    <3>5. QED
      BY <3>3, <3>4
  <2>3. QED
    BY <1>2, <2>1, <2>2 DEF OneHolds
<1>6. QED
  BY <1>3, <1>5 DEF DialogInv

\* So do the server, the answer and its loss.
LEMMA AnswerSteps ==
  ASSUME DialogInv, NEW k \in DOMAIN stays, ServeStay(k) \/ StayAnswered(k) \/ StayLost(k)
  PROVE  DialogInv'
<1> DEFINE s == stays[k]
<1>1. WellMade(s, opened) /\ s \in StayRequest /\ (dialog # NoDialog => dialog \in Dialog)
  BY DEF DialogInv, DialogTypes, WellMade
<1>2. upsets \in 0..MaxUpsets /\ house.price \in NightPrices
  BY DEF DialogInv, DialogTypes
<1>3. CASE ServeStay(k) /\ ~(DatesAccepted(s) /\ house.free)
  <2> DEFINE r == [s EXCEPT !.stage = "refused"]
  <2>1. r \in StayRequest /\ r.total = NotStored /\ r.stage = "refused"
    BY <1>1, <1>3 DEF ServeStay, WellMade, StayRequest
  <2>2. WellMade(r, opened) /\ r.dialog = s.dialog /\ Holds(s) /\ Holds(r)
    BY <1>1, <1>3, <2>1 DEF ServeStay, WellMade, Holds, StayRequest
  <2>3. stays' = [stays EXCEPT ![k] = r] /\ UNCHANGED <<house, at, dialog, opened, upsets>>
    BY <1>3 DEF ServeStay
  <2>4. QED
    BY <1>1, <1>2, <2>2, <2>3, OneChanges
<1>4. CASE ServeStay(k) /\ DatesAccepted(s) /\ house.free
  <2> DEFINE t == IF s.out = 0 THEN 0 ELSE (s.out - s.in) * house.price
             r == [s EXCEPT !.stage = "stored", !.price = house.price, !.total = t]
  <2>1. s.out = 0 \/ s.out > s.in
    BY <1>4 DEF DatesAccepted
  <2>2. t \in Nat
    <3>1. s.in \in Nat /\ s.out \in Nat /\ house.price \in Nat /\ s.in # 0
      BY <1>1, <1>2, Numbers DEF StayRequest, WellMade
    <3>2. QED
      BY <2>1, <3>1, Products
  <2>3. /\ r \in StayRequest /\ r.total = t /\ r.stage = "stored" /\ r.price = house.price
        /\ r.in = s.in /\ r.out = s.out /\ r.dialog = s.dialog
        /\ r.shown = s.shown /\ r.seen = s.seen
    BY <1>1, <1>2, <2>2 DEF StayRequest
  <2>4. WellMade(r, opened) /\ Holds(s) /\ Holds(r)
    BY <1>1, <1>4, <2>1, <2>3 DEF ServeStay, WellMade, Holds
  <2>5. stays' = [stays EXCEPT ![k] = r] /\ UNCHANGED <<house, at, dialog, opened, upsets>>
    BY <1>4 DEF ServeStay
  <2>6. QED
    BY <1>1, <1>2, <2>3, <2>4, <2>5, OneChanges
<1>5. ASSUME NEW stage \in {"told", "lost"}, NEW status \in {"editing", "success"},
             s.stage \in {"sent", "stored", "refused"},
             stage = "told" /\ status = "editing" => s.stage = "refused",
             stays' = [stays EXCEPT ![k].stage = stage], StayTold(k, status),
             UNCHANGED <<house, at, opened>>, upsets' \in 0..MaxUpsets
      PROVE  DialogInv'
  <2> DEFINE r == [s EXCEPT !.stage = stage]
  <2>1. r \in StayRequest /\ r.stage = stage /\ r.total = s.total /\ r.dialog = s.dialog
    BY <1>1 DEF StayRequest
  <2>2. WellMade(r, opened) /\ Holds(s)
    BY <1>1, <1>5, <2>1 DEF WellMade, Holds, StayRequest
  <2>3. status = "editing" => ~Holds(r)
    BY <1>1, <1>5, <2>1 DEF WellMade, Holds
  <2>4. dialog' # NoDialog =>
            /\ dialog # NoDialog /\ dialog' \in Dialog /\ dialog'.id = dialog.id
            /\ dialog'.status = "editing" =>
                  dialog.status = "editing" \/ (dialog.id = r.dialog /\ ~Holds(r))
    BY <1>1, <1>5, <2>1, <2>3 DEF StayTold, Dialog
  <2>5. stays' = [stays EXCEPT ![k] = r]
    BY <1>5
  <2>6. QED
    BY <1>5, <2>1, <2>2, <2>4, <2>5, OneChanges
<1>6. CASE StayAnswered(k)
  BY <1>2, <1>5, <1>6 DEF StayAnswered
<1>7. CASE StayLost(k)
  BY <1>2, <1>5, <1>7, Numbers DEF StayLost
<1>8. QED
  BY <1>3, <1>4, <1>6, <1>7

\* Every step keeps the invariant.
LEMMA DialogStep == DialogInv /\ [DialogNext]_dialogVars => DialogInv'
<1> SUFFICES ASSUME DialogInv, [DialogNext]_dialogVars PROVE DialogInv'
  OBVIOUS
<1>1. CASE ReadHouse \/ TurnTo \/ OpenDialog \/ TypeDates \/ CloseDialog \/ HouseChanges
  BY <1>1, AskingSteps
<1>2. CASE SubmitStay
  BY <1>2, SubmitSteps
<1>3. ASSUME NEW k \in DOMAIN stays, ServeStay(k) \/ StayAnswered(k) \/ StayLost(k)
      PROVE  DialogInv'
  BY <1>3, AnswerSteps
<1>4. CASE UNCHANGED dialogVars
  <2>1. /\ UNCHANGED <<stays, opened>> /\ UNCHANGED dialog
        /\ UNCHANGED <<house, at, upsets>>
    BY <1>4 DEF dialogVars
  <2>2. /\ house' \in [price : NightPrices, free : BOOLEAN] /\ at' \in PageAt
        /\ upsets' \in 0..MaxUpsets
    BY <2>1 DEF DialogInv, DialogTypes
  <2>3. dialog' # NoDialog => /\ dialog' \in Dialog /\ dialog'.id = opened
                              /\ at'.price # NotRead
    BY <2>1 DEF DialogInv, DialogTypes
  <2>4. QED
    BY <2>1, <2>2, <2>3, SameStays
<1>5. QED
  BY <1>1, <1>2, <1>3, <1>4 DEF DialogNext

\* The invariant holds throughout.
LEMMA DialogAlways == DialogSpec => []DialogInv
<1>1. DialogInit => DialogInv
  BY DialogStart
<1>2. DialogInv /\ [DialogNext]_dialogVars => DialogInv'
  BY DialogStep
<1>3. QED
  BY <1>1, <1>2, PTL DEF DialogSpec

(***************************************************************************)
(* The variables have their types: the dialog on the screen is the last  *)
(* that was opened (`reservation-dialog.tsx`), and what a request shows    *)
(* and is stored with are prices and amounts, never below zero.            *)
(***************************************************************************)
THEOREM DialogTypeCorrect == DialogSpec => []DialogTypeOK
<1>1. DialogInv => DialogTypeOK
  <2> SUFFICES ASSUME DialogInv PROVE DialogTypeOK
    OBVIOUS
  <2>1. \A k \in DOMAIN stays : stays[k] \in StayRequest
    BY DEF DialogInv, DialogTypes, WellMade
  <2>2. QED
    BY <2>1 DEF DialogInv, DialogTypes, DialogTypeOK
<1>2. QED
  BY <1>1, DialogAlways, PTL

(***************************************************************************)
(* Whatever the prices, the dates typed, the bounds, and the order of     *)
(* reads, answers and the owner's changes, a reservation is stored with    *)
(* the total on the screen when the button was pressed unless the price    *)
(* changed after the page had it, and a dialog stores a second one only    *)
(* after an answer was lost (the button of the dialog, and the total that  *)
(* the server computes again).                                             *)
(***************************************************************************)
THEOREM ReservedAlwaysAsShown == DialogSpec => []ReservedAsShown
<1>1. DialogInv => ReservedAsShown
  <2> SUFFICES ASSUME DialogInv, NEW k \in DOMAIN stays, stays[k].total # NotStored
               PROVE  /\ stays[k].price = stays[k].seen => stays[k].total = stays[k].shown
                      /\ \A j \in DOMAIN stays \ {k} :
                            stays[j].total # NotStored /\ stays[j].dialog = stays[k].dialog
                            => "lost" \in {stays[j].stage, stays[k].stage}
    BY DEF ReservedAsShown
  <2>1. \A j \in DOMAIN stays : WellMade(stays[j], opened)
    BY DEF DialogInv, DialogTypes
  <2>2. ASSUME stays[k].price = stays[k].seen
        PROVE  stays[k].total = stays[k].shown
    <3> DEFINE s == stays[k]
    <3>1. /\ s.in \in Nat /\ s.out \in Nat /\ s.seen \in Nat /\ s.in # 0
          /\ s.shown = Nights(s.in, s.out) * s.seen
          /\ s.out = 0 \/ s.out > s.in
          /\ s.total = IF s.out = 0 THEN 0 ELSE (s.out - s.in) * s.seen
      BY <2>1, <2>2, Numbers DEF WellMade, StayRequest
    <3>2. CASE s.out = 0
      <4>1. s.in > s.out
        BY <3>1, <3>2
      <4>2. QED
        BY <3>1, <3>2, <4>1, Products
    <3>3. CASE s.out # 0
      BY <3>1, <3>3, Products
    <3>4. QED
      BY <3>2, <3>3
  <2>3. \A j \in DOMAIN stays :
           stays[j].total # NotStored /\ stays[j].stage # "lost" => Holds(stays[j])
    BY <2>1 DEF WellMade, StayRequest, Holds
  <2>4. QED
    BY <2>2, <2>3 DEF DialogInv, OneHolds
<1>2. QED
  BY <1>1, DialogAlways, PTL
=============================================================================
