------------------------------- MODULE Account -------------------------------
(***************************************************************************)
(* The account page: the form of the profile, the photo that is uploaded  *)
(* and then saved with the rest of the profile, the password, and the row *)
(* of the user, which every one of these handlers reads, changes and saves*)
(* whole.  Nothing turns the form's button off, an answer is put in the   *)
(* session whoever is logged in by then, and a request carries the token  *)
(* that is stored when it is sent.                                         *)
(***************************************************************************)
EXTENDS Integers, FiniteSets

CONSTANTS Users,
          Names,     \* what a profile may say: first name, last name, phone
          NoUser,
          MaxReqs    \* bound: requests made

Reqs == 1..MaxReqs

ASSUME AccountAssumption == MaxReqs \in Nat /\ NoUser \notin Users /\ Names # {}

VARIABLES people,    \* the rows of the users
          session,   \* the user of the session, as it was last told
          token,     \* whose token is stored
          account,   \* the page
          reqs,      \* the requests
          sentReqs,  \* how many were made
          acked,     \* the last write of this session that was answered
          mixed      \* see SessionTellsTruth

accountVars == <<people, session, token, account, reqs, sentReqs, acked, mixed>>

\* rest: the password and the role.  at: the writes of the row so far.
\* named: the write that last changed the name.
Person == [name : Names, photo : 0..MaxReqs, rest : 0..MaxReqs,
           at : 0..MaxReqs, named : 0..MaxReqs]
Session == [user : Users \cup {NoUser}, name : Names, at : 0..MaxReqs]
Page == [open : BOOLEAN, text : Names, uploading : BOOLEAN]

\* upload: the photo alone.  elsewhere: a profile saved on another device.
\* secret: a password or a role.  whose: the token it carries.  held, seen:
\* the user of the session when it was made, and how recent that was.
\* mine: the page that made it is open.  row: what the handler read, and
\* then what it answers.
Request == [kind : {"profile", "upload", "elsewhere", "secret"},
            whose : Users \cup {NoUser}, name : Names, photo : BOOLEAN,
            held : Users \cup {NoUser}, seen : 0..MaxReqs, mine : BOOLEAN,
            row : Person, stage : {"sent", "read", "answer", "over"}]

AccountTypeOK ==
    /\ people \in [Users -> Person]
    /\ session \in Session
    /\ token \in Users \cup {NoUser}
    /\ account \in Page
    /\ sentReqs \in 0..MaxReqs
    /\ reqs \in [1..sentReqs -> Request]
    /\ \A k \in 1..sentReqs : reqs[k].whose = NoUser => reqs[k].stage = "over"
    /\ acked \in 0..MaxReqs
    /\ mixed \in BOOLEAN

Own(k) == reqs[k].kind \in {"profile", "upload"} /\ reqs[k].stage # "over"
OwnUnderWay == \E k \in 1..sentReqs : Own(k)

AnyName == CHOOSE n \in Names : TRUE
ClosedPage == [open |-> FALSE, text |-> AnyName, uploading |-> FALSE]
LoggedOut  == [user |-> NoUser, name |-> AnyName, at |-> 0]

NewPerson == [name |-> AnyName, photo |-> 0, rest |-> 0, at |-> 0, named |-> 0]
SpentRequest == [kind |-> "secret", whose |-> NoUser, name |-> AnyName, photo |-> FALSE,
                 held |-> NoUser, seen |-> 0, mine |-> FALSE, row |-> NewPerson,
                 stage |-> "over"]

AccountInit ==
    /\ people = [u \in Users |-> NewPerson]
    /\ session = LoggedOut /\ token = NoUser
    /\ account = ClosedPage
    /\ reqs = <<>> /\ sentReqs = 0
    /\ acked = 0 /\ mixed = FALSE

-----------------------------------------------------------------------------
(* The session and the page. *)

\* The page that is left goes on with its requests.
Orphaned == [k \in 1..sentReqs |-> [reqs[k] EXCEPT !.mine = FALSE]]

Login ==
    /\ ~account.open
    /\ \E u \in Users :
          /\ token' = u
          /\ session' = [user |-> u, name |-> people[u].name, at |-> people[u].at]
    /\ acked' = 0 /\ mixed' = OwnUnderWay
    /\ UNCHANGED <<people, account, reqs, sentReqs>>

Logout ==
    /\ token # NoUser
    /\ token' = NoUser /\ session' = LoggedOut
    /\ account' = ClosedPage
    /\ reqs' = Orphaned
    /\ acked' = 0 /\ mixed' = OwnUnderWay
    /\ UNCHANGED <<people, sentReqs>>

OpenAccount ==
    /\ ~account.open /\ token # NoUser
    /\ account' = [ClosedPage EXCEPT !.open = TRUE, !.text = session.name]
    /\ UNCHANGED <<people, session, token, reqs, sentReqs, acked, mixed>>

LeaveAccount ==
    /\ account.open
    /\ account' = ClosedPage
    /\ reqs' = Orphaned
    /\ UNCHANGED <<people, session, token, sentReqs, acked, mixed>>

TypeName ==
    /\ account.open
    /\ \E n \in Names \ {account.text} : account' = [account EXCEPT !.text = n]
    /\ UNCHANGED <<people, session, token, reqs, sentReqs, acked, mixed>>

\* Bound: a request is made only while there are some left.
Make(kind, u, n) ==
    /\ sentReqs < MaxReqs /\ sentReqs' = sentReqs + 1
    /\ reqs' = [k \in 1..sentReqs' |->
                  IF k # sentReqs' THEN reqs[k]
                  ELSE [kind |-> kind, whose |-> u, name |-> n, photo |-> FALSE,
                        held |-> session.user, seen |-> session.at,
                        mine |-> kind \in {"profile", "upload"},
                        row |-> NewPerson, stage |-> "sent"]]

\* The button is never off.
SaveProfile ==
    /\ account.open
    /\ Make("profile", token, account.text)
    /\ mixed' = (mixed \/ OwnUnderWay)
    /\ UNCHANGED <<people, session, token, account, acked>>

\* Mutant: what is in the form is sent with the photo.
PickPhoto_asTyped ==
    /\ account.open /\ ~account.uploading
    /\ Make("upload", token, account.text)
    /\ account' = [account EXCEPT !.uploading = TRUE]
    /\ mixed' = (mixed \/ OwnUnderWay)
    /\ UNCHANGED <<people, session, token, acked>>

\* What will be saved with the photo is the user of this moment.
PickPhoto ==
    /\ account.open /\ ~account.uploading
    /\ Make("upload", token, session.name)
    /\ account' = [account EXCEPT !.uploading = TRUE]
    /\ mixed' = (mixed \/ OwnUnderWay)
    /\ UNCHANGED <<people, session, token, acked>>

ChangePassword ==
    /\ account.open
    /\ Make("secret", token, AnyName)
    /\ UNCHANGED <<people, session, token, account, acked, mixed>>

\* Another device of a user, or an administrator who gives a role.
Elsewhere ==
    /\ \E u \in Users : \/ \E n \in Names : Make("elsewhere", u, n)
                        \/ Make("secret", u, AnyName)
    /\ UNCHANGED <<people, session, token, account, acked, mixed>>

-----------------------------------------------------------------------------
(* The handlers. *)

ReadPerson(k) ==
    /\ reqs[k].stage = "sent" /\ reqs[k].kind # "upload"
    /\ reqs' = [reqs EXCEPT ![k].stage = "read", ![k].row = people[reqs[k].whose]]
    /\ UNCHANGED <<people, session, token, account, sentReqs, acked, mixed>>

\* Mutant: a blank photo is saved too.
Changed_blankPhoto(k) ==
    LET r == reqs[k] IN
    IF r.kind = "secret" THEN [r.row EXCEPT !.rest = k]
    ELSE [r.row EXCEPT !.name = r.name, !.photo = IF r.photo THEN k ELSE 0]

\* The row that was read, with what the request is about; a blank photo is
\* left out.
Changed(k) ==
    LET r == reqs[k] IN
    IF r.kind = "secret" THEN [r.row EXCEPT !.rest = k]
    ELSE [r.row EXCEPT !.name = r.name, !.photo = IF r.photo THEN k ELSE @]

\* The writes are numbered, and so is the one that changed the name.
Numbered(new, old) ==
    [new EXCEPT !.at = old.at + 1,
                !.named = IF new.name # old.name THEN old.at + 1 ELSE old.named]

WritePerson(k) ==
    /\ reqs[k].stage = "read"
    /\ LET u == reqs[k].whose
           new == Numbered(Changed(k), people[u])
       IN  /\ people' = [people EXCEPT ![u] = new]
           /\ reqs' = [reqs EXCEPT ![k].stage = "answer", ![k].row = new]
    /\ UNCHANGED <<session, token, account, sentReqs, acked, mixed>>

-----------------------------------------------------------------------------
(* The answers. *)

\* Of a request that is over nothing is kept.
Finish(k) == reqs' = [reqs EXCEPT ![k] = SpentRequest]

\* uploading is the state of the page that picked the photo.
Idle(k) == IF reqs[k].mine /\ (reqs[k].photo \/ reqs[k].kind = "upload")
           THEN [account EXCEPT !.uploading = FALSE] ELSE account

\* The photo is stored: the profile is saved with it, with the token that
\* is there now.
PhotoStored(k) ==
    /\ reqs[k].kind = "upload" /\ reqs[k].stage = "sent" /\ token # NoUser
    /\ reqs' = [reqs EXCEPT ![k].kind = "profile", ![k].photo = TRUE, ![k].whose = token]
    /\ UNCHANGED <<people, session, token, account, sentReqs, acked, mixed>>

\* Mutant: the session keeps the user it has.
Told_kept(k) == session

Told(k) == [user |-> reqs[k].whose, name |-> reqs[k].row.name, at |-> reqs[k].row.at]

\* setAuth puts the answered user in the session, with the token that is
\* there; an open form takes its fields from it, over what was typed.
ProfileAnswered(k) ==
    /\ reqs[k].kind = "profile" /\ reqs[k].stage = "answer"
    /\ session' = Told(k)
    /\ account' = IF account.open THEN [Idle(k) EXCEPT !.text = session'.name] ELSE account
    /\ acked' = IF reqs[k].whose = token /\ reqs[k].row.at > acked THEN reqs[k].row.at ELSE acked
    /\ Finish(k)
    /\ UNCHANGED <<people, token, sentReqs, mixed>>

OtherAnswered(k) ==
    /\ reqs[k].kind \in {"elsewhere", "secret"} /\ reqs[k].stage = "answer"
    /\ Finish(k)
    /\ UNCHANGED <<people, session, token, account, sentReqs, acked, mixed>>

\* A request, its handler or its answer fails.
RequestFails(k) ==
    /\ reqs[k].stage # "over"
    /\ account' = Idle(k)
    /\ Finish(k)
    /\ UNCHANGED <<people, session, token, sentReqs, acked, mixed>>

-----------------------------------------------------------------------------
AccountNext ==
    \/ Login \/ Logout \/ OpenAccount \/ LeaveAccount \/ TypeName
    \/ SaveProfile \/ PickPhoto \/ ChangePassword \/ Elsewhere
    \/ \E k \in 1..sentReqs :
          \/ ReadPerson(k) \/ WritePerson(k) \/ PhotoStored(k)
          \/ ProfileAnswered(k) \/ OtherAnswered(k) \/ RequestFails(k)

AccountSpec == AccountInit /\ [][AccountNext]_accountVars

-----------------------------------------------------------------------------
(* Properties. *)

Saves(k) == reqs[k].stage = "read" /\ reqs'[k].stage = "answer"

(***************************************************************************)
(* A handler that saves the whole row of a user changes a field its       *)
(* request is not about only if somebody wrote the row after the handler  *)
(* read it: a profile leaves the password, the role and, with no photo,   *)
(* the photo alone, and the others leave the profile alone.               *)
(***************************************************************************)
OtherFieldsKept ==
    [][\A k \in 1..sentReqs :
          Saves(k) =>
              LET old == people[reqs[k].whose]
                  new == people'[reqs[k].whose]
              IN  \/ old.at > reqs[k].row.at
                  \/ /\ reqs[k].kind # "secret" => new.rest = old.rest
                     /\ reqs[k].kind = "secret" => new.name = old.name
                     /\ ~reqs[k].photo => new.photo = old.photo]_accountVars

(***************************************************************************)
(* Changing the photo changes the rest of the profile only if that was    *)
(* changed after the session was told of it, or the user logged in is not *)
(* the one who picked the photo any more.                                  *)
(***************************************************************************)
PhotoKeepsProfile ==
    [][\A k \in 1..sentReqs :
          /\ Saves(k) /\ reqs[k].photo /\ reqs[k].held = reqs[k].whose
          /\ people'[reqs[k].whose].name # people[reqs[k].whose].name
          => people[reqs[k].whose].named > reqs[k].seen]_accountVars

(***************************************************************************)
(* With no request of the page under way the session shows the user whose *)
(* token is stored, as of the last save that was answered or later, unless*)
(* two requests were under way together or one outlived its session: the  *)
(* last answer, not the last save, is what is shown.                      *)
(***************************************************************************)
SessionTellsTruth ==
    ~OwnUnderWay /\ ~mixed => session.user = token /\ session.at >= acked
=============================================================================
