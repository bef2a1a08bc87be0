----------------------------- MODULE ReviewForm -----------------------------
(***************************************************************************)
(* The form in which a visitor writes a review: its photos are uploaded   *)
(* one by one before it is sent, and both answers may find another form.  *)
(***************************************************************************)
EXTENDS Integers

CONSTANTS MaxPhotos   \* bound: photos to choose from

Photos == 1..MaxPhotos
Nothing == 0

ASSUME ReviewFormAssumption == MaxPhotos \in 0..5

VARIABLES revForm,    \* the form
          upload,     \* the upload under way
          sending     \* a review is being sent

formVars == <<revForm, upload, sending>>

\* chosen: the photos the visitor chose and did not remove.  tainted: see
\* PhotosAsChosen.
RevForm == [open : BOOLEAN, photos : SUBSET Photos, chosen : SUBSET Photos,
            tainted : BOOLEAN]

FormTypeOK ==
    /\ revForm \in RevForm
    /\ upload \in [photo : Photos \cup {Nothing}, with : SUBSET Photos]
    /\ sending \in BOOLEAN

EmptyForm == [open |-> FALSE, photos |-> {}, chosen |-> {}, tainted |-> FALSE]
NoUpload == [photo |-> Nothing, with |-> {}]
Uploading == upload.photo # Nothing

FormInit == revForm = EmptyForm /\ upload = NoUpload /\ sending = FALSE

OpenReview ==
    /\ ~revForm.open
    /\ revForm' = [revForm EXCEPT !.open = TRUE]
    /\ UNCHANGED <<upload, sending>>

\* The list of photos is the one of the moment: the answer will add to it.
ChoosePhoto ==
    /\ revForm.open /\ ~Uploading
    /\ \E p \in Photos \ revForm.photos : upload' = [photo |-> p, with |-> revForm.photos]
    /\ UNCHANGED <<revForm, sending>>

\* Mutant: the photo replaces the others.
PhotosAfter_alone == {upload.photo}

PhotosAfter == upload.with \cup {upload.photo}

PhotoUploaded ==
    /\ Uploading
    /\ revForm' = [revForm EXCEPT !.photos = PhotosAfter, !.chosen = @ \cup {upload.photo}]
    /\ upload' = NoUpload
    /\ UNCHANGED sending

UploadFails ==
    /\ Uploading
    /\ upload' = NoUpload
    /\ UNCHANGED <<revForm, sending>>

RemovePhoto ==
    /\ revForm.open
    /\ \E p \in revForm.photos :
          revForm' = [revForm EXCEPT !.photos = @ \ {p}, !.chosen = @ \ {p},
                                     !.tainted = @ \/ Uploading]
    /\ UNCHANGED <<upload, sending>>

Emptied == [EmptyForm EXCEPT !.tainted = Uploading]

CancelReview ==
    /\ revForm.open
    /\ revForm' = Emptied
    /\ UNCHANGED <<upload, sending>>

\* The button is off while a review is sent.
SendReview ==
    /\ revForm.open /\ ~sending
    /\ sending' = TRUE
    /\ UNCHANGED <<revForm, upload>>

\* The answer empties the form, whichever it is by then.
ReviewSent ==
    /\ sending
    /\ sending' = FALSE
    /\ revForm' = Emptied
    /\ UNCHANGED upload

SendFails ==
    /\ sending
    /\ sending' = FALSE
    /\ UNCHANGED <<revForm, upload>>

FormNext == \/ OpenReview \/ ChoosePhoto \/ PhotoUploaded \/ UploadFails \/ RemovePhoto
            \/ CancelReview \/ SendReview \/ ReviewSent \/ SendFails

FormSpec == FormInit /\ [][FormNext]_formVars

-----------------------------------------------------------------------------
(***************************************************************************)
(* The photos of the form are those the visitor chose for it and has not  *)
(* removed, unless one was removed, or a form ended, during an upload: the*)
(* answer of an upload puts back the list it was started with, in         *)
(* whatever form is there.                                                 *)
(***************************************************************************)
PhotosAsChosen == ~revForm.tainted => revForm.photos = revForm.chosen
=============================================================================
