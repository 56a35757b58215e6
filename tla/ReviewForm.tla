----------------------------- MODULE ReviewForm -----------------------------
(* ReviewForm.svelte on /review: the sentence being written. It keeps the    *)
(* words said of the subject in its field, loads what the person said of it  *)
(* before, saves or deletes that review, and keeps a draft in sessionStorage *)
(* over the redirects of signing in. A word is [word, for]: for is the       *)
(* subject it was said of. ReviewMerge and SiteReviews have the merge and    *)
(* the writes in detail; here the database and the repository are one store. *)
EXTENDS SubjectField

CONSTANTS
    Word,       \* adjectives, compared case-folded and trimmed
    NoReview,   \* a subject not reviewed
    FirstStored \* the person's reviews at first, by subject

ASSUME FormAssumption ==
    /\ \A S \in SUBSET Word : NoReview # S
    /\ FirstStored \subseteq [Uri -> (SUBSET Word \ {{}}) \cup {NoReview}]

VARIABLES
    tags,       \* the filled-in tags
    prefilled,  \* the words loaded from the review
    record,     \* existing and rkey: the subject of the review that was loaded
    loads,      \* answers of /review/existing under way, with what was read, None before
    posts,      \* the posts under way: before the server has them, and after
    sending,    \* what disables the button: cleared by the first answer
    saved,      \* the page's form result says saved
    signedIn,
    stored,     \* the person's reviews
    hand        \* history: the words added and struck by hand since the subject is in the field

formVars == <<tags, prefilled, record, loads, posts, sending, saved, signedIn, stored, hand>>

NoHand == [added |-> {}, struck |-> {}]

Offered == {t.word : t \in tags}

-----------------------------------------------------------------------------
(* The field's callbacks and the two that load. *)

LoadExisting(u) == loads' = loads \cup {[of |-> u, read |-> None]}

(* onSubjectChosen and onSubjectCleared: a clean slate. *)
Cleared == tags' = {} /\ prefilled' = {} /\ record' = None /\ hand' = NoHand
OnSubjectCleared == Cleared /\ UNCHANGED <<loads, posts, sending, saved, signedIn, stored>>
OnSubjectChosen(u) == Cleared /\ LoadExisting(u) /\ UNCHANGED <<posts, sending, saved, signedIn, stored>>

(* /review/existing: nothing without a session. *)
ServeExisting(l) ==
    /\ l.read = None
    /\ loads' = (loads \ {l}) \cup {[l EXCEPT !.read = IF signedIn THEN stored[l.of] ELSE NoReview]}
    /\ UNCHANGED <<tags, prefilled, record, posts, sending, saved, signedIn, stored, hand>>

(* mergeTags(review.tags, offered, []), as the tags shown. *)
Merged_DropsPrefilled(l) == tags
Merged(l) == tags \cup {[word |-> w, for |-> l.of] : w \in l.read \ Offered}

ForSubject_Unchecked(l) == TRUE
ForSubject(l) == subject = l.of

ExistingAnswers(l) ==
    /\ l.read # None
    /\ loads' = loads \ {l}
    /\ IF ForSubject(l) /\ l.read # NoReview
       THEN record' = l.of /\ prefilled' = l.read /\ tags' = Merged(l)
       ELSE UNCHANGED <<record, prefilled, tags>>
    /\ UNCHANGED <<posts, sending, saved, signedIn, stored, hand>>

-----------------------------------------------------------------------------
(* The sentence. *)

AddWord(w) ==
    /\ w \notin Offered /\ Input
    /\ tags' = tags \cup {[word |-> w, for |-> subject]}
    /\ hand' = [hand EXCEPT !.added = @ \cup {w}]
    /\ UNCHANGED <<prefilled, record, loads, posts, sending, saved, signedIn, stored>>

(* Its row removed, or its adjective emptied. *)
StrikeWord(t) ==
    /\ t \in tags /\ Input
    /\ tags' = tags \ {t}
    /\ hand' = [added |-> hand.added \ {t.word}, struck |-> hand.struck \cup {t.word}]
    /\ UNCHANGED <<prefilled, record, loads, posts, sending, saved, signedIn, stored>>

-----------------------------------------------------------------------------
(* Save and Delete; the form stays open meanwhile. *)

Removable == record # None /\ tags = {}

(* Enter in an adjective or in the field posts, too, whatever the button:    *)
(* without an account and with a post under way. Both count inputs, so at    *)
(* tells two posts apart.                                                    *)
Save ==
    /\ subject # None /\ text # Blank /\ tags # {} /\ Input
    /\ posts' = posts \cup {[kind |-> "save", of |-> subject, words |-> Offered, prefilled |-> prefilled,
                             struck |-> hand.struck, done |-> FALSE, at |-> inputs]}
    /\ sending' = TRUE
    /\ UNCHANGED <<tags, prefilled, record, loads, saved, signedIn, stored, hand>>

(* The button only. *)
Delete ==
    /\ Removable /\ ~sending /\ Input
    /\ posts' = posts \cup {[kind |-> "delete", of |-> record, words |-> {}, prefilled |-> {},
                             struck |-> {}, done |-> FALSE, at |-> inputs]}
    /\ sending' = TRUE
    /\ UNCHANGED <<tags, prefilled, record, loads, saved, signedIn, stored, hand>>

Kept(p) == IF stored[p.of] = NoReview THEN {} ELSE stored[p.of] \ p.prefilled

(* The post is done or refused (no session, the repository's server). *)
ServePost(p) ==
    /\ p.kind \in {"save", "delete"} /\ ~p.done
    /\ \/ /\ signedIn
          /\ stored' = [stored EXCEPT ![p.of] = IF p.kind = "delete" THEN NoReview ELSE Kept(p) \cup p.words]
          /\ posts' = (posts \ {p}) \cup {[p EXCEPT !.done = TRUE]}
       \/ /\ posts' = (posts \ {p}) \cup {[p EXCEPT !.kind = "refused", !.done = TRUE]}
          /\ UNCHANGED stored
    /\ UNCHANGED <<tags, prefilled, record, loads, sending, saved, signedIn, hand>>

(* The answer: a delete blanks the form, whichever subject it is about now.  *)
PostAnswers(p) ==
    /\ p.done /\ posts' = posts \ {p} /\ sending' = FALSE
    /\ saved' = (p.kind = "save")
    /\ IF p.kind = "delete" THEN Cleared ELSE UNCHANGED <<tags, prefilled, record, hand>>
    /\ UNCHANGED <<loads, signedIn, stored>>

(* Another tab or device, or another app. *)
Elsewhere(u, w) ==
    /\ Input
    /\ stored' = [stored EXCEPT ![u] = IF @ = NoReview THEN {w} ELSE @ \cup {w}]
    /\ stored' # stored
    /\ UNCHANGED <<tags, prefilled, record, loads, posts, sending, saved, signedIn, hand>>

-----------------------------------------------------------------------------
(* The page loaded again: signing in goes to the repository's server and     *)
(* back; what was posted before had no account, and changes nothing. The     *)
(* draft is what the persist effect last wrote, all of the form's state      *)
(* unless that is saved or blank.                                            *)

Drafted == ~saved /\ ~(subject = None /\ text = Blank /\ tags = {})

Restored_SubjectOnly == {}
Restored == tags

SignIn ==
    /\ ~signedIn /\ signedIn' = TRUE /\ Input
    /\ list' = NoList /\ pending' = FALSE
    /\ prefilled' = {} /\ record' = None /\ posts' = {} /\ sending' = FALSE /\ saved' = FALSE
    /\ UNCHANGED stored
    /\ IF Drafted
       THEN /\ subject' = subject /\ tags' = Restored /\ hand' = [hand EXCEPT !.struck = {}]
            /\ Looked(text, NoLive, NoPage, IF text = Blank THEN {} ELSE {Known})
            /\ loads' = IF subject = None THEN {} ELSE {[of |-> subject, read |-> None]}
       ELSE /\ subject' = None /\ tags' = {} /\ hand' = NoHand
            /\ Looked(Blank, NoLive, NoPage, {}) /\ loads' = {}

-----------------------------------------------------------------------------

FormInit ==
    /\ FieldInit
    /\ tags = {} /\ prefilled = {} /\ record = None /\ loads = {} /\ saved = FALSE
    /\ posts = {} /\ sending = FALSE
    /\ signedIn \in BOOLEAN /\ hand = NoHand
    /\ stored \in FirstStored

(* What the field does, with the callback it makes. *)
FieldSteps ==
    \/ (Focus \/ PasteRow \/ Escape \/ \E t \in Typed : Type(t)) /\ UNCHANGED formVars
    \/ (Enter \/ Blur) /\ IF TextCommits THEN OnSubjectChosen(text.of) ELSE UNCHANGED formVars
    \/ Clear /\ OnSubjectCleared
    \/ \E u \in Uri : SelectRow(u) /\ OnSubjectChosen(u)
    \/ \E r \in asked :
          \/ RecordResolves(r) /\ IF AnswerCommits(r) THEN OnSubjectChosen(r.for) ELSE UNCHANGED formVars
          \/ (RecordFails(r) \/ PageAnswers(r) \/ UrisResolve(r) \/ KnownAnswers(r) \/ ClipboardAnswers(r))
             /\ UNCHANGED formVars

Loads == \E l \in loads : (ServeExisting(l) \/ ExistingAnswers(l)) /\ UNCHANGED <<fieldVars>>
Writes == (\E w \in Word : AddWord(w)) \/ (\E t \in tags : StrikeWord(t)) \/ Save \/ Delete
          \/ \E u \in Uri, w \in Word : Elsewhere(u, w)
Posts == \E p \in posts : (ServePost(p) \/ PostAnswers(p)) /\ UNCHANGED fieldVars

FormNext ==
    \/ FieldSteps \/ Loads \/ Posts \/ SignIn
    \/ Writes /\ UNCHANGED <<text, subject, live, page, pending, list, asked, offered>>

FormSpec == FormInit /\ [][FormNext]_<<fieldVars, formVars>>

-----------------------------------------------------------------------------

(* "any tags shown belong to whatever was loaded for it, never the previous  *)
(* subject" (lines 185-186), nor is the record deleted another subject's:    *)
(* whatever answers arrive after the subject has changed.                    *)
TagsAreForTheSubject == (\A t \in tags : t.for = subject) /\ record \in {None, subject}

(* What a save takes out of a review was shown in the form and struck there  *)
(* by hand: not a word the form never showed, nor one added elsewhere since. *)
SavesStrikeByHand ==
    [][\A p \in posts :
          ServePost(p) /\ p.kind = "save" /\ stored[p.of] # NoReview
          => stored[p.of] \ stored'[p.of] \subseteq p.struck]_<<fieldVars, formVars>>

(* Words added by hand are offered until they are struck, another subject is *)
(* picked or the review is saved or deleted: signing in on the way keeps     *)
(* them, and what the review already said joins them (lines 117-139, 220-222)*)
TypedWordsStay == hand.added \subseteq Offered
=============================================================================
