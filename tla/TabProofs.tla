----------------------------- MODULE TabProofs ------------------------------
(***************************************************************************)
(* Proofs about the site's pages in a tab of the browser, for any uris,    *)
(* words, listings and reviews, any sizes of the pages and answers in any  *)
(* order. Each page has its invariant; as a page keeps its state to itself *)
(* and leaving it ends it, the tab has them all.                           *)
(***************************************************************************)
EXTENDS Tab, SequenceFacts

(***************************************************************************)
(* The review form: no late answer picks a subject, the words shown are of *)
(* the subject shown, and a save takes out what was struck by hand only.   *)
(***************************************************************************)

Steps == {"record", "page", "uris", "known", "focus", "paste"}
Requests == [for : Uri \cup Url \cup {None}, step : Steps,
             uris : SUBSET Uri, current : BOOLEAN]

(* A record is asked for by a uri, and only requests for the last thing     *)
(* offered still have their token.                                          *)
AskedFor(a, o) ==
    \A r \in a : /\ r.step = "record" => r.for \in Uri
                 /\ r.step \in Tokened /\ r.current => r.for = o

FieldInv ==
    /\ text \in Text /\ subject \in Uri \cup {None}
    /\ asked \in SUBSET Requests /\ AskedFor(asked, offered)

-----------------------------------------------------------------------------
(* The field. *)

LEMMA RequestTypes ==
    /\ Known \in Requests /\ Known.step \notin Tokened
    /\ \A on \in {"focus", "paste"} : Clipboard(on) \in Requests /\ Clipboard(on).step \notin Tokened
    /\ \A u \in Uri : Record(u) \in Requests /\ Record(u).for = u /\ Record(u).step = "record"
    /\ \A a \in Url : Page(a) \in Requests /\ Page(a).for = a /\ Page(a).step = "page"
<1>1. ASSUME NEW b \in BOOLEAN, NEW f \in Uri \cup Url \cup {None}, NEW s \in Steps
      PROVE  /\ [for |-> f, step |-> s, uris |-> {}, current |-> b] \in Requests
             /\ [for |-> f, step |-> s, uris |-> {}, current |-> b].for = f
             /\ [for |-> f, step |-> s, uris |-> {}, current |-> b].step = s
  BY DEF Requests
<1>2. /\ {"record", "page", "known", "focus", "paste"} \subseteq Steps
      /\ {"known", "focus", "paste"} \cap Tokened = {}
  BY DEF Steps, Tokened
<1>3. /\ Known \in Requests /\ Known.step \notin Tokened
  BY <1>1, <1>2, Zenon DEF Known
<1>4. ASSUME NEW on \in {"focus", "paste"}
      PROVE  Clipboard(on) \in Requests /\ Clipboard(on).step \notin Tokened
  BY <1>1, <1>2, Zenon DEF Clipboard
<1>5. ASSUME NEW u \in Uri PROVE Record(u) \in Requests /\ Record(u).for = u /\ Record(u).step = "record"
  BY <1>1, <1>2, Zenon DEF Record
<1>6. ASSUME NEW a \in Url PROVE Page(a) \in Requests /\ Page(a).for = a /\ Page(a).step = "page"
  BY <1>1, <1>2, Zenon DEF Page
<1>. QED BY <1>3, <1>4, <1>5, <1>6

(* liveToken renewed for r: of the others, only those without a token go on.*)
LEMMA RenewedKeeps ==
    ASSUME NEW a \in SUBSET Requests, \A q \in a : q.step = "record" => q.for \in Uri,
           NEW r \in Requests, r.step = "record" => r.for \in Uri
    PROVE  Renewed(a, r) \in SUBSET Requests /\ AskedFor(Renewed(a, r), r.for)
<1>1. ASSUME NEW q \in Requests, NEW b \in BOOLEAN
      PROVE  /\ [q EXCEPT !.current = b] \in Requests
             /\ [q EXCEPT !.current = b].step = q.step
             /\ [q EXCEPT !.current = b].for = q.for
             /\ [q EXCEPT !.current = b].current = b
  BY DEF Requests
<1>2. ASSUME NEW q \in Renewed(a, r), q # r
      PROVE  q \in Requests /\ (q.step = "record" => q.for \in Uri) /\ (q.current => q.step \notin Tokened)
  <2>1. PICK p \in a : q = [p EXCEPT !.current = p.step \notin Tokened] BY <1>2, Zenon DEF Renewed
  <2>2. (p.step \notin Tokened) \in BOOLEAN /\ p \in Requests OBVIOUS
  <2>3. q \in Requests /\ q.step = p.step /\ q.for = p.for /\ q.current = (p.step \notin Tokened)
    BY <1>1, <2>1, <2>2, Zenon
  <2>. QED BY <2>3
<1>. QED BY <1>2 DEF AskedFor

LEMMA TextTypes ==
    /\ Blank \in Text /\ \A u \in Uri : Title(u) \in Text /\ AtUri(u) \in Text
    /\ \A t \in Text : (t.kind = "uri" => t.of \in Uri) /\ (t.kind = "url" => t.of \in Url)
<1>. USE DEF Text, Typed, Blank, Words, Title, AtUri, Address
<1>1. Blank \in Text /\ \A u \in Uri : Title(u) \in Text /\ AtUri(u) \in Text OBVIOUS
<1>2. ASSUME NEW t \in Text PROVE (t.kind = "uri" => t.of \in Uri) /\ (t.kind = "url" => t.of \in Url)
  <2>1. CASE t \in {Blank, Words} \cup {Title(u) : u \in Uri} BY <2>1
  <2>2. CASE t \in {AtUri(u) : u \in Uri} BY <2>2
  <2>3. CASE t \in {Address(a) : a \in Url} BY <2>3
  <2>. QED BY <2>1, <2>2, <2>3
<1>. QED BY <1>1, <1>2

(* The effects of a handler leave a text and, of requests in order, others. *)
LEMMA LookedKeeps ==
    ASSUME NEW t \in Text, NEW l, NEW p, NEW a \in SUBSET Requests, AskedFor(a, offered), Looked(t, l, p, a)
    PROVE  text' = t /\ asked' \in SUBSET Requests /\ AskedFor(asked', offered')
<1>1. text' = t BY DEF Looked
<1>2. CASE asked' = a /\ UNCHANGED offered BY <1>1, <1>2
<1>3. ASSUME NEW u \in Uri, asked' = Renewed(a, Record(u)), offered' = u
      PROVE  asked' \in SUBSET Requests /\ AskedFor(asked', offered')
  BY <1>3, RenewedKeeps, RequestTypes DEF AskedFor
<1>4. ASSUME NEW u \in Url, asked' = Renewed(a, Page(u)), offered' = u
      PROVE  asked' \in SUBSET Requests /\ AskedFor(asked', offered')
  BY <1>4, RenewedKeeps, RequestTypes DEF AskedFor
<1>5. CASE t.kind = "uri" BY <1>2, <1>3, <1>5, TextTypes DEF Looked
<1>6. CASE t.kind = "url" BY <1>2, <1>4, <1>6, TextTypes DEF Looked
<1>. QED BY <1>1, <1>2, <1>5, <1>6 DEF Looked

LEMMA MoreAsked ==
    ASSUME NEW a \in SUBSET Requests, NEW o, AskedFor(a, o),
           NEW b \in SUBSET ({Known} \cup {Clipboard(on) : on \in {"focus", "paste"}})
    PROVE  a \cup b \in SUBSET Requests /\ AskedFor(a \cup b, o)
<1>1. \A r \in b : r \in Requests /\ r.step \notin Tokened BY RequestTypes
<1>2. "record" \in Tokened BY DEF Tokened
<1>. QED BY <1>1, <1>2 DEF AskedFor

(* What an answer changed is looked at by the effects that had read it. *)
LEMMA AnsweredKeeps ==
    ASSUME text \in Text, NEW l, NEW p, NEW a \in SUBSET Requests, AskedFor(a, offered), Answered(l, p, a)
    PROVE  text' = text /\ asked' \in SUBSET Requests /\ AskedFor(asked', offered')
<1>1. CASE Looked(text, l, p, a) BY <1>1, LookedKeeps
<1>2. CASE asked' = a /\ UNCHANGED <<text, offered>> BY <1>2
<1>. QED BY <1>1, <1>2, Zenon DEF Answered

LEMMA CommitKeeps ==
    ASSUME NEW u \in Uri, NEW a \in SUBSET Requests, AskedFor(a, offered), Commit(u, a)
    PROVE  FieldInv'
<1>1. a \cup {Known} \in SUBSET Requests /\ AskedFor(a \cup {Known}, offered) BY MoreAsked
<1>2. Looked(Title(u), NoLive, NoPage, a \cup {Known}) /\ subject' = u BY DEF Commit
<1>. QED BY <1>1, <1>2, LookedKeeps, TextTypes DEF FieldInv

(* What the clipboard held is asked for, or at once what the field holds.   *)
LEMMA OfferKeeps ==
    ASSUME FieldInv, NEW a \in SUBSET Requests, AskedFor(a, offered), NEW u \in Uri, OfferClipboard(u, a)
    PROVE  asked' \in SUBSET Requests /\ AskedFor(asked', offered')
<1>. DEFINE last == IF text.kind = "uri" THEN text.of ELSE u
            first == {Record(u)} \ {Record(last)}
<1>1. last \in Uri BY TextTypes DEF FieldInv
<1>2. asked' = Renewed(a \cup first, Record(last)) /\ offered' = last BY Zenon DEF OfferClipboard
<1>3. first \subseteq {Record(u)} OBVIOUS
<1>. HIDE DEF last, first
<1>4. a \cup first \in SUBSET Requests /\ \A r \in a \cup first : r.step = "record" => r.for \in Uri
  BY <1>3, RequestTypes DEF AskedFor
<1>. QED BY <1>1, <1>2, <1>4, RenewedKeeps, RequestTypes

LEMMA AttemptKeeps == FieldInv /\ AttemptCommit => FieldInv'
<1>. SUFFICES ASSUME FieldInv, AttemptCommit PROVE FieldInv' OBVIOUS
<1>1. CASE TextCommits
  BY <1>1, CommitKeeps, TextTypes DEF AttemptCommit, TextCommits, Commitable, FieldInv
<1>2. CASE ~TextCommits /\ Commitable
  BY <1>2, LookedKeeps DEF AttemptCommit, FieldInv
<1>3. CASE ~TextCommits /\ ~Commitable BY <1>3 DEF AttemptCommit, FieldInv
<1>. QED BY <1>1, <1>2, <1>3

LEMMA FocusReads ==
    ASSUME NEW t, NEW f \in Focusings(t)
    PROVE  f.reads \in SUBSET {Clipboard(on) : on \in {"focus", "paste"}}
BY DEF Focusings

LEMMA AsksKeep == FieldInv /\ Asks => FieldInv'
<1>. SUFFICES ASSUME FieldInv, Asks PROVE FieldInv' OBVIOUS
<1>. asked \in SUBSET Requests /\ AskedFor(asked, offered) BY DEF FieldInv
<1>1. CASE Focus
  <2>1. UNCHANGED <<text, subject, offered>> BY <1>1 DEF Focus
  <2>2. PICK f \in Focusings(text) : asked' = asked \cup f.reads BY <1>1 DEF Focus
  <2>3. f.reads \in SUBSET {Clipboard(on) : on \in {"focus", "paste"}} BY FocusReads
  <2>. QED BY <2>1, <2>2, <2>3, MoreAsked DEF FieldInv
<1>2. CASE PasteRow BY <1>2, MoreAsked DEF PasteRow, FieldInv
<1>3. CASE Escape BY <1>3 DEF Escape, FieldInv
<1>4. CASE Enter \/ Blur BY <1>4, AttemptKeeps DEF Enter, Blur
<1>5. CASE Clear
  <2>1. subject' = None BY <1>5 DEF Clear
  <2>2. PICK f \in Focusings(Blank) : Looked(Blank, NoLive, NoPage, asked \cup f.reads) BY <1>5 DEF Clear
  <2>3. f.reads \in SUBSET {Clipboard(on) : on \in {"focus", "paste"}} BY FocusReads
  <2>4. asked \cup f.reads \in SUBSET Requests /\ AskedFor(asked \cup f.reads, offered) BY <2>3, MoreAsked
  <2>. QED BY <2>1, <2>2, <2>4, LookedKeeps, TextTypes DEF FieldInv
<1>6. ASSUME NEW t \in Typed, Type(t) PROVE FieldInv'
  <2>1. t \in Text BY DEF Text
  <2>2. CASE t = Blank BY <1>6, <2>1, <2>2, LookedKeeps DEF Type, FieldInv
  <2>3. CASE t # Blank
    <3>1. Looked(t, live, page, asked \cup {Known}) /\ UNCHANGED subject BY <1>6, <2>3 DEF Type
    <3>. QED BY <2>1, <3>1, MoreAsked, LookedKeeps DEF FieldInv
  <2>. QED BY <2>2, <2>3
<1>7. ASSUME NEW u \in Uri, SelectRow(u) PROVE FieldInv' BY <1>7, CommitKeeps DEF SelectRow
<1>. QED BY <1>1, <1>2, <1>3, <1>4, <1>5, <1>6, <1>7 DEF Asks

(* An answer that picks a subject is one to the last question.              *)
LEMMA AnswerKeeps ==
    ASSUME FieldInv, NEW r \in asked,
           \/ RecordResolves(r) \/ RecordFails(r) \/ PageAnswers(r) \/ UrisResolve(r)
           \/ KnownAnswers(r) \/ ClipboardAnswers(r)
    PROVE  FieldInv' /\ (subject' # subject => subject' = offered /\ offered \in Uri /\ r.for = offered)
<1>. asked \in SUBSET Requests /\ AskedFor(asked, offered) /\ text \in Text /\ r \in Requests
  BY DEF FieldInv
<1>1. Answer(r) \in SUBSET Requests /\ AskedFor(Answer(r), offered) BY DEF Answer, AskedFor
<1>2. CASE RecordResolves(r)
  <2>1. CASE AnswerCommits(r)
    <3>1. r.for \in Uri /\ r.for = offered
      BY <1>2, <2>1 DEF RecordResolves, AnswerCommits, Late, AskedFor, Requests, Tokened
    <3>2. Commit(r.for, Answer(r)) BY <1>2, <2>1 DEF RecordResolves
    <3>. QED BY <1>1, <3>1, <3>2, CommitKeeps DEF Commit
  <2>2. CASE ~AnswerCommits(r) BY <1>1, <1>2, <2>2 DEF RecordResolves, FieldInv
  <2>. QED BY <2>1, <2>2
<1>3. ASSUME UNCHANGED subject,
             \/ UNCHANGED <<text, offered>> /\ asked' = Answer(r)
             \/ \E l, p : Answered(l, p, Answer(r))
      PROVE  FieldInv'
  BY <1>1, <1>3, AnsweredKeeps DEF FieldInv
<1>4. CASE RecordFails(r)
  <2>1. UNCHANGED subject BY <1>4 DEF RecordFails
  <2>2. (UNCHANGED <<text, offered>> /\ asked' = Answer(r)) \/ Answered(NoLive, page, Answer(r))
    BY <1>4 DEF RecordFails
  <2>. QED BY <1>3, <2>1, <2>2
<1>5. CASE PageAnswers(r)
  <2>1. UNCHANGED subject BY <1>5 DEF PageAnswers
  <2>2. \/ UNCHANGED <<text, offered>> /\ asked' = Answer(r)
        \/ Answered(live, NoPage, Answer(r))
        \/ \E us \in SUBSET Uri \ {{}} :
              ~Late(r) /\ r.step = "page" /\ UNCHANGED <<text, offered>>
              /\ asked' = Answer(r) \cup {[r EXCEPT !.step = "uris", !.uris = us]}
    BY <1>5 DEF PageAnswers
  <2>3. ASSUME NEW us \in SUBSET Uri, r.current, r.step = "page", UNCHANGED <<text, offered>>,
               asked' = Answer(r) \cup {[r EXCEPT !.step = "uris", !.uris = us]}
        PROVE  FieldInv'
    <3>. DEFINE q == [r EXCEPT !.step = "uris", !.uris = us]
    <3>1. q \in Requests /\ q.step = "uris" /\ q.for = r.for BY DEF Requests, Steps
    <3>2. r.for = offered BY <2>3 DEF AskedFor, Tokened
    <3>3. asked' = Answer(r) \cup {q} /\ UNCHANGED <<text, offered>> BY <2>3
    <3>. HIDE DEF q
    <3>4. asked' \in SUBSET Requests BY <1>1, <3>1, <3>3
    <3>5. AskedFor(asked', offered') BY <1>1, <3>1, <3>2, <3>3 DEF AskedFor
    <3>. QED BY <2>1, <3>3, <3>4, <3>5 DEF FieldInv
  <2>. QED BY <1>3, <2>1, <2>2, <2>3 DEF Late
<1>6. CASE UrisResolve(r)
  <2>1. UNCHANGED subject BY <1>6 DEF UrisResolve
  <2>2. (UNCHANGED <<text, offered>> /\ asked' = Answer(r)) \/ Answered(live, NoPage, Answer(r))
    BY <1>6 DEF UrisResolve
  <2>. QED BY <1>3, <2>1, <2>2
<1>7. CASE KnownAnswers(r) BY <1>3, <1>7 DEF KnownAnswers
<1>8. CASE ClipboardAnswers(r)
  <2>1. UNCHANGED <<text, subject>> BY <1>8 DEF ClipboardAnswers
  <2>2. (asked' = Answer(r) /\ UNCHANGED offered) \/ \E u \in Uri : OfferClipboard(u, Answer(r))
    BY <1>8 DEF ClipboardAnswers
  <2>. QED BY <1>1, <2>1, <2>2, OfferKeeps DEF FieldInv
<1>. QED BY <1>2, <1>4, <1>5, <1>6, <1>7, <1>8
         DEF RecordFails, PageAnswers, UrisResolve, KnownAnswers, ClipboardAnswers

LEMMA FieldStarts == FieldInit => FieldInv
<1>. SUFFICES ASSUME FieldInit PROVE FieldInv OBVIOUS
<1>1. CASE text = Blank /\ asked = {} BY <1>1, TextTypes DEF FieldInit, FieldInv, AskedFor
<1>2. ASSUME NEW u \in Uri, text = AtUri(u), asked = {Record(u), Known}, offered = u PROVE FieldInv
  BY <1>2, TextTypes, RequestTypes DEF FieldInit, FieldInv, AskedFor, Tokened
<1>. QED BY <1>1, <1>2 DEF FieldInit

LEMMA FieldIdles == FieldInv /\ UNCHANGED fieldVars => FieldInv'
BY DEF FieldInv, fieldVars, AskedFor

(* However slow, failing or reordered the answers about the uris and urls    *)
(* entered are: one that picks the subject is about the last thing offered   *)
(* (SubjectField.svelte:197-225).                                            *)
THEOREM NoLateCommit == FieldSpec => LateAnswersDoNotCommit
<1>1. FieldInv /\ [FieldNext]_fieldVars => FieldInv'
  BY AsksKeep, AnswerKeeps, FieldIdles DEF FieldNext, Answers
<1>2. FieldInv /\ [FieldNext]_fieldVars
        => [Answers /\ subject' # subject => subject' = offered /\ offered \in Uri]_fieldVars
  BY AnswerKeeps DEF Answers
<1>. QED BY FieldStarts, <1>1, <1>2, PTL DEF FieldSpec, LateAnswersDoNotCommit

-----------------------------------------------------------------------------
(* The form around it. *)

Tags == [word : Word, for : Uri \cup {None}]
Sends == [kind : {"save", "delete", "refused"}, of : Uri, words : SUBSET Word,
          prefilled : SUBSET Word, struck : SUBSET Word, done : BOOLEAN, at : Nat]

FormTypeOK ==
    /\ tags \in SUBSET Tags /\ prefilled \in SUBSET Word /\ record \in Uri \cup {None}
    /\ loads \in SUBSET [of : Uri, read : (SUBSET Word) \cup {NoReview, None}]
    /\ posts \in SUBSET Sends /\ inputs \in Nat
    /\ hand \in [added : SUBSET Word, struck : SUBSET Word]
    /\ stored \in [Uri -> (SUBSET Word) \cup {NoReview}]

(* Of the review that was loaded, what is no longer in the form was struck;  *)
(* so a post says, too.                                                      *)
PrefilledIsAccounted == prefilled \subseteq Offered \cup hand.struck
PostsAreAccounted == \A p \in posts : p.kind = "save" => p.prefilled \subseteq p.words \cup p.struck

FormInv ==
    /\ FieldInv /\ FormTypeOK /\ TagsAreForTheSubject /\ TypedWordsStay
    /\ PrefilledIsAccounted /\ PostsAreAccounted

LEMMA DoneTypes ==
    ASSUME NEW p \in Sends
    PROVE  LET done == [p EXCEPT !.done = TRUE]
               refused == [p EXCEPT !.kind = "refused", !.done = TRUE]
           IN  /\ done \in Sends /\ refused \in Sends /\ refused.kind = "refused"
               /\ done.kind = p.kind /\ done.of = p.of /\ done.words = p.words
               /\ done.prefilled = p.prefilled /\ done.struck = p.struck
<1>1. ASSUME NEW b \in BOOLEAN
      PROVE  LET done == [p EXCEPT !.done = b]
                 refused == [p EXCEPT !.kind = "refused", !.done = b]
             IN  /\ done \in Sends /\ refused \in Sends /\ refused.kind = "refused"
                 /\ done.kind = p.kind /\ done.of = p.of /\ done.words = p.words
                 /\ done.prefilled = p.prefilled /\ done.struck = p.struck
  BY DEF Sends
<1>. QED BY <1>1, Zenon

LEMMA SendTypes ==
    ASSUME NEW k \in {"save", "delete"}, NEW u \in Uri, NEW w \in SUBSET Word, NEW p \in SUBSET Word,
           NEW s \in SUBSET Word, NEW n \in Nat
    PROVE  LET sent == [kind |-> k, of |-> u, words |-> w, prefilled |-> p, struck |-> s,
                        done |-> FALSE, at |-> n]
           IN  sent \in Sends /\ sent.kind = k /\ sent.words = w /\ sent.prefilled = p /\ sent.struck = s
<1>1. ASSUME NEW b \in BOOLEAN
      PROVE  LET sent == [kind |-> k, of |-> u, words |-> w, prefilled |-> p, struck |-> s,
                          done |-> b, at |-> n]
             IN  sent \in Sends /\ sent.kind = k /\ sent.words = w /\ sent.prefilled = p /\ sent.struck = s
  BY DEF Sends
<1>. QED BY <1>1, Zenon

(* Inputs are counted.                                                      *)
LEMMA InputsCount == inputs \in Nat /\ (Input \/ UNCHANGED inputs) => inputs' \in Nat
BY DEF Input

(* The subject changes only with a clean slate.                             *)
LEMMA ClearedKeeps ==
    ASSUME FormInv, FieldInv', inputs' \in Nat, Cleared, UNCHANGED <<posts, stored>>,
           loads' \in SUBSET [of : Uri, read : (SUBSET Word) \cup {NoReview, None}]
    PROVE  FormInv'
<1>1. FormTypeOK' BY DEF FormInv, FormTypeOK, Cleared, NoHand
<1>2. TagsAreForTheSubject' /\ TypedWordsStay' /\ PrefilledIsAccounted'
  BY DEF Cleared, NoHand, TagsAreForTheSubject, TypedWordsStay, PrefilledIsAccounted
<1>3. PostsAreAccounted' BY DEF FormInv, PostsAreAccounted
<1>. QED BY <1>1, <1>2, <1>3 DEF FormInv

LEMMA ChosenKeeps ==
    ASSUME FormInv, FieldInv', inputs' \in Nat, NEW u \in Uri, OnSubjectChosen(u)
    PROVE  FormInv'
BY ClearedKeeps DEF OnSubjectChosen, LoadExisting, FormInv, FormTypeOK

LEMMA FormIdles ==
    ASSUME FormInv, FieldInv', inputs' \in Nat, subject' = subject,
           UNCHANGED <<tags, prefilled, record, loads, posts, hand, stored>>
    PROVE  FormInv'
BY DEF FormInv, FormTypeOK, TagsAreForTheSubject, TypedWordsStay, PrefilledIsAccounted, PostsAreAccounted,
       Offered

LEMMA FieldInputs == FieldSteps => Input \/ UNCHANGED inputs
<1>1. Asks => Input \/ UNCHANGED inputs
  BY DEF Asks, Focus, PasteRow, Escape, Enter, Blur, Clear, Type, SelectRow
<1>2. Answers => UNCHANGED inputs
  BY DEF Answers, RecordResolves, RecordFails, PageAnswers, UrisResolve, KnownAnswers, ClipboardAnswers
<1>. QED BY <1>1, <1>2 DEF FieldSteps, Asks, Answers

LEMMA FieldStepsKeep == FormInv /\ FieldSteps => FormInv'
<1>. SUFFICES ASSUME FormInv, FieldSteps PROVE FormInv' OBVIOUS
<1>. FieldInv /\ inputs' \in Nat BY FieldInputs, InputsCount DEF FormInv, FormTypeOK
<1>1. CASE (Focus \/ PasteRow \/ Escape \/ \E t \in Typed : Type(t)) /\ UNCHANGED formVars
  <2>1. FieldInv' BY <1>1, AsksKeep DEF Asks
  <2>2. subject' = subject BY <1>1 DEF Focus, PasteRow, Escape, Type
  <2>. QED BY <1>1, <2>1, <2>2, FormIdles DEF formVars
<1>2. CASE (Enter \/ Blur) /\ IF TextCommits THEN OnSubjectChosen(text.of) ELSE UNCHANGED formVars
  <2>1. FieldInv' BY <1>2, AsksKeep DEF Asks
  <2>2. CASE TextCommits
    BY <1>2, <2>1, <2>2, ChosenKeeps, TextTypes DEF TextCommits, Commitable, FieldInv
  <2>3. CASE ~TextCommits
    <3>1. subject' = subject BY <1>2, <2>3 DEF Enter, Blur, AttemptCommit
    <3>. QED BY <1>2, <2>1, <2>3, <3>1, FormIdles DEF formVars
  <2>. QED BY <2>2, <2>3
<1>3. CASE Clear /\ OnSubjectCleared
  <2>1. FieldInv' BY <1>3, AsksKeep DEF Asks
  <2>. QED BY <1>3, <2>1, ClearedKeeps DEF OnSubjectCleared, FormInv, FormTypeOK
<1>4. ASSUME NEW u \in Uri, SelectRow(u) /\ OnSubjectChosen(u) PROVE FormInv'
  <2>1. FieldInv' BY <1>4, AsksKeep DEF Asks
  <2>. QED BY <1>4, <2>1, ChosenKeeps
<1>5. ASSUME NEW r \in asked, RecordResolves(r) /\ IF AnswerCommits(r) THEN OnSubjectChosen(r.for) ELSE UNCHANGED formVars
      PROVE  FormInv'
  <2>1. FieldInv' /\ (subject' # subject => subject' = r.for /\ r.for \in Uri) BY <1>5, AnswerKeeps
  <2>2. r.for \in Uri BY <1>5 DEF RecordResolves, FieldInv, AskedFor
  <2>3. CASE AnswerCommits(r) BY <1>5, <2>1, <2>2, <2>3, ChosenKeeps
  <2>4. CASE ~AnswerCommits(r)
    <3>1. subject' = subject BY <1>5, <2>4 DEF RecordResolves
    <3>. QED BY <1>5, <2>1, <2>4, <3>1, FormIdles DEF formVars
  <2>. QED BY <2>3, <2>4
<1>6. ASSUME NEW r \in asked, UNCHANGED formVars,
             RecordFails(r) \/ PageAnswers(r) \/ UrisResolve(r) \/ KnownAnswers(r) \/ ClipboardAnswers(r)
      PROVE  FormInv'
  <2>1. FieldInv' BY <1>6, AnswerKeeps
  <2>2. subject' = subject
    BY <1>6 DEF RecordFails, PageAnswers, UrisResolve, KnownAnswers, ClipboardAnswers
  <2>. QED BY <1>6, <2>1, <2>2, FormIdles DEF formVars
<1>. QED BY <1>1, <1>2, <1>3, <1>4, <1>5, <1>6 DEF FieldSteps

LEMMA LoadsKeep == FormInv /\ Loads => FormInv'
<1>. SUFFICES ASSUME FormInv, NEW l \in loads, ServeExisting(l) \/ ExistingAnswers(l), UNCHANGED <<fieldVars>>
              PROVE  FormInv'
  BY DEF Loads
<1>1. FieldInv' BY FieldIdles DEF FormInv
<1>2. subject' = subject /\ inputs' = inputs BY DEF fieldVars
<1>3. /\ loads \in SUBSET [of : Uri, read : (SUBSET Word) \cup {NoReview, None}]
      /\ l \in [of : Uri, read : (SUBSET Word) \cup {NoReview, None}]
      /\ stored \in [Uri -> (SUBSET Word) \cup {NoReview}]
  BY DEF FormInv, FormTypeOK
<1>4. CASE ServeExisting(l)
  <2>1. UNCHANGED <<tags, prefilled, record, posts, hand, stored>> BY <1>4 DEF ServeExisting
  <2>. DEFINE m == [l EXCEPT !.read = IF signedIn THEN stored[l.of] ELSE NoReview]
  <2>2. m \in [of : Uri, read : (SUBSET Word) \cup {NoReview, None}] BY <1>3
  <2>3. loads' = (loads \ {l}) \cup {m} BY <1>4 DEF ServeExisting
  <2>. HIDE DEF m
  <2>4. loads' \in SUBSET [of : Uri, read : (SUBSET Word) \cup {NoReview, None}] BY <1>3, <2>2, <2>3
  <2>5. FormTypeOK' BY <1>2, <2>1, <2>4 DEF FormInv, FormTypeOK
  <2>. QED BY <1>1, <1>2, <2>1, <2>5
          DEF FormInv, TagsAreForTheSubject, TypedWordsStay, PrefilledIsAccounted, PostsAreAccounted, Offered
<1>5. CASE ExistingAnswers(l)
  <2>1. /\ UNCHANGED <<posts, hand, stored>> /\ l.read # None
        /\ loads' \in SUBSET [of : Uri, read : (SUBSET Word) \cup {NoReview, None}]
    BY <1>3, <1>5 DEF ExistingAnswers
  <2>2. CASE ForSubject(l) /\ l.read # NoReview
    <3>1. /\ record' = subject /\ subject = l.of /\ prefilled' = l.read /\ l.read \in SUBSET Word
          /\ tags' = tags \cup {[word |-> w, for |-> l.of] : w \in l.read \ Offered}
      BY <1>3, <1>5, <2>1, <2>2 DEF ExistingAnswers, ForSubject, Merged
    <3>2. tags' \in SUBSET Tags /\ \A t \in tags' : t.for = subject
      BY <1>3, <3>1 DEF FormInv, FormTypeOK, TagsAreForTheSubject, Tags
    <3>3. Offered' = Offered \cup l.read
      <4>1. ASSUME NEW w \in l.read \ Offered PROVE \E t \in tags' : t.word = w
        <5>1. [word |-> w, for |-> l.of] \in tags' /\ [word |-> w, for |-> l.of].word = w BY <3>1
        <5>. QED BY <5>1
      <4>2. \A w \in l.read \ Offered : w \in Offered' BY <4>1 DEF Offered
      <4>3. Offered \subseteq Offered' BY <3>1 DEF Offered
      <4>4. \A t \in tags' : t.word \in Offered \cup l.read BY <3>1 DEF Offered
      <4>. QED BY <4>2, <4>3, <4>4 DEF Offered
    <3>4. FormTypeOK' BY <1>2, <1>3, <2>1, <3>1, <3>2 DEF FormInv, FormTypeOK
    <3>. QED BY <1>1, <1>2, <2>1, <3>1, <3>2, <3>3, <3>4
            DEF FormInv, TagsAreForTheSubject, TypedWordsStay, PrefilledIsAccounted, PostsAreAccounted
  <2>3. CASE ~(ForSubject(l) /\ l.read # NoReview)
    <3>1. UNCHANGED <<record, prefilled, tags>> BY <1>5, <2>3 DEF ExistingAnswers
    <3>2. FormTypeOK' BY <1>2, <2>1, <3>1 DEF FormInv, FormTypeOK
    <3>. QED BY <1>1, <1>2, <2>1, <3>1, <3>2
            DEF FormInv, TagsAreForTheSubject, TypedWordsStay, PrefilledIsAccounted, PostsAreAccounted, Offered
  <2>. QED BY <2>2, <2>3
<1>. QED BY <1>4, <1>5

LEMMA PostsKeep == FormInv /\ Posts => FormInv'
<1>. SUFFICES ASSUME FormInv, NEW p \in posts, ServePost(p) \/ PostAnswers(p), UNCHANGED fieldVars
              PROVE  FormInv'
  BY DEF Posts
<1>1. FieldInv' /\ UNCHANGED <<subject, inputs, loads>>
  BY FieldIdles DEF FormInv, ServePost, PostAnswers, fieldVars
<1>2. /\ posts \in SUBSET Sends /\ p \in Sends /\ inputs \in Nat
      /\ stored \in [Uri -> (SUBSET Word) \cup {NoReview}]
  BY DEF FormInv, FormTypeOK
<1>3. CASE ServePost(p)
  <2>1. UNCHANGED <<tags, prefilled, record, hand>> BY <1>3 DEF ServePost
  <2>2. PICK q \in {[p EXCEPT !.done = TRUE], [p EXCEPT !.kind = "refused", !.done = TRUE]} :
           posts' = (posts \ {p}) \cup {q}
    BY <1>3, Zenon DEF ServePost
  <2>3. q \in Sends /\ (q.kind = "save" => q.prefilled \subseteq q.words \cup q.struck)
    <3>1. CASE q = [p EXCEPT !.done = TRUE] BY <1>2, <3>1, DoneTypes DEF FormInv, PostsAreAccounted
    <3>2. CASE q = [p EXCEPT !.kind = "refused", !.done = TRUE] BY <1>2, <3>2, DoneTypes
    <3>. QED BY <2>2, <3>1, <3>2
  <2>4. posts' \in SUBSET Sends /\ PostsAreAccounted' BY <1>2, <2>2, <2>3 DEF FormInv, PostsAreAccounted
  <2>5. stored' \in [Uri -> (SUBSET Word) \cup {NoReview}]
    <3>1. \/ UNCHANGED stored
          \/ stored' = [stored EXCEPT ![p.of] =
                           IF p.kind = "delete" THEN NoReview ELSE Kept(p) \cup p.words]
      BY <1>3, Zenon DEF ServePost
    <3>2. p.of \in Uri /\ p.words \in SUBSET Word BY <1>2 DEF Sends
    <3>3. Kept(p) \in SUBSET Word BY <1>2, <3>2 DEF Kept
    <3>. QED BY <1>2, <3>1, <3>2, <3>3
  <2>6. FormTypeOK' BY <1>1, <2>1, <2>4, <2>5 DEF FormInv, FormTypeOK
  <2>. QED BY <1>1, <2>1, <2>4, <2>6
          DEF FormInv, TagsAreForTheSubject, TypedWordsStay, PrefilledIsAccounted, Offered
<1>4. CASE PostAnswers(p)
  <2>1. posts' = posts \ {p} /\ UNCHANGED stored BY <1>4 DEF PostAnswers
  <2>2. posts' \in SUBSET Sends /\ PostsAreAccounted' BY <1>2, <2>1 DEF FormInv, PostsAreAccounted
  <2>3. CASE Cleared
    <3>1. FormTypeOK' BY <1>1, <2>1, <2>2, <2>3 DEF FormInv, FormTypeOK, Cleared, NoHand
    <3>2. TagsAreForTheSubject' /\ TypedWordsStay' /\ PrefilledIsAccounted'
      BY <2>3 DEF Cleared, NoHand, TagsAreForTheSubject, TypedWordsStay, PrefilledIsAccounted
    <3>. QED BY <1>1, <2>2, <3>1, <3>2 DEF FormInv
  <2>4. CASE UNCHANGED <<tags, prefilled, record, hand>>
    <3>1. FormTypeOK' BY <1>1, <2>1, <2>2, <2>4 DEF FormInv, FormTypeOK
    <3>. QED BY <1>1, <2>2, <2>4, <3>1
            DEF FormInv, TagsAreForTheSubject, TypedWordsStay, PrefilledIsAccounted, Offered
  <2>. QED BY <1>4, <2>3, <2>4 DEF PostAnswers
<1>. QED BY <1>3, <1>4

(* Words by hand, the two posts, other places.                              *)
LEMMA WritesKeep ==
    FormInv /\ Writes /\ UNCHANGED <<text, subject, live, page, pending, list, asked, offered>> => FormInv'
<1>. SUFFICES ASSUME FormInv, Writes, UNCHANGED <<text, subject, live, page, pending, list, asked, offered>>
              PROVE  FormInv'
  OBVIOUS
<1>1. FieldInv' /\ subject' = subject BY DEF FormInv, FieldInv
<1>2. FormTypeOK /\ subject \in Uri \cup {None} /\ inputs' \in Nat
  <2>1. Input BY DEF Writes, AddWord, StrikeWord, Save, Delete, Elsewhere
  <2>. QED BY <2>1, InputsCount DEF FormInv, FormTypeOK, FieldInv
<1>3. Offered \in SUBSET Word BY <1>2 DEF Offered, FormTypeOK, Tags
<1>4. ASSUME NEW w \in Word, AddWord(w) PROVE FormInv'
  <2>. DEFINE t == [word |-> w, for |-> subject]
  <2>1. t \in Tags /\ t.word = w /\ t.for = subject BY <1>2 DEF Tags
  <2>2. /\ tags' = tags \cup {t} /\ hand' = [hand EXCEPT !.added = @ \cup {w}]
        /\ UNCHANGED <<prefilled, record, loads, posts, stored>>
    BY <1>4 DEF AddWord
  <2>. HIDE DEF t
  <2>3. Offered' = Offered \cup {w} BY <2>1, <2>2 DEF Offered
  <2>4. hand'.added = hand.added \cup {w} /\ hand'.struck = hand.struck BY <1>2, <2>2 DEF FormTypeOK
  <2>5. FormTypeOK' BY <1>2, <2>1, <2>2 DEF FormTypeOK
  <2>. QED BY <1>1, <2>1, <2>2, <2>3, <2>4, <2>5
          DEF FormInv, TagsAreForTheSubject, TypedWordsStay, PrefilledIsAccounted, PostsAreAccounted
<1>5. ASSUME NEW t \in tags, StrikeWord(t) PROVE FormInv'
  <2>1. /\ tags' = tags \ {t}
        /\ hand' = [added |-> hand.added \ {t.word}, struck |-> hand.struck \cup {t.word}]
        /\ UNCHANGED <<prefilled, record, loads, posts, stored>>
    BY <1>5 DEF StrikeWord
  <2>2. Offered \ {t.word} \subseteq Offered' BY <2>1 DEF Offered
  <2>3. FormTypeOK' BY <1>2, <2>1 DEF FormTypeOK, Tags
  <2>. QED BY <1>1, <2>1, <2>2, <2>3
          DEF FormInv, TagsAreForTheSubject, TypedWordsStay, PrefilledIsAccounted, PostsAreAccounted
<1>6. CASE Save
  <2>. DEFINE p == [kind |-> "save", of |-> subject, words |-> Offered, prefilled |-> prefilled,
                    struck |-> hand.struck, done |-> FALSE, at |-> inputs]
  <2>1. /\ subject \in Uri /\ UNCHANGED <<tags, prefilled, record, loads, stored, hand>>
        /\ posts' = posts \cup {p}
    BY <1>2, <1>6, Zenon DEF Save
  <2>2. prefilled \in SUBSET Word /\ hand.struck \in SUBSET Word /\ inputs \in Nat BY <1>2 DEF FormTypeOK
  <2>3. /\ p \in Sends /\ p.words = Offered /\ p.prefilled = prefilled /\ p.struck = hand.struck
    BY <1>3, <2>1, <2>2, SendTypes
  <2>. HIDE DEF p
  <2>4. PostsAreAccounted' BY <2>1, <2>3 DEF FormInv, PostsAreAccounted, PrefilledIsAccounted
  <2>5. FormTypeOK' BY <1>2, <2>1, <2>3 DEF FormTypeOK
  <2>. QED BY <1>1, <2>1, <2>4, <2>5
          DEF FormInv, TagsAreForTheSubject, TypedWordsStay, PrefilledIsAccounted, Offered
<1>7. CASE Delete
  <2>. DEFINE p == [kind |-> "delete", of |-> record, words |-> {}, prefilled |-> {},
                    struck |-> {}, done |-> FALSE, at |-> inputs]
  <2>1. /\ record # None /\ UNCHANGED <<tags, prefilled, record, loads, stored, hand>>
        /\ posts' = posts \cup {p}
    BY <1>7, Zenon DEF Delete, Removable
  <2>2. p \in Sends /\ p.kind = "delete" BY <1>2, <2>1, SendTypes DEF FormTypeOK
  <2>. HIDE DEF p
  <2>3. PostsAreAccounted' BY <2>1, <2>2 DEF FormInv, PostsAreAccounted
  <2>4. FormTypeOK' BY <1>2, <2>1, <2>2 DEF FormTypeOK
  <2>. QED BY <1>1, <2>1, <2>3, <2>4
          DEF FormInv, TagsAreForTheSubject, TypedWordsStay, PrefilledIsAccounted, Offered
<1>8. ASSUME NEW u \in Uri, NEW w \in Word, Elsewhere(u, w) PROVE FormInv'
  <2>1. UNCHANGED <<tags, prefilled, record, loads, posts, hand>> BY <1>8 DEF Elsewhere
  <2>2. stored' \in [Uri -> (SUBSET Word) \cup {NoReview}]
    BY <1>2, <1>8 DEF Elsewhere, FormTypeOK
  <2>3. FormTypeOK' BY <1>2, <2>1, <2>2 DEF FormTypeOK
  <2>. QED BY <1>1, <2>1, <2>3
          DEF FormInv, TagsAreForTheSubject, TypedWordsStay, PrefilledIsAccounted, PostsAreAccounted, Offered
<1>. QED BY <1>4, <1>5, <1>6, <1>7, <1>8 DEF Writes

LEMMA SignInKeeps == FormInv /\ SignIn => FormInv'
<1>. SUFFICES ASSUME FormInv, SignIn PROVE FormInv' OBVIOUS
<1>1. FieldInv /\ FormTypeOK BY DEF FormInv
<1>2. /\ prefilled' = {} /\ record' = None /\ posts' = {} /\ UNCHANGED stored
      /\ inputs' \in Nat
  BY InputsCount DEF SignIn, FormInv, FormTypeOK
<1>3. PostsAreAccounted' BY <1>2 DEF PostsAreAccounted
<1>4. \A a \in {{}, {Known}} : a \in SUBSET Requests /\ AskedFor(a, offered)
  BY RequestTypes DEF AskedFor, Tokened
<1>5. CASE Drafted
  <2>1. /\ subject' = subject /\ tags' = tags /\ hand' = [hand EXCEPT !.struck = {}]
        /\ Looked(text, NoLive, NoPage, IF text = Blank THEN {} ELSE {Known})
        /\ loads' = IF subject = None THEN {} ELSE {[of |-> subject, read |-> None]}
    BY <1>5 DEF SignIn, Restored
  <2>2. FieldInv' BY <1>1, <1>4, <2>1, LookedKeeps DEF FieldInv
  <2>3. FormTypeOK' BY <1>1, <1>2, <1>3, <2>1 DEF FormTypeOK, FieldInv
  <2>4. hand'.added = hand.added BY <1>1, <2>1 DEF FormTypeOK
  <2>. QED BY <1>2, <1>3, <2>1, <2>2, <2>3, <2>4
          DEF FormInv, TagsAreForTheSubject, TypedWordsStay, PrefilledIsAccounted, Offered
<1>6. CASE ~Drafted
  <2>1. /\ subject' = None /\ tags' = {} /\ hand' = NoHand /\ loads' = {}
        /\ Looked(Blank, NoLive, NoPage, {})
    BY <1>6 DEF SignIn
  <2>2. FieldInv' BY <1>4, <2>1, LookedKeeps, TextTypes DEF FieldInv
  <2>3. FormTypeOK' BY <1>1, <1>2, <1>3, <2>1 DEF FormTypeOK, NoHand
  <2>. QED BY <1>2, <1>3, <2>1, <2>2, <2>3
          DEF FormInv, TagsAreForTheSubject, TypedWordsStay, PrefilledIsAccounted, NoHand
<1>. QED BY <1>5, <1>6

LEMMA FormStarts == FormInit => FormInv
<1>. SUFFICES ASSUME FormInit PROVE FormInv OBVIOUS
<1>1. FieldInv /\ subject = None BY FieldStarts DEF FormInit, FieldInit
<1>2. /\ tags = {} /\ prefilled = {} /\ record = None /\ loads = {} /\ posts = {} /\ hand = NoHand
      /\ stored \in FirstStored /\ inputs = 0
  BY DEF FormInit, FieldInit
<1>3. stored \in [Uri -> (SUBSET Word) \cup {NoReview}] BY <1>2, FormAssumption
<1>4. FormTypeOK BY <1>2, <1>3 DEF FormTypeOK, NoHand
<1>5. PostsAreAccounted BY <1>2 DEF PostsAreAccounted
<1>. QED BY <1>1, <1>2, <1>4, <1>5
        DEF FormInv, TagsAreForTheSubject, TypedWordsStay, PrefilledIsAccounted, NoHand

LEMMA FormKeeps == FormInv /\ [FormNext]_<<fieldVars, formVars>> => FormInv'
<1>. SUFFICES ASSUME FormInv, [FormNext]_<<fieldVars, formVars>> PROVE FormInv' OBVIOUS
<1>1. CASE UNCHANGED <<fieldVars, formVars>>
  <2>1. FieldInv' BY <1>1, FieldIdles DEF FormInv
  <2>2. inputs' \in Nat BY <1>1 DEF fieldVars, FormInv, FormTypeOK
  <2>. QED BY <1>1, <2>1, <2>2, FormIdles DEF fieldVars, formVars
<1>. QED BY <1>1, FieldStepsKeep, LoadsKeep, PostsKeep, SignInKeeps, WritesKeep DEF FormNext

(* The words on the form, and the review its Delete would delete, are of the *)
(* subject in its field, whichever answers about earlier subjects arrive     *)
(* when (ReviewForm.svelte:141-215).                                         *)
THEOREM FormIsOfOneSubject == FormSpec => []TagsAreForTheSubject
<1>1. FormInv => TagsAreForTheSubject BY DEF FormInv
<1>. QED BY FormStarts, FormKeeps, <1>1, PTL DEF FormSpec

(* A word put in by hand is offered until it is struck by hand or the slate  *)
(* is wiped, over a sign-in and a late load, too (ReviewForm.svelte:117-139, *)
(* 220-222).                                                                 *)
THEOREM HandWordsStay == FormSpec => []TypedWordsStay
<1>1. FormInv => TypedWordsStay BY DEF FormInv
<1>. QED BY FormStarts, FormKeeps, <1>1, PTL DEF FormSpec

LEMMA SavesStrike ==
    ASSUME FormInv, NEW p \in posts, ServePost(p), p.kind = "save", stored[p.of] # NoReview
    PROVE  stored[p.of] \ stored'[p.of] \subseteq p.struck
<1>1. CASE UNCHANGED stored BY <1>1
<1>2. CASE stored' = [stored EXCEPT ![p.of] = Kept(p) \cup p.words]
  <2>1. p.of \in Uri BY DEF FormInv, FormTypeOK, Sends
  <2>2. stored'[p.of] = (stored[p.of] \ p.prefilled) \cup p.words
    BY <1>2, <2>1 DEF FormInv, FormTypeOK, Kept
  <2>. QED BY <2>2 DEF FormInv, PostsAreAccounted
<1>. QED BY <1>1, <1>2, Zenon DEF ServePost

(* A save takes out of the stored review only words that were struck by hand *)
(* in the form that sent it: not a word added elsewhere since it was loaded, *)
(* nor one a late or missing load never showed.                              *)
THEOREM SavesTakeOnlyStruck == FormSpec => SavesStrikeByHand
<1>1. FormInv => [\A p \in posts :
                     ServePost(p) /\ p.kind = "save" /\ stored[p.of] # NoReview
                     => stored[p.of] \ stored'[p.of] \subseteq p.struck]_<<fieldVars, formVars>>
  BY SavesStrike
<1>. QED BY FormStarts, FormKeeps, <1>1, PTL DEF FormSpec, SavesStrikeByHand

-----------------------------------------------------------------------------
(***************************************************************************)
(* The import: the rows shown are the last load's, and every row posted is *)
(* answered.                                                               *)
(***************************************************************************)

Worded == {"default", "own", "blank", "none", "mixed"}
Dated == Nat \cup {Missing}
ListedRow == [subject : Subj \cup {Missing}, at : Dated]
DataRow == [uri : Subj, at : Dated, existing : Worded]
ShownRow == [row : DataRow, selected : BOOLEAN]

-----------------------------------------------------------------------------
(* What a load makes of the other app's records. *)

(* The earlier of two dates is the oldest there is once both have been seen. *)
LEMMA EarliestIsOldest ==
    ASSUME NEW D \in SUBSET Nat, NEW a \in Dated, Oldest(a, D), NEW b \in Dated
    PROVE  Earliest(a, b) \in Dated /\ Oldest(Earliest(a, b), D \cup ({b} \ {Missing}))
<1>. Missing \notin Nat BY ImportAssumption
<1>1. CASE b = Missing BY <1>1 DEF Earliest, Oldest
<1>2. CASE b # Missing /\ a = Missing
  <2>1. b \in Nat /\ D = {} BY <1>2 DEF Dated, Oldest
  <2>. QED BY <1>2, <2>1 DEF Earliest, Oldest, Dated
<1>3. CASE b # Missing /\ a # Missing
  <2>1. a \in Nat /\ b \in Nat /\ D # {} BY <1>3 DEF Dated, Oldest
  <2>2. a \in D /\ \A t \in D : a <= t BY <2>1 DEF Oldest
  <2>3. D \cup ({b} \ {Missing}) = D \cup {b} BY <1>3
  <2>4. CASE b < a
    <3>1. Earliest(a, b) = b BY <1>3, <2>4 DEF Earliest
    <3>. QED BY <2>1, <2>2, <2>3, <2>4, <3>1 DEF Oldest, Dated
  <2>5. CASE ~(b < a)
    <3>1. Earliest(a, b) = a BY <1>3, <2>5 DEF Earliest
    <3>. QED BY <2>1, <2>2, <2>3, <2>5, <3>1 DEF Oldest, Dated
  <2>. QED BY <2>4, <2>5
<1>. QED BY <1>1, <1>2, <1>3

LEMMA AgedGroup ==
    ASSUME NEW g \in DataRow, NEW a \in Dated
    PROVE  /\ [g EXCEPT !.at = a] \in DataRow
           /\ [g EXCEPT !.at = a].uri = g.uri /\ [g EXCEPT !.at = a].at = a
BY DEF DataRow

(* The groups of the first n records. *)
Seen(l, n, uri) == \E j \in 1..n : l[j].subject = uri
DatesUpTo(l, n, uri) == {l[i].at : i \in {j \in 1..n : l[j].subject = uri}} \ {Missing}
GroupsUpTo(l, n, d) ==
    /\ \A uri \in Subj : (\E i \in 1..Len(d) : d[i].uri = uri) <=> Seen(l, n, uri)
    /\ \A i, j \in 1..Len(d) : d[i].uri = d[j].uri => i = j
    /\ \A i \in 1..Len(d) : Oldest(d[i].at, DatesUpTo(l, n, d[i].uri))

LEMMA NextDates ==
    ASSUME NEW l \in Seq(ListedRow), NEW n \in 1..Len(l), NEW uri \in Subj
    PROVE  /\ Seen(l, n, uri) <=> Seen(l, n - 1, uri) \/ l[n].subject = uri
           /\ DatesUpTo(l, n, uri) \in SUBSET Nat
           /\ DatesUpTo(l, n - 1, uri) \in SUBSET Nat
           /\ DatesUpTo(l, n, uri) = IF l[n].subject = uri
                                     THEN DatesUpTo(l, n - 1, uri) \cup ({l[n].at} \ {Missing})
                                     ELSE DatesUpTo(l, n - 1, uri)
           /\ ~Seen(l, n - 1, uri) => DatesUpTo(l, n - 1, uri) = {}
<1>1. 1..n = (1..(n - 1)) \cup {n} /\ n - 1 \in Nat OBVIOUS
<1>2. \A i \in 1..n : l[i] \in ListedRow /\ l[i].at \in Dated
  <2>. TAKE i \in 1..n
  <2>1. i \in 1..Len(l) OBVIOUS
  <2>2. l[i] \in ListedRow BY <2>1, ElementOfSeq
  <2>. QED BY <2>2 DEF ListedRow
<1>3. Seen(l, n, uri) <=> Seen(l, n - 1, uri) \/ l[n].subject = uri BY <1>1 DEF Seen
<1>4. DatesUpTo(l, n, uri) \in SUBSET Nat /\ DatesUpTo(l, n - 1, uri) \in SUBSET Nat
  BY <1>1, <1>2 DEF DatesUpTo, Dated
<1>5. DatesUpTo(l, n, uri) = IF l[n].subject = uri
                             THEN DatesUpTo(l, n - 1, uri) \cup ({l[n].at} \ {Missing})
                             ELSE DatesUpTo(l, n - 1, uri)
  BY <1>1 DEF DatesUpTo
<1>6. ~Seen(l, n - 1, uri) => DatesUpTo(l, n - 1, uri) = {} BY DEF Seen, DatesUpTo
<1>. QED BY <1>3, <1>4, <1>5, <1>6

LEMMA GroupedKeeps ==
    ASSUME NEW l \in Seq(ListedRow), NEW n \in 1..Len(l), NEW reviewed \in [Subj -> Worded],
           NEW d \in Seq(DataRow), GroupsUpTo(l, n - 1, d)
    PROVE  Grouped(d, l[n], reviewed) \in Seq(DataRow) /\ GroupsUpTo(l, n, Grouped(d, l[n], reviewed))
<1>. DEFINE r == l[n]
<1>1. r \in ListedRow /\ r.subject \in Subj \cup {Missing} /\ r.at \in Dated
  <2>1. r \in ListedRow BY ElementOfSeq
  <2>. QED BY <2>1 DEF ListedRow
<1>2. \A i \in 1..Len(d) : d[i] \in DataRow /\ d[i].uri \in Subj /\ d[i].at \in Dated
  <2>1. \A i \in 1..Len(d) : d[i] \in DataRow BY ElementOfSeq
  <2>. QED BY <2>1 DEF DataRow
<1>3. Missing \notin Subj /\ Missing \notin Nat /\ Missing \in Dated BY ImportAssumption DEF Dated
<1>. HIDE DEF r
<1>4. CASE r.subject = Missing
  <2>1. Grouped(d, r, reviewed) = d BY <1>4 DEF Grouped
  <2>2. \A uri \in Subj : (Seen(l, n, uri) <=> Seen(l, n - 1, uri))
                          /\ DatesUpTo(l, n, uri) = DatesUpTo(l, n - 1, uri)
    BY <1>3, <1>4, NextDates DEF r
  <2>3. GroupsUpTo(l, n, d) BY <1>2, <2>2 DEF GroupsUpTo
  <2>. QED BY <2>1, <2>3 DEF r
<1>5. CASE r.subject # Missing /\ \E i \in DOMAIN d : d[i].uri = r.subject
  <2>. DEFINE e == Grouped(d, r, reviewed)
  <2>1. e = [i \in 1..Len(d) |-> IF d[i].uri = r.subject THEN [d[i] EXCEPT !.at = Earliest(@, r.at)] ELSE d[i]]
    <3>1. DOMAIN d = 1..Len(d) OBVIOUS
    <3>. QED BY <1>5, <3>1, Zenon DEF Grouped
  <2>2. ASSUME NEW i \in 1..Len(d)
        PROVE  /\ e[i] \in DataRow /\ e[i].uri = d[i].uri
               /\ Oldest(e[i].at, DatesUpTo(l, n, d[i].uri))
    <3>1. d[i] \in DataRow /\ d[i].uri \in Subj /\ d[i].at \in Dated BY <1>2
    <3>2. Oldest(d[i].at, DatesUpTo(l, n - 1, d[i].uri)) BY DEF GroupsUpTo
    <3>3. /\ DatesUpTo(l, n - 1, d[i].uri) \in SUBSET Nat
          /\ DatesUpTo(l, n, d[i].uri) = IF r.subject = d[i].uri
                                         THEN DatesUpTo(l, n - 1, d[i].uri) \cup ({r.at} \ {Missing})
                                         ELSE DatesUpTo(l, n - 1, d[i].uri)
      BY <3>1, NextDates DEF r
    <3>4. CASE d[i].uri = r.subject
      <4>1. e[i] = [d[i] EXCEPT !.at = Earliest(@, r.at)] BY <2>1, <3>4
      <4>2. Earliest(d[i].at, r.at) \in Dated /\ Oldest(Earliest(d[i].at, r.at), DatesUpTo(l, n, d[i].uri))
        BY <1>1, <3>1, <3>2, <3>3, <3>4, EarliestIsOldest
      <4>3. e[i] \in DataRow /\ e[i].uri = d[i].uri /\ e[i].at = Earliest(d[i].at, r.at)
        BY <3>1, <4>1, <4>2, AgedGroup
      <4>. QED BY <4>2, <4>3
    <3>5. CASE d[i].uri # r.subject
      <4>1. e[i] = d[i] BY <2>1, <3>5
      <4>. QED BY <3>1, <3>2, <3>3, <3>5, <4>1
    <3>. QED BY <3>4, <3>5
  <2>. HIDE DEF e
  <2>3. e \in Seq(DataRow) /\ Len(e) = Len(d)
    <3>1. e \in [1..Len(d) -> DataRow] BY <2>1, <2>2
    <3>. QED BY <3>1, IsASeq, LenProperties
  <2>4. \E i \in 1..Len(d) : d[i].uri = r.subject BY <1>5
  <2>5. r.subject \in Subj BY <1>1, <1>5
  <2>6. \A uri \in Subj : (\E i \in 1..Len(e) : e[i].uri = uri) <=> Seen(l, n, uri)
    <3>. TAKE uri \in Subj
    <3>1. (\E i \in 1..Len(d) : d[i].uri = uri) <=> Seen(l, n - 1, uri) BY DEF GroupsUpTo
    <3>2. Seen(l, n, uri) <=> Seen(l, n - 1, uri) \/ r.subject = uri BY NextDates DEF r
    <3>. QED BY <2>2, <2>3, <2>4, <3>1, <3>2
  <2>7. \A i, j \in 1..Len(e) : e[i].uri = e[j].uri => i = j BY <2>2, <2>3 DEF GroupsUpTo
  <2>8. GroupsUpTo(l, n, e) BY <2>2, <2>3, <2>6, <2>7 DEF GroupsUpTo
  <2>. QED BY <2>3, <2>8 DEF e, r
<1>6. CASE r.subject # Missing /\ ~\E i \in DOMAIN d : d[i].uri = r.subject
  <2>. DEFINE fresh == [uri |-> r.subject, at |-> Earliest(Missing, r.at), existing |-> reviewed[r.subject]]
              e == Grouped(d, r, reviewed)
  <2>1. r.subject \in Subj BY <1>1, <1>6
  <2>2. ~Seen(l, n - 1, r.subject) /\ DatesUpTo(l, n - 1, r.subject) = {}
    <3>1. ~Seen(l, n - 1, r.subject) BY <1>6, <2>1 DEF GroupsUpTo
    <3>. QED BY <2>1, <3>1, NextDates
  <2>3. DatesUpTo(l, n, r.subject) = {} \cup ({r.at} \ {Missing}) BY <2>1, <2>2, NextDates DEF r
  <2>4. Earliest(Missing, r.at) \in Dated /\ Oldest(Earliest(Missing, r.at), {} \cup ({r.at} \ {Missing}))
    <3>1. Oldest(Missing, {}) /\ {} \in SUBSET Nat BY DEF Oldest
    <3>. QED BY <1>1, <1>3, <3>1, EarliestIsOldest
  <2>5. fresh \in DataRow /\ fresh.uri = r.subject /\ Oldest(fresh.at, DatesUpTo(l, n, r.subject))
    BY <2>1, <2>3, <2>4 DEF DataRow
  <2>6. e = Append(d, fresh) BY <1>6 DEF Grouped
  <2>. HIDE DEF fresh, e
  <2>7. /\ e \in Seq(DataRow) /\ Len(e) = Len(d) + 1 /\ e[Len(d) + 1] = fresh
        /\ \A i \in 1..Len(d) : e[i] = d[i]
    BY <2>5, <2>6, AppendProperties
  <2>8. 1..Len(e) = (1..Len(d)) \cup {Len(d) + 1} BY <2>7
  <2>9. \A uri \in Subj : (\E i \in 1..Len(e) : e[i].uri = uri) <=> Seen(l, n, uri)
    <3>. TAKE uri \in Subj
    <3>1. (\E i \in 1..Len(d) : d[i].uri = uri) <=> Seen(l, n - 1, uri) BY DEF GroupsUpTo
    <3>2. Seen(l, n, uri) <=> Seen(l, n - 1, uri) \/ r.subject = uri BY NextDates DEF r
    <3>. QED BY <2>5, <2>7, <2>8, <3>1, <3>2
  <2>10. \A i \in 1..Len(d) : d[i].uri # r.subject BY <1>6
  <2>11. \A i, j \in 1..Len(e) : e[i].uri = e[j].uri => i = j
    <3>1. \A i, j \in 1..Len(d) : d[i].uri = d[j].uri => i = j BY DEF GroupsUpTo
    <3>. QED BY <2>5, <2>7, <2>8, <2>10, <3>1
  <2>12. ASSUME NEW i \in 1..Len(e) PROVE Oldest(e[i].at, DatesUpTo(l, n, e[i].uri))
    <3>1. CASE i = Len(d) + 1 BY <2>5, <2>7, <3>1
    <3>2. CASE i \in 1..Len(d)
      <4>1. e[i] = d[i] /\ d[i].uri \in Subj /\ d[i].uri # r.subject BY <1>2, <2>7, <2>10, <3>2
      <4>2. DatesUpTo(l, n, d[i].uri) = DatesUpTo(l, n - 1, d[i].uri) BY <4>1, NextDates DEF r
      <4>3. Oldest(d[i].at, DatesUpTo(l, n - 1, d[i].uri)) BY <3>2 DEF GroupsUpTo
      <4>. QED BY <4>1, <4>2, <4>3
    <3>. QED BY <2>8, <3>1, <3>2
  <2>13. GroupsUpTo(l, n, e) BY <2>9, <2>11, <2>12 DEF GroupsUpTo
  <2>. QED BY <2>7, <2>13 DEF e, r
<1>. QED BY <1>4, <1>5, <1>6

LEMMA GroupedTypes ==
    ASSUME NEW d \in Seq(DataRow), NEW r \in ListedRow, NEW reviewed \in [Subj -> Worded]
    PROVE  Grouped(d, r, reviewed) \in Seq(DataRow)
<1>1. r.subject \in Subj \cup {Missing} /\ r.at \in Dated BY DEF ListedRow
<1>2. \A a, b \in Dated : Earliest(a, b) \in Dated BY DEF Earliest
<1>3. DOMAIN d = 1..Len(d) /\ \A i \in 1..Len(d) : d[i] \in DataRow /\ d[i].at \in Dated
  <2>1. \A i \in 1..Len(d) : d[i] \in DataRow BY ElementOfSeq
  <2>. QED BY <2>1 DEF DataRow
<1>4. CASE r.subject # Missing /\ \E i \in DOMAIN d : d[i].uri = r.subject
  <2>. DEFINE e == [i \in 1..Len(d) |-> IF d[i].uri = r.subject THEN [d[i] EXCEPT !.at = Earliest(@, r.at)] ELSE d[i]]
  <2>1. Grouped(d, r, reviewed) = e BY <1>3, <1>4, Zenon DEF Grouped
  <2>2. ASSUME NEW i \in 1..Len(d) PROVE e[i] \in DataRow
    <3>1. Earliest(d[i].at, r.at) \in Dated BY <1>1, <1>2, <1>3
    <3>2. [d[i] EXCEPT !.at = Earliest(@, r.at)] \in DataRow BY <1>3, <3>1, AgedGroup
    <3>. QED BY <1>3, <3>2
  <2>3. DOMAIN e = 1..Len(d) OBVIOUS
  <2>4. e = [i \in 1..Len(d) |-> e[i]] OBVIOUS
  <2>. HIDE DEF e
  <2>5. e \in [1..Len(d) -> DataRow] BY <2>2, <2>3, <2>4
  <2>. QED BY <2>1, <2>5, IsASeq
<1>5. CASE r.subject # Missing /\ ~\E i \in DOMAIN d : d[i].uri = r.subject
  <2>. DEFINE fresh == [uri |-> r.subject, at |-> Earliest(Missing, r.at), existing |-> reviewed[r.subject]]
  <2>1. fresh \in DataRow BY <1>1, <1>2, <1>5 DEF DataRow, Dated
  <2>2. Grouped(d, r, reviewed) = Append(d, fresh) BY <1>5 DEF Grouped
  <2>. HIDE DEF fresh
  <2>. QED BY <2>1, <2>2, AppendProperties
<1>. QED BY <1>4, <1>5 DEF Grouped

(* A load's rows: one for each subject listed, as old as the oldest record  *)
(* about it.                                                                *)
LEMMA PreviewGroups ==
    ASSUME NEW l \in Seq(ListedRow), NEW reviewed \in [Subj -> Worded]
    PROVE  Preview(l, reviewed) \in Seq(DataRow) /\ GroupsUpTo(l, Len(l), Preview(l, reviewed))
<1>. DEFINE N == Len(l)
            X == Seq(DataRow)
            empty == <<>>
            step == [n \in 1..N |-> [a \in X |-> Grouped(a, l[n], reviewed)]]
            Defines(h) == h = [n \in 0..N |-> IF n = 0 THEN empty ELSE Grouped(h[n - 1], l[n], reviewed)]
<1>1. N \in Nat /\ empty \in X /\ \A n \in 1..N, a \in X : Grouped(a, l[n], reviewed) \in X
  BY ElementOfSeq, GroupedTypes
<1>2. GroupsUpTo(l, 0, empty) BY DEF GroupsUpTo, Seen
<1>3. \A n \in 1..N, a \in X : GroupsUpTo(l, n - 1, a) => GroupsUpTo(l, n, Grouped(a, l[n], reviewed))
  BY GroupedKeeps
<1>. HIDE DEF N, X, empty
<1>4. step \in [1..N -> [X -> X]] BY <1>1
<1>5. PICK f \in [0..N -> X] : Follows(f, N, empty, step)
  <2>. HIDE DEF step
  <2>1. N \in Nat /\ empty \in X BY <1>1
  <2>. QED BY <1>4, <2>1, RecursionExists
<1>6. \A n \in 1..N : f[n - 1] \in X /\ f[n] = Grouped(f[n - 1], l[n], reviewed)
  <2>. TAKE n \in 1..N
  <2>1. f[n - 1] \in X BY <1>1
  <2>. QED BY <1>5, <2>1 DEF Follows
<1>7. Defines(f)
  <2>1. ASSUME NEW n \in 0..N
        PROVE  f[n] = IF n = 0 THEN empty ELSE Grouped(f[n - 1], l[n], reviewed)
    <3>1. n = 0 \/ n \in 1..N BY <1>1
    <3>. QED BY <1>5, <1>6, <3>1 DEF Follows
  <2>. QED BY <2>1
<1>. DEFINE g == CHOOSE h : Defines(h)
<1>8. Defines(g) BY <1>7
<1>9. Preview(l, reviewed) = g[N] BY DEF Preview, N, empty
<1>. HIDE DEF g
<1>. DEFINE P == {n \in 0..N : g[n] \in X /\ GroupsUpTo(l, n, g[n])}
<1>10. 0 \in P
  <2>1. 0 \in 0..N /\ g[0] = empty BY <1>1, <1>8
  <2>. QED BY <1>1, <1>2, <2>1
<1>11. ASSUME NEW n \in 1..N, n - 1 \in P PROVE n \in P
  <2>1. n \in 0..N /\ n # 0 BY <1>1
  <2>2. g[n] = Grouped(g[n - 1], l[n], reviewed) BY <1>8, <2>1
  <2>3. g[n - 1] \in X /\ GroupsUpTo(l, n - 1, g[n - 1]) BY <1>11
  <2>4. g[n] \in X /\ GroupsUpTo(l, n, g[n]) BY <1>1, <1>3, <2>2, <2>3
  <2>. QED BY <2>1, <2>4
<1>12. N \in 0..N /\ \A n \in 0..N : n \in P
  <2>. HIDE DEF P
  <2>1. N \in Nat BY <1>1
  <2>2. \A n \in 0..N : n \in P BY <1>10, <1>11, <2>1, UpTo
  <2>. QED BY <2>1, <2>2
<1>. QED BY <1>9, <1>12 DEF X, N

LEMMA PreviewIsOfTheListing ==
    ASSUME NEW l \in Seq(ListedRow), NEW reviewed \in [Subj -> Worded]
    PROVE  Preview(l, reviewed) \in Seq(DataRow) /\ PreviewOf(l, Preview(l, reviewed))
<1>. DEFINE d == Preview(l, reviewed)
<1>1. d \in Seq(DataRow) /\ GroupsUpTo(l, Len(l), d) BY PreviewGroups
<1>. HIDE DEF d
<1>2. DOMAIN d = 1..Len(d) /\ \A i \in 1..Len(d) : d[i].uri \in Subj
  <2>1. \A i \in 1..Len(d) : d[i] \in DataRow BY <1>1, ElementOfSeq
  <2>. QED BY <1>1, <2>1 DEF DataRow
<1>3. DOMAIN l = 1..Len(l) /\ \A i \in 1..Len(l) : l[i].subject \in Subj \cup {Missing}
  <2>1. \A i \in 1..Len(l) : l[i] \in ListedRow BY ElementOfSeq
  <2>. QED BY <2>1 DEF ListedRow
<1>4. Missing \notin Subj BY ImportAssumption
<1>5. {d[i].uri : i \in DOMAIN d} = {l[i].subject : i \in DOMAIN l} \ {Missing}
  <2>1. \A uri \in Subj : (\E i \in 1..Len(d) : d[i].uri = uri) <=> \E j \in 1..Len(l) : l[j].subject = uri
    BY <1>1 DEF GroupsUpTo, Seen
  <2>2. \A uri : uri \in {d[i].uri : i \in 1..Len(d)} <=> uri \in Subj /\ \E i \in 1..Len(d) : d[i].uri = uri
    BY <1>2
  <2>3. \A uri : uri \in {l[i].subject : i \in 1..Len(l)} \ {Missing}
                  <=> uri \in Subj /\ \E j \in 1..Len(l) : l[j].subject = uri
    BY <1>3, <1>4
  <2>4. \A uri : uri \in {d[i].uri : i \in 1..Len(d)} <=> uri \in {l[i].subject : i \in 1..Len(l)} \ {Missing}
    BY <2>1, <2>2, <2>3
  <2>. QED BY <1>2, <1>3, <2>4
<1>6. \A i, j \in DOMAIN d : d[i].uri = d[j].uri => i = j BY <1>1, <1>2 DEF GroupsUpTo
<1>7. ASSUME NEW i \in DOMAIN d PROVE Oldest(d[i].at, Dates(l, d[i].uri))
  <2>1. Oldest(d[i].at, DatesUpTo(l, Len(l), d[i].uri)) BY <1>1, <1>2 DEF GroupsUpTo
  <2>2. DatesUpTo(l, Len(l), d[i].uri) = Dates(l, d[i].uri) BY <1>3 DEF DatesUpTo, Dates
  <2>. QED BY <2>1, <2>2
<1>. QED BY <1>1, <1>5, <1>6, <1>7 DEF PreviewOf, d

-----------------------------------------------------------------------------
(* Resolving the rows of the last load. *)

Run == [run : Nat, rest : Seq(DataRow), attempt : Nat, step : {"cached", "fetching", "asleep"}]

PageTypeOK == run \in Nat /\ data \in Seq(DataRow) /\ rows \in Seq(ShownRow) /\ runs \in SUBSET Run
DataIsOfAListing == data = <<>> \/ \E l \in Listings : PreviewOf(l, data)

(* No run is of a load to come, and the last load has at most one.          *)
LastRunIsOne ==
    /\ \A w \in runs : w.run <= run
    /\ \A v, w \in runs : v.run = run /\ w.run = run => v = w

(* The rows shown are some of the first k of data, in order, and a run of   *)
(* the last load has the others before it.                                  *)
SomeOf(s, d, k, f) ==
    /\ f \in [1..Len(s) -> 1..k]
    /\ \A i, j \in 1..Len(s) : i < j => f[i] < f[j]
    /\ \A i \in 1..Len(s) : s[i].row = d[f[i]]
HasLeft(w, d, k) ==
    /\ k < Len(d) /\ Len(w.rest) = Len(d) - k
    /\ \A i \in 1..Len(w.rest) : w.rest[i] = d[k + i]
ResolvedUpTo(k) ==
    /\ \E f : SomeOf(rows, data, k, f)
    /\ \A w \in runs : w.run = run => HasLeft(w, data, k)

PageInv == PageTypeOK /\ DataIsOfAListing /\ LastRunIsOne /\ \E k \in 0..Len(data) : ResolvedUpTo(k)

LEMMA PageIdles == PageInv /\ UNCHANGED pageVars => PageInv'
BY DEF PageInv, pageVars, PageTypeOK, DataIsOfAListing, LastRunIsOne, ResolvedUpTo

LEMMA PreviewsAreOfListings ==
    ASSUME known \in [Subj -> Worded], NEW d \in Previews
    PROVE  d \in Seq(DataRow) /\ (d = <<>> \/ \E l \in Listings : PreviewOf(l, d))
<1>1. CASE d = <<>> BY <1>1
<1>2. ASSUME NEW l \in Listings, d = Preview(l, known) PROVE d \in Seq(DataRow) /\ PreviewOf(l, d)
  <2>1. l \in Seq(ListedRow) BY ImportAssumption DEF ListedRow, Dated
  <2>. QED BY <1>2, <2>1, PreviewIsOfTheListing
<1>. QED BY <1>1, <1>2 DEF Previews

(* A load starts over: no row yet, and a run with all of them before it.    *)
LEMMA RestartedKeeps ==
    ASSUME PageInv, known \in [Subj -> Worded], NEW d \in Previews, Restarted(d)
    PROVE  PageInv'
<1>1. d \in Seq(DataRow) /\ (d = <<>> \/ \E l \in Listings : PreviewOf(l, d)) BY PreviewsAreOfListings
<1>2. /\ data' = d /\ run' = run + 1 /\ rows' = <<>> /\ runs' = runs \cup Started(run + 1, d)
      /\ run \in Nat /\ runs \in SUBSET Run
  BY DEF Restarted, PageInv, PageTypeOK
<1>3. \A w \in runs : w.run \in Nat /\ w.run <= run BY <1>2 DEF PageInv, LastRunIsOne, Run
<1>4. ASSUME NEW w \in Started(run + 1, d) PROVE w \in Run /\ w.run = run + 1 /\ HasLeft(w, d, 0)
  <2>1. PICK s \in {"cached", "fetching"} : w = [run |-> run + 1, rest |-> d, attempt |-> 1, step |-> s] /\ d # <<>>
    BY DEF Started
  <2>2. w \in Run /\ w.run = run + 1 /\ w.rest = d BY <1>1, <1>2, <2>1 DEF Run
  <2>3. Len(d) \in Nat /\ Len(d) # 0 BY <1>1, <2>1, EmptySeq
  <2>. QED BY <2>2, <2>3 DEF HasLeft
<1>5. \A v, w \in Started(run + 1, d) : v = w BY DEF Started
<1>6. PageTypeOK' BY <1>1, <1>2, <1>4 DEF PageTypeOK
<1>7. LastRunIsOne' BY <1>2, <1>3, <1>4, <1>5 DEF LastRunIsOne
<1>8. ResolvedUpTo(0)'
  <2>1. \E f : SomeOf(<<>>, d, 0, f)
    <3>1. SomeOf(<<>>, d, 0, <<>>) BY DEF SomeOf
    <3>. QED BY <3>1
  <2>2. \A w \in runs' : w.run = run' => HasLeft(w, d, 0) BY <1>2, <1>3, <1>4
  <2>. QED BY <1>2, <2>1, <2>2 DEF ResolvedUpTo
<1>9. DataIsOfAListing' BY <1>1, <1>2 DEF DataIsOfAListing
<1>10. 0 \in 0..Len(data') BY <1>1, <1>2
<1>. QED BY <1>6, <1>7, <1>8, <1>9, <1>10 DEF PageInv

(* A run waits on, as it was or without having anything left to wait for.   *)
LEMMA WaitingKeeps ==
    ASSUME PageInv, UNCHANGED <<data, run, rows>>, NEW w \in runs, NEW V,
           runs' = (runs \ {w}) \cup V,
           \A v \in V : v \in Run /\ v.run = w.run /\ v.rest = w.rest /\ \A u \in V : u = v
    PROVE  PageInv'
<1>1. PageTypeOK' BY DEF PageInv, PageTypeOK
<1>2. LastRunIsOne' BY DEF PageInv, LastRunIsOne
<1>3. DataIsOfAListing' BY DEF PageInv, DataIsOfAListing
<1>4. PICK k \in 0..Len(data) : ResolvedUpTo(k) BY DEF PageInv
<1>5. ResolvedUpTo(k)' BY <1>4 DEF ResolvedUpTo, HasLeft
<1>. QED BY <1>1, <1>2, <1>3, <1>4, <1>5 DEF PageInv

(* One more row is shown, or passed over.                                   *)
LEMMA SomeOfMore ==
    ASSUME NEW s \in Seq(ShownRow), NEW d \in Seq(DataRow), NEW k \in Nat, k < Len(d), NEW f, SomeOf(s, d, k, f)
    PROVE  /\ \E g : SomeOf(s, d, k + 1, g)
           /\ \A x \in ShownRow : x.row = d[k + 1] => \E g : SomeOf(Append(s, x), d, k + 1, g)
<1>. Len(s) \in Nat OBVIOUS
<1>1. SomeOf(s, d, k + 1, f) BY DEF SomeOf
<1>2. ASSUME NEW x \in ShownRow, x.row = d[k + 1] PROVE \E g : SomeOf(Append(s, x), d, k + 1, g)
  <2>. DEFINE t == Append(s, x)
              g == [i \in 1..(Len(s) + 1) |-> IF i = Len(s) + 1 THEN k + 1 ELSE f[i]]
  <2>1. t \in Seq(ShownRow) /\ Len(t) = Len(s) + 1 /\ t[Len(s) + 1] = x /\ \A i \in 1..Len(s) : t[i] = s[i]
    BY AppendProperties
  <2>. HIDE DEF t
  <2>2. \A i \in 1..Len(s) : f[i] \in 1..k BY DEF SomeOf
  <2>3. g \in [1..Len(t) -> 1..(k + 1)] BY <2>1, <2>2
  <2>4. \A i, j \in 1..Len(t) : i < j => g[i] < g[j]
    <3>. TAKE i, j \in 1..Len(t)
    <3>. HAVE i < j
    <3>1. i \in 1..Len(s) /\ g[i] = f[i] /\ f[i] <= k BY <2>1, <2>2
    <3>2. CASE j = Len(s) + 1 BY <2>2, <3>1, <3>2
    <3>3. CASE j # Len(s) + 1
      <4>1. j \in 1..Len(s) /\ g[j] = f[j] BY <2>1, <3>3
      <4>. QED BY <3>1, <4>1 DEF SomeOf
    <3>. QED BY <3>2, <3>3
  <2>5. \A i \in 1..Len(t) : t[i].row = d[g[i]]
    <3>. TAKE i \in 1..Len(t)
    <3>1. CASE i = Len(s) + 1 BY <1>2, <2>1, <3>1
    <3>2. CASE i # Len(s) + 1
      <4>1. i \in 1..Len(s) /\ g[i] = f[i] BY <2>1, <3>2
      <4>. QED BY <2>1, <4>1 DEF SomeOf
    <3>. QED BY <3>1, <3>2
  <2>. HIDE DEF g
  <2>6. SomeOf(t, d, k + 1, g) BY <2>3, <2>4, <2>5 DEF SomeOf
  <2>. QED BY <2>6 DEF t
<1>. QED BY <1>1, <1>2

LEMMA LandedKeeps ==
    ASSUME PageInv, UNCHANGED <<data, run>>, NEW w \in runs, NEW found \in BOOLEAN, Landed(w, found)
    PROVE  PageInv'
<1>. /\ run \in Nat /\ data \in Seq(DataRow) /\ rows \in Seq(ShownRow) /\ runs \in SUBSET Run /\ w \in Run
     /\ Len(data) \in Nat
  BY DEF PageInv, PageTypeOK
<1>1. CASE ~Mine(w)
  <2>. DEFINE V == {}
  <2>1. runs' = (runs \ {w}) \cup V /\ UNCHANGED rows BY <1>1 DEF Landed
  <2>2. \A v \in V : v \in Run /\ v.run = w.run /\ v.rest = w.rest /\ \A u \in V : u = v OBVIOUS
  <2>. HIDE DEF V
  <2>. QED BY <2>1, <2>2, WaitingKeeps
<1>2. CASE Mine(w)
  <2>1. w.run = run /\ \A v \in runs \ {w} : v.run # run /\ v.run <= run
    BY <1>2 DEF Mine, PageInv, LastRunIsOne
  <2>2. PICK k \in 0..Len(data) : ResolvedUpTo(k) BY DEF PageInv
  <2>3. HasLeft(w, data, k) BY <2>1, <2>2 DEF ResolvedUpTo
  <2>4. PICK f : SomeOf(rows, data, k, f) BY <2>2 DEF ResolvedUpTo
  <2>. DEFINE rest == Tail(w.rest)
              row == [row |-> Head(w.rest), selected |-> TRUE]
  <2>5. w.rest \in Seq(DataRow) /\ w.rest # <<>> /\ Len(w.rest) \in Nat
    <3>1. w.rest \in Seq(DataRow) BY DEF Run
    <3>2. Len(w.rest) # 0 BY <2>3 DEF HasLeft
    <3>. QED BY <3>1, <3>2, EmptySeq
  <2>6. /\ Head(w.rest) \in DataRow /\ Head(w.rest) = w.rest[1] /\ rest \in Seq(DataRow)
        /\ Len(rest) = Len(w.rest) - 1 /\ \A i \in 1..Len(rest) : rest[i] = w.rest[i + 1]
    BY <2>5, HeadTailProperties, ElementOfSeq
  <2>7. Head(w.rest) = data[k + 1] BY <2>3, <2>6 DEF HasLeft
  <2>8. row \in ShownRow /\ row.row = data[k + 1] BY <2>6, <2>7 DEF ShownRow
  <2>9. /\ rows' = IF found THEN Append(rows, row) ELSE rows
        /\ runs' = (runs \ {w}) \cup Started(w.run, rest)
    BY <1>2, Zenon DEF Landed
  <2>. HIDE DEF rest, row
  <2>10. ASSUME NEW v \in Started(w.run, rest)
         PROVE  v \in Run /\ v.run = run /\ HasLeft(v, data, k + 1)
    <3>1. PICK s \in {"cached", "fetching"} : v = [run |-> w.run, rest |-> rest, attempt |-> 1, step |-> s] /\ rest # <<>>
      BY DEF Started
    <3>2. v \in Run /\ v.run = run /\ v.rest = rest BY <2>1, <2>6, <3>1 DEF Run
    <3>3. Len(rest) # 0 BY <2>6, <3>1, EmptySeq
    <3>4. k + 1 < Len(data) /\ Len(rest) = Len(data) - (k + 1) BY <2>3, <2>5, <2>6, <3>3 DEF HasLeft
    <3>5. \A i \in 1..Len(rest) : rest[i] = data[k + 1 + i]
      <4>. TAKE i \in 1..Len(rest)
      <4>1. i + 1 \in 1..Len(w.rest) /\ rest[i] = w.rest[i + 1] BY <2>5, <2>6
      <4>2. w.rest[i + 1] = data[k + (i + 1)] BY <2>3, <4>1 DEF HasLeft
      <4>. QED BY <4>1, <4>2
    <3>. QED BY <3>2, <3>4, <3>5 DEF HasLeft
  <2>11. \A u, v \in Started(w.run, rest) : u = v BY DEF Started
  <2>12. rows' \in Seq(ShownRow) BY <2>8, <2>9, AppendProperties
  <2>13. PageTypeOK' BY <2>9, <2>10, <2>12 DEF PageTypeOK
  <2>14. LastRunIsOne' BY <2>1, <2>9, <2>10, <2>11 DEF LastRunIsOne
  <2>15. k + 1 \in 0..Len(data') /\ k \in Nat /\ k < Len(data) BY <2>3 DEF HasLeft
  <2>16. \E g : SomeOf(rows', data, k + 1, g) BY <2>4, <2>8, <2>9, <2>15, SomeOfMore
  <2>17. ResolvedUpTo(k + 1)' BY <2>1, <2>9, <2>10, <2>16 DEF ResolvedUpTo
  <2>18. DataIsOfAListing' BY DEF PageInv, DataIsOfAListing
  <2>. QED BY <2>13, <2>14, <2>15, <2>17, <2>18 DEF PageInv
<1>. QED BY <1>1, <1>2

LEMMA ResolvingKeeps == PageInv /\ Resolving => PageInv'
<1>. SUFFICES ASSUME PageInv, NEW w \in runs, Found(w) \/ Skipped(w) \/ Transient(w) \/ Awake(w)
              PROVE  PageInv'
  BY DEF Resolving
<1>. w \in Run BY DEF PageInv, PageTypeOK
<1>. UNCHANGED <<data, run>> BY DEF Found, Skipped, Transient, Awake, Elsewise
<1>1. ASSUME NEW s \in {"fetching", "asleep"}, NEW n \in Nat
      PROVE  /\ [w EXCEPT !.step = s, !.attempt = n] \in Run /\ [w EXCEPT !.step = s] \in Run
             /\ [w EXCEPT !.step = s, !.attempt = n].run = w.run /\ [w EXCEPT !.step = s].run = w.run
             /\ [w EXCEPT !.step = s, !.attempt = n].rest = w.rest /\ [w EXCEPT !.step = s].rest = w.rest
  BY DEF Run
<1>2. CASE Landed(w, TRUE) \/ Landed(w, FALSE) BY <1>2, LandedKeeps
<1>3. CASE runs' = (runs \ {w}) \cup {[w EXCEPT !.step = "asleep"]} /\ UNCHANGED <<rows, loading>>
  <2>. DEFINE v == [w EXCEPT !.step = "asleep"]
  <2>1. v \in Run /\ v.run = w.run /\ v.rest = w.rest BY <1>1
  <2>. DEFINE V == {v}
  <2>2. runs' = (runs \ {w}) \cup V /\ UNCHANGED rows BY <1>3
  <2>. HIDE DEF v
  <2>3. \A x \in V : x \in Run /\ x.run = w.run /\ x.rest = w.rest /\ \A u \in V : u = x BY <2>1
  <2>. HIDE DEF V
  <2>. QED BY <2>2, <2>3, WaitingKeeps
<1>4. CASE Awake(w)
  <2>. DEFINE v == [w EXCEPT !.step = "fetching", !.attempt = NextAttempt(w)]
  <2>1. NextAttempt(w) \in Nat BY DEF NextAttempt, Run
  <2>2. v \in Run /\ v.run = w.run /\ v.rest = w.rest BY <1>1, <2>1
  <2>. DEFINE V == IF Mine(w) THEN {v} ELSE {}
  <2>3. runs' = (runs \ {w}) \cup V /\ UNCHANGED rows BY <1>4 DEF Awake
  <2>. HIDE DEF v
  <2>4. \A x \in V : x \in Run /\ x.run = w.run /\ x.rest = w.rest /\ \A u \in V : u = x BY <2>2
  <2>. HIDE DEF V
  <2>. QED BY <2>3, <2>4, WaitingKeeps
<1>. QED BY <1>2, <1>3, <1>4 DEF Found, Skipped, Transient

LEMMA ChooseKeeps == ASSUME PageInv, NEW i \in DOMAIN rows, Choose(i) PROVE PageInv'
<1>. rows \in Seq(ShownRow) /\ DOMAIN rows = 1..Len(rows) BY DEF PageInv, PageTypeOK
<1>. DEFINE r == [rows[i] EXCEPT !.selected = ~@]
<1>1. rows' = [rows EXCEPT ![i] = r] /\ UNCHANGED <<data, run, runs>> BY DEF Choose
<1>2. r \in ShownRow /\ r.row = rows[i].row
  <2>1. rows[i] \in ShownRow BY ElementOfSeq
  <2>. QED BY <2>1 DEF ShownRow
<1>. HIDE DEF r
<1>3. rows' \in Seq(ShownRow) /\ Len(rows') = Len(rows) /\ \A j \in 1..Len(rows) : rows'[j].row = rows[j].row
  BY <1>1, <1>2, ExceptSeq
<1>4. PICK k \in 0..Len(data) : ResolvedUpTo(k) BY DEF PageInv
<1>5. ResolvedUpTo(k)'
  <2>1. PICK f : SomeOf(rows, data, k, f) BY <1>4 DEF ResolvedUpTo
  <2>2. SomeOf(rows', data, k, f) BY <1>3, <2>1 DEF SomeOf
  <2>. QED BY <1>1, <1>4, <2>2 DEF ResolvedUpTo
<1>6. PageTypeOK' BY <1>1, <1>3 DEF PageInv, PageTypeOK
<1>7. LastRunIsOne' /\ DataIsOfAListing' BY <1>1 DEF PageInv, LastRunIsOne, DataIsOfAListing
<1>. QED BY <1>1, <1>4, <1>5, <1>6, <1>7 DEF PageInv

-----------------------------------------------------------------------------
(* Posting the chosen rows. *)

Mapped == {"default", "own", "blank"}
Result == [uri : Subj, ok : BOOLEAN]
Posting == [todo : Seq(Subj), sent : Seq(Subj), words : Mapped, results : Seq(Result), written : SUBSET Subj]

RepoTypeOK ==
    /\ mapping \in Mapped /\ known \in [Subj -> Worded] /\ reviews \in [Subj -> Worded]
    /\ post \in Posting

(* Of the rows sent the first have their results, and the others are still  *)
(* to do; what was written is what has a good result.                       *)
AnsweredSoFar(todo, sent, got, written) ==
    /\ Len(got) + Len(todo) = Len(sent)
    /\ \A i \in 1..Len(got) : got[i].uri = sent[i]
    /\ \A i \in 1..Len(todo) : todo[i] = sent[Len(got) + i]
    /\ written = {got[i].uri : i \in {j \in 1..Len(got) : got[j].ok}}
PostAnswered(p) == AnsweredSoFar(p.todo, p.sent, p.results, p.written)

RepoInv == RepoTypeOK /\ PostAnswered(post)

LEMMA RepoIdles == RepoInv /\ UNCHANGED <<mapping, known, reviews, post>> => RepoInv'
BY DEF RepoInv, RepoTypeOK, PostAnswered

LEMMA NewPost ==
    ASSUME NEW s \in Seq(Subj), NEW m \in Mapped
    PROVE  /\ [NoPost EXCEPT !.todo = s, !.sent = s, !.words = m] \in Posting
           /\ PostAnswered([NoPost EXCEPT !.todo = s, !.sent = s, !.words = m])
           /\ NoPost \in Posting /\ PostAnswered(NoPost)
<1>. DEFINE p == [NoPost EXCEPT !.todo = s, !.sent = s, !.words = m]
<1>1. AnsweredSoFar(s, s, <<>>, {}) /\ AnsweredSoFar(<<>>, <<>>, <<>>, {}) BY DEF AnsweredSoFar
<1>2. NoPost \in Posting /\ NoPost.results = <<>> /\ NoPost.written = {}
      /\ NoPost.todo = <<>> /\ NoPost.sent = <<>>
  BY DEF NoPost, Posting, Mapped
<1>3. p \in Posting /\ p.todo = s /\ p.sent = s /\ p.results = NoPost.results /\ p.written = NoPost.written
  BY <1>2 DEF Posting
<1>. QED BY <1>1, <1>2, <1>3 DEF PostAnswered

LEMMA ImportKeeps == ASSUME PageInv, RepoInv, Import PROVE RepoInv'
<1>. DEFINE chosen == Picked(rows, {i \in DOMAIN rows : Selected(rows[i])})
            sent == [i \in DOMAIN chosen |-> chosen[i].row.uri]
<1>1. chosen \in Seq(ShownRow) BY PickedFacts DEF PageInv, PageTypeOK
<1>2. /\ post' = [NoPost EXCEPT !.todo = sent, !.sent = sent, !.words = mapping]
      /\ UNCHANGED <<mapping, known, reviews>>
  BY DEF Import
<1>. HIDE DEF chosen
<1>3. sent \in Seq(Subj)
  <2>1. DOMAIN chosen = 1..Len(chosen) /\ Len(chosen) \in Nat BY <1>1
  <2>2. \A i \in 1..Len(chosen) : chosen[i].row.uri \in Subj
    <3>. TAKE i \in 1..Len(chosen)
    <3>1. chosen[i] \in ShownRow BY <1>1, ElementOfSeq
    <3>. QED BY <3>1 DEF ShownRow, DataRow
  <2>3. sent \in [1..Len(chosen) -> Subj] BY <2>1, <2>2
  <2>. QED BY <2>1, <2>3, IsASeq
<1>. HIDE DEF sent
<1>4. mapping \in Mapped BY DEF RepoInv, RepoTypeOK
<1>5. post' \in Posting /\ PostAnswered(post') BY <1>2, <1>3, <1>4, NewPost
<1>6. RepoTypeOK' BY <1>2, <1>5 DEF RepoInv, RepoTypeOK
<1>. QED BY <1>5, <1>6 DEF RepoInv, PostAnswered

(* One row more is answered.                                                *)
LEMMA AnswerMoves ==
    ASSUME NEW todo \in Seq(Subj), NEW sent \in Seq(Subj), NEW got \in Seq(Result), NEW written,
           AnsweredSoFar(todo, sent, got, written), todo # <<>>,
           NEW r \in Result, r.uri = Head(todo)
    PROVE  AnsweredSoFar(Tail(todo), sent, Append(got, r),
                         IF r.ok THEN written \cup {r.uri} ELSE written)
<1>. DEFINE rest == Tail(todo)
            more == Append(got, r)
            n == Len(got)
<1>1. n \in Nat /\ Len(todo) \in Nat /\ Len(sent) \in Nat /\ Len(todo) # 0 BY EmptySeq
<1>2. /\ Head(todo) = todo[1] /\ rest \in Seq(Subj) /\ Len(rest) = Len(todo) - 1
      /\ \A i \in 1..Len(rest) : rest[i] = todo[i + 1]
  BY HeadTailProperties
<1>3. /\ Len(more) = n + 1 /\ more[n + 1] = r
      /\ \A i \in 1..n : more[i] = got[i]
  BY AppendProperties
<1>4. /\ n + Len(todo) = Len(sent)
      /\ \A i \in 1..n : got[i].uri = sent[i]
      /\ \A i \in 1..Len(todo) : todo[i] = sent[n + i]
      /\ written = {got[i].uri : i \in {j \in 1..n : got[j].ok}}
  BY DEF AnsweredSoFar
<1>. HIDE DEF rest, more, n
<1>5. 1..(n + 1) = (1..n) \cup {n + 1} BY <1>1
<1>6. Len(more) + Len(rest) = Len(sent)
  <2>1. Len(rest) = Len(todo) - 1 BY <1>2
  <2>2. Len(more) = n + 1 BY <1>3
  <2>3. n + Len(todo) = Len(sent) BY <1>4
  <2>. QED BY <1>1, <2>1, <2>2, <2>3
<1>7. r.uri = sent[n + 1]
  <2>1. 1 \in 1..Len(todo) BY <1>1
  <2>. QED BY <1>2, <1>4, <2>1
<1>8. \A i \in 1..Len(more) : more[i].uri = sent[i] BY <1>3, <1>4, <1>5, <1>7
<1>9. \A i \in 1..Len(rest) : rest[i] = sent[Len(more) + i]
  <2>. TAKE i \in 1..Len(rest)
  <2>1. i + 1 \in 1..Len(todo) /\ rest[i] = todo[i + 1] BY <1>1, <1>2
  <2>2. todo[i + 1] = sent[n + (i + 1)] BY <1>4, <2>1
  <2>3. n + (i + 1) = Len(more) + i BY <1>1, <1>3
  <2>. QED BY <2>1, <2>2, <2>3
<1>10. (IF r.ok THEN written \cup {r.uri} ELSE written)
         = {more[i].uri : i \in {j \in 1..Len(more) : more[j].ok}}
  <2>. DEFINE Good(s, m) == {s[i].uri : i \in {j \in 1..m : s[j].ok}}
  <2>1. Good(more, n) = Good(got, n) BY <1>3
  <2>2. Good(more, n + 1) = IF r.ok THEN Good(more, n) \cup {r.uri} ELSE Good(more, n) BY <1>3, <1>5
  <2>. QED BY <1>3, <1>4, <2>1, <2>2
<1>. QED BY <1>6, <1>8, <1>9, <1>10 DEF AnsweredSoFar, rest, more

LEMMA SavingKeeps == ASSUME RepoInv, SaveRow \/ RefuseRow, UNCHANGED <<mapping, known>> PROVE RepoInv'
<1>. post \in Posting /\ PostAnswered(post) /\ mapping \in Mapped /\ known \in [Subj -> Worded]
     /\ reviews \in [Subj -> Worded]
  BY DEF RepoInv, RepoTypeOK
<1>1. post.todo # <<>> BY DEF SaveRow, RefuseRow
<1>2. Head(post.todo) \in Subj /\ Tail(post.todo) \in Seq(Subj) BY <1>1, HeadTailProperties DEF Posting
<1>3. ASSUME NEW ok \in BOOLEAN
      PROVE  LET r == [uri |-> Head(post.todo), ok |-> ok] IN
             /\ Append(post.results, r) \in Seq(Result)
             /\ AnsweredSoFar(Tail(post.todo), post.sent, Append(post.results, r),
                              IF ok THEN post.written \cup {Head(post.todo)} ELSE post.written)
  <2>. DEFINE r == [uri |-> Head(post.todo), ok |-> ok]
  <2>1. r \in Result /\ r.uri = Head(post.todo) /\ r.ok = ok BY <1>2 DEF Result
  <2>2. post.results \in Seq(Result) /\ post.todo \in Seq(Subj) /\ post.sent \in Seq(Subj) BY DEF Posting
  <2>3. AnsweredSoFar(post.todo, post.sent, post.results, post.written) BY DEF PostAnswered
  <2>. HIDE DEF r
  <2>4. AnsweredSoFar(Tail(post.todo), post.sent, Append(post.results, r),
                      IF r.ok THEN post.written \cup {r.uri} ELSE post.written)
    BY <1>1, <2>1, <2>2, <2>3, AnswerMoves
  <2>5. Append(post.results, r) \in Seq(Result) BY <2>1, <2>2, AppendProperties
  <2>. QED BY <2>1, <2>4, <2>5 DEF r
<1>4. CASE SaveRow
  <2>1. /\ post' = [post EXCEPT !.todo = Tail(@), !.written = @ \cup {Head(post.todo)},
                                !.results = Append(@, [uri |-> Head(post.todo), ok |-> TRUE])]
        /\ reviews' = [reviews EXCEPT ![Head(post.todo)] = Joined(known[Head(post.todo)], post.words)]
    BY <1>4 DEF SaveRow
  <2>2. /\ post' \in Posting /\ post'.todo = Tail(post.todo) /\ post'.sent = post.sent
        /\ post'.results = Append(post.results, [uri |-> Head(post.todo), ok |-> TRUE])
        /\ post'.written = post.written \cup {Head(post.todo)}
    BY <1>2, <1>3, <2>1 DEF Posting
  <2>3. PostAnswered(post') BY <1>3, <2>2 DEF PostAnswered
  <2>4. reviews' \in [Subj -> Worded]
    <3>1. Joined(known[Head(post.todo)], post.words) \in Worded BY <1>2 DEF Joined, Posting, Mapped, Worded
    <3>. QED BY <1>2, <2>1, <3>1
  <2>. QED BY <2>2, <2>3, <2>4 DEF RepoInv, RepoTypeOK, PostAnswered
<1>5. CASE RefuseRow
  <2>1. /\ UNCHANGED reviews
        /\ post' = [post EXCEPT !.todo = Tail(@),
                                !.results = Append(@, [uri |-> Head(post.todo), ok |-> FALSE])]
    BY <1>5 DEF RefuseRow, AfterFailure
  <2>2. /\ post' \in Posting /\ post'.todo = Tail(post.todo) /\ post'.sent = post.sent
        /\ post'.results = Append(post.results, [uri |-> Head(post.todo), ok |-> FALSE])
        /\ post'.written = post.written
    BY <1>2, <1>3, <2>1 DEF Posting
  <2>3. PostAnswered(post') BY <1>3, <2>2 DEF PostAnswered
  <2>. QED BY <2>1, <2>2, <2>3 DEF RepoInv, RepoTypeOK, PostAnswered
<1>. QED BY <1>4, <1>5

LEMMA ImportStarts == ImportInit => PageInv /\ RepoInv
<1>. SUFFICES ASSUME ImportInit PROVE PageInv /\ RepoInv OBVIOUS
<1>1. reviews \in [Subj -> Worded] /\ known = reviews
  <2>1. reviews \in [Subj -> {"none", "own"}] /\ known = reviews BY ImportAssumption DEF ImportInit
  <2>. QED BY <2>1 DEF Worded
<1>2. RepoInv
  <2>1. post = NoPost /\ mapping = "default" BY DEF ImportInit
  <2>2. <<>> \in Seq(Subj) /\ "default" \in Mapped BY DEF Mapped
  <2>3. post \in Posting /\ PostAnswered(post) BY <2>1, <2>2, NewPost
  <2>. QED BY <1>1, <2>1, <2>2, <2>3 DEF RepoInv, RepoTypeOK
<1>3. PICK d \in Previews : data = d BY DEF ImportInit
<1>4. d \in Seq(DataRow) /\ (d = <<>> \/ \E l \in Listings : PreviewOf(l, d)) BY <1>1, PreviewsAreOfListings
<1>5. rows = <<>> /\ run = 1 BY DEF ImportInit
<1>6. ASSUME NEW w \in runs PROVE w \in Run /\ w.run = run /\ HasLeft(w, data, 0)
  <2>1. d # <<>> /\ w = [run |-> 1, rest |-> d, attempt |-> 1, step |-> "fetching"] BY <1>3 DEF ImportInit
  <2>2. w \in Run /\ w.run = run /\ w.rest = d BY <1>4, <1>5, <2>1 DEF Run
  <2>3. Len(d) \in Nat /\ Len(d) # 0 BY <1>4, <2>1, EmptySeq
  <2>. QED BY <1>3, <2>2, <2>3 DEF HasLeft
<1>7. PageTypeOK BY <1>3, <1>4, <1>5, <1>6 DEF PageTypeOK
<1>8. LastRunIsOne
  <2>1. \A v, w \in runs : v = w BY DEF ImportInit
  <2>. QED BY <1>5, <1>6, <2>1 DEF LastRunIsOne
<1>9. ResolvedUpTo(0)
  <2>1. SomeOf(rows, data, 0, <<>>) BY <1>5 DEF SomeOf
  <2>. QED BY <1>6, <2>1 DEF ResolvedUpTo
<1>10. 0 \in 0..Len(data) BY <1>3, <1>4
<1>. QED BY <1>2, <1>3, <1>4, <1>7, <1>8, <1>9, <1>10 DEF PageInv, DataIsOfAListing

LEMMA ImportStepKeeps == PageInv /\ RepoInv /\ [ImportNext]_importVars => PageInv' /\ RepoInv'
<1>. SUFFICES ASSUME PageInv, RepoInv, [ImportNext]_importVars PROVE PageInv' /\ RepoInv' OBVIOUS
<1>. known \in [Subj -> Worded] BY DEF RepoInv, RepoTypeOK
<1>1. CASE Resolving
  <2>1. UNCHANGED <<mapping, known, reviews, post>>
    BY <1>1 DEF Resolving, Found, Skipped, Transient, Awake, Elsewise, repoVars
  <2>. QED BY <1>1, <2>1, ResolvingKeeps, RepoIdles
<1>2. CASE (SaveRow \/ RefuseRow) /\ UNCHANGED <<mapping, pageVars, refreshes, results, known>>
  BY <1>2, SavingKeeps, PageIdles
<1>3. CASE \/ ImportAnswers /\ UNCHANGED <<mapping, pageVars, results, known>>
           \/ TurnedAway /\ UNCHANGED <<mapping, pageVars, refreshes, reviews, known>>
  <2>1. post' = NoPost /\ UNCHANGED <<mapping, known, reviews>> BY <1>3 DEF ImportAnswers, TurnedAway
  <2>2. <<>> \in Seq(Subj) /\ "default" \in Mapped BY DEF Mapped
  <2>3. NoPost \in Posting /\ PostAnswered(NoPost) BY <2>2, NewPost
  <2>4. RepoInv' BY <2>1, <2>3 DEF RepoInv, RepoTypeOK, PostAnswered
  <2>. QED BY <1>3, <2>4, PageIdles
<1>4. ASSUME NEW i \in DOMAIN rows, Choose(i) PROVE PageInv' /\ RepoInv'
  <2>1. UNCHANGED <<mapping, known, reviews, post>> BY <1>4 DEF Choose, repoVars
  <2>. QED BY <1>4, <2>1, ChooseKeeps, RepoIdles
<1>5. ASSUME NEW m \in {"default", "own", "blank"}, MapTo(m) PROVE PageInv' /\ RepoInv'
  <2>1. mapping' \in Mapped /\ UNCHANGED <<known, reviews, post, pageVars>> BY <1>5 DEF MapTo, Mapped, repoVars
  <2>2. RepoInv' BY <2>1 DEF RepoInv, RepoTypeOK, PostAnswered
  <2>. QED BY <2>1, <2>2, PageIdles
<1>6. CASE Import
  <2>1. UNCHANGED pageVars BY <1>6 DEF Import
  <2>. QED BY <1>6, <2>1, ImportKeeps, PageIdles
<1>7. ASSUME NEW d \in Previews, Restarted(d), UNCHANGED <<mapping, post, reviews, known>> PROVE PageInv' /\ RepoInv'
  BY <1>7, RestartedKeeps, RepoIdles
<1>8. CASE (\E r \in refreshes : Refreshed(r)) \/ Reloaded
  BY <1>7, <1>8 DEF Refreshed, Reloaded
<1>9. ASSUME NEW u \in Subj, Ingested(u) PROVE PageInv' /\ RepoInv'
  <2>1. known' \in [Subj -> Worded] /\ UNCHANGED <<mapping, pageVars, post, reviews>>
    BY <1>9 DEF Ingested, RepoInv, RepoTypeOK
  <2>2. RepoInv' BY <2>1 DEF RepoInv, RepoTypeOK, PostAnswered
  <2>. QED BY <2>1, <2>2, PageIdles
<1>10. CASE UNCHANGED importVars
  <2>1. UNCHANGED pageVars /\ UNCHANGED <<mapping, known, reviews, post>> BY <1>10 DEF importVars, repoVars
  <2>. QED BY <2>1, PageIdles, RepoIdles
<1>. QED BY <1>1, <1>2, <1>3, <1>4, <1>5, <1>6, <1>8, <1>9, <1>10 DEF ImportNext

LEMMA RowsShown == PageInv => RowsAreTheLastLoads
<1>. SUFFICES ASSUME PageInv PROVE RowsAreTheLastLoads OBVIOUS
<1>1. PICK k \in 0..Len(data) : ResolvedUpTo(k) BY DEF PageInv
<1>2. PICK f : SomeOf(rows, data, k, f) BY <1>1 DEF ResolvedUpTo
<1>3. DOMAIN rows = 1..Len(rows) /\ DOMAIN data = 1..Len(data) /\ Len(data) \in Nat
  BY DEF PageInv, PageTypeOK
<1>4. f \in [DOMAIN rows -> DOMAIN data] BY <1>1, <1>2, <1>3 DEF SomeOf
<1>. QED BY <1>2, <1>3, <1>4 DEF SomeOf, RowsAreTheLastLoads, PageInv, DataIsOfAListing

LEMMA AnswersAreWhole ==
    ASSUME RepoInv, ImportAnswers
    PROVE  RowByRow(post) /\ post.results \in refreshes'
<1>1. post \in Posting /\ PostAnswered(post) /\ post.todo = <<>>
  BY DEF RepoInv, RepoTypeOK, ImportAnswers
<1>2. post.sent \in Seq(Subj) /\ post.results \in Seq(Result) BY <1>1 DEF Posting
<1>3. DOMAIN post.results = 1..Len(post.results) /\ Len(post.results) \in Nat BY <1>2
<1>4. Len(post.results) = Len(post.sent) BY <1>1, <1>2 DEF PostAnswered, AnsweredSoFar
<1>5. post.sent = [i \in 1..Len(post.sent) |-> post.sent[i]] BY <1>2
<1>6. [i \in 1..Len(post.sent) |-> post.results[i].uri] = [i \in 1..Len(post.sent) |-> post.sent[i]]
  BY <1>1, <1>4 DEF PostAnswered, AnsweredSoFar
<1>7. post.results \in refreshes' BY DEF ImportAnswers
<1>. QED BY <1>1, <1>3, <1>4, <1>5, <1>6, <1>7 DEF PostAnswered, AnsweredSoFar, RowByRow

LEMMA NothingIsDone ==
    ASSUME RepoInv, TurnedAway
    PROVE  NotAtAll(post)
<1>1. post \in Posting /\ PostAnswered(post) /\ post.todo = post.sent
  BY DEF RepoInv, RepoTypeOK, TurnedAway
<1>2. post.sent \in Seq(Subj) /\ post.results \in Seq(Result) BY <1>1 DEF Posting
<1>3. Len(post.results) = 0
  <2>1. Len(post.results) + Len(post.sent) = Len(post.sent) BY <1>1, Zenon DEF PostAnswered, AnsweredSoFar
  <2>2. Len(post.results) \in Nat /\ Len(post.sent) \in Nat BY <1>2
  <2>3. \A m, n \in Nat : m + n = n => m = 0 OBVIOUS
  <2>. QED BY <2>1, <2>2, <2>3, Zenon
<1>. QED BY <1>1, <1>2, <1>3 DEF PostAnswered, AnsweredSoFar, NotAtAll

(* A row saved or refused leaves a result: a post ends by an answer only.   *)
LEMMA PostsEnd ==
    ASSUME RepoInv, ImportNext, post # NoPost, post' = NoPost
    PROVE  \/ RowByRow(post) /\ post.results \in refreshes'
           \/ NotAtAll(post) /\ results' = <<>>
<1>1. post \in Posting BY DEF RepoInv, RepoTypeOK
<1>2. ~(SaveRow \/ RefuseRow)
  <2>1. ASSUME NEW t, NEW w, NEW r, post' = [post EXCEPT !.todo = t, !.written = w, !.results = Append(@, r)]
        PROVE  FALSE
    <3>1. post.results \in Seq(Result) /\ post'.results = Append(post.results, r) BY <1>1, <2>1 DEF Posting
    <3>2. Len(post'.results) = Len(post.results) + 1 /\ Len(post.results) \in Nat BY <3>1
    <3>3. post'.results = <<>> BY DEF NoPost
    <3>. QED BY <3>2, <3>3
  <2>2. ASSUME NEW t, NEW r, post' = [post EXCEPT !.todo = t, !.results = Append(@, r)] PROVE FALSE
    <3>1. post.results \in Seq(Result) /\ post'.results = Append(post.results, r) BY <1>1, <2>2 DEF Posting
    <3>2. Len(post'.results) = Len(post.results) + 1 /\ Len(post.results) \in Nat BY <3>1
    <3>3. post'.results = <<>> BY DEF NoPost
    <3>. QED BY <3>2, <3>3
  <2>3. CASE SaveRow BY <2>1, <2>3, Zenon DEF SaveRow
  <2>4. CASE RefuseRow BY <2>2, <2>4, Zenon DEF RefuseRow
  <2>. QED BY <2>3, <2>4
<1>3. ~UNCHANGED post OBVIOUS
<1>4. ImportAnswers \/ (TurnedAway /\ results' = <<>>)
  BY <1>2, <1>3 DEF ImportNext, Resolving, Found, Skipped, Transient, Awake, Elsewise, repoVars, Choose, MapTo,
                    Import, Refreshed, Reloaded, Ingested, TurnedAway
<1>. QED BY <1>4, AnswersAreWhole, NothingIsDone

(* However many loads there are and however slow or failing the servers      *)
(* asked about their subjects: the rows shown are rows of the last load, in  *)
(* its order and once each, and those of a load are one for each subject the *)
(* other app lists, as old as the oldest record about it                     *)
(* (ImportPage.svelte:118-150, importers.ts).                                *)
THEOREM RowsStayTheLastLoads == ImportSpec => []RowsAreTheLastLoads
<1>. QED BY ImportStarts, ImportStepKeeps, RowsShown, PTL DEF ImportSpec

(* An import is answered row by row, in the order sent, with a good result   *)
(* exactly for what was written and whichever rows fail; or, signed out      *)
(* meanwhile, not at all, and nothing was written (importAction,             *)
(* importers.ts:131-160).                                                    *)
THEOREM EachRowIsAnswered == ImportSpec => EveryRowIsAnswered
<1>1. RepoInv /\ [ImportNext]_importVars =>
        [post # NoPost /\ post' = NoPost =>
           \/ RowByRow(post) /\ post.results \in refreshes'
           \/ NotAtAll(post) /\ results' = <<>>]_importVars
  BY PostsEnd
<1>. QED BY <1>1, ImportStarts, ImportStepKeeps, PTL DEF ImportSpec, EveryRowIsAnswered

-----------------------------------------------------------------------------
(***************************************************************************)
(* The listings: paging by key skips nothing and repeats nothing, whatever *)
(* ingest does between two pages, and a heading is of the page it is on.   *)
(***************************************************************************)

Keys == [at : Time, id : Review]
Types == {c.type : c \in Content}
View == [id : Subject \cup Person \cup {Nil}, type : Types \cup {Nil}, adjective : Adjective \cup {Nil},
         directions : SUBSET Direction, cursor : Keys \cup {Nil}]

ListTypeOK ==
    /\ table \in [Review -> Row]
    /\ view \in View
    /\ shown \subseteq Review /\ seen \subseteq Review
    /\ next \in Keys \cup {Nil}

(* What has not changed since the first page is there and matches it.      *)
SteadyMatches == steady \subseteq {r \in Review : Matches(r, view)}

AtOrAbove(r, cursor) == ~Lower(Key(r), cursor)

(* The pages so far are exactly what is above the cursor, and this page is *)
(* exactly what is between it and the next one.                            *)
SeenIsAbove == \A r \in steady : r \in seen <=> view.cursor # Nil /\ AtOrAbove(r, view.cursor)
ShownIsBetween ==
    \A r \in steady : r \in shown <=> After(Key(r), view.cursor) /\ (next = Nil \/ AtOrAbove(r, next))
NextIsBelow == next # Nil => After(next, view.cursor)

ListInv ==
    /\ ListTypeOK /\ SteadyMatches /\ SeenIsAbove /\ ShownIsBetween /\ NextIsBelow
    /\ HeadingIsOfThePage

-----------------------------------------------------------------------------

LEMMA KeyType ==
    ASSUME table \in [Review -> Row], NEW r \in Review, table[r] # Nil
    PROVE  Key(r) \in Keys /\ Key(r) # Nil
<1>1. table[r] \in [at : Time, says : Content] BY DEF Row
<1>2. Key(r) \in Keys BY <1>1 DEF Key, Keys
<1>. QED BY <1>2, ListingAssumption DEF Keys

LEMMA LowerOrders ==
    /\ \A k, l \in Keys : Lower(k, l) => ~Lower(l, k)
    /\ \A k, l, m \in Keys : Lower(k, l) /\ Lower(l, m) => Lower(k, m)
    /\ \A k, l, m \in Keys : ~Lower(k, l) /\ Lower(m, l) => ~Lower(k, m)
    /\ \A k \in Keys : ~Lower(k, k)
<1>. \A k \in Keys : k.at \in Nat /\ k.id \in Nat BY ListingAssumption DEF Keys
<1>. QED BY DEF Lower

(* A page of what is left holds what is not below its last row, which is   *)
(* the next cursor, or everything.                                         *)
LEMMA PageIsUpperPart ==
    ASSUME table \in [Review -> Row], NEW S \in SUBSET {r \in Review : table[r] # Nil}, NEW part \in Pages(S)
    PROVE  /\ part.rows \subseteq S
           /\ \/ part.next = Nil /\ part.rows = S
              \/ \E last \in part.rows :
                    /\ part.next = Key(last)
                    /\ \A s \in S : s \in part.rows <=> ~Lower(Key(s), Key(last))
<1>1. PICK fetched \in SUBSET S :
        /\ IsTop(fetched, S, PageSize + 1)
        /\ IF Cardinality(fetched) > PageSize
           THEN \E P \in SUBSET fetched :
                   /\ IsTop(P, fetched, PageSize)
                   /\ \E last \in LastOf(P, fetched) : part = [rows |-> P, next |-> Key(last)]
           ELSE part = [rows |-> fetched, next |-> Nil]
  BY DEF Pages
<1>2. CASE Cardinality(fetched) > PageSize
  <2>1. PICK P \in SUBSET fetched :
          /\ IsTop(P, fetched, PageSize)
          /\ \E last \in LastOf(P, fetched) : part = [rows |-> P, next |-> Key(last)]
    BY <1>1, <1>2
  <2>2. PICK last \in LastOf(P, fetched) : part = [rows |-> P, next |-> Key(last)] BY <2>1
  <2>3. last \in P /\ \A q \in P : ~Lower(Key(q), Key(last)) BY DEF LastOf
  <2>4. \A s \in S \ P : Lower(Key(s), Key(last))
    <3>1. \A s \in S \ fetched : Lower(Key(s), Key(last)) BY <1>1, <2>3 DEF IsTop
    <3>2. \A s \in fetched \ P : Lower(Key(s), Key(last)) BY <2>1, <2>3 DEF IsTop
    <3>. QED BY <3>1, <3>2
  <2>. QED BY <2>2, <2>3, <2>4
<1>3. CASE ~(Cardinality(fetched) > PageSize)
  <2>1. fetched = S BY <1>1, <1>3, ListingAssumption DEF IsTop
  <2>. QED BY <1>1, <1>3, <2>1
<1>. QED BY <1>2, <1>3

(* A page is what is between its cursor and the next one.                  *)
LEMMA PageIsBetween ==
    ASSUME table \in [Review -> Row], NEW v \in View, NEW part \in Pages(Below(v))
    PROVE  /\ part.rows \subseteq Review
           /\ part.next \in Keys \cup {Nil}
           /\ part.next # Nil => After(part.next, v.cursor)
           /\ \A r \in Review : Matches(r, v) =>
                 (r \in part.rows <=> After(Key(r), v.cursor) /\ (part.next = Nil \/ AtOrAbove(r, part.next)))
<1>. DEFINE S == Below(v)
<1>1. S \in SUBSET {r \in Review : table[r] # Nil} BY DEF Below, Matches
<1>2. /\ part.rows \subseteq S
      /\ \/ part.next = Nil /\ part.rows = S
         \/ \E last \in part.rows :
               /\ part.next = Key(last)
               /\ \A s \in S : s \in part.rows <=> ~Lower(Key(s), Key(last))
  BY <1>1, PageIsUpperPart
<1>3. part.next \in Keys \cup {Nil} /\ (part.next # Nil => After(part.next, v.cursor))
  BY <1>1, <1>2, KeyType DEF Below
<1>4. ASSUME NEW r \in Review, Matches(r, v)
      PROVE  r \in part.rows <=> After(Key(r), v.cursor) /\ (part.next = Nil \/ AtOrAbove(r, part.next))
  <2>1. r \in S <=> After(Key(r), v.cursor) BY <1>4 DEF Below
  <2>2. \A s \in S : Key(s) # Nil BY <1>1, KeyType
  <2>. QED BY <1>2, <2>1, <2>2 DEF AtOrAbove
<1>. QED BY <1>1, <1>2, <1>3, <1>4

(* A load, of whatever page: it need only keep that the pages before it are *)
(* what is above its cursor.                                                *)
LEMMA LoadKeeps ==
    ASSUME ListTypeOK, NEW v \in View, Load(v),
           seen' \subseteq Review,
           steady' \subseteq {r \in Review : Matches(r, v)},
           \A r \in steady' : r \in seen' <=> v.cursor # Nil /\ AtOrAbove(r, v.cursor)
    PROVE  ListInv'
<1>1. table \in [Review -> Row] /\ UNCHANGED table /\ view' = v BY DEF ListTypeOK, Load
<1>2. PICK part \in Pages(Below(v)) : shown' = part.rows /\ next' = part.next BY DEF Load
<1>3. /\ part.rows \subseteq Review
      /\ part.next \in Keys \cup {Nil}
      /\ part.next # Nil => After(part.next, v.cursor)
      /\ \A r \in Review : Matches(r, v) =>
            (r \in part.rows <=> After(Key(r), v.cursor) /\ (part.next = Nil \/ AtOrAbove(r, part.next)))
  BY <1>1, PageIsBetween
<1>4. \A r \in Review : Key(r)' = Key(r) /\ Matches(r, v)' = Matches(r, v) BY <1>1 DEF Key, Matches
<1>5. ListTypeOK' BY <1>1, <1>2, <1>3 DEF ListTypeOK
<1>6. SteadyMatches' BY <1>1, <1>4 DEF SteadyMatches
<1>7. SeenIsAbove' BY <1>1, <1>4 DEF SeenIsAbove, AtOrAbove
<1>8. ShownIsBetween' BY <1>1, <1>2, <1>3, <1>4 DEF ShownIsBetween, AtOrAbove
<1>9. NextIsBelow' BY <1>1, <1>2, <1>3 DEF NextIsBelow
<1>10. HeadingIsOfThePage' BY DEF Load, HeadingIsOfThePage
<1>. QED BY <1>5, <1>6, <1>7, <1>8, <1>9, <1>10 DEF ListInv

LEMMA OpenFirstKeeps == ASSUME ListInv, NEW v \in View, OpenFirst(v) PROVE ListInv'
<1>. DEFINE w == [v EXCEPT !.cursor = Nil]
<1>1. w \in View /\ w.cursor = Nil BY DEF View
<1>2. \A r \in Review : Matches(r, w) = Matches(r, v) BY DEF Matches, View
<1>3. Load(w) /\ seen' = {} /\ steady' = {r \in Review : Matches(r, w)} BY <1>2 DEF OpenFirst
<1>. HIDE DEF w
<1>. QED BY <1>1, <1>3, LoadKeeps DEF ListInv

LEMMA NextPageKeeps == ListInv /\ NextPage => ListInv'
<1>. SUFFICES ASSUME ListInv, NextPage PROVE ListInv' OBVIOUS
<1>. DEFINE v == [view EXCEPT !.cursor = next]
<1>1. /\ v \in View /\ v.cursor = next /\ next \in Keys /\ next # Nil
      /\ \A r \in Review : Matches(r, v) = Matches(r, view)
  BY DEF NextPage, ListInv, ListTypeOK, View, Matches
<1>2. Load(v) /\ seen' = seen \cup shown /\ steady' = steady BY DEF NextPage
<1>. HIDE DEF v
<1>3. steady' \subseteq {r \in Review : Matches(r, v)} BY <1>1, <1>2 DEF ListInv, SteadyMatches
<1>4. ASSUME NEW r \in steady' PROVE r \in seen' <=> v.cursor # Nil /\ AtOrAbove(r, v.cursor)
  <2>1. r \in steady /\ Key(r) \in Keys
    <3>1. r \in steady BY <1>2
    <3>2. r \in Review /\ table[r] # Nil BY <3>1 DEF ListInv, SteadyMatches, Matches
    <3>. QED BY <3>1, <3>2, KeyType DEF ListInv, ListTypeOK
  <2>2. view.cursor \in Keys \cup {Nil} BY DEF ListInv, ListTypeOK, View
  <2>3. r \in seen => AtOrAbove(r, next)
    BY <1>1, <2>1, <2>2, LowerOrders DEF ListInv, SeenIsAbove, NextIsBelow, AtOrAbove, After
  <2>4. AtOrAbove(r, next) => r \in seen \cup shown
    BY <1>1, <2>1 DEF ListInv, SeenIsAbove, ShownIsBetween, AtOrAbove, After
  <2>5. r \in shown => AtOrAbove(r, next) BY <1>1, <2>1 DEF ListInv, ShownIsBetween
  <2>. QED BY <1>1, <1>2, <2>3, <2>4, <2>5
<1>5. seen' \subseteq Review BY <1>2 DEF ListInv, ListTypeOK
<1>. QED BY <1>1, <1>2, <1>3, <1>4, <1>5, LoadKeeps DEF ListInv

LEMMA ReloadKeeps == ListInv /\ Reload => ListInv'
<1>. SUFFICES ASSUME ListInv, Reload PROVE ListInv' OBVIOUS
<1>1. Load(view) /\ UNCHANGED <<seen, steady>> BY DEF Reload
<1>. QED BY <1>1, LoadKeeps DEF ListInv, SteadyMatches, SeenIsAbove, ListTypeOK

(* Ingest moves one review, which is then not steady; the others' keys are  *)
(* their own.                                                               *)
LEMMA IngestKeeps == ASSUME ListInv, NEW r \in Review, NEW row \in Row, Ingest(r, row) PROVE ListInv'
<1>1. /\ table' = [table EXCEPT ![r] = row] /\ steady' = steady \ {r}
      /\ UNCHANGED <<view, shown, next, seen, title>>
  BY DEF Ingest
<1>2. ListTypeOK' BY <1>1 DEF ListInv, ListTypeOK
<1>3. \A s \in steady' : s \in steady /\ s \in Review /\ table'[s] = table[s]
  BY <1>1 DEF ListInv, ListTypeOK, SteadyMatches
<1>4. \A s \in steady' : Key(s)' = Key(s) /\ Matches(s, view)' = Matches(s, view)
  BY <1>1, <1>3 DEF Key, Matches
<1>5. SteadyMatches' BY <1>3, <1>4 DEF ListInv, SteadyMatches
<1>6. SeenIsAbove' BY <1>1, <1>3, <1>4 DEF ListInv, SeenIsAbove, AtOrAbove
<1>7. ShownIsBetween' BY <1>1, <1>3, <1>4 DEF ListInv, ShownIsBetween, AtOrAbove
<1>. QED BY <1>1, <1>2, <1>5, <1>6, <1>7 DEF ListInv, NextIsBelow, HeadingIsOfThePage

LEMMA ListIdles ==
    ListInv /\ UNCHANGED <<table, view, shown, next, seen, steady>> /\ HeadingIsOfThePage' => ListInv'
BY DEF ListInv, ListTypeOK, SteadyMatches, SeenIsAbove, ShownIsBetween, NextIsBelow, AtOrAbove, Key, Matches

LEMMA ListStarts == ListInit => ListInv
<1>. SUFFICES ASSUME ListInit PROVE ListInv OBVIOUS
<1>1. Unfiltered(Nil) \in View /\ Unfiltered(Nil).cursor = Nil BY DEF Unfiltered, View
<1>2. table \in [Review -> Row] /\ view = Unfiltered(Nil) /\ seen = {} BY DEF ListInit
<1>3. steady = {r \in Review : table[r] # Nil} BY DEF ListInit
<1>4. \A r \in steady : r \in Review /\ Matches(r, view)
  BY <1>2, <1>3, ListingAssumption DEF Matches, Unfiltered, Row
<1>5. steady = Below(view) BY <1>1, <1>2, <1>3, <1>4 DEF Below, After, Matches
<1>6. PICK part \in Pages(Below(view)) : shown = part.rows /\ next = part.next BY <1>5 DEF ListInit
<1>7. /\ part.rows \subseteq Review
      /\ part.next \in Keys \cup {Nil}
      /\ part.next # Nil => After(part.next, view.cursor)
      /\ \A r \in Review : Matches(r, view) =>
            (r \in part.rows <=> After(Key(r), view.cursor) /\ (part.next = Nil \/ AtOrAbove(r, part.next)))
  BY <1>1, <1>2, PageIsBetween
<1>8. ListTypeOK BY <1>1, <1>2, <1>6, <1>7 DEF ListTypeOK
<1>9. HeadingIsOfThePage BY DEF ListInit, HeadingIsOfThePage
<1>. QED BY <1>1, <1>2, <1>4, <1>6, <1>7, <1>8, <1>9
        DEF ListInv, SteadyMatches, SeenIsAbove, ShownIsBetween, NextIsBelow

LEMMA ListKeeps == ListInv /\ [ListNext]_listVars => ListInv'
<1>. SUFFICES ASSUME ListInv, [ListNext]_listVars PROVE ListInv' OBVIOUS
<1>. view \in View BY DEF ListInv, ListTypeOK
<1>1. ASSUME NEW id \in Subject \cup Person \cup {Nil}, GoTo(id) PROVE ListInv'
  <2>1. Unfiltered(id) \in View BY DEF Unfiltered, View
  <2>. QED BY <1>1, <2>1, OpenFirstKeeps DEF GoTo
<1>2. ASSUME NEW c \in Content, FilterType(c.type) PROVE ListInv'
  <2>1. [view EXCEPT !.type = IF @ = c.type THEN Nil ELSE c.type] \in View BY DEF View, Types
  <2>. QED BY <1>2, <2>1, OpenFirstKeeps DEF FilterType
<1>3. ASSUME NEW a \in Adjective, FilterAdjective(a) PROVE ListInv'
  <2>1. [view EXCEPT !.adjective = IF @ = a THEN Nil ELSE a] \in View BY DEF View
  <2>. QED BY <1>3, <2>1, OpenFirstKeeps DEF FilterAdjective
<1>4. ASSUME NEW d \in Direction, FilterDirection(d) PROVE ListInv'
  <2>1. Toggled(view.directions, d) \in SUBSET Direction BY DEF Toggled, View
  <2>2. [view EXCEPT !.directions = Toggled(@, d)] \in View BY <2>1 DEF View
  <2>. QED BY <1>4, <2>2, OpenFirstKeeps DEF FilterDirection
<1>5. CASE FirstPage BY <1>5, OpenFirstKeeps DEF FirstPage
<1>6. CASE NextPage \/ Reload BY <1>6, NextPageKeeps, ReloadKeeps
<1>7. ASSUME NEW uri \in finding, TitleFound(uri) \/ TitleFails(uri) PROVE ListInv'
  <2>1. UNCHANGED <<table, view, shown, next, seen, steady>> BY <1>7 DEF TitleFound, TitleFails
  <2>2. HeadingIsOfThePage' BY <1>7 DEF TitleFound, TitleFails, ForThisPage, HeadingIsOfThePage, ListInv
  <2>. QED BY <2>1, <2>2, ListIdles
<1>8. ASSUME NEW r \in Review, NEW row \in Row, Ingest(r, row) PROVE ListInv' BY <1>8, IngestKeeps
<1>9. CASE UNCHANGED listVars BY <1>9, ListIdles DEF listVars, ListInv, HeadingIsOfThePage
<1>. QED BY <1>1, <1>2, <1>3, <1>4, <1>5, <1>6, <1>7, <1>8, <1>9 DEF ListNext, Browse

LEMMA ListInvPages == ListInv => NoneSkippedNoneRepeated
<1>. SUFFICES ASSUME ListInv PROVE NoneSkippedNoneRepeated OBVIOUS
<1>1. seen \cap shown \cap steady = {}
  BY DEF ListInv, SeenIsAbove, ShownIsBetween, After, AtOrAbove
<1>2. ASSUME NEW r \in steady PROVE r \in seen \cup shown <=> (next = Nil \/ AtOrAbove(r, next))
  <2>1. Key(r) \in Keys BY KeyType DEF ListInv, ListTypeOK, SteadyMatches, Matches
  <2>2. next \in Keys \cup {Nil} /\ view.cursor \in Keys \cup {Nil} BY DEF ListInv, ListTypeOK, View
  <2>3. r \in seen /\ next # Nil => AtOrAbove(r, next)
    BY <2>1, <2>2, LowerOrders DEF ListInv, SeenIsAbove, NextIsBelow, AtOrAbove, After
  <2>. QED BY <2>3 DEF ListInv, SeenIsAbove, ShownIsBetween, AtOrAbove, After
<1>. QED BY <1>1, <1>2 DEF NoneSkippedNoneRepeated, AtOrAbove

(* From the first page to the last, a review that matches the filters and    *)
(* stays as it is is shown exactly once, whatever ingest inserts, updates or *)
(* deletes between the pages, however many reviews share an updatedAt and    *)
(* whatever filter, reload or return to the first page comes between         *)
(* (db.ts:266-330).                                                          *)
THEOREM PagingIsExact == ListSpec => []NoneSkippedNoneRepeated
<1>. QED BY ListInvPages, ListStarts, ListKeeps, PTL DEF ListSpec

(* The title of a subject, which may take as long as the other site takes,   *)
(* is never put over the listing of another one, nor is the failure to find  *)
(* one (+page.svelte:23-36).                                                 *)
THEOREM HeadingStays == ListSpec => []HeadingIsOfThePage
<1>1. ListInv => HeadingIsOfThePage BY DEF ListInv
<1>. QED BY <1>1, ListStarts, ListKeeps, PTL DEF ListSpec

-----------------------------------------------------------------------------
(* The tab. *)

(* A step of the tab is one of each page, or leaves it.                     *)
LEMMA TabStepsArePages ==
    [TabNext]_tabVars => [FormNext]_<<fieldVars, formVars>> /\ [ImportNext]_importVars /\ [ListNext]_listVars
BY DEF TabNext, tabVars, OnImport

(* What holds of each page holds of the tab, whichever of them is open.      *)
THEOREM PagesKeepTheirPromises ==
    TabSpec => /\ []TagsAreForTheSubject /\ []TypedWordsStay /\ SavesStrikeByHand /\ LateAnswersDoNotCommit
               /\ []RowsAreTheLastLoads /\ EveryRowIsAnswered
               /\ []NoneSkippedNoneRepeated /\ []HeadingIsOfThePage
<1>1. TabInit => FormInit /\ ImportInit /\ ListInit BY DEF TabInit
<1>2. FormInv /\ [FormNext]_<<fieldVars, formVars>>
        => /\ [\A p \in posts :
                  ServePost(p) /\ p.kind = "save" /\ stored[p.of] # NoReview
                  => stored[p.of] \ stored'[p.of] \subseteq p.struck]_<<fieldVars, formVars>>
           /\ [Answers /\ subject' # subject => subject' = offered /\ offered \in Uri]_fieldVars
  BY SavesStrike, AnswerKeeps DEF Answers, FormInv
<1>3. RepoInv /\ [ImportNext]_importVars =>
        [post # NoPost /\ post' = NoPost =>
           \/ RowByRow(post) /\ post.results \in refreshes'
           \/ NotAtAll(post) /\ results' = <<>>]_importVars
  BY PostsEnd
<1>4. FormInv => TagsAreForTheSubject /\ TypedWordsStay BY DEF FormInv
<1>5. ListInv => NoneSkippedNoneRepeated /\ HeadingIsOfThePage BY ListInvPages DEF ListInv
<1>. QED BY <1>1, <1>2, <1>3, <1>4, <1>5, TabStepsArePages, FormStarts, FormKeeps, ImportStarts, ImportStepKeeps,
            RowsShown, ListStarts, ListKeeps, PTL
         DEF TabSpec, SavesStrikeByHand, LateAnswersDoNotCommit, EveryRowIsAnswered
=============================================================================
