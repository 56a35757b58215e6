---------------------------- MODULE SubjectField ----------------------------
(* SubjectField.svelte: one line of text that becomes a subject. At-uris are *)
(* resolved as they are entered, the pages of urls are asked for the uris    *)
(* they declare, other text is looked up among known subjects; answers come  *)
(* when they come. A step is a handler with the effects it sets off.         *)
EXTENDS Integers, FiniteSets

CONSTANTS
    Uri,        \* at-uris that may name a subject
    Url,        \* ordinary web addresses
    None,       \* null
    MaxInputs   \* bound: what the person does, getting into the field aside

ASSUME FieldAssumption == MaxInputs \in Nat /\ Uri \cap Url = {} /\ None \notin Uri \cup Url

VARIABLES
    text,       \* what the field holds
    subject,    \* the subject picked, by its uri
    live,       \* liveCandidate: of which uri, "loading" or "ready"
    page,       \* urlFetch: of which url, "loading" or "ready", with which candidates
    pending,    \* pendingCommit
    list,       \* focused, suppressed, serverItems, the clipboard
    asked,      \* requests without an answer yet, and whether liveToken is still theirs
    offered,    \* history: the last uri or url liveToken was renewed for
    inputs      \* of those, so far

fieldVars == <<text, subject, live, page, pending, list, asked, offered, inputs>>

Blank == [kind |-> "blank", of |-> None]
Words == [kind |-> "words", of |-> None]
Title(u) == [kind |-> "words", of |-> u]
AtUri(u) == [kind |-> "uri", of |-> u]
Address(a) == [kind |-> "url", of |-> a]
Typed == {Blank, Words} \cup {AtUri(u) : u \in Uri} \cup {Address(a) : a \in Url}
Text == Typed \cup {Title(u) : u \in Uri}

NoLive == [uri |-> None, status |-> "none"]
NoPage == [url |-> None, status |-> "none", candidates |-> {}]
NoList == [focused |-> FALSE, suppressed |-> FALSE, items |-> {}, clipboard |-> "unchecked"]

(* What is waited for: a record through the lens, a page, then its uris, the *)
(* known subjects, the clipboard; a debounced request is one from the moment *)
(* its timer is set.                                                         *)
Record(u) == [for |-> u, step |-> "record", uris |-> {}, current |-> TRUE]
Page(a) == [for |-> a, step |-> "page", uris |-> {}, current |-> TRUE]
Known == [for |-> None, step |-> "known", uris |-> {}, current |-> TRUE]
Clipboard(on) == [for |-> None, step |-> on, uris |-> {}, current |-> TRUE]

(* ++liveToken: of the requests in a that have one, only the new one's holds.*)
Tokened == {"record", "page", "uris"}
Renewed(a, r) == {[q EXCEPT !.current = q.step \notin Tokened] : q \in a} \cup {r}

Late_Never(r) == FALSE

(* The token is checked when an answer is there. *)
Late(r) == ~r.current

Input == inputs < MaxInputs /\ inputs' = inputs + 1

-----------------------------------------------------------------------------
(* What the field's effects make of its text (the two effects of lines       *)
(* 140-170), given the candidates as the handler left them. Both read the    *)
(* candidate they set: losing it while the text still names it asks again.   *)

Looked(t, l, p, a) ==
    /\ text' = t
    /\ \/ /\ t.kind = "blank"
          /\ live' = l /\ page' = p /\ asked' = a /\ UNCHANGED offered
       \/ /\ t.kind = "uri" /\ page' = NoPage
          /\ IF l.uri = t.of THEN live' = l /\ asked' = a /\ UNCHANGED offered
             ELSE /\ live' = [uri |-> t.of, status |-> "loading"]
                  /\ asked' = Renewed(a, Record(t.of))
                  /\ offered' = t.of
       \/ /\ t.kind = "url" /\ live' = NoLive
          /\ IF p.url = t.of THEN page' = p /\ asked' = a /\ UNCHANGED offered
             ELSE /\ page' = [url |-> t.of, status |-> "loading", candidates |-> {}]
                  /\ asked' = Renewed(a, Page(t.of))
                  /\ offered' = t.of
       \/ /\ t.kind = "words"
          /\ live' = NoLive /\ page' = NoPage /\ asked' = a /\ UNCHANGED offered

(* An answer changed a candidate: an effect runs again if it read that one.  *)
Answered(l, p, a) ==
    IF text.kind = "uri" \/ (text.kind = "url" /\ p # page) THEN Looked(text, l, p, a)
    ELSE live' = l /\ page' = p /\ asked' = a /\ UNCHANGED <<text, offered>>

(* commit: the subject takes the field over; a is what is left asked. *)
Commit(u, a) ==
    /\ subject' = u /\ pending' = FALSE
    /\ Looked(Title(u), NoLive, NoPage, a \cup {Known})

Shut == list' = [list EXCEPT !.suppressed = TRUE]

-----------------------------------------------------------------------------
(* The person. *)

(* Typing and pasting; a new look-up of known subjects is set off, a blank   *)
(* field drops what the last one found.                                      *)
Type(t) ==
    /\ list.focused /\ t # text /\ Input
    /\ list' = [list EXCEPT !.suppressed = FALSE, !.items = IF t = Blank THEN {} ELSE @]
    /\ Looked(t, live, page, IF t = Blank THEN asked ELSE asked \cup {Known})
    /\ UNCHANGED <<subject, pending>>

(* onFocus: a field that is blank reads the clipboard, once; where that      *)
(* needs a click, a row offers it.                                           *)
Focusings(t) ==
    IF t = Blank /\ list.clipboard = "unchecked"
    THEN {[clipboard |-> "checked", reads |-> {Clipboard("focus")}], [clipboard |-> "offered", reads |-> {}]}
    ELSE {[clipboard |-> list.clipboard, reads |-> {}]}

Focus ==
    /\ ~list.focused
    /\ \E f \in Focusings(text) :
          /\ list' = [list EXCEPT !.focused = TRUE, !.suppressed = FALSE, !.clipboard = f.clipboard]
          /\ asked' = asked \cup f.reads
    /\ UNCHANGED <<text, subject, live, page, pending, offered, inputs>>

(* The rows: of subjects, of one still looked for, of the clipboard. *)
Rows == (IF live.status = "ready" THEN {live.uri} ELSE {}) \cup page.candidates \cup list.items
LoadingRow == live.status = "loading" \/ page.status = "loading"
ClipboardRow == list.clipboard = "offered" /\ text = Blank
ListShown == list.focused /\ ~list.suppressed /\ (Rows # {} \/ LoadingRow \/ ClipboardRow)

Escape == ListShown /\ list' = [list EXCEPT !.suppressed = TRUE] /\ Input
          /\ UNCHANGED <<text, subject, live, page, pending, asked, offered>>

(* selectRow, by a click or by Enter on the highlighted row: one still       *)
(* loading does nothing.                                                     *)
SelectRow(u) == ListShown /\ u \in Rows /\ Commit(u, asked) /\ Shut /\ Input

PasteRow ==
    /\ ListShown /\ ClipboardRow /\ Input
    /\ asked' = asked \cup {Clipboard("paste")}
    /\ UNCHANGED <<text, subject, live, page, pending, list, offered>>

(* attemptCommitFromText: Enter with no list shown, and leaving the field. *)
Commitable == text.kind = "uri" /\ subject # text.of
TextCommits == Commitable /\ live = [uri |-> text.of, status |-> "ready"]
AttemptCommit ==
    IF TextCommits THEN Commit(text.of, asked)
    ELSE /\ IF Commitable THEN pending' = TRUE /\ Looked(text, live, page, asked)
            ELSE UNCHANGED <<text, live, page, pending, asked, offered>>
         /\ UNCHANGED subject

Enter ==
    /\ list.focused /\ ~ListShown /\ Commitable /\ Input
    /\ AttemptCommit /\ IF TextCommits THEN Shut ELSE UNCHANGED list

Blur ==
    /\ list.focused /\ Input /\ AttemptCommit
    /\ list' = [list EXCEPT !.focused = FALSE, !.suppressed = @ \/ TextCommits]

(* clear, and back into the field: neither the token is renewed nor a        *)
(* request given up.                                                         *)
Clear ==
    /\ subject # None /\ Input
    /\ subject' = None /\ pending' = FALSE
    /\ \E f \in Focusings(Blank) :
          /\ Looked(Blank, NoLive, NoPage, asked \cup f.reads)
          /\ list' = [focused |-> TRUE, suppressed |-> FALSE, items |-> {}, clipboard |-> f.clipboard]

-----------------------------------------------------------------------------
(* Answers. *)

Answer(r) == asked \ {r}

AnswerCommits(r) == ~Late(r) /\ pending
RecordResolves(r) ==
    /\ r.step = "record"
    /\ \/ AnswerCommits(r) /\ Commit(r.for, Answer(r)) /\ Shut
       \/ /\ ~AnswerCommits(r) /\ asked' = Answer(r)
          /\ live' = IF Late(r) THEN live ELSE [uri |-> r.for, status |-> "ready"]
          /\ UNCHANGED <<text, subject, page, pending, list, offered>>
    /\ UNCHANGED inputs

RecordFails(r) ==
    /\ r.step = "record"
    /\ IF Late(r) THEN asked' = Answer(r) /\ UNCHANGED <<text, live, page, pending, offered>>
       ELSE pending' = FALSE /\ Answered(NoLive, page, Answer(r))
    /\ UNCHANGED <<subject, list, inputs>>

(* The canonical uris of a page, none if it could not be read; then what the *)
(* lenses make of them.                                                      *)
PageAnswers(r) ==
    /\ r.step = "page"
    /\ IF Late(r) THEN asked' = Answer(r) /\ UNCHANGED <<text, live, page, offered>>
       ELSE \/ Answered(live, NoPage, Answer(r))
            \/ \E us \in SUBSET Uri \ {{}} :
                  /\ asked' = Answer(r) \cup {[r EXCEPT !.step = "uris", !.uris = us]}
                  /\ UNCHANGED <<text, live, page, offered>>
    /\ UNCHANGED <<subject, pending, list, inputs>>

UrisResolve(r) ==
    /\ r.step = "uris"
    /\ IF Late(r) THEN asked' = Answer(r) /\ UNCHANGED <<text, live, page, offered>>
       ELSE \E found \in SUBSET r.uris :
            IF found = {} THEN Answered(live, NoPage, Answer(r))
            ELSE /\ page' = [url |-> r.for, status |-> "ready", candidates |-> found]
                 /\ asked' = Answer(r) /\ UNCHANGED <<text, live, offered>>
    /\ UNCHANGED <<subject, pending, list, inputs>>

(* fetchSuggestions: only the last request's answer, unless it was the blank *)
(* field that ended it: then it is not aborted.                              *)
KnownAnswers(r) ==
    /\ r.step = "known"
    /\ asked' = Answer(r)
    /\ \E found \in {{}, Uri} : list' = [list EXCEPT !.items = found]
    /\ UNCHANGED <<text, subject, live, page, pending, offered, inputs>>

(* offerLive of what the clipboard held, whatever the field holds by now: a  *)
(* uri typed meanwhile is offered again at once.                             *)
OfferClipboard(u, a) ==
    LET last == IF text.kind = "uri" THEN text.of ELSE u
    IN  /\ live' = [uri |-> last, status |-> "loading"]
        /\ asked' = Renewed(a \cup ({Record(u)} \ {Record(last)}), Record(last))
        /\ offered' = last

(* The clipboard's text, which need not be a uri, or the refusal to read it. *)
ClipboardAnswers(r) ==
    /\ r.step \in {"focus", "paste"}
    /\ \/ /\ \E u \in Uri : OfferClipboard(u, Answer(r))
          /\ list' = [list EXCEPT !.clipboard = "checked"]
       \/ /\ \/ UNCHANGED list
             \/ r.step = "focus" /\ list' = [list EXCEPT !.clipboard = "offered"]
          /\ asked' = Answer(r) /\ UNCHANGED <<live, offered>>
    /\ UNCHANGED <<text, subject, page, pending, inputs>>

-----------------------------------------------------------------------------

(* A mounted field is blank, or holds the uri of a shared link, which is     *)
(* committed once it resolves.                                               *)
FieldInit ==
    /\ subject = None /\ page = NoPage /\ list = NoList /\ inputs = 0
    /\ \/ text = Blank /\ live = NoLive /\ pending = FALSE /\ asked = {} /\ offered = None
       \/ \E u \in Uri :
             /\ text = AtUri(u) /\ live = [uri |-> u, status |-> "loading"] /\ pending = TRUE
             /\ asked = {Record(u), Known} /\ offered = u

Asks == Focus \/ PasteRow \/ Escape \/ Enter \/ Blur \/ Clear
        \/ (\E t \in Typed : Type(t)) \/ \E u \in Uri : SelectRow(u)
Answers == \E r \in asked :
    \/ RecordResolves(r) \/ RecordFails(r) \/ PageAnswers(r) \/ UrisResolve(r)
    \/ KnownAnswers(r) \/ ClipboardAnswers(r)

FieldNext == Asks \/ Answers
FieldSpec == FieldInit /\ [][FieldNext]_fieldVars /\ WF_fieldVars(Answers)

-----------------------------------------------------------------------------

(* A subject picked by an answer, not by hand, is the last uri offered: no   *)
(* answer about an earlier one takes the field over (lines 197-225).         *)
LateAnswersDoNotCommit ==
    [][Answers /\ subject' # subject => subject' = offered /\ offered \in Uri]_fieldVars

(* "a failure leaves it there to fix" (lines 112-117): what the field looks  *)
(* up is found, or the mask is taken off.                                    *)
LookingEnds == LoadingRow ~> ~LoadingRow
=============================================================================
