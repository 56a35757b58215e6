---------------------------- MODULE SiteReviews ----------------------------
(***************************************************************************)
(* One person's reviews between the site and their repo.  Browsers load    *)
(* and save reviews (reviews.ts, deleteReview.ts, importers.ts), reading   *)
(* isnot.db, which follows the repo through the ingester, and writing the  *)
(* repo, which takes any write to any rkey.  An hourly job merges          *)
(* duplicate records (mergeDuplicatesJob.ts): it reads the repo itself,    *)
(* page by page, and writes only onto the commit it read the head of.      *)
(*                                                                         *)
(* External, modelled from its use: the PDS, the ingester's lag (module    *)
(* ReviewFeed says readers only ever see a prefix of the feed), and        *)
(* whether a session restores or a handle resolves.                        *)
(***************************************************************************)
EXTENDS ReviewMerge, Sequences

CONSTANTS
    Browser,    \* tabs and importers the person acts from
    Offers,     \* the tags a browser may offer
    MaxWrites,  \* bound: saves and deletes asked for
    MaxFaults   \* bound: requests and runs that fail, handles that do not resolve

ASSUME OffersAssumption == Offers \subseteq Tags
ASSUME BoundAssumption == MaxWrites \in Nat /\ MaxFaults \in Nat

VARIABLES
    repo,       \* external: the person's at.isnot.review records, by rkey
    head,       \* external: how many commits the repo has had
    pending,    \* external: commits the ingester has not stored yet
    view,       \* the person's rows of isnot.db
    forms,      \* each browser's review form
    requests,   \* the write each browser is waiting for
    job,        \* the merge job
    nextKey,    \* external: the next TID
    now,        \* the server's clock
    careful,    \* history: whether every save so far was asked for Carefully
    writes,     \* how many writes were asked for
    faults      \* how many faults have happened

pds == <<repo, head, pending>>
clock == <<nextKey, now>>
vars == <<pds, view, forms, requests, job, clock, careful, writes, faults>>

(* TIDs grow, so an rkey is the place of its record among those created.   *)
RKey == 1..MaxWrites

Listed == [rkey : RKey, value : Review]

BlankForm == [about |-> None, prefilled |-> {}]
NoRequest == [stage |-> "idle", rkey |-> None, record |-> None]
NoJob == [stage |-> "idle", swapCommit |-> 0, below |-> 0, listed |-> {}, todo |-> {}]

TypeOK ==
    /\ repo \in [RKey -> Review \cup {None}]
    /\ head \in Nat
    /\ pending \in Seq(SUBSET [rkey : RKey, value : Review \cup {None}])
    /\ view \in [RKey -> Review \cup {None}]
    /\ forms \in [Browser -> [about : About \cup {None}, prefilled : SUBSET Word]]
    /\ requests \in [Browser -> [stage : {"idle", "agent", "sent"},
                                 rkey : RKey \cup {None},
                                 record : Review \cup {None}]]
    /\ job \in [stage : {"idle", "list", "merge"}, swapCommit : Nat, below : Nat,
                listed : SUBSET Listed, todo : SUBSET SUBSET Listed]
    /\ careful \in BOOLEAN
    /\ nextKey \in Nat /\ now \in Nat /\ writes \in Nat /\ faults \in Nat

Init ==
    /\ repo = [r \in RKey |-> None] /\ view = [r \in RKey |-> None]
    /\ head = 0 /\ pending = <<>>
    /\ forms = [b \in Browser |-> BlankForm]
    /\ requests = [b \in Browser |-> NoRequest]
    /\ job = NoJob
    /\ careful = TRUE
    /\ nextKey = 1 /\ now = 1 /\ writes = 0 /\ faults = 0

Fault == faults < MaxFaults /\ faults' = faults + 1

-----------------------------------------------------------------------------
(* The repo and its feed.  A commit is a set of writes to distinct rkeys.  *)
Commit(ops) ==
    /\ repo' = [r \in RKey |->
            IF \E op \in ops : op.rkey = r
            THEN (CHOOSE op \in ops : op.rkey = r).value ELSE repo[r]]
    /\ head' = head + 1
    /\ pending' = Append(pending, ops)

(* The operations of one commit reach isnot.db one event at a time.        *)
Ingested ==
    /\ pending # <<>>
    /\ \E op \in pending[1] :
        /\ view' = [view EXCEPT ![op.rkey] = op.value]
        /\ pending' = IF pending[1] = {op} THEN Tail(pending)
                      ELSE [pending EXCEPT ![1] = @ \ {op}]
    /\ UNCHANGED <<repo, head, forms, requests, job, clock, careful, writes, faults>>

-----------------------------------------------------------------------------
(* Reading isnot.db: of several records about a subject, one last updated. *)
FindReview(about) ==
    LET mine == {r \in RKey : /\ view[r] # None
                              /\ view[r].uri = about.uri
                              /\ view[r].locale = about.locale}
    IN  IF mine = {} THEN {None}
        ELSE {r \in mine : \A q \in mine : view[q].updatedAt <= view[r].updatedAt}

(* The answer of /review/existing reaches a form about that subject.       *)
LoadExisting(b, about) ==
    /\ requests[b].stage = "idle" /\ forms[b] = BlankForm
    /\ \E r \in FindReview(about) :
        /\ r # None
        /\ forms' = [forms EXCEPT ![b] = [about |-> about,
                                          prefilled |-> DOMAIN view[r].tags]]
    /\ UNCHANGED <<pds, view, requests, job, clock, careful, writes, faults>>

(* The subject is cleared, or another page opened.                         *)
ClearForm(b) ==
    /\ requests[b].stage = "idle" /\ forms[b] # BlankForm
    /\ forms' = [forms EXCEPT ![b] = BlankForm]
    /\ UNCHANGED <<pds, view, requests, job, clock, careful, writes, faults>>

SavedRecord_DatedFirst(about, found, offered, prefilled, dated, t) ==
    [uri |-> about.uri, locale |-> about.locale,
     tags |-> IF found = None THEN offered
              ELSE MergeTags(view[found].tags, offered, prefilled),
     createdAt |-> IF dated THEN 0
                   ELSE IF found # None THEN view[found].createdAt ELSE t,
     updatedAt |-> t]

(* What saveReview builds from what it found; an import dates its reviews. *)
SavedRecord(about, found, offered, prefilled, dated, t) ==
    [uri |-> about.uri, locale |-> about.locale,
     tags |-> IF found = None THEN offered
              ELSE MergeTags(view[found].tags, offered, prefilled),
     createdAt |-> IF found # None THEN view[found].createdAt
                   ELSE IF dated THEN 0 ELSE t,
     updatedAt |-> t]

(* A save is asked for carefully when none other is under way, isnot.db    *)
(* has caught up and the subject is in its DID form.                       *)
Carefully(about) ==
    /\ pending = <<>>
    /\ \A b \in Browser : requests[b].stage = "idle"
    /\ NormalUri[about.uri] = about.uri

(* saveReview up to its first await: from a form that loaded the subject's *)
(* review, or from a blank one or an import, which prefill nothing.        *)
Save(b, about, offered, dated) ==
    /\ requests[b].stage = "idle" /\ writes < MaxWrites
    /\ forms[b].about \in {None, about}
    /\ dated => forms[b] = BlankForm
    /\ \E found \in FindReview(about), t \in {now, now + 1} :
        LET record == SavedRecord(about, found, offered, forms[b].prefilled, dated, t) IN
        /\ Cardinality(DOMAIN record.tags) <= MaxTags
        /\ requests' = [requests EXCEPT ![b] =
                [stage |-> "agent", rkey |-> found, record |-> record]]
        /\ now' = t
    /\ careful' = (careful /\ Carefully(about))
    /\ writes' = writes + 1
    /\ UNCHANGED <<pds, view, forms, job, nextKey, faults>>

(* deleteReview of a record the page showed.                               *)
Delete(b, r) ==
    /\ requests[b].stage = "idle" /\ writes < MaxWrites
    /\ view[r] # None
    /\ requests' = [requests EXCEPT ![b] =
            [stage |-> "agent", rkey |-> r, record |-> None]]
    /\ writes' = writes + 1
    /\ UNCHANGED <<pds, view, forms, job, clock, careful, faults>>

AgentReady_AlwaysCreates(b) ==
    /\ requests[b].stage = "agent" /\ nextKey \in RKey
    /\ requests' = [requests EXCEPT ![b].stage = "sent", ![b].rkey = nextKey]
    /\ nextKey' = nextKey + 1
    /\ UNCHANGED <<pds, view, forms, job, now, careful, writes, faults>>

(* agentFor has restored the session; a record without an rkey gets a TID. *)
AgentReady(b) ==
    /\ requests[b].stage = "agent"
    /\ IF requests[b].rkey = None
       THEN /\ nextKey \in RKey
            /\ requests' = [requests EXCEPT ![b].stage = "sent", ![b].rkey = nextKey]
            /\ nextKey' = nextKey + 1
       ELSE requests' = [requests EXCEPT ![b].stage = "sent"] /\ UNCHANGED nextKey
    /\ UNCHANGED <<pds, view, forms, job, now, careful, writes, faults>>

(* The PDS applies the write, whatever the rkey holds by now; deleting     *)
(* nothing is not a commit.                                                *)
Applied(b) ==
    LET r == requests[b].rkey IN
    IF requests[b].record = None /\ repo[r] = None THEN UNCHANGED pds
    ELSE Commit({[rkey |-> r, value |-> requests[b].record]})

(* A form stays as it was loaded when its save is answered; the answer to  *)
(* its delete leaves it nothing prefilled.                                 *)
WriteLands(b) ==
    /\ requests[b].stage = "sent"
    /\ Applied(b)
    /\ requests' = [requests EXCEPT ![b] = NoRequest]
    /\ IF requests[b].record = None
       THEN forms' = [forms EXCEPT ![b].prefilled = {}] ELSE UNCHANGED forms
    /\ UNCHANGED <<view, job, clock, careful, writes, faults>>

(* The answer is lost: the form still stands and may be sent again.        *)
WriteUnanswered(b) ==
    /\ requests[b].stage = "sent"
    /\ Fault
    /\ Applied(b)
    /\ requests' = [requests EXCEPT ![b] = NoRequest]
    /\ UNCHANGED <<view, forms, job, clock, careful, writes>>

WriteFails(b) ==
    /\ requests[b].stage # "idle"
    /\ Fault
    /\ requests' = [requests EXCEPT ![b] = NoRequest]
    /\ UNCHANGED <<pds, view, forms, job, clock, careful, writes>>

-----------------------------------------------------------------------------
(* The merge job, for this account.  The head is read before the listing.  *)
JobStarts ==
    /\ job.stage = "idle"
    /\ job' = [NoJob EXCEPT !.stage = "list", !.swapCommit = head, !.below = MaxWrites + 1]
    /\ UNCHANGED <<pds, view, forms, requests, clock, careful, writes, faults>>

Unlisted == {r \in RKey : r < job.below /\ repo[r] # None}

(* One page of listRecords, which goes from the newest rkey down.          *)
ListPage ==
    /\ job.stage = "list"
    /\ \E r \in Unlisted :
        /\ \A q \in Unlisted : q <= r
        /\ job' = [job EXCEPT !.below = r,
                              !.listed = @ \cup {[rkey |-> r, value |-> repo[r]]}]
    /\ UNCHANGED <<pds, view, forms, requests, clock, careful, writes, faults>>

Groups(records) ==
    {{x \in records : Subject(x.value) = s} : s \in {Subject(x.value) : x \in records}}

(* groupBySubject after the last page, with the records whose handle did   *)
(* not resolve left out, and the groups mergeDuplicates has a write for.   *)
GroupBySubject ==
    /\ job.stage = "list" /\ Unlisted = {}
    /\ \E unresolved \in SUBSET {x \in job.listed : x.value.uri # NormalUri[x.value.uri]} :
        LET todo == {g \in Groups(job.listed \ unresolved) : NeedsHandling(g) /\ Mergeable(g)} IN
        /\ IF unresolved = {} THEN UNCHANGED faults ELSE Fault
        /\ job' = IF todo = {} THEN NoJob
                  ELSE [job EXCEPT !.stage = "merge", !.listed = {}, !.todo = todo]
    /\ UNCHANGED <<pds, view, forms, requests, clock, careful, writes>>

AfterMerge(group) ==
    IF job.todo = {group} THEN NoJob
    ELSE [job EXCEPT !.todo = @ \ {group}, !.swapCommit = head']

MergeGroup_NoSwap(group) ==
    /\ job.stage = "merge"
    /\ Commit(MergeWrites(group)) /\ job' = AfterMerge(group)
    /\ UNCHANGED <<view, forms, requests, clock, careful, writes, faults>>

MergeGroup(group) ==
    /\ job.stage = "merge"
    /\ IF job.swapCommit = head
       THEN Commit(MergeWrites(group)) /\ job' = AfterMerge(group)
       ELSE UNCHANGED pds /\ job' = NoJob
    /\ UNCHANGED <<view, forms, requests, clock, careful, writes, faults>>

(* A call of the job fails, with applyWrites perhaps done: it stops until  *)
(* its next run.                                                           *)
JobFails ==
    /\ job.stage # "idle"
    /\ Fault
    /\ \/ UNCHANGED pds
       \/ \E group \in job.todo :
            /\ job.swapCommit = head
            /\ Commit(MergeWrites(group))
    /\ job' = NoJob
    /\ UNCHANGED <<view, forms, requests, clock, careful, writes>>

-----------------------------------------------------------------------------
BrowserNext(b) ==
    \/ \E about \in About : LoadExisting(b, about)
    \/ ClearForm(b)
    \/ \E about \in About, offered \in Offers, dated \in BOOLEAN :
            Save(b, about, offered, dated)
    \/ \E r \in RKey : Delete(b, r)
    \/ AgentReady(b) \/ WriteLands(b) \/ WriteUnanswered(b) \/ WriteFails(b)

JobNext ==
    \/ JobStarts \/ ListPage \/ GroupBySubject
    \/ \E group \in job.todo : MergeGroup(group)

Next ==
    \/ \E b \in Browser : BrowserNext(b)
    \/ JobNext
    \/ JobFails
    \/ Ingested

Spec == Init /\ [][Next]_vars

(* The job's timer fires every hour and its calls return; a request that   *)
(* was accepted is carried through.  Nobody has to save anything.          *)
FairSpec ==
    /\ Spec
    /\ WF_vars(JobNext)
    /\ \A b \in Browser : WF_vars(AgentReady(b) \/ WriteLands(b))

-----------------------------------------------------------------------------
Live(s) == {r \in RKey : repo[r] # None /\ Subject(repo[r]) = s}

SaidAbout(s) == UNION {DOMAIN repo[r].tags : r \in Live(s)}

(* The opinion a reader of the repo should take from its records: for each *)
(* word the direction of the record last updated; among equals the one     *)
(* nearest 0, then "is".                                                   *)
Newest(s, w) ==
    LET with == {r \in Live(s) : w \in DOMAIN repo[r].tags}
        last == {r \in with : \A q \in with : repo[q].updatedAt <= repo[r].updatedAt}
        order == [d \in Direction |-> IF d > 0 THEN 2 * d - 1 ELSE -2 * d]
    IN  CHOOSE d \in {repo[r].tags[w] : r \in last} :
            \A r \in last : order[d] <= order[repo[r].tags[w]]

Opinion(s) == [w \in SaidAbout(s) |-> Newest(s, w)]

JobWrites == head' # head /\ job' # job

(* A merge never adds or loses a word of any subject, whatever was saved   *)
(* or deleted while the job listed the repo, resolved handles and wrote    *)
(* its other groups (mergeDuplicatesJob.ts, swapCommit).                   *)
MergeKeepsWords ==
    [][JobWrites => \A s \in About : SaidAbout(s)' = SaidAbout(s)]_vars

(* A merge leaves every subject with the opinion its records held: of each *)
(* word the newest direction.                                              *)
MergeKeepsOpinions ==
    [][JobWrites => \A s \in About : Opinion(s)' = Opinion(s)]_vars

(* A record keeps the date it was created on, whichever of saves with an   *)
(* out-of-date view, imports and merges last wrote it.                     *)
DatesKept ==
    [][\A r \in RKey : repo[r] # None /\ repo'[r] # None
            => repo'[r].createdAt = repo[r].createdAt]_vars

(* Once the person has stopped writing, every subject ends with one record *)
(* under its DID form, unless the merge would not fit in a review.         *)
Settled ==
    \A s \in About :
        \/ Cardinality(SaidAbout(s)) > MaxTags
        \/ Cardinality(Live(s)) <= 1 /\ \A r \in Live(s) : repo[r].uri = s.uri

Settles == <>[]Settled

(* As long as every save was asked for carefully, a person has one record  *)
(* per subject and locale, whatever failed, was answered late and sent     *)
(* again or deleted, and whatever the job does meanwhile (saveReview).     *)
OneRecordPerSubject == careful => \A s \in About : Cardinality(Live(s)) <= 1

(* A save that prefilled nothing can only add or re-aim words, it never    *)
(* deletes someone's earlier ones: the merge rule of the review site's     *)
(* design.  The code breaks it: tags are merged from isnot.db, which may   *)
(* not have the earlier save yet, and put without a swap.                  *)
Lands(b) == requests[b].stage = "sent" /\ requests'[b] = NoRequest /\ head' # head

QuickAddsKeepWords ==
    [][\A b \in Browser :
        Lands(b) /\ requests[b].record # None /\ forms[b].prefilled = {}
            => \A s \in About : SaidAbout(s) \subseteq SaidAbout(s)']_vars
=============================================================================
