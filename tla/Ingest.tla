------------------------------- MODULE Ingest -------------------------------
(***************************************************************************)
(* The ingester (ingest.go, main.go's attempt, db.go's single connection): *)
(* it follows the jetstream log from the cursor it stored, resolves the    *)
(* accounts and subjects of each batch over the network, and folds the     *)
(* batch into isnot.db in one transaction that ends by writing the cursor. *)
(* A goroutine started at boot backfills subjects over the same database   *)
(* connection.  Batches fail, streams end, and the process dies anywhere.  *)
(*                                                                         *)
(* External, modelled from its use: the jetstream log and its delivery     *)
(* (at least once), identity resolution, and the subjects' PDSes.          *)
(***************************************************************************)
EXTENDS ReviewFold, FiniteSets

CONSTANTS
    Published,      \* the events the network may publish
    FirstHandle,    \* every account's handle before its first identity event
    HasKey,         \* JETSTREAM_API_KEY is set
    MaxFetches,     \* maxSubjectFetchesPerBatch
    FetchFails,     \* whether a subject fetch or its lens may fail
    Redelivery,     \* how many events behind its position a batch may start
    StaleBatches,   \* whether a redelivered batch may end before the cursor
    MaxLog,         \* bound: events published
    MaxBatch,       \* bound: events in a batch
    MaxFaults       \* bound: crashes, failed batches, ended streams, redeliveries

ASSUME PublishedAssumption == Published \subseteq Event
(* The lexicon accepts no review without tags.                             *)
ASSUME TagsAssumption ==
    \A e \in Published : e.kind = "put" /\ e.verdict = "valid" => e.tags # <<>>
ASSUME FirstHandleAssumption == FirstHandle \in Handle
ASSUME FlagAssumption == {HasKey, FetchFails, StaleBatches} \subseteq BOOLEAN
ASSUME BoundAssumption ==
    {MaxFetches, Redelivery, MaxLog, MaxBatch, MaxFaults} \subseteq Nat

VARIABLES
    log,        \* external: what the network has published, in order
    record,     \* external: the current version of each subject's record
    db,         \* the committed tables of isnot.db
    conn,       \* who holds the pool's one connection across several calls
    origin,     \* history: how much of the log preceded what is followed
    pc,         \* the ingest goroutine; "dead" when the process is not running
    pos,        \* the last event this session delivered
    first,      \* the batch in hand is log[first..last]
    last,
    at,         \* the event of the batch to look at next
    handles,    \* newAccounts: handles resolved for this batch
    lensed,     \* subjects: record versions lensed for this batch
    fetches,    \* subject fetches made for this batch
    tx,         \* the tables as the open transaction sees them
    backfill,   \* the startup backfill goroutine
    faults      \* how many faults have happened

external == <<log, record>>
batch == <<first, last, at, handles, lensed, fetches>>
vars == <<external, db, conn, origin, pc, pos, batch, tx, backfill, faults>>

NoBackfill == [phase |-> "off", todo |-> {}, uri |-> None, version |-> None]

NoHandles == [d \in {} |-> None]
NoSubjects == [u \in {} |-> None]

TypeOK ==
    /\ log \in Seq(Published)
    /\ record \in [URI -> Version]
    /\ db \in Tables /\ tx \in Tables
    /\ conn \in {"free", "ingest", "backfill"}
    /\ origin \in Nat
    /\ pc \in {"dead", "down", "idle", "accounts", "subjects", "apply"}
    /\ pos \in Nat /\ first \in Nat /\ last \in Nat /\ at \in Nat
    /\ handles \in UNION {[D -> Handle \cup {Empty}] : D \in SUBSET DID}
    /\ lensed \in UNION {[U -> Version] : U \in SUBSET URI}
    /\ fetches \in Nat
    /\ backfill \in [phase : {"off", "query", "next", "store", "commit", "done"},
                     todo : SUBSET URI,
                     uri : URI \cup {None}, version : Version \cup {None}]
    /\ faults \in Nat

Init ==
    /\ log = <<>> /\ record = [u \in URI |-> 1]
    /\ db = EmptyTables /\ tx = EmptyTables
    /\ conn = "free"
    /\ origin = 0
    /\ pc = "dead" /\ pos = 0
    /\ first = 1 /\ last = 0 /\ at = 1
    /\ handles = NoHandles /\ lensed = NoSubjects /\ fetches = 0
    /\ backfill = NoBackfill
    /\ faults = 0

-----------------------------------------------------------------------------
(* The world.                                                              *)

(* A review names a version its subject has had: the site copies the cid   *)
(* from the record it was shown.                                           *)
Publish(e) ==
    /\ Len(log) < MaxLog
    /\ e.kind = "put" => e.review.cid <= record[e.review.uri]
    /\ log' = Append(log, e)
    /\ UNCHANGED <<record, db, conn, origin, pc, pos, batch, tx, backfill, faults>>

EditSubject(u) ==
    /\ record[u] + 1 \in Version
    /\ record' = [record EXCEPT ![u] = @ + 1]
    /\ UNCHANGED <<log, db, conn, origin, pc, pos, batch, tx, backfill, faults>>

(* The handle account d verifiably controls now: that of its last claim.   *)
ClaimsOf(d) ==
    {i \in 1..Len(log) : /\ log[i].kind = "identity" /\ log[i].did = d
                         /\ log[i].claim.given # "none"}

Verified(d) ==
    IF ClaimsOf(d) = {}
        THEN {FirstHandle}
        ELSE {HandleOf(log[i].claim) : i \in {j \in ClaimsOf(d) : \A k \in ClaimsOf(d) : k <= j}}

(* What looking d up may answer: its directory keeps an answer for an      *)
(* hour, so a handle d controlled before will do (main.go 157-160).        *)
Answers(d) == {FirstHandle} \cup {HandleOf(log[i].claim) : i \in ClaimsOf(d)}

-----------------------------------------------------------------------------
(* The process and its sessions.                                           *)

Fault ==
    /\ faults < MaxFaults
    /\ faults' = faults + 1

(* Leaving a batch, committed or not, forgets everything gathered for it.  *)
DropBatch ==
    /\ first' = 1 /\ last' = 0 /\ at' = 1
    /\ handles' = NoHandles /\ lensed' = NoSubjects /\ fetches' = 0
    /\ tx' = EmptyTables

Boot ==
    /\ pc = "dead"
    /\ pc' = "down"
    /\ backfill' = [NoBackfill EXCEPT !.phase = "query"]
    /\ UNCHANGED <<external, db, conn, origin, pos, batch, tx, faults>>

(* The process dies: memory is lost, an open transaction is rolled back.   *)
Crash ==
    /\ pc # "dead"
    /\ Fault
    /\ pc' = "dead" /\ pos' = 0
    /\ DropBatch
    /\ conn' = "free"
    /\ backfill' = NoBackfill
    /\ UNCHANGED <<external, db, origin>>

(* Whether attempt has somewhere to resume from. *)
Resumes_OnlyWithKey == HasKey       \* mutant: the live cursor is not passed on
Resumes == HasKey \/ db.cursor > 0

(* One attempt of followJetstream: read the cursor and subscribe after it; *)
(* without a key and a cursor the session starts at the live tip.          *)
Attempt ==
    /\ pc = "down" /\ conn = "free"
    /\ IF Resumes
          THEN pos' = db.cursor /\ UNCHANGED origin
          ELSE pos' = Len(log) /\ origin' = Len(log)
    /\ pc' = "idle"
    /\ UNCHANGED <<external, db, conn, batch, tx, backfill, faults>>

(* client.Events ends, or yields an error that is fatal: attempt returns.  *)
StreamEnds ==
    /\ pc = "idle"
    /\ Fault
    /\ pc' = "down" /\ pos' = 0
    /\ UNCHANGED <<external, db, conn, origin, batch, tx, backfill>>

TakeBatch(f, l) ==
    /\ pc = "idle"
    /\ first' = f /\ last' = l /\ at' = f
    /\ pc' = "accounts"
    /\ UNCHANGED <<external, db, conn, origin, pos, handles, lensed, fetches, tx, backfill>>

(* The session's next batch. *)
NextBatch(l) ==
    /\ l \in (pos + 1)..Len(log)
    /\ l < pos + 1 + MaxBatch
    /\ TakeBatch(pos + 1, l)
    /\ UNCHANGED faults

(* Delivery is at least once: a batch may start with events already seen.  *)
RedeliveredBatch(f, l) ==
    /\ f \in (origin + 1)..pos
    /\ f > pos - Redelivery
    /\ l \in f..Len(log)
    /\ l < f + MaxBatch
    /\ StaleBatches \/ l >= db.cursor
    /\ TakeBatch(f, l)
    /\ Fault

-----------------------------------------------------------------------------
(* applyBatch.                                                             *)

(* resolveNewAccounts: the accounts that post in the batch and have no row *)
(* are resolved; a lookup that fails gives the empty handle.               *)
Posters == {log[i].did : i \in {j \in first..last : log[j].kind = "put"}}

NewAccounts == {d \in Posters : db.accounts[d] = None}

(* Mutant: an account whose lookup failed gets no row. *)
Resolutions_SkipFailed ==
    {h \in UNION {[D -> Handle \cup {Empty}] : D \in SUBSET NewAccounts} :
        \A d \in DOMAIN h : h[d] \in Answers(d)}

Resolutions ==
    {h \in [NewAccounts -> Handle \cup {Empty}] :
        \A d \in NewAccounts : h[d] \in Answers(d) \cup {Empty}}

ResolveNewAccounts ==
    /\ pc = "accounts" /\ conn = "free"
    /\ handles' \in Resolutions
    /\ at' = first
    /\ pc' = "subjects"
    /\ UNCHANGED <<external, db, conn, origin, pos, first, last, lensed, fetches,
                   tx, backfill, faults>>

(* resolveSubjects looks at the first acceptable commit naming each uri.   *)
NamesSubject(e) == e.kind = "put" /\ e.verdict # "rejected"

Candidates ==
    {i \in first..last :
        /\ NamesSubject(log[i])
        /\ \A j \in first..(i - 1) :
              NamesSubject(log[j]) => log[j].review.uri # log[i].review.uri}

(* One turn of its loop, for commit i: skip a version already stored, skip *)
(* past the cap, or fetch the record as it is now and lens it.             *)
Known_AnyVersion(i) ==              \* mutant: a row of any version will do
    db.subjects[log[i].review.uri] # None
Known(i) == db.subjects[log[i].review.uri] = log[i].review.cid

UnderCap_OffByOne == fetches + 1 < MaxFetches                       \* mutant
UnderCap == fetches < MaxFetches

FetchedVersion_PostersCid(i) == log[i].review.cid   \* mutant: trusts the poster
FetchedVersion(i) == record[log[i].review.uri]

ResolveSubject(i) ==
    LET u == log[i].review.uri
    IN  /\ pc = "subjects" /\ conn = "free"
        /\ at <= i
        /\ \A j \in Candidates : j < at \/ i <= j
        /\ at' = i + 1
        /\ \/ /\ Known(i) \/ ~UnderCap
              /\ UNCHANGED <<fetches, lensed>>
           \/ /\ ~Known(i) /\ UnderCap
              /\ fetches' = fetches + 1
              /\ \/ lensed' = [v \in DOMAIN lensed \cup {u} |->
                                  IF v = u THEN FetchedVersion(i) ELSE lensed[v]]
                 \/ FetchFails /\ UNCHANGED lensed
        /\ UNCHANGED <<external, db, conn, origin, pc, pos, first, last, handles,
                       tx, backfill, faults>>

(* BeginTx and the statements before the loop over the events. *)
BeginTx ==
    /\ pc = "subjects" /\ conn = "free"
    /\ \A i \in Candidates : i < at
    /\ conn' = "ingest"
    /\ tx' = UpsertSubjects(InsertAccounts(db, handles), lensed)
    /\ at' = first
    /\ pc' = "apply"
    /\ UNCHANGED <<external, db, origin, pos, first, last, handles, lensed, fetches,
                   backfill, faults>>

(* Mutant: the events are applied outside any transaction. *)
ApplyEvent_NoTransaction ==
    /\ pc = "apply" /\ at <= last
    /\ tx' = Apply(tx, log[at])
    /\ db' = Apply(tx, log[at])
    /\ at' = at + 1
    /\ UNCHANGED <<external, conn, origin, pc, pos, first, last, handles, lensed,
                   fetches, backfill, faults>>

ApplyEvent ==
    /\ pc = "apply" /\ at <= last
    /\ tx' = Apply(tx, log[at])
    /\ at' = at + 1
    /\ UNCHANGED <<external, db, conn, origin, pc, pos, first, last, handles, lensed,
                   fetches, backfill, faults>>

(* seq = MAX(seq, excluded.seq) *)
WriteCursor_Overwrites(t, seq) == [t EXCEPT !.cursor = seq]         \* mutant
WriteCursor(t, seq) == [t EXCEPT !.cursor = IF t.cursor < seq THEN seq ELSE t.cursor]

CommitTx ==
    /\ pc = "apply" /\ at > last
    /\ db' = WriteCursor(tx, last)
    /\ conn' = "free"
    /\ pos' = last
    /\ pc' = "idle"
    /\ DropBatch
    /\ UNCHANGED <<external, origin, backfill, faults>>

(* The connection after the deferred tx.Rollback of its holder. *)
RolledBack_Leaks(holder) == conn            \* mutant: an early return keeps it
RolledBack(holder) == IF conn = holder THEN "free" ELSE conn

(* Mutant: a failed batch is logged and the session goes on after it. *)
BatchFails_GoesOn ==
    /\ pc \in {"accounts", "subjects", "apply"}
    /\ Fault
    /\ conn' = RolledBack("ingest")
    /\ pc' = "idle" /\ pos' = last
    /\ DropBatch
    /\ UNCHANGED <<external, db, origin, backfill>>

(* Any statement of applyBatch fails: the deferred Rollback runs, the      *)
(* session is closed and followJetstream starts another attempt.           *)
BatchFails ==
    /\ pc \in {"accounts", "subjects", "apply"}
    /\ Fault
    /\ conn' = RolledBack("ingest")
    /\ pc' = "down" /\ pos' = 0
    /\ DropBatch
    /\ UNCHANGED <<external, db, origin, backfill>>

-----------------------------------------------------------------------------
(* backfillSubjects.                                                       *)

Unresolved ==
    {u \in URI : /\ db.subjects[u] = None
                 /\ \E k \in Key : db.reviews[k] # None /\ db.reviews[k].uri = u}

(* Mutant: the rows stay open while the loop writes. *)
BackfillQuery_HoldsRows ==
    /\ backfill.phase = "query" /\ conn = "free"
    /\ conn' = "backfill"
    /\ backfill' = [backfill EXCEPT !.phase = "next", !.todo = Unresolved]
    /\ UNCHANGED <<external, db, origin, pc, pos, batch, tx, faults>>

(* The rows are read to the end and closed before anything is written. *)
BackfillQuery ==
    /\ backfill.phase = "query" /\ conn = "free"
    /\ backfill' = [backfill EXCEPT !.phase = "next", !.todo = Unresolved]
    /\ UNCHANGED <<external, db, conn, origin, pc, pos, batch, tx, faults>>

(* The query breaks off: what was scanned until then is kept. *)
BackfillQueryFails ==
    /\ backfill.phase = "query" /\ conn = "free"
    /\ Fault
    /\ \E some \in SUBSET Unresolved :
          backfill' = [NoBackfill EXCEPT !.phase = "next", !.todo = some]
    /\ UNCHANGED <<external, db, conn, origin, pc, pos, batch, tx>>

BackfillLens(u) ==
    /\ backfill.phase = "next" /\ u \in backfill.todo
    /\ \/ backfill' = [phase |-> "store", todo |-> backfill.todo \ {u},
                       uri |-> u, version |-> record[u]]
       \/ /\ FetchFails
          /\ backfill' = [backfill EXCEPT !.todo = @ \ {u}]
    /\ UNCHANGED <<external, db, conn, origin, pc, pos, batch, tx, faults>>

BackfillBeginTx ==
    /\ backfill.phase = "store" /\ conn = "free"
    /\ conn' = "backfill"
    /\ backfill' = [backfill EXCEPT !.phase = "commit"]
    /\ UNCHANGED <<external, db, origin, pc, pos, batch, tx, faults>>

BackfillCommitTx ==
    /\ backfill.phase = "commit"
    /\ db' = UpsertSubjects(db, [u \in {backfill.uri} |-> backfill.version])
    /\ conn' = "free"
    /\ backfill' = [NoBackfill EXCEPT !.phase = "next", !.todo = backfill.todo]
    /\ UNCHANGED <<external, origin, pc, pos, batch, tx, faults>>

(* A failed write is logged and the loop goes on. *)
BackfillFails ==
    /\ backfill.phase \in {"store", "commit"}
    /\ Fault
    /\ conn' = RolledBack("backfill")
    /\ backfill' = [NoBackfill EXCEPT !.phase = "next", !.todo = backfill.todo]
    /\ UNCHANGED <<external, db, origin, pc, pos, batch, tx>>

BackfillDone ==
    /\ backfill.phase = "next" /\ backfill.todo = {}
    /\ backfill' = [NoBackfill EXCEPT !.phase = "done"]
    /\ UNCHANGED <<external, db, conn, origin, pc, pos, batch, tx, faults>>

-----------------------------------------------------------------------------
(* Nothing to deliver and nothing to backfill: Events blocks. *)
Waiting ==
    /\ pc = "idle" /\ backfill.phase = "done" /\ conn = "free"
    /\ UNCHANGED vars

ApplyBatchStep ==
    \/ ResolveNewAccounts
    \/ \E i \in Candidates : ResolveSubject(i)
    \/ BeginTx
    \/ ApplyEvent
    \/ CommitTx

BackfillStep ==
    \/ BackfillQuery
    \/ \E u \in backfill.todo : BackfillLens(u)
    \/ BackfillBeginTx
    \/ BackfillCommitTx
    \/ BackfillDone

Next ==
    \/ \E e \in Published : Publish(e)
    \/ \E u \in URI : EditSubject(u)
    \/ Boot
    \/ Crash
    \/ Attempt
    \/ StreamEnds
    \/ \E l \in 1..Len(log) : NextBatch(l)
    \/ \E f, l \in 1..Len(log) : RedeliveredBatch(f, l)
    \/ ApplyBatchStep
    \/ BatchFails
    \/ BackfillStep
    \/ BackfillQueryFails
    \/ BackfillFails
    \/ Waiting

Spec == Init /\ [][Next]_vars

(* Both goroutines keep running, the supervisor restarts a dead process,   *)
(* and the stream delivers what was published.  Faults are finitely many.  *)
Fairness ==
    /\ WF_vars(Boot)
    /\ WF_vars(Attempt)
    /\ WF_vars(\E l \in 1..Len(log) : NextBatch(l))
    /\ WF_vars(ApplyBatchStep)
    /\ WF_vars(BackfillStep)

FairSpec == Spec /\ Fairness

-----------------------------------------------------------------------------
(* Properties.                                                             *)

(* Where the committed tables stand in the log. *)
Standing == IF db.cursor > 0 THEN db.cursor ELSE origin

(* The ingester implements ReviewFeed: a step of it moves a reader from    *)
(* one whole prefix of the log to a longer one, or shows nothing.          *)
Feed == INSTANCE ReviewFeed WITH upto <- Standing, shown <- ReviewsOf(db)

ImplementsFeed == Feed!FeedSpec

(* The reviews and tags that the site reads are at every moment exactly    *)
(* what folding the log up to the stored cursor gives: no batch shows half *)
(* applied, none is lost or applied against rows it did not follow, in     *)
(* whatever way batches fail, are redelivered and are cut off by a crash   *)
(* (applyBatch's one transaction, ingest.go 86-112).                       *)
ReviewsMatchCursor == Folded(log, ReviewsOf(db), NoReviews, origin + 1, Standing)

(* Whatever order batches come in, the stored cursor never moves back      *)
(* (seq = MAX(seq, excluded.seq), ingest.go 108).                          *)
CursorNeverMovesBack == [][db'.cursor >= db.cursor]_vars

(* The account of every stored review has a row, as the site's join of     *)
(* reviews with accounts needs: it is resolved before the transaction that *)
(* stores the review and inserted in it (ingest.go 78, 92-96).             *)
ReviewersHaveAccounts ==
    \A k \in Key : db.reviews[k] # None => db.accounts[k[1]] # None

(* A stored review has at least one tag and a deleted one leaves none      *)
(* behind, even when stale batches are folded over newer rows              *)
(* (ingest.go 362-371, the cascade of migrations/001_init.sql).              *)
TagsBelongToReviews ==
    \A k \in Key : (db.reviews[k] = None) <=> (db.tags[k] = NoTags)

(* Once the log is folded in, a stored handle is the one its account       *)
(* controls now, or empty: neither a failed lookup, nor a cached answer,   *)
(* nor a lookup that races an identity event leaves an old handle          *)
(* (ingest.go 135-142, 310-326).                                           *)
HandlesCurrent ==
    pc = "idle" /\ db.cursor = Len(log) =>
        \A d \in DID : db.accounts[d] \in {None, Empty} \cup Verified(d)

(* The pool's one connection is held across calls by at most one of the    *)
(* two goroutines, only inside its transaction, and given back on every    *)
(* way out of it (db.go 26, ingest.go 86-112 and 229-237).                 *)
ConnectionHasOwner ==
    /\ conn = "ingest" <=> pc = "apply"
    /\ conn = "backfill" <=> backfill.phase = "commit"

(* With subject fetches that succeed and fit under the cap, no stored      *)
(* review is left on its poster's own title: its subject has a row         *)
(* (resolveSubjects, ingest.go 152-192).                                   *)
ReviewedSubjectsResolved ==
    \A k \in Key : db.reviews[k] # None => db.subjects[db.reviews[k].uri] # None

(* Under the same conditions the row is of the version the review names or *)
(* of a later one: a review that names a version not seen yet has its      *)
(* subject lensed again (docs/superpowers/specs/                           *)
(* 2026-09-17-subject-resolution-and-links-design.md 95-98).               *)
SubjectsCoverReviews ==
    \A k \in Key :
        /\ db.reviews[k] # None
        /\ db.subjects[db.reviews[k].uri] # None
        => db.reviews[k].cid <= db.subjects[db.reviews[k].uri]

(* A subject's stored version is never replaced by an older one            *)
(* (upsertSubject, ingest.go 277-294).                                     *)
SubjectsNeverRegress ==
    [][\A u \in URI : db.subjects[u] # None =>
          db'.subjects[u] # None /\ db.subjects[u] <= db'.subjects[u]]_vars

(* A process that died never left a cursor ahead of its data               *)
(* (docs/superpowers/specs/2026-09-13-ingest-design.md 70-72).             *)
CrashNeverLeavesCursorAhead == pc = "dead" => ReviewsMatchCursor

(* Everything published is folded in at last, however batches failed on    *)
(* the way (followJetstream's retry from the stored cursor, main.go 62-90).*)
CatchesUp == <>[](Standing = Len(log) /\ pc = "idle")

(* The startup backfill ends, though it shares the one connection with     *)
(* ingest and its fetches and writes may fail (ingest.go 243-275).         *)
BackfillEnds == backfill.phase = "query" ~> backfill.phase \in {"off", "done"}
=============================================================================
