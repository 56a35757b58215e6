---------------------------- MODULE IngestProofs ----------------------------
(***************************************************************************)
(* Proofs about Ingest for every set of accounts, keys, subjects and       *)
(* events, every batch size and any number of crashes and failures: its    *)
(* type invariant, who owns the database connection, and, as long as no    *)
(* redelivered batch ends before the cursor, that the committed reviews    *)
(* are the fold of the log up to the cursor, and that every step is one of *)
(* ReviewFeed or none at all.                                              *)
(***************************************************************************)
EXTENDS Ingest, TLAPS

-----------------------------------------------------------------------------
(***************************************************************************)
(* Facts about the fold of ReviewFold, for every set of accounts, keys,    *)
(* subjects and tags: what one event does to the tables, how folds extend  *)
(* and compose, and that the tables keep their type.                       *)
(***************************************************************************)

(* A key among those an event touches is a key of the tables. *)
LEMMA TouchedKeys ==
    ASSUME NEW e \in Event
    PROVE  Touched(e) \subseteq Key
BY DEF Touched, Event, ReposReviews, Key

(* apply does to the reviews what the meaning of the event says: a touched *)
(* key holds what the event left, every other key is as it was.            *)
THEOREM ApplyMeansLeft ==
    ASSUME NEW t \in Tables, NEW e \in Event, NEW k \in Key
    PROVE  ReviewsOf(Apply(t, e))[k] =
               IF k \in Touched(e) THEN Left(e) ELSE ReviewsOf(t)[k]
<1> USE DEF ReviewsOf, Apply, Touched, Left
<1>1. CASE e.kind \in {"put", "delete"}
  <2>1. <<e.did, e.rkey>> \in Key
    BY <1>1 DEF Event, Key
  <2>2. CASE e.kind = "put" /\ e.verdict = "valid"
    BY <1>1, <2>1, <2>2 DEF ApplyCommit, UpsertReview, Tables
  <2>3. CASE ~(e.kind = "put" /\ e.verdict = "valid")
    BY <1>1, <2>1, <2>3 DEF ApplyCommit, DeleteReviews, Tables
  <2>4. QED
    BY <2>2, <2>3
<1>2. CASE e.kind = "account" /\ ~e.active /\ e.status = "deleted"
  BY <1>2 DEF DeleteReviews, Tables
<1>3. CASE e.kind = "sync"
  BY <1>3 DEF DeleteReviews, Tables
<1>4. CASE e.kind = "identity"
  BY <1>4 DEF ApplyIdentity, Tables
<1>5. CASE /\ e.kind \notin {"put", "delete", "sync", "identity"}
           /\ ~(e.kind = "account" /\ ~e.active /\ e.status = "deleted")
  BY <1>5
<1>6. QED
  BY <1>1, <1>2, <1>3, <1>4, <1>5

(* Folding one more event extends a fold by that event. *)
LEMMA FoldExtends ==
    ASSUME NEW feed, NEW r, NEW base, NEW r2, NEW lo \in Nat, NEW i \in Nat,
           lo <= i + 1,
           Folded(feed, r, base, lo, i),
           \A k \in Key : r2[k] = IF k \in Touched(feed[i + 1]) THEN Left(feed[i + 1]) ELSE r[k]
    PROVE  Folded(feed, r2, base, lo, i + 1)
<1> SUFFICES ASSUME NEW k \in Key
             PROVE  \/ /\ \A j \in lo..(i + 1) : k \notin Touched(feed[j])
                       /\ r2[k] = base[k]
                    \/ \E m \in lo..(i + 1) :
                          /\ k \in Touched(feed[m])
                          /\ \A j \in (m + 1)..(i + 1) : k \notin Touched(feed[j])
                          /\ r2[k] = Left(feed[m])
  BY DEF Folded
<1>1. CASE k \in Touched(feed[i + 1])
  <2>1. i + 1 \in lo..(i + 1) /\ \A j \in (i + 1 + 1)..(i + 1) : FALSE
    OBVIOUS
  <2>2. QED
    BY <1>1, <2>1
<1>2. CASE k \notin Touched(feed[i + 1])
  <2>1. \A j \in lo..(i + 1) : j \in lo..i \/ j = i + 1
    OBVIOUS
  <2>2. \A m \in lo..i : \A j \in (m + 1)..(i + 1) : j \in (m + 1)..i \/ j = i + 1
    OBVIOUS
  <2>3. lo..i \subseteq lo..(i + 1)
    OBVIOUS
  <2>4. QED
    BY <1>2, <2>1, <2>2, <2>3 DEF Folded
<1>3. QED
  BY <1>1, <1>2

(* A fold over events that overlap what base already holds, and reach at   *)
(* least as far, is the fold of them all: this is why a redelivered batch  *)
(* does no harm as long as it reaches the cursor.                          *)
LEMMA FoldsCompose ==
    ASSUME NEW feed, NEW r, NEW r2, NEW base,
           NEW lo \in Nat, NEW c \in Nat, NEW s \in Nat, NEW m \in Nat,
           lo <= s, s <= c + 1, c <= m,
           Folded(feed, r, base, lo, c),
           Folded(feed, r2, r, s, m)
    PROVE  Folded(feed, r2, base, lo, m)
<1> SUFFICES ASSUME NEW k \in Key
             PROVE  \/ /\ \A j \in lo..m : k \notin Touched(feed[j])
                       /\ r2[k] = base[k]
                    \/ \E i \in lo..m :
                          /\ k \in Touched(feed[i])
                          /\ \A j \in (i + 1)..m : k \notin Touched(feed[j])
                          /\ r2[k] = Left(feed[i])
  BY DEF Folded
<1>1. CASE \E i \in s..m : /\ k \in Touched(feed[i])
                           /\ \A j \in (i + 1)..m : k \notin Touched(feed[j])
                           /\ r2[k] = Left(feed[i])
  <2>1. s..m \subseteq lo..m
    OBVIOUS
  <2>2. QED
    BY <1>1, <2>1
<1>2. CASE /\ \A i \in s..m : k \notin Touched(feed[i])
           /\ r2[k] = r[k]
  <2>1. CASE /\ \A i \in lo..c : k \notin Touched(feed[i])
             /\ r[k] = base[k]
    <3>1. \A j \in lo..m : j \in lo..c \/ j \in s..m
      OBVIOUS
    <3>2. QED
      BY <1>2, <2>1, <3>1
  <2>2. CASE \E i \in lo..c : /\ k \in Touched(feed[i])
                              /\ \A j \in (i + 1)..c : k \notin Touched(feed[j])
                              /\ r[k] = Left(feed[i])
    <3>1. PICK i \in lo..c : /\ k \in Touched(feed[i])
                             /\ \A j \in (i + 1)..c : k \notin Touched(feed[j])
                             /\ r[k] = Left(feed[i])
      BY <2>2
    <3>2. i \in lo..m /\ \A j \in (i + 1)..m : j \in (i + 1)..c \/ j \in s..m
      OBVIOUS
    <3>3. QED
      BY <1>2, <3>1, <3>2
  <2>3. QED
    BY <2>1, <2>2 DEF Folded
<1>3. QED
  BY <1>1, <1>2 DEF Folded

(* A fold does not look at events that come later. *)
LEMMA FoldIgnoresLater ==
    ASSUME NEW S, NEW feed \in Seq(S), NEW e \in S, NEW r, NEW base,
           NEW lo \in Nat, NEW hi \in Nat, 1 <= lo, hi <= Len(feed),
           Folded(feed, r, base, lo, hi)
    PROVE  Folded(Append(feed, e), r, base, lo, hi)
<1>1. \A i \in lo..hi : Append(feed, e)[i] = feed[i]
  OBVIOUS
<1>2. \A i \in lo..hi : \A j \in (i + 1)..hi : j \in lo..hi
  OBVIOUS
<1>3. QED
  BY <1>1, <1>2 DEF Folded

(* Folding no events changes nothing. *)
LEMMA FoldOfNothing ==
    ASSUME NEW feed, NEW r, NEW base, NEW lo \in Nat, NEW hi \in Nat, hi < lo
    PROVE  Folded(feed, r, base, lo, hi) <=> \A k \in Key : r[k] = base[k]
<1>1. \A i \in lo..hi : FALSE
  OBVIOUS
<1>2. QED
  BY <1>1 DEF Folded

-----------------------------------------------------------------------------
(* The tables keep their type under every statement of a batch.            *)

LEMMA TagRowsType ==
    ASSUME NEW tags \in Seq(Tag)
    PROVE  TagRows(tags) \in TagTable
BY DEF TagRows, TagTable

LEMMA DeleteReviewsType ==
    ASSUME NEW t \in Tables, NEW gone
    PROVE  DeleteReviews(t, gone) \in Tables
<1>1. NoTags \in TagTable
  BY DEF NoTags, TagTable
<1>2. QED
  BY <1>1 DEF DeleteReviews, Tables

LEMMA UpsertReviewType ==
    ASSUME NEW t \in Tables, NEW k \in Key, NEW review \in Review, NEW tags \in Seq(Tag)
    PROVE  UpsertReview(t, k, review, tags) \in Tables
BY TagRowsType DEF UpsertReview, Tables

LEMMA ApplyType ==
    ASSUME NEW t \in Tables, NEW e \in Event
    PROVE  Apply(t, e) \in Tables
<1>1. CASE e.kind \in {"put", "delete"}
  <2>1. <<e.did, e.rkey>> \in Key
    BY <1>1 DEF Event, Key
  <2>2. e.kind = "put" => e.review \in Review /\ e.tags \in Seq(Tag)
    BY DEF Event
  <2>3. QED
    BY <1>1, <2>1, <2>2, DeleteReviewsType, UpsertReviewType DEF Apply, ApplyCommit
<1>2. CASE e.kind = "identity"
  <2>1. e.did \in DID /\ e.claim \in HandleClaim
    BY <1>2 DEF Event
  <2>2. e.claim.given # "none" => HandleOf(e.claim) \in Handle \cup {Empty}
    BY <2>1 DEF HandleClaim, HandleOf
  <2>3. QED
    BY <1>2, <2>1, <2>2 DEF Apply, ApplyIdentity, Tables
<1>3. CASE e.kind \notin {"put", "delete", "identity"}
  BY <1>3, DeleteReviewsType DEF Apply
<1>4. QED
  BY <1>1, <1>2, <1>3

LEMMA InsertAccountsType ==
    ASSUME NEW t \in Tables, NEW found,
           \A d \in DOMAIN found : found[d] \in Handle \cup {Empty}
    PROVE  InsertAccounts(t, found) \in Tables
BY DEF InsertAccounts, Tables

LEMMA UpsertSubjectsType ==
    ASSUME NEW t \in Tables, NEW fetched, \A u \in DOMAIN fetched : fetched[u] \in Version
    PROVE  UpsertSubjects(t, fetched) \in Tables
BY DEF UpsertSubjects, Tables

(* Only apply writes reviews; only the end of a batch writes the cursor.   *)
LEMMA ApplyKeepsCursor ==
    ASSUME NEW t \in Tables, NEW e \in Event
    PROVE  Apply(t, e).cursor = t.cursor
BY DEF Apply, ApplyCommit, ApplyIdentity, UpsertReview, DeleteReviews, Tables

LEMMA OtherTablesKeepReviews ==
    ASSUME NEW t \in Tables, NEW found, NEW fetched
    PROVE  /\ ReviewsOf(InsertAccounts(t, found)) = ReviewsOf(t)
           /\ ReviewsOf(UpsertSubjects(t, fetched)) = ReviewsOf(t)
           /\ InsertAccounts(t, found).cursor = t.cursor
           /\ UpsertSubjects(t, fetched).cursor = t.cursor
BY DEF ReviewsOf, InsertAccounts, UpsertSubjects, Tables

-----------------------------------------------------------------------------
(***************************************************************************)
(* The ingester.                                                           *)
(***************************************************************************)

InBatch == pc \in {"accounts", "subjects", "apply"}

(* A batch in hand is a stretch of the log. *)
BatchInLog == InBatch => 1 <= first /\ first <= at /\ last <= Len(log)

(* Between its fetch and its commit the backfill has a subject in hand. *)
BackfillHolds ==
    backfill.phase \in {"store", "commit"} => backfill.uri \in URI /\ backfill.version \in Version

(* What the types of a step's results rest on. *)
TInv == TypeOK /\ BatchInLog /\ BackfillHolds

(* Where a session and its batch lie in the log, against what is stored. *)
PositionOK ==
    /\ origin <= Standing /\ Standing <= Len(log)
    /\ HasKey => origin = 0
    /\ pc = "idle" => pos = Standing
    /\ InBatch => /\ origin < first /\ first <= Standing + 1
                  /\ db.cursor <= last /\ first <= last /\ at <= last + 1

(* The connection has an owner, and a transaction sees the cursor of the   *)
(* tables it began on: nobody else commits while it is open.               *)
TxCursorOK == pc = "apply" => tx.cursor = db.cursor

(* The backfill dies with the process. *)
DeadIsIdle == pc = "dead" => backfill.phase = "off"

Owned == ConnectionHasOwner /\ TxCursorOK /\ DeadIsIdle

CInv == TInv /\ Owned

(* Inside a transaction: the part of the batch applied so far is folded    *)
(* into the tables the transaction began on.                               *)
TxOK == pc = "apply" => Folded(log, ReviewsOf(tx), ReviewsOf(db), first, at - 1)

(* ReviewsMatchCursor alone is not inductive: a commit preserves it only   *)
(* because of what the open transaction holds, and that nobody else wrote  *)
(* to the tables since it began.                                           *)
PInv == PositionOK /\ TxOK /\ ReviewsMatchCursor

IInv == CInv /\ PInv

-----------------------------------------------------------------------------
LEMMA LogType ==
    ASSUME NEW l \in Seq(Published), NEW i \in 1..Len(l)
    PROVE  l[i] \in Event
BY PublishedAssumption

LEMMA EmptyTablesType == EmptyTables \in Tables
BY DEF EmptyTables, Tables, NoTags, TagTable

LEMMA DropBatchType ==
    ASSUME DropBatch
    PROVE  /\ first' \in Nat /\ last' \in Nat /\ at' \in Nat
           /\ handles' \in UNION {[D -> Handle \cup {Empty}] : D \in SUBSET DID}
           /\ lensed' \in UNION {[U -> Version] : U \in SUBSET URI}
           /\ fetches' \in Nat /\ tx' \in Tables
<1>1. NoHandles \in [{} -> Handle \cup {Empty}] /\ NoSubjects \in [{} -> Version]
  BY DEF NoHandles, NoSubjects
<1>2. QED
  BY <1>1, EmptyTablesType DEF DropBatch

(* The values a batch brings to its transaction have their types. *)
LEMMA TxBegunType ==
    ASSUME TypeOK
    PROVE  UpsertSubjects(InsertAccounts(db, handles), lensed) \in Tables
<1>1. \A d \in DOMAIN handles : handles[d] \in Handle \cup {Empty}
  BY DEF TypeOK
<1>2. \A u \in DOMAIN lensed : lensed[u] \in Version
  BY DEF TypeOK
<1>3. db \in Tables
  BY DEF TypeOK
<1>4. QED
  BY <1>1, <1>2, <1>3, InsertAccountsType, UpsertSubjectsType

LEMMA BatchEvents ==
    ASSUME TypeOK, BatchInLog, InBatch, NEW i \in first..last
    PROVE  log[i] \in Event
BY LogType DEF TypeOK, BatchInLog

-----------------------------------------------------------------------------
LEMMA TypeStepWorld ==
    ASSUME TInv,
           \/ \E e \in Published : Publish(e)
           \/ \E u \in URI : EditSubject(u)
    PROVE  TInv'
<1> USE DEF TInv, TypeOK, BatchInLog, BackfillHolds, InBatch, external, batch
<1>1. ASSUME NEW e \in Published, Publish(e)
      PROVE  TInv'
  BY <1>1 DEF Publish
<1>2. ASSUME NEW u \in URI, EditSubject(u)
      PROVE  TInv'
  BY <1>2 DEF EditSubject
<1>3. QED
  BY <1>1, <1>2

LEMMA TypeStepSession ==
    ASSUME TInv,
           \/ Boot \/ Crash \/ Attempt \/ StreamEnds
           \/ \E l \in 1..Len(log) : NextBatch(l)
           \/ \E f, l \in 1..Len(log) : RedeliveredBatch(f, l)
    PROVE  TInv'
<1> USE DEF TInv, TypeOK, BatchInLog, BackfillHolds, InBatch, external, batch
<1>1. CASE Boot
  BY <1>1 DEF Boot, NoBackfill
<1>2. CASE Crash
  BY <1>2, DropBatchType DEF Crash, Fault, NoBackfill
<1>3. CASE Attempt
  BY <1>3 DEF Attempt, Tables
<1>4. CASE StreamEnds
  BY <1>4 DEF StreamEnds, Fault
<1>5. ASSUME NEW l \in 1..Len(log), NextBatch(l)
      PROVE  TInv'
  BY <1>5 DEF NextBatch, TakeBatch
<1>6. ASSUME NEW f \in 1..Len(log), NEW l \in 1..Len(log), RedeliveredBatch(f, l)
      PROVE  TInv'
  BY <1>6 DEF RedeliveredBatch, TakeBatch, Fault
<1>7. QED
  BY <1>1, <1>2, <1>3, <1>4, <1>5, <1>6

LEMMA TypeStepBatch ==
    ASSUME TInv, ApplyBatchStep \/ BatchFails
    PROVE  TInv'
<1> USE DEF TInv, BatchInLog, BackfillHolds, InBatch, external, batch
<1>1. CASE ResolveNewAccounts
  <2>1. NewAccounts \in SUBSET DID
    <3>1. \A i \in first..last : log[i].kind = "put" => log[i].did \in DID
      BY <1>1, BatchEvents DEF Event, ResolveNewAccounts
    <3>2. QED
      BY <3>1 DEF NewAccounts, Posters
  <2>2. handles' \in [NewAccounts -> Handle \cup {Empty}]
    BY <1>1 DEF ResolveNewAccounts, Resolutions
  <2>3. QED
    BY <1>1, <2>1, <2>2 DEF ResolveNewAccounts, TypeOK
<1>2. ASSUME NEW i \in Candidates, ResolveSubject(i)
      PROVE  TInv'
  <2>1. i \in first..last /\ log[i].kind = "put"
    BY DEF Candidates, NamesSubject
  <2>2. log[i] \in Event
    BY <1>2, <2>1, BatchEvents DEF ResolveSubject
  <2>3. log[i].review.uri \in URI
    BY <2>1, <2>2 DEF Event, Review
  <2>4. lensed' \in UNION {[U -> Version] : U \in SUBSET URI}
    BY <1>2, <2>3 DEF ResolveSubject, FetchedVersion, TypeOK
  <2>5. fetches' \in Nat
    BY <1>2 DEF ResolveSubject, TypeOK
  <2>6. QED
    BY <1>2, <2>1, <2>4, <2>5 DEF ResolveSubject, TypeOK
<1>3. CASE BeginTx
  BY <1>3, TxBegunType DEF BeginTx, TypeOK
<1>4. CASE ApplyEvent
  <2>1. log[at] \in Event /\ at \in Nat
    BY <1>4, BatchEvents DEF ApplyEvent, TypeOK
  <2>2. tx' \in Tables
    BY <1>4, <2>1, ApplyType DEF ApplyEvent, TypeOK
  <2>3. QED
    BY <1>4, <2>1, <2>2 DEF ApplyEvent, TypeOK
<1>5. CASE CommitTx
  <2>1. db' \in Tables
    BY <1>5 DEF CommitTx, WriteCursor, TypeOK, Tables
  <2>2. QED
    BY <1>5, <2>1, DropBatchType DEF CommitTx, TypeOK
<1>6. CASE BatchFails
  BY <1>6, DropBatchType DEF BatchFails, Fault, RolledBack, TypeOK
<1>7. QED
  BY <1>1, <1>2, <1>3, <1>4, <1>5, <1>6 DEF ApplyBatchStep

LEMMA TypeStepBackfill ==
    ASSUME TInv, BackfillStep \/ BackfillQueryFails \/ BackfillFails
    PROVE  TInv'
<1> USE DEF TInv, TypeOK, BatchInLog, BackfillHolds, InBatch, external, batch, NoBackfill
<1>1. CASE BackfillQuery
  BY <1>1 DEF BackfillQuery, Unresolved
<1>2. ASSUME NEW u \in backfill.todo, BackfillLens(u)
      PROVE  TInv'
  BY <1>2 DEF BackfillLens
<1>3. CASE BackfillBeginTx
  BY <1>3 DEF BackfillBeginTx
<1>4. CASE BackfillCommitTx
  <2>1. backfill' = [phase |-> "next", todo |-> backfill.todo, uri |-> None, version |-> None]
    BY <1>4 DEF BackfillCommitTx
  <2>2. db' \in Tables
    BY <1>4, UpsertSubjectsType DEF BackfillCommitTx
  <2>3. QED
    BY <1>4, <2>1, <2>2 DEF BackfillCommitTx
<1>5. CASE BackfillFails
  <2>1. backfill' = [phase |-> "next", todo |-> backfill.todo, uri |-> None, version |-> None]
    BY <1>5 DEF BackfillFails
  <2>2. QED
    BY <1>5, <2>1 DEF BackfillFails, Fault, RolledBack
<1>6. CASE BackfillDone
  <2>1. backfill' = [phase |-> "done", todo |-> {}, uri |-> None, version |-> None]
    BY <1>6 DEF BackfillDone
  <2>2. QED
    BY <1>6, <2>1 DEF BackfillDone
<1>7. CASE BackfillQueryFails
  <2>1. PICK some \in SUBSET URI :
            backfill' = [phase |-> "next", todo |-> some, uri |-> None, version |-> None]
    BY <1>7 DEF BackfillQueryFails, Unresolved
  <2>2. /\ faults' = faults + 1 /\ backfill.phase = "query"
        /\ UNCHANGED <<external, db, conn, origin, pc, pos, batch, tx>>
    BY <1>7 DEF BackfillQueryFails, Fault
  <2>3. QED
    BY <2>1, <2>2
<1>8. QED
  BY <1>1, <1>2, <1>3, <1>4, <1>5, <1>6, <1>7 DEF BackfillStep

LEMMA TypeInvariant == Spec => []TInv
<1>1. Init => TInv
  <2>1. NoHandles \in [{} -> Handle \cup {Empty}] /\ NoSubjects \in [{} -> Version]
    BY DEF NoHandles, NoSubjects
  <2>2. Init => record \in [URI -> Version] /\ log \in Seq(Published)
    BY VersionAssumption DEF Init
  <2>3. Init => /\ handles \in UNION {[D -> Handle \cup {Empty}] : D \in SUBSET DID}
                /\ lensed \in UNION {[U -> Version] : U \in SUBSET URI}
    BY <2>1 DEF Init
  <2>4. Init => db \in Tables /\ tx \in Tables
    BY EmptyTablesType DEF Init
  <2>5. QED
    BY <2>2, <2>3, <2>4 DEF Init, TInv, TypeOK, BatchInLog, BackfillHolds, InBatch, NoBackfill
<1>2. TInv /\ [Next]_vars => TInv'
  <2>1. ASSUME TInv, UNCHANGED vars
        PROVE  TInv'
    BY <2>1 DEF TInv, TypeOK, BatchInLog, BackfillHolds, InBatch, vars, external, batch
  <2>2. QED
    BY <2>1, TypeStepWorld, TypeStepSession, TypeStepBatch, TypeStepBackfill
    DEF Next, Waiting
<1>3. QED
  BY <1>1, <1>2, PTL DEF Spec

(* Every variable keeps its type (all of Ingest's actions). *)
THEOREM TypeCorrect == Spec => []TypeOK
<1>1. TInv => TypeOK
  BY DEF TInv
<1>2. QED
  BY <1>1, TypeInvariant, PTL

-----------------------------------------------------------------------------
LEMMA OwnerStep ==
    ASSUME CInv, [Next]_vars
    PROVE  Owned'
<1> USE DEF CInv, TInv, Owned, TypeOK, ConnectionHasOwner, TxCursorOK, DeadIsIdle, external, batch
<1>1. ASSUME NEW e \in Published, Publish(e)
      PROVE  Owned'
  BY <1>1 DEF Publish
<1>2. ASSUME NEW u \in URI, EditSubject(u)
      PROVE  Owned'
  BY <1>2 DEF EditSubject
<1>3. CASE Boot
  BY <1>3 DEF Boot, NoBackfill
<1>4. CASE Crash
  BY <1>4 DEF Crash, NoBackfill
<1>5. CASE Attempt
  BY <1>5 DEF Attempt
<1>6. CASE StreamEnds
  BY <1>6 DEF StreamEnds
<1>7. ASSUME NEW f, NEW l, TakeBatch(f, l)
      PROVE  Owned'
  BY <1>7 DEF TakeBatch
<1>8. CASE ResolveNewAccounts
  BY <1>8 DEF ResolveNewAccounts
<1>9. ASSUME NEW i \in Candidates, ResolveSubject(i)
      PROVE  Owned'
  BY <1>9 DEF ResolveSubject
<1>10. CASE BeginTx
  <2>1. InsertAccounts(db, handles) \in Tables
    BY InsertAccountsType
  <2>2. tx'.cursor = db.cursor
    BY <1>10, <2>1, OtherTablesKeepReviews DEF BeginTx
  <2>3. QED
    BY <1>10, <2>2 DEF BeginTx
<1>11. CASE ApplyEvent
  <2>1. log[at] \in Event
    BY <1>11, BatchEvents DEF ApplyEvent, BatchInLog, InBatch
  <2>2. QED
    BY <1>11, <2>1, ApplyKeepsCursor DEF ApplyEvent
<1>12. CASE CommitTx
  BY <1>12 DEF CommitTx
<1>13. CASE BatchFails
  BY <1>13 DEF BatchFails, RolledBack
<1>14. CASE BackfillQuery
  BY <1>14 DEF BackfillQuery
<1>15. ASSUME NEW u \in backfill.todo, BackfillLens(u)
       PROVE  Owned'
  BY <1>15 DEF BackfillLens
<1>16. CASE BackfillBeginTx
  BY <1>16 DEF BackfillBeginTx
<1>17. CASE BackfillCommitTx
  BY <1>17 DEF BackfillCommitTx, NoBackfill
<1>18. CASE BackfillFails
  BY <1>18 DEF BackfillFails, RolledBack, NoBackfill
<1>19. CASE BackfillDone
  BY <1>19 DEF BackfillDone, NoBackfill
<1>20. CASE UNCHANGED vars
  BY <1>20 DEF vars
<1>21. CASE BackfillQueryFails
  BY <1>21 DEF BackfillQueryFails
<1>22. QED
  BY <1>1, <1>2, <1>3, <1>4, <1>5, <1>6, <1>7, <1>8, <1>9, <1>10, <1>11, <1>12, <1>13,
     <1>14, <1>15, <1>16, <1>17, <1>18, <1>19, <1>20, <1>21
  DEF Next, ApplyBatchStep, BackfillStep, Waiting, NextBatch, RedeliveredBatch

LEMMA OwnerInvariant == Spec => []CInv
<1>1. Init => Owned
  BY DEF Init, Owned, ConnectionHasOwner, TxCursorOK, DeadIsIdle, NoBackfill
<1>2. TInv /\ Owned /\ [Next]_vars => Owned'
  BY OwnerStep DEF CInv
<1>3. TInv /\ Owned <=> CInv
  BY DEF CInv
<1>4. QED
  BY <1>1, <1>2, <1>3, TypeInvariant, PTL DEF Spec

(* The pool's one connection is held across calls by at most one of the    *)
(* two goroutines, only inside its transaction, and given back on every    *)
(* way out of it (db.go 26, ingest.go 86-112 and 229-237).                 *)
THEOREM ConnectionOwned == Spec => []ConnectionHasOwner
<1>1. CInv => ConnectionHasOwner
  BY DEF CInv, Owned
<1>2. QED
  BY <1>1, OwnerInvariant, PTL

(* The stored cursor never moves back, whatever batches are delivered, in  *)
(* whatever order, and however the process dies (ingest.go 107-111).       *)
THEOREM CursorMonotone == Spec => CursorNeverMovesBack
<1>1. CInv /\ [Next]_vars => [db'.cursor >= db.cursor]_vars
  <2> SUFFICES ASSUME CInv, [Next]_vars
               PROVE  db'.cursor >= db.cursor
    OBVIOUS
  <2>1. db \in Tables /\ db.cursor \in Nat
    BY DEF CInv, TInv, TypeOK, Tables
  <2>2. CASE CommitTx
    <3>1. tx \in Tables /\ tx.cursor = db.cursor /\ last \in Nat
      BY <2>2 DEF CommitTx, CInv, TInv, Owned, TypeOK, TxCursorOK
    <3>2. db'.cursor = IF tx.cursor < last THEN last ELSE tx.cursor
      BY <2>2, <3>1 DEF CommitTx, WriteCursor, Tables
    <3>3. QED
      BY <2>1, <3>1, <3>2
  <2>3. CASE BackfillCommitTx
    BY <2>1, <2>3, OtherTablesKeepReviews DEF BackfillCommitTx
  <2>4. CASE db' = db
    BY <2>1, <2>4
  <2>5. QED
    BY <2>2, <2>3, <2>4
    DEF Next, vars, external, batch, Publish, EditSubject, Boot, Crash, Attempt, StreamEnds,
        NextBatch, RedeliveredBatch, TakeBatch, ApplyBatchStep, ResolveNewAccounts,
        ResolveSubject, BeginTx, ApplyEvent, BatchFails, BackfillStep, BackfillQuery,
        BackfillLens, BackfillBeginTx, BackfillQueryFails, BackfillFails, BackfillDone, Waiting
<1>2. QED
  BY <1>1, OwnerInvariant, PTL DEF Spec, CursorNeverMovesBack

-----------------------------------------------------------------------------
(* The committed reviews, step by step.                                    *)

LEMMA Numbers ==
    ASSUME CInv
    PROVE  /\ db \in Tables /\ tx \in Tables /\ db.cursor \in Nat /\ tx.cursor \in Nat
           /\ origin \in Nat /\ pos \in Nat /\ first \in Nat /\ last \in Nat /\ at \in Nat
           /\ Standing \in Nat /\ Len(log) \in Nat
           /\ InBatch => 1 <= first /\ first <= at /\ last <= Len(log)
BY DEF CInv, TInv, TypeOK, Tables, Standing, BatchInLog

LEMMA FoldStepWorld ==
    ASSUME IInv, NEW e \in Published, Publish(e)
    PROVE  PInv'
<1> USE DEF IInv, PInv
<1>1. log \in Seq(Published) /\ log' = Append(log, e)
  BY DEF Publish, CInv, TInv, TypeOK
<1>2. UNCHANGED <<db, origin, pc, pos, first, last, at, tx>>
  BY DEF Publish, batch
<1>3. Standing' = Standing /\ Len(log') = Len(log) + 1
  BY <1>1, <1>2 DEF Standing
<1>4. PositionOK'
  BY <1>2, <1>3, Numbers DEF PositionOK, InBatch
<1>5. TxOK'
  <2>1. CASE pc = "apply"
    <3>1. /\ Folded(log, ReviewsOf(tx), ReviewsOf(db), first, at - 1)
          /\ first \in Nat /\ 1 <= first
          /\ at - 1 \in Nat /\ at - 1 <= Len(log)
      BY <2>1, Numbers DEF TxOK, PositionOK, InBatch
    <3>2. Folded(log', ReviewsOf(tx), ReviewsOf(db), first, at - 1)
      BY <1>1, <3>1, FoldIgnoresLater
    <3>3. QED
      BY <1>2, <3>2 DEF TxOK, ReviewsOf
  <2>2. CASE pc # "apply"
    BY <1>2, <2>2 DEF TxOK
  <2>3. QED
    BY <2>1, <2>2
<1>6. ReviewsMatchCursor'
  <2>1. /\ Folded(log, ReviewsOf(db), NoReviews, origin + 1, Standing)
        /\ origin + 1 \in Nat /\ 1 <= origin + 1
        /\ Standing \in Nat /\ Standing <= Len(log)
    BY Numbers DEF ReviewsMatchCursor, PositionOK
  <2>2. Folded(log', ReviewsOf(db), NoReviews, origin + 1, Standing)
    BY <1>1, <2>1, FoldIgnoresLater
  <2>3. QED
    BY <1>2, <1>3, <2>2 DEF ReviewsMatchCursor, ReviewsOf
<1>7. QED
  BY <1>4, <1>5, <1>6

(* Steps that write neither the log nor the tables, and leave no           *)
(* transaction open that was not: only the position can be disturbed.      *)
LEMMA FoldFrame ==
    ASSUME IInv, UNCHANGED <<log, db, origin>>, PositionOK',
           pc' = "apply" => UNCHANGED <<pc, first, at, tx>>
    PROVE  PInv'
<1> USE DEF IInv, PInv
<1>1. TxOK'
  BY DEF TxOK, ReviewsOf
<1>2. ReviewsMatchCursor'
  BY DEF ReviewsMatchCursor, Standing, ReviewsOf
<1>3. QED
  BY <1>1, <1>2

LEMMA FoldStepSession ==
    ASSUME IInv, StaleBatches = FALSE,
           \/ Boot \/ Crash \/ Attempt \/ StreamEnds \/ BatchFails
           \/ \E l \in 1..Len(log) : NextBatch(l)
           \/ \E f, l \in 1..Len(log) : RedeliveredBatch(f, l)
    PROVE  PInv'
<1> USE Numbers DEF IInv, PInv, PositionOK, InBatch, Standing, external, batch
<1>1. CASE Boot \/ Crash \/ StreamEnds \/ BatchFails
  <2>1. UNCHANGED <<log, db, origin>> /\ pc' \in {"down", "dead"}
    BY <1>1 DEF Boot, Crash, StreamEnds, BatchFails
  <2>2. QED
    BY <2>1, FoldFrame
<1>2. CASE Attempt
  <2>1. CASE Resumes
    <3>1. UNCHANGED <<log, db, origin>> /\ pos' = db.cursor /\ pc' = "idle"
      BY <1>2, <2>1 DEF Attempt
    <3>2. db.cursor = 0 => origin = 0
      BY <2>1 DEF Resumes
    <3>3. QED
      BY <3>1, <3>2, FoldFrame
  <2>2. CASE ~Resumes
    <3>1. /\ UNCHANGED <<log, db>> /\ pos' = Len(log) /\ origin' = Len(log)
          /\ pc' = "idle" /\ db.cursor = 0 /\ ~HasKey
      BY <1>2, <2>2 DEF Attempt, Resumes
    <3>2. \A k \in Key : ReviewsOf(db)[k] = NoReviews[k]
      <4>1. Folded(log, ReviewsOf(db), NoReviews, origin + 1, origin)
        BY <3>1 DEF ReviewsMatchCursor
      <4>2. origin + 1 \in Nat /\ origin \in Nat /\ origin < origin + 1
        OBVIOUS
      <4>3. QED
        BY ONLY <4>1, <4>2, FoldOfNothing
    <3>3. Folded(log, ReviewsOf(db), NoReviews, Len(log) + 1, Len(log))
      <4>1. Len(log) + 1 \in Nat /\ Len(log) \in Nat /\ Len(log) < Len(log) + 1
        OBVIOUS
      <4>2. QED
        BY ONLY <3>2, <4>1, FoldOfNothing
    <3>4. ReviewsMatchCursor'
      BY <3>1, <3>3 DEF ReviewsMatchCursor, ReviewsOf
    <3>5. QED
      BY <3>1, <3>4 DEF TxOK
  <2>3. QED
    BY <2>1, <2>2
<1>3. ASSUME NEW l \in 1..Len(log), NextBatch(l)
      PROVE  PInv'
  <2>1. /\ UNCHANGED <<log, db, origin>> /\ pc = "idle" /\ pc' = "accounts"
        /\ first' = pos + 1 /\ last' = l /\ at' = pos + 1 /\ l >= pos + 1
    BY <1>3 DEF NextBatch, TakeBatch
  <2>2. PositionOK'
    BY <2>1
  <2>3. QED
    BY <2>1, <2>2, FoldFrame
<1>4. ASSUME NEW f \in 1..Len(log), NEW l \in 1..Len(log), RedeliveredBatch(f, l)
      PROVE  PInv'
  <2>1. /\ UNCHANGED <<log, db, origin>> /\ pc = "idle" /\ pc' = "accounts"
        /\ first' = f /\ last' = l /\ at' = f /\ l >= f /\ l >= db.cursor
        /\ f >= origin + 1 /\ f <= pos
    BY <1>4 DEF RedeliveredBatch, TakeBatch
  <2>2. PositionOK'
    BY <2>1
  <2>3. QED
    BY <2>1, <2>2, FoldFrame
<1>5. QED
  BY <1>1, <1>2, <1>3, <1>4

LEMMA FoldStepResolve ==
    ASSUME IInv, ResolveNewAccounts \/ \E i \in Candidates : ResolveSubject(i)
    PROVE  PInv'
<1> USE Numbers DEF IInv, PInv, PositionOK, InBatch, Standing, external, batch
<1>1. CASE ResolveNewAccounts
  <2>1. /\ UNCHANGED <<log, db, origin, first, last>>
        /\ pc = "accounts" /\ pc' = "subjects" /\ at' = first
    BY <1>1 DEF ResolveNewAccounts
  <2>2. PositionOK'
    BY <2>1
  <2>3. QED
    BY <2>1, <2>2, FoldFrame
<1>2. ASSUME NEW i \in Candidates, ResolveSubject(i)
      PROVE  PInv'
  <2>1. /\ UNCHANGED <<log, db, origin, first, last, pc>>
        /\ pc = "subjects" /\ at' = i + 1 /\ i \in first..last
    BY <1>2 DEF ResolveSubject, Candidates
  <2>2. PositionOK'
    BY <2>1
  <2>3. QED
    BY <2>1, <2>2, FoldFrame
<1>3. QED
  BY <1>1, <1>2

(* A transaction begins on the committed reviews, with none of the batch   *)
(* folded in, and each event it applies extends the fold by itself.        *)
LEMMA FoldStepTx ==
    ASSUME IInv, BeginTx \/ ApplyEvent
    PROVE  PInv'
<1> USE DEF IInv, PInv
<1>1. /\ UNCHANGED <<log, db, origin, first, last>> /\ InBatch /\ pc' = "apply"
  BY DEF BeginTx, ApplyEvent, InBatch, external
<1>2. ReviewsMatchCursor'
  BY <1>1 DEF ReviewsMatchCursor, Standing, ReviewsOf
<1>3. PositionOK'
  BY <1>1, Numbers DEF PositionOK, InBatch, Standing, BeginTx, ApplyEvent
<1>4. CASE BeginTx
  <2>1. at' = first /\ tx' = UpsertSubjects(InsertAccounts(db, handles), lensed)
    BY <1>4 DEF BeginTx
  <2>2. InsertAccounts(db, handles) \in Tables
    BY InsertAccountsType DEF CInv, TInv, TypeOK
  <2>3. ReviewsOf(tx') = ReviewsOf(db)
    BY <2>1, <2>2, Numbers, OtherTablesKeepReviews
  <2>4. first \in Nat /\ first - 1 \in Nat /\ first - 1 < first
    BY <1>1, Numbers
  <2>5. Folded(log, ReviewsOf(tx'), ReviewsOf(db), first, first - 1)
    BY <2>3, <2>4, FoldOfNothing
  <2>6. TxOK'
    BY <1>1, <2>1, <2>5 DEF TxOK, ReviewsOf
  <2>7. QED
    BY <1>2, <1>3, <2>6
<1>5. CASE ApplyEvent
  <2>1. pc = "apply" /\ at <= last /\ at' = at + 1 /\ tx' = Apply(tx, log[at])
    BY <1>5 DEF ApplyEvent
  <2>2. /\ at - 1 \in Nat /\ at - 1 + 1 = at /\ first \in Nat /\ first <= at - 1 + 1
        /\ log[at] \in Event /\ tx \in Tables
    BY <1>1, <2>1, Numbers, BatchEvents DEF CInv, TInv
  <2>3. \A k \in Key : ReviewsOf(tx')[k] =
            IF k \in Touched(log[at - 1 + 1]) THEN Left(log[at - 1 + 1]) ELSE ReviewsOf(tx)[k]
    BY <2>1, <2>2, ApplyMeansLeft
  <2>4. Folded(log, ReviewsOf(tx), ReviewsOf(db), first, at - 1)
    BY <2>1 DEF TxOK
  <2>5. Folded(log, ReviewsOf(tx'), ReviewsOf(db), first, at - 1 + 1)
    BY ONLY <2>2, <2>3, <2>4, FoldExtends
  <2>6. at' - 1 = at - 1 + 1
    BY <2>1, Numbers
  <2>7. TxOK'
    BY <1>1, <2>5, <2>6 DEF TxOK, ReviewsOf
  <2>8. QED
    BY <1>2, <1>3, <2>7
<1>6. QED
  BY <1>4, <1>5

(* The batch is wholly folded in when it is committed, and it reaches the  *)
(* cursor: with what was committed before, it is the fold up to its end.   *)
LEMMA FoldStepCommit ==
    ASSUME IInv, CommitTx
    PROVE  PInv'
<1> USE DEF IInv, PInv
<1>1. /\ pc = "apply" /\ InBatch /\ at > last /\ UNCHANGED <<log, origin>>
      /\ db' = WriteCursor(tx, last) /\ pos' = last /\ pc' = "idle"
  BY DEF CommitTx, InBatch, external
<1>2. /\ origin < first /\ first <= Standing + 1 /\ db.cursor <= last /\ first <= last
      /\ at - 1 = last /\ last <= Len(log) /\ tx.cursor = db.cursor
  BY <1>1, Numbers DEF PositionOK, InBatch, CInv, Owned, TxCursorOK
<1>3. db'.cursor = last /\ Standing' = last
  BY <1>1, <1>2, Numbers DEF WriteCursor, Tables, Standing
<1>4. ReviewsOf(db') = ReviewsOf(tx)
  BY <1>1, Numbers DEF ReviewsOf, WriteCursor, Tables
<1>5. Folded(log, ReviewsOf(tx), NoReviews, origin + 1, last)
  <2>1. Folded(log, ReviewsOf(db), NoReviews, origin + 1, Standing)
    BY DEF ReviewsMatchCursor
  <2>2. Folded(log, ReviewsOf(tx), ReviewsOf(db), first, last)
    BY <1>1, <1>2 DEF TxOK
  <2>3. /\ origin + 1 \in Nat /\ Standing \in Nat /\ first \in Nat /\ last \in Nat
        /\ origin + 1 <= first /\ first <= Standing + 1 /\ Standing <= last
    BY <1>1, <1>2, Numbers DEF Standing
  <2>4. QED
    BY ONLY <2>1, <2>2, <2>3, FoldsCompose
<1>6. ReviewsMatchCursor'
  BY <1>1, <1>3, <1>4, <1>5 DEF ReviewsMatchCursor, ReviewsOf
<1>7. PositionOK'
  BY <1>1, <1>2, <1>3, Numbers DEF PositionOK, InBatch
<1>8. QED
  BY <1>1, <1>6, <1>7 DEF TxOK

LEMMA FoldStepBackfill ==
    ASSUME IInv, BackfillStep \/ BackfillQueryFails \/ BackfillFails
    PROVE  PInv'
<1> USE DEF IInv, PInv
<1>1. CASE BackfillCommitTx
  <2>1. UNCHANGED <<log, origin, pc, pos, first, last, at>> /\ pc # "apply"
    BY <1>1 DEF BackfillCommitTx, external, batch, CInv, TInv, Owned, TypeOK, ConnectionHasOwner
  <2>2. ReviewsOf(db') = ReviewsOf(db) /\ db'.cursor = db.cursor
    BY <1>1, Numbers, OtherTablesKeepReviews DEF BackfillCommitTx
  <2>3. ReviewsMatchCursor' /\ PositionOK'
    BY <2>1, <2>2 DEF ReviewsMatchCursor, PositionOK, Standing, InBatch, ReviewsOf
  <2>4. QED
    BY <2>1, <2>3 DEF TxOK
<1>2. CASE UNCHANGED <<log, db, origin, pc, pos, first, last, at, tx>>
  BY <1>2, FoldFrame DEF PositionOK, Standing, InBatch
<1>3. QED
  BY <1>1, <1>2
  DEF BackfillStep, BackfillQuery, BackfillLens, BackfillBeginTx, BackfillQueryFails,
      BackfillFails, BackfillDone, external, batch

LEMMA FoldStep ==
    ASSUME IInv, [Next]_vars, StaleBatches = FALSE
    PROVE  PInv'
<1>1. ASSUME NEW u \in URI, EditSubject(u)
      PROVE  PInv'
  BY <1>1, FoldFrame DEF IInv, PInv, EditSubject, PositionOK, Standing, InBatch, batch
<1>2. CASE UNCHANGED vars
  BY <1>2, FoldFrame DEF IInv, PInv, PositionOK, Standing, InBatch, vars, external, batch
<1>3. QED
  BY <1>1, <1>2, FoldStepWorld, FoldStepSession, FoldStepResolve, FoldStepTx, FoldStepCommit,
     FoldStepBackfill
  DEF Next, ApplyBatchStep, Waiting

LEMMA FoldInvariant ==
    ASSUME StaleBatches = FALSE
    PROVE  Spec => []IInv
<1>1. Init => PInv
  <2>1. Init => \A k \in Key : ReviewsOf(db)[k] = NoReviews[k]
    BY DEF Init, EmptyTables, ReviewsOf, NoReviews
  <2>2. Init => ReviewsMatchCursor
    BY <2>1, FoldOfNothing DEF Init, EmptyTables, ReviewsMatchCursor, Standing
  <2>3. Init => PositionOK /\ TxOK
    BY DEF Init, EmptyTables, PositionOK, TxOK, Standing, InBatch
  <2>4. QED
    BY <2>2, <2>3 DEF PInv
<1>2. CInv /\ PInv /\ [Next]_vars => PInv'
  BY FoldStep DEF IInv
<1>3. CInv /\ PInv <=> IInv
  BY DEF IInv
<1>4. QED
  BY <1>1, <1>2, <1>3, OwnerInvariant, PTL DEF Spec

(* As long as no redelivered batch ends before the cursor, the committed   *)
(* reviews are at every moment the fold of the log up to the cursor, for   *)
(* any events, batches, failures and crashes (ingest.go 76-113).           *)
THEOREM ReviewsFollowCursor ==
    ASSUME StaleBatches = FALSE
    PROVE  Spec => []ReviewsMatchCursor
<1>1. IInv => ReviewsMatchCursor
  BY DEF IInv, PInv
<1>2. QED
  BY <1>1, FoldInvariant, PTL
-----------------------------------------------------------------------------
(* Ingest implements ReviewFeed. *)

(* The fold is one: tables that are it at the same point agree.            *)
LEMMA FoldIsUnique ==
    ASSUME NEW l, NEW r, NEW r2, NEW base, NEW lo \in Nat, NEW hi \in Nat,
           Folded(l, r, base, lo, hi), Folded(l, r2, base, lo, hi)
    PROVE  \A k \in Key : r[k] = r2[k]
<1> TAKE k \in Key
<1>1. CASE \A i \in lo..hi : k \notin Touched(l[i])
  BY <1>1 DEF Folded
<1>2. CASE \E i \in lo..hi : k \in Touched(l[i])
  <2>1. PICK i \in lo..hi : /\ k \in Touched(l[i])
                            /\ \A m \in (i + 1)..hi : k \notin Touched(l[m])
                            /\ r[k] = Left(l[i])
    BY <1>2 DEF Folded
  <2>2. PICK j \in lo..hi : /\ k \in Touched(l[j])
                            /\ \A m \in (j + 1)..hi : k \notin Touched(l[m])
                            /\ r2[k] = Left(l[j])
    BY <1>2 DEF Folded
  <2>3. ~(i < j) /\ ~(j < i)
    BY <2>1, <2>2
  <2>. QED BY <2>1, <2>2, <2>3
<1>. QED BY <1>1, <1>2

(* Both modules fold the same way. *)
LEMMA FeedFolds ==
    ASSUME NEW l, NEW r, NEW base, NEW lo, NEW hi
    PROVE  Feed!Folded(l, r, base, lo, hi) <=> Folded(l, r, base, lo, hi)
BY DEF Feed!Folded, Folded, Feed!Touched, Touched, Feed!Left, Left, Feed!ReposReviews, ReposReviews,
       Feed!TagRows, TagRows, Feed!NoTags, NoTags, Feed!Key, Key

LEMMA FeedStarts == Init => Feed!FeedInit
<1> SUFFICES ASSUME Init PROVE Feed!FeedInit
  OBVIOUS
<1>1. ReviewsOf(db) = NoReviews
  BY DEF Init, EmptyTables, ReviewsOf, NoReviews
<1>2. Feed!NoReviews = NoReviews
  BY DEF Feed!NoReviews, NoReviews, Feed!Key, Key, Feed!NoTags, NoTags
<1>. QED BY <1>1, <1>2 DEF Feed!FeedInit, Init, EmptyTables, Standing

(* What a reader sees of a step: more published, a session at the tip, a   *)
(* batch that reaches past the cursor, or nothing.                         *)
LEMMA FeedStep ==
    ASSUME IInv, [Next]_vars, StaleBatches = FALSE
    PROVE  [Feed!FeedNext]_(Feed!feedVars)
<1> USE Numbers DEF IInv, PInv
<1>1. ASSUME UNCHANGED <<log, origin>>, ReviewsOf(db)' = ReviewsOf(db), db'.cursor = db.cursor
      PROVE  UNCHANGED Feed!feedVars
  BY <1>1 DEF Feed!feedVars, Standing
<1>2. ASSUME UNCHANGED <<log, origin, db>>
      PROVE  UNCHANGED Feed!feedVars
  BY <1>1, <1>2 DEF ReviewsOf
<1>3. ASSUME NEW e \in Published, Publish(e)
      PROVE  Feed!PublishMore
  <2>1. log' = Append(log, e) /\ UNCHANGED <<db, origin>>
    BY <1>3 DEF Publish
  <2>. QED BY <2>1 DEF Feed!PublishMore, Standing, ReviewsOf
<1>4. CASE Attempt
  <2>1. CASE Resumes
    BY <1>2, <1>4, <2>1 DEF Attempt, external
  <2>2. CASE ~Resumes
    <3>1. db.cursor = 0 /\ origin' = Len(log) /\ UNCHANGED <<log, record, db>>
      BY <1>4, <2>2 DEF Attempt, Resumes, external
    <3>2. Standing = origin /\ Standing' = Len(log)
      BY <3>1 DEF Standing
    <3>. QED BY <3>1, <3>2 DEF Feed!FeedNext, Feed!StartAtTip, ReviewsOf
  <2>. QED BY <2>1, <2>2
<1>5. CASE CommitTx
  <2>1. /\ pc = "apply" /\ InBatch /\ UNCHANGED <<log, origin>> /\ db' = WriteCursor(tx, last)
    BY <1>5 DEF CommitTx, InBatch, external
  <2>2. /\ origin < first /\ first <= Standing + 1 /\ db.cursor <= last /\ first <= last
        /\ last <= Len(log) /\ tx.cursor = db.cursor
    BY <2>1 DEF PositionOK, InBatch, CInv, Owned, TxCursorOK
  <2>3. db'.cursor = last /\ Standing' = last /\ Standing <= last
    BY <2>1, <2>2 DEF WriteCursor, Tables, Standing
  <2>4. Folded(log, ReviewsOf(db)', NoReviews, origin + 1, last)
    BY <1>5, <2>1, <2>3, FoldStepCommit DEF ReviewsMatchCursor, NoReviews
  <2>5. CASE Standing < last
    <3>1. Feed!NoReviews = NoReviews
      BY DEF Feed!NoReviews, NoReviews, Feed!Key, Key, Feed!NoTags, NoTags
    <3>2. Feed!Folded(log, ReviewsOf(db)', Feed!NoReviews, origin + 1, Standing')
      BY <2>3, <2>4, <3>1, FeedFolds
    <3>3. Standing' \in (Standing + 1)..Len(log)
      BY <2>2, <2>3, <2>5
    <3>. QED BY <2>1, <3>2, <3>3 DEF Feed!FeedNext, Feed!Advance
  <2>6. CASE Standing = last
    <3>1. Folded(log, ReviewsOf(db), NoReviews, origin + 1, last)
      BY <2>6 DEF ReviewsMatchCursor
    <3>2. \A k \in Key : ReviewsOf(db)'[k] = ReviewsOf(db)[k]
      <4>1. origin + 1 \in Nat /\ last \in Nat
        OBVIOUS
      <4>. QED BY ONLY <2>4, <3>1, <4>1, FoldIsUnique
    <3>3. ReviewsOf(db)' = ReviewsOf(db)
      BY <3>2 DEF ReviewsOf
    <3>. QED BY <2>1, <2>3, <2>6, <3>3 DEF Feed!feedVars
  <2>. QED BY <2>2, <2>3, <2>5, <2>6
<1>6. CASE BackfillCommitTx
  <2>1. ReviewsOf(db') = ReviewsOf(db) /\ db'.cursor = db.cursor /\ UNCHANGED <<log, origin>>
    BY <1>6, OtherTablesKeepReviews DEF BackfillCommitTx, external
  <2>2. ReviewsOf(db)' = ReviewsOf(db')
    BY DEF ReviewsOf
  <2>. QED BY <1>1, <2>1, <2>2
<1>7. CASE UNCHANGED <<log, origin, db>>
  BY <1>2, <1>7
<1>. QED
  BY <1>3, <1>4, <1>5, <1>6, <1>7
  DEF Feed!FeedNext, Next, vars, external, batch, EditSubject, Boot, Crash, StreamEnds, NextBatch,
      RedeliveredBatch, TakeBatch, ApplyBatchStep, ResolveNewAccounts, ResolveSubject, BeginTx,
      ApplyEvent, BatchFails, BackfillStep, BackfillQuery, BackfillLens, BackfillBeginTx,
      BackfillQueryFails, BackfillFails, BackfillDone, Waiting

(* The ingester is a ReviewFeed to its readers: whatever fails, dies or is *)
(* delivered again, they are taken from one whole prefix of the log to a   *)
(* longer one, or see nothing change (ingest.go 76-113, main.go 62-90).    *)
THEOREM IngestIsAFeed ==
    ASSUME StaleBatches = FALSE
    PROVE  Spec => ImplementsFeed
<1>1. IInv /\ [Next]_vars => [Feed!FeedNext]_(Feed!feedVars)
  BY FeedStep
<1>. QED BY <1>1, FeedStarts, FoldInvariant, PTL DEF Spec, ImplementsFeed, Feed!FeedSpec
=============================================================================
