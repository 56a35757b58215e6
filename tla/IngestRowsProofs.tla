-------------------------- MODULE IngestRowsProofs -------------------------
(***************************************************************************)
(* What the rows of isnot.db owe each other, for every instance of Ingest: *)
(* reviews and their tags and accounts, accounts and what was claimed for  *)
(* them, reviews and the rows of their subjects, and those rows' versions. *)
(***************************************************************************)
EXTENDS IngestProofs, WellFoundedInduction

-----------------------------------------------------------------------------
(* What the rows of one review and of its account owe each other. *)

(* The tables, committed or in a transaction, agree about every review.    *)
RowsAgree(t) ==
    \A k \in Key : /\ t.reviews[k] # None => t.accounts[k[1]] # None
                   /\ (t.reviews[k] = None) <=> (t.tags[k] = NoTags)

(* The batch's posters have a row, or were looked up for one; in the       *)
(* transaction they have it.                                               *)
PostersKnown ==
    /\ pc = "subjects" => \A d \in Posters : db.accounts[d] # None \/ d \in DOMAIN handles
    /\ pc = "apply" => \A d \in Posters : tx.accounts[d] # None

RowsInv == RowsAgree(db) /\ (pc = "apply" => RowsAgree(tx)) /\ PostersKnown

LEMMA TagRowsRemain ==
    ASSUME NEW tags \in Seq(Tag), tags # <<>>
    PROVE  TagRows(tags) # NoTags
<1>1. Len(tags) \in 1..Len(tags) /\ \A j \in (Len(tags) + 1)..Len(tags) : FALSE
  OBVIOUS
<1>2. tags[Len(tags)] \in TagRows(tags)
  BY <1>1 DEF TagRows
<1>. QED BY <1>2 DEF NoTags

LEMMA NamesAreNotNone == None \notin Handle \cup {Empty}
BY SentinelAssumption

LEMMA ReviewsAreNotNone ==
    ASSUME NEW r \in Review
    PROVE  r # None
BY SentinelAssumption

(* Every statement of apply keeps the rows agreeing, if the account of a   *)
(* review it stores has one, and no account loses its row.                 *)
LEMMA ApplyKeepsRows ==
    ASSUME NEW t \in Tables, NEW e \in Published, RowsAgree(t),
           e.kind = "put" => t.accounts[e.did] # None
    PROVE  /\ RowsAgree(Apply(t, e))
           /\ \A d \in DID : t.accounts[d] # None => Apply(t, e).accounts[d] # None
<1> DEFINE s == Apply(t, e)
<1>1. e \in Event BY PublishedAssumption
<1>2. /\ \A k \in Key : k[1] \in DID
      /\ DOMAIN t.reviews = Key /\ DOMAIN t.tags = Key /\ DOMAIN t.accounts = DID
  BY DEF Key, Tables
<1>3. ASSUME NEW gone, s = DeleteReviews(t, gone)
      PROVE  RowsAgree(s) /\ s.accounts = t.accounts
  BY <1>2, <1>3 DEF DeleteReviews, RowsAgree, Tables
<1>4. CASE e.kind = "put" /\ e.verdict = "valid"
  <2>1. e.review \in Review /\ e.tags \in Seq(Tag) /\ e.tags # <<>> /\ <<e.did, e.rkey>> \in Key
    BY <1>1, <1>4, TagsAssumption DEF Event, Key
  <2>2. /\ s.reviews = [t.reviews EXCEPT ![<<e.did, e.rkey>>] = e.review]
        /\ s.tags = [t.tags EXCEPT ![<<e.did, e.rkey>>] = TagRows(e.tags)]
        /\ s.accounts = t.accounts
    BY <1>4 DEF Apply, ApplyCommit, UpsertReview, Tables
  <2>3. e.review # None /\ TagRows(e.tags) # NoTags
    BY <2>1, TagRowsRemain, ReviewsAreNotNone
  <2>4. <<e.did, e.rkey>>[1] = e.did /\ t.accounts[e.did] # None
    BY <1>4
  <2>. QED BY <1>2, <2>1, <2>2, <2>3, <2>4 DEF RowsAgree
<1>5. CASE e.kind \in {"put", "delete"} /\ ~(e.kind = "put" /\ e.verdict = "valid")
  BY <1>3, <1>5 DEF Apply, ApplyCommit
<1>6. CASE e.kind \in {"account", "sync"}
  BY <1>3, <1>6 DEF Apply
<1>7. CASE e.kind = "identity"
  <2>1. e.did \in DID /\ (e.claim.given # "none" => HandleOf(e.claim) \in Handle \cup {Empty})
    BY <1>1, <1>7 DEF Event, HandleClaim, HandleOf
  <2>2. s.reviews = t.reviews /\ s.tags = t.tags
    BY <1>7 DEF Apply, ApplyIdentity, Tables
  <2>3. s = ApplyIdentity(t, e)
    BY <1>7 DEF Apply
  <2>4. CASE e.claim.given = "none"
    BY <2>3, <2>4 DEF ApplyIdentity
  <2>5. CASE e.claim.given # "none"
    <3>1. s.accounts = [t.accounts EXCEPT ![e.did] = HandleOf(e.claim)]
      BY <2>3, <2>5 DEF ApplyIdentity, Tables
    <3>2. HandleOf(e.claim) # None
      BY <2>1, <2>5, NamesAreNotNone
    <3>3. \A d \in DID : t.accounts[d] # None => s.accounts[d] # None
      BY <1>2, <3>1, <3>2
    <3>. QED BY <1>2, <2>2, <3>3 DEF RowsAgree
  <2>. QED BY <2>4, <2>5
<1>8. CASE e.kind = "otherCollection"
  BY <1>8 DEF Apply
<1>. QED BY <1>1, <1>4, <1>5, <1>6, <1>7, <1>8 DEF Event

(* The statements before the events: no account loses its row, those       *)
(* looked up gain one, and reviews stay.                                   *)
LEMMA BegunKeepsRows ==
    ASSUME TypeOK, RowsAgree(db), NEW t, t = UpsertSubjects(InsertAccounts(db, handles), lensed)
    PROVE  /\ RowsAgree(t)
           /\ \A d \in DID : db.accounts[d] # None \/ d \in DOMAIN handles => t.accounts[d] # None
<1>1. \A d \in DOMAIN handles : handles[d] # None
  BY NamesAreNotNone DEF TypeOK
<1>2. db \in Tables BY DEF TypeOK
<1>3. /\ t.reviews = db.reviews /\ t.tags = db.tags
      /\ t.accounts = [d \in DID |-> IF db.accounts[d] = None /\ d \in DOMAIN handles
                                     THEN handles[d] ELSE db.accounts[d]]
  BY <1>2 DEF UpsertSubjects, InsertAccounts, Tables
<1>. QED BY <1>1, <1>3 DEF RowsAgree, Key

LEMMA RowsStep ==
    ASSUME CInv, RowsInv, [Next]_vars
    PROVE  RowsInv'
<1> USE DEF RowsInv, external, batch
<1>1. db \in Tables /\ tx \in Tables /\ TypeOK BY Numbers DEF CInv, TInv
<1>2. ASSUME UNCHANGED <<db, tx, pc, log, first, last, handles>>
      PROVE  RowsInv'
  BY <1>2 DEF RowsAgree, PostersKnown, Posters
<1>3. ASSUME UNCHANGED db, pc' \notin {"subjects", "apply"}
      PROVE  RowsInv'
  BY <1>3 DEF RowsAgree, PostersKnown
<1>4. ASSUME NEW e \in Published, Publish(e)
      PROVE  RowsInv'
  <2>1. InBatch => Posters' = Posters
    <3>1. log' = Append(log, e) /\ log \in Seq(Published) /\ UNCHANGED <<first, last>>
      BY <1>4 DEF Publish, CInv, TInv, TypeOK
    <3>2. ASSUME InBatch PROVE \A i \in first..last : i \in 1..Len(log) /\ log'[i] = log[i]
      BY <3>1, <3>2, Numbers
    <3>. QED BY <3>1, <3>2 DEF Posters
  <2>2. UNCHANGED <<db, tx, pc, handles>> BY <1>4 DEF Publish
  <2>. QED BY <2>1, <2>2 DEF RowsAgree, PostersKnown, InBatch
<1>5. CASE ResolveNewAccounts
  <2>1. /\ UNCHANGED <<db, log, first, last>> /\ pc' = "subjects"
        /\ DOMAIN handles' = NewAccounts
    BY <1>5 DEF ResolveNewAccounts, Resolutions
  <2>. QED BY <2>1 DEF RowsAgree, PostersKnown, NewAccounts, Posters
<1>6. CASE BeginTx
  <2>1. /\ UNCHANGED <<db, log, first, last>> /\ pc = "subjects" /\ pc' = "apply"
        /\ tx' = UpsertSubjects(InsertAccounts(db, handles), lensed)
    BY <1>6 DEF BeginTx
  <2>2. /\ RowsAgree(tx')
        /\ \A d \in DID : db.accounts[d] # None \/ d \in DOMAIN handles => tx'.accounts[d] # None
    BY <1>1, <2>1, BegunKeepsRows
  <2>3. Posters \subseteq DID /\ Posters' = Posters
    BY <2>1, BatchEvents DEF Posters, Event, CInv, TInv, InBatch
  <2>. QED BY <2>1, <2>2, <2>3 DEF RowsAgree, PostersKnown
<1>7. CASE ApplyEvent
  <2>1. /\ UNCHANGED <<db, log, first, last>> /\ pc = "apply" /\ pc' = "apply"
        /\ tx' = Apply(tx, log[at]) /\ at <= last
    BY <1>7 DEF ApplyEvent
  <2>2. at \in first..last /\ log \in Seq(Published) /\ at \in 1..Len(log)
    BY <2>1, Numbers DEF InBatch, CInv, TInv, TypeOK
  <2>3. log[at] \in Published /\ (log[at].kind = "put" => log[at].did \in Posters)
    BY <2>2 DEF Posters
  <2>4. /\ RowsAgree(tx')
        /\ \A d \in DID : tx.accounts[d] # None => tx'.accounts[d] # None
    BY <1>1, <2>1, <2>3, ApplyKeepsRows DEF PostersKnown
  <2>5. Posters \subseteq DID /\ Posters' = Posters
    BY <2>1, BatchEvents DEF Posters, Event, CInv, TInv, InBatch
  <2>. QED BY <2>1, <2>4, <2>5 DEF RowsAgree, PostersKnown
<1>8. CASE CommitTx
  <2>1. pc = "apply" /\ pc' = "idle" /\ db' = WriteCursor(tx, last) BY <1>8 DEF CommitTx
  <2>2. db'.reviews = tx.reviews /\ db'.tags = tx.tags /\ db'.accounts = tx.accounts
    BY <1>1, <2>1 DEF WriteCursor, Tables
  <2>. QED BY <2>1, <2>2 DEF RowsAgree, PostersKnown
<1>9. CASE BackfillCommitTx
  <2>1. UNCHANGED <<log, pc, first, last, handles>> /\ pc # "apply"
    BY <1>9 DEF BackfillCommitTx, CInv, Owned, TypeOK, ConnectionHasOwner
  <2>2. db'.reviews = db.reviews /\ db'.tags = db.tags /\ db'.accounts = db.accounts
    BY <1>1, <1>9 DEF BackfillCommitTx, UpsertSubjects, Tables
  <2>. QED BY <2>1, <2>2 DEF RowsAgree, PostersKnown, Posters
<1>10. CASE Boot \/ Crash \/ Attempt \/ StreamEnds \/ BatchFails
  BY <1>3, <1>10 DEF Boot, Crash, Attempt, StreamEnds, BatchFails
<1>11. ASSUME NEW f, NEW l, TakeBatch(f, l)
       PROVE  RowsInv'
  BY <1>3, <1>11 DEF TakeBatch
<1>12. CASE \/ \E u \in URI : EditSubject(u)
            \/ \E i \in Candidates : ResolveSubject(i)
            \/ BackfillQuery \/ BackfillBeginTx \/ BackfillFails \/ BackfillDone \/ BackfillQueryFails
            \/ \E u \in backfill.todo : BackfillLens(u)
  BY <1>2, <1>12 DEF EditSubject, ResolveSubject, BackfillQuery, BackfillBeginTx, BackfillFails,
     BackfillDone, BackfillQueryFails, BackfillLens
<1>13. CASE UNCHANGED vars
  BY <1>2, <1>13 DEF vars
<1>. QED
  BY <1>4, <1>5, <1>6, <1>7, <1>8, <1>9, <1>10, <1>11, <1>12, <1>13
  DEF Next, ApplyBatchStep, BackfillStep, Waiting, NextBatch, RedeliveredBatch

LEMMA RowsInvariant == Spec => []RowsInv
<1>1. Init => RowsInv
  BY DEF Init, EmptyTables, RowsInv, RowsAgree, PostersKnown
<1>2. CInv /\ RowsInv /\ [Next]_vars => RowsInv' BY RowsStep
<1>. QED BY <1>1, <1>2, OwnerInvariant, PTL DEF Spec

(* The account of every stored review has a row: whoever posts in a batch  *)
(* is looked up, and a failed look-up stores the empty handle; accounts    *)
(* are never deleted (ingest.go 92-96, 115-150).                           *)
THEOREM AccountsFollowReviews == Spec => []ReviewersHaveAccounts
<1>1. RowsInv => ReviewersHaveAccounts BY DEF RowsInv, RowsAgree, ReviewersHaveAccounts
<1>. QED BY <1>1, RowsInvariant, PTL

(* A stored review has tags and a deleted one none, in whatever order      *)
(* events and stale batches are folded in, as long as the lexicon lets no  *)
(* review without tags through (TagsAssumption; ingest.go 328-397).        *)
THEOREM TagsFollowReviews == Spec => []TagsBelongToReviews
<1>1. RowsInv => TagsBelongToReviews BY DEF RowsInv, RowsAgree, TagsBelongToReviews
<1>. QED BY <1>1, RowsInvariant, PTL

-----------------------------------------------------------------------------
(* The handles of accounts. *)

(* The events of l that say which handle d has. *)
Claims(l, d) ==
    {i \in 1..Len(l) : l[i].kind = "identity" /\ l[i].did = d /\ l[i].claim.given # "none"}

NoClaim(l, d, lo, hi) == \A i \in lo..hi : i \notin Claims(l, d)

(* h is what the last claim of d in l[lo..hi] gave.                        *)
LastClaimed(l, h, d, lo, hi) ==
    \E i \in lo..hi : i \in Claims(l, d) /\ NoClaim(l, d, i + 1, hi) /\ h = HandleOf(l[i].claim)

(* What a look-up may have stored: a later claim corrects it, if there is  *)
(* one anywhere.                                                           *)
Provisional(l, h, d) == Claims(l, d) = {} => h \in {None, Empty, FirstHandle}

StoredHandle(d) ==
    \/ NoClaim(log, d, 1, Standing) /\ Provisional(log, db.accounts[d], d)
    \/ LastClaimed(log, db.accounts[d], d, 1, Standing)

(* In a transaction: the batch's own last claim, or what was there or has  *)
(* just been looked up.                                                    *)
OpenHandle(d) ==
    \/ /\ NoClaim(log, d, first, at - 1)
       /\ \/ tx.accounts[d] = db.accounts[d]
          \/ db.accounts[d] = None /\ Provisional(log, tx.accounts[d], d)
    \/ LastClaimed(log, tx.accounts[d], d, first, at - 1)

HandlesInv ==
    /\ \A d \in DID : StoredHandle(d)
    /\ pc = "subjects" => \A d \in DOMAIN handles : d \in DID /\ Provisional(log, handles[d], d)
    /\ pc = "apply" => \A d \in DID : OpenHandle(d)

(* Nothing but publication changes what is claimed.                        *)
LEMMA HandlesFrame ==
    ASSUME HandlesInv, UNCHANGED <<log, origin>>, db'.accounts = db.accounts, db'.cursor = db.cursor,
           \/ pc' \notin {"subjects", "apply"}
           \/ pc' = "subjects" /\ UNCHANGED <<pc, handles>>
           \/ pc' = "apply" /\ UNCHANGED <<pc, first, at, tx>>
    PROVE  HandlesInv'
<1>1. Standing' = Standing
  BY DEF Standing
<1>2. \A d \in DID : StoredHandle(d)'
  BY <1>1 DEF HandlesInv, StoredHandle, NoClaim, LastClaimed, Provisional, Claims
<1>3. pc' = "subjects" => \A d \in DOMAIN handles' : d \in DID /\ Provisional(log', handles'[d], d)
  BY DEF HandlesInv
<1>4. pc' = "apply" => \A d \in DID : OpenHandle(d)'
  BY DEF HandlesInv, OpenHandle, NoClaim, LastClaimed, Provisional, Claims
<1>. QED BY <1>2, <1>3, <1>4 DEF HandlesInv

(* Publishing more changes nothing about what was claimed before.          *)
LEMMA ClaimsStay ==
    ASSUME NEW l \in Seq(Published), NEW e \in Published, NEW d, NEW h,
           NEW lo \in Nat, NEW hi \in Int, 1 <= lo, hi <= Len(l)
    PROVE  /\ NoClaim(l, d, lo, hi) => NoClaim(Append(l, e), d, lo, hi)
           /\ LastClaimed(l, h, d, lo, hi) => LastClaimed(Append(l, e), h, d, lo, hi)
           /\ Provisional(l, h, d) => Provisional(Append(l, e), h, d)
<1> DEFINE m == Append(l, e)
<1>1. Len(m) = Len(l) + 1 /\ \A i \in 1..Len(l) : m[i] = l[i]
  OBVIOUS
<1>2. \A i \in 1..Len(l) : i \in Claims(m, d) <=> i \in Claims(l, d)
  BY <1>1 DEF Claims
<1>3. Claims(l, d) \subseteq Claims(m, d)
  BY <1>2 DEF Claims
<1>4. ASSUME NEW from \in Int, 1 <= from, NoClaim(l, d, from, hi)
      PROVE  NoClaim(m, d, from, hi)
  BY <1>2, <1>4 DEF NoClaim
<1>5. ASSUME LastClaimed(l, h, d, lo, hi)
      PROVE  LastClaimed(m, h, d, lo, hi)
  <2>1. PICK i \in lo..hi : i \in Claims(l, d) /\ NoClaim(l, d, i + 1, hi) /\ h = HandleOf(l[i].claim)
    BY <1>5 DEF LastClaimed
  <2>2. NoClaim(m, d, i + 1, hi) /\ i \in Claims(m, d) /\ m[i] = l[i]
    BY <1>1, <1>2, <1>4, <2>1
  <2>. QED BY <2>1, <2>2 DEF LastClaimed
<1>. QED BY <1>3, <1>4, <1>5 DEF Provisional

LEMMA HandlesPublish ==
    ASSUME IInv, HandlesInv, NEW e \in Published, Publish(e)
    PROVE  HandlesInv'
<1> USE Numbers DEF IInv, PInv
<1>1. /\ log' = Append(log, e) /\ log \in Seq(Published)
      /\ UNCHANGED <<db, origin, pc, first, last, at, handles, tx>>
  BY DEF Publish, batch, CInv, TInv, TypeOK
<1>2. Standing' = Standing /\ Standing <= Len(log)
  BY <1>1 DEF Standing, PositionOK
<1>3. \A d \in DID : StoredHandle(d)'
  <2> TAKE d \in DID
  <2>1. 1 \in Nat /\ 1 <= 1 /\ Standing \in Int /\ Standing <= Len(log)
    BY <1>2
  <2>. QED BY <1>1, <1>2, <2>1, ClaimsStay DEF HandlesInv, StoredHandle
<1>4. ASSUME pc = "apply"
      PROVE  \A d \in DID : OpenHandle(d)'
  <2>1. first \in Nat /\ 1 <= first /\ at - 1 \in Int /\ at - 1 <= Len(log)
    BY <1>4 DEF PositionOK, InBatch
  <2>. QED BY <1>1, <1>4, <2>1, ClaimsStay DEF HandlesInv, OpenHandle
<1>5. \A h, d : Provisional(log, h, d) => Provisional(log', h, d)
  <2>1. Standing + 1 \in Nat /\ 1 <= Standing + 1 /\ Standing <= Len(log) /\ Standing \in Int
    BY <1>2
  <2>. QED BY <1>1, <2>1, ClaimsStay
<1>. QED BY <1>1, <1>3, <1>4, <1>5 DEF HandlesInv

(* An event moves the account it claims for and no other.                  *)
LEMMA HandlesApply ==
    ASSUME IInv, HandlesInv, ApplyEvent
    PROVE  HandlesInv'
<1> USE Numbers DEF IInv, PInv
<1>1. /\ pc = "apply" /\ pc' = "apply" /\ at <= last /\ at' = at + 1 /\ tx' = Apply(tx, log[at])
      /\ UNCHANGED <<log, db, origin, first>>
  BY DEF ApplyEvent, external
<1>2. at \in 1..Len(log) /\ first <= at /\ log[at] \in Event /\ tx \in Tables
  BY <1>1, BatchEvents DEF InBatch, CInv, TInv
<1>3. /\ at' - 1 = at /\ at \in Nat /\ first \in Nat
      /\ \A d : Claims(log, d)' = Claims(log, d)
  BY <1>1 DEF Claims
<1>4. ASSUME NEW d \in DID, at \in Claims(log, d)
      PROVE  OpenHandle(d)'
  <2>1. log[at].kind = "identity" /\ log[at].did = d /\ log[at].claim.given # "none"
    BY <1>4 DEF Claims
  <2>2. tx' = [tx EXCEPT !.accounts = [tx.accounts EXCEPT ![d] = HandleOf(log[at].claim)]]
    BY <1>1, <2>1 DEF Apply, ApplyIdentity
  <2>3. tx'.accounts[d] = HandleOf(log[at].claim)
    BY <1>2, <2>2 DEF Tables
  <2>4. LastClaimed(log, tx.accounts[d], d, first, at - 1)'
    BY <1>1, <1>2, <1>3, <1>4, <2>3 DEF LastClaimed, NoClaim
  <2>. QED BY <2>4 DEF OpenHandle
<1>5. ASSUME NEW d \in DID, at \notin Claims(log, d)
      PROVE  OpenHandle(d)'
  <2>1. tx'.accounts[d] = tx.accounts[d]
    <3>1. CASE log[at].kind = "identity"
      <4>1. tx' = ApplyIdentity(tx, log[at])
        BY <1>1, <3>1 DEF Apply
      <4>2. log[at].did # d \/ log[at].claim.given = "none"
        BY <1>2, <1>5, <3>1 DEF Claims
      <4>. QED BY <1>2, <4>1, <4>2 DEF ApplyIdentity, Tables
    <3>2. CASE log[at].kind # "identity"
      BY <1>1, <1>2, <3>2 DEF Apply, ApplyCommit, UpsertReview, DeleteReviews, Tables
    <3>. QED BY <3>1, <3>2
  <2>2. OpenHandle(d)
    BY <1>1 DEF HandlesInv
  <2>3. CASE NoClaim(log, d, first, at - 1) /\ ~LastClaimed(log, tx.accounts[d], d, first, at - 1)
    <3>1. \A i \in first..at : i \notin Claims(log, d)
      BY <1>2, <1>3, <1>5, <2>3 DEF NoClaim
    <3>. QED BY <1>1, <1>3, <2>1, <2>2, <2>3, <3>1 DEF OpenHandle, NoClaim, Provisional
  <2>4. CASE LastClaimed(log, tx.accounts[d], d, first, at - 1)
    <3>1. PICK i \in first..(at - 1) :
              i \in Claims(log, d) /\ NoClaim(log, d, i + 1, at - 1) /\ tx.accounts[d] = HandleOf(log[i].claim)
      BY <2>4 DEF LastClaimed
    <3>2. i \in first..at /\ \A j \in (i + 1)..at : j \notin Claims(log, d)
      BY <1>3, <1>5, <3>1 DEF NoClaim
    <3>3. LastClaimed(log, tx.accounts[d], d, first, at - 1)'
      BY <1>1, <1>3, <2>1, <3>1, <3>2 DEF LastClaimed, NoClaim
    <3>. QED BY <3>3 DEF OpenHandle
  <2>. QED BY <2>2, <2>3, <2>4 DEF OpenHandle
<1>6. \A d \in DID : StoredHandle(d)'
  BY <1>1, <1>3 DEF HandlesInv, StoredHandle, NoClaim, LastClaimed, Provisional, Standing
<1>. QED BY <1>1, <1>4, <1>5, <1>6 DEF HandlesInv

(* A commit: the batch reaches the cursor, so its last claim is the last   *)
(* up to its end, and without one what stood stands.                       *)
LEMMA HandlesCommit ==
    ASSUME IInv, HandlesInv, HasKey, CommitTx
    PROVE  HandlesInv'
<1> USE Numbers DEF IInv, PInv
<1>1. /\ pc = "apply" /\ InBatch /\ at > last /\ UNCHANGED <<log, origin>>
      /\ db' = WriteCursor(tx, last) /\ pc' = "idle"
  BY DEF CommitTx, InBatch, external
<1>2. /\ origin = 0 /\ 1 <= first /\ first <= Standing + 1 /\ Standing <= last /\ at - 1 = last
      /\ first <= last /\ db.cursor <= last /\ tx.cursor = db.cursor
  BY <1>1 DEF PositionOK, InBatch, CInv, Owned, TxCursorOK, Standing
<1>3. /\ Standing' = last /\ db'.accounts = tx.accounts
      /\ \A d : Claims(log, d)' = Claims(log, d)
  BY <1>1, <1>2 DEF WriteCursor, Tables, Standing, Claims
<1>4. ASSUME NEW d \in DID
      PROVE  \/ NoClaim(log, d, 1, last) /\ Provisional(log, tx.accounts[d], d)
             \/ LastClaimed(log, tx.accounts[d], d, 1, last)
  <2>1. OpenHandle(d) /\ StoredHandle(d)
    BY <1>1 DEF HandlesInv
  <2>2. CASE LastClaimed(log, tx.accounts[d], d, first, last)
    BY <1>2, <2>2 DEF LastClaimed
  <2>3. CASE /\ NoClaim(log, d, first, last)
             /\ \/ tx.accounts[d] = db.accounts[d]
                \/ db.accounts[d] = None /\ Provisional(log, tx.accounts[d], d)
    <3>1. CASE NoClaim(log, d, 1, Standing) /\ Provisional(log, db.accounts[d], d)
      BY <1>2, <2>3, <3>1 DEF NoClaim, Provisional
    <3>2. CASE LastClaimed(log, db.accounts[d], d, 1, Standing)
      <4>1. PICK i \in 1..Standing :
                i \in Claims(log, d) /\ NoClaim(log, d, i + 1, Standing) /\ db.accounts[d] = HandleOf(log[i].claim)
        BY <3>2 DEF LastClaimed
      <4>2. log[i] \in Event /\ log[i].kind = "identity" /\ log[i].claim.given # "none"
        BY <4>1, LogType DEF Claims, CInv, TInv, TypeOK
      <4>3. db.accounts[d] # None
        BY <4>1, <4>2, NamesAreNotNone DEF Event, HandleClaim, HandleOf
      <4>4. i \in 1..last /\ NoClaim(log, d, i + 1, last)
        BY <1>2, <2>3, <4>1 DEF NoClaim
      <4>. QED BY <2>3, <4>1, <4>3, <4>4 DEF LastClaimed
    <3>. QED BY <2>1, <3>1, <3>2 DEF StoredHandle
  <2>. QED BY <1>2, <2>1, <2>2, <2>3 DEF OpenHandle
<1>5. \A d \in DID : StoredHandle(d)'
  BY <1>1, <1>3, <1>4 DEF StoredHandle, NoClaim, LastClaimed, Provisional
<1>. QED BY <1>1, <1>5 DEF HandlesInv

LEMMA HandlesStep ==
    ASSUME IInv, HandlesInv, [Next]_vars, HasKey
    PROVE  HandlesInv'
<1> USE Numbers DEF IInv, external, batch
<1>1. CASE ResolveNewAccounts
  <2>1. /\ UNCHANGED <<log, db, origin>> /\ pc' = "subjects"
        /\ handles' \in [NewAccounts -> Handle \cup {Empty}]
        /\ \A d \in NewAccounts : handles'[d] \in Answers(d) \cup {Empty}
    BY <1>1 DEF ResolveNewAccounts, Resolutions
  <2>2. NewAccounts \subseteq DID
    BY <1>1, BatchEvents DEF NewAccounts, Posters, Event, CInv, TInv, InBatch, ResolveNewAccounts
  <2>3. \A d \in DOMAIN handles' : d \in DID /\ Provisional(log, handles'[d], d)
    BY <2>1, <2>2 DEF Answers, Provisional, Claims, ClaimsOf
  <2>. QED BY <2>1, <2>3
    DEF HandlesInv, StoredHandle, NoClaim, LastClaimed, Provisional, Claims, Standing
<1>2. CASE BeginTx
  <2>1. /\ UNCHANGED <<log, db, origin, first>> /\ pc = "subjects" /\ pc' = "apply" /\ at' = first
        /\ tx' = UpsertSubjects(InsertAccounts(db, handles), lensed)
    BY <1>2 DEF BeginTx
  <2>2. tx'.accounts = [d \in DID |-> IF db.accounts[d] = None /\ d \in DOMAIN handles
                                      THEN handles[d] ELSE db.accounts[d]]
    BY <2>1 DEF UpsertSubjects, InsertAccounts, Tables
  <2>3. \A d \in DID : OpenHandle(d)'
    <3> TAKE d \in DID
    <3>1. NoClaim(log, d, first, at - 1)'
      BY <2>1 DEF NoClaim
    <3>2. \/ tx'.accounts[d] = db'.accounts[d]
          \/ db'.accounts[d] = None /\ Provisional(log, tx'.accounts[d], d)
      BY <2>1, <2>2 DEF HandlesInv
    <3>3. \/ tx'.accounts[d] = db'.accounts[d]
          \/ db'.accounts[d] = None /\ Provisional(log', tx'.accounts[d], d)
      BY <2>1, <3>2
    <3>. QED BY <3>1, <3>3 DEF OpenHandle
  <2>4. \A d \in DID : StoredHandle(d)'
    BY <2>1 DEF HandlesInv, StoredHandle, Standing
  <2>. QED BY <2>1, <2>3, <2>4 DEF HandlesInv
<1>3. CASE Attempt
  BY <1>3, HandlesFrame DEF Attempt, Resumes
<1>4. CASE BackfillCommitTx
  <2>1. UNCHANGED <<log, origin, pc, handles>> /\ pc # "apply"
    BY <1>4 DEF BackfillCommitTx, CInv, TInv, Owned, TypeOK, ConnectionHasOwner
  <2>2. db'.accounts = db.accounts /\ db'.cursor = db.cursor
    BY <1>4 DEF BackfillCommitTx, UpsertSubjects, Tables
  <2>. QED BY <2>1, <2>2, HandlesFrame
<1>5. ASSUME UNCHANGED <<log, origin, db>>,
             pc' \notin {"subjects", "apply"} \/ UNCHANGED <<pc, handles, first, at, tx>>
                \/ (pc = "subjects" /\ UNCHANGED <<pc, handles>>)
      PROVE  HandlesInv'
  BY <1>5, HandlesFrame DEF HandlesInv
<1>6. CASE UNCHANGED vars
  BY <1>5, <1>6 DEF vars
<1>. QED
  BY <1>1, <1>2, <1>3, <1>4, <1>5, <1>6, HandlesPublish, HandlesApply, HandlesCommit
  DEF Next, EditSubject, Boot, Crash, StreamEnds, NextBatch, RedeliveredBatch, TakeBatch,
      ApplyBatchStep, ResolveSubject, BatchFails, BackfillStep, BackfillQuery,
      BackfillLens, BackfillBeginTx, BackfillQueryFails, BackfillFails, BackfillDone, Waiting

(* With an API key, so that no session starts at the tip, and without      *)
(* batches that end before the cursor, a stored handle is current once the *)
(* log is folded in, however look-ups failed or were out of date           *)
(* (ingest.go 115-150, 310-326, main.go 157-160).                          *)
THEOREM HandlesFollowClaims ==
    ASSUME StaleBatches = FALSE, HasKey
    PROVE  Spec => []HandlesCurrent
<1>1. Init => HandlesInv
  BY DEF Init, EmptyTables, HandlesInv, StoredHandle, NoClaim, Provisional, Standing
<1>2. IInv /\ HandlesInv /\ [Next]_vars => HandlesInv'
  BY HandlesStep
<1>3. IInv /\ HandlesInv => HandlesCurrent
  <2> SUFFICES ASSUME IInv, HandlesInv, pc = "idle", db.cursor = Len(log), NEW d \in DID
               PROVE  db.accounts[d] \in {None, Empty} \cup Verified(d)
    BY DEF HandlesCurrent
  <2>1. Standing = Len(log) /\ Len(log) \in Nat
    BY Numbers DEF IInv, PInv, PositionOK, Standing
  <2>2. \A i \in Claims(log, d) : i \in 1..Len(log)
    BY DEF Claims
  <2>3. CASE NoClaim(log, d, 1, Standing) /\ Provisional(log, db.accounts[d], d)
    <3>1. Claims(log, d) = {}
      BY <2>1, <2>2, <2>3 DEF NoClaim
    <3>. QED BY <2>3, <3>1 DEF Provisional, Verified, Claims, ClaimsOf
  <2>4. CASE LastClaimed(log, db.accounts[d], d, 1, Standing)
    <3>1. PICK i \in 1..Len(log) : /\ i \in Claims(log, d) /\ NoClaim(log, d, i + 1, Len(log))
                                   /\ db.accounts[d] = HandleOf(log[i].claim)
      BY <2>1, <2>4 DEF LastClaimed
    <3>2. \A k \in Claims(log, d) : k <= i
      BY <2>1, <2>2, <3>1 DEF NoClaim
    <3>. QED BY <3>1, <3>2 DEF Verified, Claims, ClaimsOf
  <2>. QED BY <2>3, <2>4 DEF HandlesInv, StoredHandle
<1>. QED BY <1>1, <1>2, <1>3, FoldInvariant, PTL DEF Spec

-----------------------------------------------------------------------------
(* The rows of subjects, where every fetch succeeds and fits under the cap. *)

Resolved(t) ==
    \A k \in Key : t.reviews[k] # None => t.subjects[t.reviews[k].uri] # None

(* One fetch for an event at most, and no more events than fetches.        *)
WithinCap ==
    /\ pc \in {"dead", "down", "idle", "accounts"} => fetches = 0 /\ DOMAIN lensed = {}
    /\ pc = "subjects" => fetches <= at - first
    /\ InBatch => last < first + MaxBatch

(* A candidate looked at has a row, or will have. *)
CandidatesResolved ==
    pc = "subjects" => \A c \in Candidates : c < at =>
        log[c].review.uri \in DOMAIN lensed \/ db.subjects[log[c].review.uri] # None

BatchResolved ==
    pc = "apply" => /\ Resolved(tx)
                    /\ \A i \in first..last : NamesSubject(log[i]) => tx.subjects[log[i].review.uri] # None

(* So there is nothing for the backfill to do.                             *)
NothingToBackfill == backfill.todo = {} /\ backfill.phase \notin {"store", "commit"}

SubjectsInv ==
    /\ Resolved(db) /\ WithinCap /\ CandidatesResolved /\ BatchResolved /\ NothingToBackfill

(* The reviews an event may leave, and the subjects it leaves alone.       *)
LEMMA ApplyStores ==
    ASSUME NEW t \in Tables, NEW e \in Event
    PROVE  /\ Apply(t, e).subjects = t.subjects
           /\ \A k \in Key : \/ Apply(t, e).reviews[k] \in {t.reviews[k], None}
                             \/ NamesSubject(e) /\ Apply(t, e).reviews[k] = e.review
<1> DEFINE s == Apply(t, e)
<1>1. ASSUME NEW gone, s = DeleteReviews(t, gone)
      PROVE  s.subjects = t.subjects /\ \A k \in Key : s.reviews[k] \in {t.reviews[k], None}
  BY <1>1 DEF DeleteReviews, Tables
<1>2. CASE e.kind = "put" /\ e.verdict = "valid"
  <2>1. /\ s.reviews = [t.reviews EXCEPT ![<<e.did, e.rkey>>] = e.review]
        /\ s.subjects = t.subjects
    BY <1>2 DEF Apply, ApplyCommit, UpsertReview, Tables
  <2>. QED BY <1>2, <2>1 DEF NamesSubject, Tables
<1>3. CASE e.kind \in {"put", "delete"} /\ ~(e.kind = "put" /\ e.verdict = "valid")
  BY <1>1, <1>3 DEF Apply, ApplyCommit
<1>4. CASE e.kind \in {"account", "sync"}
  BY <1>1, <1>4 DEF Apply
<1>5. CASE e.kind = "identity"
  BY <1>5 DEF Apply, ApplyIdentity, Tables
<1>6. CASE e.kind = "otherCollection"
  BY <1>6 DEF Apply
<1>. QED BY <1>2, <1>3, <1>4, <1>5, <1>6 DEF Event

(* A nonempty set of numbers has a least one. *)
LEMMA LeastExists ==
    ASSUME NEW S \in SUBSET Nat, NEW x \in S
    PROVE  \E n \in S : \A m \in S : n <= m
<1> DEFINE Less == {p \in Nat \X Nat : p[1] < p[2]}
<1>1. IsWellFoundedOn(Less, Nat)
  <2>1. Less = OpToRel(<, Nat)
    BY DEF OpToRel
  <2>. QED BY <2>1, NatLessThanWellFounded
<1>. HIDE DEF Less
<1>2. PICK n \in S : \A m \in S : ~(<<m, n>> \in Less)
  BY <1>1, WFMin
<1>3. ASSUME NEW m \in S
      PROVE  n <= m
  <2>1. m < n => <<m, n>> \in Less
    BY DEF Less
  <2>. QED BY <1>2, <2>1
<1>. QED BY <1>3

(* Whatever names a subject in the batch, the first to name it is a candidate. *)
LEMMA FirstNamerIsCandidate ==
    ASSUME first \in Nat, last \in Nat, NEW i \in first..last, NamesSubject(log[i])
    PROVE  \E c \in Candidates : c <= i /\ log[c].review.uri = log[i].review.uri
<1> DEFINE S == {j \in first..last : NamesSubject(log[j]) /\ log[j].review.uri = log[i].review.uri}
<1>1. S \in SUBSET Nat /\ i \in S
  OBVIOUS
<1>2. PICK c \in S : \A j \in S : c <= j
  BY <1>1, LeastExists
<1>3. c \in Candidates
  <2>1. \A j \in first..(c - 1) : NamesSubject(log[j]) => log[j].review.uri # log[c].review.uri
    BY <1>2
  <2>. QED BY <2>1 DEF Candidates
<1>. QED BY <1>1, <1>2, <1>3

LEMMA SubjectNamed ==
    ASSUME TypeOK, BatchInLog, InBatch, NEW i \in first..last, NamesSubject(log[i])
    PROVE  log[i].review \in Review /\ log[i].review.uri \in URI /\ log[i].review.cid \in Version
BY BatchEvents DEF NamesSubject, Event, Review

LEMMA SubjectsFrame ==
    ASSUME SubjectsInv, UNCHANGED <<log, db, tx, pc, first, last, at, lensed, fetches>>,
           NothingToBackfill'
    PROVE  SubjectsInv'
BY DEF SubjectsInv, Resolved, WithinCap, InBatch, CandidatesResolved, Candidates, BatchResolved

LEMMA SubjectsSession ==
    ASSUME CInv, SubjectsInv,
           \/ Boot \/ Crash \/ Attempt \/ StreamEnds \/ BatchFails
           \/ \E l \in 1..Len(log) : NextBatch(l)
           \/ \E f, l \in 1..Len(log) : RedeliveredBatch(f, l)
    PROVE  SubjectsInv'
<1> USE Numbers DEF SubjectsInv, external, batch
<1>1. ASSUME UNCHANGED db, NothingToBackfill', pc' \notin {"subjects", "apply"},
             fetches' = 0, DOMAIN lensed' = {}, pc' = "accounts" => last' < first' + MaxBatch
      PROVE  SubjectsInv'
  BY <1>1 DEF Resolved, WithinCap, InBatch, CandidatesResolved, BatchResolved
<1>2. CASE Boot \/ Attempt \/ StreamEnds
  BY <1>1, <1>2 DEF Boot, Attempt, StreamEnds, NoBackfill, NothingToBackfill, WithinCap
<1>3. CASE Crash \/ BatchFails
  BY <1>1, <1>3 DEF Crash, BatchFails, DropBatch, NoSubjects, NoBackfill, NothingToBackfill
<1>4. ASSUME NEW l \in 1..Len(log), NextBatch(l)
      PROVE  SubjectsInv'
  <2>1. MaxBatch \in Nat
    BY BoundAssumption
  <2>. QED BY <1>1, <1>4, <2>1 DEF NextBatch, TakeBatch, NothingToBackfill, WithinCap
<1>5. ASSUME NEW f \in 1..Len(log), NEW l \in 1..Len(log), RedeliveredBatch(f, l)
      PROVE  SubjectsInv'
  BY <1>1, <1>5 DEF RedeliveredBatch, TakeBatch, NothingToBackfill, WithinCap
<1>. QED BY <1>2, <1>3, <1>4, <1>5

(* Publishing changes nothing of the batch in hand. *)
LEMMA BatchStays ==
    ASSUME CInv, NEW e \in Published, Publish(e), InBatch
    PROVE  /\ \A i \in first..last : log'[i] = log[i] /\ (NamesSubject(log'[i]) <=> NamesSubject(log[i]))
           /\ Candidates' = Candidates
<1>1. /\ log' = Append(log, e) /\ log \in Seq(Published)
      /\ first' = first /\ last' = last /\ first \in Int /\ last \in Int
      /\ 1 <= first /\ last <= Len(log)
  BY DEF Publish, batch, CInv, TInv, TypeOK, BatchInLog
<1>2. ASSUME NEW j \in first..last
      PROVE  log'[j] = log[j]
  BY <1>1
<1>3. ASSUME NEW j \in first..last
      PROVE  /\ NamesSubject(log'[j]) <=> NamesSubject(log[j])
             /\ log'[j].review.uri = log[j].review.uri
  BY <1>2
<1>4. ASSUME NEW c \in first..last
      PROVE  \A j \in first..(c - 1) : j \in first..last
  BY <1>1
<1>5. Candidates' =
        {c \in first..last :
            /\ NamesSubject(log'[c])
            /\ \A j \in first..(c - 1) :
                  NamesSubject(log'[j]) => log'[j].review.uri # log'[c].review.uri}
  BY <1>1 DEF Candidates, NamesSubject
<1>6. Candidates' = Candidates
  BY <1>3, <1>4, <1>5 DEF Candidates
<1>. QED BY <1>2, <1>3, <1>6

LEMMA SubjectsPublish ==
    ASSUME CInv, SubjectsInv, NEW e \in Published, Publish(e)
    PROVE  SubjectsInv'
<1> USE Numbers DEF SubjectsInv
<1>1. /\ log' = Append(log, e) /\ log \in Seq(Published)
      /\ UNCHANGED <<db, pc, first, last, at, lensed, fetches, tx, backfill>>
  BY DEF Publish, batch, CInv, TInv, TypeOK
<1>2. CASE InBatch
  <2>1. \A i \in first..last : log'[i] = log[i]
    BY <1>2, BatchStays
  <2>2. Candidates' = Candidates
    BY <1>2, BatchStays
  <2>3. \A c \in Candidates : c \in first..last
    BY DEF Candidates
  <2>. QED BY <1>1, <2>1, <2>2, <2>3
    DEF Resolved, WithinCap, InBatch, CandidatesResolved, BatchResolved, NothingToBackfill
<1>3. CASE ~InBatch
  BY <1>1, <1>3 DEF Resolved, WithinCap, InBatch, CandidatesResolved, BatchResolved, NothingToBackfill
<1>. QED BY <1>2, <1>3

LEMMA SubjectsLooked ==
    ASSUME CInv, SubjectsInv, FetchFails = FALSE, MaxBatch <= MaxFetches,
           NEW i \in Candidates, ResolveSubject(i)
    PROVE  SubjectsInv'
<1> USE Numbers DEF SubjectsInv
<1>1. /\ UNCHANGED <<log, db, pc, first, last, tx, backfill>> /\ pc = "subjects" /\ InBatch
      /\ at <= i /\ at' = i + 1 /\ \A j \in Candidates : j < at \/ i <= j
  BY DEF ResolveSubject, external, InBatch
<1>2. i \in first..last /\ NamesSubject(log[i]) /\ log[i].review.uri \in URI /\ log[i].review.cid \in Version
  BY <1>1, SubjectNamed DEF Candidates, CInv, TInv
<1>3. /\ MaxBatch \in Nat /\ MaxFetches \in Nat /\ fetches \in Nat
      /\ fetches <= at - first /\ last < first + MaxBatch
  BY <1>1, BoundAssumption DEF WithinCap, CInv, TInv, TypeOK
<1>4. UnderCap
  BY <1>1, <1>2, <1>3 DEF UnderCap
<1>5. \/ UNCHANGED lensed /\ db.subjects[log[i].review.uri] = log[i].review.cid
      \/ DOMAIN lensed' = DOMAIN lensed \cup {log[i].review.uri}
  BY <1>4 DEF ResolveSubject, Known
<1>6. fetches' <= fetches + 1
  BY <1>3 DEF ResolveSubject
<1>7. \A c \in Candidates : c < i + 1 => c < at \/ c = i
  BY <1>1, <1>2 DEF Candidates
<1>8. db.subjects[log[i].review.uri] # None \/ log[i].review.uri \in DOMAIN lensed'
  BY <1>2, <1>5, SentinelAssumption
<1>9. Candidates' = Candidates
  BY <1>1 DEF Candidates
<1>10. CandidatesResolved'
  BY <1>1, <1>5, <1>7, <1>8, <1>9 DEF CandidatesResolved
<1>11. WithinCap'
  <2>1. at \in Int /\ first \in Int /\ i \in Int /\ fetches' \in Int
    BY <1>2, <1>3, <1>6 DEF CInv, TInv, TypeOK, ResolveSubject
  <2>2. fetches' <= at' - first'
    BY <1>1, <1>3, <1>6, <2>1
  <2>. QED BY <1>1, <1>3, <2>2 DEF WithinCap, InBatch
<1>. QED BY <1>1, <1>10, <1>11 DEF Resolved, BatchResolved, NothingToBackfill

LEMMA SubjectsTx ==
    ASSUME CInv, SubjectsInv, BeginTx \/ ApplyEvent \/ CommitTx
    PROVE  SubjectsInv'
<1> USE Numbers DEF SubjectsInv
<1>1. CASE BeginTx
  <2>1. /\ UNCHANGED <<log, db, first, last, fetches, backfill>> /\ pc = "subjects" /\ pc' = "apply"
        /\ tx' = UpsertSubjects(InsertAccounts(db, handles), lensed)
        /\ \A c \in Candidates : c < at
    BY <1>1 DEF BeginTx, external
  <2>2. /\ tx'.reviews = db.reviews
        /\ tx'.subjects = [u \in URI |-> IF u \in DOMAIN lensed THEN lensed[u] ELSE db.subjects[u]]
    BY <2>1 DEF UpsertSubjects, InsertAccounts, Tables
  <2>3. \A u \in DOMAIN lensed : lensed[u] # None
    BY SentinelAssumption DEF CInv, TInv, TypeOK
  <2>4. \A u \in URI : u \in DOMAIN lensed \/ db.subjects[u] # None => tx'.subjects[u] # None
    BY <2>2, <2>3
  <2>5. Resolved(tx')
    <3>1. \A k \in Key : db.reviews[k] # None => db.reviews[k].uri \in URI
      BY DEF Tables, Review
    <3>. QED BY <2>2, <2>4, <3>1 DEF Resolved
  <2>6. ASSUME NEW i \in first..last, NamesSubject(log[i])
        PROVE  tx'.subjects[log[i].review.uri] # None
    <3>1. PICK c \in Candidates : log[c].review.uri = log[i].review.uri
      BY <2>6, FirstNamerIsCandidate
    <3>2. log[i].review.uri \in URI
      BY <2>1, <2>6, SubjectNamed DEF CInv, TInv, InBatch
    <3>. QED BY <2>1, <2>4, <3>1, <3>2 DEF CandidatesResolved
  <2>7. BatchResolved'
    BY <2>1, <2>5, <2>6 DEF BatchResolved, Resolved
  <2>. QED BY <2>1, <2>7
    DEF Resolved, WithinCap, InBatch, CandidatesResolved, NothingToBackfill
<1>2. CASE ApplyEvent
  <2>1. /\ UNCHANGED <<log, db, first, last, pc, fetches, lensed, backfill>> /\ pc = "apply"
        /\ tx' = Apply(tx, log[at]) /\ at <= last
    BY <1>2 DEF ApplyEvent, external
  <2>2. at \in first..last /\ log[at] \in Event
    BY <2>1, BatchEvents DEF InBatch, CInv, TInv
  <2>3. tx'.subjects = tx.subjects
    BY <2>1, <2>2, ApplyStores
  <2>4. \A k \in Key : \/ tx'.reviews[k] \in {tx.reviews[k], None}
                       \/ NamesSubject(log[at]) /\ tx'.reviews[k] = log[at].review
    BY <2>1, <2>2, ApplyStores
  <2>5. Resolved(tx')
    BY <2>1, <2>2, <2>3, <2>4 DEF BatchResolved, Resolved
  <2>6. BatchResolved'
    BY <2>1, <2>3, <2>5 DEF BatchResolved, Resolved
  <2>. QED BY <2>1, <2>6 DEF Resolved, WithinCap, InBatch, CandidatesResolved, NothingToBackfill
<1>3. CASE CommitTx
  <2>1. /\ pc = "apply" /\ pc' = "idle" /\ db' = WriteCursor(tx, last) /\ UNCHANGED backfill
        /\ fetches' = 0 /\ DOMAIN lensed' = {}
    BY <1>3 DEF CommitTx, DropBatch, NoSubjects
  <2>2. db'.reviews = tx.reviews /\ db'.subjects = tx.subjects
    BY <2>1 DEF WriteCursor, Tables
  <2>3. Resolved(db')
    BY <2>1, <2>2 DEF BatchResolved, Resolved
  <2>. QED BY <2>1, <2>3 DEF Resolved, WithinCap, InBatch, CandidatesResolved, BatchResolved, NothingToBackfill
<1>. QED BY <1>1, <1>2, <1>3

LEMMA SubjectsBackfill ==
    ASSUME CInv, SubjectsInv, BackfillStep \/ BackfillQueryFails \/ BackfillFails
    PROVE  SubjectsInv' /\ UNCHANGED <<log, record, db, tx, pc, lensed>>
<1> USE DEF external, batch, NothingToBackfill
<1>1. NothingToBackfill
  BY DEF SubjectsInv
<1>2. Unresolved = {}
  BY DEF SubjectsInv, Resolved, Unresolved
<1>3. CASE BackfillQuery
  BY <1>1, <1>2, <1>3, SubjectsFrame DEF BackfillQuery, CInv, TInv, TypeOK
<1>4. CASE BackfillQueryFails
  BY <1>1, <1>2, <1>4, SubjectsFrame DEF BackfillQueryFails, NoBackfill
<1>5. CASE BackfillDone
  BY <1>1, <1>5, SubjectsFrame DEF BackfillDone, NoBackfill
<1>6. CASE \/ \E u \in backfill.todo : BackfillLens(u)
           \/ BackfillBeginTx \/ BackfillCommitTx \/ BackfillFails
  BY <1>1, <1>6 DEF BackfillLens, BackfillBeginTx, BackfillCommitTx, BackfillFails
<1>. QED BY <1>3, <1>4, <1>5, <1>6 DEF BackfillStep

LEMMA SubjectsStep ==
    ASSUME CInv, SubjectsInv, [Next]_vars, FetchFails = FALSE, MaxBatch <= MaxFetches
    PROVE  SubjectsInv'
<1> USE DEF external, batch
<1>1. CASE ResolveNewAccounts
  <2>1. /\ UNCHANGED <<log, db, tx, first, last, lensed, fetches, backfill>>
        /\ pc = "accounts" /\ pc' = "subjects" /\ at' = first
    BY <1>1 DEF ResolveNewAccounts
  <2>2. ASSUME NEW c \in Candidates' PROVE ~(c < at')
    BY <2>1, Numbers DEF Candidates
  <2>3. fetches = 0 /\ at' - first = 0
    BY <2>1, Numbers DEF SubjectsInv, WithinCap
  <2>. QED BY <2>1, <2>2, <2>3
    DEF SubjectsInv, Resolved, WithinCap, InBatch, CandidatesResolved, BatchResolved, NothingToBackfill
<1>2. ASSUME NEW u \in URI, EditSubject(u)
      PROVE  SubjectsInv'
  BY <1>2, SubjectsFrame DEF EditSubject, SubjectsInv, NothingToBackfill
<1>3. CASE UNCHANGED vars
  BY <1>3, SubjectsFrame DEF vars, SubjectsInv, NothingToBackfill
<1>. QED
  BY <1>1, <1>2, <1>3, SubjectsSession, SubjectsPublish, SubjectsLooked, SubjectsTx, SubjectsBackfill
  DEF Next, ApplyBatchStep, Waiting

LEMMA SubjectsInvariant ==
    ASSUME FetchFails = FALSE, MaxBatch <= MaxFetches
    PROVE  Spec => []SubjectsInv
<1>1. Init => SubjectsInv
  BY DEF Init, EmptyTables, SubjectsInv, Resolved, WithinCap, InBatch, CandidatesResolved, BatchResolved,
         NothingToBackfill, NoBackfill, NoSubjects
<1>2. CInv /\ SubjectsInv /\ [Next]_vars => SubjectsInv'
  BY SubjectsStep
<1>. QED BY <1>1, <1>2, OwnerInvariant, PTL DEF Spec

(* Where every fetch succeeds and a batch is within the cap, no stored     *)
(* review is left on its poster's own title, whatever is redelivered and   *)
(* wherever batches fail or the process dies (ingest.go 152-192).          *)
THEOREM SubjectsFollowReviews ==
    ASSUME FetchFails = FALSE, MaxBatch <= MaxFetches
    PROVE  Spec => []ReviewedSubjectsResolved
<1>1. SubjectsInv => ReviewedSubjectsResolved
  BY DEF SubjectsInv, Resolved, ReviewedSubjectsResolved
<1>. QED BY <1>1, SubjectsInvariant, PTL

-----------------------------------------------------------------------------
(* The versions of those rows: none goes back, and none is older than what *)
(* a stored review names.                                                  *)

(* Row w may take the place of row v. *)
Succeeds(v, w) == v # None => w # None /\ v <= w

(* What is published or lensed was the record's version once; what is      *)
(* lensed for a batch, or written by it, is no older than what is stored.  *)
VersionsInv ==
    /\ \A i \in 1..Len(log) : log[i].kind = "put" => log[i].review.cid <= record[log[i].review.uri]
    /\ \A u \in URI : Succeeds(db.subjects[u], record[u])
    /\ \A u \in DOMAIN lensed : Succeeds(db.subjects[u], lensed[u]) /\ lensed[u] <= record[u]
    /\ pc = "apply" => \A u \in URI : /\ Succeeds(db.subjects[u], tx.subjects[u])
                                      /\ Succeeds(tx.subjects[u], record[u])

LEMMA Rows ==
    ASSUME CInv
    PROVE  /\ \A u \in URI : /\ record[u] \in Nat /\ record[u] \in Version
                             /\ db.subjects[u] \in Nat \cup {None}
                             /\ tx.subjects[u] \in Nat \cup {None}
           /\ \A u \in DOMAIN lensed : u \in URI /\ lensed[u] \in Nat /\ lensed[u] # None
           /\ \A v \in Version : v # None
<1>1. Version \subseteq Nat /\ None \notin Version
  BY VersionAssumption, SentinelAssumption
<1>2. /\ record \in [URI -> Version] /\ db \in Tables /\ tx \in Tables
      /\ lensed \in UNION {[U -> Version] : U \in SUBSET URI}
  BY DEF CInv, TInv, TypeOK
<1>3. \A u \in URI : record[u] \in Nat /\ record[u] \in Version
  BY <1>1, <1>2
<1>4. \A u \in URI : db.subjects[u] \in Nat \cup {None} /\ tx.subjects[u] \in Nat \cup {None}
  BY <1>1, <1>2 DEF Tables
<1>5. \A u \in DOMAIN lensed : u \in URI /\ lensed[u] \in Version
  BY <1>2
<1>. QED BY <1>1, <1>3, <1>4, <1>5

LEMMA VersionsFrame ==
    ASSUME VersionsInv, UNCHANGED <<log, record, db>>, lensed' = lensed \/ DOMAIN lensed' = {},
           pc' = "apply" => UNCHANGED <<pc, tx>>
    PROVE  VersionsInv'
<1>1. CASE lensed' = lensed
  BY <1>1 DEF VersionsInv, Succeeds
<1>2. CASE DOMAIN lensed' = {}
  BY <1>2 DEF VersionsInv, Succeeds
<1>. QED BY <1>1, <1>2

LEMMA VersionsWorld ==
    ASSUME CInv, VersionsInv,
           \/ \E e \in Published : Publish(e)
           \/ \E u \in URI : EditSubject(u)
    PROVE  VersionsInv'
<1> USE Rows DEF VersionsInv
<1>1. ASSUME NEW e \in Published, Publish(e)
      PROVE  VersionsInv'
  <2>1. /\ log' = Append(log, e) /\ log \in Seq(Published)
        /\ UNCHANGED <<record, db, pc, lensed, tx>>
    BY <1>1 DEF Publish, batch, CInv, TInv, TypeOK
  <2>2. \A i \in 1..Len(log') : log'[i] = e \/ (i \in 1..Len(log) /\ log'[i] = log[i])
    BY <2>1
  <2>3. e.kind = "put" => e.review.cid <= record[e.review.uri]
    BY <1>1 DEF Publish
  <2>4. \A i \in 1..Len(log') :
            log'[i].kind = "put" => log'[i].review.cid <= record'[log'[i].review.uri]
    BY <2>1, <2>2, <2>3
  <2>. QED BY <2>1, <2>4 DEF Succeeds
<1>2. ASSUME NEW u \in URI, EditSubject(u)
      PROVE  VersionsInv'
  <2>1. UNCHANGED <<log, db, pc, lensed, tx>> /\ record' = [record EXCEPT ![u] = @ + 1]
        /\ record[u] + 1 \in Version
    BY <1>2 DEF EditSubject, batch
  <2>2. \A v \in URI : record'[v] \in Nat /\ record'[v] # None /\ record[v] <= record'[v]
    BY <2>1 DEF CInv, TInv, TypeOK
  <2>3. ASSUME NEW i \in 1..Len(log), log[i].kind = "put"
        PROVE  log[i].review.cid <= record'[log[i].review.uri]
    <3>1. log[i].review.uri \in URI /\ log[i].review.cid \in Nat
      BY <2>3, LogType, VersionAssumption DEF Event, Review, CInv, TInv, TypeOK
    <3>. QED BY <2>2, <2>3, <3>1
  <2>4. \A v \in URI : Succeeds(db.subjects[v], record'[v])
    BY <2>2 DEF Succeeds
  <2>5. \A v \in DOMAIN lensed : lensed[v] <= record'[v]
    BY <2>2
  <2>6. pc = "apply" => \A v \in URI : Succeeds(tx.subjects[v], record'[v])
    BY <2>2 DEF Succeeds
  <2>. QED BY <2>1, <2>3, <2>4, <2>5, <2>6
<1>. QED BY <1>1, <1>2

LEMMA VersionsStep ==
    ASSUME CInv, SubjectsInv, VersionsInv, [Next]_vars
    PROVE  /\ VersionsInv'
           /\ \A u \in URI : Succeeds(db.subjects[u], db'.subjects[u])
<1> USE DEF external, batch
<1>1. CASE \/ \E e \in Published : Publish(e)
           \/ \E u \in URI : EditSubject(u)
  BY <1>1, VersionsWorld, Rows DEF Publish, EditSubject, Succeeds
<1>2. CASE \/ Boot \/ Crash \/ Attempt \/ StreamEnds \/ BatchFails
           \/ \E l \in 1..Len(log) : NextBatch(l)
           \/ \E f, l \in 1..Len(log) : RedeliveredBatch(f, l)
  <2>1. /\ UNCHANGED <<log, record, db>> /\ pc' # "apply"
        /\ lensed' = lensed \/ DOMAIN lensed' = {}
    BY <1>2 DEF Boot, Crash, Attempt, StreamEnds, BatchFails, NextBatch, RedeliveredBatch,
                TakeBatch, DropBatch, NoSubjects
  <2>. QED BY <2>1, VersionsFrame, Rows DEF Succeeds
<1>3. CASE ResolveNewAccounts \/ Waiting \/ UNCHANGED vars
  BY <1>3, VersionsFrame, Rows DEF ResolveNewAccounts, Waiting, vars, Succeeds
<1>4. CASE BackfillStep \/ BackfillQueryFails \/ BackfillFails
  BY <1>4, SubjectsBackfill, VersionsFrame, Rows DEF Succeeds
<1>5. ASSUME NEW i \in Candidates, ResolveSubject(i)
      PROVE  VersionsInv' /\ UNCHANGED db
  <2>1. /\ UNCHANGED <<log, record, db>> /\ pc = "subjects" /\ pc' = pc
        /\ \/ lensed' = lensed
           \/ lensed' = [v \in DOMAIN lensed \cup {log[i].review.uri} |->
                            IF v = log[i].review.uri THEN record[v] ELSE lensed[v]]
    BY <1>5 DEF ResolveSubject, FetchedVersion
  <2>2. CASE lensed' = lensed
    BY <2>1, <2>2, VersionsFrame
  <2>3. CASE lensed' = [v \in DOMAIN lensed \cup {log[i].review.uri} |->
                            IF v = log[i].review.uri THEN record[v] ELSE lensed[v]]
    <3>1. log[i].review.uri \in URI
      BY <2>1, SubjectNamed DEF Candidates, CInv, TInv, InBatch
    <3>2. \A v \in DOMAIN lensed' : Succeeds(db.subjects[v], lensed'[v]) /\ lensed'[v] <= record[v]
      BY <2>3, <3>1, Rows DEF VersionsInv, Succeeds
    <3>. QED BY <2>1, <3>2 DEF VersionsInv
  <2>. QED BY <2>1, <2>2, <2>3
<1>6. CASE BeginTx
  <2>1. /\ UNCHANGED <<log, record, db, lensed>>
        /\ tx' = UpsertSubjects(InsertAccounts(db, handles), lensed)
    BY <1>6 DEF BeginTx
  <2>2. tx'.subjects = [u \in URI |-> IF u \in DOMAIN lensed THEN lensed[u] ELSE db.subjects[u]]
    BY <2>1, Numbers DEF UpsertSubjects, InsertAccounts, Tables
  <2>3. \A u \in URI : Succeeds(db.subjects[u], tx'.subjects[u]) /\ Succeeds(tx'.subjects[u], record[u])
    BY <2>2, Rows DEF VersionsInv, Succeeds
  <2>. QED BY <2>1, <2>3, Rows DEF VersionsInv, Succeeds
<1>7. CASE ApplyEvent
  <2>1. UNCHANGED <<log, record, db, lensed>> /\ pc = "apply" /\ tx' = Apply(tx, log[at]) /\ at <= last
    BY <1>7 DEF ApplyEvent
  <2>2. tx'.subjects = tx.subjects
    BY <2>1, BatchEvents, Numbers, ApplyStores DEF InBatch, CInv, TInv
  <2>. QED BY <2>1, <2>2, Rows DEF VersionsInv, Succeeds
<1>8. CASE CommitTx
  <2>1. /\ UNCHANGED <<log, record>> /\ pc = "apply" /\ pc' = "idle" /\ db' = WriteCursor(tx, last)
        /\ DOMAIN lensed' = {}
    BY <1>8 DEF CommitTx, DropBatch, NoSubjects
  <2>2. db'.subjects = tx.subjects
    BY <2>1, Numbers DEF WriteCursor, Tables
  <2>. QED BY <2>1, <2>2 DEF VersionsInv
<1>. QED
  BY <1>1, <1>2, <1>3, <1>4, <1>5, <1>6, <1>7, <1>8, Rows DEF Next, ApplyBatchStep, Succeeds

LEMMA VersionsInvariant ==
    ASSUME FetchFails = FALSE, MaxBatch <= MaxFetches
    PROVE  Spec => [](CInv /\ SubjectsInv /\ VersionsInv)
<1>1. Init => VersionsInv
  BY DEF Init, EmptyTables, VersionsInv, NoSubjects, Succeeds
<1>2. CInv /\ SubjectsInv /\ VersionsInv /\ [Next]_vars => VersionsInv'
  BY VersionsStep
<1>. QED BY <1>1, <1>2, OwnerInvariant, SubjectsInvariant, PTL DEF Spec

(* Where every fetch succeeds and a batch is within the cap, no row of     *)
(* subjects goes back a version or away, stale batches and crashes         *)
(* included: there is nothing for the backfill to do, whose late store is  *)
(* the one that could (ingest.go 222-294).                                 *)
THEOREM SubjectsMoveForward ==
    ASSUME FetchFails = FALSE, MaxBatch <= MaxFetches
    PROVE  Spec => SubjectsNeverRegress
<1>1. CInv /\ SubjectsInv /\ VersionsInv /\ [Next]_vars
        => [\A u \in URI : db.subjects[u] # None =>
                db'.subjects[u] # None /\ db.subjects[u] <= db'.subjects[u]]_vars
  BY VersionsStep DEF Succeeds
<1>. QED BY <1>1, VersionsInvariant, PTL DEF Spec, SubjectsNeverRegress

(* What a lookup of a batch's subject leads to: the version named is there, *)
(* or a version at least as new has just been lensed.                      *)
LEMMA LookedUp ==
    ASSUME CInv, SubjectsInv, VersionsInv, FetchFails = FALSE, MaxBatch <= MaxFetches,
           NEW i \in Candidates, ResolveSubject(i)
    PROVE  LET u == log[i].review.uri
           IN  /\ u \in URI /\ log[i].kind = "put" /\ log[i].review.cid \in Nat
               /\ \/ /\ lensed' = lensed
                     /\ db.subjects[u] = log[i].review.cid
                  \/ /\ DOMAIN lensed' = DOMAIN lensed \cup {u}
                     /\ log[i].review.cid <= lensed'[u] /\ lensed'[u] # None
<1> DEFINE u == log[i].review.uri
<1>1. pc = "subjects" /\ InBatch /\ at <= i /\ i \in first..last
  BY DEF ResolveSubject, InBatch, Candidates
<1>2. u \in URI /\ log[i].kind = "put" /\ log[i].review.cid \in Nat
  BY <1>1, SubjectNamed, VersionAssumption DEF Candidates, NamesSubject, CInv, TInv
<1>3. UnderCap
  <2>1. /\ MaxBatch \in Nat /\ MaxFetches \in Nat /\ fetches \in Nat /\ at \in Nat /\ first \in Nat
        /\ last \in Nat /\ fetches <= at - first /\ last < first + MaxBatch
    BY <1>1, BoundAssumption DEF SubjectsInv, WithinCap, CInv, TInv, TypeOK
  <2>. QED BY <1>1, <2>1 DEF UnderCap
<1>4. CASE Known(i)
  BY <1>2, <1>3, <1>4 DEF ResolveSubject, Known
<1>5. CASE ~Known(i)
  <2>1. lensed' = [v \in DOMAIN lensed \cup {u} |-> IF v = u THEN record[u] ELSE lensed[v]]
    BY <1>3, <1>5 DEF ResolveSubject, FetchedVersion
  <2>2. i \in 1..Len(log)
    BY <1>1, Numbers
  <2>3. log[i].review.cid <= record[u]
    BY <1>2, <2>2 DEF VersionsInv
  <2>. QED BY <1>2, <2>1, <2>3, Rows
<1>. QED BY <1>4, <1>5

(* The row a subject will have once the batch is stored. *)
Row(u) == IF u \in DOMAIN lensed THEN lensed[u] ELSE db.subjects[u]

Covered(t) ==
    \A k \in Key : t.reviews[k] # None /\ t.subjects[t.reviews[k].uri] # None
                        => t.reviews[k].cid <= t.subjects[t.reviews[k].uri]

CoverInv ==
    /\ Covered(db)
    /\ pc = "subjects" => \A c \in Candidates : c < at =>
           Row(log[c].review.uri) # None /\ log[c].review.cid <= Row(log[c].review.uri)
    /\ pc = "apply" => /\ Covered(tx)
                       /\ \A i \in first..last : NamesSubject(log[i]) =>
                             log[i].review.cid <= tx.subjects[log[i].review.uri]

LEMMA CoverFrame ==
    ASSUME CoverInv, UNCHANGED db, pc' \notin {"subjects", "apply"}
    PROVE  CoverInv'
BY DEF CoverInv, Covered

LEMMA CoverWorld ==
    ASSUME CInv, CoverInv,
           \/ \E e \in Published : Publish(e)
           \/ \E u \in URI : EditSubject(u)
    PROVE  CoverInv'
<1>1. ASSUME NEW e \in Published, Publish(e)
      PROVE  CoverInv'
  <2>1. UNCHANGED <<db, pc, lensed, tx, first, last, at>>
    BY <1>1 DEF Publish, batch
  <2>2. CASE InBatch
    <3>1. \A c \in Candidates : c \in first..last
      BY DEF Candidates
    <3>. QED BY <1>1, <2>1, <2>2, <3>1, BatchStays DEF CoverInv, Covered, Row, NamesSubject
  <2>. QED BY <2>1, <2>2, CoverFrame DEF InBatch
<1>2. ASSUME NEW u \in URI, EditSubject(u)
      PROVE  CoverInv'
  BY <1>2 DEF EditSubject, batch, CoverInv, Covered, Row, Candidates
<1>. QED BY <1>1, <1>2

LEMMA CoverTx ==
    ASSUME CInv, SubjectsInv, VersionsInv, CoverInv, MaxBatch <= 1,
           BeginTx \/ ApplyEvent \/ CommitTx
    PROVE  CoverInv'
<1> USE Numbers, Rows DEF external, batch
<1>1. CASE BeginTx
  <2>1. /\ UNCHANGED <<log, db, first, last>> /\ pc = "subjects" /\ pc' = "apply" /\ InBatch
        /\ tx' = UpsertSubjects(InsertAccounts(db, handles), lensed)
        /\ \A c \in Candidates : c < at
    BY <1>1 DEF BeginTx, InBatch
  <2>2. tx'.reviews = db.reviews /\ \A u \in URI : tx'.subjects[u] = Row(u)
    BY <2>1 DEF UpsertSubjects, InsertAccounts, Tables, Row
  <2>3. \A u \in URI : Succeeds(db.subjects[u], Row(u)) /\ Row(u) \in Nat \cup {None}
    BY DEF VersionsInv, Row, Succeeds
  <2>4. ASSUME NEW k \in Key, db.reviews[k] # None
        PROVE  /\ db.reviews[k].uri \in URI
               /\ Row(db.reviews[k].uri) # None => db.reviews[k].cid <= Row(db.reviews[k].uri)
    <3>1. db.reviews[k].uri \in URI /\ db.reviews[k].cid \in Nat
      BY <2>4, VersionAssumption DEF Tables, Review
    <3>2. db.subjects[db.reviews[k].uri] # None
      BY <2>4 DEF SubjectsInv, Resolved
    <3>3. db.reviews[k].cid <= db.subjects[db.reviews[k].uri]
      BY <2>4, <3>2 DEF CoverInv, Covered
    <3>. QED BY <2>3, <3>1, <3>2, <3>3 DEF Succeeds
  <2>5. Covered(tx')
    BY <2>2, <2>4 DEF Covered
  <2>6. ASSUME NEW i \in first..last, NamesSubject(log[i])
        PROVE  log[i].review.cid <= tx'.subjects[log[i].review.uri]
    <3>1. MaxBatch \in Nat /\ last < first + MaxBatch
      BY <2>1, BoundAssumption DEF SubjectsInv, WithinCap
    <3>2. i = first
      BY <3>1
    <3>3. i \in Candidates
      BY <2>6, <3>2 DEF Candidates
    <3>4. log[i].review.uri \in URI
      BY <2>1, <2>6, SubjectNamed DEF CInv, TInv
    <3>. QED BY <2>1, <2>2, <3>3, <3>4 DEF CoverInv
  <2>. QED BY <2>1, <2>5, <2>6 DEF CoverInv, Covered
<1>2. CASE ApplyEvent
  <2>1. /\ UNCHANGED <<log, db, first, last, pc>> /\ pc = "apply"
        /\ tx' = Apply(tx, log[at]) /\ at \in first..last
    BY <1>2 DEF ApplyEvent, InBatch
  <2>2. log[at] \in Event
    BY <2>1, BatchEvents DEF InBatch, CInv, TInv
  <2>3. tx'.subjects = tx.subjects
    BY <2>1, <2>2, ApplyStores
  <2>4. \A k \in Key : \/ tx'.reviews[k] \in {tx.reviews[k], None}
                       \/ NamesSubject(log[at]) /\ tx'.reviews[k] = log[at].review
    BY <2>1, <2>2, ApplyStores
  <2>5. Covered(tx')
    BY <2>1, <2>3, <2>4 DEF CoverInv, Covered
  <2>. QED BY <2>1, <2>3, <2>5 DEF CoverInv, Covered
<1>3. CASE CommitTx
  <2>1. pc = "apply" /\ pc' = "idle" /\ db' = WriteCursor(tx, last)
    BY <1>3 DEF CommitTx
  <2>2. db'.reviews = tx.reviews /\ db'.subjects = tx.subjects
    BY <2>1 DEF WriteCursor, Tables
  <2>. QED BY <2>1, <2>2 DEF CoverInv, Covered
<1>. QED BY <1>1, <1>2, <1>3

LEMMA CoverLooked ==
    ASSUME CInv, SubjectsInv, VersionsInv, CoverInv, FetchFails = FALSE, MaxBatch <= MaxFetches,
           MaxBatch <= 1, NEW i \in Candidates, ResolveSubject(i)
    PROVE  CoverInv'
<1> DEFINE u == log[i].review.uri
<1>1. /\ UNCHANGED <<log, db, first, last, pc>> /\ pc = "subjects" /\ at' = i + 1 /\ at <= i
  BY DEF ResolveSubject, external
<1>2. Candidates' = Candidates
  BY <1>1 DEF Candidates
<1>3. \A c \in Candidates : c = i
  <2>1. MaxBatch \in Nat /\ last < first + MaxBatch /\ first \in Int /\ last \in Int
    BY <1>1, BoundAssumption, Numbers DEF SubjectsInv, WithinCap, InBatch
  <2>. QED BY <2>1 DEF Candidates
<1>4. Row(u)' # None /\ log[i].review.cid <= Row(u)'
  <2>1. /\ u \in URI /\ log[i].review.cid \in Nat
        /\ \/ /\ lensed' = lensed
              /\ db.subjects[u] = log[i].review.cid
           \/ /\ DOMAIN lensed' = DOMAIN lensed \cup {u}
              /\ log[i].review.cid <= lensed'[u] /\ lensed'[u] # None
    BY LookedUp
  <2>2. CASE lensed' = lensed /\ db.subjects[u] = log[i].review.cid
    <3>1. db.subjects[u] # None
      BY <2>2, SubjectNamed, SentinelAssumption, <1>1 DEF Candidates, CInv, TInv, InBatch
    <3>2. u \in DOMAIN lensed => log[i].review.cid <= lensed[u] /\ lensed[u] # None
      BY <2>2, <3>1, Rows DEF VersionsInv, Succeeds
    <3>. QED BY <1>1, <2>1, <2>2, <3>1, <3>2 DEF Row
  <2>3. CASE /\ DOMAIN lensed' = DOMAIN lensed \cup {u}
             /\ log[i].review.cid <= lensed'[u] /\ lensed'[u] # None
    BY <1>1, <2>3 DEF Row
  <2>. QED BY <2>1, <2>2, <2>3
<1>. QED BY <1>1, <1>2, <1>3, <1>4 DEF CoverInv, Covered

LEMMA CoverStep ==
    ASSUME CInv, SubjectsInv, VersionsInv, CoverInv, [Next]_vars,
           FetchFails = FALSE, MaxBatch <= MaxFetches, MaxBatch <= 1
    PROVE  CoverInv'
<1> USE DEF external, batch
<1>1. CASE \/ Boot \/ Crash \/ Attempt \/ StreamEnds \/ BatchFails
           \/ \E l \in 1..Len(log) : NextBatch(l)
           \/ \E f, l \in 1..Len(log) : RedeliveredBatch(f, l)
  <2>1. UNCHANGED db /\ pc' \notin {"subjects", "apply"}
    BY <1>1 DEF Boot, Crash, Attempt, StreamEnds, BatchFails, NextBatch, RedeliveredBatch, TakeBatch
  <2>. QED BY <2>1, CoverFrame
<1>2. CASE ResolveNewAccounts
  <2>1. UNCHANGED <<log, db, first, last>> /\ pc' = "subjects" /\ at' = first
    BY <1>2 DEF ResolveNewAccounts
  <2>2. ASSUME NEW c \in Candidates' PROVE ~(c < at')
    BY <2>1, Numbers DEF Candidates
  <2>. QED BY <2>1, <2>2 DEF CoverInv, Covered
<1>3. CASE BackfillStep \/ BackfillQueryFails \/ BackfillFails
  <2>1. UNCHANGED <<log, db, tx, pc, lensed>>
    BY <1>3, SubjectsBackfill
  <2>2. UNCHANGED <<first, last, at>>
    BY <1>3 DEF BackfillStep, BackfillQuery, BackfillLens, BackfillBeginTx, BackfillCommitTx,
                BackfillDone, BackfillQueryFails, BackfillFails
  <2>. QED BY <2>1, <2>2 DEF CoverInv, Covered, Row, Candidates
<1>4. CASE Waiting \/ UNCHANGED vars
  BY <1>4 DEF Waiting, vars, CoverInv, Covered, Row, Candidates
<1>. QED
  BY <1>1, <1>2, <1>3, <1>4, CoverWorld, CoverLooked, CoverTx DEF Next, ApplyBatchStep

(* Where a batch is one event besides, a stored review never names a       *)
(* version newer than its subject's row.  With more events to a batch the  *)
(* first to name a subject decides, and IngestVersionHidden shows it hide  *)
(* a newer version (ingest.go 167-178).                                    *)
THEOREM SubjectsAreCurrent ==
    ASSUME FetchFails = FALSE, MaxBatch <= MaxFetches, MaxBatch <= 1
    PROVE  Spec => []SubjectsCoverReviews
<1>1. Init => CoverInv
  BY DEF Init, EmptyTables, CoverInv, Covered
<1>2. CInv /\ SubjectsInv /\ VersionsInv /\ CoverInv /\ [Next]_vars => CoverInv'
  BY CoverStep
<1>3. CoverInv => SubjectsCoverReviews
  BY DEF CoverInv, Covered, SubjectsCoverReviews
<1>. QED BY <1>1, <1>2, <1>3, VersionsInvariant, PTL DEF Spec
=============================================================================
