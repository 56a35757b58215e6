------------------------- MODULE SiteReviewsProofs -------------------------
(***************************************************************************)
(* Theorems about SiteReviews, for any words, uris, locales, browsers and  *)
(* bounds: types, the date a record was created on, and what a merge       *)
(* keeps.  The invariant says of every copy of a record, wherever it is    *)
(* (the repo, the feed, isnot.db, a request, the merge job), that its rkey *)
(* was given out, that it is dated as every other copy of that rkey, and   *)
(* that it is not from the future; and of the job that what it holds is    *)
(* what the repo still holds, as long as the head it read is the head.     *)
(***************************************************************************)
EXTENDS SiteReviews, ReviewMergeProofs, FiniteSetTheorems

Op == [rkey : RKey, value : Review \cup {None}]

PendingOps == UNION {pending[i] : i \in 1..Len(pending)}

InRequests == {[rkey |-> requests[b].rkey, value |-> requests[b].record] : b \in Browser}

InTable(table) == {[rkey |-> r, value |-> table[r]] : r \in RKey}

Held == UNION {InTable(repo), InTable(view), PendingOps, InRequests,
               job.listed, UNION job.todo}

Copies == {x \in Held : x.rkey # None /\ x.value # None}

SameDate == \A x, y \in Copies : x.rkey = y.rkey => x.value.createdAt = y.value.createdAt

GivenOut == \A x \in Copies : x.rkey < nextKey

NotAhead ==
    /\ \A x \in Copies : x.value.updatedAt <= now
    /\ \A b \in Browser : requests[b].record # None => requests[b].record.updatedAt <= now

RequestsOK == \A b \in Browser : requests[b].stage = "sent" => requests[b].rkey # None

Distinct(records) == \A x, y \in records : x.rkey = y.rkey => x = y

JobOK ==
    /\ Distinct(job.listed)
    /\ \A x \in job.listed : job.below <= x.rkey
    /\ job.stage # "merge" => job.todo = {}
    /\ job.stage = "merge" => job.listed = {}
    /\ \A g \in job.todo : /\ g # {} /\ Distinct(g)
                           /\ \A x, y \in g : Subject(x.value) = Subject(y.value)
    /\ \A g, h \in job.todo : \A x \in g, y \in h : x.rkey = y.rkey => g = h

SwapOK ==
    /\ job.swapCommit <= head
    /\ job.stage # "idle" /\ job.swapCommit = head =>
            \A x \in job.listed \cup UNION job.todo : repo[x.rkey] = x.value

Inv == TypeOK /\ SameDate /\ GivenOut /\ NotAhead /\ RequestsOK /\ JobOK /\ SwapOK

-----------------------------------------------------------------------------
(* Values and types.                                                       *)
LEMMA MergeTagsType ==
    ASSUME NEW stored \in Tags, NEW offered \in Tags, NEW prefilled
    PROVE  MergeTags(stored, offered, prefilled) \in Tags
<1> DEFINE W == {w \in DOMAIN stored : w \in DOMAIN offered \/ w \notin prefilled}
                    \cup DOMAIN offered
           m == [w \in W |-> IF w \in DOMAIN offered THEN offered[w] ELSE stored[w]]
<1>1. MergeTags(stored, offered, prefilled) = m
    BY DEF MergeTags
<1>2. W \in SUBSET Word
    BY TagsFacts
<1>3. m \in [W -> Direction]
    BY TagsFacts
<1> QED BY <1>1, <1>2, <1>3 DEF Tags

LEMMA SavedRecordType ==
    ASSUME NEW found \in RKey \cup {None}, found # None => view[found] \in Review,
           NEW about \in About, NEW offered \in Tags, NEW prefilled,
           NEW dated \in BOOLEAN, NEW t \in Nat
    PROVE  LET record == SavedRecord(about, found, offered, prefilled, dated, t) IN
           /\ record \in Review
           /\ record.updatedAt = t
           /\ found # None => record.createdAt = view[found].createdAt
<1> DEFINE tags == IF found = None THEN offered
                   ELSE MergeTags(view[found].tags, offered, prefilled)
           created == IF found # None THEN view[found].createdAt
                      ELSE IF dated THEN 0 ELSE t
<1>1. tags \in Tags
    BY MergeTagsType, ReviewFields
<1>2. created \in Nat
    BY ReviewFields
<1>3. SavedRecord(about, found, offered, prefilled, dated, t) =
        [uri |-> about.uri, locale |-> about.locale, tags |-> tags,
         createdAt |-> created, updatedAt |-> t]
    BY DEF SavedRecord
<1> HIDE DEF tags
<1>4. about.uri \in Uri /\ about.locale \in Locale
    BY DEF About
<1> QED BY <1>1, <1>2, <1>3, <1>4 DEF Review

LEMMA CommitStep ==
    ASSUME TypeOK, NEW ops \in SUBSET Op, Commit(ops)
    PROVE  /\ repo' \in [RKey -> Review \cup {None}]
           /\ head' = head + 1 /\ head' \in Nat
           /\ pending' \in Seq(SUBSET Op)
           /\ InTable(repo)' \subseteq InTable(repo) \cup ops
           /\ PendingOps' \subseteq PendingOps \cup ops
<1>1. ASSUME NEW r \in RKey
      PROVE  /\ repo'[r] \in Review \cup {None}
             /\ [rkey |-> r, value |-> repo'[r]] \in InTable(repo) \cup ops
  <2>1. CASE \E op \in ops : op.rkey = r
    <3>1. PICK op \in ops : op.rkey = r /\ repo'[r] = op.value
        BY <2>1 DEF Commit
    <3>2. op = [rkey |-> op.rkey, value |-> op.value] /\ op.value \in Review \cup {None}
        BY DEF Op
    <3> QED BY <3>1, <3>2
  <2>2. CASE ~\E op \in ops : op.rkey = r
    <3>1. repo'[r] = repo[r]
        BY <2>2 DEF Commit
    <3> QED BY <3>1 DEF TypeOK, InTable
  <2> QED BY <2>1, <2>2
<1>2. repo' \in [RKey -> Review \cup {None}]
    BY <1>1 DEF Commit
<1>3. InTable(repo)' \subseteq InTable(repo) \cup ops
    BY <1>1 DEF InTable
<1>4. pending \in Seq(SUBSET Op)
    BY DEF TypeOK, Op
<1>5. pending' \in Seq(SUBSET Op) /\ Len(pending') = Len(pending) + 1
    BY <1>4 DEF Commit
<1>6. \A i \in 1..Len(pending') : pending'[i] = ops \/ (i \in 1..Len(pending) /\ pending'[i] = pending[i])
    BY <1>4 DEF Commit
<1>7. PendingOps' \subseteq PendingOps \cup ops
    BY <1>6 DEF PendingOps
<1>8. head \in Nat
    BY DEF TypeOK
<1>9. head' = head + 1 /\ head' \in Nat
    BY <1>8 DEF Commit
<1> QED BY <1>2, <1>3, <1>5, <1>7, <1>9

(* A group the job holds is one the merge lemmas speak of.                 *)
LEMMA JobGroups ==
    ASSUME Inv, NEW g \in job.todo
    PROVE  /\ IsGroup(g, now + MaxWrites) /\ now + MaxWrites \in Nat
           /\ g \subseteq Listed /\ g \subseteq Copies
           /\ \A x \in g : Subject(x.value) = Subject(MergedRecord(g))
<1>1. g \subseteq Listed /\ now \in Nat /\ MaxWrites \in Nat
    BY BoundAssumption DEF Inv, TypeOK
<1>2. \A x \in g : x.rkey \in RKey /\ x.value \in Review
    BY <1>1 DEF Listed
<1>3. g \subseteq Copies
  <2>1. None \notin RKey /\ None \notin Review
      BY NoneAssumption DEF RKey
  <2> QED BY <1>2, <2>1 DEF Copies, Held
<1>4. IsGroup(g, now + MaxWrites)
  <2>1. \A x \in g : x.value.updatedAt <= now
      BY <1>3 DEF Inv, NotAhead
  <2>2. \A x \in g : x.value.updatedAt \in Nat
      BY <1>2, ReviewFields
  <2>3. \A x \in g : x.value.updatedAt <= now + MaxWrites
      BY <2>1, <2>2, <1>1
  <2>4. \A x \in g : x.rkey \in 0..(now + MaxWrites)
      BY <1>2, <1>1 DEF RKey
  <2>5. g # {} /\ Distinct(g)
      BY DEF Inv, JobOK
  <2> QED BY <1>2, <2>3, <2>4, <2>5 DEF IsGroup, Distinct
<1>5. ASSUME NEW x \in g PROVE Subject(x.value) = Subject(MergedRecord(g))
  <2>1. \A y \in g : Subject(y.value) = Subject(x.value)
      BY DEF Inv, JobOK
  <2> QED BY <2>1, <1>1, <1>4, MergedRecordFacts
<1> QED BY <1>1, <1>3, <1>4, <1>5

(* What the merge of a group writes: one record, dated as its rkey's other *)
(* copies, and nothing else.                                               *)
LEMMA MergeWritesFacts ==
    ASSUME Inv, NEW g \in job.todo
    PROVE  /\ MergeWrites(g) \in SUBSET Op
           /\ \A op \in MergeWrites(g) : op.value # None =>
                /\ op = [rkey |-> PickKeeper(g).rkey, value |-> MergedRecord(g)]
                /\ op.value.updatedAt <= now
                /\ \E y \in Copies : y.rkey = op.rkey /\ y.value.createdAt = op.value.createdAt
<1> DEFINE k == PickKeeper(g)  m == MergedRecord(g)
<1>1. k \in g
    BY JobGroups, KeeperExists
<1>2. m \in Review /\ m.createdAt = k.value.createdAt
  <2>1. \A x \in g : Subject(x.value) = Subject(m)
      BY JobGroups
  <2> QED BY <2>1, JobGroups, MergedRecordFacts
<1>3. m.updatedAt <= now
  <2>1. LatestOf(g) \in g /\ LatestOf(g) \in Copies
      BY JobGroups, LatestExists
  <2>2. LatestOf(g).value \in Review
      BY <2>1, JobGroups DEF Listed
  <2>3. m.updatedAt = LatestOf(g).value.updatedAt
      BY <2>2 DEF MergedRecord, Review
  <2> QED BY <2>1, <2>3 DEF Inv, NotAhead
<1>4. k.rkey \in RKey /\ \A x \in g : x.rkey \in RKey
    BY <1>1, JobGroups DEF Listed
<1>5. MergeWrites(g) = {[rkey |-> k.rkey, value |-> m]}
                        \cup {[rkey |-> x.rkey, value |-> None] : x \in g \ {k}}
    BY DEF MergeWrites
<1>6. k \in Copies
    BY <1>1, JobGroups
<1> HIDE DEF k, m
<1>7. MergeWrites(g) \in SUBSET Op
    BY <1>2, <1>4, <1>5 DEF Op
<1>8. ASSUME NEW op \in MergeWrites(g), op.value # None
      PROVE  op = [rkey |-> k.rkey, value |-> m]
    BY <1>5, <1>8
<1> QED BY <1>2, <1>3, <1>6, <1>7, <1>8 DEF k, m

-----------------------------------------------------------------------------
(* Copies and how a step may move them.                                    *)
LEMMA CopiesType == TypeOK => Copies \subseteq Listed
<1> SUFFICES ASSUME TypeOK PROVE Copies \subseteq Listed
    OBVIOUS
<1> DEFINE Place == [rkey : RKey \cup {None}, value : Review \cup {None}]
<1>1. InTable(repo) \subseteq Place /\ InTable(view) \subseteq Place
    BY DEF TypeOK, InTable
<1>2. PendingOps \subseteq Place
    BY DEF TypeOK, PendingOps
<1>3. InRequests \subseteq Place
    BY DEF TypeOK, InRequests
<1>4. job.listed \subseteq Place /\ UNION job.todo \subseteq Place
    BY DEF TypeOK, Listed
<1>5. Held \subseteq Place
    BY <1>1, <1>2, <1>3, <1>4 DEF Held
<1> HIDE DEF Held
<1> QED BY <1>5 DEF Copies, Listed

(* What a step adds may only be another copy of what is there.             *)
LEMMA CopiesStep ==
    ASSUME Inv, TypeOK', now <= now', nextKey <= nextKey',
           NEW N, Held' \subseteq Held \cup N,
           \A n \in N : n.rkey # None /\ n.value # None =>
                /\ n.value.updatedAt <= now'
                /\ \E y \in Copies : /\ y.rkey = n.rkey
                                     /\ y.value.createdAt = n.value.createdAt
    PROVE  SameDate' /\ GivenOut' /\ \A x \in Copies' : x.value.updatedAt <= now'
<1>1. Copies \subseteq Listed /\ Copies' \subseteq Listed
  <2>1. Copies \subseteq Listed
      BY CopiesType DEF Inv
  <2>2. (TypeOK => Copies \subseteq Listed)'
      BY CopiesType, PTL
  <2> QED BY <2>1, <2>2 DEF Listed
<1>2. now \in Nat /\ now' \in Nat /\ nextKey \in Nat /\ nextKey' \in Nat
    BY DEF Inv, TypeOK
<1>3. \A x \in Copies' :
        /\ x.value.updatedAt <= now'
        /\ \E y \in Copies : y.rkey = x.rkey /\ y.value.createdAt = x.value.createdAt
  <2> SUFFICES ASSUME NEW x \in Copies'
               PROVE  /\ x.value.updatedAt <= now'
                      /\ \E y \in Copies : /\ y.rkey = x.rkey
                                           /\ y.value.createdAt = x.value.createdAt
      OBVIOUS
  <2>1. x \in Held' /\ x.rkey # None /\ x.value # None
      BY DEF Copies
  <2>2. CASE x \in N
      BY <2>1, <2>2
  <2>3. CASE x \notin N
    <3>1. x \in Copies
        BY <2>1, <2>3 DEF Copies
    <3>2. x.value.updatedAt <= now /\ x.value.updatedAt \in Nat
        BY <3>1, <1>1, ReviewFields DEF Inv, NotAhead, Listed
    <3> QED BY <3>1, <3>2, <1>2
  <2> QED BY <2>2, <2>3
<1>4. SameDate'
  <2> SUFFICES ASSUME NEW x \in Copies', NEW y \in Copies', x.rkey = y.rkey
               PROVE  x.value.createdAt = y.value.createdAt
      BY DEF SameDate
  <2>1. PICK u \in Copies : u.rkey = x.rkey /\ u.value.createdAt = x.value.createdAt
      BY <1>3
  <2>2. PICK v \in Copies : v.rkey = y.rkey /\ v.value.createdAt = y.value.createdAt
      BY <1>3
  <2> QED BY <2>1, <2>2 DEF Inv, SameDate
<1>5. GivenOut'
  <2> SUFFICES ASSUME NEW x \in Copies' PROVE x.rkey < nextKey'
      BY DEF GivenOut
  <2>1. PICK u \in Copies : u.rkey = x.rkey
      BY <1>3
  <2>2. u.rkey < nextKey /\ u.rkey \in Nat
      BY <1>1 DEF Inv, GivenOut, Listed, RKey
  <2> QED BY <2>1, <2>2, <1>2
<1> QED BY <1>3, <1>4, <1>5

LEMMA CopiesKept ==
    ASSUME Inv, TypeOK', now <= now', nextKey <= nextKey', Held' \subseteq Held
    PROVE  SameDate' /\ GivenOut' /\ \A x \in Copies' : x.value.updatedAt <= now'
<1> DEFINE N == {}
<1>1. Held' \subseteq Held \cup N
    OBVIOUS
<1>2. \A n \in N : n.rkey # None /\ n.value # None =>
                /\ n.value.updatedAt <= now'
                /\ \E y \in Copies : /\ y.rkey = n.rkey
                                     /\ y.value.createdAt = n.value.createdAt
    OBVIOUS
<1> HIDE DEF N
<1> QED BY <1>1, <1>2, CopiesStep

(* The feed, as its first commit is stored.                                *)
LEMMA TailFacts ==
    ASSUME NEW S, NEW q \in Seq(S), q # <<>>
    PROVE  /\ Tail(q) \in Seq(S) /\ Len(Tail(q)) = Len(q) - 1
           /\ \A i \in 1..Len(Tail(q)) : i + 1 \in 1..Len(q) /\ Tail(q)[i] = q[i + 1]
OBVIOUS

(* The parts of the invariant about what a step leaves alone.              *)
LEMMA JobUntouched ==
    ASSUME Inv, UNCHANGED job, head' \in Nat, head <= head',
           head' = head => repo' = repo
    PROVE  JobOK' /\ SwapOK'
<1>1. JobOK'
    BY DEF Inv, JobOK, Distinct
<1>2. SwapOK'
  <2>1. head \in Nat /\ job.swapCommit \in Nat /\ job.swapCommit <= head
      BY DEF Inv, TypeOK, SwapOK
  <2>2. job.swapCommit <= head'
      BY <2>1
  <2>3. job.swapCommit = head' => head' = head
      BY <2>1
  <2>4. job.stage # "idle" /\ job.swapCommit = head' =>
            \A x \in job.listed \cup UNION job.todo : repo'[x.rkey] = x.value
      BY <2>3 DEF Inv, SwapOK
  <2> QED BY <2>2, <2>4 DEF SwapOK
<1> QED BY <1>1, <1>2

LEMMA IngestedStep == ASSUME Inv, Ingested PROVE Inv'
<1> USE DEF Ingested, pds, clock
<1>1. PICK op \in pending[1] :
        /\ view' = [view EXCEPT ![op.rkey] = op.value]
        /\ pending' = IF pending[1] = {op} THEN Tail(pending)
                      ELSE [pending EXCEPT ![1] = @ \ {op}]
    OBVIOUS
<1>2. pending \in Seq(SUBSET Op) /\ pending # <<>> /\ Len(pending) \in Nat
    BY DEF Inv, TypeOK, Op
<1>3. 1 \in 1..Len(pending) /\ pending[1] \in SUBSET Op
    BY <1>2
<1>4. op \in Op /\ op \in PendingOps
    BY <1>1, <1>3 DEF PendingOps
<1>5. pending' \in Seq(SUBSET Op) /\ PendingOps' \subseteq PendingOps
  <2>1. CASE pending[1] = {op}
    <3>1. pending' = Tail(pending)
        BY <1>1, <2>1
    <3>2. pending' \in Seq(SUBSET Op)
        BY <3>1, <1>2, TailFacts
    <3>3. \A i \in 1..Len(pending') : i + 1 \in 1..Len(pending) /\ pending'[i] = pending[i + 1]
        BY <3>1, <1>2, TailFacts
    <3>4. PendingOps' \subseteq PendingOps
      <4> HIDE DEF Ingested
      <4> SUFFICES ASSUME NEW i \in 1..Len(pending'), NEW o \in pending'[i] PROVE o \in PendingOps
          BY DEF PendingOps
      <4>1. i + 1 \in 1..Len(pending) /\ o \in pending[i + 1]
          BY <3>3
      <4> QED BY <4>1 DEF PendingOps
    <3> QED BY <3>2, <3>4
  <2>2. CASE pending[1] # {op}
    <3>1. pending' = [pending EXCEPT ![1] = @ \ {op}]
        BY <1>1, <2>2
    <3>2. pending \in [1..Len(pending) -> SUBSET Op]
        BY <1>2
    <3>3. /\ pending' \in [1..Len(pending) -> SUBSET Op]
          /\ \A i \in 1..Len(pending) : pending'[i] \subseteq pending[i]
        BY <3>1, <3>2, <1>3
    <3>4. pending' \in Seq(SUBSET Op) /\ Len(pending') = Len(pending)
        BY <3>3, <1>2
    <3> QED BY <3>3, <3>4 DEF PendingOps
  <2> QED BY <2>1, <2>2
<1>6. view' \in [RKey -> Review \cup {None}] /\ InTable(view)' \subseteq InTable(view) \cup {op}
  <2>1. op = [rkey |-> op.rkey, value |-> op.value] /\ op.rkey \in RKey
        /\ op.value \in Review \cup {None}
      BY <1>4 DEF Op
  <2>2. view \in [RKey -> Review \cup {None}]
      BY DEF Inv, TypeOK
  <2> QED BY <1>1, <2>1, <2>2 DEF InTable
<1>7. TypeOK'
    BY <1>5, <1>6 DEF Inv, TypeOK, Op
<1>8. Held' \subseteq Held
    BY <1>4, <1>5, <1>6 DEF Held, InTable, InRequests
<1>9. now <= now' /\ nextKey <= nextKey'
    BY DEF Inv, TypeOK
<1>10. SameDate' /\ GivenOut' /\ \A x \in Copies' : x.value.updatedAt <= now'
    BY <1>7, <1>8, <1>9, CopiesKept
<1>11. NotAhead' /\ RequestsOK'
    BY <1>10 DEF Inv, NotAhead, RequestsOK
<1>12. JobOK' /\ SwapOK'
    BY JobUntouched DEF Inv, TypeOK
<1> QED BY <1>7, <1>10, <1>11, <1>12 DEF Inv

-----------------------------------------------------------------------------
(* The browsers' steps.                                                    *)
LEMMA FoundFacts ==
    ASSUME TypeOK, NEW about, NEW r \in FindReview(about)
    PROVE  r \in RKey \cup {None} /\ (r # None => r \in RKey /\ view[r] \in Review)
BY DEF FindReview, TypeOK

LEMMA InViewFacts ==
    ASSUME NEW r \in RKey, view[r] # None
    PROVE  [rkey |-> r, value |-> view[r]] \in Copies
<1>1. r # None
    BY NoneAssumption, BoundAssumption DEF RKey
<1> QED BY <1>1 DEF Copies, Held, InTable

LEMMA LoadExistingStep ==
    ASSUME Inv, NEW b \in Browser, NEW about \in About, LoadExisting(b, about)
    PROVE  Inv'
<1> USE DEF LoadExisting, pds, clock
<1>1. PICK r \in FindReview(about) :
        /\ r # None
        /\ forms' = [forms EXCEPT ![b] = [about |-> about,
                                          prefilled |-> DOMAIN view[r].tags]]
    OBVIOUS
<1>2. view[r] \in Review
    BY <1>1, FoundFacts DEF Inv
<1>3. DOMAIN view[r].tags \in SUBSET Word
    BY <1>2, ReviewFields, TagsFacts
<1>4. forms' \in [Browser -> [about : About \cup {None}, prefilled : SUBSET Word]]
    BY <1>1, <1>3 DEF Inv, TypeOK
<1>5. TypeOK'
    BY <1>4 DEF Inv, TypeOK
<1>6. Held' \subseteq Held /\ now <= now' /\ nextKey <= nextKey'
    BY DEF Held, InTable, InRequests, PendingOps, Inv, TypeOK
<1>7. SameDate' /\ GivenOut' /\ \A x \in Copies' : x.value.updatedAt <= now'
    BY <1>5, <1>6, CopiesKept
<1>8. NotAhead' /\ RequestsOK'
    BY <1>7 DEF Inv, NotAhead, RequestsOK
<1>9. JobOK' /\ SwapOK'
    BY JobUntouched DEF Inv, TypeOK
<1> QED BY <1>5, <1>7, <1>8, <1>9 DEF Inv

LEMMA ClearFormStep ==
    ASSUME Inv, NEW b \in Browser, ClearForm(b)
    PROVE  Inv'
<1> USE DEF ClearForm, pds, clock
<1>1. TypeOK'
    BY DEF Inv, TypeOK, BlankForm
<1>2. Held' \subseteq Held /\ now <= now' /\ nextKey <= nextKey'
    BY DEF Held, InTable, InRequests, PendingOps, Inv, TypeOK
<1>3. SameDate' /\ GivenOut' /\ \A x \in Copies' : x.value.updatedAt <= now'
    BY <1>1, <1>2, CopiesKept
<1>4. NotAhead' /\ RequestsOK'
    BY <1>3 DEF Inv, NotAhead, RequestsOK
<1>5. JobOK' /\ SwapOK'
    BY JobUntouched DEF Inv, TypeOK
<1> QED BY <1>1, <1>3, <1>4, <1>5 DEF Inv

LEMMA SaveStep ==
    ASSUME Inv, NEW b \in Browser, NEW about \in About, NEW offered \in Offers,
           NEW dated \in BOOLEAN, Save(b, about, offered, dated)
    PROVE  Inv'
<1> USE DEF Save, pds, clock
<1>1. PICK found \in FindReview(about), t \in {now, now + 1} :
        /\ requests' = [requests EXCEPT ![b] =
              [stage |-> "agent", rkey |-> found,
               record |-> SavedRecord(about, found, offered, forms[b].prefilled, dated, t)]]
        /\ now' = t
    OBVIOUS
<1> DEFINE record == SavedRecord(about, found, offered, forms[b].prefilled, dated, t)
           new == [rkey |-> found, value |-> record]
<1>2. /\ now \in Nat /\ now' \in Nat /\ now <= now' /\ nextKey <= nextKey' /\ t \in Nat
      /\ writes' \in Nat
    BY <1>1 DEF Inv, TypeOK
<1>3. found \in RKey \cup {None} /\ (found # None => found \in RKey /\ view[found] \in Review)
    BY FoundFacts DEF Inv
<1>4. /\ record \in Review /\ record.updatedAt = now'
      /\ found # None => record.createdAt = view[found].createdAt
  <2>1. offered \in Tags
      BY OffersAssumption
  <2> QED BY <1>1, <1>2, <1>3, <2>1, SavedRecordType
<1> HIDE DEF record
<1>5. requests' = [requests EXCEPT ![b] = [stage |-> "agent", rkey |-> found, record |-> record]]
    BY <1>1 DEF record
<1>6. TypeOK'
  <2>1. requests' \in [Browser -> [stage : {"idle", "agent", "sent"},
                                   rkey : RKey \cup {None}, record : Review \cup {None}]]
      BY <1>3, <1>4, <1>5 DEF Inv, TypeOK
  <2> QED BY <1>2, <2>1 DEF Inv, TypeOK
<1> DEFINE N == {new}
<1>7. Held' \subseteq Held \cup N
  <2>1. InRequests' \subseteq InRequests \cup N
      BY <1>5 DEF InRequests, Inv, TypeOK
  <2> QED BY <2>1 DEF Held, InTable, PendingOps
<1>8. \A n \in N : n.rkey # None /\ n.value # None =>
                /\ n.value.updatedAt <= now'
                /\ \E y \in Copies : /\ y.rkey = n.rkey
                                     /\ y.value.createdAt = n.value.createdAt
  <2>1. record.updatedAt <= now'
      BY <1>2, <1>4
  <2>2. found # None => view[found] # None
      BY <1>3, NoneAssumption
  <2>3. found # None => [rkey |-> found, value |-> view[found]] \in Copies
      BY <1>3, <2>2, InViewFacts
  <2> QED BY <1>4, <2>1, <2>3
<1> HIDE DEF N
<1>9. SameDate' /\ GivenOut' /\ \A x \in Copies' : x.value.updatedAt <= now'
    BY <1>2, <1>6, <1>7, <1>8, CopiesStep
<1>10. NotAhead'
  <2>1. ASSUME NEW c \in Browser, requests'[c].record # None
        PROVE  requests'[c].record.updatedAt <= now'
    <3>1. CASE c = b
        BY <1>2, <1>4, <1>5, <3>1 DEF Inv, TypeOK
    <3>2. CASE c # b
      <4>1. requests'[c] = requests[c]
          BY <1>5, <3>2 DEF Inv, TypeOK
      <4>2. requests[c].record \in Review
          BY <2>1, <4>1 DEF Inv, TypeOK
      <4>3. requests[c].record.updatedAt <= now /\ requests[c].record.updatedAt \in Nat
          BY <2>1, <4>1, <4>2, ReviewFields DEF Inv, NotAhead
      <4> QED BY <1>2, <4>1, <4>3
    <3> QED BY <3>1, <3>2
  <2> QED BY <1>9, <2>1 DEF NotAhead
<1>11. RequestsOK'
    BY <1>5 DEF Inv, TypeOK, RequestsOK
<1>12. JobOK' /\ SwapOK'
    BY JobUntouched DEF Inv, TypeOK
<1> QED BY <1>6, <1>9, <1>10, <1>11, <1>12 DEF Inv

LEMMA DeleteStep ==
    ASSUME Inv, NEW b \in Browser, NEW r \in RKey, Delete(b, r)
    PROVE  Inv'
<1> USE DEF Delete, pds, clock
<1>1. TypeOK'
    BY DEF Inv, TypeOK
<1> DEFINE N == {[rkey |-> r, value |-> None]}
<1>2. Held' \subseteq Held \cup N
  <2>1. InRequests' \subseteq InRequests \cup N
      BY DEF InRequests, Inv, TypeOK
  <2> QED BY <2>1 DEF Held, InTable, PendingOps
<1>3. \A n \in N : n.value = None
    OBVIOUS
<1>4. now <= now' /\ nextKey <= nextKey'
    BY DEF Inv, TypeOK
<1> HIDE DEF N
<1>5. SameDate' /\ GivenOut' /\ \A x \in Copies' : x.value.updatedAt <= now'
    BY <1>1, <1>2, <1>3, <1>4, CopiesStep
<1>6. NotAhead' /\ RequestsOK'
    BY <1>5 DEF Inv, TypeOK, NotAhead, RequestsOK
<1>7. JobOK' /\ SwapOK'
    BY JobUntouched DEF Inv, TypeOK
<1> QED BY <1>1, <1>5, <1>6, <1>7 DEF Inv

(* A record that is created gets an rkey nothing else has.                 *)
LEMMA AgentReadyStep ==
    ASSUME Inv, NEW b \in Browser, AgentReady(b)
    PROVE  Inv'
<1> USE DEF pds, clock
<1> DEFINE key == IF requests[b].rkey = None THEN nextKey ELSE requests[b].rkey
           sent == [stage |-> "sent", rkey |-> key, record |-> requests[b].record]
<1>a. requests \in [Browser -> [stage : {"idle", "agent", "sent"},
                               rkey : RKey \cup {None}, record : Review \cup {None}]]
    BY DEF Inv, TypeOK
<1>b. key \in RKey /\ key # None
  <2>1. None \notin RKey
      BY NoneAssumption DEF RKey
  <2> QED BY <1>a, <2>1 DEF AgentReady
<1>c. requests' = [requests EXCEPT ![b] = sent]
  <2>1. [requests[b] EXCEPT !.stage = "sent"] =
            [stage |-> "sent", rkey |-> requests[b].rkey, record |-> requests[b].record]
      BY <1>a
  <2>2. [requests[b] EXCEPT !.stage = "sent", !.rkey = nextKey] =
            [stage |-> "sent", rkey |-> nextKey, record |-> requests[b].record]
    <3>1. [requests[b] EXCEPT !.stage = "sent", !.rkey = nextKey] =
            [[requests[b] EXCEPT !.stage = "sent"] EXCEPT !.rkey = nextKey]
        OBVIOUS
    <3> DEFINE first == [stage |-> "sent", rkey |-> requests[b].rkey,
                         record |-> requests[b].record]
    <3>2. [first EXCEPT !.rkey = nextKey] =
            [stage |-> "sent", rkey |-> nextKey, record |-> requests[b].record]
        OBVIOUS
    <3> QED BY <2>1, <3>1, <3>2, Zenon
  <2>3. CASE requests[b].rkey = None
    <3>1. requests' = [requests EXCEPT ![b].stage = "sent", ![b].rkey = nextKey]
        BY <2>3 DEF AgentReady
    <3>2. requests' = [requests EXCEPT ![b] = [requests[b] EXCEPT !.stage = "sent", !.rkey = nextKey]]
        BY <1>a, <3>1
    <3> QED BY <2>2, <2>3, <3>2
  <2>4. CASE requests[b].rkey # None
    <3>1. requests' = [requests EXCEPT ![b].stage = "sent"]
        BY <2>4 DEF AgentReady
    <3> QED BY <2>1, <2>4, <3>1
  <2> QED BY <2>3, <2>4
<1>d. /\ UNCHANGED <<pds, view, forms, job, now, careful, writes, faults>>
      /\ nextKey' \in {nextKey, nextKey + 1}
      /\ requests[b].rkey = None => nextKey' = nextKey + 1
    BY DEF AgentReady
<1>1. TypeOK'
  <2>1. requests' \in [Browser -> [stage : {"idle", "agent", "sent"},
                               rkey : RKey \cup {None}, record : Review \cup {None}]]
      BY <1>a, <1>b, <1>c
  <2> QED BY <1>d, <2>1 DEF Inv, TypeOK
<1>2. JobOK' /\ SwapOK'
    BY <1>d, JobUntouched DEF Inv, TypeOK
<1>3. RequestsOK'
    BY <1>a, <1>b, <1>c DEF Inv, RequestsOK
<1>4. \A c \in Browser : requests'[c].record = requests[c].record
    BY <1>a, <1>c
<1>5. nextKey \in Nat /\ now \in Nat /\ nextKey <= nextKey' /\ now <= now'
    BY <1>d DEF Inv, TypeOK
<1>6. CASE requests[b].rkey # None
  <2>1. InRequests' = InRequests
      BY <1>6, <1>a, <1>c DEF InRequests
  <2>2. Held' \subseteq Held
      BY <1>d, <2>1 DEF Held, InTable, PendingOps
  <2>3. SameDate' /\ GivenOut' /\ \A x \in Copies' : x.value.updatedAt <= now'
      BY <1>1, <1>5, <2>2, CopiesKept
  <2>4. NotAhead'
      BY <1>4, <1>d, <2>3 DEF Inv, NotAhead
  <2> QED BY <1>1, <1>2, <1>3, <2>3, <2>4 DEF Inv
<1>7. CASE requests[b].rkey = None
  <2> DEFINE new == [rkey |-> nextKey, value |-> requests[b].record]
  <2>1. nextKey' = nextKey + 1 /\ key = nextKey
      BY <1>7, <1>d
  <2>2. InRequests' \subseteq InRequests \cup {new}
      BY <1>a, <1>c, <2>1 DEF InRequests
  <2>3. Copies' \subseteq Copies \cup {new}
      BY <1>d, <2>2 DEF Copies, Held, InTable, PendingOps
  <2>4. new \in Copies' => new.value.updatedAt <= now
      BY DEF Copies, Inv, NotAhead
  <2>5. \A x \in Copies : x.rkey < nextKey /\ x.rkey \in Nat
      BY CopiesType DEF Inv, GivenOut, Listed, RKey
  <2> HIDE DEF new
  <2>6. SameDate'
    <3> SUFFICES ASSUME NEW x \in Copies', NEW y \in Copies', x.rkey = y.rkey
                 PROVE  x.value.createdAt = y.value.createdAt
        BY DEF SameDate
    <3>1. CASE x \in Copies /\ y \in Copies
        BY <3>1 DEF Inv, SameDate
    <3>2. CASE x = new \/ y = new
        BY <3>2, <2>3, <2>5, <1>5 DEF new
    <3> QED BY <3>1, <3>2, <2>3
  <2>7. GivenOut'
      BY <2>1, <2>3, <2>5, <1>5 DEF GivenOut, new
  <2>8. NotAhead'
      BY <1>4, <1>d, <2>3, <2>4 DEF Inv, NotAhead
  <2> QED BY <1>1, <1>2, <1>3, <2>6, <2>7, <2>8 DEF Inv
<1> QED BY <1>6, <1>7

(* A request is done with: nothing else moved.                             *)
LEMMA RequestDone ==
    ASSUME Inv, NEW b \in Browser, requests' = [requests EXCEPT ![b] = NoRequest],
           UNCHANGED <<view, job, nextKey, now>>, TypeOK',
           NEW ops, InTable(repo)' \subseteq InTable(repo) \cup ops,
           PendingOps' \subseteq PendingOps \cup ops,
           ops \subseteq InRequests
    PROVE  SameDate' /\ GivenOut' /\ NotAhead' /\ RequestsOK'
<1> DEFINE N == {[rkey |-> None, value |-> None]}
<1>1. InRequests' \subseteq InRequests \cup N
    BY DEF InRequests, Inv, TypeOK, NoRequest
<1>2. Held' \subseteq Held \cup N
    BY <1>1 DEF Held, InTable
<1>3. \A n \in N : n.rkey = None
    OBVIOUS
<1>4. now <= now' /\ nextKey <= nextKey'
    BY DEF Inv, TypeOK
<1> HIDE DEF N
<1>5. SameDate' /\ GivenOut' /\ \A x \in Copies' : x.value.updatedAt <= now'
    BY <1>2, <1>3, <1>4, CopiesStep
<1>6. NotAhead' /\ RequestsOK'
    BY <1>5 DEF Inv, TypeOK, NotAhead, RequestsOK, NoRequest
<1> QED BY <1>5, <1>6

LEMMA NoRequestType ==
    NoRequest \in [stage : {"idle", "agent", "sent"},
                   rkey : RKey \cup {None}, record : Review \cup {None}]
BY DEF NoRequest

LEMMA WriteFailsStep ==
    ASSUME Inv, NEW b \in Browser, WriteFails(b)
    PROVE  Inv'
<1> USE DEF WriteFails, Fault, pds, clock
<1>1. TypeOK'
    BY NoRequestType DEF Inv, TypeOK
<1>2. InTable(repo)' = InTable(repo) /\ PendingOps' = PendingOps
    BY DEF InTable, PendingOps
<1> DEFINE ops == {}
<1>3. /\ InTable(repo)' \subseteq InTable(repo) \cup ops
      /\ PendingOps' \subseteq PendingOps \cup ops
      /\ ops \subseteq InRequests
    BY <1>2
<1> HIDE DEF ops
<1>4. SameDate' /\ GivenOut' /\ NotAhead' /\ RequestsOK'
    BY <1>1, <1>3, RequestDone
<1>5. JobOK' /\ SwapOK'
    BY JobUntouched DEF Inv, TypeOK
<1> QED BY <1>1, <1>4, <1>5 DEF Inv

(* The PDS applied a request, whether or not the answer came.              *)
LEMMA AppliedFacts ==
    ASSUME Inv, NEW b \in Browser, requests[b].stage = "sent", Applied(b),
           NEW ops, ops = {[rkey |-> requests[b].rkey, value |-> requests[b].record]}
    PROVE  /\ ops \in SUBSET Op /\ ops \subseteq InRequests
           /\ repo' \in [RKey -> Review \cup {None}] /\ head' \in Nat
           /\ pending' \in Seq(SUBSET Op)
           /\ head <= head' /\ (head' = head => repo' = repo)
           /\ InTable(repo)' \subseteq InTable(repo) \cup ops
           /\ PendingOps' \subseteq PendingOps \cup ops
           /\ UNCHANGED pds \/ Commit(ops)
<1>1. ops \in SUBSET Op /\ ops \subseteq InRequests
    BY DEF Inv, RequestsOK, TypeOK, Op, InRequests
<1>2. UNCHANGED pds \/ Commit(ops)
    BY DEF Applied
<1>3. head \in Nat /\ TypeOK
    BY DEF Inv, TypeOK
<1>4. CASE UNCHANGED pds
    BY <1>1, <1>3, <1>4 DEF pds, InTable, PendingOps, TypeOK, Op
<1>5. CASE Commit(ops)
    BY <1>1, <1>3, <1>5, CommitStep
<1> QED BY <1>1, <1>2, <1>4, <1>5

LEMMA WriteStep ==
    ASSUME Inv, NEW b \in Browser, WriteLands(b) \/ WriteUnanswered(b)
    PROVE  Inv'
<1> USE DEF WriteLands, WriteUnanswered, Fault, clock
<1> DEFINE ops == {[rkey |-> requests[b].rkey, value |-> requests[b].record]}
<1>1. /\ ops \subseteq InRequests
      /\ repo' \in [RKey -> Review \cup {None}] /\ head' \in Nat
      /\ pending' \in Seq(SUBSET Op)
      /\ head <= head' /\ (head' = head => repo' = repo)
      /\ InTable(repo)' \subseteq InTable(repo) \cup ops
      /\ PendingOps' \subseteq PendingOps \cup ops
    BY AppliedFacts
<1> HIDE DEF ops
<1>2. requests' = [requests EXCEPT ![b] = NoRequest] /\ UNCHANGED <<view, job, nextKey, now, careful, writes>>
    OBVIOUS
<1>3. forms' \in [Browser -> [about : About \cup {None}, prefilled : SUBSET Word]]
    BY DEF Inv, TypeOK, BlankForm
<1>4. faults' \in Nat
    BY DEF Inv, TypeOK
<1>5. TypeOK'
    BY <1>1, <1>2, <1>3, <1>4, NoRequestType DEF Inv, TypeOK, Op
<1>6. SameDate' /\ GivenOut' /\ NotAhead' /\ RequestsOK'
    BY <1>1, <1>2, <1>5, RequestDone
<1>7. JobOK' /\ SwapOK'
    BY <1>1, <1>2, JobUntouched
<1> QED BY <1>5, <1>6, <1>7 DEF Inv

-----------------------------------------------------------------------------
(* The job's steps.                                                        *)
LEMMA JobMoves ==
    ASSUME Inv, TypeOK', UNCHANGED <<view, requests, nextKey, now>>, NEW N,
           InTable(repo)' \subseteq InTable(repo) \cup N,
           PendingOps' \subseteq PendingOps \cup N,
           job'.listed \cup UNION job'.todo \subseteq Held,
           \A n \in N : n.rkey # None /\ n.value # None =>
                /\ n.value.updatedAt <= now
                /\ \E y \in Copies : /\ y.rkey = n.rkey
                                     /\ y.value.createdAt = n.value.createdAt
    PROVE  SameDate' /\ GivenOut' /\ NotAhead' /\ RequestsOK'
<1>1. InTable(view)' = InTable(view) /\ InRequests' = InRequests
    BY DEF InTable, InRequests
<1>2. Held' \subseteq Held \cup N
    BY <1>1 DEF Held
<1>3. now' = now /\ now <= now' /\ nextKey <= nextKey'
    BY DEF Inv, TypeOK
<1>4. SameDate' /\ GivenOut' /\ \A x \in Copies' : x.value.updatedAt <= now'
    BY <1>2, <1>3, CopiesStep
<1>5. NotAhead' /\ RequestsOK'
    BY <1>4 DEF Inv, NotAhead, RequestsOK
<1> QED BY <1>4, <1>5

LEMMA JobReads ==
    ASSUME Inv, TypeOK', UNCHANGED <<repo, pending, view, requests, nextKey, now>>,
           job'.listed \cup UNION job'.todo \subseteq Held
    PROVE  SameDate' /\ GivenOut' /\ NotAhead' /\ RequestsOK'
<1> DEFINE N == {}
<1>1. InTable(repo)' \subseteq InTable(repo) \cup N /\ PendingOps' \subseteq PendingOps \cup N
    BY DEF InTable, PendingOps
<1>2. \A n \in N : n.rkey # None /\ n.value # None =>
                /\ n.value.updatedAt <= now
                /\ \E y \in Copies : /\ y.rkey = n.rkey
                                     /\ y.value.createdAt = n.value.createdAt
    OBVIOUS
<1> HIDE DEF N
<1> QED BY <1>1, <1>2, JobMoves

LEMMA JobStopped ==
    ASSUME job' = NoJob, head' \in Nat
    PROVE  /\ JobOK' /\ SwapOK'
           /\ job'.listed \cup UNION job'.todo = {}
           /\ job' \in [stage : {"idle", "list", "merge"}, swapCommit : Nat, below : Nat,
                        listed : SUBSET Listed, todo : SUBSET SUBSET Listed]
BY DEF NoJob, JobOK, SwapOK, Distinct

LEMMA JobStartsStep == ASSUME Inv, JobStarts PROVE Inv'
<1>0. UNCHANGED <<repo, head, pending, view, forms, requests, nextKey, now, careful, writes, faults>>
    BY DEF JobStarts, pds, clock
<1>1. job' = [stage |-> "list", swapCommit |-> head, below |-> MaxWrites + 1,
              listed |-> {}, todo |-> {}]
    BY DEF JobStarts, NoJob
<1>2. TypeOK'
    BY <1>0, <1>1, BoundAssumption DEF Inv, TypeOK
<1>3. job'.listed \cup UNION job'.todo = {}
  <2>1. job'.listed = {} /\ job'.todo = {}
      BY <1>1
  <2>2. UNION job'.todo = {}
      BY <2>1
  <2> QED BY <2>1, <2>2
<1>4. JobOK' /\ SwapOK'
  <2>1. JobOK'
      BY <1>1 DEF JobOK, Distinct
  <2>2. job'.swapCommit <= head'
      BY <1>0, <1>1 DEF Inv, TypeOK
  <2> QED BY <1>3, <2>1, <2>2 DEF SwapOK
<1>5. SameDate' /\ GivenOut' /\ NotAhead' /\ RequestsOK'
    BY <1>0, <1>2, <1>3, JobReads
<1> QED BY <1>2, <1>4, <1>5 DEF Inv

LEMMA ListPageStep == ASSUME Inv, ListPage PROVE Inv'
<1> USE DEF ListPage, pds, clock
<1>1. PICK r \in Unlisted :
        job' = [job EXCEPT !.below = r, !.listed = @ \cup {[rkey |-> r, value |-> repo[r]]}]
    OBVIOUS
<1> DEFINE new == [rkey |-> r, value |-> repo[r]]
<1>2. job \in [stage : {"idle", "list", "merge"}, swapCommit : Nat, below : Nat,
               listed : SUBSET Listed, todo : SUBSET SUBSET Listed]
    BY DEF Inv, TypeOK
<1>3. /\ job'.stage = "list" /\ job'.swapCommit = job.swapCommit /\ job'.below = r
      /\ job'.listed = job.listed \cup {new} /\ job'.todo = job.todo
      /\ job' = [stage |-> job.stage, swapCommit |-> job.swapCommit, below |-> r,
                 listed |-> job.listed \cup {new}, todo |-> job.todo]
    BY <1>1, <1>2
<1>4. /\ r \in RKey /\ r \in Nat /\ r < job.below
      /\ repo[r] \in Review /\ new \in Listed /\ new \in InTable(repo)
    BY DEF Unlisted, Inv, TypeOK, RKey, Listed, InTable
<1> HIDE DEF new
<1>5. TypeOK'
    BY <1>2, <1>3, <1>4 DEF Inv, TypeOK
<1>6. job'.listed \cup UNION job'.todo \subseteq Held
    BY <1>3, <1>4 DEF Held
<1>7. SameDate' /\ GivenOut' /\ NotAhead' /\ RequestsOK'
    BY <1>5, <1>6, JobReads
<1>8. job.todo = {}
    BY DEF Inv, JobOK
<1>9. new.rkey = r /\ new.value = repo[r] /\ \A x \in job.listed : x.rkey \in Nat
    BY <1>2 DEF new, Listed, RKey
<1>10. JobOK'
  <2>1. \A x \in job.listed : job.below <= x.rkey /\ r < x.rkey
      BY <1>2, <1>4, <1>9 DEF Inv, JobOK
  <2>2. Distinct(job'.listed)
      BY <1>3, <1>4, <1>9, <2>1 DEF Distinct, Inv, JobOK
  <2>3. \A x \in job'.listed : job'.below <= x.rkey
      BY <1>3, <1>4, <1>9, <2>1
  <2> QED BY <1>3, <1>8, <2>2, <2>3 DEF JobOK, Distinct
<1>11. SwapOK'
    BY <1>3, <1>8, <1>9 DEF SwapOK, Inv
<1> QED BY <1>5, <1>7, <1>10, <1>11 DEF Inv

LEMMA GroupFacts ==
    ASSUME NEW records, NEW g \in Groups(records)
    PROVE  /\ g # {} /\ g \subseteq records
           /\ \A x, y \in g : Subject(x.value) = Subject(y.value)
           /\ \A h \in Groups(records) : (\E x \in g : x \in h) => g = h
<1>1. PICK a \in records : g = {x \in records : Subject(x.value) = Subject(a.value)}
    BY DEF Groups
<1>2. ASSUME NEW h \in Groups(records), NEW x \in g, x \in h PROVE g = h
  <2>1. PICK c \in records : h = {y \in records : Subject(y.value) = Subject(c.value)}
      BY DEF Groups
  <2>2. Subject(c.value) = Subject(a.value)
      BY <1>1, <1>2, <2>1
  <2> QED BY <1>1, <2>1, <2>2
<1> QED BY <1>1, <1>2

LEMMA GroupBySubjectStep == ASSUME Inv, GroupBySubject PROVE Inv'
<1> USE DEF GroupBySubject, pds, clock
<1>1. PICK unresolved \in SUBSET {x \in job.listed : x.value.uri # NormalUri[x.value.uri]} :
        LET todo == {g \in Groups(job.listed \ unresolved) : NeedsHandling(g) /\ Mergeable(g)} IN
        /\ IF unresolved = {} THEN UNCHANGED faults ELSE Fault
        /\ job' = IF todo = {} THEN NoJob
                  ELSE [job EXCEPT !.stage = "merge", !.listed = {}, !.todo = todo]
    OBVIOUS
<1> DEFINE records == job.listed \ unresolved
           todo == {g \in Groups(records) : NeedsHandling(g) /\ Mergeable(g)}
<1>2. faults' \in Nat
    BY <1>1 DEF Fault, Inv, TypeOK
<1>3. job \in [stage : {"idle", "list", "merge"}, swapCommit : Nat, below : Nat,
               listed : SUBSET Listed, todo : SUBSET SUBSET Listed]
    BY DEF Inv, TypeOK
<1>4. records \subseteq job.listed /\ records \subseteq Listed
    BY <1>3
<1>5. \A g \in todo : g \in Groups(records)
    OBVIOUS
<1>6. job' = NoJob \/ job' = [job EXCEPT !.stage = "merge", !.listed = {}, !.todo = todo]
    BY <1>1
<1> HIDE DEF records, todo
<1>7. todo \in SUBSET SUBSET Listed /\ UNION todo \subseteq job.listed
    BY <1>4, <1>5, GroupFacts
<1>8. CASE job' = NoJob
  <2>1. TypeOK' /\ JobOK' /\ SwapOK' /\ job'.listed \cup UNION job'.todo \subseteq Held
      BY <1>2, <1>8, JobStopped DEF Inv, TypeOK
  <2> QED BY <2>1, JobReads DEF Inv
<1>9. CASE job' = [job EXCEPT !.stage = "merge", !.listed = {}, !.todo = todo]
  <2>1. job' = [stage |-> "merge", swapCommit |-> job.swapCommit, below |-> job.below,
                listed |-> {}, todo |-> todo]
      BY <1>3, <1>9
  <2>2. TypeOK'
      BY <1>2, <1>3, <1>7, <2>1 DEF Inv, TypeOK
  <2>3. job'.listed \cup UNION job'.todo \subseteq Held
      BY <1>7, <2>1 DEF Held
  <2>4. SameDate' /\ GivenOut' /\ NotAhead' /\ RequestsOK'
      BY <2>2, <2>3, JobReads
  <2>5. Distinct(job.listed)
      BY DEF Inv, JobOK
  <2>6. \A g \in todo : /\ g # {} /\ g \subseteq job.listed
                        /\ \A x, y \in g : Subject(x.value) = Subject(y.value)
      BY <1>4, <1>5, GroupFacts
  <2>7. \A g \in todo : Distinct(g)
      BY <2>5, <2>6 DEF Distinct
  <2>8. ASSUME NEW g \in todo, NEW h \in todo, NEW x \in g, NEW y \in h, x.rkey = y.rkey
        PROVE  g = h
    <3>1. x = y
        BY <2>5, <2>6, <2>8 DEF Distinct
    <3> QED BY <1>5, <3>1, GroupFacts
  <2>9. JobOK'
      BY <2>1, <2>6, <2>7, <2>8 DEF JobOK, Distinct
  <2>10. SwapOK'
      BY <1>7, <2>1 DEF Inv, SwapOK
  <2> QED BY <2>2, <2>4, <2>9, <2>10 DEF Inv
<1> QED BY <1>6, <1>8, <1>9

(* One group is written: what the others hold is still what the repo holds. *)
LEMMA GroupWritten ==
    ASSUME Inv, NEW g \in job.todo, Commit(MergeWrites(g))
    PROVE  /\ repo' \in [RKey -> Review \cup {None}] /\ head' \in Nat
           /\ pending' \in Seq(SUBSET Op)
           /\ InTable(repo)' \subseteq InTable(repo) \cup MergeWrites(g)
           /\ PendingOps' \subseteq PendingOps \cup MergeWrites(g)
           /\ \A r \in RKey : (\A x \in g : x.rkey # r) => repo'[r] = repo[r]
           /\ repo'[PickKeeper(g).rkey] = MergedRecord(g)
           /\ \A x \in g \ {PickKeeper(g)} : repo'[x.rkey] = None
<1> DEFINE k == PickKeeper(g)  m == MergedRecord(g)  ops == MergeWrites(g)
<1>1. ops \in SUBSET Op
    BY MergeWritesFacts
<1>2. TypeOK
    BY DEF Inv
<1>3. ops = {[rkey |-> k.rkey, value |-> m]}
                \cup {[rkey |-> x.rkey, value |-> None] : x \in g \ {k}}
    BY DEF MergeWrites
<1>4. k \in g /\ \A x \in g : x.rkey \in RKey
    BY JobGroups, KeeperExists DEF Listed
<1>5. \A x, y \in g : x.rkey = y.rkey => x = y
    BY DEF Inv, JobOK, Distinct
<1>6. \A r \in RKey : repo'[r] = IF \E op \in ops : op.rkey = r
                                 THEN (CHOOSE op \in ops : op.rkey = r).value ELSE repo[r]
    BY DEF Commit
<1> HIDE DEF k, m, ops
<1>7. \A op \in ops : \E x \in g : op.rkey = x.rkey
    BY <1>3, <1>4
<1>8. \A r \in RKey : (\A x \in g : x.rkey # r) => repo'[r] = repo[r]
    BY <1>6, <1>7
<1>9. repo'[k.rkey] = m
  <2>1. PICK op \in ops : op.rkey = k.rkey /\ repo'[k.rkey] = op.value
      BY <1>3, <1>4, <1>6
  <2>2. op = [rkey |-> k.rkey, value |-> m]
      BY <1>3, <1>4, <1>5, <2>1
  <2> QED BY <2>1, <2>2
<1>10. ASSUME NEW x \in g \ {k} PROVE repo'[x.rkey] = None
  <2>1. [rkey |-> x.rkey, value |-> None] \in ops
      BY <1>3
  <2>2. PICK op \in ops : op.rkey = x.rkey /\ repo'[x.rkey] = op.value
      BY <1>4, <1>6, <2>1
  <2>3. x.rkey # k.rkey
      BY <1>4, <1>5
  <2>4. op.value = None
      BY <1>3, <2>2, <2>3
  <2> QED BY <2>2, <2>4
<1>11. /\ repo' \in [RKey -> Review \cup {None}] /\ head' \in Nat
       /\ pending' \in Seq(SUBSET Op)
       /\ InTable(repo)' \subseteq InTable(repo) \cup ops
       /\ PendingOps' \subseteq PendingOps \cup ops
    BY <1>1, <1>2, CommitStep DEF ops
<1> QED BY <1>8, <1>9, <1>10, <1>11 DEF k, m, ops

LEMMA MergeGroupStep ==
    ASSUME Inv, NEW g \in job.todo, MergeGroup(g)
    PROVE  Inv'
<1>1. job \in [stage : {"idle", "list", "merge"}, swapCommit : Nat, below : Nat,
               listed : SUBSET Listed, todo : SUBSET SUBSET Listed]
    BY DEF Inv, TypeOK
<1>2. UNCHANGED <<view, forms, requests, nextKey, now, careful, writes, faults>> /\ job.stage = "merge"
    BY DEF MergeGroup, clock
<1>3. CASE job.swapCommit # head
  <2>1. UNCHANGED <<repo, head, pending>> /\ job' = NoJob /\ head' \in Nat
      BY <1>3 DEF MergeGroup, pds, Inv, TypeOK
  <2>2. TypeOK' /\ JobOK' /\ SwapOK' /\ job'.listed \cup UNION job'.todo \subseteq Held
      BY <1>2, <2>1, JobStopped DEF Inv, TypeOK
  <2> QED BY <1>2, <2>1, <2>2, JobReads DEF Inv
<1>4. CASE job.swapCommit = head
  <2>1. Commit(MergeWrites(g)) /\ job' = AfterMerge(g)
      BY <1>4 DEF MergeGroup
  <2>2. /\ repo' \in [RKey -> Review \cup {None}] /\ head' \in Nat
        /\ pending' \in Seq(SUBSET Op)
        /\ InTable(repo)' \subseteq InTable(repo) \cup MergeWrites(g)
        /\ PendingOps' \subseteq PendingOps \cup MergeWrites(g)
        /\ \A r \in RKey : (\A x \in g : x.rkey # r) => repo'[r] = repo[r]
      BY <2>1, GroupWritten
  <2>3. \A n \in MergeWrites(g) : n.rkey # None /\ n.value # None =>
                /\ n.value.updatedAt <= now
                /\ \E y \in Copies : /\ y.rkey = n.rkey
                                     /\ y.value.createdAt = n.value.createdAt
      BY MergeWritesFacts
  <2>4. CASE job' = NoJob
    <3>1. TypeOK' /\ JobOK' /\ SwapOK' /\ job'.listed \cup UNION job'.todo \subseteq Held
        BY <1>2, <2>2, <2>4, JobStopped DEF Inv, TypeOK, Op
    <3> QED BY <1>2, <2>2, <2>3, <3>1, JobMoves DEF Inv
  <2>5. CASE job' = [job EXCEPT !.todo = @ \ {g}, !.swapCommit = head']
    <3>1. /\ job'.stage = "merge" /\ job'.listed = job.listed
          /\ job'.todo = job.todo \ {g} /\ job'.swapCommit = head' /\ job'.below = job.below
          /\ job' \in [stage : {"idle", "list", "merge"}, swapCommit : Nat, below : Nat,
                       listed : SUBSET Listed, todo : SUBSET SUBSET Listed]
        BY <1>1, <1>2, <2>2, <2>5
    <3>2. TypeOK'
        BY <1>2, <2>2, <3>1 DEF Inv, TypeOK, Op
    <3>3. job'.listed \cup UNION job'.todo \subseteq Held
        BY <3>1 DEF Held
    <3>4. SameDate' /\ GivenOut' /\ NotAhead' /\ RequestsOK'
        BY <1>2, <2>2, <2>3, <3>2, <3>3, JobMoves
    <3>5. job.listed = {}
        BY <1>2 DEF Inv, JobOK
    <3>6. JobOK'
        BY <3>1, <3>5 DEF Inv, JobOK, Distinct
    <3>7. ASSUME NEW h \in job'.todo, NEW x \in h PROVE repo'[x.rkey] = x.value
      <4>1. h \in job.todo /\ h # g /\ x.rkey \in RKey
          BY <1>1, <3>1, <3>7 DEF Listed
      <4>2. \A y \in g : y.rkey # x.rkey
          BY <4>1 DEF Inv, JobOK
      <4>3. repo[x.rkey] = x.value
          BY <1>2, <1>4, <4>1 DEF Inv, SwapOK
      <4> QED BY <2>2, <4>1, <4>2, <4>3
    <3>8. SwapOK'
        BY <2>2, <3>1, <3>5, <3>7 DEF SwapOK
    <3> QED BY <3>2, <3>4, <3>6, <3>8 DEF Inv
  <2> QED BY <2>1, <2>4, <2>5 DEF AfterMerge
<1> QED BY <1>3, <1>4

LEMMA JobFailsStep == ASSUME Inv, JobFails PROVE Inv'
<1>1. /\ UNCHANGED <<view, forms, requests, nextKey, now, careful, writes>> /\ job' = NoJob
      /\ faults' \in Nat
    BY DEF JobFails, Fault, clock, Inv, TypeOK
<1>2. CASE UNCHANGED pds
  <2>1. UNCHANGED <<repo, head, pending>> /\ head' \in Nat
      BY <1>2 DEF pds, Inv, TypeOK
  <2>2. TypeOK' /\ JobOK' /\ SwapOK' /\ job'.listed \cup UNION job'.todo \subseteq Held
      BY <1>1, <2>1, JobStopped DEF Inv, TypeOK
  <2> QED BY <1>1, <2>1, <2>2, JobReads DEF Inv
<1>3. CASE \E g \in job.todo : Commit(MergeWrites(g))
  <2>1. PICK g \in job.todo : Commit(MergeWrites(g))
      BY <1>3
  <2>2. /\ repo' \in [RKey -> Review \cup {None}] /\ head' \in Nat
        /\ pending' \in Seq(SUBSET Op)
        /\ InTable(repo)' \subseteq InTable(repo) \cup MergeWrites(g)
        /\ PendingOps' \subseteq PendingOps \cup MergeWrites(g)
      BY <2>1, GroupWritten
  <2>3. \A n \in MergeWrites(g) : n.rkey # None /\ n.value # None =>
                /\ n.value.updatedAt <= now
                /\ \E y \in Copies : /\ y.rkey = n.rkey
                                     /\ y.value.createdAt = n.value.createdAt
      BY MergeWritesFacts
  <2>4. TypeOK' /\ JobOK' /\ SwapOK' /\ job'.listed \cup UNION job'.todo \subseteq Held
      BY <1>1, <2>2, JobStopped DEF Inv, TypeOK, Op
  <2> QED BY <1>1, <2>2, <2>3, <2>4, JobMoves DEF Inv
<1> QED BY <1>2, <1>3 DEF JobFails

-----------------------------------------------------------------------------
LEMMA InitInv == Init => Inv
<1> SUFFICES ASSUME Init PROVE Inv
    OBVIOUS
<1> USE DEF Init
<1>1. NoJob.listed = {} /\ NoJob.todo = {} /\ NoJob.swapCommit = 0 /\ NoJob.stage = "idle"
      /\ NoJob \in [stage : {"idle", "list", "merge"}, swapCommit : Nat, below : Nat,
                    listed : SUBSET Listed, todo : SUBSET SUBSET Listed]
    BY DEF NoJob
<1>2. TypeOK
  <2>1. BlankForm \in [about : About \cup {None}, prefilled : SUBSET Word]
      BY DEF BlankForm
  <2>2. pending \in Seq(SUBSET Op)
      OBVIOUS
  <2> QED BY <1>1, <2>1, <2>2, NoRequestType DEF TypeOK, Op
<1>3. Copies = {}
  <2>1. \A x \in InTable(repo) \cup InTable(view) \cup InRequests : x.value = None
      BY DEF InTable, InRequests, NoRequest
  <2>2. PendingOps = {}
      BY DEF PendingOps
  <2>3. job.listed = {} /\ UNION job.todo = {}
      BY <1>1
  <2> QED BY <2>1, <2>2, <2>3 DEF Copies, Held
<1>4. SameDate /\ GivenOut /\ NotAhead /\ RequestsOK
    BY <1>3 DEF SameDate, GivenOut, NotAhead, RequestsOK, NoRequest
<1>5. JobOK /\ SwapOK
    BY <1>1 DEF JobOK, SwapOK, Distinct
<1> QED BY <1>2, <1>4, <1>5 DEF Inv

LEMMA NextInv == Inv /\ [Next]_vars => Inv'
<1> SUFFICES ASSUME Inv, [Next]_vars PROVE Inv'
    OBVIOUS
<1>1. CASE UNCHANGED vars
  <2>1. TypeOK' /\ Held' \subseteq Held /\ now <= now' /\ nextKey <= nextKey'
      BY <1>1 DEF vars, pds, clock, Inv, TypeOK, Held, InTable, InRequests, PendingOps
  <2>2. SameDate' /\ GivenOut' /\ \A x \in Copies' : x.value.updatedAt <= now'
      BY <2>1, CopiesKept
  <2>3. NotAhead' /\ RequestsOK'
      BY <1>1, <2>2 DEF vars, pds, clock, Inv, NotAhead, RequestsOK
  <2>4. JobOK' /\ SwapOK'
      BY <1>1, JobUntouched DEF vars, pds, clock, Inv, TypeOK
  <2> QED BY <2>1, <2>2, <2>3, <2>4 DEF Inv
<1>2. CASE \E b \in Browser : BrowserNext(b)
  <2>1. PICK b \in Browser : BrowserNext(b)
      BY <1>2
  <2>2. CASE \E about \in About : LoadExisting(b, about)
      BY <2>2, LoadExistingStep
  <2>3. CASE \E about \in About, offered \in Offers, dated \in BOOLEAN :
                Save(b, about, offered, dated)
      BY <2>3, SaveStep
  <2>4. CASE \E r \in RKey : Delete(b, r)
      BY <2>4, DeleteStep
  <2>5. CASE AgentReady(b)
      BY <2>5, AgentReadyStep
  <2>6. CASE WriteLands(b) \/ WriteUnanswered(b)
      BY <2>6, WriteStep
  <2>7. CASE WriteFails(b)
      BY <2>7, WriteFailsStep
  <2>8. CASE ClearForm(b)
      BY <2>8, ClearFormStep
  <2> QED BY <2>1, <2>2, <2>3, <2>4, <2>5, <2>6, <2>7, <2>8 DEF BrowserNext
<1>3. CASE JobNext
  <2>1. CASE JobStarts
      BY <2>1, JobStartsStep
  <2>2. CASE ListPage
      BY <2>2, ListPageStep
  <2>3. CASE GroupBySubject
      BY <2>3, GroupBySubjectStep
  <2>4. CASE \E g \in job.todo : MergeGroup(g)
      BY <2>4, MergeGroupStep
  <2> QED BY <1>3, <2>1, <2>2, <2>3, <2>4 DEF JobNext
<1>4. CASE JobFails
    BY <1>4, JobFailsStep
<1>5. CASE Ingested
    BY <1>5, IngestedStep
<1> QED BY <1>1, <1>2, <1>3, <1>4, <1>5 DEF Next

THEOREM SiteInvariant == Spec => []Inv
BY InitInv, NextInv, PTL DEF Spec

(* Every variable keeps its type: a save never builds a record that is not *)
(* a review, the job never a group that is not of listed records.          *)
THEOREM SiteTypeCorrect == Spec => []TypeOK
<1>1. Inv => TypeOK
    BY DEF Inv
<1> QED BY <1>1, SiteInvariant, PTL

-----------------------------------------------------------------------------
(* What becomes of the repo in any step: nothing, one request, one group.  *)
LEMMA RepoSteps ==
    ASSUME Inv, [Next]_vars
    PROVE  \/ UNCHANGED <<repo, head>>
           \/ UNCHANGED job /\ \E b \in Browser :
                    requests[b].stage = "sent" /\ Applied(b)
           \/ job.swapCommit = head /\ job.stage # "idle"
              /\ \E g \in job.todo : Commit(MergeWrites(g))
<1>1. CASE UNCHANGED vars
    BY <1>1 DEF vars, pds
<1>2. CASE \E b \in Browser : BrowserNext(b)
  <2>1. PICK b \in Browser : BrowserNext(b)
      BY <1>2
  <2>2. CASE WriteLands(b) \/ WriteUnanswered(b)
      BY <2>2 DEF WriteLands, WriteUnanswered
  <2>3. CASE ~(WriteLands(b) \/ WriteUnanswered(b))
      BY <2>1, <2>3 DEF BrowserNext, LoadExisting, ClearForm, Save, Delete, AgentReady, WriteFails, pds
  <2> QED BY <2>2, <2>3
<1>3. CASE JobNext
  <2>1. CASE \E g \in job.todo : MergeGroup(g)
      BY <2>1 DEF MergeGroup, pds
  <2>2. CASE JobStarts \/ ListPage \/ GroupBySubject
      BY <2>2 DEF JobStarts, ListPage, GroupBySubject, pds
  <2> QED BY <1>3, <2>1, <2>2 DEF JobNext
<1>4. CASE JobFails
    BY <1>4 DEF JobFails, pds
<1>5. CASE Ingested
    BY <1>5 DEF Ingested
<1> QED BY <1>1, <1>2, <1>3, <1>4, <1>5 DEF Next

KeepsDates == \A r \in RKey : repo[r] # None /\ repo'[r] # None
                    => repo'[r].createdAt = repo[r].createdAt

LEMMA CommitDates ==
    ASSUME Inv, NEW ops \in SUBSET Op, Commit(ops),
           \A op \in ops : op.value # None => \E y \in Copies :
                y.rkey = op.rkey /\ y.value.createdAt = op.value.createdAt
    PROVE  KeepsDates
<1> SUFFICES ASSUME NEW r \in RKey, repo[r] # None, repo'[r] # None
             PROVE  repo'[r].createdAt = repo[r].createdAt
    BY DEF KeepsDates
<1>1. r # None
    BY NoneAssumption, BoundAssumption DEF RKey
<1> DEFINE old == [rkey |-> r, value |-> repo[r]]
<1>2. old \in Copies
    BY <1>1 DEF Copies, Held, InTable
<1>3. CASE \E op \in ops : op.rkey = r
  <2>1. PICK op \in ops : op.rkey = r /\ repo'[r] = op.value
      BY <1>3 DEF Commit
  <2>2. PICK y \in Copies : y.rkey = r /\ y.value.createdAt = op.value.createdAt
      BY <2>1
  <2>3. y.value.createdAt = old.value.createdAt
      BY <1>2, <2>2 DEF Inv, SameDate
  <2> QED BY <2>1, <2>2, <2>3
<1>4. CASE ~\E op \in ops : op.rkey = r
    BY <1>4 DEF Commit
<1> QED BY <1>3, <1>4

(* No interleaving of saves made with an out-of-date view, imports, lost   *)
(* answers and merges changes the date a record was created on.            *)
THEOREM DatesAreKept == Spec => DatesKept
<1>1. Inv /\ [Next]_vars => KeepsDates
  <2> SUFFICES ASSUME Inv, [Next]_vars PROVE KeepsDates
      OBVIOUS
  <2>1. CASE UNCHANGED repo
      BY <2>1 DEF KeepsDates
  <2>2. CASE \E b \in Browser : requests[b].stage = "sent" /\ Applied(b)
    <3>1. PICK b \in Browser : requests[b].stage = "sent" /\ Applied(b)
        BY <2>2
    <3> DEFINE op == [rkey |-> requests[b].rkey, value |-> requests[b].record]
               ops == {op}
    <3>2. ops \in SUBSET Op /\ (UNCHANGED pds \/ Commit(ops)) /\ ops \subseteq InRequests
        BY <3>1, AppliedFacts
    <3>3. op \in Op /\ op \in Held
        BY <3>2 DEF Held
    <3>4. None \notin RKey
        BY NoneAssumption, BoundAssumption DEF RKey
    <3>5. op.value # None => op \in Copies
        BY <3>3, <3>4 DEF Copies, Op
    <3> HIDE DEF op
    <3>6. \A o \in ops : o.value # None => \E y \in Copies :
                y.rkey = o.rkey /\ y.value.createdAt = o.value.createdAt
        BY <3>5
    <3> HIDE DEF ops
    <3>7. CASE Commit(ops)
        BY <3>2, <3>6, <3>7, CommitDates
    <3>8. CASE UNCHANGED pds
        BY <2>1, <3>8 DEF pds, KeepsDates
    <3> QED BY <3>2, <3>7, <3>8
  <2>3. CASE \E g \in job.todo : Commit(MergeWrites(g))
    <3>1. PICK g \in job.todo : Commit(MergeWrites(g))
        BY <2>3
    <3> QED BY <3>1, MergeWritesFacts, CommitDates
  <2> QED BY <2>1, <2>2, <2>3, RepoSteps
<1>2. Inv /\ [Next]_vars => [\A r \in RKey : repo[r] # None /\ repo'[r] # None
                                => repo'[r].createdAt = repo[r].createdAt]_vars
    BY <1>1 DEF KeepsDates
<1> QED BY <1>2, SiteInvariant, PTL DEF Spec, DatesKept

(* The words of a subject are those of its group and of its other records, *)
(* before and after the group is written.                                  *)
LEMMA GroupKeepsWords ==
    ASSUME Inv, NEW g \in job.todo, job.swapCommit = head, job.stage # "idle",
           Commit(MergeWrites(g)), NEW s \in About
    PROVE  SaidAbout(s)' = SaidAbout(s)
<1> DEFINE k == PickKeeper(g)  m == MergedRecord(g)
<1>1. /\ k \in g /\ k.rkey \in RKey
      /\ \A x \in g : /\ x.rkey \in RKey /\ x.value \in Review
                      /\ Subject(x.value) = Subject(m) /\ repo[x.rkey] = x.value
  <2>1. k \in g
      BY JobGroups, KeeperExists
  <2>2. \A x \in g : repo[x.rkey] = x.value
      BY DEF Inv, SwapOK
  <2>3. \A x \in g : x.rkey \in RKey /\ x.value \in Review /\ Subject(x.value) = Subject(m)
      BY JobGroups DEF Listed
  <2> QED BY <2>1, <2>2, <2>3
<1>2. m \in Review /\ DOMAIN m.tags = UNION {DOMAIN x.value.tags : x \in g}
    BY <1>1, JobGroups, MergedRecordFacts DEF WordsOf
<1>3. /\ \A r \in RKey : (\A x \in g : x.rkey # r) => repo'[r] = repo[r]
      /\ repo'[k.rkey] = m
      /\ \A x \in g \ {k} : repo'[x.rkey] = None
    BY GroupWritten
<1>4. None \notin Review
    BY NoneAssumption
<1> HIDE DEF k, m
<1>5. ASSUME NEW w \in SaidAbout(s) PROVE w \in SaidAbout(s)'
  <2>1. PICK r \in RKey : /\ repo[r] # None /\ Subject(repo[r]) = s
                          /\ w \in DOMAIN repo[r].tags
      BY DEF SaidAbout, Live
  <2>2. CASE \A x \in g : x.rkey # r
      BY <1>3, <2>1, <2>2 DEF SaidAbout, Live
  <2>3. CASE \E x \in g : x.rkey = r
    <3>1. PICK x \in g : x.rkey = r
        BY <2>3
    <3>2. w \in DOMAIN m.tags /\ Subject(m) = s
        BY <1>1, <1>2, <2>1, <3>1
    <3>3. k.rkey \in Live(s)' /\ w \in DOMAIN repo'[k.rkey].tags
        BY <1>1, <1>2, <1>3, <1>4, <3>2 DEF Live
    <3> QED BY <3>3 DEF SaidAbout
  <2> QED BY <2>2, <2>3
<1>6. ASSUME NEW w \in SaidAbout(s)' PROVE w \in SaidAbout(s)
  <2>1. PICK r \in RKey : /\ repo'[r] # None /\ Subject(repo'[r]) = s
                          /\ w \in DOMAIN repo'[r].tags
      BY DEF SaidAbout, Live
  <2>2. CASE \A x \in g : x.rkey # r
      BY <1>3, <2>1, <2>2 DEF SaidAbout, Live
  <2>3. CASE \E x \in g : x.rkey = r
    <3>1. repo'[r] = m
        BY <1>3, <2>1, <2>3
    <3>2. PICK y \in g : w \in DOMAIN y.value.tags
        BY <1>2, <2>1, <3>1
    <3>3. y.rkey \in Live(s) /\ w \in DOMAIN repo[y.rkey].tags
        BY <1>1, <1>4, <2>1, <3>1, <3>2 DEF Live
    <3> QED BY <3>3 DEF SaidAbout
  <2> QED BY <2>2, <2>3
<1> QED BY <1>5, <1>6

(* A merge never adds or loses a word of any subject, however its listing, *)
(* its own earlier writes and the browsers' writes interleave.             *)
THEOREM MergesKeepWords == Spec => MergeKeepsWords
<1>1. Inv /\ [Next]_vars =>
        [JobWrites => \A s \in About : SaidAbout(s)' = SaidAbout(s)]_vars
  <2> SUFFICES ASSUME Inv, [Next]_vars, JobWrites, NEW s \in About
               PROVE  SaidAbout(s)' = SaidAbout(s)
      OBVIOUS
  <2>1. head' # head /\ job' # job
      BY DEF JobWrites
  <2>2. PICK g \in job.todo : Commit(MergeWrites(g))
      BY <2>1, RepoSteps
  <2>3. job.swapCommit = head /\ job.stage # "idle"
      BY <2>1, RepoSteps
  <2> QED BY <2>2, <2>3, GroupKeepsWords
<1> QED BY <1>1, SiteInvariant, PTL DEF Spec, MergeKeepsWords

-----------------------------------------------------------------------------
(* What the job holds when it merges is all there is.  It need not be when *)
(* a handle does not resolve: the group is then merged without that record *)
(* (groupBySubject leaves it out), and may come out newer than it.         *)
EveryHandleResolves == MaxFaults = 0 \/ \A u \in Uri : NormalUri[u] = u

Copy(rp, r) == [rkey |-> r, value |-> rp[r]]

(* Every record from the last page up is listed, and a group of todo holds *)
(* every record of its subject, as long as the head read is the head.      *)
HoldsAll ==
    job.swapCommit = head =>
        /\ job.stage = "list" =>
              \A r \in RKey : job.below <= r /\ repo[r] # None => Copy(repo, r) \in job.listed
        /\ \A g \in job.todo : \A x \in g, r \in RKey :
              repo[r] # None /\ Subject(repo[r]) = Subject(x.value) => Copy(repo, r) \in g

LEMMA HoldsAllUntouched ==
    ASSUME Inv, HoldsAll, UNCHANGED job, head' \in Nat, head <= head', head' = head => repo' = repo
    PROVE  HoldsAll'
<1>1. head \in Nat /\ job.swapCommit \in Nat /\ job.swapCommit <= head
    BY DEF Inv, TypeOK, SwapOK
<1>2. job.swapCommit = head' => head' = head
    BY <1>1
<1> QED BY <1>2 DEF HoldsAll

LEMMA HoldsAllNoJob == ASSUME job' = NoJob PROVE HoldsAll'
BY DEF HoldsAll, NoJob

LEMMA HoldsAllListPage == ASSUME Inv, HoldsAll, ListPage PROVE HoldsAll'
<1>1. PICK r \in Unlisted :
        /\ \A q \in Unlisted : q <= r
        /\ job' = [job EXCEPT !.below = r, !.listed = @ \cup {[rkey |-> r, value |-> repo[r]]}]
    BY DEF ListPage
<1>2. UNCHANGED <<repo, head>> /\ job.stage = "list"
    BY DEF ListPage, pds
<1>3. job \in [stage : {"idle", "list", "merge"}, swapCommit : Nat, below : Nat,
               listed : SUBSET Listed, todo : SUBSET SUBSET Listed]
    BY DEF Inv, TypeOK
<1>4. /\ job'.swapCommit = job.swapCommit /\ job'.below = r /\ job'.todo = job.todo
      /\ job'.listed = job.listed \cup {Copy(repo, r)}
    BY <1>1, <1>3 DEF Copy
<1>5. ASSUME job.swapCommit = head, NEW q \in RKey, r <= q, repo[q] # None
      PROVE  Copy(repo, q) \in job'.listed
  <2>1. r \in Nat /\ q \in Nat /\ job.below \in Nat
      BY <1>3 DEF Unlisted, RKey
  <2>2. CASE job.below <= q
      BY <1>2, <1>4, <1>5, <2>2 DEF HoldsAll
  <2>3. CASE q < job.below
      BY <1>1, <1>4, <1>5, <2>1, <2>3 DEF Unlisted
  <2> QED BY <2>1, <2>2, <2>3
<1> QED BY <1>2, <1>4, <1>5 DEF HoldsAll, Copy

LEMMA HoldsAllGroups ==
    ASSUME EveryHandleResolves, Inv, HoldsAll, GroupBySubject
    PROVE  HoldsAll'
<1>1. PICK unresolved \in SUBSET {x \in job.listed : x.value.uri # NormalUri[x.value.uri]} :
        LET todo == {g \in Groups(job.listed \ unresolved) : NeedsHandling(g) /\ Mergeable(g)} IN
        /\ IF unresolved = {} THEN UNCHANGED faults ELSE Fault
        /\ job' = IF todo = {} THEN NoJob
                  ELSE [job EXCEPT !.stage = "merge", !.listed = {}, !.todo = todo]
    BY DEF GroupBySubject
<1>2. UNCHANGED <<repo, head>> /\ job.stage = "list" /\ Unlisted = {}
    BY DEF GroupBySubject, pds
<1>3. job \in [stage : {"idle", "list", "merge"}, swapCommit : Nat, below : Nat,
               listed : SUBSET Listed, todo : SUBSET SUBSET Listed]
    BY DEF Inv, TypeOK
<1>4. unresolved = {}
  <2>1. CASE MaxFaults = 0
      BY <1>1, <2>1 DEF Fault, Inv, TypeOK
  <2>2. CASE \A u \in Uri : NormalUri[u] = u
      BY <1>1, <1>3, <2>2, ReviewFields DEF Listed
  <2> QED BY <2>1, <2>2 DEF EveryHandleResolves
<1>5. CASE job' = NoJob
    BY <1>5, HoldsAllNoJob
<1>6. CASE job' # NoJob
  <2>1. job'.todo \subseteq Groups(job.listed) /\ job'.stage = "merge" /\ job'.swapCommit = job.swapCommit
      BY <1>1, <1>3, <1>4, <1>6
  <2>2. ASSUME job.swapCommit = head, NEW g \in job'.todo, NEW x \in g, NEW r \in RKey,
               repo[r] # None, Subject(repo[r]) = Subject(x.value)
        PROVE  Copy(repo, r) \in g
    <3>1. Copy(repo, r) \in job.listed
      <4>1. ~(r < job.below) /\ r \in Nat /\ job.below \in Nat
          BY <1>2, <1>3, <2>2 DEF Unlisted, RKey
      <4> QED BY <1>2, <2>2, <4>1 DEF HoldsAll
    <3>2. PICK a \in job.listed : g = {y \in job.listed : Subject(y.value) = Subject(a.value)}
        BY <2>1 DEF Groups
    <3>3. Copy(repo, r).value = repo[r] /\ Subject(x.value) = Subject(a.value)
        BY <3>2 DEF Copy
    <3> QED BY <2>2, <3>1, <3>2, <3>3
  <2> QED BY <1>2, <2>1, <2>2 DEF HoldsAll, Copy
<1> QED BY <1>5, <1>6

(* One group is written, and every other one is still whole.               *)
LEMMA HoldsAllMerge ==
    ASSUME Inv, HoldsAll, NEW g \in job.todo, MergeGroup(g)
    PROVE  HoldsAll'
<1>1. CASE job' = NoJob
    BY <1>1, HoldsAllNoJob
<1>2. CASE job' # NoJob
  <2>1. /\ job.swapCommit = head /\ job.stage = "merge" /\ Commit(MergeWrites(g))
        /\ job' = [job EXCEPT !.todo = @ \ {g}, !.swapCommit = head']
      BY <1>2 DEF MergeGroup, AfterMerge
  <2>2. job \in [stage : {"idle", "list", "merge"}, swapCommit : Nat, below : Nat,
                 listed : SUBSET Listed, todo : SUBSET SUBSET Listed]
      BY DEF Inv, TypeOK
  <2>3. job'.stage = "merge" /\ job'.todo = job.todo \ {g}
      BY <2>1, <2>2
  <2>4. /\ \A r \in RKey : (\A x \in g : x.rkey # r) => repo'[r] = repo[r]
        /\ repo'[PickKeeper(g).rkey] = MergedRecord(g)
        /\ \A x \in g \ {PickKeeper(g)} : repo'[x.rkey] = None
      BY <2>1, GroupWritten
  <2>5. \A x \in g : /\ x = Copy(repo, x.rkey) /\ x.rkey \in RKey /\ repo[x.rkey] # None
                     /\ Subject(repo[x.rkey]) = Subject(MergedRecord(g))
    <3>1. \A x \in g : x \in Listed /\ Subject(x.value) = Subject(MergedRecord(g))
        BY JobGroups
    <3>2. \A x \in g : repo[x.rkey] = x.value
        BY <2>1 DEF Inv, SwapOK
    <3> QED BY <3>1, <3>2, NoneAssumption DEF Copy, Listed
  <2>6. ASSUME NEW h \in job.todo \ {g}, NEW x \in h, NEW r \in RKey,
               repo'[r] # None, Subject(repo'[r]) = Subject(x.value)
        PROVE  Copy(repo', r) \in h
    <3>1. ASSUME NEW y \in g, y.rkey = r PROVE FALSE
      <4>1. repo'[r] = MergedRecord(g)
          BY <2>4, <2>6, <3>1
      <4>2. Subject(repo[r]) = Subject(x.value) /\ repo[r] # None
          BY <2>5, <2>6, <3>1, <4>1
      <4>3. Copy(repo, r) \in h /\ Copy(repo, r) = y
          BY <2>1, <2>5, <3>1, <4>2 DEF HoldsAll
      <4> QED BY <2>6, <4>3 DEF Inv, JobOK
    <3>2. repo'[r] = repo[r]
        BY <2>4, <3>1
    <3>3. Copy(repo, r) \in h
        BY <2>1, <2>6, <3>2 DEF HoldsAll
    <3> QED BY <3>2, <3>3 DEF Copy
  <2> QED BY <2>3, <2>6 DEF HoldsAll
<1> QED BY <1>1, <1>2

LEMMA HoldsAllKept ==
    EveryHandleResolves /\ Inv /\ HoldsAll /\ [Next]_vars => HoldsAll'
<1> SUFFICES ASSUME EveryHandleResolves, Inv, HoldsAll, [Next]_vars PROVE HoldsAll'
    OBVIOUS
<1>1. CASE JobStarts
  <2>1. /\ job'.stage = "list" /\ job'.below = MaxWrites + 1 /\ job'.todo = {}
      BY <1>1 DEF JobStarts, NoJob
  <2>2. \A r \in RKey : ~(MaxWrites + 1 <= r)
      BY BoundAssumption DEF RKey
  <2> QED BY <2>1, <2>2 DEF HoldsAll
<1>2. CASE ListPage
    BY <1>2, HoldsAllListPage
<1>3. CASE GroupBySubject
    BY <1>3, HoldsAllGroups
<1>4. CASE \E g \in job.todo : MergeGroup(g)
    BY <1>4, HoldsAllMerge
<1>5. CASE JobFails
    BY <1>5, HoldsAllNoJob DEF JobFails
<1>6. CASE UNCHANGED job /\ UNCHANGED <<repo, head>>
    BY <1>6 DEF HoldsAll
<1>7. CASE \E b \in Browser : WriteLands(b) \/ WriteUnanswered(b)
  <2>1. PICK b \in Browser : requests[b].stage = "sent" /\ Applied(b) /\ UNCHANGED job
      BY <1>7 DEF WriteLands, WriteUnanswered
  <2>2. head' \in Nat /\ head <= head' /\ (head' = head => repo' = repo)
      BY <2>1, AppliedFacts
  <2> QED BY <2>1, <2>2, HoldsAllUntouched
<1>8. ASSUME NEW b \in Browser, BrowserNext(b), ~(WriteLands(b) \/ WriteUnanswered(b))
      PROVE  UNCHANGED job /\ UNCHANGED <<repo, head>>
    BY <1>8 DEF BrowserNext, LoadExisting, ClearForm, Save, Delete, AgentReady, WriteFails, pds
<1>9. CASE Ingested \/ UNCHANGED vars
    BY <1>6, <1>9 DEF Ingested, vars, pds
<1> QED BY <1>1, <1>2, <1>3, <1>4, <1>5, <1>6, <1>7, <1>8, <1>9 DEF Next, JobNext

-----------------------------------------------------------------------------
(* The opinion the records of a repo hold, as a relation.                  *)
LiveIn(rp, s) == {r \in RKey : rp[r] # None /\ Subject(rp[r]) = s}

Closeness == [d \in Direction |-> IF d > 0 THEN 2 * d - 1 ELSE -2 * d]

With(rp, s, w) == {r \in LiveIn(rp, s) : w \in DOMAIN rp[r].tags}

NewestIn(rp, s, w) ==
    LET last == {r \in With(rp, s, w) : \A q \in With(rp, s, w) : rp[q].updatedAt <= rp[r].updatedAt}
    IN  CHOOSE d \in {rp[r].tags[w] : r \in last} :
            \A r \in last : Closeness[d] <= Closeness[rp[r].tags[w]]

IsNewest(rp, s, w, d) ==
    \E r \in With(rp, s, w) :
        /\ rp[r].tags[w] = d
        /\ \A q \in With(rp, s, w) :
              /\ rp[q].updatedAt <= rp[r].updatedAt
              /\ rp[q].updatedAt = rp[r].updatedAt => Closeness[d] <= Closeness[rp[q].tags[w]]

LEMMA NewestExists ==
    ASSUME NEW rp \in [RKey -> Review \cup {None}], NEW bound \in Nat, NEW s, NEW w,
           \A r \in RKey : rp[r] # None => rp[r].updatedAt <= bound,
           With(rp, s, w) # {}
    PROVE  IsNewest(rp, s, w, NewestIn(rp, s, w))
<1> DEFINE V == With(rp, s, w)
           age == [r \in V |-> bound - rp[r].updatedAt]
<1>1. \A r \in V : /\ r \in RKey /\ rp[r] \in Review /\ rp[r].updatedAt \in Nat /\ rp[r].updatedAt <= bound
                   /\ rp[r].tags[w] \in Direction
    BY ReviewFields, TagsFacts DEF With, LiveIn
<1>2. age \in [V -> Nat]
    BY <1>1
<1>3. PICK o \in V : \A r \in V : age[o] <= age[r]
    BY <1>2, LeastOf
<1>4. \A r \in V : rp[r].updatedAt <= rp[o].updatedAt
    BY <1>1, <1>3
<1> DEFINE last == {r \in V : \A q \in V : rp[q].updatedAt <= rp[r].updatedAt}
           close == [r \in last |-> Closeness[rp[r].tags[w]]]
<1>5. \A d \in Direction : Closeness[d] \in Nat
    BY DEF Closeness, Direction
<1>6. last # {} /\ close \in [last -> Nat]
    BY <1>1, <1>4, <1>5
<1>7. PICK a \in last : \A r \in last : close[a] <= close[r]
    BY <1>6, LeastOf
<1> DEFINE D == {rp[r].tags[w] : r \in last}
           n == CHOOSE d \in D : \A r \in last : Closeness[d] <= Closeness[rp[r].tags[w]]
<1>8. n \in D /\ \A r \in last : Closeness[n] <= Closeness[rp[r].tags[w]]
  <2>1. rp[a].tags[w] \in D /\ \A r \in last : Closeness[rp[a].tags[w]] <= Closeness[rp[r].tags[w]]
      BY <1>7
  <2> QED BY <2>1, Zenon
<1>9. NewestIn(rp, s, w) = n
    BY DEF NewestIn
<1> HIDE DEF n
<1>10. PICK r \in last : rp[r].tags[w] = n
    BY <1>8
<1>11. \A q \in V : rp[q].updatedAt = rp[r].updatedAt => q \in last
    BY <1>10
<1> QED BY <1>8, <1>9, <1>10, <1>11 DEF IsNewest

(* No two directions are equally near 0.                                   *)
LEMMA NewestIsOne ==
    ASSUME NEW rp \in [RKey -> Review \cup {None}], NEW s, NEW w, NEW d, NEW e,
           IsNewest(rp, s, w, d), IsNewest(rp, s, w, e)
    PROVE  d = e
<1>1. PICK r \in With(rp, s, w) :
        /\ rp[r].tags[w] = d
        /\ \A q \in With(rp, s, w) :
              /\ rp[q].updatedAt <= rp[r].updatedAt
              /\ rp[q].updatedAt = rp[r].updatedAt => Closeness[d] <= Closeness[rp[q].tags[w]]
    BY DEF IsNewest
<1>2. PICK q \in With(rp, s, w) :
        /\ rp[q].tags[w] = e
        /\ \A t \in With(rp, s, w) :
              /\ rp[t].updatedAt <= rp[q].updatedAt
              /\ rp[t].updatedAt = rp[q].updatedAt => Closeness[e] <= Closeness[rp[t].tags[w]]
    BY DEF IsNewest
<1>3. /\ d \in Direction /\ e \in Direction
      /\ rp[r].updatedAt \in Nat /\ rp[q].updatedAt \in Nat
    BY <1>1, <1>2, ReviewFields, TagsFacts DEF With, LiveIn
<1>4. rp[q].updatedAt = rp[r].updatedAt
    BY <1>1, <1>2, <1>3
<1>5. Closeness[d] <= Closeness[e] /\ Closeness[e] <= Closeness[d]
    BY <1>1, <1>2, <1>4
<1> QED BY <1>3, <1>5 DEF Closeness, Direction

(* A subject's opinion is the same before and after its group is written,  *)
(* and that of every other subject too.                                    *)
LEMMA GroupKeepsNewest ==
    ASSUME Inv, Inv', HoldsAll, NEW g \in job.todo, job.swapCommit = head, job.stage # "idle",
           Commit(MergeWrites(g)), NEW s \in About, NEW w \in SaidAbout(s)
    PROVE  Newest(s, w)' = Newest(s, w)
<1> DEFINE k == PickKeeper(g)  m == MergedRecord(g)
<1>1. /\ k \in g /\ k.rkey \in RKey
      /\ \A x \in g : /\ x.rkey \in RKey /\ x.value \in Review
                      /\ Subject(x.value) = Subject(m) /\ repo[x.rkey] = x.value
  <2>1. k \in g
      BY JobGroups, KeeperExists
  <2>2. \A x \in g : repo[x.rkey] = x.value
      BY DEF Inv, SwapOK
  <2>3. \A x \in g : x.rkey \in RKey /\ x.value \in Review /\ Subject(x.value) = Subject(m)
      BY JobGroups DEF Listed
  <2> QED BY <2>1, <2>2, <2>3
<1>2. m \in Review /\ m.tags = MergeAllTags(g) /\ DOMAIN m.tags = WordsOf(g)
    BY <1>1, JobGroups, MergedRecordFacts
<1>3. /\ \A r \in RKey : (\A x \in g : x.rkey # r) => repo'[r] = repo[r]
      /\ repo'[k.rkey] = m
      /\ \A x \in g \ {k} : repo'[x.rkey] = None
    BY GroupWritten
<1>4. None \notin Review
    BY NoneAssumption
<1>5. /\ repo \in [RKey -> Review \cup {None}] /\ now \in Nat
      /\ \A r \in RKey : repo[r] # None => repo[r].updatedAt <= now
  <2>1. \A r \in RKey : repo[r] # None => Copy(repo, r) \in Copies
      BY NoneAssumption DEF Copies, Held, InTable, Copy, RKey
  <2> QED BY <2>1 DEF Copy, Inv, TypeOK, NotAhead
<1>6. /\ repo' \in [RKey -> Review \cup {None}] /\ now' \in Nat
      /\ \A r \in RKey : repo'[r] # None => repo'[r].updatedAt <= now'
  <2>1. \A r \in RKey : repo'[r] # None => Copy(repo', r) \in Copies'
      BY NoneAssumption DEF Copies, Held, InTable, Copy, RKey
  <2> QED BY <2>1 DEF Copy, Inv, TypeOK, NotAhead
<1>7. Newest(s, w) = NewestIn(repo, s, w) /\ Newest(s, w)' = NewestIn(repo', s, w)
    BY DEF Newest, NewestIn, With, Live, LiveIn, Closeness
<1>8. With(repo, s, w) # {} /\ With(repo', s, w) # {}
  <2>1. w \in SaidAbout(s)'
      BY GroupKeepsWords
  <2> QED BY <2>1 DEF SaidAbout, Live, With, LiveIn
<1>9. IsNewest(repo, s, w, Newest(s, w)) /\ IsNewest(repo', s, w, Newest(s, w)')
    BY <1>5, <1>6, <1>7, <1>8, NewestExists
<1> HIDE DEF k, m
<1>10. CASE Subject(m) # s
  <2>1. LiveIn(repo', s) = LiveIn(repo, s) /\ \A r \in LiveIn(repo, s) : repo'[r] = repo[r]
      BY <1>1, <1>3, <1>10 DEF LiveIn
  <2>2. With(repo', s, w) = With(repo, s, w) /\ \A r \in With(repo, s, w) : repo'[r] = repo[r]
      BY <2>1 DEF With
  <2>3. IsNewest(repo', s, w, Newest(s, w))
      BY <1>9, <2>2 DEF IsNewest
  <2> QED BY <1>6, <1>9, <2>3, NewestIsOne
<1>11. CASE Subject(m) = s
  <2>1. \A r \in LiveIn(repo, s) : \E x \in g : x.rkey = r /\ repo[r] = x.value
    <3> TAKE r \in LiveIn(repo, s)
    <3>1. Copy(repo, r) \in g
        BY <1>1, <1>11 DEF LiveIn, HoldsAll
    <3> QED BY <3>1 DEF Copy
  <2>2. \A x \in g : x.rkey \in LiveIn(repo, s)
      BY <1>1, <1>4, <1>11 DEF LiveIn
  <2>3. LiveIn(repo', s) = {k.rkey}
      BY <1>1, <1>2, <1>3, <1>4, <1>11, <2>1 DEF LiveIn
  <2>4. w \in DOMAIN m.tags /\ With(repo', s, w) = {k.rkey}
      BY <1>3, <1>8, <2>3 DEF With
  <2>5. IsNewest(repo', s, w, m.tags[w])
    <3>1. m.updatedAt \in Nat /\ Closeness[m.tags[w]] \in Int
        BY <1>2, <2>4, ReviewFields, TagsFacts DEF Closeness, Direction
    <3> QED BY <1>3, <2>4, <3>1 DEF IsNewest
  <2>6. IsNewest(repo, s, w, m.tags[w])
    <3> DEFINE C == Candidates(g, w)
               c == CHOOSE e \in C : \A d \in C : d = e \/ Beats(e, d)
    <3>1. c \in C /\ \A d \in C : d = c \/ Beats(c, d)
        BY <1>2, <2>4, JobGroups, WinnerExists
    <3>2. m.tags[w] = c.direction
        BY <1>2, <2>4 DEF MergeAllTags
    <3> HIDE DEF c
    <3>3. PICK x \in g : /\ w \in DOMAIN x.value.tags
                         /\ c = [direction |-> x.value.tags[w], updatedAt |-> x.value.updatedAt]
        BY <3>1 DEF Candidates
    <3>4. x.rkey \in With(repo, s, w) /\ repo[x.rkey] = x.value
        BY <1>1, <2>2, <3>3 DEF With
    <3>5. c.direction \in Direction /\ c.updatedAt \in Nat
        BY <1>1, <3>3, ReviewFields, TagsFacts
    <3>6. ASSUME NEW q \in With(repo, s, w)
          PROVE  /\ repo[q].updatedAt <= c.updatedAt
                 /\ repo[q].updatedAt = c.updatedAt =>
                        Closeness[c.direction] <= Closeness[repo[q].tags[w]]
      <4>1. PICK y \in g : y.rkey = q /\ repo[q] = y.value
          BY <2>1 DEF With
      <4> DEFINE d == [direction |-> repo[q].tags[w], updatedAt |-> repo[q].updatedAt]
      <4>2. d \in C
          BY <4>1 DEF Candidates, With
      <4>3. d.direction \in Direction /\ d.updatedAt \in Nat
          BY <1>1, <4>1, ReviewFields, TagsFacts DEF With
      <4>4. d = c \/ Beats(c, d)
          BY <3>1, <4>2
      <4>5. d.direction = repo[q].tags[w] /\ d.updatedAt = repo[q].updatedAt
          OBVIOUS
      <4> HIDE DEF d
      <4>6. d.updatedAt <= c.updatedAt
          BY <3>5, <4>3, <4>4 DEF Beats
      <4>7. d.updatedAt = c.updatedAt => Closeness[c.direction] <= Closeness[d.direction]
          BY <3>5, <4>3, <4>4 DEF Beats, Abs, Closeness, Direction
      <4> QED BY <4>5, <4>6, <4>7
    <3> QED BY <3>2, <3>3, <3>4, <3>6 DEF IsNewest
  <2>7. Newest(s, w) = m.tags[w]
      BY <1>5, <1>9, <2>6, NewestIsOne
  <2>8. Newest(s, w)' = m.tags[w]
      BY <1>6, <1>9, <2>5, NewestIsOne
  <2> QED BY <2>7, <2>8
<1> QED BY <1>10, <1>11

(* A merge leaves of every word the direction a reader of the records it   *)
(* merged should take, the newest, and touches the opinion on no other     *)
(* subject, whatever browsers write between its steps (mergeDuplicates.ts, *)
(* mergeDuplicatesJob.ts).                                                 *)
THEOREM MergesKeepOpinions ==
    ASSUME EveryHandleResolves
    PROVE  Spec => MergeKeepsOpinions
<1>1. Inv /\ HoldsAll /\ [Next]_vars /\ Inv' =>
        [JobWrites => \A s \in About : Opinion(s)' = Opinion(s)]_vars
  <2> SUFFICES ASSUME Inv, HoldsAll, Inv', [Next]_vars, JobWrites, NEW s \in About
               PROVE  Opinion(s)' = Opinion(s)
      OBVIOUS
  <2>1. head' # head /\ job' # job
      BY DEF JobWrites
  <2>2. PICK g \in job.todo : Commit(MergeWrites(g))
      BY <2>1, RepoSteps
  <2>3. job.swapCommit = head /\ job.stage # "idle"
      BY <2>1, RepoSteps
  <2>4. SaidAbout(s)' = SaidAbout(s)
      BY <2>2, <2>3, GroupKeepsWords
  <2>5. \A w \in SaidAbout(s) : Newest(s, w)' = Newest(s, w)
      BY <2>2, <2>3, GroupKeepsNewest
  <2> QED BY <2>4, <2>5 DEF Opinion
<1>2. Init => HoldsAll
    BY HoldsAllNoJob DEF Init, HoldsAll, NoJob
<1>3. Inv /\ HoldsAll /\ [Next]_vars => HoldsAll'
    BY HoldsAllKept
<1> QED BY <1>1, <1>2, <1>3, SiteInvariant, PTL DEF Spec, MergeKeepsOpinions

-----------------------------------------------------------------------------
(* How isnot.db follows the repo: a row no commit of the feed is about is  *)
(* the record, and the last operation the feed has on an rkey left it.     *)
ViewFollows ==
    /\ \A r \in RKey : (\A op \in PendingOps : op.rkey # r) => view[r] = repo[r]
    /\ \A i \in 1..Len(pending) : \A op \in pending[i] :
          (\A j \in 1..Len(pending) : i < j => \A o \in pending[j] : o.rkey # op.rkey)
              => op.value = repo[op.rkey]

LEMMA CommitFollows ==
    ASSUME TypeOK, ViewFollows, UNCHANGED view, NEW ops \in SUBSET Op, Commit(ops), Distinct(ops)
    PROVE  ViewFollows'
<1>1. pending \in Seq(SUBSET Op) /\ Len(pending) \in Nat
    BY DEF TypeOK, Op
<1>2. /\ Len(pending') = Len(pending) + 1 /\ pending'[Len(pending) + 1] = ops
      /\ \A i \in 1..Len(pending) : pending'[i] = pending[i]
    BY <1>1 DEF Commit
<1>3. \A r \in RKey : (\A op \in ops : op.rkey # r) => repo'[r] = repo[r]
    BY DEF Commit
<1>4. ASSUME NEW op \in ops PROVE op.rkey \in RKey /\ repo'[op.rkey] = op.value
  <2>1. op.rkey \in RKey
      BY DEF Op
  <2>2. PICK o \in ops : o.rkey = op.rkey /\ repo'[op.rkey] = o.value
      BY <2>1 DEF Commit
  <2> QED BY <2>1, <2>2 DEF Distinct
<1>5. PendingOps \subseteq PendingOps' /\ ops \subseteq PendingOps'
  <2>1. \A i \in 1..Len(pending) : i \in 1..Len(pending') /\ pending'[i] = pending[i]
      BY <1>1, <1>2
  <2>2. Len(pending) + 1 \in 1..Len(pending')
      BY <1>1, <1>2
  <2> QED BY <1>2, <2>1, <2>2 DEF PendingOps
<1>6. ASSUME NEW r \in RKey, \A op \in PendingOps' : op.rkey # r PROVE view'[r] = repo'[r]
    BY <1>3, <1>5, <1>6 DEF ViewFollows
<1>7. ASSUME NEW i \in 1..Len(pending'), NEW op \in pending'[i],
             \A j \in 1..Len(pending') : i < j => \A o \in pending'[j] : o.rkey # op.rkey
      PROVE  op.value = repo'[op.rkey]
  <2>1. CASE i = Len(pending) + 1
      BY <1>2, <1>4, <1>7, <2>1
  <2>2. CASE i # Len(pending) + 1
    <3>1. i \in 1..Len(pending) /\ op \in pending[i] /\ i < Len(pending) + 1
        BY <1>1, <1>2, <1>7, <2>2
    <3>2. op \in Op
        BY <1>1, <3>1
    <3>3. Len(pending) + 1 \in 1..Len(pending')
        BY <1>1, <1>2
    <3>4. \A o \in ops : o.rkey # op.rkey
        BY <1>2, <1>7, <3>1, <3>3
    <3>5. \A j \in 1..Len(pending) : j \in 1..Len(pending') /\ pending'[j] = pending[j]
        BY <1>1, <1>2
    <3>6. \A j \in 1..Len(pending) : i < j => \A o \in pending[j] : o.rkey # op.rkey
        BY <1>7, <3>5
    <3>7. op.value = repo[op.rkey]
        BY <3>1, <3>6 DEF ViewFollows
    <3> QED BY <1>3, <3>2, <3>4, <3>7 DEF Op
  <2> QED BY <2>1, <2>2
<1> QED BY <1>6, <1>7 DEF ViewFollows

LEMMA IngestedFollows == ASSUME TypeOK, ViewFollows, Ingested PROVE ViewFollows'
<1>1. PICK op \in pending[1] :
        /\ view' = [view EXCEPT ![op.rkey] = op.value]
        /\ pending' = IF pending[1] = {op} THEN Tail(pending)
                      ELSE [pending EXCEPT ![1] = @ \ {op}]
    BY DEF Ingested
<1>2. /\ pending \in Seq(SUBSET Op) /\ pending # <<>> /\ Len(pending) \in Nat /\ 1 \in 1..Len(pending)
      /\ repo' = repo /\ view \in [RKey -> Review \cup {None}]
    BY DEF Ingested, TypeOK, Op
<1>3. op \in Op
    BY <1>1, <1>2
<1>4. CASE pending[1] = {op}
  <2>1. pending' = Tail(pending)
      BY <1>1, <1>4
  <2>2. /\ Len(pending') = Len(pending) - 1
        /\ \A i \in 1..Len(pending') : i + 1 \in 1..Len(pending) /\ pending'[i] = pending[i + 1]
      BY <1>2, <2>1, TailFacts
  <2>3. \A j \in 1..Len(pending) : 1 < j => j - 1 \in 1..Len(pending') /\ pending'[j - 1] = pending[j]
    <3> TAKE j \in 1..Len(pending)
    <3>1. 1 < j => j - 1 \in 1..Len(pending') /\ (j - 1) + 1 = j
        BY <1>2, <2>2
    <3> QED BY <2>2, <3>1
  <2>4. \A j \in 1..Len(pending) : 1 < j => pending[j] \subseteq PendingOps'
      BY <2>3 DEF PendingOps
  <2>5. ASSUME NEW r \in RKey, \A o \in PendingOps' : o.rkey # r PROVE view'[r] = repo[r]
    <3>1. CASE r = op.rkey
        BY <1>1, <1>2, <1>3, <2>4, <2>5, <3>1 DEF ViewFollows
    <3>2. CASE r # op.rkey
      <4>1. \A o \in PendingOps : o = op \/ o \in PendingOps'
          BY <1>2, <1>4, <2>4 DEF PendingOps
      <4> QED BY <1>1, <1>2, <2>5, <3>2, <4>1 DEF ViewFollows
    <3> QED BY <3>1, <3>2
  <2>6. ASSUME NEW i \in 1..Len(pending'), NEW o \in pending'[i],
               \A j \in 1..Len(pending') : i < j => \A q \in pending'[j] : q.rkey # o.rkey
        PROVE  o.value = repo[o.rkey]
    <3>1. i + 1 \in 1..Len(pending) /\ o \in pending[i + 1]
        BY <2>2
    <3>2. ASSUME NEW j \in 1..Len(pending), i + 1 < j, NEW q \in pending[j] PROVE q.rkey # o.rkey
      <4>1. 1 < j /\ i < j - 1
          BY <2>2, <3>2
      <4> QED BY <2>3, <2>6, <3>2, <4>1
    <3> QED BY <3>1, <3>2 DEF ViewFollows
  <2> QED BY <1>2, <2>5, <2>6 DEF ViewFollows
<1>5. CASE pending[1] # {op}
  <2>1. pending' = [pending EXCEPT ![1] = @ \ {op}]
      BY <1>1, <1>5
  <2>2. pending \in [1..Len(pending) -> SUBSET Op]
      BY <1>2
  <2>3. pending' \in [1..Len(pending) -> SUBSET Op]
      BY <1>2, <2>1, <2>2
  <2>4. /\ Len(pending') = Len(pending) /\ pending'[1] = pending[1] \ {op}
        /\ \A i \in 1..Len(pending) : 1 < i => pending'[i] = pending[i]
      BY <1>2, <2>1, <2>2, <2>3
  <2>5. \A j \in 1..Len(pending) : 1 < j => pending[j] \subseteq PendingOps'
      BY <2>4 DEF PendingOps
  <2>6. pending[1] \ {op} \subseteq PendingOps'
      BY <1>2, <2>4 DEF PendingOps
  <2>7. ASSUME NEW r \in RKey, \A o \in PendingOps' : o.rkey # r PROVE view'[r] = repo[r]
    <3>1. CASE r = op.rkey
        BY <1>1, <1>2, <1>3, <2>5, <2>7, <3>1 DEF ViewFollows
    <3>2. CASE r # op.rkey
      <4>1. ASSUME NEW o \in PendingOps PROVE o = op \/ o \in PendingOps'
        <5>1. PICK i \in 1..Len(pending) : o \in pending[i]
            BY DEF PendingOps
        <5>2. i = 1 \/ 1 < i
            BY <1>2
        <5> QED BY <2>5, <2>6, <5>1, <5>2
      <4> QED BY <1>1, <1>2, <2>7, <3>2, <4>1 DEF ViewFollows
    <3> QED BY <3>1, <3>2
  <2>8. ASSUME NEW i \in 1..Len(pending'), NEW o \in pending'[i],
               \A j \in 1..Len(pending') : i < j => \A q \in pending'[j] : q.rkey # o.rkey
        PROVE  o.value = repo[o.rkey]
    <3>1. i \in 1..Len(pending) /\ (i = 1 \/ 1 < i)
        BY <1>2, <2>4
    <3>2. o \in pending[i]
        BY <2>4, <3>1
    <3>3. \A j \in 1..Len(pending) : i < j => pending'[j] = pending[j]
        BY <1>2, <2>4, <3>1
    <3> QED BY <2>4, <2>8, <3>1, <3>2, <3>3 DEF ViewFollows
  <2> QED BY <1>2, <2>7, <2>8 DEF ViewFollows
<1> QED BY <1>4, <1>5

-----------------------------------------------------------------------------
(* One record per subject holds as long as every save was asked for        *)
(* carefully: the next save of a subject finds its record, by the key the  *)
(* job would group it with.  Two tabs saving at once, a row isnot.db has   *)
(* not stored yet and a handle form leave duplicates for the job.          *)
OneEach == \A s \in About : \A q, r \in Live(s) : q = r

DidForms == \A r \in RKey : repo[r] # None => NormalUri[repo[r].uri] = repo[r].uri

(* What is to be put under an rkey takes the place of the only record of   *)
(* its subject.                                                            *)
ReplacesItsOwn ==
    \A b \in Browser : requests[b].record # None =>
        /\ requests[b].stage # "idle"
        /\ NormalUri[requests[b].record.uri] = requests[b].record.uri
        /\ Live(Subject(requests[b].record)) \subseteq {requests[b].rkey}

OneSave == \A b, c \in Browser : requests[b].record # None /\ requests[c].record # None => b = c

TodoNeeded == \A g \in job.todo : NeedsHandling(g)

CareInv ==
    careful => ViewFollows /\ OneEach /\ DidForms /\ ReplacesItsOwn /\ OneSave /\ TodoNeeded

(* So the job has nothing to merge onto the head it read.                  *)
LEMMA NoMergeDue ==
    ASSUME Inv, OneEach, DidForms, TodoNeeded, job.swapCommit = head, job.stage # "idle"
    PROVE  job.todo = {}
<1> SUFFICES ASSUME NEW g \in job.todo PROVE FALSE
    OBVIOUS
<1>1. g \subseteq Listed /\ \A x, y \in g : Subject(x.value) = Subject(y.value)
    BY JobGroups
<1>2. \A x \in g : repo[x.rkey] = x.value /\ x.value # None /\ x.rkey \in RKey /\ x.value.uri \in Uri
    BY <1>1, NoneAssumption, ReviewFields DEF Inv, SwapOK, Listed
<1>3. \A x \in g : Subject(x.value) \in About
    BY <1>1, ReviewFields, UriAssumption DEF Listed, Subject, About
<1>4. \A x, y \in g : x.rkey = y.rkey
    BY <1>1, <1>2, <1>3 DEF OneEach, Live
<1>5. \A x, y \in g : x = y
    BY <1>4 DEF Inv, JobOK, Distinct
<1>6. PICK x \in g : TRUE
    BY DEF Inv, JobOK
<1>7. g = {x}
    BY <1>5, <1>6
<1>8. Cardinality(g) = 1
    BY <1>7, FS_Singleton
<1>9. ~(Cardinality(g) > 1)
    BY <1>8
<1>10. \A y \in g : NormalUri[y.value.uri] = y.value.uri
    BY <1>2 DEF DidForms
<1> QED BY <1>9, <1>10 DEF TodoNeeded, NeedsHandling

(* The repo changes by a request alone.                                    *)
LEMMA CareRepoSteps ==
    ASSUME Inv, OneEach, DidForms, TodoNeeded, [Next]_vars
    PROVE  \/ UNCHANGED <<repo, head>>
           \/ UNCHANGED job /\ \E b \in Browser : requests[b].stage = "sent" /\ Applied(b)
BY NoMergeDue, RepoSteps

(* A request is put: its subject has one record after it, and the others   *)
(* the ones they had.                                                      *)
LEMMA AppliedFollows ==
    ASSUME Inv, ViewFollows, UNCHANGED view, NEW b \in Browser, requests[b].stage = "sent", Applied(b)
    PROVE  ViewFollows'
<1> DEFINE op == [rkey |-> requests[b].rkey, value |-> requests[b].record]
           ops == {op}
<1>1. ops \in SUBSET Op /\ (UNCHANGED pds \/ Commit(ops))
    BY AppliedFacts
<1>2. Distinct(ops)
    BY DEF Distinct
<1>3. TypeOK
    BY DEF Inv
<1> HIDE DEF op, ops
<1>4. CASE UNCHANGED pds
    BY <1>4 DEF pds, ViewFollows, PendingOps
<1>5. CASE Commit(ops)
    BY <1>1, <1>2, <1>3, <1>5, CommitFollows
<1> QED BY <1>1, <1>4, <1>5

LEMMA AppliedRepo ==
    ASSUME Inv, NEW b \in Browser, requests[b].stage = "sent", Applied(b)
    PROVE  \/ repo' = repo
           \/ /\ requests[b].rkey \in RKey
              /\ repo' = [r \in RKey |-> IF r = requests[b].rkey THEN requests[b].record ELSE repo[r]]
<1> DEFINE op == [rkey |-> requests[b].rkey, value |-> requests[b].record]
<1>1. requests[b].rkey \in RKey
    BY DEF Inv, TypeOK, RequestsOK
<1>2. CASE Commit({op})
  <2>1. ASSUME NEW r \in RKey
        PROVE  repo'[r] = IF r = requests[b].rkey THEN requests[b].record ELSE repo[r]
    <3>1. CASE r = requests[b].rkey
      <4>1. (CHOOSE o \in {op} : o.rkey = r) = op
          BY <3>1
      <4> QED BY <1>2, <3>1, <4>1 DEF Commit
    <3>2. CASE r # requests[b].rkey
        BY <1>2, <3>2 DEF Commit
    <3> QED BY <3>1, <3>2
  <2> QED BY <1>1, <1>2, <2>1 DEF Commit
<1>3. CASE UNCHANGED pds
    BY <1>3 DEF pds
<1> QED BY <1>2, <1>3 DEF Applied

LEMMA AppliedOneEach ==
    ASSUME Inv, OneEach, ReplacesItsOwn, NEW b \in Browser, requests[b].stage = "sent", Applied(b)
    PROVE  OneEach'
<1> DEFINE key == requests[b].rkey  new == requests[b].record
<1>1. CASE repo' = repo
    BY <1>1 DEF OneEach, Live
<1>2. CASE key \in RKey /\ repo' = [r \in RKey |-> IF r = key THEN new ELSE repo[r]]
  <2> SUFFICES ASSUME NEW s \in About, NEW q \in Live(s)', NEW r \in Live(s)' PROVE q = r
      BY DEF OneEach
  <2>1. \A t \in Live(s)' : \/ t = key /\ new # None /\ Subject(new) = s
                            \/ t # key /\ t \in Live(s)
      BY <1>2 DEF Live
  <2>2. new # None /\ Subject(new) = s => Live(s) \subseteq {key}
      BY DEF ReplacesItsOwn
  <2> QED BY <2>1, <2>2 DEF OneEach
<1> QED BY <1>1, <1>2, AppliedRepo

LEMMA AppliedDidForms ==
    ASSUME Inv, DidForms, ReplacesItsOwn, NEW b \in Browser, requests[b].stage = "sent", Applied(b)
    PROVE  DidForms'
BY AppliedRepo DEF DidForms, ReplacesItsOwn

(* The requests after one of them is done with.                            *)
LEMMA DoneReplaces ==
    ASSUME Inv, ReplacesItsOwn, OneSave, NEW b \in Browser,
           requests' = [requests EXCEPT ![b] = NoRequest],
           repo' = repo \/ (requests[b].stage = "sent" /\ Applied(b))
    PROVE  ReplacesItsOwn' /\ OneSave'
<1>1. \A c \in Browser : requests'[c] = IF c = b THEN NoRequest ELSE requests[c]
    BY DEF Inv, TypeOK
<1>2. OneSave'
    BY <1>1 DEF OneSave, NoRequest
<1>3. ASSUME NEW c \in Browser, requests'[c].record # None
      PROVE  Live(Subject(requests[c].record))' \subseteq Live(Subject(requests[c].record))
  <2>1. c # b /\ requests[c].record # None /\ requests'[c] = requests[c]
      BY <1>1, <1>3 DEF NoRequest
  <2>2. requests[b].record = None
      BY <2>1 DEF OneSave
  <2>3. \A r \in RKey : repo'[r] # None => repo'[r] = repo[r]
      BY <2>2, AppliedRepo
  <2> QED BY <2>1, <2>3 DEF Live
<1>4. ASSUME NEW c \in Browser, requests'[c].record # None
      PROVE  c # b /\ requests'[c] = requests[c]
    BY <1>1, <1>4 DEF NoRequest
<1> QED BY <1>2, <1>3, <1>4 DEF ReplacesItsOwn

(* saveReview finds the record of its subject, if there is one.            *)
LEMMA SaveReplaces ==
    ASSUME Inv, ViewFollows, OneEach, DidForms, ReplacesItsOwn, NEW b \in Browser,
           NEW about \in About, NEW offered \in Offers, NEW dated \in BOOLEAN,
           Save(b, about, offered, dated), Carefully(about)
    PROVE  ReplacesItsOwn' /\ OneSave'
<1>1. PICK found \in FindReview(about), t \in {now, now + 1} :
        requests' = [requests EXCEPT ![b] =
              [stage |-> "agent", rkey |-> found,
               record |-> SavedRecord(about, found, offered, forms[b].prefilled, dated, t)]]
    BY DEF Save
<1> DEFINE record == SavedRecord(about, found, offered, forms[b].prefilled, dated, t)
<1>2. pending = <<>> /\ UNCHANGED repo
    BY DEF Save, Carefully, pds
<1>3. \A r \in RKey : view[r] = repo[r]
    BY <1>2 DEF ViewFollows, PendingOps
<1>4. Subject(record) = about /\ NormalUri[record.uri] = record.uri
    BY DEF SavedRecord, Subject, About, Carefully
<1> HIDE DEF record
<1>5. Live(about) = {r \in RKey : view[r] # None /\ view[r].uri = about.uri /\ view[r].locale = about.locale}
  <2> SUFFICES ASSUME NEW r \in RKey, repo[r] # None
               PROVE  Subject(repo[r]) = about <=> repo[r].uri = about.uri /\ repo[r].locale = about.locale
      BY <1>3 DEF Live
  <2>1. NormalUri[repo[r].uri] = repo[r].uri
      BY DEF DidForms
  <2> QED BY <2>1 DEF Subject, About
<1>6. Live(about) \subseteq {found}
    BY <1>5 DEF FindReview, OneEach
<1>7. requests'[b] = [stage |-> "agent", rkey |-> found, record |-> record]
    BY <1>1 DEF Inv, TypeOK, record
<1>8. \A c \in Browser : c # b => requests'[c].record = None
  <2>1. \A c \in Browser : requests[c].record = None
      BY DEF Carefully, ReplacesItsOwn
  <2> QED BY <1>1, <2>1 DEF Inv, TypeOK
<1>9. \A s \in About : Live(s)' = Live(s)
    BY <1>2 DEF Live
<1> QED BY <1>4, <1>6, <1>7, <1>8, <1>9 DEF ReplacesItsOwn, OneSave

LEMMA AgentReadyReplaces ==
    ASSUME Inv, ReplacesItsOwn, OneSave, NEW b \in Browser, AgentReady(b)
    PROVE  ReplacesItsOwn' /\ OneSave'
<1>1. UNCHANGED repo
    BY DEF AgentReady, pds
<1>2. requests \in [Browser -> [stage : {"idle", "agent", "sent"},
                                rkey : RKey \cup {None}, record : Review \cup {None}]]
    BY DEF Inv, TypeOK
<1>3. ASSUME NEW c \in Browser
      PROVE  /\ requests'[c].record = requests[c].record
             /\ c # b => requests'[c] = requests[c]
             /\ c = b => requests'[c].stage = "sent"
             /\ c = b => requests'[c].rkey = IF requests[c].rkey = None THEN nextKey ELSE requests[c].rkey
  <2>1. CASE requests[b].rkey = None
    <3>1. requests' = [requests EXCEPT ![b].stage = "sent", ![b].rkey = nextKey]
        BY <2>1 DEF AgentReady
    <3>2. requests' = [requests EXCEPT ![b] = [[requests[b] EXCEPT !.stage = "sent"] EXCEPT !.rkey = nextKey]]
        BY <1>2, <3>1
    <3> QED BY <1>2, <2>1, <3>2
  <2>2. CASE requests[b].rkey # None
    <3>1. requests' = [requests EXCEPT ![b].stage = "sent"]
        BY <2>2 DEF AgentReady
    <3> QED BY <1>2, <2>2, <3>1
  <2> QED BY <2>1, <2>2
<1>4. \A s : Live(s)' = Live(s)
    BY <1>1 DEF Live
<1>5. None \notin RKey /\ repo \in [RKey -> Review \cup {None}]
    BY NoneAssumption DEF RKey, Inv, TypeOK
<1>7. ASSUME NEW c \in Browser, requests'[c].record # None
      PROVE  /\ requests'[c].stage # "idle"
             /\ Live(Subject(requests[c].record)) \subseteq {requests'[c].rkey}
  <2>1. CASE c # b
      BY <1>3, <1>7, <2>1 DEF ReplacesItsOwn
  <2>2. CASE c = b /\ requests[b].rkey # None
      BY <1>3, <1>7, <2>2 DEF ReplacesItsOwn
  <2>3. CASE c = b /\ requests[b].rkey = None
    <3>1. Live(Subject(requests[c].record)) \subseteq {None}
        BY <1>3, <1>7, <2>3 DEF ReplacesItsOwn
    <3>2. Live(Subject(requests[c].record)) = {}
        BY <1>5, <3>1 DEF Live
    <3> QED BY <1>3, <2>3, <3>2
  <2> QED BY <2>1, <2>2, <2>3
<1>8. OneSave'
    BY <1>3 DEF OneSave
<1> QED BY <1>1, <1>3, <1>4, <1>7, <1>8 DEF ReplacesItsOwn

LEMMA UntouchedReplaces ==
    ASSUME ReplacesItsOwn, OneSave, UNCHANGED <<repo, requests>>
    PROVE  ReplacesItsOwn' /\ OneSave'
<1>1. \A s : Live(s)' = Live(s)
    BY DEF Live
<1> QED BY <1>1 DEF ReplacesItsOwn, OneSave

(* What the job is left with is still to be handled.                       *)
LEMMA TodoStaysNeeded == ASSUME Inv, TodoNeeded, [Next]_vars PROVE TodoNeeded'
<1>1. job' = job => TodoNeeded'
    BY DEF TodoNeeded
<1>2. job' = NoJob => TodoNeeded'
    BY DEF TodoNeeded, NoJob
<1>3. job \in [stage : {"idle", "list", "merge"}, swapCommit : Nat, below : Nat,
               listed : SUBSET Listed, todo : SUBSET SUBSET Listed]
    BY DEF Inv, TypeOK
<1>4. CASE JobStarts
    BY <1>4 DEF JobStarts, NoJob, TodoNeeded
<1>5. CASE ListPage
  <2>1. job'.todo = job.todo
      BY <1>3, <1>5 DEF ListPage
  <2> QED BY <2>1 DEF TodoNeeded
<1>6. CASE GroupBySubject
  <2>1. PICK unresolved :
          job' = NoJob \/ job' = [job EXCEPT !.stage = "merge", !.listed = {},
                !.todo = {g \in Groups(job.listed \ unresolved) : NeedsHandling(g) /\ Mergeable(g)}]
      BY <1>6 DEF GroupBySubject
  <2>2. job' # NoJob =>
          job'.todo = {g \in Groups(job.listed \ unresolved) : NeedsHandling(g) /\ Mergeable(g)}
      BY <1>3, <2>1
  <2> QED BY <1>2, <2>2 DEF TodoNeeded
<1>7. CASE \E g \in job.todo : MergeGroup(g)
  <2>1. job' # NoJob => job'.todo \subseteq job.todo
      BY <1>3, <1>7 DEF MergeGroup, AfterMerge
  <2> QED BY <1>2, <2>1 DEF TodoNeeded
<1>8. CASE JobFails
    BY <1>2, <1>8 DEF JobFails
<1>9. ASSUME NEW b \in Browser, BrowserNext(b) PROVE job' = job
    BY <1>9 DEF BrowserNext, LoadExisting, ClearForm, Save, Delete, AgentReady, WriteLands, WriteUnanswered, WriteFails
<1>10. Ingested \/ UNCHANGED vars => job' = job
    BY DEF Ingested, vars
<1> QED BY <1>1, <1>4, <1>5, <1>6, <1>7, <1>8, <1>9, <1>10 DEF Next, JobNext

LEMMA CareFollows ==
    ASSUME Inv, CareInv, careful, [Next]_vars
    PROVE  ViewFollows'
<1>1. CASE Ingested
    BY <1>1, IngestedFollows DEF Inv, CareInv
<1>2. CASE \E b \in Browser : WriteLands(b) \/ WriteUnanswered(b)
  <2>1. PICK b \in Browser : requests[b].stage = "sent" /\ Applied(b) /\ UNCHANGED view
      BY <1>2 DEF WriteLands, WriteUnanswered
  <2> QED BY <2>1, AppliedFollows DEF CareInv
<1>3. CASE UNCHANGED <<pds, view>>
    BY <1>3 DEF pds, ViewFollows, PendingOps, CareInv
<1>4. ASSUME NEW b \in Browser, BrowserNext(b), ~(WriteLands(b) \/ WriteUnanswered(b))
      PROVE  UNCHANGED <<pds, view>>
    BY <1>4 DEF BrowserNext, LoadExisting, ClearForm, Save, Delete, AgentReady, WriteFails
<1>5. JobNext \/ JobFails => UNCHANGED <<pds, view>>
  <2>1. job.stage # "idle" /\ job.swapCommit = head => job.todo = {}
      BY NoMergeDue DEF CareInv
  <2>2. ASSUME NEW g \in job.todo, MergeGroup(g) PROVE UNCHANGED <<pds, view>>
      BY <2>1, <2>2 DEF MergeGroup
  <2>3. JobFails => UNCHANGED <<pds, view>>
      BY <2>1 DEF JobFails
  <2> QED BY <2>2, <2>3 DEF JobNext, JobStarts, ListPage, GroupBySubject
<1> QED BY <1>1, <1>2, <1>3, <1>4, <1>5 DEF Next, vars

LEMMA CareReplaces ==
    ASSUME Inv, CareInv, careful, careful', [Next]_vars
    PROVE  ReplacesItsOwn' /\ OneSave'
<1> USE DEF CareInv
<1>1. ASSUME NEW b \in Browser, ClearForm(b) \/ \E about \in About : LoadExisting(b, about)
      PROVE  UNCHANGED <<repo, requests>>
    BY <1>1 DEF ClearForm, LoadExisting, pds
<1>2. ASSUME NEW b \in Browser, NEW about \in About, NEW offered \in Offers, NEW dated \in BOOLEAN,
             Save(b, about, offered, dated)
      PROVE  ReplacesItsOwn' /\ OneSave'
  <2>1. Carefully(about)
      BY <1>2 DEF Save
  <2> QED BY <1>2, <2>1, SaveReplaces
<1>3. ASSUME NEW b \in Browser, NEW r \in RKey, Delete(b, r) PROVE ReplacesItsOwn' /\ OneSave'
  <2>1. UNCHANGED repo /\ \A c \in Browser :
            requests'[c].record # None => requests'[c] = requests[c]
      BY <1>3 DEF Delete, Inv, TypeOK, pds
  <2>2. \A s : Live(s)' = Live(s)
      BY <2>1 DEF Live
  <2> QED BY <2>1, <2>2 DEF ReplacesItsOwn, OneSave
<1>4. ASSUME NEW b \in Browser, AgentReady(b) PROVE ReplacesItsOwn' /\ OneSave'
    BY <1>4, AgentReadyReplaces
<1>5. ASSUME NEW b \in Browser, WriteLands(b) \/ WriteUnanswered(b) \/ WriteFails(b)
      PROVE  ReplacesItsOwn' /\ OneSave'
  <2>1. /\ requests' = [requests EXCEPT ![b] = NoRequest]
        /\ repo' = repo \/ (requests[b].stage = "sent" /\ Applied(b))
      BY <1>5 DEF WriteLands, WriteUnanswered, WriteFails, pds
  <2> QED BY <2>1, DoneReplaces
<1>6. JobNext \/ JobFails \/ Ingested \/ UNCHANGED vars => UNCHANGED <<repo, requests>>
  <2>1. job.stage # "idle" /\ job.swapCommit = head => job.todo = {}
      BY NoMergeDue
  <2>2. ASSUME NEW g \in job.todo, MergeGroup(g) PROVE UNCHANGED <<repo, requests>>
      BY <2>1, <2>2 DEF MergeGroup, pds
  <2>3. JobFails => UNCHANGED <<repo, requests>>
      BY <2>1 DEF JobFails, pds
  <2> QED BY <2>2, <2>3 DEF JobNext, JobStarts, ListPage, GroupBySubject, Ingested, vars, pds
<1> QED BY <1>1, <1>2, <1>3, <1>4, <1>5, <1>6, UntouchedReplaces DEF Next, BrowserNext

LEMMA CareKept ==
    ASSUME Inv, CareInv, [Next]_vars
    PROVE  CareInv'
<1> SUFFICES ASSUME careful'
             PROVE  (ViewFollows /\ OneEach /\ DidForms /\ ReplacesItsOwn /\ OneSave /\ TodoNeeded)'
    BY DEF CareInv
<1>1. careful
    BY DEF Next, BrowserNext, LoadExisting, ClearForm, Save, Delete, AgentReady, WriteLands,
           WriteUnanswered, WriteFails, JobNext, JobStarts, ListPage, GroupBySubject, MergeGroup,
           JobFails, Ingested, vars
<1>2. OneEach' /\ DidForms'
  <2>1. UNCHANGED repo => OneEach' /\ DidForms'
      BY <1>1 DEF OneEach, DidForms, Live, CareInv
  <2> QED BY <1>1, <2>1, CareRepoSteps, AppliedOneEach, AppliedDidForms DEF CareInv
<1> QED BY <1>1, <1>2, CareFollows, CareReplaces, TodoStaysNeeded DEF CareInv

LEMMA CareStarts == Init => CareInv
BY DEF Init, CareInv, ViewFollows, OneEach, DidForms, ReplacesItsOwn, OneSave, TodoNeeded,
       PendingOps, Live, NoRequest, NoJob

(* As long as every save was asked for carefully a person has one record   *)
(* per subject and locale at every moment: a write that fails or whose     *)
(* answer is lost, and is sent again, makes no second one, nor does a      *)
(* deletion or a job running meanwhile (saveReview).                       *)
THEOREM OneRecordWithCare == Spec => []OneRecordPerSubject
<1>1. Inv /\ CareInv => OneRecordPerSubject
  <2> SUFFICES ASSUME CareInv, careful, NEW s \in About PROVE Cardinality(Live(s)) <= 1
      BY DEF OneRecordPerSubject
  <2>1. CASE Live(s) = {}
      BY <2>1, FS_EmptySet
  <2>2. CASE Live(s) # {}
    <3>1. PICK r \in Live(s) : TRUE
        BY <2>2
    <3>2. Live(s) = {r}
        BY <3>1 DEF CareInv, OneEach
    <3>3. Cardinality(Live(s)) = 1
        BY <3>2, FS_Singleton
    <3> QED BY <3>3
  <2> QED BY <2>1, <2>2
<1>2. Inv /\ CareInv /\ [Next]_vars => CareInv'
    BY CareKept
<1> QED BY <1>1, <1>2, CareStarts, SiteInvariant, PTL DEF Spec
=============================================================================
