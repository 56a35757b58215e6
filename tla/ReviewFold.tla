----------------------------- MODULE ReviewFold -----------------------------
(***************************************************************************)
(* The tables of isnot.db and the fold that jetstream events make over     *)
(* them (ingest.go: apply, applyCommit, upsertSubject).  Pure operators:   *)
(* the processes that call them are in Ingest.                             *)
(*                                                                         *)
(* The second half gives the meaning of the fold without running it: a     *)
(* review is what the LAST event that touches its key left.  Ingest is     *)
(* checked, and IngestProofs proves it correct, against that meaning.      *)
(***************************************************************************)
EXTENDS Integers, Sequences

CONSTANTS
    DID,        \* accounts
    RKey,       \* record keys of reviews within a repo
    URI,        \* subjects: at-uris of the things reviewed
    Version,    \* record versions of a subject (its cids), oldest first
    Body,       \* a review's own title, type, locale and timestamps, as one value
    Adjective,
    Handle,
    Empty,      \* the handle '': lookup failed, or handle.invalid
    None        \* no row

ASSUME VersionAssumption == Version \subseteq Nat /\ 1 \in Version

Key == DID \X RKey

Direction == -2..2

(* One element of a record's "tags" array. *)
Tag == [adjective : Adjective, direction : Direction]

(* The columns of a reviews row apart from its key. *)
Review == [uri : URI, cid : Version, body : Body]

ASSUME SentinelAssumption == None \notin Handle \cup {Empty} \cup Version \cup Review

(* The review_tags rows of one review. *)
TagTable == SUBSET Tag

NoTags == {}

(* The handle carried by an identity event: a handle, none, or the relay's *)
(* sentinel for an account that no longer controls its handle.             *)
HandleClaim == [given : {"handle"}, handle : Handle] \cup [given : {"none", "invalid"}]

(* How a create or update commit fares: accepted; rejected by the lexicon; *)
(* or accepted by the lexicon with a timestamp time.Parse refuses.         *)
Verdict == {"valid", "rejected", "badTime"}

Event ==
         [kind : {"put"}, did : DID, rkey : RKey, verdict : Verdict,
          review : Review, tags : Seq(Tag)]
    \cup [kind : {"delete"}, did : DID, rkey : RKey]
    \cup [kind : {"account"}, did : DID, active : BOOLEAN, status : {"deleted", "other"}]
    \cup [kind : {"sync"}, did : DID]
    \cup [kind : {"identity"}, did : DID, claim : HandleClaim]
    \cup [kind : {"otherCollection"}, did : DID]

(* The committed contents of isnot.db. cursor is 0 when it has no row.     *)
(* Of subjects only the version the lens saw is kept: title, type and      *)
(* identifiers are functions of that version.                              *)
Tables ==
    [reviews  : [Key -> Review \cup {None}],
     tags     : [Key -> TagTable],
     accounts : [DID -> Handle \cup {Empty, None}],
     subjects : [URI -> Version \cup {None}],
     cursor   : Nat]

EmptyTables ==
    [reviews  |-> [k \in Key |-> None],
     tags     |-> [k \in Key |-> NoTags],
     accounts |-> [d \in DID |-> None],
     subjects |-> [u \in URI |-> None],
     cursor   |-> 0]

-----------------------------------------------------------------------------
(* The statements of apply and applyCommit.                                *)

(* DELETE FROM review_tags, then INSERT OR REPLACE one element after the   *)
(* other: of the elements naming an adjective the last one's row remains.  *)
TagRows(tags) ==
    {tags[i] : i \in {i \in 1..Len(tags) :
        \A j \in (i + 1)..Len(tags) : tags[j].adjective # tags[i].adjective}}

(* Mutant: foreign_keys is off, so nothing cascades. *)
DeleteReviews_NoCascade(t, gone) ==
    [t EXCEPT !.reviews = [k \in Key |-> IF k \in gone THEN None ELSE t.reviews[k]]]

(* DELETE FROM reviews WHERE ...; the foreign key cascades to review_tags. *)
DeleteReviews(t, gone) ==
    [t EXCEPT !.reviews = [k \in Key |-> IF k \in gone THEN None ELSE t.reviews[k]],
              !.tags    = [k \in Key |-> IF k \in gone THEN NoTags ELSE t.tags[k]]]

UpsertReview(t, k, review, tags) ==
    [t EXCEPT !.reviews = [t.reviews EXCEPT ![k] = review],
              !.tags    = [t.tags EXCEPT ![k] = TagRows(tags)]]

ReposReviews(did) == {did} \X RKey

(* Mutant: an update that does not validate is skipped. *)
ApplyCommit_SkipsInvalid(t, e) ==
    IF e.kind = "put"
        THEN IF e.verdict = "valid"
                THEN UpsertReview(t, <<e.did, e.rkey>>, e.review, e.tags) ELSE t
        ELSE DeleteReviews(t, {<<e.did, e.rkey>>})

ApplyCommit(t, e) ==
    IF e.kind = "put" /\ e.verdict = "valid"
        THEN UpsertReview(t, <<e.did, e.rkey>>, e.review, e.tags)
        ELSE DeleteReviews(t, {<<e.did, e.rkey>>})

HandleOf(claim) == IF claim.given = "invalid" THEN Empty ELSE claim.handle

(* Mutant: the first handle wins (ON CONFLICT DO NOTHING). *)
ApplyIdentity_FirstWins(t, e) ==
    IF e.claim.given = "none" \/ t.accounts[e.did] # None
        THEN t
        ELSE [t EXCEPT !.accounts = [t.accounts EXCEPT ![e.did] = HandleOf(e.claim)]]

ApplyIdentity(t, e) ==
    IF e.claim.given = "none"
        THEN t
        ELSE [t EXCEPT !.accounts = [t.accounts EXCEPT ![e.did] = HandleOf(e.claim)]]

Apply(t, e) ==
    CASE e.kind \in {"put", "delete"} -> ApplyCommit(t, e)
      [] e.kind = "account" /\ ~e.active /\ e.status = "deleted" ->
            DeleteReviews(t, ReposReviews(e.did))
      [] e.kind = "sync" -> DeleteReviews(t, ReposReviews(e.did))
      [] e.kind = "identity" -> ApplyIdentity(t, e)
      [] OTHER -> t

(* Accounts seen for the first time, inserted ON CONFLICT DO NOTHING.      *)
InsertAccounts(t, handles) ==
    [t EXCEPT !.accounts = [d \in DID |->
        IF t.accounts[d] = None /\ d \in DOMAIN handles THEN handles[d] ELSE t.accounts[d]]]

(* upsertSubject for every subject just lensed: the row is overwritten     *)
(* whatever it held.                                                       *)
UpsertSubjects(t, lensed) ==
    [t EXCEPT !.subjects = [u \in URI |->
        IF u \in DOMAIN lensed THEN lensed[u] ELSE t.subjects[u]]]

-----------------------------------------------------------------------------
(* The meaning of the fold.                                                *)

(* The keys whose review event e decides, whatever the tables hold.        *)
Touched(e) ==
    CASE e.kind \in {"put", "delete"} -> {<<e.did, e.rkey>>}
      [] e.kind = "account" /\ ~e.active /\ e.status = "deleted" -> ReposReviews(e.did)
      [] e.kind = "sync" -> ReposReviews(e.did)
      [] OTHER -> {}

(* What a touched key holds after e. *)
Left(e) ==
    IF e.kind = "put" /\ e.verdict = "valid"
        THEN <<e.review, TagRows(e.tags)>>
        ELSE <<None, NoTags>>

(* The reviews of tables t: per key, the reviews row and its review_tags. *)
ReviewsOf(t) == [k \in Key |-> <<t.reviews[k], t.tags[k]>>]

NoReviews == [k \in Key |-> <<None, NoTags>>]

(* Reviews r are base with events lo..hi of the log folded in: every key   *)
(* holds what the last of those events to touch it left, or, untouched,    *)
(* what it held in base.                                                   *)
Folded(log, r, base, lo, hi) ==
    \A k \in Key :
        \/ /\ \A i \in lo..hi : k \notin Touched(log[i])
           /\ r[k] = base[k]
        \/ \E i \in lo..hi :
              /\ k \in Touched(log[i])
              /\ \A j \in (i + 1)..hi : k \notin Touched(log[j])
              /\ r[k] = Left(log[i])
=============================================================================
