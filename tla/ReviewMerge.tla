---------------------------- MODULE ReviewMerge ----------------------------
(***************************************************************************)
(* What the site does to one person's reviews as values: joining a new     *)
(* opinion to a stored review (review.ts) and merging a group of duplicate *)
(* records into one (mergeDuplicates.ts).                                  *)
(*                                                                         *)
(* An adjective is taken after trimming and case folding, which is how     *)
(* both files match it, so a review's tags are a function from words to    *)
(* directions; the spelling shown and the order of tags are left out.  A   *)
(* subject's cid, title and type travel with its uri and are left out too. *)
(***************************************************************************)
EXTENDS Integers, FiniteSets

CONSTANTS
    Word,       \* folded adjectives
    Uri,        \* subject uris, under a DID or under a handle
    NormalUri,  \* the DID form of each uri
    Locale,     \* the locales reviews are written in
    MaxTags,    \* MAX_TAGS
    None        \* no record, no rkey, no subject

ASSUME WordAssumption == IsFiniteSet(Word)
ASSUME UriAssumption == /\ NormalUri \in [Uri -> Uri]
                        /\ \A u \in Uri : NormalUri[NormalUri[u]] = NormalUri[u]
ASSUME MaxTagsAssumption == MaxTags \in Nat

Direction == -2..2

Tags == UNION {[W -> Direction] : W \in SUBSET Word}

(* What validateReview lets through, as far as it matters here.            *)
Review == [uri : Uri, locale : Locale, tags : Tags, createdAt : Nat, updatedAt : Nat]

ASSUME NoneAssumption == None \notin Review /\ None \notin Nat

(* What findReview looks up, and what the merge groups by.                 *)
About == [uri : Uri, locale : Locale]

Subject(review) == [uri |-> NormalUri[review.uri], locale |-> review.locale]

-----------------------------------------------------------------------------
(* Joining an opinion to a review: what the form was shown and no longer   *)
(* offers goes, what it offers wins, the rest stays.                       *)
MergeTags(stored, offered, prefilled) ==
    LET kept == {w \in DOMAIN stored : w \in DOMAIN offered \/ w \notin prefilled}
    IN  [w \in kept \cup DOMAIN offered |->
            IF w \in DOMAIN offered THEN offered[w] ELSE stored[w]]

-----------------------------------------------------------------------------
(* Merging duplicates.  A record here is [rkey, value], as it was listed.  *)
Abs(n) == IF n < 0 THEN -n ELSE n

Beats_OldestFirst(candidate, current) ==
    LET c == candidate.direction  d == current.direction IN
    \/ candidate.updatedAt < current.updatedAt
    \/ /\ candidate.updatedAt = current.updatedAt
       /\ \/ Abs(c) < Abs(d)
          \/ Abs(c) = Abs(d) /\ c > d

(* The later record's word wins; then the direction nearer 0; then "is".   *)
Beats(candidate, current) ==
    LET c == candidate.direction  d == current.direction IN
    \/ candidate.updatedAt > current.updatedAt
    \/ /\ candidate.updatedAt = current.updatedAt
       /\ \/ Abs(c) < Abs(d)
          \/ Abs(c) = Abs(d) /\ c > d

WordsOf(records) == UNION {DOMAIN x.value.tags : x \in records}

Candidates(records, w) ==
    {[direction |-> x.value.tags[w], updatedAt |-> x.value.updatedAt] :
        x \in {y \in records : w \in DOMAIN y.value.tags}}

MergeAllTags(records) ==
    [w \in WordsOf(records) |->
        (CHOOSE c \in Candidates(records, w) :
            \A d \in Candidates(records, w) : d = c \/ Beats(c, d)).direction]

(* The first record created is kept; of two, the one with the smaller rkey. *)
PickKeeper(records) ==
    CHOOSE a \in records : \A b \in records \ {a} :
        \/ a.value.createdAt < b.value.createdAt
        \/ a.value.createdAt = b.value.createdAt /\ a.rkey < b.rkey

(* A PDS lists the newest rkey first, and the reduce keeps the first it meets. *)
LatestOf(records) ==
    CHOOSE a \in records : \A b \in records \ {a} :
        \/ a.value.updatedAt > b.value.updatedAt
        \/ a.value.updatedAt = b.value.updatedAt /\ a.rkey > b.rkey

MergedRecord(records) ==
    LET latest == LatestOf(records).value IN
    [latest EXCEPT !.uri = NormalUri[latest.uri],
                   !.tags = MergeAllTags(records),
                   !.createdAt = PickKeeper(records).value.createdAt]

NeedsHandling_OnlyDuplicates(records) == Cardinality(records) > 1

(* Groups the job leaves alone: a lone record in normal form, and a group  *)
(* whose merge would not fit in a review.                                  *)
NeedsHandling(records) ==
    \/ Cardinality(records) > 1
    \/ \E x \in records : x.value.uri # NormalUri[x.value.uri]

Mergeable(records) == Cardinality(WordsOf(records)) <= MaxTags

(* The writes of one applyWrites: the keeper's update, the others' deletion. *)
MergeWrites(records) ==
    LET keeper == PickKeeper(records) IN
    {[rkey |-> keeper.rkey, value |-> MergedRecord(records)]}
    \cup {[rkey |-> x.rkey, value |-> None] : x \in records \ {keeper}}
=============================================================================
