------------------------- MODULE ReviewMergeProofs -------------------------
(***************************************************************************)
(* What merging a group of duplicate records yields, for any group: the    *)
(* choices of mergeDuplicates.ts always exist, whatever ties there are.    *)
(***************************************************************************)
EXTENDS ReviewMerge, TLAPS, WellFoundedInduction

(* A group as it is merged: not empty, its rkeys distinct, and every rkey  *)
(* and date below a bound.                                                 *)
IsGroup(records, bound) ==
    /\ records # {}
    /\ \A x \in records : /\ x.rkey \in 0..bound
                          /\ x.value \in Review /\ x.value.updatedAt <= bound
    /\ \A x, y \in records : x.rkey = y.rkey => x = y

-----------------------------------------------------------------------------
(* A nonempty set of numbers has a least one.                              *)
LEMMA LeastExists ==
    ASSUME NEW S \in SUBSET Nat, S # {}
    PROVE  \E n \in S : \A m \in S : n <= m
<1> DEFINE Less == {p \in Nat \X Nat : p[1] < p[2]}
<1>1. Less = OpToRel(<, Nat)
    BY DEF OpToRel
<1>2. IsWellFoundedOn(Less, Nat)
    BY <1>1, NatLessThanWellFounded
<1> HIDE DEF Less
<1>3. PICK n \in S : \A m \in S : ~(<<m, n>> \in Less)
    BY <1>2, WFMin
<1>4. ASSUME NEW m \in S PROVE n <= m
  <2>1. m \in Nat /\ n \in Nat
      OBVIOUS
  <2>2. m < n => <<m, n>> \in Less
      BY <2>1 DEF Less
  <2>3. ~(m < n)
      BY <1>3, <2>2
  <2> QED BY <2>1, <2>3
<1> QED BY <1>4

(* So has the image of any nonempty set under a function to numbers.       *)
LEMMA LeastOf ==
    ASSUME NEW S, S # {}, NEW f \in [S -> Nat]
    PROVE  \E a \in S : \A b \in S : f[a] <= f[b]
<1> DEFINE I == {f[a] : a \in S}
<1>1. I \in SUBSET Nat /\ I # {}
    OBVIOUS
<1>2. PICK n \in I : \A m \in I : n <= m
    BY <1>1, LeastExists
<1> QED BY <1>2

LEMMA ReviewFields ==
    ASSUME NEW r \in Review
    PROVE  /\ r.uri \in Uri /\ r.locale \in Locale /\ r.tags \in Tags
           /\ r.createdAt \in Nat /\ r.updatedAt \in Nat
BY DEF Review

(* The keeper is one of the group, and no record is older.                 *)
LEMMA KeeperExists ==
    ASSUME NEW records, NEW bound \in Nat, IsGroup(records, bound)
    PROVE  /\ PickKeeper(records) \in records
           /\ \A x \in records : PickKeeper(records).value.createdAt <= x.value.createdAt
<1> DEFINE created == [x \in records |-> x.value.createdAt]
<1>1. created \in [records -> Nat]
    BY ReviewFields DEF IsGroup
<1>2. PICK o \in records : \A x \in records : created[o] <= created[x]
    BY <1>1, LeastOf DEF IsGroup
<1> DEFINE oldest == {x \in records : x.value.createdAt = o.value.createdAt}
           rkey == [x \in oldest |-> x.rkey]
<1>3. oldest # {} /\ rkey \in [oldest -> Nat]
    BY <1>2 DEF IsGroup
<1>4. PICK a \in oldest : \A x \in oldest : rkey[a] <= rkey[x]
    BY <1>3, LeastOf
<1>5. \A b \in records \ {a} :
        \/ a.value.createdAt < b.value.createdAt
        \/ a.value.createdAt = b.value.createdAt /\ a.rkey < b.rkey
  <2> TAKE b \in records \ {a}
  <2>1. /\ a.value.createdAt \in Nat /\ b.value.createdAt \in Nat
        /\ a.rkey \in Nat /\ b.rkey \in Nat /\ a.rkey # b.rkey
      BY <1>4, ReviewFields DEF IsGroup
  <2>2. a.value.createdAt <= b.value.createdAt
      BY <1>2, <1>4
  <2>3. b.value.createdAt = a.value.createdAt => a.rkey <= b.rkey
      BY <1>4
  <2> QED BY <2>1, <2>2, <2>3
<1> DEFINE k == PickKeeper(records)
<1>6. k \in records /\ \A b \in records \ {k} :
        \/ k.value.createdAt < b.value.createdAt
        \/ k.value.createdAt = b.value.createdAt /\ k.rkey < b.rkey
    BY <1>4, <1>5, Zenon DEF PickKeeper
<1> HIDE DEF k
<1>7. \A x \in records : x.value.createdAt \in Nat
    BY ReviewFields DEF IsGroup
<1>8. \A x \in records : k.value.createdAt <= x.value.createdAt
    BY <1>6, <1>7
<1> QED BY <1>6, <1>8 DEF k

(* So is the record last updated.                                          *)
LEMMA LatestExists ==
    ASSUME NEW records, NEW bound \in Nat, IsGroup(records, bound)
    PROVE  LatestOf(records) \in records
<1> DEFINE age == [x \in records |-> bound - x.value.updatedAt]
<1>1. age \in [records -> Nat]
    BY ReviewFields DEF IsGroup
<1>2. PICK o \in records : \A x \in records : age[o] <= age[x]
    BY <1>1, LeastOf DEF IsGroup
<1> DEFINE latest == {x \in records : x.value.updatedAt = o.value.updatedAt}
           left == [x \in latest |-> bound - x.rkey]
<1>3. latest # {} /\ left \in [latest -> Nat]
    BY <1>2 DEF IsGroup
<1>4. PICK a \in latest : \A x \in latest : left[a] <= left[x]
    BY <1>3, LeastOf
<1>5. \A b \in records \ {a} :
        \/ a.value.updatedAt > b.value.updatedAt
        \/ a.value.updatedAt = b.value.updatedAt /\ a.rkey > b.rkey
  <2> TAKE b \in records \ {a}
  <2>1. /\ a.value.updatedAt \in Nat /\ b.value.updatedAt \in Nat
        /\ a.rkey \in Nat /\ b.rkey \in Nat /\ a.rkey # b.rkey
      BY <1>4, ReviewFields DEF IsGroup
  <2>2. bound - a.value.updatedAt <= bound - b.value.updatedAt
      BY <1>2, <1>4
  <2>3. b.value.updatedAt = a.value.updatedAt => bound - a.rkey <= bound - b.rkey
      BY <1>4
  <2> QED BY <2>1, <2>2, <2>3
<1> QED BY <1>4, <1>5, Zenon DEF LatestOf

-----------------------------------------------------------------------------
LEMMA TagsFacts ==
    ASSUME NEW tags \in Tags
    PROVE  /\ DOMAIN tags \subseteq Word
           /\ tags \in [DOMAIN tags -> Direction]
           /\ \A w \in DOMAIN tags : tags[w] \in Direction
BY DEF Tags

(* Among the candidates for a word one beats all the others: beats orders  *)
(* them totally.  It comes from a record last updated of those with it.    *)
LEMMA WinnerExists ==
    ASSUME NEW records, NEW bound \in Nat, IsGroup(records, bound),
           NEW w \in WordsOf(records)
    PROVE  LET C == Candidates(records, w)
               c == CHOOSE c \in C : \A d \in C : d = c \/ Beats(c, d)
           IN  /\ c \in C
               /\ \A d \in C : d = c \/ Beats(c, d)
               /\ \A d \in C : d.updatedAt <= c.updatedAt
<1> DEFINE C == Candidates(records, w)
           closeness == [d \in Direction |-> IF d > 0 THEN 2 * d - 1 ELSE -(2 * d)]
<1>1. C # {}
    BY DEF WordsOf, Candidates
<1>2. \A c \in C : /\ c = [direction |-> c.direction, updatedAt |-> c.updatedAt]
                   /\ c.direction \in Direction
                   /\ c.updatedAt \in Nat /\ c.updatedAt <= bound
  <2> TAKE c \in C
  <2>1. PICK x \in records : /\ w \in DOMAIN x.value.tags
                             /\ c = [direction |-> x.value.tags[w],
                                     updatedAt |-> x.value.updatedAt]
      BY DEF Candidates
  <2>2. x.value.tags[w] \in Direction
      BY <2>1, ReviewFields, TagsFacts DEF IsGroup
  <2> QED BY <2>1, <2>2, ReviewFields DEF IsGroup
<1> HIDE DEF C
<1> DEFINE age == [c \in C |-> bound - c.updatedAt]
<1>3. age \in [C -> Nat]
    BY <1>2
<1>4. PICK o \in C : \A c \in C : age[o] <= age[c]
    BY <1>1, <1>3, LeastOf
<1>5. \A c \in C : c.updatedAt <= o.updatedAt
    BY <1>2, <1>4
<1> DEFINE newest == {c \in C : c.updatedAt = o.updatedAt}
           close == [c \in newest |-> closeness[c.direction]]
<1>6. newest # {} /\ close \in [newest -> Nat]
    BY <1>2, <1>4 DEF Direction
<1>7. PICK a \in newest : \A c \in newest : close[a] <= close[c]
    BY <1>6, LeastOf
<1>8. \A d \in C : d = a \/ Beats(a, d)
  <2> SUFFICES ASSUME NEW d \in C, d # a PROVE Beats(a, d)
      OBVIOUS
  <2>1. a.updatedAt = o.updatedAt /\ a \in C
      BY <1>7
  <2>2. CASE d.updatedAt # o.updatedAt
      BY <2>1, <2>2, <1>2, <1>5 DEF Beats
  <2>3. CASE d.updatedAt = o.updatedAt
    <3>1. closeness[a.direction] <= closeness[d.direction]
        BY <2>3, <1>7
    <3>2. a.direction # d.direction
        BY <2>1, <2>3, <1>2
    <3>3. a.direction \in Direction /\ d.direction \in Direction
        BY <2>1, <1>2
    <3> QED BY <3>1, <3>2, <3>3, <2>1, <2>3 DEF Beats, Abs, Direction
  <2> QED BY <2>2, <2>3
<1> DEFINE k == CHOOSE c \in C : \A d \in C : d = c \/ Beats(c, d)
<1>9. k \in C /\ \A d \in C : d = k \/ Beats(k, d)
    BY <1>7, <1>8, Zenon
<1> HIDE DEF k
<1>10. \A d \in C : d.updatedAt <= k.updatedAt
    BY <1>2, <1>9 DEF Beats
<1> QED BY <1>9, <1>10 DEF k, C

(* A word of the merged record has the direction a record last updated of  *)
(* those with the word gave it.                                            *)
THEOREM MergeTakesNewest ==
    ASSUME NEW records, NEW bound \in Nat, IsGroup(records, bound),
           NEW w \in WordsOf(records)
    PROVE  \E x \in records :
              /\ w \in DOMAIN x.value.tags
              /\ MergeAllTags(records)[w] = x.value.tags[w]
              /\ \A y \in records : w \in DOMAIN y.value.tags
                    => y.value.updatedAt <= x.value.updatedAt
<1> DEFINE C == Candidates(records, w)
           k == CHOOSE c \in C : \A d \in C : d = c \/ Beats(c, d)
<1>1. k \in C /\ \A d \in C : d.updatedAt <= k.updatedAt
    BY WinnerExists
<1>2. MergeAllTags(records)[w] = k.direction
    BY DEF MergeAllTags
<1> HIDE DEF k
<1>3. PICK x \in records : /\ w \in DOMAIN x.value.tags
                           /\ k = [direction |-> x.value.tags[w],
                                   updatedAt |-> x.value.updatedAt]
    BY <1>1 DEF Candidates
<1>4. ASSUME NEW y \in records, w \in DOMAIN y.value.tags
      PROVE  y.value.updatedAt <= x.value.updatedAt
  <2>1. [direction |-> y.value.tags[w], updatedAt |-> y.value.updatedAt] \in C
      BY <1>4 DEF Candidates
  <2> QED BY <2>1, <1>1, <1>3
<1> QED BY <1>2, <1>3, <1>4

LEMMA MergedTags ==
    ASSUME NEW records, NEW bound \in Nat, IsGroup(records, bound)
    PROVE  MergeAllTags(records) \in Tags /\ DOMAIN MergeAllTags(records) = WordsOf(records)
<1>1. WordsOf(records) \subseteq Word
    BY ReviewFields, TagsFacts DEF WordsOf, IsGroup
<1>2. ASSUME NEW w \in WordsOf(records) PROVE MergeAllTags(records)[w] \in Direction
  <2>1. PICK x \in records : w \in DOMAIN x.value.tags
                             /\ MergeAllTags(records)[w] = x.value.tags[w]
      BY MergeTakesNewest
  <2> QED BY <2>1, ReviewFields, TagsFacts DEF IsGroup
<1>3. MergeAllTags(records) \in [WordsOf(records) -> Direction]
    BY <1>2 DEF MergeAllTags
<1> QED BY <1>1, <1>3 DEF Tags

(* The record a group about one subject becomes.                           *)
LEMMA MergedRecordFacts ==
    ASSUME NEW records, NEW bound \in Nat, IsGroup(records, bound),
           NEW s, \A x \in records : Subject(x.value) = s
    PROVE  LET m == MergedRecord(records) IN
           /\ m \in Review
           /\ Subject(m) = s
           /\ m.tags = MergeAllTags(records) /\ DOMAIN m.tags = WordsOf(records)
           /\ m.createdAt = PickKeeper(records).value.createdAt
           /\ m.updatedAt <= bound
<1> DEFINE l == LatestOf(records).value  k == PickKeeper(records).value
<1>1. l \in Review /\ Subject(l) = s /\ l.updatedAt <= bound
    BY LatestExists DEF IsGroup
<1>2. k \in Review
    BY KeeperExists DEF IsGroup
<1>3. MergedRecord(records) =
        [l EXCEPT !.uri = NormalUri[l.uri], !.tags = MergeAllTags(records),
                  !.createdAt = k.createdAt]
    BY DEF MergedRecord
<1> HIDE DEF l, k
<1> DEFINE tags == MergeAllTags(records)
<1> HIDE DEF tags
<1>5. MergedRecord(records) =
        [uri |-> NormalUri[l.uri], locale |-> l.locale, tags |-> tags,
         createdAt |-> k.createdAt, updatedAt |-> l.updatedAt]
    BY <1>1, <1>3 DEF Review, tags
<1>4. NormalUri[l.uri] \in Uri /\ NormalUri[NormalUri[l.uri]] = NormalUri[l.uri]
    BY <1>1, ReviewFields, UriAssumption
<1>6. tags \in Tags /\ DOMAIN tags = WordsOf(records)
    BY MergedTags DEF tags
<1>7. k.createdAt \in Nat /\ l.locale \in Locale /\ l.updatedAt \in Nat
    BY <1>1, <1>2, ReviewFields
<1> QED BY <1>1, <1>4, <1>5, <1>6, <1>7 DEF Review, Subject, k, tags
=============================================================================
