--------------------------- MODULE SequenceFacts ----------------------------
(***************************************************************************)
(* What the proofs need of natural numbers, of recursive functions on an   *)
(* initial part of them, and of the filter of a sequence.                  *)
(***************************************************************************)
EXTENDS Picking, SequenceTheorems, NaturalsInduction, WellFoundedInduction, TLAPS

(* A nonempty set of naturals has a least element.                         *)
LEMMA LeastExists ==
    ASSUME NEW S \in SUBSET Nat, S # {}
    PROVE  \E n \in S : \A m \in S : n <= m
<1> DEFINE Less == {p \in Nat \X Nat : p[1] < p[2]}
<1>1. IsWellFoundedOn(Less, Nat)
  <2>1. Less = OpToRel(<, Nat) BY DEF OpToRel
  <2>. QED BY <2>1, NatLessThanWellFounded
<1>. HIDE DEF Less
<1>2. PICK n \in S : \A m \in S : ~(<<m, n>> \in Less) BY <1>1, WFMin
<1>3. ASSUME NEW m \in S PROVE n <= m
  <2>1. m < n => <<m, n>> \in Less BY DEF Less
  <2>. QED BY <1>2, <2>1
<1>. QED BY <1>3

(* Induction on the numbers up to N, for a property given as the set of    *)
(* those that have it.                                                     *)
LEMMA UpTo ==
    ASSUME NEW N \in Nat, NEW P, 0 \in P, \A n \in 1..N : n - 1 \in P => n \in P
    PROVE  \A n \in 0..N : n \in P
<1>. DEFINE Out == {n \in 0..N : n \notin P}
<1>. SUFFICES ASSUME Out # {} PROVE FALSE OBVIOUS
<1>1. PICK n \in Out : \A m \in Out : n <= m
  <2>1. Out \in SUBSET Nat OBVIOUS
  <2>. HIDE DEF Out
  <2>. QED BY <2>1, LeastExists
<1>2. n \in 1..N /\ n - 1 \in 0..N /\ n - 1 \notin Out BY <1>1
<1>. QED BY <1>2

(* A function defined by its value at 0 and by each value from the one     *)
(* before exists.                                                          *)
Follows(f, N, base, step) == f[0] = base /\ \A n \in 1..N : f[n] = step[n][f[n - 1]]

LEMMA RecursionExists ==
    ASSUME NEW N \in Nat, NEW X, NEW base \in X, NEW step \in [1..N -> [X -> X]]
    PROVE  \E f \in [0..N -> X] : Follows(f, N, base, step)
<1>. DEFINE P == {m \in 0..N : \E f \in [0..m -> X] : Follows(f, m, base, step)}
<1>1. 0 \in P
  <2>. DEFINE f == [n \in 0..0 |-> base]
  <2>1. f \in [0..0 -> X] /\ Follows(f, 0, base, step) BY DEF Follows
  <2>2. \E h \in [0..0 -> X] : Follows(h, 0, base, step) BY <2>1
  <2>. QED BY <2>2
<1>2. ASSUME NEW m \in 1..N, m - 1 \in P PROVE m \in P
  <2>1. PICK f \in [0..m-1 -> X] : Follows(f, m - 1, base, step) BY <1>2
  <2>. DEFINE g == [n \in 0..m |-> IF n = m THEN step[m][f[m - 1]] ELSE f[n]]
  <2>2. f[m - 1] \in X /\ step[m][f[m - 1]] \in X OBVIOUS
  <2>3. g \in [0..m -> X] BY <2>2
  <2>4. g[0] = base BY <2>1 DEF Follows
  <2>5. ASSUME NEW n \in 1..m PROVE g[n] = step[n][g[n - 1]]
    <3>1. CASE n = m BY <3>1
    <3>2. CASE n # m BY <3>2, <2>1 DEF Follows
    <3>. QED BY <3>1, <3>2
  <2>6. \E h \in [0..m -> X] : Follows(h, m, base, step)
    <3>. HIDE DEF g
    <3>. QED BY <2>3, <2>4, <2>5 DEF Follows
  <2>. QED BY <2>6
<1>3. N \in P
  <2>. HIDE DEF P
  <2>1. \A n \in 0..N : n \in P BY <1>1, <1>2, UpTo
  <2>. QED BY <2>1
<1>. QED BY <1>3 DEF P

-----------------------------------------------------------------------------
(* The filter. *)

(* The function that Picked defines, by its equations.                     *)
LEMMA PickedDef ==
    ASSUME NEW T, NEW s \in Seq(T), NEW positions
    PROVE  \E f \in [0..Len(s) -> Seq(T)] :
             /\ Picked(s, positions) = f[Len(s)] /\ f[0] = <<>>
             /\ \A n \in 1..Len(s) :
                   f[n] = IF n \in positions THEN Append(f[n - 1], s[n]) ELSE f[n - 1]
<1>. DEFINE N == Len(s)
            X == Seq(T)
            empty == <<>>
            step == [n \in 1..N |-> [a \in X |-> IF n \in positions THEN Append(a, s[n]) ELSE a]]
            Defines(h) == h = [n \in 0..N |->
                                 IF n = 0 THEN empty
                                 ELSE IF n \in positions THEN Append(h[n - 1], s[n]) ELSE h[n - 1]]
<1>1. N \in Nat /\ empty \in X /\ \A n \in 1..N, a \in X : Append(a, s[n]) \in X
  BY ElementOfSeq, AppendProperties
<1>. HIDE DEF N, X, empty
<1>2. step \in [1..N -> [X -> X]] BY <1>1
<1>3. PICK f \in [0..N -> X] : Follows(f, N, empty, step)
  <2>. HIDE DEF step
  <2>1. N \in Nat /\ empty \in X BY <1>1
  <2>. QED BY <1>2, <2>1, RecursionExists
<1>4. \A n \in 1..N : f[n] = IF n \in positions THEN Append(f[n - 1], s[n]) ELSE f[n - 1]
  <2>. TAKE n \in 1..N
  <2>1. f[n - 1] \in X BY <1>1
  <2>. QED BY <1>3, <2>1 DEF Follows
<1>5. Defines(f)
  <2>1. ASSUME NEW n \in 0..N
        PROVE  f[n] = IF n = 0 THEN empty
                      ELSE IF n \in positions THEN Append(f[n - 1], s[n]) ELSE f[n - 1]
    <3>1. n = 0 \/ n \in 1..N BY <1>1
    <3>. QED BY <1>3, <1>4, <3>1 DEF Follows
  <2>. QED BY <2>1
<1>. DEFINE g == CHOOSE h : Defines(h)
<1>6. Defines(g) BY <1>5
<1>7. Picked(s, positions) = g[N] BY DEF Picked, N, empty
<1>. HIDE DEF g
<1>8. \A n \in 0..N : g[n] = f[n]
  <2>. DEFINE P == {n \in 0..N : g[n] = f[n]}
  <2>1. 0 \in P BY <1>1, <1>3, <1>6 DEF Follows
  <2>2. ASSUME NEW n \in 1..N, n - 1 \in P PROVE n \in P
    <3>1. n \in 0..N /\ n # 0 BY <1>1
    <3>2. g[n] = IF n \in positions THEN Append(g[n - 1], s[n]) ELSE g[n - 1] BY <1>6, <3>1
    <3>. QED BY <1>4, <2>2, <3>1, <3>2
  <2>. HIDE DEF P
  <2>3. \A n \in 0..N : n \in P BY <1>1, <2>1, <2>2, UpTo
  <2>. QED BY <2>3 DEF P
<1>9. Picked(s, positions) = f[N] BY <1>1, <1>7, <1>8
<1>. QED BY <1>3, <1>4, <1>9 DEF N, X, empty, Follows

(* What the filter keeps: the elements at those positions, and no element  *)
(* twice that was not there twice.                                         *)
LEMMA PickedFacts ==
    ASSUME NEW T, NEW s \in Seq(T), NEW positions
    PROVE  /\ Picked(s, positions) \in Seq(T)
           /\ \A x : (\E i \in DOMAIN Picked(s, positions) : Picked(s, positions)[i] = x)
                        <=> \E n \in DOMAIN s : n \in positions /\ s[n] = x
           /\ (\A i, j \in DOMAIN s : s[i] = s[j] => i = j) =>
                 \A i, j \in DOMAIN Picked(s, positions) :
                    Picked(s, positions)[i] = Picked(s, positions)[j] => i = j
<1>. DEFINE N == Len(s)
            Has(p, x) == \E i \in 1..Len(p) : p[i] = x
            Among(n, x) == \E m \in 1..n : m \in positions /\ s[m] = x
            Once(p) == \A i, j \in 1..Len(p) : p[i] = p[j] => i = j
<1>1. PICK f \in [0..N -> Seq(T)] :
        /\ Picked(s, positions) = f[N] /\ f[0] = <<>>
        /\ \A n \in 1..N : f[n] = IF n \in positions THEN Append(f[n - 1], s[n]) ELSE f[n - 1]
  BY PickedDef
<1>. DEFINE P == {n \in 0..N : (\A x : Has(f[n], x) <=> Among(n, x)) /\ (Once(s) => Once(f[n]))}
<1>2. 0 \in P
  <2>1. f[0] = <<>> /\ Len(f[0]) = 0 /\ 1..0 = {} BY <1>1
  <2>2. \A x : ~Has(f[0], x) /\ ~Among(0, x) BY <2>1
  <2>3. Once(f[0]) BY <2>1
  <2>4. 0 \in 0..N OBVIOUS
  <2>. HIDE DEF Has, Among, Once
  <2>. QED BY <2>2, <2>3, <2>4
<1>3. ASSUME NEW n \in 1..N, n - 1 \in P PROVE n \in P
  <2>1. f[n - 1] \in Seq(T) /\ n - 1 \in 0..N /\ n \in 0..N /\ s[n] \in T OBVIOUS
  <2>2. /\ \A x : Has(f[n - 1], x) <=> Among(n - 1, x)
        /\ Once(s) => Once(f[n - 1])
    BY <1>3
  <2>3. \A x : Among(n, x) <=> Among(n - 1, x) \/ (n \in positions /\ s[n] = x)
    <3>1. 1..n = (1..(n - 1)) \cup {n} OBVIOUS
    <3>. QED BY <3>1
  <2>4. CASE n \notin positions
    <3>1. f[n] = f[n - 1] BY <1>1, <2>4
    <3>. QED BY <2>1, <2>2, <2>3, <2>4, <3>1
  <2>5. CASE n \in positions
    <3>1. f[n] = Append(f[n - 1], s[n]) BY <1>1, <2>5
    <3>. DEFINE k == Len(f[n - 1])
    <3>2. /\ k \in Nat /\ Len(f[n]) = k + 1 /\ f[n][k + 1] = s[n]
          /\ \A i \in 1..k : f[n][i] = f[n - 1][i]
      BY <2>1, <3>1, AppendProperties
    <3>. HIDE DEF k
    <3>3. 1..(k + 1) = (1..k) \cup {k + 1} BY <3>2
    <3>4. \A x : Has(f[n], x) <=> Has(f[n - 1], x) \/ s[n] = x
      BY <3>2, <3>3 DEF k
    <3>5. ASSUME Once(s) PROVE Once(f[n])
      <4>1. ~Has(f[n - 1], s[n])
        <5>1. ~Among(n - 1, s[n]) BY <3>5
        <5>. QED BY <2>2, <5>1
      <4>2. \A i \in 1..k : f[n][i] # f[n][k + 1] BY <3>2, <4>1 DEF k
      <4>3. \A i, j \in 1..k : f[n][i] = f[n][j] => i = j
        <5>1. Once(f[n - 1]) BY <2>2, <3>5
        <5>. QED BY <3>2, <5>1 DEF k
      <4>. QED BY <3>2, <3>3, <4>2, <4>3
    <3>6. \A x : Has(f[n], x) <=> Among(n, x) BY <2>2, <2>3, <2>5, <3>4
    <3>. QED BY <2>1, <3>5, <3>6
  <2>. QED BY <2>4, <2>5
<1>4. N \in P
  <2>1. N \in Nat OBVIOUS
  <2>. HIDE DEF P, N
  <2>2. \A n \in 0..N : n \in P BY <1>2, <1>3, <2>1, UpTo
  <2>. QED BY <2>1, <2>2
<1>5. f[N] \in Seq(T) OBVIOUS
<1>6. DOMAIN f[N] = 1..Len(f[N]) /\ DOMAIN s = 1..N BY <1>5
<1>7. (\A x : Has(f[N], x) <=> Among(N, x)) /\ (Once(s) => Once(f[N])) BY <1>4
<1>. DEFINE q == Picked(s, positions)
<1>8. q \in Seq(T) /\ DOMAIN q = 1..Len(q) /\ q = f[N] BY <1>1, <1>5, <1>6
<1>. HIDE DEF q
<1>9. \A x : (\E i \in DOMAIN q : q[i] = x) <=> \E n \in DOMAIN s : n \in positions /\ s[n] = x
  BY <1>6, <1>7, <1>8
<1>10. (\A i, j \in DOMAIN s : s[i] = s[j] => i = j) => \A i, j \in DOMAIN q : q[i] = q[j] => i = j
  BY <1>6, <1>7, <1>8
<1>. QED BY <1>8, <1>9, <1>10 DEF q
=============================================================================
