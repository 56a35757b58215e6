------------------------------- MODULE TabMC --------------------------------
(* Small worlds for the pages: what another app lists, what reviews say.     *)
EXTENDS Tab

CONSTANTS u1, u2, s1, s2, w1, w2, book, up, down, p1, p2

MCFirstStored == {[u \in {u1, u2} |-> IF u = u1 THEN {w1} ELSE {w1, w2}]}

MCListings ==
    {<<[subject |-> s1, at |-> 2], [subject |-> s2, at |-> Missing], [subject |-> s1, at |-> 1]>>,
     <<[subject |-> Missing, at |-> 1], [subject |-> s2, at |-> 1]>>}

MCFirstReviews == {[s \in {s1, s2} |-> IF s = s1 THEN "none" ELSE "own"]}

MCAuthorOf == [r \in Review |-> IF r = 3 THEN p2 ELSE p1]

MCContent ==
    {[subject |-> s1, type |-> book, tags |-> {[word |-> w1, dir |-> up]}],
     [subject |-> s2, type |-> book, tags |-> {[word |-> w1, dir |-> down], [word |-> w2, dir |-> up]}]}
=============================================================================
