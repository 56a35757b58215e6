---------------------------- MODULE SiteReviewsMC ---------------------------
(* Small worlds for SiteReviews: which tags are offered, which uris exist. *)
EXTENDS SiteReviews

CONSTANTS good, long, did, handle, b1, b2

OneForm == [u \in Uri |-> u]
ManyForms == [u \in Uri |-> did]

IsGood == [w \in {good} |-> 1]
IsNotGood == [w \in {good} |-> -1]
ReallyIsLong == [w \in {long} |-> 2]

TwoWords == {IsGood, ReallyIsLong}
ThreeOffers == {IsGood, IsNotGood, ReallyIsLong}

=============================================================================
