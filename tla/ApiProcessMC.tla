--------------------------- MODULE ApiProcessMC -----------------------------
(* A small world for ApiProcess: two releases, the later with two files more. *)
(* The glob lists 10 before 2.                                               *)
EXTENDS ApiProcess

TwoReleases == <<{1}, {1, 2, 10}>>
=============================================================================
