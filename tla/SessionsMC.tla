----------------------------- MODULE SessionsMC -----------------------------
(* A small world for Sessions: two agents, one of them with two tabs.        *)
EXTENDS Sessions, TLC

CONSTANTS ana, ben, a1, a2, b1

ThreeTabs == (a1 :> ana) @@ (a2 :> ana) @@ (b1 :> ben)

(* What removing accounts one after the other makes of a row.                *)
Rows == [dids : {<<>>} \cup {<<d>> : d \in DID} \cup {<<d, e>> : d, e \in DID},
         current : DID \cup {None}, exists : {TRUE}]
ASSUME OneAfterTheOther ==
    \A r \in Rows, gone \in SUBSET DID :
        WithoutAccounts(r, gone) = FoldSet(LAMBDA d, row : WithoutAccount(row, d), r, gone)
=============================================================================
