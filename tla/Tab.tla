--------------------------------- MODULE Tab ---------------------------------
(* A tab of the browser has one of the site's pages open: the review form,   *)
(* an import or a listing. A page keeps its state to itself, and leaving it  *)
(* ends it; the state of a page that is not open is that of a blank one.     *)
EXTENDS ReviewForm, ImportPage, Listing

VARIABLE open

tabVars == <<open, fieldVars, formVars, importVars, listVars>>

TabInit ==
    /\ open \in {"review", "import", "reviews"}
    /\ FormInit
    /\ open # "review" => text = Blank /\ ~signedIn /\ stored = CHOOSE f \in FirstStored : TRUE
    /\ ImportInit
    /\ open # "import" => data = <<>> /\ reviews = CHOOSE f \in FirstReviews : TRUE
    /\ ListInit
    /\ open # "reviews" => table = [r \in Review |-> Nil]

OnImport(A) == open = "import" /\ A /\ UNCHANGED <<open, fieldVars, formVars, listVars>>

TabNext ==
    \/ open = "review" /\ FormNext /\ UNCHANGED <<open, importVars, listVars>>
    \/ OnImport(ImportNext)
    \/ open = "reviews" /\ ListNext /\ UNCHANGED <<open, fieldVars, formVars, importVars>>

TabSpec == TabInit /\ [][TabNext]_tabVars /\ WF_tabVars(OnImport(Resolving))
=============================================================================
