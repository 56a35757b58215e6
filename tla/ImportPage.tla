----------------------------- MODULE ImportPage -----------------------------
(* Importing from another app: importers.ts reads the account's records      *)
(* there and makes rows of them, one for each subject; ImportPage.svelte     *)
(* resolves their subjects one at a time and posts the selected ones;        *)
(* importAction saves those in turn, or turns the post away where the        *)
(* browser has no account now. Each load starts the resolving over,          *)
(* and a run that is not the last one has nothing left to say.               *)
EXTENDS Integers, Sequences, FiniteSets, SequencesExt, Picking

CONSTANTS
    Subj,        \* subjects' uris
    Missing,     \* null: no subject, no date
    Listings,    \* what the other app's collections may hold: sequences of [subject, at]
    FirstReviews,\* whose words the person's reviews have at first: "none" or their "own"
    MAX_ATTEMPTS,
    MaxLoads     \* bound: loads of the page

ASSUME ImportAssumption ==
    /\ MAX_ATTEMPTS \in Nat \ {0} /\ MaxLoads \in Nat /\ Missing \notin Subj \cup Nat
    /\ FirstReviews \subseteq [Subj -> {"none", "own"}]
    /\ Listings \subseteq Seq([subject : Subj \cup {Missing}, at : Nat \cup {Missing}])

VARIABLES
    mapping,     \* the words the sources map to: "default", "own" or "blank"
    data,        \* the rows of the last load
    run,         \* number of the last run
    runs,        \* the runs that still wait for something
    rows,        \* the rows resolved
    loading,
    resolved,    \* the cache of resolved subjects
    post,        \* the import under way on the server: rows to save, results, history of writes
    refreshes,   \* results whose page load is on its way
    results,     \* the form's results
    reviews,     \* whose words the person's review of each subject has: a mapping's, or mixed
    known        \* the same, as far as ingested

pageVars == <<data, run, runs, rows, loading, resolved>>
repoVars == <<post, refreshes, results, reviews, known>>
importVars == <<mapping, pageVars, repoVars>>

-----------------------------------------------------------------------------
(* The load. *)

(* earliest: the earlier of two dates, whatever is no date aside. *)
Earliest(a, b) == IF b # Missing /\ (a = Missing \/ b < a) THEN b ELSE a

(* Grouped by subject in the order of their first record; one without a      *)
(* subject, or without a rating where those are imported, is left out.       *)
Grouped(groups, r, reviewed) ==
    IF r.subject = Missing THEN groups
    ELSE IF \E i \in DOMAIN groups : groups[i].uri = r.subject
    THEN [i \in DOMAIN groups |->
            IF groups[i].uri = r.subject THEN [groups[i] EXCEPT !.at = Earliest(@, r.at)] ELSE groups[i]]
    ELSE Append(groups, [uri |-> r.subject, at |-> Earliest(Missing, r.at), existing |-> reviewed[r.subject]])

Preview(records, reviewed) ==
    LET upTo[n \in 0..Len(records)] ==
            IF n = 0 THEN <<>> ELSE Grouped(upTo[n - 1], records[n], reviewed)
    IN  upTo[Len(records)]

(* importLoad: no rows without an account, or if the account's server fails. *)
Previews == {Preview(l, known) : l \in Listings} \cup {<<>>}

-----------------------------------------------------------------------------
(* Resolving. *)

(* The next row of a run: from the cache, or fetched. *)
Started(mine, rest) ==
    IF rest = <<>> THEN {}
    ELSE {[run |-> mine, rest |-> rest, attempt |-> 1,
           step |-> IF Head(rest).uri \in resolved' THEN "cached" ELSE "fetching"]}

(* The effect: a new run over new rows. *)
Restarted(d) ==
    /\ data' = d /\ run' = run + 1 /\ rows' = <<>> /\ loading' = (d # <<>>)
    /\ UNCHANGED resolved /\ runs' = runs \cup Started(run + 1, d)

Mine_Never(w) == TRUE

(* mine === run *)
Mine(w) == w.run = run

(* resolveWithRetry is back, with the subject or with null. *)
Landed(w, found) ==
    IF ~Mine(w) THEN runs' = runs \ {w} /\ UNCHANGED <<rows, loading>>
    ELSE /\ rows' = IF found THEN Append(rows, [row |-> Head(w.rest), selected |-> TRUE]) ELSE rows
         /\ runs' = (runs \ {w}) \cup Started(w.run, Tail(w.rest))
         /\ loading' = (loading /\ Tail(w.rest) # <<>>)

Elsewise == UNCHANGED <<mapping, data, run, repoVars>>

Found(w) ==
    /\ w.step \in {"cached", "fetching"}
    /\ resolved' = resolved \cup {Head(w.rest).uri}
    /\ Landed(w, TRUE) /\ Elsewise

(* Nothing a retry would help. *)
Skipped(w) == w.step = "fetching" /\ UNCHANGED resolved /\ Landed(w, FALSE) /\ Elsewise

NextAttempt_Same(w) == w.attempt
NextAttempt(w) == w.attempt + 1

(* A rate limit, a timeout, a server's error. *)
Transient(w) ==
    /\ w.step = "fetching" /\ UNCHANGED resolved
    /\ IF w.attempt = MAX_ATTEMPTS THEN Landed(w, FALSE)
       ELSE runs' = (runs \ {w}) \cup {[w EXCEPT !.step = "asleep"]} /\ UNCHANGED <<rows, loading>>
    /\ Elsewise

Awake(w) ==
    /\ w.step = "asleep" /\ UNCHANGED <<resolved, rows, loading>>
    /\ runs' = (runs \ {w}) \cup (IF Mine(w) THEN {[w EXCEPT !.step = "fetching", !.attempt = NextAttempt(w)]} ELSE {})
    /\ Elsewise

-----------------------------------------------------------------------------
(* Choosing and posting. *)

Unchanged(r) == r.row.existing = mapping
HasResult(uri) == \E i \in DOMAIN results : results[i].uri = uri
Visible == {i \in DOMAIN rows : ~Unchanged(rows[i]) \/ HasResult(rows[i].row.uri)}
Selected(r) == r.selected /\ (~Unchanged(r) \/ HasResult(r.row.uri))

Choose(i) ==
    /\ i \in Visible /\ rows' = [rows EXCEPT ![i].selected = ~@]
    /\ UNCHANGED <<mapping, data, run, runs, loading, resolved, repoVars>>

MapTo(w) ==
    /\ mapping' = w /\ w # mapping
    /\ UNCHANGED <<pageVars, repoVars>>

NoPost == [todo |-> <<>>, sent |-> <<>>, words |-> "blank", results |-> <<>>, written |-> {}]

Import ==
    LET chosen == Picked(rows, {i \in DOMAIN rows : Selected(rows[i])})
        sent == [i \in DOMAIN chosen |-> chosen[i].row.uri]
    IN  /\ post = NoPost /\ chosen # <<>> /\ mapping # "blank"
        /\ run + Cardinality(refreshes) < MaxLoads
        /\ post' = [NoPost EXCEPT !.todo = sent, !.sent = sent, !.words = mapping]
        /\ UNCHANGED <<mapping, pageVars, refreshes, results, reviews, known>>

-----------------------------------------------------------------------------
(* importAction: one row at a time, each with its own result. *)

Joined(words, w) == IF words \in {"none", w} THEN w ELSE "mixed"

SaveRow ==
    LET uri == Head(post.todo) IN
    /\ post.todo # <<>>
    /\ reviews' = [reviews EXCEPT ![uri] = Joined(known[uri], post.words)]
    /\ post' = [post EXCEPT !.todo = Tail(@), !.written = @ \cup {uri},
                            !.results = Append(@, [uri |-> uri, ok |-> TRUE])]

AfterFailure_Stops(todo) == <<>>
AfterFailure(todo) == Tail(todo)

(* Invalid, the account's session gone, or refused by the person's server. *)
RefuseRow ==
    /\ post.todo # <<>> /\ UNCHANGED reviews
    /\ post' = [post EXCEPT !.todo = AfterFailure(@), !.results = Append(@, [uri |-> Head(post.todo), ok |-> FALSE])]

(* The answer; the button is there again while the page loads once more.     *)
ImportAnswers ==
    /\ post # NoPost /\ post.todo = <<>>
    /\ refreshes' = refreshes \cup {post.results} /\ post' = NoPost
    /\ UNCHANGED reviews

(* fail(401): signed out meanwhile. An answer without results, which takes   *)
(* the place of those of an earlier import; the page does not load again.    *)
TurnedAway ==
    /\ post # NoPost /\ post.todo = post.sent
    /\ results' = <<>> /\ post' = NoPost

Refreshed(r) ==
    /\ \E d \in Previews : Restarted(d)
    /\ refreshes' = refreshes \ {r} /\ results' = r
    /\ UNCHANGED <<mapping, post, reviews, known>>

(* The load run again for another reason: navigation back, a new locale. *)
Reloaded ==
    /\ run + Cardinality(refreshes) + (IF post = NoPost THEN 0 ELSE 1) < MaxLoads
    /\ \E d \in Previews : Restarted(d)
    /\ UNCHANGED <<mapping, post, refreshes, results, reviews, known>>

(* External: the ingester catches up. *)
Ingested(u) ==
    /\ known[u] # reviews[u] /\ known' = [known EXCEPT ![u] = reviews[u]]
    /\ UNCHANGED <<mapping, pageVars, post, refreshes, results, reviews>>

-----------------------------------------------------------------------------

ImportInit ==
    /\ mapping = "default" /\ results = <<>> /\ resolved = {} /\ rows = <<>> /\ run = 1
    /\ reviews \in FirstReviews /\ known = reviews
    /\ data \in Previews /\ loading = (data # <<>>) /\ post = NoPost /\ refreshes = {}
    /\ runs = IF data = <<>> THEN {} ELSE {[run |-> 1, rest |-> data, attempt |-> 1, step |-> "fetching"]}

Resolving == \E w \in runs : Found(w) \/ Skipped(w) \/ Transient(w) \/ Awake(w)
ImportNext ==
    \/ Resolving
    \/ (SaveRow \/ RefuseRow) /\ UNCHANGED <<mapping, pageVars, refreshes, results, known>>
    \/ ImportAnswers /\ UNCHANGED <<mapping, pageVars, results, known>>
    \/ TurnedAway /\ UNCHANGED <<mapping, pageVars, refreshes, reviews, known>>
    \/ (\E i \in DOMAIN rows : Choose(i)) \/ (\E w \in {"default", "own", "blank"} : MapTo(w)) \/ Import
    \/ (\E r \in refreshes : Refreshed(r)) \/ Reloaded \/ \E u \in Subj : Ingested(u)

ImportSpec == ImportInit /\ [][ImportNext]_importVars /\ WF_importVars(Resolving)

-----------------------------------------------------------------------------

(* The rows shown are the last load's, in its order and once each: no run of *)
(* an earlier load adds its own (lines 136-149). A row stands for all the    *)
(* records about its subject, and is as old as the oldest of them.           *)
Oldest(at, dates) == IF dates = {} THEN at = Missing ELSE at \in dates /\ \A t \in dates : at <= t
Dates(l, uri) == {l[i].at : i \in {j \in DOMAIN l : l[j].subject = uri}} \ {Missing}

PreviewOf(l, d) ==
    /\ {d[i].uri : i \in DOMAIN d} = {l[i].subject : i \in DOMAIN l} \ {Missing}
    /\ \A i, j \in DOMAIN d : d[i].uri = d[j].uri => i = j
    /\ \A i \in DOMAIN d : Oldest(d[i].at, Dates(l, d[i].uri))

RowsAreTheLastLoads ==
    /\ data = <<>> \/ \E l \in Listings : PreviewOf(l, data)
    /\ \E f \in [DOMAIN rows -> DOMAIN data] :
          /\ \A i, j \in DOMAIN rows : i < j => f[i] < f[j]
          /\ \A i \in DOMAIN rows : rows[i].row = data[f[i]]

(* Resolving comes to an end, however often the other servers fail. *)
LoadingEnds == loading ~> ~loading

(* An import is answered with a result for each of its rows, in order, and a *)
(* good one exactly if the row was saved: one that fails stops none of the   *)
(* others. Or it is answered with none, and then no row was saved and the    *)
(* page shows none of an earlier import.                                     *)
RowByRow(p) ==
    /\ [i \in DOMAIN p.results |-> p.results[i].uri] = p.sent
    /\ {p.results[i].uri : i \in {j \in DOMAIN p.results : p.results[j].ok}} = p.written
NotAtAll(p) == p.results = <<>> /\ p.written = {}

EveryRowIsAnswered ==
    [][post # NoPost /\ post' = NoPost =>
        \/ RowByRow(post) /\ post.results \in refreshes'
        \/ NotAtAll(post) /\ results' = <<>>]_importVars
=============================================================================
