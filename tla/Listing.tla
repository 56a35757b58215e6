------------------------------- MODULE Listing -------------------------------
(* The listings of /reviews: everyone's reviews, those of one person or      *)
(* those of one subject, latest update first, filtered, a page at a time. A  *)
(* page is one query over isnot.db (listReviewsPage), which ingest changes   *)
(* between any two; the link to the next one carries the key of the last     *)
(* review shown. The heading of a subject nobody has reviewed is found in    *)
(* the browser.                                                              *)
EXTENDS Integers, FiniteSets

CONSTANTS
    Review,     \* records, numbered in the order of their (did, rkey)
    Person,     \* their authors
    AuthorOf,   \* Review -> Person
    Time,       \* values of updated_at
    Content,    \* what a review may say: [subject, type, tags], a tag is [word, dir]
    Direction,
    Nil,        \* null
    PageSize,   \* REVIEWS_PAGE_SIZE
    MaxChanges  \* bound: changes ingest makes

ASSUME ListingAssumption ==
    /\ Review \subseteq Nat /\ IsFiniteSet(Review) /\ Time \subseteq Nat
    /\ AuthorOf \in [Review -> Person] /\ Nil \notin Person
    /\ \A c \in Content : c.subject \notin Person
    /\ PageSize \in Nat \ {0} /\ MaxChanges \in Nat
    /\ Direction # {} /\ Nil \notin [at : Time, id : Review]
    /\ \A c \in Content : c.tags # {} /\ \A t \in c.tags : t.dir \in Direction

VARIABLES
    table,      \* the reviews in isnot.db: [at, says], or Nil
    view,       \* the address: id (of nobody, a person or a subject), type, adjective, directions, cursor
    shown,      \* the reviews on the page
    next,       \* its nextCursor
    title,      \* what the browser found out: [of, found], the uri it asked about
    finding,    \* the uris being resolved
    changes,    \* changes so far
    seen,       \* history: what the pages before this one showed
    steady      \* history: what was there on the first page and has not changed since

listVars == <<table, view, shown, next, title, finding, changes, seen, steady>>

Subject == {c.subject : c \in Content}
Adjective == UNION {{t.word : t \in c.tags} : c \in Content}

-----------------------------------------------------------------------------
(* The query. *)

Lower(k, l) == k.at < l.at \/ (k.at = l.at /\ k.id < l.id)
Key(r) == [at |-> table[r].at, id |-> r]

(* scopeClause, the type's and tagMatchClause: one tag carries both. *)
Matches(r, v) ==
    /\ table[r] # Nil
    /\ v.id = Nil \/ AuthorOf[r] = v.id \/ table[r].says.subject = v.id
    /\ v.type = Nil \/ table[r].says.type = v.type
    /\ \E t \in table[r].says.tags : (v.adjective = Nil \/ t.word = v.adjective) /\ t.dir \in v.directions

After_Inclusive(k, cursor) == cursor = Nil \/ ~Lower(cursor, k)
After(k, cursor) == cursor = Nil \/ Lower(k, cursor)

Below(v) == {r \in Review : Matches(r, v) /\ After(Key(r), v.cursor)}

(* ORDER BY ... DESC LIMIT n *)
IsTop(P, S, n) ==
    /\ P \subseteq S /\ Cardinality(P) <= n /\ (P # S => Cardinality(P) = n)
    /\ \A p \in P, s \in S \ P : Lower(Key(s), Key(p))

(* The cursor is the key of the page's last row, not of the extra one. *)
LastOf(page, fetched) == {r \in page : \A q \in page : ~Lower(Key(q), Key(r))}

(* listReviewsPage's answers: one row more than a page is fetched, to know   *)
(* whether there is a next one.                                              *)
Pages(rest) ==
    UNION {IF Cardinality(fetched) > PageSize
           THEN UNION {{[rows |-> page, next |-> Key(last)] : last \in LastOf(page, fetched)} :
                       page \in {P \in SUBSET fetched : IsTop(P, fetched, PageSize)}}
           ELSE {[rows |-> fetched, next |-> Nil]} :
           fetched \in {F \in SUBSET rest : IsTop(F, rest, PageSize + 1)}}

-----------------------------------------------------------------------------
(* The page. *)

ForThisPage(uri) == uri = view.id

(* A load, and the effect that finds a title where the server has none: a    *)
(* person always has a heading.                                              *)
Load(v) ==
    /\ view' = v /\ title' = Nil
    /\ \E page \in Pages(Below(v)) : shown' = page.rows /\ next' = page.next
    /\ finding' = IF v.id \in Subject /\ \A r \in Review : table[r] = Nil \/ table[r].says.subject # v.id
                  THEN finding \cup {v.id} ELSE finding
    /\ UNCHANGED <<table, changes>>

(* A first page: another listing, a filter's link, the pager's, or an        *)
(* address whose cursor does not decode.                                     *)
OpenFirst(v) ==
    /\ Load([v EXCEPT !.cursor = Nil])
    /\ seen' = {} /\ steady' = {r \in Review : Matches(r, v)}

(* directionHref; parseDirections has no way to say none. *)
Toggled(ds, d) ==
    LET left == IF d \in ds THEN ds \ {d} ELSE ds \cup {d}
    IN  IF left = {} THEN Direction ELSE left

Unfiltered(id) == [id |-> id, type |-> Nil, adjective |-> Nil, directions |-> Direction, cursor |-> Nil]

GoTo(id) == OpenFirst(Unfiltered(id))
FilterType(t) == view.id \notin Subject /\ OpenFirst([view EXCEPT !.type = IF @ = t THEN Nil ELSE t])
FilterAdjective(a) == OpenFirst([view EXCEPT !.adjective = IF @ = a THEN Nil ELSE a])
FilterDirection(d) == OpenFirst([view EXCEPT !.directions = Toggled(@, d)])
FirstPage == view.cursor # Nil /\ OpenFirst(view)

NextPage ==
    /\ next # Nil /\ Load([view EXCEPT !.cursor = next])
    /\ seen' = seen \cup shown /\ UNCHANGED steady

(* invalidateAll, after a row was saved or deleted. *)
Reload == Load(view) /\ UNCHANGED <<seen, steady>>

TitleFound(uri) ==
    /\ uri \in finding /\ finding' = finding \ {uri}
    /\ title' = IF ForThisPage(uri) THEN [of |-> uri, found |-> TRUE] ELSE title
    /\ UNCHANGED <<table, view, shown, next, changes, seen, steady>>

TitleFails_Any(uri) ==
    /\ uri \in finding /\ finding' = finding \ {uri}
    /\ title' = IF title = Nil THEN [of |-> uri, found |-> FALSE] ELSE title
    /\ UNCHANGED <<table, view, shown, next, changes, seen, steady>>

(* What was found for this page, if anything, stays the heading.             *)
TitleFails(uri) ==
    /\ uri \in finding /\ finding' = finding \ {uri}
    /\ title' = IF ForThisPage(uri) /\ title = Nil THEN [of |-> uri, found |-> FALSE] ELSE title
    /\ UNCHANGED <<table, view, shown, next, changes, seen, steady>>

(* External: ingest inserts, updates or deletes a review, with whatever      *)
(* updatedAt its record has.                                                 *)
Ingest(r, row) ==
    /\ row # table[r] /\ changes < MaxChanges /\ changes' = changes + 1
    /\ table' = [table EXCEPT ![r] = row] /\ steady' = steady \ {r}
    /\ UNCHANGED <<view, shown, next, title, finding, seen>>

-----------------------------------------------------------------------------

Row == [at : Time, says : Content] \cup {Nil}

ListInit ==
    /\ table \in [Review -> Row] /\ view = Unfiltered(Nil)
    /\ steady = {r \in Review : table[r] # Nil}
    /\ \E page \in Pages(steady) : shown = page.rows /\ next = page.next
    /\ title = Nil /\ finding = {} /\ changes = 0 /\ seen = {}

Browse ==
    \/ (\E id \in Subject \cup Person \cup {Nil} : GoTo(id)) \/ (\E c \in Content : FilterType(c.type))
    \/ (\E a \in Adjective : FilterAdjective(a)) \/ (\E d \in Direction : FilterDirection(d))
    \/ FirstPage \/ NextPage \/ Reload

ListNext ==
    \/ Browse
    \/ \E uri \in finding : TitleFound(uri) \/ TitleFails(uri)
    \/ \E r \in Review, row \in Row : Ingest(r, row)

ListSpec == ListInit /\ [][ListNext]_listVars

-----------------------------------------------------------------------------

(* "paging stays correct as new reviews are ingested between requests"       *)
(* (db.ts lines 266-275): whatever ingest does between the pages, a review   *)
(* that matches and stays as it is is on exactly one of the pages from the   *)
(* first to the last, and the last has no link to a next one.                *)
NoneSkippedNoneRepeated ==
    /\ seen \cap shown \cap steady = {}
    /\ \A r \in steady : r \in seen \cup shown <=> (next = Nil \/ ~Lower(Key(r), next))

(* A title found for a subject is not put over the page of another one, nor  *)
(* is that finding it failed (+page.svelte lines 23-36).                     *)
HeadingIsOfThePage == title = Nil \/ title.of = view.id
=============================================================================
