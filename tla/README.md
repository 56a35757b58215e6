# is/not: a verification project

TLA+ models of is/not, an atproto appview for `at.isnot.review` records
("X is / is not good"), with TLC runs on small instances and TLAPS proofs for
every instance. Paths below are relative to the repository's root.

## 1. The system

Two processes run in one container (`scripts/start.sh`) over one SQLite file.

```
   people's repos (PDSes) ──commits──> relay ──> jetstream
        ^        ^   ^                              │ events, at least once
        │save    │   │subject records               v
        │delete  │   └───────────────────── Go process: ingester + API
        │merge   │                               │ writes   │ writes
   SvelteKit site <── reads ── isnot.db <────────┘          │
        │  own web-sessions.db       ^                      │
        v                            └── subject backfill ──┘
   browser (review form, imports, lenses in wasm)
```

The loop matters: the site never writes `isnot.db`. A save goes to the
person's repo, comes back through jetstream, and is only then what the site
reads. Everything the site decides from `isnot.db` it decides from the past.

### Inventory

| component | state | operations | what is hard | what makes it correct |
|---|---|---|---|---|
| Jetstream ingester (`ingest.go`, `main.go` 62-90) | the tables, the stored cursor, the batch in hand, the session | attempt, batch, apply, commit | redelivery, failing batches, crashes, reads before the transaction | rows are the fold of the log up to the cursor; nothing is lost; handles and subjects are current |
| Subject backfill (`ingest.go` 222-275) | the uris to do, the subject in hand | query, lens, store | shares one connection and the subjects rows with ingest | ends; never blocks ingest; never undoes it |
| isnot.db (`db.go`, `migrations/`) | schema version, tables | migrate, open | crash or failure between migrations | any crash leaves a version the next boot continues from |
| API process (`main.go`, `server.go`) | contexts, error channel, backoff | run, followJetstream, serve | goroutines that fail in any order, shutdown | always ends, after all three; backoff within its limits |
| Lens runtime (`lens.go`) | wasm module, its heap, a mutex | call, reinstantiate | traps in any of the four calls | no call runs on a trapped heap; nothing leaks |
| Record fetcher (`fetch.go`) | none | resolve PDS, fetch | I/O only | |
| Suggestions (`server.go` 83-125) | none | one query | window functions over filtered rows | ranking as its comment says |
| Lenses (`packages/lenses`) | none (Rust); PDS cache (TS) | resolve a subject | pure mapping | title fallback |
| Sentence (`packages/sentence`) | none | wording, sortTags | pure | order of tags |
| Review writes (`web/src/lib/server/reviews.ts`, `deleteReview.ts`) | the repo | save, delete | stale reads of `isnot.db`, no swap on put | one record per subject, locale and person; no tag lost |
| Duplicate merge (`mergeDuplicates*.ts`) | the repo, `running` | hourly merge | races with saves and deletes | converges; loses no tag; order-independent |
| Importers (`importers.ts`, `ImportPage.svelte`) | rows, retries | preview, import | partial failure, runs that overlap | each row once; late answers ignored |
| Sessions (`sessions.ts`, `accounts.ts`, `oauth/`) | browsers, states, sessions | sign in, switch, sign out, restore | restores racing sign-ins, states used twice | current is always signed in; a state is good once |
| Listing (`db.ts`) | none; the cursor in the link | page | rows change between pages | nothing skipped or repeated |
| Live review, canonical fetch | none | fallback, redirects | loops, limits | |
| Review form (`SubjectField.svelte`, `ReviewForm.svelte`) | text, candidates, token, tags, draft | type, resolve, choose, clear, save | late answers | what is shown belongs to what was chosen |
| Images, layout, wording | none | | | not modelled |

Every hazard of this code, at the line where it bites, is in `PROJECT.json`.

## 2. What is modelled

| module | of | source |
|---|---|---|
| `ReviewFold` | the tables and what one event does to them: pure operators, no process | `ingest.go` 277-397, `migrations/` |
| `Ingest` | the Go process's two writers over `isnot.db`: ingest and backfill | `ingest.go` 60-275, `main.go` 29-171, `db.go` 19-32 |
| `ReviewFeed` | abstract: what a reader of `isnot.db` is promised | (`Ingest` implements it) |
| `ReviewMerge` | joining an opinion to a review, merging duplicates: pure operators | `mergeDuplicates.ts`, `review.ts` 31-36, 133-188 |
| `SiteReviews` | one person's reviews: browsers, the merge job, the repo, and `isnot.db` behind it | `reviews.ts`, `deleteReview.ts`, `mergeDuplicatesJob.ts`, `db.ts` 390-416 |
| `Migrations` | the schema's versions over releases and crashes | `db.go` 19-81 |
| `LensRuntime` | the one wasm module and the calls that share it | `lens.go` |
| `ApiProcess` | the Go process from boot to exit, in its container; extends `Migrations` and `LensRuntime` | `main.go` 18-143, `server.go` 18-156, `scripts/start.sh` |
| `Sessions` | who is signed in where: browsers, OAuth states, sessions, requests | `sessions.ts`, `accounts.ts`, `cookie.ts`, the `oauth/` routes, `AccountMenu.svelte` |
| `SubjectField` | one line of text that becomes a subject | `SubjectField.svelte` |
| `ReviewForm` | the sentence around it; extends `SubjectField` | `ReviewForm.svelte`, `TagRow.svelte`, the `/review` routes |
| `ImportPage` | rows from another app: loaded, resolved, chosen, posted | `ImportPage.svelte`, `importers.ts`, `atstore.ts` |
| `Listing` | the listings of `/reviews`, everyone's, a person's, a subject's, page by page | `db.ts` 149-377, `routes/reviews/[...id]` |
| `Tab` | a tab with one of those three pages open | |
| `Picking` | external: `Array.prototype.filter` | |
| `*MC` | small worlds for TLC | |
| `*Proofs` | theorems (section 4) | |

`Ingest` and `SiteReviews` meet at `ReviewFeed`: the first shows that a reader of
`isnot.db` only ever sees a prefix of the network's commits folded in; the
second takes that as what the site reads (`pending` is the suffix still to come).
`ApiProcess` is the frame `Ingest` runs in: there an attempt of the stream is one
state whose lens calls are `LensRuntime`'s, here it is the whole of `applyBatch`.
`ReviewForm` posts what `SiteReviews` saves.

### ReviewFold

A review is a row of `reviews` with its `review_tags`; `Tables` is the whole
committed database, with a subject's row reduced to the version it was lensed
from (title, type and identifiers are functions of that version). `Apply` is
`apply`'s switch, `ApplyCommit` is `applyCommit`; an event carries as data what
the code computes from it (`verdict` for lexicon validation and timestamp
parsing, `claim` for the handle and its sentinel). An event is one of six kinds;
those of other collections are kept because jetstream delivers them.

The second half says what the fold means without running it. `Touched(e)` are
the keys that `e` decides, `Left(e)` is what they hold afterwards, and
`Folded(log, r, base, lo, hi)` says that table `r` is `base` with
`log[lo..hi]` folded in: every key holds what the *last* event to touch it
left. Correctness is stated against this and not against a second execution of
`Apply`.

### Ingest

| state | code |
|---|---|
| `log`, `record` | external: what the network published; each subject's current version |
| `db`, `tx` | `isnot.db` as committed; as the open transaction sees it |
| `conn` | who holds the one connection (`SetMaxOpenConns(1)`) *across* calls; a single query needs it free for its own step only |
| `pc`, `pos` | the goroutine running `followJetstream`; the last event the session delivered |
| `first`, `last`, `at`, `handles`, `lensed`, `fetches` | `applyBatch`'s locals |
| `backfill` | the backfill goroutine and its locals |
| `origin` | history: the log before it was never followed (no key, no cursor: the session starts at the tip) |
| `faults` | bound |

`applyBatch` is not atomic. Its network phases (`ResolveNewAccounts`, one
`ResolveSubject` per subject) read the committed tables; then `BeginTx`, one
`ApplyEvent` per event and `CommitTx`, which writes the cursor. Between any two
of them the other goroutine runs, subjects are edited, events are published,
the batch fails (`BatchFails`: every error return, with the deferred Rollback)
or the process dies (`Crash`, and `Boot` for start.sh's restart). Delivery is
at least once: `RedeliveredBatch` starts a batch up to `Redelivery` events
behind the session's position. A batch that also *ends* before the cursor is
possible only with `StaleBatches`, because what holds differs (section 3).

A handle lookup may answer with any handle the account has had, because the
directory caches answers for an hour. A subject fetch returns the record as it
is now, whatever version the review names.

### ReviewMerge

An adjective is taken after trimming and case folding, which is how both files
compare it, so a review's tags are a function from words to directions; the
spelling and the order of tags are left out, and so are the cid and title that
travel with a uri. `NormalUri` is what `normalizeSubjectUri` makes of a uri once
its handle resolves. A record is what `listRecords` returns: `[rkey, value]`.

### SiteReviews

| state | code |
|---|---|
| `repo`, `head` | external: the person's records by rkey; the repo's commit, counted |
| `pending`, `view` | external: commits the ingester has not stored; the person's rows of `isnot.db` |
| `forms` | per browser, what the review form loaded (`ReviewForm.svelte` 185-226): its subject and prefilled words |
| `requests` | per browser, `saveReview`'s or `deleteReview`'s locals across their awaits: `agent` (the session is being restored), `sent` (the call is out) |
| `job` | `mergeAccount`'s locals: the swap commit, the page reached, the records listed, the groups to write |
| `nextKey`, `now` | TIDs and `new Date()`: an rkey is the place of its record among those created |
| `writes`, `faults` | bounds |

`saveReview` is three steps because it has two awaits: `Save` reads `isnot.db` and
builds the whole record, `AgentReady` gives a new record its TID, `WriteLands` is
the `putRecord`, which overwrites whatever the rkey holds by then. An answer that
is lost leaves the form as it was (`WriteUnanswered`), so the same thing can be
saved again; any call may fail before it does anything (`WriteFails`). A form keeps
what it loaded when its save is answered, and is blank again only when the person
leaves it (`ClearForm`). `careful` is a history: whether every save so far was asked
for `Carefully`, with none other under way, `isnot.db` caught up and the subject named
by its DID form. Of several
records about the subject the code takes the one with the latest `updatedAt`,
and any of those when they tie. An imported row is a `Save` from a blank form
with a date of its own.

The job reads the head (`JobStarts`), one page at a time (`ListPage`), groups
(`GroupBySubject`, where any handle may fail to resolve) and writes one group per
`applyWrites` (`MergeGroup`), against the head it read or its own last write's.
`JobFails` is every catch; the call it stands for may have been applied. A
restart of the process is a request and a run that fail.

### Migrations, LensRuntime, ApiProcess

`Migrations` is `migrate`: the files of a release, in numeric order, each with its
row of `schema_version` in one transaction. `migrating` holds the locals and the
open transaction, `schema` is a history of what the tables have run. Any step
may fail; a crash rolls back; the next boot may be another release, newer or
older (`Deployed`).

`LensRuntime` is `lenses.call`, one action per call into the module: allocate,
write, run, read the result, free it, and the deferred dealloc, which still
names the module it was deferred on. `heap` says what is known about the module:
"trapped" is a trap its call has seen, "tainted" one whose error is dropped,
"closed" a reinstantiation that failed half way.

| state of `ApiProcess` | code |
|---|---|
| `main`, `first`, `exitCode` | `run`'s place, the error it keeps, `main`'s exit |
| `errs`, `cancelled` | the channel for two, `runCtx` |
| `follow`, `streak` | `followJetstream`'s place and backoff; history: how many attempts it stands for |
| `server`, `request` | `serve`'s place and result; one request being handled |
| `backfilling` | the WaitGroup |
| `signalled`, `container` | SIGTERM; `start.sh` with the site beside it |

Sending an error and cancelling are two steps (`FollowReports`, `ServeReports`,
then `Cancels`), because the other goroutine may run in between. `Crash` may
strike anywhere, `Restarts` is the platform's.

### Sessions

| state | code |
|---|---|
| `jar` | the cookie each agent (a person's browser) holds; its tabs share it |
| `rows` | table `browser`: accounts in order, the current one |
| `states` | per sign-in: the `oauth_link` row and its age, the OAuth client's half, who approved |
| `sessions` | accounts whose stored session their PDS still honours |
| `requests` | per tab, the request's locals across its awaits |

A request is split at its awaits. Loading a page reads the row (`Load`), restores
every account of it (`Restore`, one answer at a time, each of which may fail), and
only then takes those that failed out of the row as it is by then (`Loaded`). A
response sets the cookie only for a row the request made (`Respond`). The redirect
back from a PDS may be opened in any tab of any agent.

### SubjectField and ReviewForm

A text is blank, words, an at-uri, a url, or the title of the subject picked.
`asked` is the set of requests without an answer, each with whether `liveToken` is
still its own; a request is answered in any order. Reading the clipboard is one of
them (`ClipboardAnswers`): what was typed while it was read does not stop it. A step is
a handler with the Svelte effects it sets off (`Looked` stands for the two effects of
lines 140-170; `Answered` for their running again after an answer). The list is shown
for rows still loading, too, and Enter on one of those does nothing.

`ReviewForm` adds the filled-in words, each with the subject it was said of, the
review loaded (`record`, `prefilled`), the answers under way, the posts, and the
draft that survives signing in. `sending` disables the buttons only: Enter in a field
posts all the same, so there may be several posts, and one without an account. `hand`
is a history of what was added and struck by hand. Its database and repository are one store, because lag and merging are
`SiteReviews`'.

### ImportPage

`Preview` is the server's load: records grouped by subject, with the oldest of
their dates, the subjectless left out. A `run` is one execution of the resolving
effect; an older run goes on in the background until it notices (`Mine`). A post
is saved row by row (`SaveRow`, `RefuseRow`), answered, and followed by a load of
the page, during which another post may be sent. A browser signed out meanwhile is
turned away before the first row (`TurnedAway`, the 401): that answer has no results,
and the page does not load again.

### Listing

`Pages` is the query: the rows that match and lie after the cursor, in keyset
order, one more than a page to know whether there is a next one. `Ingest` changes
any row between two pages. `seen` and `steady` are histories: what the earlier
pages showed, and which reviews have matched since the first page unchanged. A
listing is everyone's, a person's or a subject's; only a subject's may lack a heading.
`title` is what a look-up in the browser came to, with the uri it was about.

### Tab

The three pages keep their state to themselves, so one run checks them side by
side: `Tab` has one of them open and the others blank. Every step of `Tab` is a
step of `FormNext`, `ImportNext` or `ListNext` or leaves that page alone, which is
why the theorems of section 4 about those specifications hold of it.

## 3. The runs

| run | shows |
|---|---|
| `IngestFold` | every kind of event of two accounts, batches up to 3, redelivery, one fault, lookups that fail or are out of date: the rows are the fold, and accounts, handles and subjects go with them; `Ingest` implements `ReviewFeed` |
| `IngestFaults` | three faults anywhere, no key, backfill alongside; under fairness `CatchesUp` and `BackfillEnds`; the connection always comes back |
| `IngestSubjects` | two subjects of three versions edited while their reviews are in flight, one event a batch, two faults, stale batches: no row goes back a version or falls behind a review, the cursor never moves back |
| `IngestCrashAhead` | **violated**: the ingest design says a crash never leaves the cursor ahead of the data |
| `IngestVersionHidden` | **violated**: the subject design says a new cid triggers a refetch |
| `SiteMerge` | three writes of one subject with `isnot.db` any distance behind and the job between any two steps: a merge keeps every word and its newest direction, and records keep their date |
| `SiteHandles` | two locales, a subject under its DID and under a handle, reviews that fit one tag, one failure anywhere: one record per subject as long as saves are careful, and whatever was saved, everything `Settles` |
| `SiteQuickAdds` | **violated**: the site's design says that a quick add never deletes earlier words |
| `Process` | the Go process and its container: schema, lenses, backoff, shutdown, exit codes; under fairness it ends when told to and takes the container with it |
| `Sessions` | two agents, one with two tabs, two accounts, PDSs that revoke or fail: who is signed in where, and why it changes |
| `Tab` | the form, an import or a listing, with every answer as late as it likes |
| `FieldRetries` | **violated**: a comment says a failed look-up leaves the text there to fix |

The violations are explained, with the lines they quote, under `findings` in
`PROJECT.json`. Briefly: (1) `MAX(seq, excluded.seq)` protects the cursor from a
stale batch but not the rows, so a crash before delivery has caught up again
makes the regression permanent; (2) `resolveSubjects` compares only the first
cid a batch names for a subject; (3) the effect that looks a text up reads the
candidate it sets, so a failure, which clears it, sets the effect off again: the
field asks for the same text again for ever, and a clipboard answer that comes while a
url is looked up leaves it looking without asking; (4) a save that prefilled nothing
merges into the row of `isnot.db` and puts the whole record, without a swap: what the
record held besides is deleted. One tab is enough for that, if its last save is not
ingested yet (the run); with two tabs that save at once no lag is needed. For (1) and
(2) the passing runs hold under the condition that excludes the case: no stale batches, one event a batch.

`OneRecordPerSubject` has a condition, that every save so far was careful. It is not
an assumption of the run, which has saves of either sort; it is part of the property,
because without it the property is false by design: a lag alone makes two records of
one subject, which is the accepted case and what the job repairs (`Settles`).

`MergeKeepsOpinions` is checked where every handle resolves. Elsewhere it does
not hold (section 5).

### Bounds

All are named constants. For the ingester: `MaxLog` events (3), `MaxBatch` (1 to
3), `MaxFaults` (0 to 3), `Redelivery` (0 to 3), one or two accounts, keys and
subjects, up to three versions. Three events are the least in which a row is
written, overwritten and removed, and in which a redelivered batch overlaps one
committed and one new event; two faults are needed for a fault in the repair of
a fault, three for the crash after a redelivery after a failed batch. The proofs
of section 4 are for every bound. `MaxFetches` stands for
`maxSubjectFetchesPerBatch` (20) and is set so that it is reached.

For the site: `MaxWrites` saves and deletes (3; 2 in `SiteHandles`), `MaxFaults`
(0 or 1), one browser, two words, up to two uris and locales. Three writes are
the least that give two duplicates and a write racing their merge; two words are
needed to lose one and keep one; `MaxTags` = 1 makes a group that does not fit.

`Process`: two releases, of which the newer adds files 2 and 10 (the order of
their names is not that of their numbers); two callers of the lenses; `InitialBackoff` 1,
`MaxBackoff` 3 and `MaxStreak` 3, so that doubling overshoots the cap. One request
stands for any number.

`Sessions`: one more agent than the least (a redirect opened elsewhere), two tabs
that share a row, two accounts (so that there is one to fall back to), two
sign-ins, two rows.

`Tab`: three inputs in the form (`MaxInputs`; getting into the field is not counted),
which from the link of a subject, where picking needs none, are: write or strike,
pick another or sign in, save, with a second post by Enter among them. Two at-uris
and a url, so that one answer can be late for another, and a stored review of each,
of one word and of two. Three
loads of an import (a run, its successor, and the load after a post), two
attempts, two subjects of which one is listed twice. Three reviews, a page of one
and one change by ingest: a first, a middle and a last page. `FieldRetries` needs
one text typed and three inputs.

### Fairness

The site (`SiteReviews!FairSpec`): weak fairness of the job, which a timer starts
every hour and whose calls return, and of a request once accepted, which goes on
without the person. None on saving, deleting, failing or on the ingester; writes
and faults are finite.

The ingester (`Ingest!FairSpec`): weak fairness of boot, of an attempt, of the
stream's next batch, of the batch in hand and of the backfill, each of which is a
goroutine the Go scheduler keeps running or a restart that start.sh and the
platform guarantee. None on faults, edits, publication or redelivery. Faults
are finite (`MaxFaults`), as `CatchesUp` needs: against a batch that fails for
ever nothing catches up.

The process (`ApiProcess!FairSpec`): weak fairness of every goroutine step that
needs nothing from outside: receiving, returning, reporting, cancelling, the
loop's exit once its context is done, the shutdown with its time limit, a lens
call in progress, and start.sh's `wait -n` once a process has ended. An attempt
that streams, a request and a boot may go on for ever.

The pages: answers of requests come (`Answers` in `FieldSpec`, `Resolving` in
`ImportSpec` and `TabSpec`); a fetch in the browser ends with an answer or an
error. Nothing the person does is fair. `GoneSessionsLeave` states its own
condition, that pages keep being loaded from that browser, instead of fairness.

`Tab` and `FieldRetries` switch the deadlock check off: inputs are bounded, and a
person may stop. Everywhere else it is on.

## 4. What is proved

| theorem | says |
|---|---|
| `ApplyMeansLeft` | one `Apply` changes exactly the reviews in `Touched(e)`, to `Left(e)` |
| `TypeCorrect` | `Ingest`: `Spec => []TypeOK` |
| `ConnectionOwned` | `Spec => []ConnectionHasOwner` |
| `CursorMonotone` | `Spec => CursorNeverMovesBack` |
| `ReviewsFollowCursor` | if no stale batches: `Spec => []ReviewsMatchCursor` |
| `IngestIsAFeed` | if no stale batches: `Spec => ImplementsFeed`, the refinement |
| `AccountsFollowReviews`, `TagsFollowReviews` | `Spec => []ReviewersHaveAccounts`, `Spec => []TagsBelongToReviews` |
| `HandlesFollowClaims` | with a key and no stale batches: `Spec => []HandlesCurrent` |
| `SubjectsFollowReviews`, `SubjectsMoveForward` | if fetches succeed and `MaxBatch <= MaxFetches`: `[]ReviewedSubjectsResolved`, `SubjectsNeverRegress` |
| `SubjectsAreCurrent` | and with one event a batch: `[]SubjectsCoverReviews` |
| `MergeTakesNewest` | of a group, every word's merged direction is one of a record last updated among those with the word |
| `SiteTypeCorrect`, `DatesAreKept`, `MergesKeepWords` | `SiteReviews`: `[]TypeOK`, `DatesKept`, `MergeKeepsWords` |
| `MergesKeepOpinions` | and where every handle resolves (`EveryHandleResolves`): `MergeKeepsOpinions` |
| `OneRecordWithCare` | `Spec => []OneRecordPerSubject`, for any number of tabs |
| `SchemaIsItsVersions`, `CallsLive` | `Migrations`, `LensRuntime`, and `ApiProcess` made of them: `[]SchemaFollowsVersions`, `[]CallsHaveALiveModule` |
| `RunLeavesNothing`, `ExitCodeTellsWhy`, `BackoffIsDue` | `ApiProcess`: `[]NothingOutlivesTheDatabase`, `[]ExitTellsWhy`, `[]BackoffFollowsStreak` |
| `CurrentStaysSignedIn`, `AccountsStayHome` | `Sessions`: `[]CurrentIsSignedIn`, `[]SignInsStayHome` |
| `EnteringNeedsAState`, `LeavingNeedsAReason` | `Sessions`: `EnteringSpendsAState`, `LeavingHasAReason` |
| `PagingIsExact`, `HeadingStays` | `Listing`: `[]NoneSkippedNoneRepeated`, `[]HeadingIsOfThePage` |
| `RowsStayTheLastLoads`, `EachRowIsAnswered` | `ImportPage`: `[]RowsAreTheLastLoads`, `EveryRowIsAnswered` |
| `NoLateCommit` | `SubjectField`: `LateAnswersDoNotCommit` |
| `FormIsOfOneSubject`, `HandWordsStay`, `SavesTakeOnlyStruck` | `ReviewForm`: `[]TagsAreForTheSubject`, `[]TypedWordsStay`, `SavesStrikeByHand` |
| `PagesKeepTheirPromises` | `Tab`: the eight properties of its pages |

All from the named assumptions of the modules on their constants, and the
conditions in the table; sets of accounts, keys, subjects, events, browsers,
uris, releases, callers, agents, tabs, rows of other apps and reviews are any (the
words of a review are finitely many, and so are the reviews of a listing), and the
bounds any naturals. Every safety property a run finds to hold is the statement
of a theorem.

**The fold** (`IngestProofs`). The committed reviews only change in `CommitTx`, so
what has to be known is what `tx` holds then. The inductive invariant (`IInv`) adds
to `ReviewsMatchCursor` that (a) while a transaction is open its reviews are the
committed ones with `log[first..at-1]` folded in (`TxOK`), and (b) a batch starts no
later than the event after the committed position and does not end before it
(`PositionOK`). At commit two folds are composed: the committed one up to the
standing position and the batch's, which may overlap it. `FoldsCompose` says that
this is the fold up to the end of the batch, and it is where the absence of stale
batches is used: the overlap is folded twice, which is harmless only because the
batch reaches at least as far. That is the same condition the run
`IngestCrashAhead` shows to be necessary. The refinement rests on the same
invariant and on `FoldIsUnique`: a log has one fold, so what is shown before and
after a commit is determined by the two positions, and every other step stutters.

**The rows beside the reviews** (`IngestRowsProofs`). Accounts, handles and subjects
are looked up before the transaction and written in it, so each invariant has a
part for every phase: what the committed rows owe, what the lookups must have
brought by the end of their phase, and what the open transaction owes. `RowsInv`
has the batch's posters known; `HandlesInv` says of every handle, stored or open,
that it is the last claim's or provisional, from before any; `SubjectsInv` says of
every candidate passed that its subject has a row or will, that the cap is not
reached (at most one fetch an event), and that the backfill, which runs beside
all of it, has nothing to do. `VersionsInv` orders what is stored, lensed, in the
transaction and at the source, and `CoverInv` puts the reviews' cids below them.

**The merge** (`ReviewMergeProofs`). `MergeTakesNewest` needs that the `CHOOSE` for the
winner has a candidate: `beats` is a total order on (date, direction) pairs. The
proof maps directions to naturals (closeness to 0, "is" first) and takes least
elements.

**The site** (`SiteReviewsProofs`). The inductive invariant (`Inv`) speaks of every copy
of a record wherever it is: in the repo, in the feed, in `isnot.db`, in a
browser's request, in the job. `DatesKept` relates two states of the repo, and
the record that overwrites was built earlier from an out-of-date row, so it can
only be proved of all copies at once: copies of one rkey have one date
(`SameDate`), which needs that an rkey handed out is one no copy has (`GivenOut`).
For `MergesKeepWords` the invariant says that as long as the head is the one the
job expects, the repo holds exactly what the job listed (`SwapOK`), and that its
groups do not share rkeys (`JobOK`), so that writing one leaves the others true
against the new head. Without the swap `SwapOK` has no reason to hold, and the
mutant of `MergeGroup` shows the word lost.

`MergeKeepsOpinions` says more: the direction a word comes out with is the newest
of *all* records of the subject, not just of those in the group. So a group must be
complete: as long as the head is the one the job expects, every record from the
last page up is listed and every group holds every record of its subject
(`HoldsAll`). That is where `EveryHandleResolves` is used, and it is needed: TLC
breaks the property once a handle fails (section 5). The property names the newest
direction by `CHOOSE`; the proof describes it as a relation (`IsNewest`), shows that
one exists and that there is only one, and that what `MergeTakesNewest` gives is it.

`OneRecordPerSubject` says: as long as every save was asked for carefully. `CareInv` is
that implication about five facts. `ViewFollows` is the heart of it: the row of an rkey
is the record unless the feed still has something on it, and the last thing the
feed has is what the record is, so a feed that is empty when a save is asked for means
that it sees what is there. `ReplacesItsOwn` carries this across the awaits of the
save, whatever is deleted or lost on the way: what is about to be put under an rkey
replaces the only record of its subject, and no other save is under way (`OneSave`).
The job never writes meanwhile, because with one record each it has nothing to merge
(`NoMergeDue`). There is no theorem about quick adds: they do lose words (section 3).

**The process** (`ProcessProofs`). `MInv`: the versions run have no gap below the
largest, and what a boot has left is exactly what is missing of its release;
`ReleasesAssumption`, that a later release only adds larger numbers, is used there
and nowhere else. `LInv`: at most one call is open, and it alone sees a trapped
heap. `PInv`: every goroutine reports once, after its last use of lenses and
database (`EachReportsOnce`, `UsesEndFirst`), and a context is done only because
the process was told to stop or the listener failed (`EndsForAReason`).

`BackoffIsDue` follows the wait through attempts: that a wait which doubles and is
capped each time is the wait doubled as often and capped once (`DueDoubles`).

**The sessions** (`SessionsProofs`). A row's current account is one of its accounts,
and there is one if there are any (`RowOK`); but what enters a row is decided two
requests earlier, by whoever approved a sign-in at their PDS. So `SInv` also says
that a state a login is working on is that request's alone and not approved yet
(`RequestOK`), and that a state with an account has spent its client's half
(`StateOK`): a redirect opened twice, or in the wrong browser, then finds nothing
to spend. Removing the accounts whose restores failed is written as one step
(`WithoutAccounts`); that it is what removing them one after the other comes to,
in any order, is an assumption of `SessionsMC` that TLC evaluates.

**The pages** (`TabProofs`). *The form*: `FieldInv`, every request that still has its
token is for the last thing offered. `FormInv` adds two accounts: a word of the
loaded review is in the form or was struck by hand (`PrefilledIsAccounted`), and a
post carries the same of the moment it was sent (`PostsAreAccounted`), which is
what a save answered much later can be held to. *The import*: `PageInv` says that
the rows shown are some of the first k rows of the last load, in order, and that
of all runs still waiting only one is of that load, with exactly the rows after
those (`ResolvedUpTo`, `LastRunIsOne`); what an older run has left does not matter,
which is what `Mine` achieves. A load is a grouping of a listing, computed record by
record; `PreviewGroups` shows what it comes to (`PreviewOf`: each subject once, at
its earliest date). `RepoInv`: of the rows sent, the first have their results and the
others are still to do, so a post that is turned away before the first has written
nothing (`NothingIsDone`). *The listing*: `ListInv`, of the steady reviews the earlier
pages have shown exactly those above the cursor, and this one those between it
and the next cursor. The key is a total order that ingest cannot change for a
steady review; that is what offsets would not have. *The tab*: its steps are the
pages' (`TabStepsArePages`), so the three invariants hold side by side.

**Induction** (`SequenceFacts`). The provers cannot instantiate the library's
induction theorems, whose hypothesis is an operator. Where a definition is
recursive all the same (a load, a filter, the doubled backoff), it is a function on
an initial part of the naturals, and the induction is over the *set* of numbers
that have the property (`LeastExists`, `UpTo`); `RecursionExists` gives the function
its existence and its equations. That is why `Preview`, `Picked` and `Doubled` are
recursive functions. The fold of `ReviewFold` has no need of it: it is stated by "the
last event that touches a key".

Only model-checked is what liveness there is, since fairness and ENABLED are out of
the prover's reach: `CatchesUp`, `BackfillEnds`, `Settles`, `RunEnds`,
`ContainerFollowsEither`, `GoneSessionsLeave`, `LoadingEnds`.

## 5. Observations

What modelling showed beside the findings, and no run here shows: most of it is in no
document's way or a matter of taste; where a document or comment says otherwise, its
lines are given. Where a run is named, changing it as said shows the case.

- **Backfill stores late** (`ingest.go` 225-237). It fetches before it waits for the
  connection and overwrites unconditionally: a subject refreshed by a batch
  meanwhile goes back a version. `IngestSubjects` excludes it (fetches that succeed
  leave the backfill nothing); with `FetchFails` TRUE it shows it.
- **A merge without one of its records** (`mergeDuplicates.ts`): a record whose handle
  does not resolve is left out of its group, and the merged record takes the
  latest `updatedAt` of the group for all its words. When the handle resolves again
  the record left out is outranked on words whose own date was older.
  `SiteMerge` with two uris of one subject and one fault shows it; no document promises
  otherwise.
- **A trap in the deferred dealloc goes unseen** (`lens.go` 113): the module serves
  on, against the comment of lines 88-96. `heap` is "tainted" then.
- **A listener that fails leaves its requests** (`server.go` 144-154): `Shutdown` is
  not called on that path, so requests may outlive the database handle.
- **`start.sh` does not wait** for what it passes SIGTERM on to: the graceful
  shutdown of `serve` is cut short when the container's first process is gone.
- **A delete's answer blanks the form** whichever subject is shown by then.
- **A second late load** of one uri (picked, cleared, picked again) puts words struck
  between the two answers back into the form.
- **`prefilled` is a snapshot** (`ReviewForm`, `ReviewRow`): after a save it is not
  refreshed, so a word added, saved, and then struck stays in the review, although
  the design has striking delete it (lines 162-165). Edits after a save are not kept
  in the draft either.
- **`review.tags.length === 0`** in `ReviewForm` is dead: a stored review has tags.
- **Imports**: rows unselected by hand are selected again after the load that
  follows a post; the button is back before that load, so the same rows can be
  sent twice (harmless: the save merges); two source records mapped to one word
  write it once per record.
- **Listing**: rows are keyed by rkey alone, which two accounts may share; a row
  deleted in place is shown again after navigating until ingest has caught up.
- **`suggestSubjects`** (`server.go` 83-85): the comment describes the ranking before
  the WHERE clause (a subject's latest review and number of reviews), the query
  counts and takes the latest of the reviews whose own title matches.
- **An account signed in again** while a page is restoring it may be removed on the
  old answer (`accounts.ts` 92): `LeavingHasAReason` allows exactly that, by a page
  that failed to restore that account, and nothing else.

## 6. Not modelled

| part | why |
|---|---|
| Record fetcher (`fetch.go`) | I/O without state: in `Ingest` a fetch returns the current version or fails |
| Suggestions (`server.go` 83-125) | one read-only query, a ranking by a window function; `SubjectField` takes any answer |
| Lenses (Rust, TS binding) | mapping tables without state; the clients take a promise that resolves, fails or is late |
| Sentence | formatting, without state |
| Live review, canonical fetch | a fallback read and a redirect loop of fixed length; requests without state of ours |
| Review row (`ReviewRow.svelte`) | the form's tags and posts again, without a subject to change; its one hazard is the snapshot above |
| Images, layout, wording, vendored lexicons, deployment files | nothing whose changes could go wrong |

Within what is modelled: the browser's history on a listing (going back shows a
page without the ones before it, so `seen` has no meaning there), counts and type
lists of the filters, avatars and handles for display, the import's rating
mappings beyond which words they give, keyboard navigation within a list of rows and
from one field of the form to another, the page of a single review, a read of the
database that throws in the middle of an import (the framework's 500).
Each is left out because no property of this project could tell.
