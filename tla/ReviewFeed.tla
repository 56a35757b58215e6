----------------------------- MODULE ReviewFeed -----------------------------
(***************************************************************************)
(* What the ingester promises whoever reads isnot.db (the site's db.ts and *)
(* the Go API): a table of reviews that is always the fold of the log up   *)
(* to some point, and a point that only moves forward.  Batches, sessions, *)
(* transactions, goroutines and crashes do not exist at this level.        *)
(***************************************************************************)
EXTENDS ReviewFold

CONSTANTS Published

VARIABLES
    log,        \* the events the network has published
    origin,     \* how much of the log preceded what is followed
    upto,       \* the events folded in so far are log[origin + 1 .. upto]
    shown       \* the reviews and tags a reader sees

feedVars == <<log, origin, upto, shown>>

FeedInit ==
    /\ log = <<>>
    /\ origin = 0 /\ upto = 0
    /\ shown = NoReviews

PublishMore ==
    /\ \E e \in Published : log' = Append(log, e)
    /\ UNCHANGED <<origin, upto, shown>>

(* A follower with no stored cursor and no archive access starts at the    *)
(* live tip; it can only do so while it has folded nothing in.             *)
StartAtTip ==
    /\ upto = origin
    /\ origin' = Len(log) /\ upto' = Len(log)
    /\ UNCHANGED <<log, shown>>

Advance ==
    /\ upto' \in (upto + 1)..Len(log)
    /\ Folded(log, shown', NoReviews, origin + 1, upto')
    /\ UNCHANGED <<log, origin>>

FeedNext == PublishMore \/ StartAtTip \/ Advance

FeedSpec == FeedInit /\ [][FeedNext]_feedVars
=============================================================================
