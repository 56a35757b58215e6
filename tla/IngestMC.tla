------------------------------ MODULE IngestMC ------------------------------
(* Small worlds for Ingest: which events the network publishes in each. *)
EXTENDS Ingest, TLC

CONSTANTS d1, d2, r1, r2, u1, u2, b1, b2, good, long, h1, h2

Put(d, r, verdict, u, cid, b, tags) ==
    [kind |-> "put", did |-> d, rkey |-> r, verdict |-> verdict,
     review |-> [uri |-> u, cid |-> cid, body |-> b], tags |-> tags]

IsGood == [adjective |-> good, direction |-> 1]
IsNotGood == [adjective |-> good, direction |-> -1]
ReallyIsLong == [adjective |-> long, direction |-> 2]

Identity(d, claim) == [kind |-> "identity", did |-> d, claim |-> claim]
Account(d, active, status) ==
    [kind |-> "account", did |-> d, active |-> active, status |-> status]

(* Two accounts and two review keys: every kind of event that moves a row of *)
(* one of them, and that changes a handle around the first review.           *)
FoldEvents ==
    {Put(d1, r1, "valid", u1, 1, b1, <<IsGood, ReallyIsLong>>),
     Put(d1, r1, "valid", u1, 1, b2, <<IsGood, IsNotGood>>),
     Put(d1, r2, "valid", u2, 1, b1, <<ReallyIsLong>>),
     Put(d2, r1, "valid", u1, 1, b1, <<IsGood>>),
     Put(d1, r1, "rejected", u1, 1, b1, <<IsGood>>),
     Put(d1, r1, "badTime", u1, 1, b1, <<IsGood>>),
     [kind |-> "delete", did |-> d1, rkey |-> r1],
     [kind |-> "sync", did |-> d1],
     Account(d1, FALSE, "deleted"),
     Account(d1, FALSE, "other"),
     Identity(d1, [given |-> "none"]), Identity(d1, [given |-> "invalid"]),
     Identity(d1, [given |-> "handle", handle |-> h1]),
     Identity(d1, [given |-> "handle", handle |-> h2])}

(* Reviews of two subjects whose records change while they are reviewed. *)
SubjectEvents ==
    {Put(d1, r1, "valid", u1, c, b1, <<IsGood>>) : c \in {1, 2}}
    \cup {Put(d1, r2, "valid", u2, 1, b1, <<IsGood>>),
          Put(d1, r2, "badTime", u2, 1, b1, <<IsGood>>),
          Put(d1, r1, "rejected", u2, 1, b1, <<IsGood>>)}

(* Two reviews of one subject, naming versions of it. *)
VersionEvents == {Put(d1, r, "valid", u1, c, b1, <<IsGood>>) : r \in {r1, r2}, c \in {1, 2}}

(* The least that lets a batch be lost or repeated. *)
PlainEvents ==
    {Put(d1, r, "valid", u1, 1, b1, <<IsGood>>) : r \in {r1, r2}}
    \cup {[kind |-> "delete", did |-> d1, rkey |-> r1]}
=============================================================================
