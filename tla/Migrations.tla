----------------------------- MODULE Migrations -----------------------------
(* db.go's migrate: the files of a release, named by their version numbers,  *)
(* run in numeric order, each in one transaction with its row of             *)
(* schema_version. A boot may fail or die anywhere, and the next one, of the *)
(* same, a newer or an older release, goes on from what was committed.       *)
EXTENDS Integers, Sequences

CONSTANTS
    Releases    \* for every release, oldest first, the versions of the files it embeds

(* Every file keeps its number, and a later release only adds larger ones:   *)
(* migrate skips a file whose number is not above MAX(version).              *)
ReleasesAssumption ==
    /\ Releases \in Seq(SUBSET (Nat \ {0}))
    /\ Releases # <<>>
    /\ \A i, j \in 1..Len(Releases) : i <= j =>
          /\ Releases[i] \subseteq Releases[j]
          /\ \A v \in Releases[j] \ Releases[i], w \in Releases[i] : v > w
ASSUME ReleasesAssumption

VARIABLES
    release,        \* the release whose binary is deployed
    schemaVersion,  \* the rows of schema_version
    schema,         \* the migrations whose SQL the database has run, in order
    migrating       \* migrate's locals: where it is, what it has left, its transaction

migrationVars == <<release, schemaVersion, schema, migrating>>

NotMigrating == [at |-> "off", pending |-> {}, tx |-> {}]
Files == Releases[release]

(* version > COALESCE(MAX(version), 0) *)
Newer(v) == \A w \in schemaVersion : v > w

IsNext_GlobOrder(v) == \E w \in migrating.pending : v >= w

(* slices.SortFunc: the glob's order is that of the names, "10_" before "2_". *)
IsNext(v) == \A w \in migrating.pending : v <= w
ReadVersions ==
    /\ migrating.at = "off"
    /\ migrating' = [at |-> "loop", pending |-> {v \in Files : Newer(v)}, tx |-> {}]
    /\ UNCHANGED <<release, schemaVersion, schema>>

(* tx.Exec(sqlText): visible to nobody until the commit. *)
RunFile ==
    /\ migrating.at = "loop" /\ migrating.tx = {}
    /\ \E v \in migrating.pending :
          /\ IsNext(v)
          /\ migrating' = [migrating EXCEPT !.tx = {v}]
    /\ UNCHANGED <<release, schemaVersion, schema>>

CommitFile ==
    /\ migrating.at = "loop"
    /\ \E v \in migrating.tx :
          /\ schemaVersion' = schemaVersion \cup {v}
          /\ schema' = Append(schema, v)
          /\ migrating' = [migrating EXCEPT !.pending = @ \ {v}, !.tx = {}]
    /\ UNCHANGED release

(* A statement or the commit fails: Rollback, and openDB returns the error.  *)
MigrationFails ==
    /\ migrating.at = "loop"
    /\ migrating' = [NotMigrating EXCEPT !.at = "failed"]
    /\ UNCHANGED <<release, schemaVersion, schema>>

Migrated ==
    /\ migrating.at = "loop" /\ migrating.pending = {}
    /\ migrating' = [NotMigrating EXCEPT !.at = "done"]
    /\ UNCHANGED <<release, schemaVersion, schema>>

MigrationStep == ReadVersions \/ RunFile \/ CommitFile \/ Migrated

(* The process is gone, and what starts next may be another release.         *)
MigrationCrash == migrating' = NotMigrating /\ UNCHANGED <<release, schemaVersion, schema>>
Deployed ==
    /\ migrating' = NotMigrating
    /\ release' \in 1..Len(Releases)
    /\ UNCHANGED <<schemaVersion, schema>>

MigrationInit ==
    /\ release \in 1..Len(Releases)
    /\ schemaVersion = {} /\ schema = <<>>
    /\ migrating = NotMigrating

MigrationNext == MigrationStep \/ MigrationFails \/ MigrationCrash \/ Deployed

MigrationSpec == MigrationInit /\ [][MigrationNext]_migrationVars

-----------------------------------------------------------------------------

(* The tables are what schema_version says: every file ran once, in the      *)
(* order of its number, whatever boot of whatever release ran it and         *)
(* wherever the one before died; and once openDB has returned, every file of *)
(* this release has run (db.go:34-80).                                       *)
RanInOrder ==
    /\ {schema[i] : i \in 1..Len(schema)} = schemaVersion
    /\ \A i, j \in 1..Len(schema) : i < j => schema[i] < schema[j]
FullyMigrated == migrating.at = "done" => Files \subseteq schemaVersion
SchemaFollowsVersions == RanInOrder /\ FullyMigrated
=============================================================================
