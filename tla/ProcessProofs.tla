--------------------------- MODULE ProcessProofs ----------------------------
(***************************************************************************)
(* Proofs about the API process for any releases, any backoff and any      *)
(* goroutines' interleaving: the schema is what schema_version says, every *)
(* lens call works on one live module, and run ends with nothing of its    *)
(* own left and with the exit code that says why.                          *)
(***************************************************************************)
EXTENDS ApiProcess, SequenceFacts

-----------------------------------------------------------------------------
(* Migrations. *)

MigrationTypeOK ==
    /\ release \in 1..Len(Releases)
    /\ schemaVersion \in SUBSET Nat
    /\ schema \in Seq(Nat)
    /\ migrating \in [at : {"off", "loop", "done", "failed"}, pending : SUBSET Nat, tx : SUBSET Nat]

(* What has run is all there is up to some number, in every release. *)
NoGaps ==
    \A v \in schemaVersion : \A i \in 1..Len(Releases) :
        \A w \in Releases[i] : w <= v => w \in schemaVersion

(* What migrate has left is what has not run, and comes after what has; the *)
(* file in its transaction is the first of it.                              *)
PendingOK ==
    /\ migrating.pending \subseteq Files /\ migrating.tx \subseteq migrating.pending
    /\ \A v \in schemaVersion, w \in migrating.pending : v < w
    /\ \A v \in migrating.tx, w \in migrating.pending : v <= w
    /\ migrating.at = "loop" => Files \subseteq schemaVersion \cup migrating.pending
    /\ migrating.at # "loop" => migrating.pending = {}

MInv == MigrationTypeOK /\ NoGaps /\ PendingOK /\ SchemaFollowsVersions

LEMMA FilesAreNats == \A i \in 1..Len(Releases) : Releases[i] \in SUBSET Nat
BY ReleasesAssumption DEF ReleasesAssumption

LEMMA FilesType == MigrationTypeOK => Files \in SUBSET Nat
BY FilesAreNats DEF MigrationTypeOK, Files

(* A file of a later release, and of none before, comes after all of those. *)
LEMMA LaterFiles ==
    ASSUME NEW i \in 1..Len(Releases), NEW j \in 1..Len(Releases),
           NEW v \in Releases[j], v \notin Releases[i]
    PROVE  \A w \in Releases[i] : v > w
<1>1. CASE i <= j BY <1>1, ReleasesAssumption DEF ReleasesAssumption
<1>2. CASE j <= i BY <1>2, ReleasesAssumption DEF ReleasesAssumption
<1>. QED BY <1>1, <1>2

LEMMA MigrationStarts == MigrationInit => MInv
<1>. SUFFICES ASSUME MigrationInit PROVE MInv OBVIOUS
<1>. USE DEF MigrationInit, NotMigrating
<1>1. MigrationTypeOK BY DEF MigrationTypeOK
<1>2. NoGaps BY DEF NoGaps
<1>3. PendingOK BY DEF PendingOK
<1>4. SchemaFollowsVersions
  <2>1. Len(schema) = 0 OBVIOUS
  <2>2. {schema[i] : i \in 1..Len(schema)} = {} BY <2>1
  <2>. QED BY <2>1, <2>2 DEF SchemaFollowsVersions, RanInOrder, FullyMigrated
<1>. QED BY <1>1, <1>2, <1>3, <1>4 DEF MInv

LEMMA ReadKeeps == MInv /\ ReadVersions => MInv'
<1>. SUFFICES ASSUME MInv, ReadVersions PROVE MInv' OBVIOUS
<1>. USE DEF MInv, ReadVersions
<1>1. Files' = Files /\ Files \in SUBSET Nat BY FilesType DEF Files
<1>2. MigrationTypeOK' BY <1>1 DEF MigrationTypeOK
<1>3. NoGaps' BY DEF NoGaps
<1>4. PendingOK'
  <2>1. ASSUME NEW v \in Files, ~Newer(v) PROVE v \in schemaVersion
    <3>1. PICK w \in schemaVersion : ~(w < v) BY <2>1, <1>1 DEF Newer, MigrationTypeOK
    <3>2. v <= w BY <3>1, <1>1 DEF MigrationTypeOK
    <3>. QED BY <3>2 DEF NoGaps, Files, MigrationTypeOK
  <2>2. \A v \in schemaVersion, w \in migrating'.pending : v < w BY <1>1 DEF Newer, MigrationTypeOK
  <2>. QED BY <1>1, <2>1, <2>2 DEF PendingOK
<1>5. SchemaFollowsVersions' BY DEF SchemaFollowsVersions, RanInOrder, FullyMigrated
<1>. QED BY <1>2, <1>3, <1>4, <1>5

LEMMA RunFileKeeps == MInv /\ RunFile => MInv'
<1>. SUFFICES ASSUME MInv, RunFile PROVE MInv' OBVIOUS
<1>. USE DEF MInv, RunFile
<1>1. Files' = Files /\ Files \in SUBSET Nat BY FilesType DEF Files
<1>2. MigrationTypeOK' BY <1>1 DEF MigrationTypeOK
<1>3. NoGaps' BY DEF NoGaps
<1>4. PendingOK' BY <1>1 DEF PendingOK, IsNext, MigrationTypeOK
<1>5. SchemaFollowsVersions' BY <1>1 DEF SchemaFollowsVersions, RanInOrder, FullyMigrated, MigrationTypeOK
<1>. QED BY <1>2, <1>3, <1>4, <1>5

LEMMA CommitFileKeeps == MInv /\ CommitFile => MInv'
<1>. SUFFICES ASSUME MInv, CommitFile PROVE MInv' OBVIOUS
<1>. USE DEF MInv
<1>1. Files' = Files /\ Files \in SUBSET Nat BY FilesType DEF Files, CommitFile
<1>. PICK v \in migrating.tx :
        /\ schemaVersion' = schemaVersion \cup {v}
        /\ schema' = Append(schema, v)
        /\ migrating' = [migrating EXCEPT !.pending = @ \ {v}, !.tx = {}]
  BY DEF CommitFile
<1>2. /\ migrating.at = "loop" /\ release' = release /\ v \in Nat /\ v \in Files
      /\ v \in migrating.pending
  BY <1>1 DEF CommitFile, PendingOK
<1>3. MigrationTypeOK'
  <2>1. schema' \in Seq(Nat) BY <1>2 DEF MigrationTypeOK
  <2>2. schemaVersion' \in SUBSET Nat BY <1>2 DEF MigrationTypeOK
  <2>3. migrating' \in [at : {"off", "loop", "done", "failed"}, pending : SUBSET Nat, tx : SUBSET Nat]
    BY DEF MigrationTypeOK
  <2>. QED BY <1>2, <2>1, <2>2, <2>3 DEF MigrationTypeOK
<1>4. NoGaps'
  <2>. SUFFICES ASSUME NEW i \in 1..Len(Releases), NEW w \in Releases[i], w <= v
                PROVE  w \in schemaVersion \cup {v}
    BY DEF NoGaps
  <2>1. w \in Nat BY FilesAreNats
  <2>2. CASE w \in Files
    <3>1. w \in schemaVersion \cup migrating.pending BY <1>2, <2>2 DEF PendingOK
    <3>. QED BY <3>1, <2>1, <1>2 DEF PendingOK
  <2>3. CASE w \notin Files
    <3>1. w > v BY <2>3, <1>2, LaterFiles DEF Files, MigrationTypeOK
    <3>. QED BY <3>1, <2>1, <1>2
  <2>. QED BY <2>2, <2>3
<1>5. PendingOK'
  <2>1. \A w \in migrating.pending : w \in Nat /\ v <= w BY <1>1 DEF PendingOK
  <2>2. \A u \in schemaVersion', w \in migrating'.pending : u < w
    BY <2>1, <1>2 DEF PendingOK, MigrationTypeOK
  <2>. QED BY <1>1, <1>2, <2>2 DEF PendingOK, MigrationTypeOK
<1>6. RanInOrder'
  <2>1. Len(schema') = Len(schema) + 1 /\ schema'[Len(schema) + 1] = v /\ Len(schema) \in Nat
    BY <1>2 DEF MigrationTypeOK
  <2>2. \A i \in 1..Len(schema) : schema'[i] = schema[i] /\ schema[i] \in Nat
    BY <1>2 DEF MigrationTypeOK
  <2>3. \A i \in 1..Len(schema) : schema[i] < v
    BY <1>2 DEF SchemaFollowsVersions, RanInOrder, PendingOK
  <2>4. {schema'[i] : i \in 1..Len(schema')} = schemaVersion'
    BY <2>1, <2>2 DEF SchemaFollowsVersions, RanInOrder
  <2>5. \A i, j \in 1..Len(schema') : i < j => schema'[i] < schema'[j]
    <3>. SUFFICES ASSUME NEW i \in 1..Len(schema'), NEW j \in 1..Len(schema'), i < j
                  PROVE  schema'[i] < schema'[j]
      OBVIOUS
    <3>1. i \in 1..Len(schema) BY <2>1
    <3>2. CASE j = Len(schema) + 1 BY <3>1, <3>2, <2>1, <2>2, <2>3
    <3>3. CASE j \in 1..Len(schema)
      BY <3>1, <3>3, <2>2 DEF SchemaFollowsVersions, RanInOrder
    <3>. QED BY <3>2, <3>3, <2>1
  <2>. QED BY <2>4, <2>5 DEF RanInOrder
<1>7. FullyMigrated' BY <1>2 DEF FullyMigrated, MigrationTypeOK
<1>. QED BY <1>3, <1>4, <1>5, <1>6, <1>7 DEF SchemaFollowsVersions

LEMMA MigratedKeeps == MInv /\ Migrated => MInv'
<1>. SUFFICES ASSUME MInv, Migrated PROVE MInv' OBVIOUS
<1>. USE DEF MInv, Migrated, NotMigrating
<1>1. Files' = Files BY DEF Files
<1>2. MigrationTypeOK' /\ NoGaps' BY DEF MigrationTypeOK, NoGaps
<1>3. PendingOK' BY <1>1 DEF PendingOK
<1>4. SchemaFollowsVersions'
  BY <1>1 DEF SchemaFollowsVersions, RanInOrder, FullyMigrated, PendingOK
<1>. QED BY <1>2, <1>3, <1>4

(* A boot that is over, for whatever reason, and whatever release is next.  *)
LEMMA EndKeeps ==
    ASSUME MInv, UNCHANGED <<schemaVersion, schema>>, release' \in 1..Len(Releases),
           migrating' = NotMigrating \/ migrating' = [NotMigrating EXCEPT !.at = "failed"]
    PROVE  MInv'
<1>. USE DEF MInv, NotMigrating
<1>1. MigrationTypeOK' /\ NoGaps' BY DEF MigrationTypeOK, NoGaps
<1>2. PendingOK' BY DEF PendingOK
<1>3. SchemaFollowsVersions' BY DEF SchemaFollowsVersions, RanInOrder, FullyMigrated
<1>. QED BY <1>1, <1>2, <1>3

LEMMA MigrationKeeps == MInv /\ [MigrationNext]_migrationVars => MInv'
<1>. SUFFICES ASSUME MInv, [MigrationNext]_migrationVars PROVE MInv' OBVIOUS
<1>1. CASE MigrationStep BY <1>1, ReadKeeps, RunFileKeeps, CommitFileKeeps, MigratedKeeps DEF MigrationStep
<1>2. CASE MigrationFails BY <1>2, EndKeeps DEF MigrationFails, MInv, MigrationTypeOK
<1>3. CASE MigrationCrash BY <1>3, EndKeeps DEF MigrationCrash, MInv, MigrationTypeOK
<1>4. CASE Deployed BY <1>4, EndKeeps DEF Deployed
<1>5. CASE UNCHANGED migrationVars
  BY <1>5 DEF migrationVars, MInv, MigrationTypeOK, NoGaps, PendingOK, Files,
              SchemaFollowsVersions, RanInOrder, FullyMigrated
<1>. QED BY <1>1, <1>2, <1>3, <1>4, <1>5 DEF MigrationNext

-----------------------------------------------------------------------------
(* The lenses. *)

Phase == {"idle", "alloc", "write", "run", "read", "free", "trapped", "deferred"}
Call == [at : Phase, stale : BOOLEAN, deferred : {"none", "current", "closed"}]

LensTypeOK ==
    /\ heap \in {"clean", "trapped", "tainted", "closed"}
    /\ lensCalls \in [Callers -> Call]

(* The mutex, from Lock to the deferred unlock. *)
OneCall == \A c, d \in Callers : c # d /\ ~At(c, "idle") => At(d, "idle")

(* Nothing else replaces the module a call holds; after its own trap the     *)
(* call only returns.                                                        *)
CallInv(c) ==
    /\ lensCalls[c].at \in {"alloc", "write", "run", "read", "free"} => ~lensCalls[c].stale
    /\ lensCalls[c].at \in {"write", "run", "read", "free"} => heap # "closed"

(* A heap is known to be trapped only until the call that saw it replaces it.*)
TrappedHasCall == heap = "trapped" => \E c \in Callers : At(c, "trapped")

LInv == LensTypeOK /\ OneCall /\ TrappedHasCall /\ \A c \in Callers : CallInv(c)

LEMMA LensSafe == LInv => CallsHaveALiveModule
<1>. SUFFICES ASSUME LInv PROVE CallsHaveALiveModule OBVIOUS
<1>1. TrappedHeapServesNobody BY DEF LInv, TrappedHasCall, OneCall, At, TrappedHeapServesNobody
<1>2. CallKeepsItsModule BY DEF LInv, CallInv, CallKeepsItsModule, Works
<1>. QED BY <1>1, <1>2 DEF CallsHaveALiveModule

LEMMA LensStarts == LensLoaded => LInv
BY DEF LensLoaded, LInv, LensTypeOK, OneCall, TrappedHasCall, CallInv, NoCalls, NoCall, At, Call, Phase

(* The step of the one goroutine in a call: what it leaves of itself, the    *)
(* others untouched.                                                         *)
LEMMA OneCallSteps ==
    ASSUME LInv, NEW c \in Callers, NEW call \in Call,
           ~At(c, "idle") \/ \A d \in Callers : At(d, "idle"),
           lensCalls' = [lensCalls EXCEPT ![c] = call],
           heap' \in {"clean", "trapped", "tainted", "closed"},
           heap' = "trapped" => call.at = "trapped",
           call.at \in {"alloc", "write", "run", "read", "free"} => ~call.stale,
           call.at \in {"write", "run", "read", "free"} => heap' # "closed"
    PROVE  LInv'
<1>1. lensCalls \in [Callers -> Call] BY DEF LInv, LensTypeOK
<1>2. \A d \in Callers : lensCalls'[d] = IF d = c THEN call ELSE lensCalls[d] BY <1>1
<1>3. \A d \in Callers \ {c} : At(d, "idle") BY DEF LInv, OneCall
<1>4. LensTypeOK' BY <1>1 DEF LensTypeOK
<1>5. OneCall' BY <1>2, <1>3 DEF OneCall, At
<1>6. TrappedHasCall' BY <1>2 DEF TrappedHasCall, At
<1>7. ASSUME NEW d \in Callers PROVE CallInv(d)' BY <1>2, <1>3 DEF CallInv, At
<1>. QED BY <1>4, <1>5, <1>6, <1>7 DEF LInv

LEMMA CallType == LInv => \A c \in Callers : lensCalls[c] \in Call /\ Return(lensCalls[c]) \in Call
                                             /\ Return(lensCalls[c]).at \in {"idle", "deferred"}
BY DEF LInv, LensTypeOK, Return, NoCall, Call, Phase

LEMMA TrapKeeps == ASSUME LInv, NEW c \in Callers, ~At(c, "idle"), Trap(c) PROVE LInv'
<1>. DEFINE call == [lensCalls[c] EXCEPT !.at = "trapped"]
<1>1. lensCalls' = [lensCalls EXCEPT ![c] = call] BY DEF Trap, Move
<1>2. call \in Call /\ call.at = "trapped" BY CallType DEF Call, Phase
<1>3. heap' \in {"clean", "trapped", "tainted", "closed"} BY DEF Trap, LInv, LensTypeOK
<1>. HIDE DEF call
<1>. QED BY <1>1, <1>2, <1>3, OneCallSteps DEF At

LEMMA MoveKeeps ==
    ASSUME LInv, NEW c \in Callers, NEW phase \in {"write", "read", "free"},
           lensCalls[c].at \in {"alloc", "run", "read"}, heap # "closed", Move(c, phase), UNCHANGED heap
    PROVE  LInv'
<1>. DEFINE call == [lensCalls[c] EXCEPT !.at = phase]
<1>1. lensCalls' = [lensCalls EXCEPT ![c] = call] BY DEF Move
<1>2. /\ call \in Call /\ call.at = phase /\ call.stale = lensCalls[c].stale
      /\ ~lensCalls[c].stale
  BY CallType DEF Call, Phase, LInv, CallInv
<1>3. heap' \in {"clean", "trapped", "tainted", "closed"} BY DEF LInv, LensTypeOK
<1>4. heap' # "trapped"
  <2>1. \A d \in Callers : ~At(d, "trapped") BY DEF LInv, OneCall, At
  <2>. QED BY <2>1 DEF LInv, TrappedHasCall
<1>. HIDE DEF call
<1>. QED BY <1>1, <1>2, <1>3, <1>4, OneCallSteps DEF At

LEMMA ReturnKeeps ==
    ASSUME LInv, NEW c \in Callers, ~At(c, "idle"), ~At(c, "trapped"), UNCHANGED heap,
           lensCalls' = [lensCalls EXCEPT ![c] = Return(lensCalls[c])]
    PROVE  LInv'
<1>1. heap' \in {"clean", "trapped", "tainted", "closed"} BY DEF LInv, LensTypeOK
<1>2. heap' # "trapped"
  <2>1. \A d \in Callers : ~At(d, "trapped") BY DEF LInv, OneCall, At
  <2>. QED BY <2>1 DEF LInv, TrappedHasCall
<1>3. Return(lensCalls[c]) \in Call /\ Return(lensCalls[c]).at \in {"idle", "deferred"} BY CallType
<1>. QED BY <1>1, <1>2, <1>3, OneCallSteps

LEMMA WriteKeeps == ASSUME LInv, NEW c \in Callers, Write(c) PROVE LInv'
<1>. DEFINE call == [lensCalls[c] EXCEPT !.at = "run", !.deferred = "current"]
<1>1. CASE lensCalls' = [lensCalls EXCEPT ![c] = call]
  <2>1. /\ call \in Call /\ call.at = "run" /\ call.stale = lensCalls[c].stale
        /\ ~lensCalls[c].stale /\ heap # "closed" /\ ~At(c, "idle")
    BY CallType DEF Call, Phase, LInv, CallInv, Write, At
  <2>2. heap' \in {"clean", "trapped", "tainted", "closed"} BY DEF LInv, LensTypeOK, Write
  <2>3. heap' # "trapped"
    <3>1. \A d \in Callers : ~At(d, "trapped") BY DEF LInv, OneCall, At, Write
    <3>. QED BY <3>1 DEF LInv, TrappedHasCall, Write
  <2>4. heap' # "closed" BY <2>1 DEF Write
  <2>. HIDE DEF call
  <2>. QED BY <1>1, <2>1, <2>2, <2>3, <2>4, OneCallSteps DEF At
<1>2. CASE lensCalls' = [lensCalls EXCEPT ![c] = Return(@)] BY <1>2, ReturnKeeps DEF Write, At
<1>. QED BY <1>1, <1>2 DEF Write

LEMMA ReinstantiateKeeps == ASSUME LInv, NEW c \in Callers, Reinstantiate(c) PROVE LInv'
<1>. DEFINE left(d) == [lensCalls[d] EXCEPT
                !.stale = ~At(d, "idle"), !.deferred = IF @ = "none" THEN @ ELSE "closed"]
<1>0. /\ At(c, "trapped") /\ heap' \in {"clean", "closed"}
      /\ lensCalls' = [d \in Callers |-> IF d = c THEN Return(left(d)) ELSE left(d)]
  BY DEF Reinstantiate
<1>1. \A d \in Callers \ {c} : At(d, "idle") BY <1>0 DEF LInv, OneCall, At
<1>2. \A d \in Callers : left(d) \in Call /\ left(d).at = lensCalls[d].at BY CallType DEF Call, At
<1>3. Return(left(c)) \in Call /\ Return(left(c)).at \in {"idle", "deferred"}
  BY <1>2 DEF Return, NoCall, Call, Phase
<1>. HIDE DEF left
<1>4. \A d \in Callers : lensCalls'[d] = IF d = c THEN Return(left(c)) ELSE left(d) BY <1>0
<1>5. LensTypeOK' BY <1>0, <1>2, <1>3 DEF LensTypeOK
<1>6. \A d \in Callers : d # c => lensCalls'[d].at = "idle" BY <1>1, <1>2, <1>4 DEF At
<1>7. OneCall' BY <1>6 DEF OneCall, At
<1>8. TrappedHasCall' BY <1>0 DEF TrappedHasCall
<1>9. ASSUME NEW d \in Callers PROVE CallInv(d)' BY <1>3, <1>4, <1>6 DEF CallInv
<1>. QED BY <1>5, <1>7, <1>8, <1>9 DEF LInv

LEMMA DeallocKeeps == ASSUME LInv, NEW c \in Callers, DeferredDealloc(c) PROVE LInv'
<1>1. NoCall \in Call /\ NoCall.at = "idle" BY DEF NoCall, Call, Phase
<1>2. heap' \in {"clean", "trapped", "tainted", "closed"} BY DEF LInv, LensTypeOK, DeferredDealloc
<1>3. heap' # "trapped"
  <2>1. \A d \in Callers : ~At(d, "trapped") BY DEF LInv, OneCall, At, DeferredDealloc
  <2>. QED BY <2>1 DEF LInv, TrappedHasCall, DeferredDealloc
<1>. QED BY <1>1, <1>2, <1>3, OneCallSteps DEF DeferredDealloc, At

LEMMA LockKeeps == ASSUME LInv, NEW c \in Callers, Lock(c) PROVE LInv'
<1>. DEFINE call == [NoCall EXCEPT !.at = "alloc"]
<1>1. call \in Call /\ call.at = "alloc" /\ ~call.stale BY DEF NoCall, Call, Phase
<1>2. lensCalls' = [lensCalls EXCEPT ![c] = call] BY DEF Lock
<1>3. heap' \in {"clean", "trapped", "tainted", "closed"} BY DEF LInv, LensTypeOK, Lock
<1>4. heap' # "trapped" BY DEF LInv, TrappedHasCall, Lock, Mutex, At
<1>. HIDE DEF call
<1>. QED BY <1>1, <1>2, <1>3, <1>4, OneCallSteps DEF Lock, Mutex

LEMMA LensStepKeeps == ASSUME LInv, NEW c \in Callers, LensStep(c) PROVE LInv'
<1>1. CASE Alloc(c) BY <1>1, TrapKeeps, MoveKeeps DEF Alloc, At, Works
<1>2. CASE Write(c) BY <1>2, WriteKeeps
<1>3. CASE Run(c) BY <1>3, TrapKeeps, MoveKeeps DEF Run, At, Works
<1>4. CASE ReadResult(c)
  <2>1. heap # "closed" BY <1>4 DEF ReadResult, LInv, CallInv, At
  <2>. QED BY <1>4, <2>1, MoveKeeps, ReturnKeeps DEF ReadResult, At
<1>5. CASE FreeResult(c) BY <1>5, TrapKeeps, ReturnKeeps DEF FreeResult, At
<1>6. CASE Reinstantiate(c) BY <1>6, ReinstantiateKeeps
<1>7. CASE DeferredDealloc(c) BY <1>7, DeallocKeeps
<1>. QED BY <1>1, <1>2, <1>3, <1>4, <1>5, <1>6, <1>7 DEF LensStep

LEMMA LensIdles == LInv /\ UNCHANGED lensVars => LInv'
BY DEF LInv, lensVars, LensTypeOK, OneCall, TrappedHasCall, CallInv, At

-----------------------------------------------------------------------------
(* The process: each of its actions is at most one step of the migrations   *)
(* and one of the lenses, or the process is gone and its lenses with it.     *)

LEMMA GoneKeeps == Gone => LInv'
BY DEF Gone, LInv, LensTypeOK, OneCall, TrappedHasCall, CallInv, NoCalls, NoCall, At, Call, Phase

LEMMA Migrates == [Next]_vars => [MigrationNext]_migrationVars
<1>. SUFFICES ASSUME [Next]_vars PROVE [MigrationNext]_migrationVars OBVIOUS
<1>. USE DEF migrationVars
<1>1. CASE Booting BY <1>1 DEF Booting, MigrationNext
<1>2. CASE BootFails BY <1>2 DEF BootFails, MigrationNext
<1>3. CASE Crash BY <1>3 DEF Crash, MigrationNext
<1>4. CASE Restarts BY <1>4 DEF Restarts, MigrationNext
<1>5. CASE Started \/ Receive \/ Returns BY <1>5 DEF Started, Receive, Returns
<1>6. CASE Follow \/ BackfillReturns BY <1>6 DEF Follow, BackfillReturns
<1>7. ASSUME NEW c \in Callers, UseLens(c) \/ InLens(c) PROVE UNCHANGED migrationVars
  BY <1>7 DEF UseLens, InLens
<1>8. CASE Serve \/ Reports BY <1>8 DEF Serve, Reports
<1>9. CASE SiteEnds \/ ContainerStops BY <1>9 DEF SiteEnds, ContainerStops
<1>10. CASE UNCHANGED vars BY <1>10 DEF vars
<1>. QED BY <1>1, <1>2, <1>3, <1>4, <1>5, <1>6, <1>7, <1>8, <1>9, <1>10 DEF Next

LEMMA ProcessKeepsLenses == LInv /\ [Next]_vars => LInv'
<1>. SUFFICES ASSUME LInv, [Next]_vars PROVE LInv' OBVIOUS
<1>. USE LensIdles
<1>1. CASE Booting \/ BootFails BY <1>1 DEF Booting, BootFails
<1>2. CASE Crash \/ Restarts BY <1>2, GoneKeeps DEF Crash, Restarts
<1>3. CASE Started \/ Receive \/ Returns BY <1>3 DEF Started, Receive, Returns
<1>4. CASE Follow \/ BackfillReturns BY <1>4 DEF Follow, BackfillReturns
<1>5. ASSUME NEW c \in Callers, UseLens(c) PROVE LInv' BY <1>5, LockKeeps DEF UseLens
<1>6. ASSUME NEW c \in Callers, InLens(c) PROVE LInv' BY <1>6, LensStepKeeps DEF InLens
<1>7. CASE Serve \/ Reports BY <1>7 DEF Serve, Reports
<1>8. CASE SiteEnds \/ ContainerStops BY <1>8 DEF SiteEnds, ContainerStops
<1>9. CASE UNCHANGED vars BY <1>9 DEF vars
<1>. QED BY <1>1, <1>2, <1>3, <1>4, <1>5, <1>6, <1>7, <1>8, <1>9 DEF Next

(* Whatever releases are deployed, forward or back, and wherever a boot      *)
(* fails or dies: the database has run exactly the files schema_version      *)
(* names, in their order, and openDB returns only when its release's files   *)
(* have all run (db.go:34-80).                                               *)
THEOREM SchemaIsItsVersions == Spec => []SchemaFollowsVersions
<1>1. Init => MInv BY MigrationStarts DEF Init
<1>2. MInv /\ [Next]_vars => MInv' BY Migrates, MigrationKeeps
<1>3. MInv => SchemaFollowsVersions BY DEF MInv
<1>. QED BY <1>1, <1>2, <1>3, PTL DEF Spec

(* However many goroutines share the lenses and whatever traps, fails or     *)
(* dies: a heap that a call has seen trap serves nobody else until it has    *)
(* been replaced, and no call goes on with a module replaced under it        *)
(* (lens.go:88-137).                                                         *)
THEOREM CallsLive == Spec => []CallsHaveALiveModule
<1>1. Init => LInv BY LensStarts DEF Init
<1>2. LInv /\ [Next]_vars => LInv' BY ProcessKeepsLenses
<1>. QED BY <1>1, <1>2, LensSafe, PTL DEF Spec

-----------------------------------------------------------------------------
(* How run ends.                                                             *)

Errors == {"nil", "error"}
FollowAt == {"off", "loop", "attempt", "sleep", "returned", "reported"}
ServerAt == {"off", "serving", "shutdown", "returned", "reported"}

Containers == [at : {"up", "stopping"}, code : Int, site : BOOLEAN]

ProcessTypeOK ==
    /\ main \in {"boot", "receiving", "receivingLast", "joining", "exited"}
    /\ first \in Errors /\ errs \in Seq(Errors)
    /\ follow \in [at : FollowAt, backoff : Int]
    /\ server \in [at : ServerAt, returns : Errors]
    /\ backfilling \in BOOLEAN
    /\ container \in Containers
    /\ signalled \in BOOLEAN

FollowSent == IF follow.at \in {"off", "reported"} THEN 1 ELSE 0
ServerSent == IF server.at \in {"off", "reported"} THEN 1 ELSE 0
Received == IF main = "receiving" THEN 0 ELSE IF main = "receivingLast" THEN 1 ELSE 2

(* Each of the two goroutines sends one error, and each is received once. A *)
(* process that has not started them counts as one that has joined them.    *)
EachReportsOnce == Received + Len(errs) = FollowSent + ServerSent

(* Backfill is joined before run returns, and the lenses are only used by a *)
(* goroutine that runs.                                                     *)
UsesEndFirst ==
    /\ main \in {"boot", "exited"} => ~backfilling
    /\ Using(ingest) => follow.at = "attempt"
    /\ Using(backfill) => backfilling

ErrorKnown ==
    \/ first = "error"
    \/ \E i \in 1..Len(errs) : errs[i] = "error"
    \/ server.at = "returned" /\ server.returns = "error"

(* A goroutine ends because the process was told to stop, or because of an  *)
(* error that is on its way to run.                                         *)
EndsForAReason ==
    main \in {"receiving", "receivingLast", "joining"} =>
        \/ signalled \/ ErrorKnown
        \/ /\ ~cancelled /\ follow.at \in {"loop", "attempt", "sleep"} /\ server.at = "serving"

BootIsQuiet ==
    main = "boot" =>
        first = "nil" /\ request = "none" /\ ~cancelled /\ follow.at = "off" /\ server.at = "off"
OpenRequestIsServed == request = "open" => server.at \in {"serving", "shutdown"} \/ ErrorKnown
ToldOnlyByContainer == signalled => container.at = "stopping"

PInv ==
    /\ ProcessTypeOK /\ EachReportsOnce /\ UsesEndFirst /\ EndsForAReason
    /\ BootIsQuiet /\ OpenRequestIsServed /\ ToldOnlyByContainer /\ ExitTellsWhy

LEMMA ExitIsQuiet == PInv => NothingOutlivesTheDatabase
<1>. SUFFICES ASSUME PInv, main = "exited" PROVE NothingOutlivesTheDatabase
  BY DEF NothingOutlivesTheDatabase
<1>1. Len(errs) = 0 /\ FollowSent = 1 /\ ServerSent = 1
  BY DEF PInv, ProcessTypeOK, EachReportsOnce, Received, FollowSent, ServerSent
<1>2. follow.at \in {"off", "reported"} /\ server.at \in {"off", "reported"}
  BY <1>1 DEF FollowSent, ServerSent
<1>3. ~backfilling /\ \A c \in Callers : ~Using(c)
  BY <1>2, ProcessAssumption DEF PInv, UsesEndFirst
<1>4. request = "open" => first = "error" BY <1>1, <1>2 DEF PInv, OpenRequestIsServed, ErrorKnown
<1>. QED BY <1>2, <1>3, <1>4 DEF NothingOutlivesTheDatabase

LEMMA NothingSent == <<>> \in Seq(Errors)
OBVIOUS

LEMMA ContainerTypes ==
    /\ Site \in Containers /\ Site.at = "up"
    /\ \A c \in Containers : LET ended == [c EXCEPT !.site = FALSE]
                            IN  ended \in Containers /\ ended.at = c.at
<1>1. ASSUME NEW b \in BOOLEAN
      PROVE  /\ [at |-> "up", code |-> 0, site |-> b] \in Containers
             /\ [at |-> "up", code |-> 0, site |-> b].at = "up"
             /\ \A c \in Containers : /\ [c EXCEPT !.site = b] \in Containers
                                     /\ [c EXCEPT !.site = b].at = c.at
  BY DEF Containers
<1>. QED BY <1>1, Zenon DEF Site

LEMMA StoppingTypes ==
    \A c \in Containers, n \in Int : /\ [c EXCEPT !.at = "stopping", !.code = n] \in Containers
                                   /\ [c EXCEPT !.at = "stopping", !.code = n].at = "stopping"
BY DEF Containers

LEMMA ProcessStarts == Init => PInv
<1>. SUFFICES ASSUME Init PROVE PInv OBVIOUS
<1>. USE DEF Init, NoFollow, NoServer
<1>1. ProcessTypeOK
  <2>1. errs \in Seq(Errors) BY NothingSent
  <2>2. main \in {"boot", "receiving", "receivingLast", "joining", "exited"} /\ first \in Errors
    BY DEF Errors
  <2>3. follow \in [at : FollowAt, backoff : Int] BY DEF FollowAt
  <2>4. server \in [at : ServerAt, returns : Errors] BY DEF ServerAt, Errors
  <2>5. backfilling \in BOOLEAN /\ signalled \in BOOLEAN OBVIOUS
  <2>6. container \in Containers BY ContainerTypes
  <2>. QED BY <2>1, <2>2, <2>3, <2>4, <2>5, <2>6 DEF ProcessTypeOK
<1>2. EachReportsOnce BY DEF EachReportsOnce, Received, FollowSent, ServerSent
<1>3. UsesEndFirst BY ProcessAssumption DEF UsesEndFirst, Using, LensLoaded, NoCalls, NoCall, At
<1>. QED BY <1>1, <1>2, <1>3
        DEF PInv, EndsForAReason, BootIsQuiet, OpenRequestIsServed, ToldOnlyByContainer, ExitTellsWhy

(* The process is gone; what follows it is a boot or nothing.               *)
LEMMA GoneIsQuiet ==
    ASSUME PInv, Gone, main' \in {"boot", "exited"}, container' \in {container, Site},
           main' = "exited" => exitCode' = Died,
           signalled' \in BOOLEAN, signalled' => container'.at = "stopping"
    PROVE  PInv'
<1>. USE ContainerTypes DEF Gone, NoFollow, NoServer, Died
<1>1. ProcessTypeOK'
  <2>1. errs' \in Seq(Errors) BY NothingSent
  <2>2. main' \in {"boot", "receiving", "receivingLast", "joining", "exited"} /\ first' \in Errors
    BY DEF Errors
  <2>3. follow' \in [at : FollowAt, backoff : Int] BY DEF FollowAt
  <2>4. server' \in [at : ServerAt, returns : Errors] BY DEF ServerAt, Errors
  <2>5. backfilling' \in BOOLEAN /\ signalled' \in BOOLEAN OBVIOUS
  <2>6. container' \in Containers BY ContainerTypes DEF PInv, ProcessTypeOK
  <2>. QED BY <2>1, <2>2, <2>3, <2>4, <2>5, <2>6 DEF ProcessTypeOK
<1>2. EachReportsOnce' BY DEF EachReportsOnce, Received, FollowSent, ServerSent
<1>3. UsesEndFirst' BY ProcessAssumption DEF UsesEndFirst, Using, NoCalls, NoCall, At
<1>. QED BY <1>1, <1>2, <1>3
        DEF PInv, EndsForAReason, BootIsQuiet, OpenRequestIsServed, ToldOnlyByContainer, ExitTellsWhy

LEMMA StartedKeeps == PInv /\ Started => PInv'
<1>. SUFFICES ASSUME PInv, Started PROVE PInv' OBVIOUS
<1>. USE DEF Started, PInv, channels, outside, lensVars, NoServer
<1>1. ProcessTypeOK' BY ProcessAssumption DEF ProcessTypeOK, Errors, FollowAt, ServerAt
<1>2. Len(errs) = 0 BY DEF ProcessTypeOK, EachReportsOnce, Received, FollowSent, ServerSent
<1>3. EachReportsOnce' BY <1>2 DEF EachReportsOnce, Received, FollowSent, ServerSent
<1>4. \A c \in Callers : ~Using(c)
  <2>1. Using(ingest) => FollowSent = 0 BY DEF UsesEndFirst, FollowSent
  <2>2. FollowSent = 1 BY <1>2 DEF EachReportsOnce, Received, FollowSent, ServerSent
  <2>. QED BY <2>1, <2>2, ProcessAssumption DEF UsesEndFirst
<1>5. UsesEndFirst' BY <1>4, ProcessAssumption DEF UsesEndFirst, Using, At
<1>6. EndsForAReason' BY DEF EndsForAReason, BootIsQuiet
<1>7. OpenRequestIsServed' BY DEF OpenRequestIsServed, BootIsQuiet
<1>. QED BY <1>1, <1>3, <1>5, <1>6, <1>7 DEF BootIsQuiet, ToldOnlyByContainer, ExitTellsWhy

LEMMA BootFailsKeeps == PInv /\ BootFails => PInv'
<1>. SUFFICES ASSUME PInv, BootFails PROVE PInv' OBVIOUS
<1>1. /\ main = "boot" /\ main' = "exited" /\ (exitCode' = 1 \/ (signalled /\ exitCode' = 0))
      /\ UNCHANGED <<first, errs, cancelled, follow, server, backfilling, request, signalled, container, lensCalls>>
  BY DEF BootFails, Exit, goroutines, followVars, serverVars, channels, outside, lensVars
<1>2. ProcessTypeOK' BY <1>1 DEF PInv, ProcessTypeOK
<1>3. EachReportsOnce' BY <1>1 DEF PInv, EachReportsOnce, Received, FollowSent, ServerSent
<1>4. UsesEndFirst' BY <1>1 DEF PInv, UsesEndFirst, Using, At
<1>5. OpenRequestIsServed' BY <1>1 DEF PInv, BootIsQuiet, OpenRequestIsServed
<1>6. ExitTellsWhy' BY <1>1 DEF PInv, BootIsQuiet, ExitTellsWhy
<1>. QED BY <1>1, <1>2, <1>3, <1>4, <1>5, <1>6 DEF PInv, EndsForAReason, BootIsQuiet, ToldOnlyByContainer

LEMMA ReceiveKeeps == PInv /\ Receive => PInv'
<1>. SUFFICES ASSUME PInv, Receive PROVE PInv' OBVIOUS
<1>1. /\ errs # <<>> /\ errs' = Tail(errs) /\ first' = IF first = "nil" THEN Head(errs) ELSE first
      /\ \/ main = "receiving" /\ main' = "receivingLast"
         \/ main = "receivingLast" /\ main' = "joining"
      /\ UNCHANGED <<cancelled, follow, server, backfilling, request, signalled, container, lensCalls>>
  BY DEF Receive, KeepFirst, followVars, serverVars, outside, lensVars
<1>2. errs \in Seq(Errors) /\ first \in Errors BY DEF PInv, ProcessTypeOK
<1>3. /\ Len(errs) \in Nat \ {0} /\ Len(errs') = Len(errs) - 1 /\ Head(errs) = errs[1]
      /\ \A i \in 1..Len(errs') : errs'[i] = errs[i + 1]
  BY <1>1, <1>2
<1>4. ProcessTypeOK' BY <1>1, <1>2 DEF PInv, ProcessTypeOK
<1>5. EachReportsOnce' BY <1>1, <1>3 DEF PInv, EachReportsOnce, Received, FollowSent, ServerSent
<1>6. UsesEndFirst' BY <1>1 DEF PInv, UsesEndFirst, Using, At
<1>7. ErrorKnown => ErrorKnown'
  <2>1. CASE first = "error" BY <1>1, <2>1 DEF ErrorKnown
  <2>2. ASSUME first # "error", NEW i \in 1..Len(errs), errs[i] = "error" PROVE ErrorKnown'
    <3>1. CASE i = 1 BY <1>1, <1>2, <1>3, <2>2, <3>1 DEF ErrorKnown, Errors
    <3>2. CASE i # 1
      <4>1. i - 1 \in 1..Len(errs') /\ errs'[i - 1] = "error" BY <1>3, <2>2, <3>2
      <4>. QED BY <4>1 DEF ErrorKnown
    <3>. QED BY <3>1, <3>2
  <2>3. CASE server.at = "returned" /\ server.returns = "error" BY <1>1, <2>3 DEF ErrorKnown
  <2>. QED BY <2>1, <2>2, <2>3 DEF ErrorKnown
<1>8. EndsForAReason' BY <1>1, <1>7 DEF PInv, EndsForAReason
<1>9. OpenRequestIsServed' BY <1>1, <1>7 DEF PInv, OpenRequestIsServed
<1>. QED BY <1>1, <1>4, <1>5, <1>6, <1>8, <1>9 DEF PInv, BootIsQuiet, ToldOnlyByContainer, ExitTellsWhy

LEMMA ReturnsKeeps == PInv /\ Returns => PInv'
<1>. SUFFICES ASSUME PInv, Returns PROVE PInv' OBVIOUS
<1>1. /\ main = "joining" /\ ~backfilling /\ main' = "exited" /\ exitCode' = IF first = "nil" THEN 0 ELSE 1
      /\ UNCHANGED <<first, errs, cancelled, follow, server, backfilling, request, signalled, container, lensCalls>>
  BY DEF Returns, Joined, Exit, goroutines, followVars, serverVars, channels, outside, lensVars
<1>2. ProcessTypeOK' BY <1>1 DEF PInv, ProcessTypeOK
<1>3. EachReportsOnce' BY <1>1 DEF PInv, EachReportsOnce, Received, FollowSent, ServerSent
<1>4. UsesEndFirst' BY <1>1 DEF PInv, UsesEndFirst, Using, At
<1>5. OpenRequestIsServed' BY <1>1 DEF PInv, OpenRequestIsServed, ErrorKnown
<1>6. ExitTellsWhy'
  <2>1. Len(errs) = 0 /\ FollowSent = 1 /\ ServerSent = 1
    BY <1>1 DEF PInv, ProcessTypeOK, EachReportsOnce, Received, FollowSent, ServerSent
  <2>2. signalled \/ first = "error"
    BY <1>1, <2>1 DEF PInv, EndsForAReason, ErrorKnown, FollowSent, ServerSent
  <2>. QED BY <1>1, <2>2 DEF ExitTellsWhy
<1>. QED BY <1>1, <1>2, <1>3, <1>4, <1>5, <1>6 DEF PInv, EndsForAReason, BootIsQuiet, ToldOnlyByContainer

(* followJetstream goes on while nobody told it to stop, and returns when   *)
(* somebody has.                                                            *)
LEMMA FollowKeeps == PInv /\ Follow => PInv'
<1>. SUFFICES ASSUME PInv, Follow PROVE PInv' OBVIOUS
<1>1. UNCHANGED <<main, first, exitCode, errs, cancelled, server, backfilling, request, signalled, container, lensCalls>>
  BY DEF Follow, mainVars, serverVars, channels, outside, lensVars
<1>2. /\ follow.at \in {"loop", "attempt", "sleep"} /\ follow' \in [at : FollowAt, backoff : Int]
      /\ \/ follow'.at \in {"loop", "attempt", "sleep"}
         \/ follow'.at = "returned" /\ Done
      /\ Using(ingest) => follow'.at = "attempt"
  <2>1. follow \in [at : FollowAt, backoff : Int] /\ (Using(ingest) => follow.at = "attempt")
    BY DEF PInv, ProcessTypeOK, UsesEndFirst
  <2>2. CASE AttemptStarts BY <2>1, <2>2 DEF AttemptStarts, FollowAt
  <2>3. CASE AttemptEnds BY <2>1, <2>3, ProcessAssumption DEF AttemptEnds, Backoff, FollowAt
  <2>4. CASE Slept BY <2>1, <2>4, ProcessAssumption DEF Slept, FollowAt
  <2>5. CASE FollowReturns BY <2>1, <2>5 DEF FollowReturns, FollowAt
  <2>. QED BY <2>2, <2>3, <2>4, <2>5 DEF Follow
<1>3. ProcessTypeOK' BY <1>1, <1>2 DEF PInv, ProcessTypeOK
<1>4. EachReportsOnce' BY <1>1, <1>2 DEF PInv, EachReportsOnce, Received, FollowSent, ServerSent
<1>5. UsesEndFirst' BY <1>1, <1>2 DEF PInv, UsesEndFirst, Using, At
<1>6. ErrorKnown' = ErrorKnown BY <1>1 DEF ErrorKnown
<1>7. EndsForAReason' BY <1>1, <1>2, <1>6 DEF PInv, EndsForAReason, Done
<1>8. OpenRequestIsServed' BY <1>1, <1>6 DEF PInv, OpenRequestIsServed
<1>. QED BY <1>1, <1>2, <1>3, <1>4, <1>5, <1>7, <1>8 DEF PInv, BootIsQuiet, ToldOnlyByContainer, ExitTellsWhy

LEMMA ServeKeeps == PInv /\ Serve => PInv'
<1>. SUFFICES ASSUME PInv, Serve PROVE PInv' OBVIOUS
<1>1. UNCHANGED <<main, first, exitCode, errs, cancelled, follow, backfilling, signalled, container, lensCalls>>
  BY DEF Serve, mainVars, followVars, channels, outside, lensVars
<1>2. server \in [at : ServerAt, returns : Errors] BY DEF PInv, ProcessTypeOK
<1>3. /\ server' \in [at : ServerAt, returns : Errors]
      /\ \/ UNCHANGED server
         \/ server.at \in {"serving", "shutdown"} /\ server'.at \in {"shutdown", "returned"}
  <2>1. CASE ListenerFails BY <1>2, <2>1 DEF ListenerFails, ServerAt, Errors
  <2>2. CASE StopsServing BY <1>2, <2>2 DEF StopsServing, ServerAt
  <2>3. CASE ShutsDown BY <1>2, <2>3 DEF ShutsDown, ServerAt
  <2>4. CASE Requested \/ Answered BY <1>2, <2>4 DEF Requested, Answered
  <2>. QED BY <2>1, <2>2, <2>3, <2>4 DEF Serve
<1>4. ErrorKnown => ErrorKnown' BY <1>1, <1>3 DEF ErrorKnown
<1>5. EndsForAReason' /\ OpenRequestIsServed'
  <2>1. CASE ListenerFails
    <3>1. server'.at = "returned" /\ server'.returns = "error" BY <2>1 DEF ListenerFails
    <3>2. ErrorKnown' BY <3>1 DEF ErrorKnown
    <3>. QED BY <3>2 DEF EndsForAReason, OpenRequestIsServed
  <2>2. CASE StopsServing
    <3>1. Done /\ server'.at = "shutdown" BY <1>2, <2>2 DEF StopsServing, ServerAt
    <3>. QED BY <1>1, <1>4, <3>1 DEF PInv, EndsForAReason, OpenRequestIsServed, Done
  <2>3. CASE ShutsDown
    BY <1>1, <1>4, <2>3 DEF ShutsDown, PInv, EndsForAReason, OpenRequestIsServed
  <2>4. CASE Requested \/ Answered
    BY <1>1, <1>4, <2>4 DEF Requested, Answered, PInv, EndsForAReason, OpenRequestIsServed
  <2>. QED BY <2>1, <2>2, <2>3, <2>4 DEF Serve
<1>6. ProcessTypeOK' BY <1>1, <1>3 DEF PInv, ProcessTypeOK
<1>7. EachReportsOnce'
  <2>1. ServerSent' = ServerSent BY <1>3 DEF ServerSent
  <2>2. Received' = Received /\ FollowSent' = FollowSent BY <1>1 DEF Received, FollowSent
  <2>. QED BY <1>1, <2>1, <2>2 DEF PInv, EachReportsOnce
<1>8. UsesEndFirst' BY <1>1 DEF PInv, UsesEndFirst, Using, At
<1>9. BootIsQuiet'
  BY <1>1 DEF PInv, BootIsQuiet, Serve, ListenerFails, StopsServing, ShutsDown, Requested, Answered
<1>. QED BY <1>1, <1>5, <1>6, <1>7, <1>8, <1>9 DEF PInv, ToldOnlyByContainer, ExitTellsWhy

LEMMA BackfillReturnsKeeps == PInv /\ BackfillReturns => PInv'
<1>. SUFFICES ASSUME PInv, BackfillReturns PROVE PInv' OBVIOUS
<1>1. /\ ~Using(backfill) /\ backfilling' = FALSE
      /\ UNCHANGED <<main, first, exitCode, errs, cancelled, follow, server, request, signalled, container, lensCalls>>
  BY DEF BackfillReturns, mainVars, followVars, serverVars, channels, outside, lensVars
<1>2. ProcessTypeOK' BY <1>1 DEF PInv, ProcessTypeOK
<1>3. EachReportsOnce' BY <1>1 DEF PInv, EachReportsOnce, Received, FollowSent, ServerSent
<1>4. UsesEndFirst' BY <1>1 DEF PInv, UsesEndFirst, Using, At
<1>5. ErrorKnown' = ErrorKnown BY <1>1 DEF ErrorKnown
<1>. QED BY <1>1, <1>2, <1>3, <1>4, <1>5
        DEF PInv, EndsForAReason, OpenRequestIsServed, BootIsQuiet, ToldOnlyByContainer, ExitTellsWhy

LEMMA ReportsKeep == PInv /\ Reports => PInv'
<1>. SUFFICES ASSUME PInv, Reports PROVE PInv' OBVIOUS
<1>1. UNCHANGED <<main, first, exitCode, backfilling, request, signalled, container, lensCalls>>
  BY DEF Reports, mainVars, outside, lensVars
<1>2. /\ follow \in [at : FollowAt, backoff : Int] /\ server \in [at : ServerAt, returns : Errors]
      /\ errs \in Seq(Errors) /\ main = main'
  BY <1>1 DEF PInv, ProcessTypeOK
<1>3. /\ follow' \in [at : FollowAt, backoff : Int] /\ server' \in [at : ServerAt, returns : Errors]
      /\ errs' \in Seq(Errors)
  <2>1. CASE FollowReports BY <1>2, <2>1 DEF FollowReports, FollowAt, Errors
  <2>2. CASE ServeReports BY <1>2, <2>2 DEF ServeReports, ServerAt, Errors
  <2>3. CASE Cancels BY <1>2, <2>3 DEF Cancels, NoFollow, NoServer, FollowAt, ServerAt, Errors
  <2>. QED BY <2>1, <2>2, <2>3 DEF Reports
<1>4. ErrorKnown => ErrorKnown'
  <2>1. CASE FollowReports BY <1>1, <1>2, <2>1 DEF FollowReports, ErrorKnown, Errors
  <2>2. CASE ServeReports
    <3>1. /\ errs' = Append(errs, server.returns) /\ server.returns \in Errors BY <1>2, <2>2 DEF ServeReports
    <3>2. /\ Len(errs) \in Nat /\ Len(errs') = Len(errs) + 1 /\ errs'[Len(errs) + 1] = server.returns
          /\ \A i \in 1..Len(errs) : errs'[i] = errs[i]
      BY <1>2, <3>1
    <3>3. server.returns = "error" => ErrorKnown' BY <3>2 DEF ErrorKnown
    <3>. QED BY <1>1, <3>2, <3>3 DEF ErrorKnown
  <2>3. CASE Cancels BY <1>1, <1>2, <2>3 DEF Cancels, ErrorKnown
  <2>. QED BY <2>1, <2>2, <2>3 DEF Reports
<1>5. /\ follow.at \in {"returned", "reported"} \/ server.at \in {"returned", "reported"}
      /\ follow.at \in {"loop", "attempt", "sleep"} => follow' = follow
      /\ server.at \in {"serving", "shutdown"} => server' = server
  BY DEF Reports, FollowReports, ServeReports, Cancels
<1>6. ProcessTypeOK' BY <1>1, <1>3 DEF PInv, ProcessTypeOK
<1>7. EachReportsOnce'
  <2>. USE DEF EachReportsOnce, Received, FollowSent, ServerSent
  <2>1. EachReportsOnce /\ Len(errs) \in Nat BY <1>2 DEF PInv
  <2>2. CASE FollowReports
    <3>1. Len(errs') = Len(errs) + 1 /\ follow.at = "returned" /\ follow'.at = "reported" /\ server' = server
      BY <1>2, <2>2 DEF FollowReports, Errors
    <3>. QED BY <1>1, <2>1, <3>1
  <2>3. CASE ServeReports
    <3>1. Len(errs') = Len(errs) + 1 /\ server.at = "returned" /\ server'.at = "reported" /\ follow' = follow
      BY <1>2, <2>3 DEF ServeReports
    <3>. QED BY <1>1, <2>1, <3>1
  <2>4. CASE Cancels BY <1>1, <2>1, <2>4 DEF Cancels, NoFollow, NoServer
  <2>. QED BY <2>2, <2>3, <2>4 DEF Reports
<1>8. UsesEndFirst' BY <1>1, <1>5 DEF PInv, UsesEndFirst, Using, At
<1>9. EndsForAReason' BY <1>1, <1>4, <1>5 DEF PInv, EndsForAReason
<1>10. OpenRequestIsServed' BY <1>1, <1>4, <1>5 DEF PInv, OpenRequestIsServed
<1>11. BootIsQuiet' BY <1>1, <1>5 DEF PInv, BootIsQuiet
<1>. QED BY <1>1, <1>6, <1>7, <1>8, <1>9, <1>10, <1>11 DEF PInv, ToldOnlyByContainer, ExitTellsWhy

LEMMA ContainerKeeps == PInv /\ (SiteEnds \/ ContainerStops) => PInv'
<1>. SUFFICES ASSUME PInv, SiteEnds \/ ContainerStops PROVE PInv' OBVIOUS
<1>1. UNCHANGED <<main, first, exitCode, errs, cancelled, follow, server, backfilling, request, lensCalls>>
  BY DEF SiteEnds, ContainerStops, mainVars, goroutines, followVars, serverVars, channels, lensVars
<1>2. container \in Containers BY DEF PInv, ProcessTypeOK
<1>3. /\ container' \in Containers /\ signalled' \in BOOLEAN
      /\ signalled' => container'.at = "stopping"
      /\ main # "exited" /\ signalled => signalled'
  <2>1. CASE SiteEnds
    <3>1. container' \in Containers /\ container'.at = container.at /\ signalled' = signalled
      BY <1>2, <2>1, ContainerTypes DEF SiteEnds
    <3>. QED BY <3>1 DEF PInv, ProcessTypeOK, ToldOnlyByContainer
  <2>2. CASE ContainerStops
    <3>1. container' \in Containers /\ container'.at = "stopping"
      <4>1. PICK n \in Int : container' = [container EXCEPT !.at = "stopping", !.code = n]
        <5>1. 1 \in Int /\ 143 \in Int OBVIOUS
        <5>. QED BY <2>2, <5>1, Zenon DEF ContainerStops
      <4>. QED BY <1>2, <4>1, StoppingTypes
    <3>2. signalled' = (main # "exited") /\ container.at = "up" BY <2>2 DEF ContainerStops
    <3>. QED BY <3>1, <3>2 DEF PInv, ToldOnlyByContainer
  <2>. QED BY <2>1, <2>2
<1>4. ProcessTypeOK' BY <1>1, <1>3 DEF PInv, ProcessTypeOK
<1>5. EachReportsOnce' BY <1>1 DEF PInv, EachReportsOnce, Received, FollowSent, ServerSent
<1>6. UsesEndFirst' BY <1>1 DEF PInv, UsesEndFirst, Using, At
<1>7. ErrorKnown' = ErrorKnown BY <1>1 DEF ErrorKnown
<1>8. EndsForAReason' BY <1>1, <1>3, <1>7 DEF PInv, EndsForAReason
<1>9. ExitTellsWhy'
  <2>1. CASE SiteEnds BY <1>1, <2>1 DEF SiteEnds, PInv, ExitTellsWhy
  <2>2. CASE ContainerStops BY <1>1, <2>2 DEF ContainerStops, PInv, ExitTellsWhy, ToldOnlyByContainer
  <2>. QED BY <2>1, <2>2
<1>. QED BY <1>1, <1>3, <1>4, <1>5, <1>6, <1>7, <1>8, <1>9
        DEF PInv, OpenRequestIsServed, BootIsQuiet, ToldOnlyByContainer

(* A step in a lens call is one of a goroutine that was in it before.       *)
LEMMA StepStartsNoCall ==
    ASSUME LInv, NEW c \in Callers, LensStep(c), NEW d \in Callers, Using(d)'
    PROVE  Using(d)
<1>1. lensCalls \in [Callers -> Call] BY DEF LInv, LensTypeOK
<1>2. Using(c)
  BY DEF LensStep, Alloc, Write, Run, ReadResult, FreeResult, Reinstantiate, DeferredDealloc, Using, At
<1>3. CASE d = c BY <1>2, <1>3
<1>4. CASE d # c
  <2>1. lensCalls'[d].at = lensCalls[d].at
    <3>1. CASE Reinstantiate(c)
      BY <1>1, <1>4, <3>1 DEF Reinstantiate, Call
    <3>2. CASE Alloc(c) BY <1>1, <1>4, <3>2 DEF Alloc, Trap, Move
    <3>3. CASE Write(c) BY <1>1, <1>4, <3>3 DEF Write
    <3>4. CASE Run(c) BY <1>1, <1>4, <3>4 DEF Run, Trap, Move
    <3>5. CASE ReadResult(c) BY <1>1, <1>4, <3>5 DEF ReadResult, Move
    <3>6. CASE FreeResult(c) BY <1>1, <1>4, <3>6 DEF FreeResult, Trap, Move
    <3>7. CASE DeferredDealloc(c) BY <1>1, <1>4, <3>7 DEF DeferredDealloc
    <3>. QED BY <3>1, <3>2, <3>3, <3>4, <3>5, <3>6, <3>7 DEF LensStep
  <2>. QED BY <2>1 DEF Using, At
<1>. QED BY <1>3, <1>4

(* What run's end depends on of a goroutine's use of the lenses.            *)
LEMMA LensesLeaveTheProcess ==
    ASSUME PInv, LInv, NEW c \in Callers, UseLens(c) \/ InLens(c)
    PROVE  PInv'
<1>1. UNCHANGED <<main, first, exitCode, errs, cancelled, follow, server, backfilling, request, signalled, container>>
  BY DEF UseLens, InLens, processVars, mainVars, goroutines, followVars, serverVars, channels, outside
<1>2. UsesEndFirst'
  <2>1. CASE InLens(c) BY <1>1, <2>1, StepStartsNoCall, ProcessAssumption DEF InLens, PInv, UsesEndFirst
  <2>2. CASE UseLens(c)
    <3>1. ASSUME NEW d \in Callers, d # c, Using(d)' PROVE Using(d)
      BY <2>2, <3>1 DEF UseLens, Lock, LInv, LensTypeOK, Using, At
    <3>. QED BY <1>1, <2>2, <3>1, ProcessAssumption DEF UseLens, PInv, UsesEndFirst
  <2>. QED BY <2>1, <2>2
<1>3. EachReportsOnce' BY <1>1 DEF PInv, EachReportsOnce, Received, FollowSent, ServerSent
<1>4. ErrorKnown' = ErrorKnown BY <1>1 DEF ErrorKnown
<1>. QED BY <1>1, <1>2, <1>3, <1>4
        DEF PInv, ProcessTypeOK, EndsForAReason, OpenRequestIsServed, BootIsQuiet, ToldOnlyByContainer, ExitTellsWhy

LEMMA ProcessKeeps == PInv /\ LInv /\ [Next]_vars => PInv'
<1>. SUFFICES ASSUME PInv, LInv, [Next]_vars PROVE PInv' OBVIOUS
<1>1. ASSUME UNCHANGED <<processVars, lensVars>> PROVE PInv'
  <2>1. UNCHANGED <<main, first, exitCode, errs, cancelled, follow, server, backfilling, request, signalled, container, lensCalls>>
    BY <1>1 DEF processVars, mainVars, goroutines, followVars, serverVars, channels, outside, lensVars
  <2>2. EachReportsOnce' /\ UsesEndFirst'
    BY <2>1 DEF PInv, EachReportsOnce, Received, FollowSent, ServerSent, UsesEndFirst, Using, At
  <2>3. ErrorKnown' = ErrorKnown BY <2>1 DEF ErrorKnown
  <2>. QED BY <2>1, <2>2, <2>3
          DEF PInv, ProcessTypeOK, EndsForAReason, OpenRequestIsServed, BootIsQuiet, ToldOnlyByContainer, ExitTellsWhy
<1>2. CASE Booting BY <1>1, <1>2 DEF Booting
<1>3. CASE BootFails \/ Started BY <1>3, BootFailsKeeps, StartedKeeps
<1>4. CASE Receive \/ Returns BY <1>4, ReceiveKeeps, ReturnsKeeps
<1>5. CASE Follow \/ BackfillReturns BY <1>5, FollowKeeps, BackfillReturnsKeeps
<1>6. ASSUME NEW c \in Callers, UseLens(c) \/ InLens(c) PROVE PInv' BY <1>6, LensesLeaveTheProcess
<1>7. CASE Serve \/ Reports BY <1>7, ServeKeeps, ReportsKeep
<1>8. CASE Crash
  <2>1. UNCHANGED <<signalled, container>> BY <1>8 DEF Crash, outside
  <2>. QED BY <1>8, <2>1, GoneIsQuiet DEF Crash, Exit, PInv, ProcessTypeOK, ToldOnlyByContainer
<1>9. CASE SiteEnds \/ ContainerStops BY <1>9, ContainerKeeps
<1>10. CASE Restarts BY <1>10, GoneIsQuiet DEF Restarts
<1>11. CASE UNCHANGED vars BY <1>1, <1>11 DEF vars
<1>. QED BY <1>2, <1>3, <1>4, <1>5, <1>6, <1>7, <1>8, <1>9, <1>10, <1>11 DEF Next

(* run's end, however its goroutines, a signal and a failing listener        *)
(* interleave: when it has returned, and closed the lenses and the database, *)
(* nothing of the process uses either but a request that the end of the      *)
(* listener or of the five seconds left behind (main.go:92-110).             *)
THEOREM RunLeavesNothing == Spec => []NothingOutlivesTheDatabase
<1>1. Init => PInv /\ LInv BY ProcessStarts, LensStarts DEF Init
<1>2. PInv /\ LInv /\ [Next]_vars => (PInv /\ LInv)' BY ProcessKeeps, ProcessKeepsLenses
<1>3. PInv /\ LInv => NothingOutlivesTheDatabase BY ExitIsQuiet
<1>. QED BY <1>1, <1>2, <1>3, PTL DEF Spec

(* isnot exits 0 only if it was told to stop and no goroutine failed: the    *)
(* error that made the others end is never lost among their nils             *)
(* (main.go:92-110).                                                         *)
THEOREM ExitCodeTellsWhy == Spec => []ExitTellsWhy
<1>1. Init => PInv /\ LInv BY ProcessStarts, LensStarts DEF Init
<1>2. PInv /\ LInv /\ [Next]_vars => (PInv /\ LInv)' BY ProcessKeeps, ProcessKeepsLenses
<1>3. PInv /\ LInv => ExitTellsWhy BY DEF PInv
<1>. QED BY <1>1, <1>2, <1>3, PTL DEF Spec

-----------------------------------------------------------------------------
(* The backoff. *)

LEMMA DoubledDef ==
    /\ Doubled \in [0..MaxStreak -> Nat] /\ Doubled[0] = InitialBackoff
    /\ \A n \in 1..MaxStreak : Doubled[n] = 2 * Doubled[n - 1]
<1>. DEFINE step == [n \in 1..MaxStreak |-> [a \in Nat |-> 2 * a]]
            Defines(h) == h = [n \in 0..MaxStreak |-> IF n = 0 THEN InitialBackoff ELSE 2 * h[n - 1]]
<1>1. MaxStreak \in Nat /\ InitialBackoff \in Nat BY ProcessAssumption
<1>2. PICK f \in [0..MaxStreak -> Nat] : Follows(f, MaxStreak, InitialBackoff, step)
  <2>1. step \in [1..MaxStreak -> [Nat -> Nat]] OBVIOUS
  <2>. HIDE DEF step
  <2>. QED BY <1>1, <2>1, RecursionExists
<1>3. f[0] = InitialBackoff /\ \A n \in 1..MaxStreak : f[n] = 2 * f[n - 1]
  <2>1. \A n \in 1..MaxStreak : f[n - 1] \in Nat BY <1>1
  <2>. QED BY <1>2, <2>1 DEF Follows
<1>4. Defines(f)
  <2>1. \A n \in 0..MaxStreak : n = 0 \/ n \in 1..MaxStreak BY <1>1
  <2>. QED BY <1>3, <2>1
<1>5. Defines(Doubled) BY <1>4, Zenon DEF Doubled
<1>6. \A n \in 0..MaxStreak : Doubled[n] = f[n]
  <2>. DEFINE P == {n \in 0..MaxStreak : Doubled[n] = f[n]}
  <2>1. 0 \in P BY <1>1, <1>3, <1>5
  <2>2. ASSUME NEW n \in 1..MaxStreak, n - 1 \in P PROVE n \in P
    <3>1. n \in 0..MaxStreak /\ n # 0 BY <1>1
    <3>. QED BY <1>3, <1>5, <2>2, <3>1
  <2>. HIDE DEF P
  <2>3. \A n \in 0..MaxStreak : n \in P BY <1>1, <2>1, <2>2, UpTo
  <2>. QED BY <2>3 DEF P
<1>7. Doubled = f BY <1>5, <1>6
<1>. QED BY <1>3, <1>7

(* What the n-th sleep of a streak is due; from MaxStreak on, the cap.     *)
Due(n) ==
    IF n > MaxStreak \/ Doubled[n - 1] > MaxBackoff THEN MaxBackoff ELSE Doubled[n - 1]

(* The backoff is that of the sleep of this attempt, while it sleeps, and  *)
(* of the next one before.                                                 *)
BInv ==
    /\ streak \in 0..MaxStreak /\ (main = "boot" => streak = 0)
    /\ follow.at \in {"loop", "attempt"} => follow.backoff = Due(streak + 1)
    /\ follow.at = "sleep" => streak # 0 /\ follow.backoff = Due(streak)

LEMMA DueDoubles ==
    /\ Due(1) = InitialBackoff
    /\ Due(MaxStreak) = MaxBackoff /\ Due(MaxStreak + 1) = MaxBackoff
    /\ \A n \in 1..MaxStreak : /\ Due(n) \in Nat
                               /\ Due(n + 1) = IF 2 * Due(n) > MaxBackoff THEN MaxBackoff ELSE 2 * Due(n)
<1>1. /\ MaxStreak \in Nat \ {0} /\ MaxBackoff \in Nat /\ InitialBackoff \in Nat \ {0}
      /\ InitialBackoff <= MaxBackoff /\ Doubled[MaxStreak - 1] >= MaxBackoff
  BY ProcessAssumption
<1>2. \A n \in 1..MaxStreak : n - 1 \in 0..MaxStreak /\ Doubled[n - 1] \in Nat BY <1>1, DoubledDef
<1>3. Due(1) = InitialBackoff BY <1>1, DoubledDef DEF Due
<1>4. Due(MaxStreak) = MaxBackoff /\ Due(MaxStreak + 1) = MaxBackoff BY <1>1, <1>2 DEF Due
<1>5. ASSUME NEW n \in 1..MaxStreak
      PROVE  Due(n) \in Nat /\ Due(n + 1) = IF 2 * Due(n) > MaxBackoff THEN MaxBackoff ELSE 2 * Due(n)
  <2>1. CASE n = MaxStreak BY <1>1, <1>4, <2>1
  <2>2. CASE n # MaxStreak
    <3>1. Doubled[n] = 2 * Doubled[n - 1] /\ Doubled[n - 1] \in Nat BY <1>2, DoubledDef
    <3>2. (n + 1) - 1 = n /\ ~(n + 1 > MaxStreak) /\ ~(n > MaxStreak) BY <1>1, <2>2
    <3>. QED BY <1>1, <3>1, <3>2 DEF Due
  <2>. QED BY <2>1, <2>2
<1>. QED BY <1>3, <1>4, <1>5

LEMMA BackoffStays ==
    ASSUME BInv, streak' = streak,
           follow' = follow \/ follow'.at \notin {"loop", "attempt", "sleep"},
           main' = "boot" => main = "boot"
    PROVE  BInv'
BY DEF BInv

LEMMA FollowKeepsBackoff == PInv /\ BInv /\ Follow => BInv'
<1>. SUFFICES ASSUME PInv, BInv, Follow PROVE BInv' OBVIOUS
<1>1. follow \in [at : FollowAt, backoff : Int] BY DEF PInv, ProcessTypeOK
<1>2. MaxStreak \in Nat \ {0} BY ProcessAssumption
<1>3. main' = main /\ main # "boot"
  BY DEF Follow, mainVars, PInv, BootIsQuiet, AttemptStarts, AttemptEnds, Slept, FollowReturns
<1>4. CASE AttemptStarts BY <1>1, <1>3, <1>4 DEF AttemptStarts, BInv
<1>5. CASE AttemptEnds
  <2>1. PICK healthy \in BOOLEAN :
          /\ follow.at = "attempt" /\ follow' = [at |-> "sleep", backoff |-> Backoff(healthy)]
          /\ streak' = IF healthy THEN 1 ELSE IF streak < MaxStreak THEN streak + 1 ELSE streak
    BY <1>5 DEF AttemptEnds
  <2>2. CASE healthy BY <1>2, <1>3, <2>1, <2>2, DueDoubles DEF BInv, Backoff
  <2>3. CASE ~healthy /\ streak < MaxStreak BY <1>2, <1>3, <2>1, <2>3 DEF BInv, Backoff
  <2>4. CASE ~healthy /\ ~(streak < MaxStreak)
    <3>1. streak = MaxStreak BY <1>2, <2>4 DEF BInv
    <3>. QED BY <1>2, <1>3, <2>1, <2>4, <3>1, DueDoubles DEF BInv, Backoff
  <2>. QED BY <2>2, <2>3, <2>4
<1>6. CASE Slept
  <2>1. streak \in 1..MaxStreak BY <1>2, <1>6 DEF Slept, BInv
  <2>. QED BY <1>3, <1>6, <2>1, DueDoubles DEF Slept, BInv
<1>7. CASE FollowReturns BY <1>3, <1>7, <1>1, BackoffStays DEF FollowReturns
<1>. QED BY <1>4, <1>5, <1>6, <1>7 DEF Follow

LEMMA BackoffKeeps == PInv /\ BInv /\ [Next]_vars => BInv'
<1>. SUFFICES ASSUME PInv, BInv, [Next]_vars PROVE BInv' OBVIOUS
<1>. MaxStreak \in Nat \ {0} BY ProcessAssumption
<1>1. CASE Follow BY <1>1, FollowKeepsBackoff
<1>2. CASE Started
  <2>1. follow' = [at |-> "loop", backoff |-> InitialBackoff] /\ streak' = streak /\ main = "boot" /\ main' # "boot"
    BY <1>2 DEF Started
  <2>. QED BY <2>1, DueDoubles DEF BInv
<1>3. CASE Booting \/ BootFails BY <1>3, BackoffStays
        DEF Booting, BootFails, Exit, processVars, mainVars, goroutines, followVars
<1>4. CASE Receive \/ Returns BY <1>4, BackoffStays DEF Receive, Returns, Exit, goroutines, followVars
<1>5. CASE BackfillReturns \/ SiteEnds \/ ContainerStops
  BY <1>5, BackoffStays DEF BackfillReturns, SiteEnds, ContainerStops, goroutines, mainVars, followVars
<1>6. ASSUME NEW c \in Callers, UseLens(c) \/ InLens(c) PROVE BInv'
  BY <1>6, BackoffStays DEF UseLens, InLens, processVars, mainVars, goroutines, followVars
<1>7. CASE Serve BY <1>7, BackoffStays DEF Serve, mainVars, followVars
<1>8. CASE Reports
  <2>1. follow \in [at : FollowAt, backoff : Int] BY DEF PInv, ProcessTypeOK
  <2>2. main' = main /\ streak' = streak BY <1>8 DEF Reports, mainVars
  <2>3. follow' = follow \/ follow'.at \notin {"loop", "attempt", "sleep"}
    BY <1>8, <2>1 DEF Reports, FollowReports, ServeReports, Cancels, NoFollow
  <2>. QED BY <2>2, <2>3, BackoffStays
<1>9. CASE Crash \/ Restarts BY <1>9 DEF Crash, Restarts, Gone, NoFollow, BInv
<1>10. CASE UNCHANGED vars BY <1>10, BackoffStays DEF vars, processVars, mainVars, goroutines, followVars
<1>. QED BY <1>1, <1>2, <1>3, <1>4, <1>5, <1>6, <1>7, <1>8, <1>9, <1>10 DEF Next

(* Every sleep of followJetstream is as long as the attempts since the last  *)
(* healthy one call for, whatever else happens to the process: the first     *)
(* backoff doubled for each but the first, and never more than the cap       *)
(* (main.go:113-142).                                                        *)
THEOREM BackoffIsDue == Spec => []BackoffFollowsStreak
<1>1. Init => PInv /\ LInv BY ProcessStarts, LensStarts DEF Init
<1>2. PInv /\ LInv /\ [Next]_vars => (PInv /\ LInv)' BY ProcessKeeps, ProcessKeepsLenses
<1>3. Init => BInv BY ProcessAssumption DEF Init, BInv, NoFollow
<1>4. BInv => BackoffFollowsStreak
  <2>1. BInv => streak \in 0..MaxStreak /\ MaxStreak \in Nat BY ProcessAssumption DEF BInv
  <2>. QED BY <2>1 DEF BInv, BackoffFollowsStreak, Due
<1>. QED BY <1>1, <1>2, <1>3, <1>4, BackoffKeeps, PTL DEF Spec
=============================================================================
