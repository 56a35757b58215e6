----------------------------- MODULE ApiProcess -----------------------------
(* main.go's run and the container around it: the database is migrated, the  *)
(* lenses are loaded, then three goroutines share both until the process is  *)
(* told to stop or the listener fails. start.sh runs isnot beside the site   *)
(* and ends the container when either ends.                                  *)
EXTENDS Migrations, LensRuntime

CONSTANTS
    InitialBackoff, MaxBackoff,     \* followJetstream's, in seconds
    ingest, backfill,               \* the goroutines that use the lenses
    MaxStreak                       \* bound: a longer run of failures counts as this long

(* The first backoff, doubled n times.                                       *)
Doubled[n \in 0..MaxStreak] == IF n = 0 THEN InitialBackoff ELSE 2 * Doubled[n - 1]

ASSUME ProcessAssumption ==
    /\ Callers = {ingest, backfill} /\ ingest # backfill
    /\ InitialBackoff \in Nat \ {0} /\ MaxBackoff \in Nat /\ InitialBackoff <= MaxBackoff
    /\ MaxStreak \in Nat \ {0} /\ Doubled[MaxStreak - 1] >= MaxBackoff

VARIABLES
    main,           \* "boot", "receiving" twice from errs, "joining" backfill, "exited"
    first,          \* the first error taken from errs
    exitCode,       \* of isnot; Died when it did not exit by itself
    errs,           \* the channel
    cancelled,      \* runCtx was cancelled by one of the goroutines
    follow,         \* followJetstream: where it is, its backoff
    streak,         \* history: attempts since the last healthy one, it included
    backfilling,    \* the backfill goroutine runs
    server,         \* serve: where it is, what it returns
    request,        \* a request: "none", "open", "outlived" the five seconds of Shutdown
    signalled,      \* isnot got SIGTERM
    container       \* start.sh: where it is, its code, whether the site runs

mainVars == <<main, first, exitCode>>
channels == <<errs, cancelled>>
followVars == <<follow, streak>>
serverVars == <<server, request>>
outside == <<signalled, container>>
goroutines == <<followVars, serverVars, backfilling, channels>>
processVars == <<mainVars, goroutines, outside>>
vars == <<processVars, migrationVars, lensVars>>

Done == signalled \/ cancelled                  \* runCtx.Done
Using(c) == ~At(c, "idle")
Exit(code) == main' = "exited" /\ exitCode' = code

Died == 137
NoFollow == [at |-> "off", backoff |-> 0]
NoServer == [at |-> "off", returns |-> "nil"]
Site == [at |-> "up", code |-> 0, site |-> TRUE]

-----------------------------------------------------------------------------
(* run: openDB, loadCatalog, loadLenses, the goroutines. *)

Booting == main = "boot" /\ MigrationStep /\ UNCHANGED <<processVars, lensVars>>

(* migrate fails, or the catalog or the lenses cannot be had: an error, and  *)
(* context.Canceled only if the process was told to stop.                    *)
BootFails ==
    /\ main = "boot"
    /\ \/ MigrationFails /\ Exit(1)
       \/ migrating.at = "done" /\ (Exit(1) \/ (signalled /\ Exit(0))) /\ UNCHANGED migrationVars
    /\ UNCHANGED <<first, goroutines, outside, lensVars>>

Started ==
    /\ main = "boot" /\ migrating.at = "done"
    /\ main' = "receiving"
    /\ follow' = [at |-> "loop", backoff |-> InitialBackoff]
    /\ server' = [NoServer EXCEPT !.at = "serving"]
    /\ backfilling' = TRUE
    /\ UNCHANGED <<first, exitCode, streak, request, channels, outside, migrationVars, lensVars>>

KeepFirst_TakesLast(err) == err

(* for range 2: the first error that is not nil is kept. *)
KeepFirst(err) == IF first = "nil" THEN err ELSE first
Receive ==
    /\ main \in {"receiving", "receivingLast"} /\ errs # <<>>
    /\ main' = IF main = "receiving" THEN "receivingLast" ELSE "joining"
    /\ first' = KeepFirst(Head(errs)) /\ errs' = Tail(errs)
    /\ UNCHANGED <<exitCode, cancelled, followVars, serverVars, backfilling, outside, migrationVars, lensVars>>

Joined_NoWait == TRUE

(* backfill.Wait; then the deferred calls close the lenses and the database. *)
Joined == ~backfilling
Returns ==
    /\ main = "joining" /\ Joined
    /\ Exit(IF first = "nil" THEN 0 ELSE 1)
    /\ UNCHANGED <<first, goroutines, outside, migrationVars, lensVars>>

-----------------------------------------------------------------------------
(* followJetstream and backfillSubjects. *)

AttemptStarts == follow.at = "loop" /\ ~Done /\ follow' = [follow EXCEPT !.at = "attempt"] /\ UNCHANGED streak

Backoff_NeverReset(healthy) == follow.backoff

(* An attempt that lasted healthyAfter resets the backoff, before the sleep. *)
Backoff(healthy) == IF healthy THEN InitialBackoff ELSE follow.backoff
AttemptEnds ==
    /\ follow.at = "attempt" /\ ~Using(ingest) /\ ~Done
    /\ \E healthy \in BOOLEAN :
          /\ follow' = [at |-> "sleep", backoff |-> Backoff(healthy)]
          /\ streak' = IF healthy THEN 1 ELSE IF streak < MaxStreak THEN streak + 1 ELSE streak

Slept ==
    /\ follow.at = "sleep" /\ ~Done
    /\ LET twice == 2 * follow.backoff
       IN  follow' = [at |-> "loop", backoff |-> IF twice > MaxBackoff THEN MaxBackoff ELSE twice]
    /\ UNCHANGED streak

FollowReturns ==
    /\ follow.at \in {"loop", "attempt", "sleep"} /\ Done /\ ~Using(ingest)
    /\ follow' = [follow EXCEPT !.at = "returned"]
    /\ UNCHANGED streak

Follow ==
    /\ AttemptStarts \/ AttemptEnds \/ Slept \/ FollowReturns
    /\ UNCHANGED <<mainVars, serverVars, backfilling, channels, outside, migrationVars, lensVars>>

BackfillReturns ==
    /\ backfilling /\ ~Using(backfill) /\ backfilling' = FALSE
    /\ UNCHANGED <<mainVars, followVars, serverVars, channels, outside, migrationVars, lensVars>>

(* A subject was fetched, which needs a context that is not done, and goes   *)
(* through the lenses.                                                       *)
UseLens(c) ==
    /\ IF c = ingest THEN follow.at = "attempt" ELSE backfilling
    /\ ~Done /\ Lock(c)
    /\ UNCHANGED <<processVars, migrationVars>>
InLens(c) == LensStep(c) /\ UNCHANGED <<processVars, migrationVars>>

-----------------------------------------------------------------------------
(* serve, the handlers it runs, and what the two goroutines report. *)

ListenerFails == server.at = "serving" /\ server' = [at |-> "returned", returns |-> "error"] /\ UNCHANGED request
StopsServing == server.at = "serving" /\ Done /\ server' = [server EXCEPT !.at = "shutdown"] /\ UNCHANGED request

(* Shutdown waits for the requests, five seconds at most.                    *)
ShutsDown ==
    /\ server.at = "shutdown" /\ server' = [server EXCEPT !.at = "returned"]
    /\ request' = IF request = "open" THEN "outlived" ELSE request

Requested == server.at = "serving" /\ request = "none" /\ request' = "open" /\ UNCHANGED server
Answered == request # "none" /\ request' = "none" /\ UNCHANGED server

Serve ==
    /\ ListenerFails \/ StopsServing \/ ShutsDown \/ Requested \/ Answered
    /\ UNCHANGED <<mainVars, followVars, backfilling, channels, outside, migrationVars, lensVars>>

(* errs <- err, which has room for both, then cancel().                      *)
FollowReports ==
    /\ follow.at = "returned" /\ follow' = [follow EXCEPT !.at = "reported"]
    /\ errs' = Append(errs, "nil") /\ UNCHANGED <<cancelled, server>>
ServeReports ==
    /\ server.at = "returned" /\ server' = [server EXCEPT !.at = "reported"]
    /\ errs' = Append(errs, server.returns) /\ UNCHANGED <<cancelled, follow>>
Cancels_FollowOnly ==
    /\ \/ follow.at = "reported" /\ follow' = NoFollow /\ cancelled' = TRUE /\ UNCHANGED server
       \/ server.at = "reported" /\ server' = NoServer /\ UNCHANGED <<follow, cancelled>>
    /\ UNCHANGED errs

Cancels ==
    /\ \/ follow.at = "reported" /\ follow' = NoFollow /\ UNCHANGED server
       \/ server.at = "reported" /\ server' = NoServer /\ UNCHANGED follow
    /\ cancelled' = TRUE /\ UNCHANGED errs
Reports ==
    /\ FollowReports \/ ServeReports \/ Cancels
    /\ UNCHANGED <<mainVars, streak, request, backfilling, outside, migrationVars, lensVars>>

-----------------------------------------------------------------------------
(* Outside: crashes, start.sh and the platform. *)

(* The process is gone: nothing but its files is left.                       *)
Gone ==
    /\ first' = "nil" /\ errs' = <<>> /\ cancelled' = FALSE
    /\ follow' = NoFollow /\ streak' = 0 /\ server' = NoServer /\ request' = "none"
    /\ backfilling' = FALSE /\ heap' = "clean" /\ lensCalls' = NoCalls

Crash == main # "exited" /\ Exit(Died) /\ Gone /\ MigrationCrash /\ UNCHANGED outside

SiteEnds ==
    /\ container.site /\ container' = [container EXCEPT !.site = FALSE]
    /\ UNCHANGED <<mainVars, goroutines, signalled, migrationVars, lensVars>>

Waited_ForBoth == main = "exited" /\ ~container.site

(* wait -n; a TERM to start.sh ends its wait, too. The trap on EXIT passes   *)
(* the TERM on; the shell does not wait for what it does.                    *)
Waited == main = "exited" \/ ~container.site
ContainerStops ==
    /\ container.at = "up"
    /\ \/ Waited /\ container' = [container EXCEPT !.at = "stopping", !.code = 1]
       \/ container' = [container EXCEPT !.at = "stopping", !.code = 143]
    /\ signalled' = (main # "exited")
    /\ UNCHANGED <<mainVars, goroutines, migrationVars, lensVars>>

(* The first process of the container is gone and takes the others with it;  *)
(* Railway starts it again, perhaps from another release.                    *)
Restarts ==
    /\ container.at = "stopping"
    /\ container' = Site /\ signalled' = FALSE
    /\ main' = "boot" /\ exitCode' = 0
    /\ Gone /\ Deployed

-----------------------------------------------------------------------------

Init ==
    /\ MigrationInit /\ LensLoaded
    /\ main = "boot" /\ first = "nil" /\ exitCode = 0 /\ errs = <<>> /\ cancelled = FALSE
    /\ follow = NoFollow /\ streak = 0 /\ server = NoServer /\ request = "none" /\ backfilling = FALSE
    /\ signalled = FALSE /\ container = Site

Next ==
    \/ Booting \/ BootFails \/ Started \/ Receive \/ Returns
    \/ Follow \/ BackfillReturns \/ \E c \in Callers : UseLens(c) \/ InLens(c)
    \/ Serve \/ Reports
    \/ Crash \/ SiteEnds \/ ContainerStops \/ Restarts

(* Every goroutine that can go on without the world does; the network, the   *)
(* clients, the crashes and the platform owe nothing.                        *)
Fairness ==
    /\ WF_vars(Receive) /\ WF_vars(Returns) /\ WF_vars(Reports) /\ WF_vars(BackfillReturns)
    /\ WF_vars(Follow /\ Done) /\ WF_vars(Serve /\ (StopsServing \/ ShutsDown))
    /\ \A c \in Callers : WF_vars(InLens(c))
    /\ WF_vars(ContainerStops /\ Waited)

Spec == Init /\ [][Next]_vars
FairSpec == Spec /\ Fairness

-----------------------------------------------------------------------------

(* The sleep before an attempt is what the attempts since the last healthy   *)
(* one call for: doubled for each, capped, and never carried over a session  *)
(* that was healthy (main.go:113-142).                                       *)
BackoffFollowsStreak ==
    follow.at = "sleep" =>
        LET due == Doubled[streak - 1]
        IN  follow.backoff = IF due > MaxBackoff THEN MaxBackoff ELSE due

(* When run has returned, and with it closed the lenses and the database,    *)
(* nothing uses either: both reporting goroutines are past their last use,   *)
(* backfill has ended, no lens call is open, and a request is only if it     *)
(* outlived the five seconds or the listener failed (main.go:92-110,         *)
(* server.go:144-154).                                                       *)
NothingOutlivesTheDatabase ==
    main = "exited" =>
        /\ follow.at \in {"off", "reported"} /\ server.at \in {"off", "reported"}
        /\ ~backfilling /\ \A c \in Callers : ~Using(c)
        /\ request = "open" => first = "error"

(* isnot exits 0 only because it was told to: a listener's error is not      *)
(* hidden by the nil of the goroutine it ended (main.go:92-110).             *)
ExitTellsWhy == main = "exited" /\ exitCode = 0 => signalled /\ first = "nil"

(* A process told to stop, or one whose listener failed, ends, whatever its  *)
(* goroutines were at and however often the stream hiccups (main.go:92-143). *)
RunEnds ==
    main \in {"receiving", "receivingLast", "joining"} /\ (signalled \/ server.returns = "error") ~> main = "exited" \/ main = "boot"

(* "If either process ends for any reason the container exits non-zero so    *)
(* Railway restarts it" (start.sh:2-12).                                     *)
ContainerFollowsEither ==
    main = "exited" \/ ~container.site ~> container.at = "stopping" /\ container.code # 0
=============================================================================
