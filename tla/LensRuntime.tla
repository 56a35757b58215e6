---------------------------- MODULE LensRuntime -----------------------------
(* lens.go: one wasm module behind a mutex, called by the ingester and by    *)
(* backfill. A call allocates its input, runs the export, copies the result  *)
(* out and frees both; a trap replaces the module.                           *)

CONSTANT Callers    \* the goroutines that call lenses.call

VARIABLES
    heap,       \* of l.mod: "clean", "trapped" by a trap its call has seen,
                \* "tainted" by one nobody looked at, "closed"
    lensCalls   \* per goroutine: where its call is, whether l.mod has been replaced
                \* since it took its memory, the module its dealloc is deferred on

lensVars == <<heap, lensCalls>>

NoCall == [at |-> "idle", stale |-> FALSE, deferred |-> "none"]
At(c, phase) == lensCalls[c].at = phase
Move(c, phase) == lensCalls' = [lensCalls EXCEPT ![c].at = phase]

Mutex_None == TRUE

Mutex == \A c \in Callers : At(c, "idle")
(* return: what was deferred, the dealloc if it had been reached, runs next. *)
Return(call) == IF call.deferred = "none" THEN NoCall ELSE [call EXCEPT !.at = "deferred"]

(* mu.Lock, mem := l.mod.Memory(). *)
Lock(c) ==
    /\ At(c, "idle") /\ Mutex
    /\ lensCalls' = [lensCalls EXCEPT ![c] = [NoCall EXCEPT !.at = "alloc"]]
    /\ UNCHANGED heap

(* An export of a closed module fails; on a clean heap it works or traps, on *)
(* one a trap has left in an undefined state it may do either, too.          *)
Works == heap # "closed"
Trap(c) ==
    /\ Move(c, "trapped")
    /\ heap' = IF heap = "closed" THEN heap ELSE "trapped"

Alloc(c) ==
    /\ At(c, "alloc")
    /\ (Works /\ Move(c, "write") /\ UNCHANGED heap) \/ Trap(c)

(* mem.Write, then the deferred dealloc; out of range, the input leaks.      *)
Write(c) ==
    /\ At(c, "write")
    /\ \/ lensCalls' = [lensCalls EXCEPT ![c].at = "run", ![c].deferred = "current"]
       \/ lensCalls' = [lensCalls EXCEPT ![c] = Return(@)]
    /\ UNCHANGED heap

Run(c) ==
    /\ At(c, "run")
    /\ (Works /\ Move(c, "read") /\ UNCHANGED heap) \/ Trap(c)

(* The header, the result and its copy; either may be out of range.          *)
ReadResult(c) ==
    /\ At(c, "read")
    /\ Move(c, "free") \/ lensCalls' = [lensCalls EXCEPT ![c] = Return(@)]
    /\ UNCHANGED heap

FreeResult(c) ==
    /\ At(c, "free")
    /\ \/ Works /\ lensCalls' = [lensCalls EXCEPT ![c] = Return(@)] /\ UNCHANGED heap
       \/ Trap(c)

(* l.mod is closed, and stays so if Instantiate fails: the next call finds   *)
(* it closed and tries again.                                                *)
Reinstantiate(c) ==
    /\ At(c, "trapped")
    /\ heap' \in {"clean", "closed"}
    /\ LET left(d) == [lensCalls[d] EXCEPT
                !.stale = ~At(d, "idle"), !.deferred = IF @ = "none" THEN @ ELSE "closed"]
       IN  lensCalls' = [d \in Callers |-> IF d = c THEN Return(left(d)) ELSE left(d)]

(* The deferred dealloc names the module it was deferred on. Its error is    *)
(* dropped: a trap in it goes unseen.                                        *)
DeferredDealloc(c) ==
    /\ At(c, "deferred")
    /\ lensCalls' = [lensCalls EXCEPT ![c] = NoCall]
    /\ \/ UNCHANGED heap
       \/ lensCalls[c].deferred = "current" /\ heap' = "tainted"

LensStep(c) ==
    Alloc(c) \/ Write(c) \/ Run(c) \/ ReadResult(c) \/ FreeResult(c) \/ Reinstantiate(c) \/ DeferredDealloc(c)

(* loadLenses *)
NoCalls == [c \in Callers |-> NoCall]
LensLoaded == heap = "clean" /\ lensCalls = NoCalls
LensNext == \E c \in Callers : Lock(c) \/ LensStep(c)
LensSpec == LensLoaded /\ [][LensNext]_lensVars

-----------------------------------------------------------------------------

(* Every call works on one live module: a heap some call has seen trap is    *)
(* that call's alone until it has been replaced, "the singleton must not     *)
(* serve another call against it" (lens.go:88-96), and from Lock to its last *)
(* read no other goroutine's trap replaces the memory a call holds           *)
(* (lens.go:100-137). A trap of the deferred dealloc is not covered: its     *)
(* error is dropped and the tainted heap serves on.                          *)
TrappedHeapServesNobody ==
    heap = "trapped" => \E c \in Callers : At(c, "trapped") /\ \A d \in Callers \ {c} : At(d, "idle")
CallKeepsItsModule ==
    \A c \in Callers : lensCalls[c].at \in {"write", "run", "read", "free"} =>
        ~lensCalls[c].stale /\ Works
CallsHaveALiveModule == TrappedHeapServesNobody /\ CallKeepsItsModule
=============================================================================
