----------------------------- MODULE PhaseRouter -----------------------------
(***************************************************************************)
(* The local model orchestrator: PhaseRouter                               *)
(* (app/ai/local_orchestrator/phase_router.py) over LMSClientGuarded and   *)
(* LMSClient.  The callers are coroutines of one worker process that share *)
(* the router; between two awaits a coroutine runs alone, so every action  *)
(* is the code from one await to the next.  LM Studio is the set of models *)
(* resident in its memory.  A slot stands for the model it loads, primary  *)
(* or fallback.                                                            *)
(***************************************************************************)
EXTENDS Naturals

CONSTANTS
    Callers,        \* coroutines that call run_phase or shutdown
    Slots,          \* "vision" and "main_llm" of PHASE_TO_SLOT
    None,           \* no slot, no lock holder
    WorkerVisible,  \* pgrep finds llmworker.js: LM Studio is on this host
    MaxOoms,        \* bound on loads that fail for lack of memory
    MaxLeftovers,   \* bound on loads that fail and leave their model behind
    MaxCancels      \* bound on cancelled calls (job timeout, shutdown)

ASSUME PhaseRouterAssumption ==
    /\ None \notin Callers
    /\ None \notin Slots
    /\ WorkerVisible \in BOOLEAN
    /\ MaxOoms \in Nat
    /\ MaxLeftovers \in Nat
    /\ MaxCancels \in Nat

VARIABLES
    state,      \* _state
    slot,       \* _current_slot; _current_instance_id is set with it
    lock,       \* the holder of _lock
    pc,         \* the await a caller is at
    want,       \* the slot a caller requires, None for shutdown
    loaded,     \* the models resident in LM Studio
    ooms,       \* counts loads that failed for lack of memory
    leftovers,  \* counts loads that raised although their model is resident
    cancels     \* counts cancelled calls

vars == <<state, slot, lock, pc, want, loaded, ooms, leftovers, cancels>>

\* RouterState
IdleState == <<"idle", None>>
States == {IdleState} \union ({"loading", "active", "unloading"} \X Slots)

\* "unload" and "settle" are _unload_current, "drain", "settling" and "relock"
\* the detour of _load_slot after an out-of-memory error, "reload" its retry
Points == {"idle", "wait", "unload", "settle", "load", "drain", "settling",
           "relock", "quit", "reload", "ready", "predict"}

Inside(t) == pc[t] \in {"unload", "settle", "load", "reload"}

\* LMSClient._inflight
Busy(m) == \E t \in Callers : pc[t] = "predict" /\ want[t] = m

Goto(t, p) == pc' = [pc EXCEPT ![t] = p]
Free == lock = None
Release == lock' = None

Init ==
    /\ state = IdleState
    /\ slot = None
    /\ lock = None
    /\ pc = [t \in Callers |-> "idle"]
    /\ want = [t \in Callers |-> None]
    /\ loaded = {}
    /\ ooms = 0
    /\ leftovers = 0
    /\ cancels = 0

-----------------------------------------------------------------------------
(* ensure_loaded and shutdown: the lock *)

\* run_phase of a phase that needs slot s
Call(t, s) ==
    /\ pc[t] = "idle"
    /\ Goto(t, "wait")
    /\ want' = [want EXCEPT ![t] = s]
    /\ UNCHANGED <<state, slot, lock, loaded, ooms, leftovers, cancels>>

\* shutdown, by reset_router or by a rebuild of the singleton
CallShutdown(t) == Call(t, None)

\* already loaded for the correct slot
UseCached(t) ==
    /\ pc[t] = "wait" /\ Free
    /\ want[t] # None /\ slot = want[t]
    /\ Goto(t, "ready")
    /\ UNCHANGED <<state, slot, lock, want, loaded, ooms, leftovers, cancels>>

\* mutant of StartUnload: marks the required slot, not the current one
UnloadMarksRequired(t) ==
    /\ pc[t] = "wait" /\ Free
    /\ slot \notin {None, want[t]}
    /\ lock' = t
    /\ state' = <<"unloading", want[t]>>
    /\ Goto(t, "unload")
    /\ UNCHANGED <<slot, want, loaded, ooms, leftovers, cancels>>

StartUnload(t) ==
    /\ pc[t] = "wait" /\ Free
    /\ slot \notin {None, want[t]}
    /\ lock' = t
    /\ state' = <<"unloading", slot>>
    /\ Goto(t, "unload")
    /\ UNCHANGED <<slot, want, loaded, ooms, leftovers, cancels>>

\* mutant of StartLoad: loads the required slot without unloading the current one
LoadOverCurrent(t) ==
    /\ pc[t] = "wait" /\ Free
    /\ want[t] \notin {None, slot}
    /\ lock' = t
    /\ state' = <<"loading", want[t]>>
    /\ Goto(t, "load")
    /\ UNCHANGED <<slot, want, loaded, ooms, leftovers, cancels>>

StartLoad(t) ==
    /\ pc[t] = "wait" /\ Free
    /\ slot = None /\ want[t] # None
    /\ lock' = t
    /\ state' = <<"loading", want[t]>>
    /\ Goto(t, "load")
    /\ UNCHANGED <<slot, want, loaded, ooms, leftovers, cancels>>

ShutdownIdle(t) ==
    /\ pc[t] = "wait" /\ Free
    /\ slot = None /\ want[t] = None
    /\ state' = IdleState
    /\ Goto(t, "idle")
    /\ UNCHANGED <<slot, lock, want, loaded, ooms, leftovers, cancels>>

-----------------------------------------------------------------------------
(* force_unload_all *)

\* a model with a predict in flight raises BusyError and is skipped
UnloadIdle(t) ==
    /\ pc[t] \in {"unload", "drain"}
    /\ loaded' = {m \in loaded : Busy(m)}
    /\ Goto(t, IF pc[t] = "unload" THEN "settle" ELSE "settling")
    /\ UNCHANGED <<state, slot, lock, want, ooms, leftovers, cancels>>

\* poll the worker's RSS; a worker that still holds a model gets SIGKILL.
\* Without a worker process in sight nothing is waited for.
AfterPoll == IF WorkerVisible THEN {} ELSE loaded

\* mutant of Settle: the slot is cleared only when another one is loaded next
SettleKeepsSlot(t) ==
    /\ pc[t] = "settle"
    /\ loaded' = AfterPoll
    /\ IF want[t] = None
       THEN state' = IdleState /\ Release /\ Goto(t, "idle") /\ UNCHANGED slot
       ELSE state' = <<"loading", want[t]>> /\ slot' = None /\ Goto(t, "load")
            /\ UNCHANGED lock
    /\ UNCHANGED <<want, ooms, leftovers, cancels>>

\* the rest of _unload_current, then of shutdown or of ensure_loaded up to the
\* load request
Settle(t) ==
    /\ pc[t] = "settle"
    /\ loaded' = AfterPoll
    /\ slot' = None
    /\ IF want[t] = None
       THEN state' = IdleState /\ Release /\ Goto(t, "idle")
       ELSE state' = <<"loading", want[t]>> /\ Goto(t, "load") /\ UNCHANGED lock
    /\ UNCHANGED <<want, ooms, leftovers, cancels>>

-----------------------------------------------------------------------------
(* _load_slot *)

LoadDone(t) ==
    /\ pc[t] \in {"load", "reload"}
    /\ loaded' = loaded \union {want[t]}
    /\ slot' = want[t]
    /\ state' = <<"active", want[t]>>
    /\ Release
    /\ Goto(t, "ready")
    /\ UNCHANGED <<want, ooms, leftovers, cancels>>

\* the models resident after a drain that skips those in use
Drained == {m \in AfterPoll : Busy(m)}

\* LMSClientGuarded.load: the RAM pre-flight refuses the primary model, or the
\* primary model runs out of memory: drain, then load the fallback
LoadFallback(t) ==
    /\ pc[t] \in {"load", "reload"}
    /\ loaded' = Drained \union {want[t]}
    /\ slot' = want[t]
    /\ state' = <<"active", want[t]>>
    /\ Release
    /\ Goto(t, "ready")
    /\ UNCHANGED <<want, ooms, leftovers, cancels>>

\* mutant of LoadFails: the lock is not released when the load raises
LoadFailsLocked(t) ==
    /\ pc[t] \in {"load", "reload"}
    /\ Goto(t, "idle")
    /\ UNCHANGED <<state, slot, lock, want, loaded, ooms, leftovers, cancels>>

\* any other error, a timeout included, or the second out-of-memory error, of
\* the primary or, after the drain, of the fallback model: _state stays
\* "loading".  The caller gave up, LM Studio need not have: the model may be
\* resident, now or when the request that timed out is served.
LoadFails(t) ==
    /\ pc[t] \in {"load", "reload"}
    /\ \/ loaded' \in {loaded, Drained} /\ UNCHANGED leftovers
       \/ /\ leftovers < MaxLeftovers /\ leftovers' = leftovers + 1
          /\ loaded' \in {loaded \union {want[t]}, Drained \union {want[t]}}
    /\ Release
    /\ Goto(t, "idle")
    /\ UNCHANGED <<state, slot, want, ooms, cancels>>

\* the first out-of-memory error without a fallback to load instead: the lock
\* is released for the drain
LoadOutOfMemory(t) ==
    /\ pc[t] = "load"
    /\ ooms < MaxOoms /\ ooms' = ooms + 1
    /\ state' = IdleState
    /\ Release
    /\ Goto(t, "drain")
    /\ UNCHANGED <<slot, want, loaded, leftovers, cancels>>

SettleOutside(t) ==
    /\ pc[t] = "settling"
    /\ loaded' = AfterPoll
    /\ Goto(t, "relock")
    /\ UNCHANGED <<state, slot, lock, want, ooms, leftovers, cancels>>

\* mutant of Relock: the retry runs without the lock
RetryUnlocked(t) ==
    /\ pc[t] = "relock" /\ Free
    /\ state' = <<"loading", want[t]>>
    /\ Goto(t, "reload")
    /\ UNCHANGED <<slot, lock, want, loaded, ooms, leftovers, cancels>>

\* the retry looks neither at _current_slot nor at what others loaded
Relock(t) ==
    /\ pc[t] = "relock" /\ Free
    /\ lock' = t
    /\ state' = <<"loading", want[t]>>
    /\ Goto(t, "reload")
    /\ UNCHANGED <<slot, want, loaded, ooms, leftovers, cancels>>

-----------------------------------------------------------------------------
(* run_phase after ensure_loaded returned: outside the lock *)

Predict(t) ==
    /\ pc[t] = "ready"
    /\ Goto(t, "predict")
    /\ UNCHANGED <<state, slot, lock, want, loaded, ooms, leftovers, cancels>>

\* an answer, or an error when the model is gone by now
PredictEnds(t) ==
    /\ pc[t] = "predict"
    /\ Goto(t, "idle")
    /\ UNCHANGED <<state, slot, lock, want, loaded, ooms, leftovers, cancels>>

-----------------------------------------------------------------------------
(* CancelledError at each await *)

Cancelled == cancels < MaxCancels /\ cancels' = cancels + 1 /\ UNCHANGED <<want, ooms, leftovers>>

CancelOutside(t) ==
    /\ pc[t] \in {"wait", "ready", "predict"}
    /\ Cancelled
    /\ Goto(t, "idle")
    /\ UNCHANGED <<state, slot, lock, loaded>>

\* the finally of _unload_current forgets the slot, unloaded or not
CancelUnload(t) ==
    /\ pc[t] \in {"unload", "settle"}
    /\ Cancelled
    /\ loaded' \in {loaded, {m \in loaded : Busy(m)}}
    /\ slot' = None
    /\ state' = IdleState
    /\ Release
    /\ Goto(t, "idle")

\* the request runs on in its thread
CancelLoad(t) ==
    /\ pc[t] \in {"load", "reload"}
    /\ Cancelled
    /\ loaded' \in {loaded, loaded \union {want[t]}}
    /\ Release
    /\ Goto(t, "idle")
    /\ UNCHANGED <<state, slot>>

\* the finally around the drain still acquires the lock, to release it
CancelDrain(t) ==
    /\ pc[t] \in {"drain", "settling"}
    /\ Cancelled
    /\ Goto(t, "quit")
    /\ UNCHANGED <<state, slot, lock, loaded>>

Quit(t) ==
    /\ pc[t] = "quit" /\ Free
    /\ Goto(t, "idle")
    /\ UNCHANGED <<state, slot, lock, want, loaded, ooms, leftovers, cancels>>

\* cancelled while waiting for the lock again: "async with" releases a lock
\* that another caller may hold
CancelRelock(t) ==
    /\ pc[t] \in {"relock", "quit"}
    /\ Cancelled
    /\ Release
    /\ Goto(t, "idle")
    /\ UNCHANGED <<state, slot, loaded>>

-----------------------------------------------------------------------------
Acquire(t) ==
    \/ UseCached(t) \/ StartUnload(t) \/ StartLoad(t) \/ ShutdownIdle(t)
    \/ Relock(t) \/ Quit(t)

Proceed(t) ==
    \/ UnloadIdle(t) \/ Settle(t) \/ SettleOutside(t)
    \/ LoadDone(t) \/ LoadFallback(t) \/ LoadFails(t)
    \/ Predict(t) \/ PredictEnds(t)

Cancel(t) ==
    \/ CancelOutside(t) \/ CancelUnload(t) \/ CancelLoad(t)
    \/ CancelDrain(t) \/ CancelRelock(t)

Next == \E t \in Callers :
    \/ \E s \in Slots : Call(t, s)
    \/ CallShutdown(t)
    \/ Acquire(t) \/ Proceed(t) \/ LoadOutOfMemory(t) \/ Cancel(t)

Spec == Init /\ [][Next]_vars

\* awaited calls return (each has a timeout); asyncio.Lock is FIFO, so a caller
\* that keeps waiting is served: strong fairness
Fairness == \A t \in Callers : WF_vars(Proceed(t)) /\ SF_vars(Acquire(t))

FairSpec == Spec /\ Fairness

-----------------------------------------------------------------------------
(* Properties *)

TypeOK ==
    /\ state \in States
    /\ slot \in Slots \union {None}
    /\ lock \in Callers \union {None}
    /\ pc \in [Callers -> Points]
    /\ want \in [Callers -> Slots \union {None}]
    /\ loaded \subseteq Slots
    /\ ooms \in 0..MaxOoms
    /\ leftovers \in 0..MaxLeftovers
    /\ cancels \in 0..MaxCancels

Memory == INSTANCE ColdSwap WITH Slots <- Slots, loaded <- loaded

\* "Sequential cold-swap": the router implements ColdSwap on LM Studio's memory
\* when no load runs out of memory, none fails and leaves its model behind, and
\* no call is cancelled.
SwapsCold == Memory!Spec

\* The instance ensure_loaded returns from its cache is resident, and _state
\* agrees, whenever the lock is free.
CachedIsLoaded ==
    ooms = 0 /\ cancels = 0 /\ Free /\ slot # None
      => slot \in loaded /\ state = <<"active", slot>>

\* "State transitions serialized by _lock": a caller inside _unload_current or
\* a load holds the lock, the retry after an out-of-memory drain included,
\* unless a call was cancelled while it waited to take the lock back.
LoadsSerialized ==
    ooms = 0 \/ cancels = 0 => \A t \in Callers : Inside(t) => lock = t

\* Every call returns or raises: no error or cancellation leaves _lock taken.
CallsReturn == \A t \in Callers : pc[t] # "idle" ~> pc[t] = "idle"
=============================================================================
