------------------------- MODULE PhaseRouter_proofs -------------------------
(***************************************************************************)
(* Proofs about PhaseRouter, for any number of callers and of slots, any   *)
(* number of out-of-memory errors and of cancellations, and with or        *)
(* without a worker process in sight; the refinement of ColdSwap only for  *)
(* the case ColdSwap is promised in.                                       *)
(***************************************************************************)
EXTENDS PhaseRouter, TLAPS

-----------------------------------------------------------------------------
(* Types.  TypeOK is not inductive: a load that starts, or starts again,   *)
(* writes <<"loading", want[t]>>, so a caller past the lock has to want a  *)
(* slot unless it only unloads.                                            *)

WantsSlot == \A t \in Callers :
    pc[t] \in {"load", "drain", "settling", "relock", "reload"} => want[t] # None

TypeInv == TypeOK /\ WantsSlot

\* The initial state satisfies TypeInv.
LEMMA TypeInit == Init => TypeInv
  BY PhaseRouterAssumption DEF Init, TypeInv, TypeOK, WantsSlot, States, IdleState,
      Points

\* Steps at the lock preserve TypeInv.
LEMMA AcquireType ==
  ASSUME TypeInv, NEW t \in Callers, Acquire(t)
  PROVE  TypeInv'
<1> USE PhaseRouterAssumption DEF TypeInv, TypeOK, WantsSlot, States, IdleState,
      Points, Goto, Free, Release, Cancelled
<1>1. CASE UseCached(t)
  BY <1>1 DEF UseCached
<1>2. CASE StartUnload(t)
  BY <1>2 DEF StartUnload
<1>3. CASE StartLoad(t)
  BY <1>3 DEF StartLoad
<1>4. CASE ShutdownIdle(t)
  BY <1>4 DEF ShutdownIdle
<1>5. CASE Relock(t)
  BY <1>5 DEF Relock
<1>6. CASE Quit(t)
  BY <1>6 DEF Quit
<1> QED
  BY <1>1, <1>2, <1>3, <1>4, <1>5, <1>6 DEF Acquire

\* Steps of a caller past the lock preserve TypeInv.
LEMMA ProceedType ==
  ASSUME TypeInv, NEW t \in Callers, Proceed(t)
  PROVE  TypeInv'
<1> USE PhaseRouterAssumption DEF TypeInv, TypeOK, WantsSlot, States, IdleState,
      Points, Goto, Free, Release, Cancelled, AfterPoll
<1>1. CASE UnloadIdle(t)
  BY <1>1 DEF UnloadIdle
<1>2. CASE Settle(t)
  BY <1>2 DEF Settle
<1>3. CASE SettleOutside(t)
  BY <1>3 DEF SettleOutside
<1>4. CASE LoadDone(t)
  BY <1>4 DEF LoadDone
<1>5. CASE LoadFallback(t)
  BY <1>5 DEF LoadFallback, Drained
<1>6. CASE LoadFails(t)
  BY <1>6 DEF LoadFails, Drained, AfterPoll
<1>7. CASE Predict(t)
  BY <1>7 DEF Predict
<1>8. CASE PredictEnds(t)
  BY <1>8 DEF PredictEnds
<1> QED
  BY <1>1, <1>2, <1>3, <1>4, <1>5, <1>6, <1>7, <1>8 DEF Proceed

\* Cancellations preserve TypeInv.
LEMMA CancelType ==
  ASSUME TypeInv, NEW t \in Callers, Cancel(t)
  PROVE  TypeInv'
<1> USE PhaseRouterAssumption DEF TypeInv, TypeOK, WantsSlot, States, IdleState,
      Points, Goto, Free, Release, Cancelled
<1>1. CASE CancelOutside(t)
  BY <1>1 DEF CancelOutside
<1>2. CASE CancelUnload(t)
  BY <1>2 DEF CancelUnload
<1>3. CASE CancelLoad(t)
  BY <1>3 DEF CancelLoad
<1>4. CASE CancelDrain(t)
  BY <1>4 DEF CancelDrain
<1>5. CASE CancelRelock(t)
  BY <1>5 DEF CancelRelock
<1> QED
  BY <1>1, <1>2, <1>3, <1>4, <1>5 DEF Cancel

\* Every step preserves TypeInv.
LEMMA TypeStep == TypeInv /\ [Next]_vars => TypeInv'
<1> SUFFICES ASSUME TypeInv, [Next]_vars PROVE TypeInv'
  OBVIOUS
<1> USE PhaseRouterAssumption
      DEF TypeInv, TypeOK, WantsSlot, States, IdleState, Points, Goto, Release
<1>1. CASE UNCHANGED vars
  BY <1>1 DEF vars
<1>2. ASSUME NEW t \in Callers, NEW s \in Slots, Call(t, s) PROVE TypeInv'
  BY <1>2 DEF Call
<1>3. ASSUME NEW t \in Callers, CallShutdown(t) PROVE TypeInv'
  BY <1>3 DEF CallShutdown, Call
<1>4. ASSUME NEW t \in Callers, LoadOutOfMemory(t) PROVE TypeInv'
  BY <1>4 DEF LoadOutOfMemory
<1> QED
  BY <1>1, <1>2, <1>3, <1>4, AcquireType, ProceedType, CancelType DEF Next

\* Type correctness: _state is a RouterState, the slot and the models are ones
\* of PHASE_TO_SLOT, and no action leaves the bounds.
THEOREM TypeCorrect == Spec => []TypeOK
<1>1. TypeInv => TypeOK
  BY DEF TypeInv
<1> QED
  BY <1>1, TypeInit, TypeStep, PTL DEF Spec

-----------------------------------------------------------------------------
(* The lock.  LoadsSerialized has to know that nobody is in the detour of  *)
(* an out-of-memory error before the first one.                            *)

NoDetour == ooms = 0 =>
    \A t \in Callers : pc[t] \notin {"drain", "settling", "relock", "quit",
      "reload"}

LockInv == TypeOK /\ NoDetour /\ LoadsSerialized

\* Steps at the lock keep loads serialized.
LEMMA AcquireLock ==
  ASSUME LockInv, TypeOK', NEW t \in Callers, Acquire(t)
  PROVE  (NoDetour /\ LoadsSerialized)'
<1> USE PhaseRouterAssumption DEF LockInv, NoDetour, LoadsSerialized, Inside,
      TypeOK, Points, Goto, Free, Release, Cancelled
<1>1. CASE UseCached(t)
  BY <1>1 DEF UseCached
<1>2. CASE StartUnload(t)
  BY <1>2 DEF StartUnload
<1>3. CASE StartLoad(t)
  BY <1>3 DEF StartLoad
<1>4. CASE ShutdownIdle(t)
  BY <1>4 DEF ShutdownIdle
<1>5. CASE Relock(t)
  BY <1>5 DEF Relock
<1>6. CASE Quit(t)
  BY <1>6 DEF Quit
<1> QED
  BY <1>1, <1>2, <1>3, <1>4, <1>5, <1>6 DEF Acquire

\* Steps of a caller past the lock keep loads serialized.
LEMMA ProceedLock ==
  ASSUME LockInv, TypeOK', NEW t \in Callers, Proceed(t)
  PROVE  (NoDetour /\ LoadsSerialized)'
<1> USE PhaseRouterAssumption DEF LockInv, NoDetour, LoadsSerialized, Inside,
      TypeOK, Points, Goto, Free, Release, Cancelled
<1>1. CASE UnloadIdle(t)
  BY <1>1 DEF UnloadIdle
<1>2. CASE Settle(t)
  BY <1>2 DEF Settle
<1>3. CASE SettleOutside(t)
  BY <1>3 DEF SettleOutside
<1>4. CASE LoadDone(t)
  BY <1>4 DEF LoadDone
<1>5. CASE LoadFallback(t)
  BY <1>5 DEF LoadFallback, Drained
<1>6. CASE LoadFails(t)
  BY <1>6 DEF LoadFails, Drained, AfterPoll
<1>7. CASE Predict(t)
  BY <1>7 DEF Predict
<1>8. CASE PredictEnds(t)
  BY <1>8 DEF PredictEnds
<1> QED
  BY <1>1, <1>2, <1>3, <1>4, <1>5, <1>6, <1>7, <1>8 DEF Proceed

\* Cancellations keep loads serialized, as far as LoadsSerialized claims it.
LEMMA CancelLock ==
  ASSUME LockInv, TypeOK', NEW t \in Callers, Cancel(t)
  PROVE  (NoDetour /\ LoadsSerialized)'
<1> USE PhaseRouterAssumption DEF LockInv, NoDetour, LoadsSerialized, Inside,
      TypeOK, Points, Goto, Free, Release, Cancelled
<1>1. CASE CancelOutside(t)
  BY <1>1 DEF CancelOutside
<1>2. CASE CancelUnload(t)
  BY <1>2 DEF CancelUnload
<1>3. CASE CancelLoad(t)
  BY <1>3 DEF CancelLoad
<1>4. CASE CancelDrain(t)
  BY <1>4 DEF CancelDrain
<1>5. CASE CancelRelock(t)
  BY <1>5 DEF CancelRelock
<1> QED
  BY <1>1, <1>2, <1>3, <1>4, <1>5 DEF Cancel

\* LockInv is an invariant.
LEMMA SerializedLock == Spec => []LockInv
<1>1. Init => LockInv
  BY TypeInit DEF Init, LockInv, TypeInv, NoDetour, LoadsSerialized, Inside
<1>2. TypeInv /\ TypeInv' /\ LockInv /\ [Next]_vars => LockInv'
  <2> SUFFICES ASSUME TypeInv, TypeInv', LockInv, [Next]_vars
               PROVE  (NoDetour /\ LoadsSerialized)'
    BY DEF LockInv, TypeInv
  <2> USE PhaseRouterAssumption
        DEF LockInv, NoDetour, LoadsSerialized, Inside, TypeOK, TypeInv, Goto,
      Release
  <2>1. CASE UNCHANGED vars
    BY <2>1 DEF vars
  <2>2. ASSUME NEW t \in Callers, NEW s \in Slots, Call(t, s)
        PROVE  (NoDetour /\ LoadsSerialized)'
    BY <2>2 DEF Call
  <2>3. ASSUME NEW t \in Callers, CallShutdown(t)
        PROVE  (NoDetour /\ LoadsSerialized)'
    BY <2>3 DEF CallShutdown, Call
  <2>4. ASSUME NEW t \in Callers, LoadOutOfMemory(t)
        PROVE  (NoDetour /\ LoadsSerialized)'
    BY <2>4 DEF LoadOutOfMemory
  <2> QED
    BY <2>1, <2>2, <2>3, <2>4, AcquireLock, ProceedLock, CancelLock DEF Next
<1> QED
  BY <1>1, <1>2, TypeInit, TypeStep, PTL DEF Spec

\* "State transitions serialized by _lock": as long as no call ran out of memory,
\* or none was cancelled, whoever unloads or loads holds the lock.
THEOREM SerializedLoads == Spec => []LoadsSerialized
<1>1. LockInv => LoadsSerialized
  BY DEF LockInv
<1> QED
  BY <1>1, SerializedLock, PTL

-----------------------------------------------------------------------------
(* The cache.  CachedIsLoaded speaks of a free lock; it is kept by what    *)
(* holds while the lock is taken: a load starts with no slot cached.       *)

CacheInv == ooms = 0 /\ cancels = 0 =>
    /\ \A t \in Callers : pc[t] = "load" => slot = None
    /\ Free /\ slot # None => slot \in loaded /\ state = <<"active", slot>>

\* Steps at the lock preserve CacheInv.
LEMMA AcquireCache ==
  ASSUME LockInv, LockInv', CacheInv, NEW t \in Callers, Acquire(t)
  PROVE  CacheInv'
<1> USE PhaseRouterAssumption
      DEF CacheInv, LockInv, NoDetour, LoadsSerialized, Inside, TypeOK, Goto, Free,
          Release, Cancelled
<1>1. CASE UseCached(t)
  BY <1>1 DEF UseCached
<1>2. CASE StartUnload(t)
  BY <1>2 DEF StartUnload
<1>3. CASE StartLoad(t)
  BY <1>3 DEF StartLoad
<1>4. CASE ShutdownIdle(t)
  BY <1>4 DEF ShutdownIdle
<1>5. CASE Relock(t)
  BY <1>5 DEF Relock
<1>6. CASE Quit(t)
  BY <1>6 DEF Quit
<1> QED
  BY <1>1, <1>2, <1>3, <1>4, <1>5, <1>6 DEF Acquire

\* Steps of a caller past the lock preserve CacheInv.
LEMMA ProceedCache ==
  ASSUME LockInv, LockInv', CacheInv, NEW t \in Callers, Proceed(t)
  PROVE  CacheInv'
<1> USE PhaseRouterAssumption
      DEF CacheInv, LockInv, NoDetour, LoadsSerialized, Inside, TypeOK, Goto, Free,
          Release, Cancelled
<1>1. CASE UnloadIdle(t)
  BY <1>1 DEF UnloadIdle
<1>2. CASE Settle(t)
  BY <1>2 DEF Settle
<1>3. CASE SettleOutside(t)
  BY <1>3 DEF SettleOutside
<1>4. CASE LoadDone(t)
  BY <1>4 DEF LoadDone
<1>5. CASE LoadFallback(t)
  BY <1>5 DEF LoadFallback, Drained
<1>6. CASE LoadFails(t)
  BY <1>6 DEF LoadFails, Drained, AfterPoll
<1>7. CASE Predict(t)
  BY <1>7 DEF Predict
<1>8. CASE PredictEnds(t)
  BY <1>8 DEF PredictEnds
<1> QED
  BY <1>1, <1>2, <1>3, <1>4, <1>5, <1>6, <1>7, <1>8 DEF Proceed

\* Cancellations preserve CacheInv.
LEMMA CancelCache ==
  ASSUME LockInv, LockInv', CacheInv, NEW t \in Callers, Cancel(t)
  PROVE  CacheInv'
<1> USE PhaseRouterAssumption
      DEF CacheInv, LockInv, NoDetour, LoadsSerialized, Inside, TypeOK, Goto, Free,
          Release, Cancelled
<1>1. CASE CancelOutside(t)
  BY <1>1 DEF CancelOutside
<1>2. CASE CancelUnload(t)
  BY <1>2 DEF CancelUnload
<1>3. CASE CancelLoad(t)
  BY <1>3 DEF CancelLoad
<1>4. CASE CancelDrain(t)
  BY <1>4 DEF CancelDrain
<1>5. CASE CancelRelock(t)
  BY <1>5 DEF CancelRelock
<1> QED
  BY <1>1, <1>2, <1>3, <1>4, <1>5 DEF Cancel

\* Every step preserves CacheInv.
LEMMA StepCache ==
  ASSUME LockInv, LockInv', CacheInv, [Next]_vars
  PROVE  CacheInv'
<1> USE PhaseRouterAssumption
      DEF CacheInv, LockInv, NoDetour, LoadsSerialized, Inside, TypeOK, Goto, Free,
          Release, Cancelled
<1>1. CASE UNCHANGED vars
  BY <1>1 DEF vars
<1>2. ASSUME NEW t \in Callers, NEW s \in Slots, Call(t, s) PROVE CacheInv'
  BY <1>2 DEF Call
<1>3. ASSUME NEW t \in Callers, CallShutdown(t) PROVE CacheInv'
  BY <1>3 DEF CallShutdown, Call
<1>4. ASSUME NEW t \in Callers, LoadOutOfMemory(t) PROVE CacheInv'
  BY <1>4 DEF LoadOutOfMemory
<1> QED
  BY <1>1, <1>2, <1>3, <1>4, AcquireCache, ProceedCache, CancelCache DEF Next

\* Until the first out-of-memory error and the first cancellation, a free lock
\* means that the instance ensure_loaded would return from its cache is resident
\* in LM Studio and that _state agrees.
THEOREM CacheTruthful == Spec => []CachedIsLoaded
<1>1. Init => CacheInv
  BY DEF Init, CacheInv
<1>2. CacheInv => CachedIsLoaded
  BY DEF CacheInv, CachedIsLoaded
<1>3. LockInv /\ LockInv' /\ CacheInv /\ [Next]_vars => CacheInv'
  BY StepCache
<1> QED
  BY <1>1, <1>2, <1>3, SerializedLock, PTL DEF Spec

-----------------------------------------------------------------------------
(* Refinement.  When the worker process is in sight, no load runs out of   *)
(* memory and no call is cancelled, at most the cached slot is resident    *)
(* and a load starts with the memory empty.                                *)

Smooth ==
    WorkerVisible = TRUE /\ MaxOoms = 0 /\ MaxLeftovers = 0 /\ MaxCancels = 0

SwapInv ==
    /\ loaded \subseteq {slot}
    /\ \A t \in Callers : pc[t] = "load" => slot = None

\* Steps at the lock preserve SwapInv.
LEMMA AcquireSwap ==
  ASSUME Smooth, LockInv, LockInv', SwapInv, NEW t \in Callers, Acquire(t)
  PROVE  SwapInv'
<1> USE PhaseRouterAssumption
      DEF SwapInv, Smooth, LockInv, NoDetour, LoadsSerialized, Inside, TypeOK, Goto,
          Free, Release, Cancelled
<1>1. CASE UseCached(t)
  BY <1>1 DEF UseCached
<1>2. CASE StartUnload(t)
  BY <1>2 DEF StartUnload
<1>3. CASE StartLoad(t)
  BY <1>3 DEF StartLoad
<1>4. CASE ShutdownIdle(t)
  BY <1>4 DEF ShutdownIdle
<1>5. CASE Relock(t)
  BY <1>5 DEF Relock
<1>6. CASE Quit(t)
  BY <1>6 DEF Quit
<1> QED
  BY <1>1, <1>2, <1>3, <1>4, <1>5, <1>6 DEF Acquire

\* Steps of a caller past the lock preserve SwapInv.
LEMMA ProceedSwap ==
  ASSUME Smooth, LockInv, LockInv', SwapInv, NEW t \in Callers, Proceed(t)
  PROVE  SwapInv'
<1> USE PhaseRouterAssumption
      DEF SwapInv, Smooth, LockInv, NoDetour, LoadsSerialized, Inside, TypeOK, Goto,
          Free, Release, Cancelled, AfterPoll
<1>1. CASE UnloadIdle(t)
  BY <1>1 DEF UnloadIdle
<1>2. CASE Settle(t)
  BY <1>2 DEF Settle
<1>3. CASE SettleOutside(t)
  BY <1>3 DEF SettleOutside
<1>4. CASE LoadDone(t)
  BY <1>4 DEF LoadDone
<1>5. CASE LoadFallback(t)
  BY <1>5 DEF LoadFallback, Drained
<1>6. CASE LoadFails(t)
  BY <1>6 DEF LoadFails, Drained, AfterPoll
<1>7. CASE Predict(t)
  BY <1>7 DEF Predict
<1>8. CASE PredictEnds(t)
  BY <1>8 DEF PredictEnds
<1> QED
  BY <1>1, <1>2, <1>3, <1>4, <1>5, <1>6, <1>7, <1>8 DEF Proceed

\* Cancellations preserve SwapInv.
LEMMA CancelSwap ==
  ASSUME Smooth, LockInv, LockInv', SwapInv, NEW t \in Callers, Cancel(t)
  PROVE  SwapInv'
<1> USE PhaseRouterAssumption
      DEF SwapInv, Smooth, LockInv, NoDetour, LoadsSerialized, Inside, TypeOK, Goto,
          Free, Release, Cancelled
<1>1. CASE CancelOutside(t)
  BY <1>1 DEF CancelOutside
<1>2. CASE CancelUnload(t)
  BY <1>2 DEF CancelUnload
<1>3. CASE CancelLoad(t)
  BY <1>3 DEF CancelLoad
<1>4. CASE CancelDrain(t)
  BY <1>4 DEF CancelDrain
<1>5. CASE CancelRelock(t)
  BY <1>5 DEF CancelRelock
<1> QED
  BY <1>1, <1>2, <1>3, <1>4, <1>5 DEF Cancel

\* Every step preserves SwapInv.
LEMMA StepSwap ==
  ASSUME Smooth, LockInv, LockInv', SwapInv, [Next]_vars
  PROVE  SwapInv'
<1> USE PhaseRouterAssumption
      DEF SwapInv, Smooth, LockInv, NoDetour, LoadsSerialized, Inside, TypeOK, Goto,
          Free, Release, Cancelled
<1>1. CASE UNCHANGED vars
  BY <1>1 DEF vars
<1>2. ASSUME NEW t \in Callers, NEW s \in Slots, Call(t, s) PROVE SwapInv'
  BY <1>2 DEF Call
<1>3. ASSUME NEW t \in Callers, CallShutdown(t) PROVE SwapInv'
  BY <1>3 DEF CallShutdown, Call
<1>4. ASSUME NEW t \in Callers, LoadOutOfMemory(t) PROVE SwapInv'
  BY <1>4 DEF LoadOutOfMemory
<1> QED
  BY <1>1, <1>2, <1>3, <1>4, AcquireSwap, ProceedSwap, CancelSwap DEF Next

\* "Sequential cold-swap": on a smooth host, every behaviour of PhaseRouter is,
\* on LM Studio's memory, one of ColdSwap: at most one model is resident, and
\* another takes its place only after the memory was empty.
THEOREM ImplementsColdSwap == Smooth => (Spec => SwapsCold)
<1> SUFFICES ASSUME Smooth PROVE Spec => SwapsCold
  OBVIOUS
<1>1. Init => SwapInv /\ Memory!Init
  BY DEF Init, SwapInv, Memory!Init
<1>2. LockInv /\ LockInv' /\ SwapInv /\ [Next]_vars => SwapInv'
  BY StepSwap
<1>3. LockInv /\ LockInv' /\ SwapInv /\ SwapInv' /\ [Next]_vars
        => [Memory!Next]_loaded
  <2> SUFFICES ASSUME LockInv, LockInv', SwapInv, SwapInv', [Next]_vars,
                      loaded' # loaded
               PROVE  Memory!Next
    OBVIOUS
  <2> USE PhaseRouterAssumption
        DEF SwapInv, LockInv, TypeOK, Memory!Next, Memory!Load, Memory!Drop
  <2>1. ASSUME NEW t \in Callers, UnloadIdle(t) PROVE Memory!Next
    BY <2>1 DEF UnloadIdle
  <2>2. ASSUME NEW t \in Callers, Settle(t) PROVE Memory!Next
    BY <2>2 DEF Settle, AfterPoll, Smooth
  <2>3. ASSUME NEW t \in Callers, SettleOutside(t) PROVE Memory!Next
    BY <2>3 DEF SettleOutside, AfterPoll, Smooth
  <2>4. ASSUME NEW t \in Callers, LoadDone(t) PROVE Memory!Next
    <3>1. pc[t] = "load" /\ slot = None /\ loaded = {}
      BY <2>4 DEF LoadDone, NoDetour, Smooth
    <3>2. want[t] \in Slots
      BY <2>4, <3>1 DEF LoadDone
    <3> QED
      BY <2>4, <3>1, <3>2 DEF LoadDone
  <2>5. ASSUME NEW t \in Callers, LoadFallback(t) PROVE Memory!Next
    <3>1. pc[t] = "load" /\ slot = None /\ loaded = {}
      BY <2>5 DEF LoadFallback, NoDetour, Smooth
    <3>2. loaded' = {want[t]} /\ want[t] \in Slots
      BY <2>5, <3>1 DEF LoadFallback, Drained, AfterPoll, Smooth
    <3> QED
      BY <3>1, <3>2
  <2>6. ASSUME NEW t \in Callers, Cancel(t) PROVE FALSE
    BY <2>6 DEF Cancel, CancelOutside, CancelUnload, CancelLoad, CancelDrain,
                CancelRelock, Cancelled, Smooth
  <2> QED
    BY <2>1, <2>2, <2>3, <2>4, <2>5, <2>6
    DEF Next, vars, Call, CallShutdown, Acquire, UseCached, StartUnload, StartLoad,
        ShutdownIdle, Relock, Quit, Proceed, LoadFails, Predict, PredictEnds,
        LoadOutOfMemory
<1> QED
  BY <1>1, <1>2, <1>3, SerializedLock, PTL DEF Spec, SwapsCold, Memory!Spec
=============================================================================
