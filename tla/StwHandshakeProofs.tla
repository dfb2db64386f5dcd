------------------------- MODULE StwHandshakeProofs -------------------------
(***************************************************************************)
(* Proofs about StwHandshake, for any number of threads and iterations and *)
(* any bounds: type correctness, the safety properties TLC checks on small *)
(* instances, and that the handshake implements StopTheWorld.              *)
(***************************************************************************)
EXTENDS StwHandshake, TLAPS

\* What the code position of a mutator says of its context: when it is
\* registered, when it is active, when its two boxes exist.
RunningPcs    == PollStops \union {"gcPoll", "alloc", "write", "destroy", "panicked"}
RegisteredPcs == RunningPcs \union {"deactivate", "remove"}
ActivePcs     == RunningPcs \union {"push", "deactivate"}

ContextInv ==
  \A t \in Threads :
    /\ t \in threads <=> pc[t] \in RegisteredPcs
    /\ active[t] <=> pc[t] \in ActivePcs
    /\ pc[t] \in RunningPcs \union {"push"} => mutator[t] = "live"
    /\ pc[t] \in RegisteredPcs \union {"push"} => ctx[t] = "live"
    /\ blocked[t] # 0 => pc[t] \in PollStops

\* A mutator that has not left its loop has an iteration left.
LoopInv ==
  \A t \in Threads :
    pc[t] \in (RunningPcs \ {"destroy"}) \union {"start", "push"} => left[t] > 0

\* requested is raised exactly while the collector is out of idle, and then the
\* epoch is not the 0 that blocked_epoch uses for "not blocked".
RequestInv ==
  /\ requested <=> gcPc # "idle"
  /\ requested => epoch # 0

\* Only threads inside the wait loop, and only during a request, sleep on gc.wake.
WaitInv ==
  \A t \in Threads : t \in waiters => requested /\ blocked[t] # 0

\* While the collector visits, every captive has been visited or is still to be.
ScanInv ==
  gcPc = "visit" => captives \subseteq scanned \union visit

JoinInv == result = "joining" => joined < NumThreads

IInv ==
  /\ TypeOK
  /\ ContextInv
  /\ LoopInv
  /\ RequestInv
  /\ WaitInv
  /\ CaptivesStayBlocked
  /\ ScanInv
  /\ EveryCaptiveScanned
  /\ JoinInv

LEMMA ThreadsFact == 1 \in Threads /\ Gc \notin Threads /\ Threads \subseteq Nat
  BY NumThreadsAssumption DEF Threads, Gc

\* The initial states satisfy the invariant.
LEMMA InitInv == Init => IInv
  <1> SUFFICES ASSUME Init PROVE IInv
    OBVIOUS
  <1>1. TypeOK
    <2>1. requested \in BOOLEAN
      BY DEF Init
    <2>2. asked \in BOOLEAN /\ active \in [Threads -> BOOLEAN]
      BY DEF Init
    <2>3. epoch \in Nat /\ blocked \in [Threads -> Nat] /\ joined \in 0 .. NumThreads
      BY NumThreadsAssumption DEF Init
    <2>4. left \in [Threads -> 0 .. Iterations]
      BY IterationsAssumption DEF Init
    <2>5. pc \in [Threads -> MutatorPcs] /\ gcPc \in GcPcs
      BY DEF Init, MutatorPcs, GcPcs
    <2>6. QED
      BY <2>1, <2>2, <2>3, <2>4, <2>5 DEF Init, TypeOK
  <1>2. ContextInv
    BY DEF Init, ContextInv, RegisteredPcs, ActivePcs, RunningPcs, PollStops
  <1>3. WaitInv /\ CaptivesStayBlocked /\ ScanInv /\ EveryCaptiveScanned
    BY DEF Init, WaitInv, CaptivesStayBlocked, PausePcs, ScanInv, EveryCaptiveScanned
  <1>4. RequestInv
    BY DEF Init, RequestInv
  <1>5. JoinInv
    BY NumThreadsAssumption DEF Init, JoinInv
  <1>6. LoopInv
    BY IterationsAssumption DEF Init, LoopInv
  <1>7. QED
    BY <1>1, <1>2, <1>3, <1>4, <1>5, <1>6 DEF IInv

\* Type correctness is preserved.
LEMMA NextType == ASSUME IInv, [Next]_vars PROVE TypeOK'
  <1> USE DEF IInv, TypeOK, gcState, contextVars, mutatorVars, collectVars, stressVars
  <1>1. ASSUME NEW t \in Threads, Mutator(t) PROVE TypeOK'
    <2> USE DEF Goto, MutatorPcs, PollStops
    <2>1. CASE BindContext(t)
      BY <2>1 DEF BindContext
    <2>2. CASE BindPush(t)
      BY <2>2 DEF BindPush
    <2>3. CASE StopForGc(t)
      BY <2>3 DEF StopForGc, AfterStop
    <2>4. CASE WakeInStop(t)
      BY <2>4 DEF WakeInStop, AfterStop
    <2>5. CASE AskForGc(t)
      BY <2>5 DEF AskForGc
    <2>6. CASE PollNothing(t) \/ Allocate(t) \/ PanicInAlloc(t)
      BY <2>6 DEF PollNothing, Allocate, PanicInAlloc
    <2>7. CASE WriteObject(t)
      BY <2>7, IterationsAssumption DEF WriteObject, LoopInv, RunningPcs
    <2>8. CASE UnbindDestroy(t) \/ UnbindDeactivate(t)
      BY <2>8 DEF UnbindDestroy, UnbindDeactivate
    <2>9. CASE UnbindRemove(t) \/ UnbindNotify(t)
      BY <2>9 DEF UnbindRemove, UnbindNotify
    <2>10. QED
      BY <1>1, <2>1, <2>2, <2>3, <2>4, <2>5, <2>6, <2>7, <2>8, <2>9
      DEF Mutator, TakesGcState, RunsFreely, Unbind
  <1>2. ASSUME Collector PROVE TypeOK'
    <2> USE DEF GcPcs, PausePcs
    <2>1. CASE GcRequest
      BY <2>1 DEF GcRequest
    <2>2. CASE GcCheck
      BY <2>2 DEF GcCheck
    <2>3. CASE GcWait \/ GcWake
      BY <2>3 DEF GcWait, GcWake
    <2>4. CASE GcSnapshot
      BY <2>4 DEF GcSnapshot
    <2>5. CASE \E t \in Threads : GcVisit(t)
      BY <2>5 DEF GcVisit
    <2>6. CASE GcCollect \/ GcResume
      BY <2>6 DEF GcCollect, GcResume
    <2>7. QED
      BY <1>2, <2>1, <2>2, <2>3, <2>4, <2>5, <2>6 DEF Collector
  <1>3. CASE JoinWorker
    BY <1>3, NumThreadsAssumption DEF JoinWorker, JoinInv
  <1>4. CASE \E w \in Threads \union {Gc} : SpuriousWake(w)
    BY <1>4 DEF SpuriousWake
  <1>5. CASE UNCHANGED vars
    BY <1>5 DEF vars
  <1>6. QED
    BY <1>1, <1>2, <1>3, <1>4, <1>5 DEF Next

\* What a position says of a context is preserved: the steps of a mutator move
\* its own, and nobody else writes a context.
LEMMA NextContext == ASSUME IInv, [Next]_vars PROVE ContextInv'
  <1> USE DEF IInv, TypeOK, ContextInv, gcState, contextVars, mutatorVars
  <1>1. ASSUME NEW t \in Threads, Mutator(t) PROVE ContextInv'
    <2> USE DEF Goto, PollStops, RunningPcs, RegisteredPcs, ActivePcs
    <2>1. CASE BindContext(t)
      BY <2>1 DEF BindContext
    <2>2. CASE BindPush(t)
      BY <2>2 DEF BindPush
    <2>3. CASE StopForGc(t)
      BY <2>3 DEF StopForGc, AfterStop
    <2>4. CASE WakeInStop(t)
      BY <2>4 DEF WakeInStop, AfterStop
    <2>5. CASE AskForGc(t)
      BY <2>5 DEF AskForGc
    <2>6. CASE PollNothing(t) \/ Allocate(t) \/ PanicInAlloc(t)
      BY <2>6 DEF PollNothing, Allocate, PanicInAlloc
    <2>7. CASE WriteObject(t)
      BY <2>7 DEF WriteObject
    <2>8. CASE UnbindDestroy(t)
      BY <2>8 DEF UnbindDestroy
    <2>9. CASE UnbindDeactivate(t)
      BY <2>9 DEF UnbindDeactivate
    <2>10. CASE UnbindRemove(t)
      BY <2>10 DEF UnbindRemove
    <2>11. CASE UnbindNotify(t)
      BY <2>11 DEF UnbindNotify
    <2>12. QED
      BY <1>1, <2>1, <2>2, <2>3, <2>4, <2>5, <2>6, <2>7, <2>8, <2>9, <2>10, <2>11
      DEF Mutator, TakesGcState, RunsFreely, Unbind
  <1>2. ASSUME UNCHANGED <<threads, contextVars, pc>> PROVE ContextInv'
    BY <1>2
  <1>3. Collector \/ JoinWorker \/ (\E w \in Threads \union {Gc} : SpuriousWake(w))
          \/ UNCHANGED vars => UNCHANGED <<threads, contextVars, pc>>
    BY DEF Collector, GcRequest, GcCheck, GcWait, GcWake, GcSnapshot, GcVisit,
           GcCollect, GcResume, JoinWorker, SpuriousWake, vars
  <1>4. QED
    BY <1>1, <1>2, <1>3 DEF Next

\* WriteObject leaves the loop when the count reaches 0, and nobody enters it
\* with 0.
LEMMA NextLoop == ASSUME IInv, [Next]_vars PROVE LoopInv'
  <1> USE DEF IInv, TypeOK, LoopInv, gcState, contextVars, mutatorVars
  <1>1. ASSUME NEW t \in Threads, Mutator(t) PROVE LoopInv'
    <2> USE IterationsAssumption DEF Goto, PollStops, RunningPcs
    <2>1. CASE BindContext(t) \/ BindPush(t)
      BY <2>1 DEF BindContext, BindPush
    <2>2. CASE StopForGc(t) \/ WakeInStop(t)
      BY <2>2 DEF StopForGc, WakeInStop, AfterStop, ContextInv
    <2>3. CASE AskForGc(t) \/ PollNothing(t) \/ Allocate(t) \/ PanicInAlloc(t)
      BY <2>3 DEF AskForGc, PollNothing, Allocate, PanicInAlloc
    <2>4. CASE WriteObject(t)
      BY <2>4 DEF WriteObject
    <2>5. CASE Unbind(t)
      BY <2>5 DEF Unbind, UnbindDestroy, UnbindDeactivate, UnbindRemove, UnbindNotify
    <2>6. QED
      BY <1>1, <2>1, <2>2, <2>3, <2>4, <2>5 DEF Mutator, TakesGcState, RunsFreely
  <1>2. ASSUME UNCHANGED mutatorVars PROVE LoopInv'
    BY <1>2
  <1>3. Collector \/ JoinWorker \/ (\E w \in Threads \union {Gc} : SpuriousWake(w))
          \/ UNCHANGED vars => UNCHANGED mutatorVars
    BY DEF Collector, GcRequest, GcCheck, GcWait, GcWake, GcSnapshot, GcVisit,
           GcCollect, GcResume, JoinWorker, SpuriousWake, vars
  <1>4. QED
    BY <1>1, <1>2, <1>3 DEF Next

\* The request flag follows the collector, and only resume_mutators, which wakes
\* every sleeper, lowers it.
LEMMA NextRequest == ASSUME IInv, [Next]_vars PROVE RequestInv' /\ WaitInv'
  <1> USE DEF IInv, TypeOK, RequestInv, WaitInv, gcState, contextVars, mutatorVars,
              collectVars
  <1>1. ASSUME NEW t \in Threads, Mutator(t) PROVE RequestInv' /\ WaitInv'
    <2>1. CASE BindContext(t) \/ BindPush(t)
      BY <2>1 DEF BindContext, BindPush
    <2>2. CASE StopForGc(t)
      BY <2>2 DEF StopForGc
    <2>3. CASE WakeInStop(t)
      BY <2>3 DEF WakeInStop
    <2>4. CASE AskForGc(t) \/ PollNothing(t) \/ Allocate(t) \/ PanicInAlloc(t) \/ WriteObject(t)
      BY <2>4 DEF AskForGc, PollNothing, Allocate, PanicInAlloc, WriteObject
    <2>5. CASE Unbind(t)
      BY <2>5 DEF Unbind, UnbindDestroy, UnbindDeactivate, UnbindRemove, UnbindNotify
    <2>6. QED
      BY <1>1, <2>1, <2>2, <2>3, <2>4, <2>5 DEF Mutator, TakesGcState, RunsFreely
  <1>2. ASSUME Collector PROVE RequestInv' /\ WaitInv'
    <2>1. CASE GcRequest
      BY <2>1 DEF GcRequest
    <2>2. CASE GcCheck
      BY <2>2 DEF GcCheck
    <2>3. CASE GcWait
      BY <2>3, ThreadsFact DEF GcWait
    <2>4. CASE GcWake \/ GcSnapshot \/ \E t \in Threads : GcVisit(t)
      BY <2>4 DEF GcWake, GcSnapshot, GcVisit
    <2>5. CASE GcCollect \/ GcResume
      BY <2>5 DEF GcCollect, GcResume
    <2>6. QED
      BY <1>2, <2>1, <2>2, <2>3, <2>4, <2>5 DEF Collector
  <1>3. CASE JoinWorker
    BY <1>3 DEF JoinWorker
  <1>4. CASE \E w \in Threads \union {Gc} : SpuriousWake(w)
    BY <1>4 DEF SpuriousWake
  <1>5. CASE UNCHANGED vars
    BY <1>5 DEF vars
  <1>6. QED
    BY <1>1, <1>2, <1>3, <1>4, <1>5 DEF Next

\* No step of a mutator takes a captive out of stop_for_gc while the world is
\* stopped: the captive is at a call of stop_for_gc and not runnable there.
LEMMA NextCaptives == ASSUME IInv, [Next]_vars PROVE CaptivesStayBlocked'
  <1> USE DEF IInv, TypeOK, CaptivesStayBlocked, gcState, contextVars, mutatorVars,
              collectVars
  <1>1. ASSUME NEW t \in Threads, Mutator(t) PROVE CaptivesStayBlocked'
    <2> USE DEF Goto, PollStops
    <2>0. gcPc \in PausePcs => requested /\ epoch # 0
      BY DEF RequestInv, PausePcs
    <2>1. CASE BindContext(t) \/ BindPush(t)
      BY <2>1 DEF BindContext, BindPush
    <2>2. CASE StopForGc(t)
      BY <2>0, <2>2 DEF StopForGc
    <2>3. CASE WakeInStop(t)
      BY <2>0, <2>3 DEF WakeInStop
    <2>4. CASE AskForGc(t) \/ PollNothing(t) \/ Allocate(t) \/ PanicInAlloc(t)
      BY <2>4 DEF AskForGc, PollNothing, Allocate, PanicInAlloc
    <2>5. CASE WriteObject(t)
      BY <2>5 DEF WriteObject
    <2>6. CASE Unbind(t)
      BY <2>6 DEF Unbind, UnbindDestroy, UnbindDeactivate, UnbindRemove, UnbindNotify
    <2>7. QED
      BY <1>1, <2>1, <2>2, <2>3, <2>4, <2>5, <2>6 DEF Mutator, TakesGcState, RunsFreely
  <1>2. ASSUME Collector PROVE CaptivesStayBlocked'
    <2> USE DEF PausePcs
    <2>1. CASE GcRequest
      BY <2>1 DEF GcRequest
    <2>2. CASE GcCheck
      \* A counted mutator is blocked for an epoch that is not 0, so it is at a
      \* call of stop_for_gc, and its context is that of a running mutator.
      <3>1. ASSUME NEW t \in captives', AllBlocked
            PROVE  /\ pc[t] \in PollStops /\ blocked[t] = epoch
                   /\ t \in threads /\ active[t] /\ mutator[t] = "live"
        BY <2>2, <3>1 DEF GcCheck, AllBlocked, RequestInv, ContextInv, RunningPcs
      <3>2. QED
        BY <2>2, <3>1 DEF GcCheck
    <2>3. CASE GcWait \/ GcWake
      BY <2>3 DEF GcWait, GcWake
    <2>4. CASE GcSnapshot \/ \E t \in Threads : GcVisit(t)
      BY <2>4 DEF GcSnapshot, GcVisit
    <2>5. CASE GcCollect \/ GcResume
      BY <2>5 DEF GcCollect, GcResume
    <2>6. QED
      BY <1>2, <2>1, <2>2, <2>3, <2>4, <2>5 DEF Collector
  <1>3. CASE JoinWorker
    BY <1>3 DEF JoinWorker
  <1>4. CASE \E w \in Threads \union {Gc} : SpuriousWake(w)
    BY <1>4 DEF SpuriousWake
  <1>5. CASE UNCHANGED vars
    BY <1>5 DEF vars
  <1>6. QED
    BY <1>1, <1>2, <1>3, <1>4, <1>5 DEF Next

\* The list mutators() takes after gc.state was dropped holds every captive, and
\* a visit moves one from the list to the visited.
LEMMA NextScan == ASSUME IInv, [Next]_vars PROVE ScanInv' /\ EveryCaptiveScanned'
  <1> USE DEF IInv, TypeOK, ScanInv, EveryCaptiveScanned, collectVars
  <1>1. ASSUME Collector PROVE ScanInv' /\ EveryCaptiveScanned'
    <2>1. CASE GcRequest \/ GcCheck \/ GcWait \/ GcWake
      BY <2>1 DEF GcRequest, GcCheck, GcWait, GcWake
    <2>2. CASE GcSnapshot
      BY <2>2 DEF GcSnapshot, CaptivesStayBlocked, PausePcs
    <2>3. CASE \E t \in Threads : GcVisit(t)
      BY <2>3 DEF GcVisit
    <2>4. CASE GcCollect
      BY <2>4 DEF GcCollect
    <2>5. CASE GcResume
      BY <2>5 DEF GcResume
    <2>6. QED
      BY <1>1, <2>1, <2>2, <2>3, <2>4, <2>5 DEF Collector
  <1>2. ASSUME UNCHANGED collectVars PROVE ScanInv' /\ EveryCaptiveScanned'
    BY <1>2
  <1>3. (\E t \in Threads : Mutator(t)) \/ JoinWorker
          \/ (\E w \in Threads \union {Gc} : SpuriousWake(w)) \/ UNCHANGED vars
          => UNCHANGED collectVars
    BY DEF Mutator, TakesGcState, RunsFreely, BindContext, BindPush, StopForGc,
           WakeInStop, AskForGc, PollNothing, Allocate, PanicInAlloc, WriteObject,
           Unbind, UnbindDestroy, UnbindDeactivate, UnbindRemove, UnbindNotify,
           JoinWorker, SpuriousWake, vars
  <1>4. QED
    BY <1>1, <1>2, <1>3 DEF Next

\* The stress joins one worker after another and stops after the last.
LEMMA NextJoin == ASSUME IInv, [Next]_vars PROVE JoinInv'
  <1> USE DEF IInv, TypeOK, JoinInv, stressVars
  <1>1. CASE JoinWorker
    BY <1>1, NumThreadsAssumption DEF JoinWorker
  <1>2. ASSUME UNCHANGED stressVars PROVE JoinInv'
    BY <1>2
  <1>3. (\E t \in Threads : Mutator(t)) \/ Collector
          \/ (\E w \in Threads \union {Gc} : SpuriousWake(w)) \/ UNCHANGED vars
          => UNCHANGED stressVars
    BY DEF Mutator, TakesGcState, RunsFreely, BindContext, BindPush, StopForGc,
           WakeInStop, AskForGc, PollNothing, Allocate, PanicInAlloc, WriteObject,
           Unbind, UnbindDestroy, UnbindDeactivate, UnbindRemove, UnbindNotify,
           Collector, GcRequest, GcCheck, GcWait, GcWake, GcSnapshot, GcVisit,
           GcCollect, GcResume, SpuriousWake, vars
  <1>4. QED
    BY <1>1, <1>2, <1>3 DEF Next

\* The inductive invariant holds in every reachable state.
THEOREM Invariance == Spec => []IInv
  <1>1. Init => IInv
    BY InitInv
  <1>2. IInv /\ [Next]_vars => IInv'
    <2> SUFFICES ASSUME IInv, [Next]_vars PROVE IInv'
      OBVIOUS
    <2> QED
      BY NextType, NextContext, NextLoop, NextRequest, NextCaptives, NextScan, NextJoin DEF IInv
  <1>3. QED
    BY <1>1, <1>2, PTL DEF Spec

-----------------------------------------------------------------------------

\* The variables keep their types (the registry, the wait set, the epochs).
THEOREM TypeCorrect == Spec => []TypeOK
  <1>1. IInv => TypeOK
    BY DEF IInv
  <1>2. QED
    BY <1>1, Invariance, PTL

\* A mutator stop_all_mutators counted as blocked stays in stop_for_gc, alive and
\* registered, until resume_mutators, for any number of mutators.
THEOREM CaptivesSafe == Spec => []CaptivesStayBlocked
  <1>1. IInv => CaptivesStayBlocked
    BY DEF IInv
  <1>2. QED
    BY <1>1, Invariance, PTL

\* The roots of every counted mutator are visited before the tracing.
THEOREM CaptivesScanned == Spec => []EveryCaptiveScanned
  <1>1. IInv => EveryCaptiveScanned
    BY DEF IInv
  <1>2. QED
    BY <1>1, Invariance, PTL

\* No mutator sleeps on gc.wake in a world no collection is requested in.
THEOREM NoLostResume == Spec => []NoSleepAfterResume
  <1>1. IInv => NoSleepAfterResume
    BY DEF IInv, TypeOK, WaitInv, NoSleepAfterResume
  <1>2. QED
    BY <1>1, Invariance, PTL

\* The contexts the collector reads through the registry have not been freed.
THEOREM RegistrySafe == Spec => []RegisteredContextsLive
  <1>1. IInv => RegisteredContextsLive
    BY DEF IInv, TypeOK, ContextInv, RegisteredContextsLive
  <1>2. QED
    BY <1>1, Invariance, PTL

-----------------------------------------------------------------------------
(* What the collector waits for.                                           *)

\* The collector has given up its lock for the wait, or is about to, and nobody has
\* notified it since.
CollectorWaits == gcPc = "wait" \/ Gc \in waiters

\* unbind_thread has cleared active, and its notify_all is to come.
Leaving(t) == pc[t] \in {"remove", "notify"}

\* A registered mutator whose program goes on: it will park for this epoch, or unbind,
\* and tell the collector.
Coming(t) == t \in threads /\ active[t] /\ blocked[t] = 0 /\ pc[t] # "panicked"

\* The collector waits, and no mutator it knows of is on its way to wake it.
Hung == CollectorWaits /\ ~\E t \in Threads : Leaving(t) \/ Coming(t)

\* It waits although nobody has to stop any more and no notify_all of a leaver is to come.
NotifyLost == CollectorWaits /\ AllBlocked /\ ~\E t \in Threads : Leaving(t)

Stopping == gcPc \in {"check", "wait", "asleep"}

\* A mutator that stands in the way of the pause: it sleeps for another epoch, or is dead.
Obstructs(t) ==
  /\ Stopping
  /\ t \in threads /\ active[t]
  /\ blocked[t] \notin {0, epoch} \/ pc[t] = "panicked"

\* What makes a mutator stand in the way: a request that comes when it has been woken by
\* the last resume and is still to take gc.state; or its panic, before the request or after.
Obstructed(t) ==
  \/ GcRequest /\ t \notin waiters /\ blocked[t] = epoch /\ blocked[t] # 0
  \/ GcRequest /\ pc[t] = "panicked"
  \/ PanicInAlloc(t)

\* The collector is on gc.wake only in its wait, and outside stop_all_mutators a mutator
\* in stop_for_gc is there for the last epoch.
SleepInv ==
  /\ Gc \in waiters => gcPc = "asleep"
  /\ gcPc \in PausePcs \union {"idle"} => \A t \in Threads : blocked[t] \in {0, epoch}

LEMMA NextSleep ==
  ASSUME IInv, SleepInv, [Next]_vars
  PROVE  SleepInv'
<1> USE DEF gcState, contextVars, mutatorVars, collectVars, stressVars
<1>1. Gc \notin Threads
  BY ThreadsFact
<1>2. blocked \in [Threads -> Nat] /\ gcPc \in GcPcs
  BY DEF IInv, TypeOK
<1>3. ASSUME UNCHANGED <<gcPc, epoch, blocked>>, Gc \in waiters' => Gc \in waiters
      PROVE  SleepInv'
  BY <1>3 DEF SleepInv
<1>4. ASSUME NEW t \in Threads, Mutator(t)
      PROVE  SleepInv'
  <2>1. CASE StopForGc(t) \/ WakeInStop(t)
    <3>1. /\ UNCHANGED <<gcPc, epoch>> /\ (Gc \in waiters' => Gc \in waiters)
          /\ blocked' = blocked \/ \E n \in {0, epoch} : blocked' = [blocked EXCEPT ![t] = n]
      BY <1>1, <2>1 DEF StopForGc, WakeInStop
    <3> QED
      BY <1>2, <3>1 DEF SleepInv
  <2>2. CASE RunsFreely(t) \/ AskForGc(t) \/ PanicInAlloc(t)
    <3>1. UNCHANGED <<gcPc, epoch, blocked>> /\ waiters' \in {waiters, {}}
      BY <2>2 DEF RunsFreely, BindContext, BindPush, AskForGc, PollNothing, Allocate, PanicInAlloc,
                  WriteObject, Unbind, UnbindDestroy, UnbindDeactivate, UnbindRemove, UnbindNotify
    <3> QED
      BY <1>3, <3>1
  <2> QED
    BY <1>4, <2>1, <2>2 DEF Mutator, TakesGcState
<1>5. CASE GcRequest \/ GcWait \/ GcWake
  BY <1>5 DEF GcRequest, GcWait, GcWake, SleepInv, PausePcs
<1>6. CASE GcCheck
  \* The test passes when every registered mutator is blocked for this epoch; the others
  \* are not in stop_for_gc.
  <2>1. ASSUME AllBlocked, NEW t \in Threads
        PROVE  blocked[t] \in {0, epoch}
    BY <2>1 DEF AllBlocked, IInv, ContextInv, RegisteredPcs, ActivePcs, RunningPcs
  <2> QED
    BY <1>6, <2>1 DEF GcCheck, SleepInv, PausePcs
<1>7. CASE GcSnapshot \/ (\E t \in Threads : GcVisit(t)) \/ GcCollect \/ GcResume
  BY <1>7 DEF GcSnapshot, GcVisit, GcCollect, GcResume, SleepInv, PausePcs
<1>8. CASE JoinWorker \/ (\E w \in Threads \union {Gc} : SpuriousWake(w)) \/ UNCHANGED vars
  BY <1>3, <1>8 DEF JoinWorker, SpuriousWake, vars
<1> QED
  BY <1>4, <1>5, <1>6, <1>7, <1>8 DEF Next, Collector

\* Who stays registered keeps the collector waiting or obstructed; a notify is lost only by
\* the notify_all of unbind_thread between the collector's test and its wait.
LEMMA LostStep ==
  ASSUME IInv, SleepInv, [Next]_vars, NotifyLost', ~NotifyLost
  PROVE  gcPc = "wait" /\ \E t \in Threads : UnbindNotify(t)
<1> USE DEF gcState, contextVars, mutatorVars, collectVars, stressVars
<1>1. /\ pc \in [Threads -> MutatorPcs] /\ active \in [Threads -> BOOLEAN]
      /\ blocked \in [Threads -> Nat] /\ Gc \notin Threads
  BY ThreadsFact DEF IInv, TypeOK
<1>2. ASSUME UNCHANGED <<gcPc, epoch, blocked, active>>, threads \subseteq threads',
             Gc \in waiters' => Gc \in waiters,
             \A u \in Threads : Leaving(u) => Leaving(u)'
      PROVE  FALSE
  BY <1>2 DEF NotifyLost, CollectorWaits, AllBlocked
<1>3. ASSUME NEW t \in Threads, Mutator(t)
      PROVE  gcPc = "wait" /\ UnbindNotify(t)
  <2>1. ~BindContext(t)
    <3>1. SUFFICES ASSUME BindContext(t) PROVE FALSE
      OBVIOUS
    <3>2. pc[t] = "start" /\ t \notin threads
      BY <3>1 DEF BindContext, IInv, ContextInv, RegisteredPcs, RunningPcs, PollStops
    <3>3. /\ UNCHANGED <<gcPc, epoch, blocked, waiters, threads>>
          /\ \A u \in Threads : u # t => active'[u] = active[u] /\ pc'[u] = pc[u]
      BY <1>1, <3>1 DEF BindContext, Goto
    <3>4. threads \subseteq Threads
      BY DEF IInv, TypeOK
    <3> QED
      BY <3>2, <3>3, <3>4 DEF NotifyLost, CollectorWaits, AllBlocked, Leaving
  <2>2. ~(BindPush(t) \/ AskForGc(t) \/ PollNothing(t) \/ Allocate(t) \/ PanicInAlloc(t)
            \/ WriteObject(t) \/ UnbindDestroy(t))
    <3>1. SUFFICES ASSUME BindPush(t) \/ AskForGc(t) \/ PollNothing(t) \/ Allocate(t)
                            \/ PanicInAlloc(t) \/ WriteObject(t) \/ UnbindDestroy(t)
                   PROVE  FALSE
      OBVIOUS
    <3>2. /\ UNCHANGED <<gcPc, epoch, blocked, active, waiters>> /\ threads \subseteq threads'
          /\ ~Leaving(t) /\ \E label : Goto(t, label)
      BY <3>1 DEF BindPush, AskForGc, PollNothing, Allocate, PanicInAlloc, WriteObject,
                  UnbindDestroy, Leaving
    <3>3. \A u \in Threads : Leaving(u) => Leaving(u)'
      BY <1>1, <3>2 DEF Goto, Leaving
    <3> QED
      BY <1>2, <3>2, <3>3
  <2>3. ~StopForGc(t)
    <3>1. SUFFICES ASSUME StopForGc(t) PROVE FALSE
      OBVIOUS
    <3>2. gcPc' = gcPc /\ gcPc # "wait" /\ waiters' \in {waiters, {t}}
      BY <3>1 DEF StopForGc, GcStateFree
    <3>3. Gc \in waiters /\ requested
      BY <1>1, <3>2 DEF NotifyLost, CollectorWaits, SleepInv, IInv, RequestInv
    <3> QED
      BY <1>1, <3>1, <3>2, <3>3 DEF StopForGc, NotifyLost, CollectorWaits
  <2>4. ~WakeInStop(t)
    <3>1. SUFFICES ASSUME WakeInStop(t) PROVE FALSE
      OBVIOUS
    <3>2. gcPc' = gcPc /\ gcPc # "wait" /\ (Gc \in waiters' => Gc \in waiters) /\ active[t]
      BY <1>1, <3>1 DEF WakeInStop, GcStateFree, IInv, ContextInv, ActivePcs, RunningPcs
    <3>3. requested
      BY <3>2 DEF NotifyLost, CollectorWaits, SleepInv, IInv, RequestInv
    <3> QED
      BY <1>2, <3>1, <3>2, <3>3 DEF WakeInStop, Leaving
  <2>5. ~(UnbindDeactivate(t) \/ UnbindRemove(t))
    <3>1. UnbindDeactivate(t) \/ UnbindRemove(t) => Leaving(t)'
      BY <1>1 DEF UnbindDeactivate, UnbindRemove, Goto, Leaving
    <3> QED
      BY <3>1 DEF NotifyLost
  <2>6. UnbindNotify(t) => gcPc = "wait"
    BY DEF UnbindNotify, NotifyLost, CollectorWaits
  <2> QED
    BY <1>3, <2>1, <2>2, <2>3, <2>4, <2>5, <2>6 DEF Mutator, TakesGcState, RunsFreely, Unbind
<1>4. ~Collector
  <2>1. ~(GcRequest \/ GcWake)
    BY DEF GcRequest, GcWake, NotifyLost, CollectorWaits
  <2>2. ~GcCheck
    BY DEF GcCheck, NotifyLost, CollectorWaits, AllBlocked, SleepInv
  <2>3. ~GcWait
    BY DEF GcWait, NotifyLost, CollectorWaits, AllBlocked, Leaving
  <2>4. ~(GcSnapshot \/ (\E t \in Threads : GcVisit(t)) \/ GcCollect \/ GcResume)
    BY DEF GcSnapshot, GcVisit, GcCollect, GcResume, NotifyLost, CollectorWaits, SleepInv
  <2> QED
    BY <2>1, <2>2, <2>3, <2>4 DEF Collector
<1>5. ~(JoinWorker \/ (\E w \in Threads \union {Gc} : SpuriousWake(w)) \/ UNCHANGED vars)
  BY <1>2 DEF JoinWorker, SpuriousWake, vars, Leaving
<1> QED
  BY <1>3, <1>4, <1>5 DEF Next

\* A lost notify is made good only by a wake-up nobody sent, or by a thread that binds and
\* will park.
LEMMA FoundStep ==
  ASSUME IInv, SleepInv, [Next]_vars, NotifyLost, ~NotifyLost'
  PROVE  SpuriousWake(Gc) \/ \E t \in Threads : BindPush(t)
<1> USE DEF gcState, contextVars, mutatorVars, collectVars, stressVars
<1>1. /\ pc \in [Threads -> MutatorPcs] /\ active \in [Threads -> BOOLEAN]
      /\ blocked \in [Threads -> Nat] /\ threads \subseteq Threads /\ epoch \in Nat \ {0}
      /\ requested
  BY DEF IInv, TypeOK, RequestInv, SleepInv, NotifyLost, CollectorWaits
<1>2. ASSUME UNCHANGED <<gcPc, epoch, blocked, threads>>, Gc \in waiters => Gc \in waiters',
             \A u \in threads : active'[u] = active[u],
             \A u \in Threads : Leaving(u)' => Leaving(u)
      PROVE  FALSE
  BY <1>2 DEF NotifyLost, CollectorWaits, AllBlocked
<1>3. ASSUME NEW t \in Threads, Mutator(t)
      PROVE  BindPush(t)
  \* Every registered mutator is parked.
  <2>1. /\ t \in threads /\ active[t] => blocked[t] # 0 /\ pc[t] \in PollStops
        /\ ~Leaving(t)
    BY <1>1 DEF NotifyLost, AllBlocked, IInv, ContextInv
  <2>2. pc[t] \in RunningPcs \union {"deactivate"} => t \in threads /\ active[t]
    BY <1>1 DEF IInv, ContextInv, RegisteredPcs, ActivePcs
  <2>3. ~BindContext(t)
    <3>1. SUFFICES ASSUME BindContext(t) PROVE FALSE
      OBVIOUS
    <3>2. pc[t] = "start" /\ t \notin threads
      BY <3>1 DEF BindContext, IInv, ContextInv, RegisteredPcs, RunningPcs, PollStops
    <3>3. /\ UNCHANGED <<gcPc, epoch, blocked, waiters, threads>> /\ ~Leaving(t)'
          /\ \A u \in Threads : u # t => active'[u] = active[u] /\ pc'[u] = pc[u]
      BY <1>1, <3>1 DEF BindContext, Goto, Leaving
    <3> QED
      BY <1>1, <1>2, <3>2, <3>3 DEF Leaving
  <2>4. ~(AskForGc(t) \/ PollNothing(t) \/ Allocate(t) \/ PanicInAlloc(t) \/ WriteObject(t)
            \/ Unbind(t) \/ StopForGc(t))
    BY <2>1, <2>2 DEF AskForGc, PollNothing, Allocate, PanicInAlloc, WriteObject, Unbind, UnbindDestroy,
       UnbindDeactivate, UnbindRemove, UnbindNotify, StopForGc, RunningPcs, PollStops, Leaving
  <2>5. ~WakeInStop(t)
    <3>1. SUFFICES ASSUME WakeInStop(t) PROVE FALSE
      OBVIOUS
    <3>2. active[t]
      BY <1>1, <3>1 DEF WakeInStop, IInv, ContextInv, ActivePcs, RunningPcs
    <3> QED
      BY <1>1, <1>2, <3>1, <3>2 DEF WakeInStop, Leaving
  <2> QED
    BY <1>3, <2>3, <2>4, <2>5 DEF Mutator, TakesGcState, RunsFreely
<1>4. ~Collector
  <2>1. gcPc \in {"wait", "asleep"} /\ (gcPc = "asleep" => Gc \in waiters)
    BY DEF NotifyLost, CollectorWaits, SleepInv
  <2>2. ~GcWait
    BY DEF GcWait, NotifyLost, CollectorWaits, AllBlocked, Leaving
  <2> QED
    BY <2>1, <2>2 DEF Collector, GcRequest, GcCheck, GcWake, GcSnapshot, GcVisit, GcCollect,
                      GcResume, PausePcs
<1>5. ASSUME NEW w \in Threads \union {Gc}, SpuriousWake(w)
      PROVE  SpuriousWake(Gc)
  BY <1>2, <1>5 DEF SpuriousWake, Leaving
<1>6. ~(JoinWorker \/ UNCHANGED vars)
  BY <1>2 DEF JoinWorker, vars, Leaving
<1> QED
  BY <1>3, <1>4, <1>5, <1>6 DEF Next

\* A step moves at most one mutator, and the collector none: so who begins to stand in the
\* way, and whether it ever stops, is told from its own step and the collector's.
LEMMA ObstructedStep ==
  ASSUME IInv, SleepInv, [Next]_vars, NEW t \in Threads, Obstructs(t)', ~Obstructs(t)
  PROVE  Obstructed(t)
<1> USE DEF gcState, contextVars, mutatorVars, collectVars, stressVars
<1>1. /\ pc \in [Threads -> MutatorPcs] /\ active \in [Threads -> BOOLEAN]
      /\ blocked \in [Threads -> Nat] /\ epoch \in Nat
  BY DEF IInv, TypeOK
<1>2. ASSUME NEW u \in Threads, Mutator(u)
      PROVE  u = t /\ PanicInAlloc(t)
  <2>1. /\ UNCHANGED <<gcPc, epoch>>
        /\ u # t => /\ pc'[t] = pc[t] /\ active'[t] = active[t] /\ blocked'[t] = blocked[t]
                    /\ t \in threads' <=> t \in threads
    BY <1>1, <1>2 DEF Mutator, TakesGcState, RunsFreely, BindContext, BindPush, StopForGc, WakeInStop,
       AskForGc, PollNothing, Allocate, PanicInAlloc, WriteObject, Unbind, UnbindDestroy,
       UnbindDeactivate, UnbindRemove, UnbindNotify, Goto
  <2>2. u = t
    BY <2>1 DEF Obstructs, Stopping
  <2>3. ~(BindContext(t) \/ BindPush(t) \/ AskForGc(t) \/ PollNothing(t) \/ Allocate(t)
            \/ WriteObject(t) \/ Unbind(t))
    <3>1. SUFFICES ASSUME BindContext(t) \/ BindPush(t) \/ AskForGc(t) \/ PollNothing(t)
                            \/ Allocate(t) \/ WriteObject(t) \/ Unbind(t)
                   PROVE  FALSE
      OBVIOUS
    <3>2. blocked'[t] = blocked[t] /\ pc'[t] # "panicked" /\ pc[t] \notin {"poll", "pollBlock", "allocBlock"}
      BY <1>1, <3>1 DEF BindContext, BindPush, AskForGc, PollNothing, Allocate, WriteObject,
         Unbind, UnbindDestroy, UnbindDeactivate, UnbindRemove, UnbindNotify, Goto
    <3>3. blocked[t] = 0
      BY <1>1, <3>2 DEF IInv, ContextInv, PollStops
    <3> QED
      BY <3>2, <3>3 DEF Obstructs
  <2>4. ~(StopForGc(t) \/ WakeInStop(t))
    <3>1. SUFFICES ASSUME StopForGc(t) \/ WakeInStop(t) PROVE FALSE
      OBVIOUS
    <3>2. pc'[t] # "panicked" /\ threads' = threads /\ active' = active /\ epoch' = epoch
      BY <1>1, <3>1 DEF StopForGc, WakeInStop, Goto, AfterStop, IInv, ContextInv, PollStops
    <3>3. blocked'[t] \in {0, epoch, blocked[t]}
      BY <1>1, <3>1 DEF StopForGc, WakeInStop
    <3> QED
      BY <2>1, <3>2, <3>3 DEF Obstructs, Stopping
  <2> QED
    BY <1>2, <2>2, <2>3, <2>4 DEF Mutator, TakesGcState, RunsFreely
<1>3. ASSUME GcRequest
      PROVE  Obstructed(t)
  <2>1. ~requested /\ blocked[t] \in {0, epoch} /\ blocked'[t] = blocked[t] /\ pc'[t] = pc[t]
    BY <1>1, <1>3 DEF GcRequest, SleepInv, IInv, RequestInv
  <2>2. t \notin waiters
    BY <2>1 DEF IInv, WaitInv
  <2> QED
    BY <1>3, <2>1, <2>2 DEF Obstructs, Obstructed
<1>4. ~(GcCheck \/ GcWait \/ GcWake \/ GcSnapshot \/ (\E u \in Threads : GcVisit(u)) \/ GcCollect
          \/ GcResume)
  BY DEF GcCheck, GcWait, GcWake, GcSnapshot, GcVisit, GcCollect, GcResume, Obstructs, Stopping
<1>5. ~(JoinWorker \/ (\E w \in Threads \union {Gc} : SpuriousWake(w)) \/ UNCHANGED vars)
  BY DEF JoinWorker, SpuriousWake, vars, Obstructs, Stopping
<1> QED
  BY <1>2, <1>3, <1>4, <1>5 DEF Next, Collector, Obstructed

LEMMA ObstructsStep ==
  ASSUME IInv, [Next]_vars, NEW t \in Threads, Obstructs(t)
  PROVE  Obstructs(t)'
<1> USE DEF gcState, contextVars, mutatorVars, collectVars, stressVars
<1>1. /\ pc \in [Threads -> MutatorPcs] /\ active \in [Threads -> BOOLEAN]
      /\ blocked \in [Threads -> Nat] /\ requested /\ epoch \in Nat \ {0}
  BY DEF IInv, TypeOK, RequestInv, Obstructs, Stopping
<1>2. /\ blocked[t] # 0 => pc[t] \in PollStops
      /\ pc[t] = "panicked" => blocked[t] = 0
  BY <1>1 DEF IInv, ContextInv, PollStops
<1>3. ASSUME NEW u \in Threads, Mutator(u)
      PROVE  Obstructs(t)'
  <2>1. /\ UNCHANGED <<gcPc, epoch>>
        /\ u # t => /\ pc'[t] = pc[t] /\ active'[t] = active[t] /\ blocked'[t] = blocked[t]
                    /\ t \in threads' <=> t \in threads
    BY <1>1, <1>3 DEF Mutator, TakesGcState, RunsFreely, BindContext, BindPush, StopForGc, WakeInStop,
       AskForGc, PollNothing, Allocate, PanicInAlloc, WriteObject, Unbind, UnbindDestroy,
       UnbindDeactivate, UnbindRemove, UnbindNotify, Goto
  <2>2. CASE u # t
    BY <2>1, <2>2 DEF Obstructs, Stopping
  <2>3. CASE u = t
    \* Of itself it makes one step: to wait again.
    <3>1. pc[t] \in PollStops \union {"panicked"} /\ (pc[t] \in PollStops => blocked[t] # 0)
      BY <1>2 DEF Obstructs, PollStops
    <3>2. WakeInStop(t)
      BY <1>3, <2>3, <3>1 DEF Mutator, TakesGcState, RunsFreely, BindContext, BindPush, StopForGc,
         AskForGc, PollNothing, Allocate, PanicInAlloc, WriteObject, Unbind, UnbindDestroy,
         UnbindDeactivate, UnbindRemove, UnbindNotify, PollStops
    <3>3. UNCHANGED <<blocked, pc, threads, active>>
      BY <1>1, <3>2 DEF WakeInStop, Obstructs
    <3> QED
      BY <2>1, <3>3 DEF Obstructs, Stopping
  <2> QED
    BY <2>2, <2>3
<1>4. CASE GcCheck
  <2>1. ~AllBlocked
    BY <1>1, <1>2 DEF AllBlocked, Obstructs
  <2> QED
    BY <1>4, <2>1 DEF GcCheck, Obstructs, Stopping
<1>5. CASE GcWait \/ GcWake
  BY <1>5 DEF GcWait, GcWake, Obstructs, Stopping
<1>6. ~(GcRequest \/ GcSnapshot \/ (\E u \in Threads : GcVisit(u)) \/ GcCollect \/ GcResume)
  BY DEF GcRequest, GcSnapshot, GcVisit, GcCollect, GcResume, Obstructs, Stopping
<1>7. CASE JoinWorker \/ (\E w \in Threads \union {Gc} : SpuriousWake(w)) \/ UNCHANGED vars
  BY <1>7 DEF JoinWorker, SpuriousWake, vars, Obstructs, Stopping
<1> QED
  BY <1>3, <1>4, <1>5, <1>6, <1>7 DEF Next, Collector

\* A collector that waits while no mutator is on its way to wake it has lost the notify_all
\* of an unbind that came between its test and its wait, which only a spurious wake-up or a
\* newcomer makes good; or a mutator stands in its way, one the request found still on its
\* way out of the last pause, or a dead one, and that one stands there for ever.
THEOREM HangsHaveCauses ==
  Spec =>
    /\ [](Hung => NotifyLost \/ \E t \in Threads : Obstructs(t))
    /\ [][NotifyLost' /\ ~NotifyLost => gcPc = "wait" /\ \E t \in Threads : UnbindNotify(t)]_vars
    /\ [][NotifyLost /\ ~NotifyLost' => SpuriousWake(Gc) \/ \E t \in Threads : BindPush(t)]_vars
    /\ [][\A t \in Threads : Obstructs(t)' /\ ~Obstructs(t) => Obstructed(t)]_vars
    /\ [][\A t \in Threads : Obstructs(t) => Obstructs(t)']_vars
<1> DEFINE Lost     == NotifyLost' /\ ~NotifyLost => gcPc = "wait" /\ \E t \in Threads : UnbindNotify(t)
           Found    == NotifyLost /\ ~NotifyLost' => SpuriousWake(Gc) \/ \E t \in Threads : BindPush(t)
           Begins   == \A t \in Threads : Obstructs(t)' /\ ~Obstructs(t) => Obstructed(t)
           GoesOn   == \A t \in Threads : Obstructs(t) => Obstructs(t)'
<1>1. Init => SleepInv
  BY ThreadsFact DEF Init, SleepInv
<1>2. IInv /\ SleepInv /\ Hung => NotifyLost \/ \E t \in Threads : Obstructs(t)
  <2>1. IInv => threads \subseteq Threads
    BY DEF IInv, TypeOK
  <2> QED
    BY <2>1 DEF Hung, NotifyLost, Coming, AllBlocked, Obstructs, Stopping, SleepInv, CollectorWaits
<1>3. IInv /\ SleepInv /\ [Next]_vars => [Lost]_vars /\ [Found]_vars /\ [Begins]_vars /\ [GoesOn]_vars
  BY LostStep, FoundStep, ObstructedStep, ObstructsStep
<1>4. Spec => []SleepInv
  BY <1>1, NextSleep, Invariance, PTL DEF Spec
<1> HIDE DEF Lost, Found, Begins, GoesOn
<1>5. Spec => [][Lost]_vars /\ [][Found]_vars /\ [][Begins]_vars /\ [][GoesOn]_vars
  BY <1>3, <1>4, Invariance, PTL DEF Spec
<1>6. Spec => [](Hung => NotifyLost \/ \E t \in Threads : Obstructs(t))
  BY <1>2, <1>4, Invariance, PTL
<1> QED
  BY <1>5, <1>6 DEF Lost, Found, Begins, GoesOn

-----------------------------------------------------------------------------
(* What run_mutator_stress leaves when it answers Ok.                      *)

\* unbind_thread frees the Mutator first and the context last; the handles joined are
\* those of threads that are done.
LeftInv ==
  /\ \A t \in Threads :
       /\ pc[t] \in {"deactivate", "remove", "notify", "done"} => mutator[t] = "freed"
       /\ pc[t] = "done" => ctx[t] = "freed"
  /\ \A t \in 1 .. joined : pc[t] = "done"
  /\ result = "ok" => joined = NumThreads

\* When run_mutator_stress has returned Ok, no worker is in the registry, asleep on gc.wake
\* or in the way of the collector, and the boxes of all are freed.
OkLeavesNothing ==
  result = "ok" =>
    /\ threads = {} /\ waiters \subseteq {Gc}
    /\ \A t \in Threads : ctx[t] = "freed" /\ mutator[t] = "freed" /\ ~active[t] /\ blocked[t] = 0

LEMMA NextLeft ==
  ASSUME IInv, LeftInv, [Next]_vars
  PROVE  LeftInv'
<1> DEFINE Bound == MutatorPcs \ {"deactivate", "remove", "notify", "done"}
<1> USE DEF gcState, contextVars, mutatorVars, collectVars, stressVars
<1>1. /\ pc \in [Threads -> MutatorPcs] /\ ctx \in [Threads -> {"none", "live", "freed"}]
      /\ mutator \in [Threads -> {"none", "live", "freed"}]
      /\ joined \in 0 .. NumThreads /\ (result = "joining" => joined < NumThreads)
  BY DEF IInv, TypeOK, JoinInv
<1>2. ASSUME NEW t \in Threads, UNCHANGED <<ctx, mutator, stressVars>>,
             pc[t] \in Bound, UNCHANGED pc \/ \E label \in Bound : Goto(t, label)
      PROVE  LeftInv'
  <2>1. \A u \in Threads : pc'[u] = pc[u] \/ (u = t /\ pc'[u] \in Bound)
    BY <1>1, <1>2 DEF Goto
  <2>2. \A u \in Threads :
          pc'[u] \in {"deactivate", "remove", "notify", "done"} \/ pc[u] = "done" => pc'[u] = pc[u]
    BY <1>2, <2>1
  <2> HIDE DEF Bound
  <2>3. 1 .. joined \subseteq Threads
    BY <1>1, NumThreadsAssumption DEF Threads
  <2>4. \A u \in Threads :
          /\ pc'[u] \in {"deactivate", "remove", "notify", "done"} => mutator'[u] = "freed"
          /\ pc'[u] = "done" => ctx'[u] = "freed"
    BY <1>2, <2>2 DEF LeftInv
  <2>5. \A u \in 1 .. joined : pc'[u] = "done"
    <3>1. \A u \in 1 .. joined : pc[u] = "done" /\ u \in Threads
      BY <2>3 DEF LeftInv
    <3> QED
      BY <2>2, <3>1
  <2>6. joined' = joined /\ (result' = "ok" => joined = NumThreads)
    BY <1>2 DEF LeftInv
  <2> QED
    BY <2>4, <2>5, <2>6 DEF LeftInv
<1>3. ASSUME NEW t \in Threads, Mutator(t)
      PROVE  LeftInv'
  <2>1. CASE BindContext(t)
    <3>1. /\ pc[t] = "start" /\ Goto(t, "push") /\ UNCHANGED stressVars
          /\ mutator' = [mutator EXCEPT ![t] = "live"] /\ ctx' = [ctx EXCEPT ![t] = "live"]
      BY <2>1 DEF BindContext
    <3> QED
      BY <1>1, <3>1 DEF LeftInv, Goto
  <2>2. CASE BindPush(t) \/ AskForGc(t) \/ PollNothing(t) \/ Allocate(t) \/ PanicInAlloc(t)
             \/ WriteObject(t)
    BY <1>2, <2>2 DEF BindPush, AskForGc, PollNothing, Allocate, PanicInAlloc, WriteObject,
                      MutatorPcs, PollStops
  <2>3. CASE StopForGc(t) \/ WakeInStop(t)
    <3>1. pc[t] \in PollStops
      BY <2>3 DEF StopForGc, WakeInStop, IInv, ContextInv
    <3>2. UNCHANGED pc \/ Goto(t, AfterStop(pc[t]))
      BY <2>3 DEF StopForGc, WakeInStop
    <3>3. AfterStop(pc[t]) \in Bound /\ pc[t] \in Bound
      BY <3>1 DEF AfterStop, MutatorPcs, PollStops
    <3>4. UNCHANGED <<ctx, mutator, stressVars>>
      BY <2>3 DEF StopForGc, WakeInStop
    <3> HIDE DEF Bound
    <3> QED
      BY <1>2, <3>2, <3>3, <3>4
  <2>4. CASE UnbindDestroy(t)
    <3>1. /\ pc[t] = "destroy" /\ Goto(t, "deactivate") /\ UNCHANGED <<ctx, stressVars>>
          /\ mutator' = [mutator EXCEPT ![t] = "freed"]
      BY <2>4 DEF UnbindDestroy
    <3> QED
      BY <1>1, <3>1 DEF LeftInv, Goto
  <2>5. CASE UnbindDeactivate(t) \/ UnbindRemove(t)
    <3>1. /\ pc[t] \in {"deactivate", "remove"} /\ UNCHANGED <<ctx, mutator, stressVars>>
          /\ \E label \in {"remove", "notify"} : Goto(t, label)
      BY <2>5 DEF UnbindDeactivate, UnbindRemove
    <3>2. /\ pc'[t] \in {"remove", "notify"} /\ mutator[t] = "freed"
          /\ \A u \in Threads : u # t => pc'[u] = pc[u]
      BY <1>1, <3>1 DEF LeftInv, Goto
    <3>3. 1 .. joined \subseteq Threads
      BY <1>1, NumThreadsAssumption DEF Threads
    <3>4. \A u \in 1 .. joined : pc'[u] = "done"
      <4>1. \A u \in 1 .. joined : pc[u] = "done" /\ u \in Threads /\ u # t
        BY <3>1, <3>3 DEF LeftInv
      <4> QED
        BY <3>2, <4>1
    <3> QED
      BY <3>1, <3>2, <3>4 DEF LeftInv
  <2>6. CASE UnbindNotify(t)
    <3>1. /\ pc[t] = "notify" /\ Goto(t, "done") /\ UNCHANGED <<mutator, stressVars>>
          /\ ctx' = [ctx EXCEPT ![t] = "freed"]
      BY <2>6 DEF UnbindNotify
    <3> QED
      BY <1>1, <3>1 DEF LeftInv, Goto
  <2> QED
    BY <1>3, <2>1, <2>2, <2>3, <2>4, <2>5, <2>6 DEF Mutator, TakesGcState, RunsFreely, Unbind
<1>4. CASE JoinWorker
  <2>1. UNCHANGED <<pc, ctx, mutator>> /\ result = "joining"
    BY <1>4 DEF JoinWorker
  <2>2. CASE pc[joined + 1] = "done" /\ joined' = joined + 1
             /\ result' = IF joined' = NumThreads THEN "ok" ELSE "joining"
    BY <1>1, <2>1, <2>2, NumThreadsAssumption DEF LeftInv
  <2>3. CASE result' = "WorkerThreadPanicked" /\ joined' = joined
    BY <2>1, <2>3 DEF LeftInv
  <2> QED
    BY <1>4, <2>2, <2>3 DEF JoinWorker
<1>5. Collector \/ (\E w \in Threads \union {Gc} : SpuriousWake(w)) \/ UNCHANGED vars
      => UNCHANGED <<pc, ctx, mutator, joined, result>>
  BY DEF Collector, GcRequest, GcCheck, GcWait, GcWake, GcSnapshot, GcVisit, GcCollect, GcResume,
         SpuriousWake, vars
<1>6. UNCHANGED <<pc, ctx, mutator, joined, result>> => LeftInv'
  BY DEF LeftInv
<1> QED
  BY <1>3, <1>4, <1>5, <1>6 DEF Next

\* run_mutator_stress answers Ok only when nothing of a worker is left: no thread that still
\* runs on the roots it is about to drop, none that the collector would wait for.
THEOREM OkMeansAllLeft == Spec => []OkLeavesNothing
<1>1. Init => LeftInv
  BY NumThreadsAssumption DEF Init, LeftInv
<1>2. IInv /\ LeftInv => OkLeavesNothing
  <2> SUFFICES ASSUME IInv, LeftInv, result = "ok"
               PROVE  OkLeavesNothing
    BY DEF OkLeavesNothing
  <2>1. \A t \in Threads : pc[t] = "done" /\ ctx[t] = "freed" /\ mutator[t] = "freed"
    BY DEF LeftInv, Threads
  <2>2. \A t \in Threads : t \notin threads /\ ~active[t] /\ blocked[t] = 0
    BY <2>1 DEF IInv, ContextInv, RegisteredPcs, ActivePcs, RunningPcs, PollStops
  <2>3. threads \subseteq Threads /\ waiters \subseteq Threads \union {Gc}
        /\ \A t \in Threads : t \in waiters => blocked[t] # 0
    BY DEF IInv, TypeOK, WaitInv
  <2> QED
    BY <2>1, <2>2, <2>3 DEF OkLeavesNothing
<1> QED
  BY <1>1, <1>2, NextLeft, Invariance, PTL DEF Spec

-----------------------------------------------------------------------------
(* The refinement: each step of the handshake is a step of StopTheWorld or *)
(* leaves its variables alone.                                             *)

LEMMA RefinesInit == Init => STW!Init
  BY DEF Init, STW!Init

LEMMA RefinesMutator ==
  ASSUME IInv, NEW t \in Threads, Mutator(t)
  PROVE  [STW!Next]_STW!vars
  <1> USE DEF IInv, TypeOK, gcState, contextVars, mutatorVars, collectVars, STW!vars
  <1>1. CASE BindContext(t)
    BY <1>1 DEF BindContext, ContextInv, RegisteredPcs, RunningPcs, PollStops
  <1>2. CASE BindPush(t)
    <2>1. STW!Join(t)
      BY <1>2 DEF BindPush, ContextInv, RegisteredPcs, RunningPcs, PollStops, ActivePcs,
                  STW!Join
    <2>2. QED
      BY <2>1 DEF STW!Next
  <1>3. CASE StopForGc(t)
    <2>1. CASE ~requested
      BY <1>3, <2>1 DEF StopForGc
    <2>2. CASE requested
      <3>1. STW!Halt(t)
        BY <1>3, <2>2 DEF StopForGc, RequestInv, ContextInv, RegisteredPcs, RunningPcs,
                          ActivePcs, STW!Halt
      <3>2. QED
        BY <3>1 DEF STW!Next
    <2>3. QED
      BY <2>1, <2>2
  <1>4. CASE WakeInStop(t)
    <2>1. CASE requested
      BY <1>4, <2>1 DEF WakeInStop, ContextInv, RunningPcs, ActivePcs
    <2>2. CASE ~requested
      <3>1. STW!Release(t)
        BY <1>4, <2>2 DEF WakeInStop, STW!Release
      <3>2. QED
        BY <3>1 DEF STW!Next
    <2>3. QED
      BY <2>1, <2>2
  <1>5. CASE AskForGc(t) \/ PollNothing(t) \/ Allocate(t) \/ PanicInAlloc(t) \/ WriteObject(t)
    BY <1>5 DEF AskForGc, PollNothing, Allocate, PanicInAlloc, WriteObject
  <1>6. CASE UnbindDeactivate(t)
    <2>1. STW!Leave(t)
      BY <1>6 DEF UnbindDeactivate, ContextInv, RegisteredPcs, ActivePcs, PollStops, STW!Leave
    <2>2. QED
      BY <2>1 DEF STW!Next
  <1>7. CASE UnbindRemove(t)
    BY <1>7 DEF UnbindRemove, ContextInv, ActivePcs, RunningPcs, PollStops
  <1>8. CASE UnbindDestroy(t) \/ UnbindNotify(t)
    BY <1>8 DEF UnbindDestroy, UnbindNotify
  <1>9. QED
    BY <1>1, <1>2, <1>3, <1>4, <1>5, <1>6, <1>7, <1>8
    DEF Mutator, TakesGcState, RunsFreely, Unbind

LEMMA RefinesCollector ==
  ASSUME IInv, Collector
  PROVE  [STW!Next]_STW!vars
  <1> USE DEF IInv, TypeOK, gcState, contextVars, mutatorVars, STW!vars, PausePcs
  <1>1. CASE GcRequest
    <2>1. STW!Ask
      BY <1>1 DEF GcRequest, RequestInv, STW!Ask
    <2>2. QED
      BY <2>1 DEF STW!Next
  <1>2. CASE GcCheck
    <2>1. CASE AllBlocked
      <3>1. STW!Stop
        BY <1>2, <2>1 DEF GcCheck, AllBlocked, RequestInv, STW!Stop
      <3>2. QED
        BY <3>1 DEF STW!Next
    <2>2. CASE ~AllBlocked
      BY <1>2, <2>2 DEF GcCheck
    <2>3. QED
      BY <2>1, <2>2
  <1>3. CASE GcWait \/ GcWake
    BY <1>3 DEF GcWait, GcWake
  <1>4. CASE GcSnapshot \/ (\E t \in Threads : GcVisit(t)) \/ GcCollect
    BY <1>4 DEF GcSnapshot, GcVisit, GcCollect
  <1>5. CASE GcResume
    <2>1. STW!Resume
      BY <1>5 DEF GcResume, RequestInv, STW!Resume
    <2>2. QED
      BY <2>1 DEF STW!Next
  <1>6. QED
    BY <1>1, <1>2, <1>3, <1>4, <1>5 DEF Collector

\* The handshake of mmtk.rs, with its lock, condition variable and epochs,
\* implements the abstract stop-the-world protocol.
THEOREM Refinement == Spec => ImplementsStopTheWorld
  <1>1. IInv /\ [Next]_vars => [STW!Next]_STW!vars
    <2> SUFFICES ASSUME IInv, [Next]_vars PROVE [STW!Next]_STW!vars
      OBVIOUS
    <2>1. CASE \E t \in Threads : Mutator(t)
      BY <2>1, RefinesMutator
    <2>2. CASE Collector
      BY <2>2, RefinesCollector
    <2>3. CASE JoinWorker \/ (\E w \in Threads \union {Gc} : SpuriousWake(w)) \/ UNCHANGED vars
      BY <2>3 DEF JoinWorker, SpuriousWake, vars, gcState, contextVars, mutatorVars,
                  collectVars, STW!vars
    <2>4. QED
      BY <2>1, <2>2, <2>3 DEF Next
  <1>2. QED
    BY <1>1, RefinesInit, Invariance, PTL DEF Spec, ImplementsStopTheWorld, STW!Spec

=============================================================================
