---------------------------- MODULE StwHandshake ----------------------------
(***************************************************************************)
(* The thread registry and the stop-the-world handshake of                 *)
(* runtime/src/mmtk.rs, under the mutators of run_mutator_stress_checked   *)
(* (bind, a loop of poll and allocation, unbind) and one MMTk worker.      *)
(*                                                                         *)
(* One action is one critical section of the code, or one access to shared *)
(* memory outside any.  The mutex gc.state is held across two steps only   *)
(* by the collector, between its test of the threads and its wait, so who  *)
(* holds it is read off gcPc.  A thread waits on the condition variable    *)
(* gc.wake while it is in waiters; notify_all empties the set.             *)
(***************************************************************************)
EXTENDS Integers, FiniteSets

CONSTANTS
  NumThreads,   \* thread_count of the stress
  Iterations,   \* its iterations
  Endless,      \* threads whose program never leaves its loop
  MaxGcs,       \* bound: collections MMTk asks for
  MaxPanics     \* bound: mutators that panic in an allocation

ASSUME NumThreadsAssumption == NumThreads \in Nat \ {0}
ASSUME IterationsAssumption == Iterations \in Nat \ {0}
ASSUME EndlessAssumption == Endless \subseteq 1 .. NumThreads
ASSUME BoundsAssumption == MaxGcs \in Nat /\ MaxPanics \in Nat

Threads == 1 .. NumThreads

Gc == 0   \* the collector, as a waiter on gc.wake

VARIABLES
  requested, epoch,   \* GcState
  waiters,            \* who sleeps on gc.wake
  threads,            \* RuntimeState.threads
  ctx,                \* whether a thread's ThreadContext box exists
  mutator,            \* whether its Mutator box exists
  active, blocked,    \* ThreadContext.active, .blocked_epoch
  pc, left,           \* where each mutator is, and the iterations it has left
  asked,              \* MMTk's pending-collection flag (external)
  gcPc,               \* where the collector is
  visit, scanned,     \* mutators still to visit, and visited
  captives,           \* history: active members when the handshake completed
  joined, result      \* run_mutator_stress: handles joined, what it returned

gcState     == <<requested, epoch>>
contextVars == <<ctx, mutator, active, blocked>>
mutatorVars == <<pc, left>>
collectVars == <<gcPc, visit, scanned, captives>>
stressVars  == <<joined, result>>
vars == <<gcState, waiters, threads, contextVars, mutatorVars, asked,
          collectVars, stressVars>>

PollStops == {"poll", "pollBlock", "allocBlock"}   \* the calls of stop_for_gc

MutatorPcs == PollStops \union
  {"start", "push", "gcPoll", "alloc", "write",
   "destroy", "deactivate", "remove", "notify", "done", "panicked"}

\* The world is stopped for the collector from here to resume_mutators.
PausePcs == {"snapshot", "visit", "collect"}

GcPcs == PausePcs \union {"idle", "check", "wait", "asleep"}

Init ==
  /\ requested = FALSE
  /\ epoch = 0
  /\ waiters = {}
  /\ threads = {}
  /\ ctx = [t \in Threads |-> "none"]
  /\ mutator = [t \in Threads |-> "none"]
  /\ active = [t \in Threads |-> FALSE]
  /\ blocked = [t \in Threads |-> 0]
  /\ pc = [t \in Threads |-> "start"]
  /\ left = [t \in Threads |-> Iterations]
  /\ asked = FALSE
  /\ gcPc = "idle"
  /\ visit = {}
  /\ scanned = {}
  /\ captives = {}
  /\ joined = 0
  /\ result = "joining"

-----------------------------------------------------------------------------
(* Mutators.                                                               *)

GcStateFree == gcPc \notin {"check", "wait"}

Goto(t, label) == pc' = [pc EXCEPT ![t] = label]

\* bind_current_thread up to the registration: the context is born active,
\* its mutator bound, and nothing looks at gc.state.
BindContext(t) ==
  /\ pc[t] = "start"
  /\ ctx' = [ctx EXCEPT ![t] = "live"]
  /\ mutator' = [mutator EXCEPT ![t] = "live"]
  /\ active' = [active EXCEPT ![t] = TRUE]
  /\ Goto(t, "push")
  /\ UNCHANGED <<gcState, waiters, threads, blocked, left, asked,
                 collectVars, stressVars>>

BindPush(t) ==
  /\ pc[t] = "push"
  /\ threads' = threads \union {t}
  /\ Goto(t, "poll")
  /\ UNCHANGED <<gcState, waiters, contextVars, left, asked,
                 collectVars, stressVars>>

\* Where a mutator continues when stop_for_gc returns: gc_poll_current goes on
\* to MMTk's gc_poll; a block_for_gc of MMTk returns to its caller, which goes
\* on to, or retries, the allocation.
AfterStop(label) == IF label = "poll" THEN "gcPoll" ELSE "alloc"

\* Variant: parks without the notify_all that tells the collector.
StopForGcSilent(t) ==
  /\ pc[t] \in PollStops /\ blocked[t] = 0 /\ GcStateFree
  /\ IF requested
     THEN /\ blocked' = [blocked EXCEPT ![t] = epoch]
          /\ waiters' = waiters \union {t}
          /\ UNCHANGED pc
     ELSE Goto(t, AfterStop(pc[t])) /\ UNCHANGED <<waiters, blocked>>
  /\ UNCHANGED <<gcState, threads, ctx, mutator, active, left, asked,
                 collectVars, stressVars>>

\* stop_for_gc, from its lock to its return or its first wait.
StopForGc(t) ==
  /\ pc[t] \in PollStops
  /\ blocked[t] = 0
  /\ GcStateFree
  /\ \/ /\ ~requested
        /\ Goto(t, AfterStop(pc[t]))
        /\ UNCHANGED <<waiters, blocked>>
     \/ /\ requested
        /\ blocked' = [blocked EXCEPT ![t] = epoch]
        /\ waiters' = {t}
        /\ UNCHANGED pc
  /\ UNCHANGED <<gcState, threads, ctx, mutator, active, left, asked,
                 collectVars, stressVars>>

\* Variant: an if around the wait, so any wake-up leaves.
WakeInStopOnce(t) ==
  /\ blocked[t] # 0 /\ t \notin waiters /\ GcStateFree
  /\ blocked' = [blocked EXCEPT ![t] = 0]
  /\ Goto(t, AfterStop(pc[t]))
  /\ UNCHANGED <<gcState, waiters, threads, ctx, mutator, active, left, asked,
                 collectVars, stressVars>>

\* stop_for_gc, woken: it waits again or leaves.  It never reads the epoch anew.
WakeInStop(t) ==
  /\ blocked[t] # 0
  /\ t \notin waiters
  /\ GcStateFree
  /\ \/ /\ requested /\ active[t]
        /\ waiters' = waiters \union {t}
        /\ UNCHANGED <<blocked, pc>>
     \/ /\ ~(requested /\ active[t])
        /\ blocked' = [blocked EXCEPT ![t] = 0]
        /\ Goto(t, AfterStop(pc[t]))
        /\ UNCHANGED waiters
  /\ UNCHANGED <<gcState, threads, ctx, mutator, active, left, asked,
                 collectVars, stressVars>>

\* MMTk asks for a collection from a mutator: the flag is idempotent, and
\* block_for_gc follows whether or not the collector has begun.
AskForGc(t) ==
  /\ pc[t] \in {"gcPoll", "alloc"}
  /\ asked \/ epoch < MaxGcs
  /\ asked' = TRUE
  /\ Goto(t, IF pc[t] = "gcPoll" THEN "pollBlock" ELSE "allocBlock")
  /\ UNCHANGED <<gcState, waiters, threads, contextVars, left,
                 collectVars, stressVars>>

\* MMTk's gc_poll finds no collection due.
PollNothing(t) ==
  /\ pc[t] = "gcPoll"
  /\ Goto(t, "alloc")
  /\ UNCHANGED <<gcState, waiters, threads, contextVars, left, asked,
                 collectVars, stressVars>>

Allocate(t) ==
  /\ pc[t] = "alloc"
  /\ Goto(t, "write")
  /\ UNCHANGED <<gcState, waiters, threads, contextVars, left, asked,
                 collectVars, stressVars>>

\* alloc_pair unwraps a failed allocation, and out_of_memory panics: the worker
\* ends and its context stays registered and active.
PanicInAlloc(t) ==
  /\ pc[t] = "alloc"
  /\ Cardinality({u \in Threads : pc[u] = "panicked"}) < MaxPanics
  /\ Goto(t, "panicked")
  /\ UNCHANGED <<gcState, waiters, threads, contextVars, left, asked,
                 collectVars, stressVars>>

\* Variant: the loop's test sees the count before the decrement.
WriteObjectLate(t) ==
  /\ pc[t] = "write"
  /\ left' = IF t \in Endless THEN left ELSE [left EXCEPT ![t] = @ - 1]
  /\ Goto(t, IF left[t] = 0 THEN "destroy" ELSE "poll")
  /\ UNCHANGED <<gcState, waiters, threads, contextVars, asked,
                 collectVars, stressVars>>

\* The stores into the new pair and the shared slot, and the loop's test.
WriteObject(t) ==
  /\ pc[t] = "write"
  /\ left' = IF t \in Endless THEN left ELSE [left EXCEPT ![t] = @ - 1]
  /\ Goto(t, IF left'[t] = 0 THEN "destroy" ELSE "poll")
  /\ UNCHANGED <<gcState, waiters, threads, contextVars, asked,
                 collectVars, stressVars>>

\* unbind_thread, one step per effect another thread can see; only the removal
\* is under a mutex, and it is not gc.state.
UnbindDestroy(t) ==
  /\ pc[t] = "destroy"
  /\ mutator' = [mutator EXCEPT ![t] = "freed"]
  /\ Goto(t, "deactivate")
  /\ UNCHANGED <<gcState, waiters, threads, ctx, active, blocked, left, asked,
                 collectVars, stressVars>>

\* Variant: drops the context before it leaves the registry.
UnbindDeactivateAndDrop(t) ==
  /\ pc[t] = "deactivate"
  /\ active' = [active EXCEPT ![t] = FALSE]
  /\ ctx' = [ctx EXCEPT ![t] = "freed"]
  /\ Goto(t, "remove")
  /\ UNCHANGED <<gcState, waiters, threads, mutator, blocked, left, asked,
                 collectVars, stressVars>>

UnbindDeactivate(t) ==
  /\ pc[t] = "deactivate"
  /\ active' = [active EXCEPT ![t] = FALSE]
  /\ Goto(t, "remove")
  /\ UNCHANGED <<gcState, waiters, threads, ctx, mutator, blocked, left, asked,
                 collectVars, stressVars>>

UnbindRemove(t) ==
  /\ pc[t] = "remove"
  /\ threads' = threads \ {t}
  /\ Goto(t, "notify")
  /\ UNCHANGED <<gcState, waiters, contextVars, left, asked,
                 collectVars, stressVars>>

UnbindNotify(t) ==
  /\ pc[t] = "notify"
  /\ waiters' = {}
  /\ ctx' = [ctx EXCEPT ![t] = "freed"]
  /\ Goto(t, "done")
  /\ UNCHANGED <<gcState, threads, mutator, active, blocked, left, asked,
                 collectVars, stressVars>>

Unbind(t) ==
  UnbindDestroy(t) \/ UnbindDeactivate(t) \/ UnbindRemove(t) \/ UnbindNotify(t)

-----------------------------------------------------------------------------
(* The collector: MMTk's worker calls stop_all_mutators, collects, and     *)
(* calls resume_mutators.                                                  *)

GcRequest ==
  /\ gcPc = "idle"
  /\ asked
  /\ epoch' = epoch + 1
  /\ requested' = TRUE
  /\ waiters' = {}
  /\ gcPc' = "check"
  /\ UNCHANGED <<threads, contextVars, mutatorVars, asked, visit, scanned,
                 captives, stressVars>>

\* Variant: any in place of all.
AnyBlocked == threads = {} \/ \E t \in threads : active[t] => blocked[t] = epoch

AllBlocked == \A t \in threads : active[t] => blocked[t] = epoch

\* The test of the loop, with gc.state and then threads locked.
GcCheck ==
  /\ gcPc = "check"
  /\ \/ /\ AllBlocked
        /\ gcPc' = "snapshot"
        /\ captives' = {t \in threads : active[t]}
     \/ /\ ~AllBlocked
        /\ gcPc' = "wait"
        /\ UNCHANGED captives
  /\ UNCHANGED <<gcState, waiters, threads, contextVars, mutatorVars, asked,
                 visit, scanned, stressVars>>

\* The wait gives up gc.state; only from here does a notify reach the collector.
GcWait ==
  /\ gcPc = "wait"
  /\ waiters' = waiters \union {Gc}
  /\ gcPc' = "asleep"
  /\ UNCHANGED <<gcState, threads, contextVars, mutatorVars, asked, visit,
                 scanned, captives, stressVars>>

GcWake ==
  /\ gcPc = "asleep"
  /\ Gc \notin waiters
  /\ gcPc' = "check"
  /\ UNCHANGED <<gcState, waiters, threads, contextVars, mutatorVars, asked,
                 visit, scanned, captives, stressVars>>

\* Variant: the test of active is inverted.
GcSnapshotInverted ==
  /\ gcPc = "snapshot"
  /\ visit' = {t \in threads : ~active[t]}
  /\ gcPc' = "visit"
  /\ UNCHANGED <<gcState, waiters, threads, contextVars, mutatorVars, asked,
                 scanned, captives, stressVars>>

\* mutators(), called after gc.state was dropped.
GcSnapshot ==
  /\ gcPc = "snapshot"
  /\ visit' = {t \in threads : active[t]}
  /\ gcPc' = "visit"
  /\ UNCHANGED <<gcState, waiters, threads, contextVars, mutatorVars, asked,
                 scanned, captives, stressVars>>

GcVisit(t) ==
  /\ gcPc = "visit"
  /\ t \in visit
  /\ visit' = visit \ {t}
  /\ scanned' = scanned \union {t}
  /\ UNCHANGED <<gcState, waiters, threads, contextVars, mutatorVars, asked,
                 gcPc, captives, stressVars>>

\* MMTk forgets the request once the mutators are stopped, then traces and moves.
GcCollect ==
  /\ gcPc = "visit"
  /\ visit = {}
  /\ asked' = FALSE
  /\ gcPc' = "collect"
  /\ UNCHANGED <<gcState, waiters, threads, contextVars, mutatorVars, visit,
                 scanned, captives, stressVars>>

\* Variant: lowers the flag and forgets to wake the mutators.
GcResumeSilent ==
  /\ gcPc = "collect"
  /\ requested' = FALSE
  /\ gcPc' = "idle"
  /\ scanned' = {} /\ captives' = {}
  /\ UNCHANGED <<epoch, waiters, threads, contextVars, mutatorVars, asked, visit,
                 stressVars>>

GcResume ==
  /\ gcPc = "collect"
  /\ requested' = FALSE
  /\ waiters' = {}
  /\ gcPc' = "idle"
  /\ scanned' = {}
  /\ captives' = {}
  /\ UNCHANGED <<epoch, threads, contextVars, mutatorVars, asked, visit,
                 stressVars>>

-----------------------------------------------------------------------------
(* The thread of run_mutator_stress joins its workers in order and returns *)
(* at the first that panicked.                                             *)

JoinWorker ==
  /\ result = "joining"
  /\ \/ /\ pc[joined + 1] = "done"
        /\ joined' = joined + 1
        /\ result' = IF joined' = NumThreads THEN "ok" ELSE "joining"
     \/ /\ pc[joined + 1] = "panicked"
        /\ result' = "WorkerThreadPanicked"
        /\ UNCHANGED joined
  /\ UNCHANGED <<gcState, waiters, threads, contextVars, mutatorVars, asked,
                 collectVars>>

\* A condition variable may return without a notify.
SpuriousWake(w) ==
  /\ w \in waiters
  /\ waiters' = waiters \ {w}
  /\ UNCHANGED <<gcState, threads, contextVars, mutatorVars, asked,
                 collectVars, stressVars>>

-----------------------------------------------------------------------------

TakesGcState(t) == StopForGc(t) \/ WakeInStop(t)

RunsFreely(t) ==
  \/ BindContext(t) \/ BindPush(t)
  \/ PollNothing(t) \/ Allocate(t) \/ WriteObject(t)
  \/ Unbind(t)

Mutator(t) ==
  TakesGcState(t) \/ RunsFreely(t) \/ AskForGc(t) \/ PanicInAlloc(t)

Collector ==
  \/ GcRequest \/ GcCheck \/ GcWait \/ GcWake \/ GcSnapshot
  \/ (\E t \in Threads : GcVisit(t))
  \/ GcCollect \/ GcResume

Next ==
  \/ \E t \in Threads : Mutator(t)
  \/ Collector
  \/ JoinWorker
  \/ \E w \in Threads \union {Gc} : SpuriousWake(w)

Spec == Init /\ [][Next]_vars

\* The operating system runs every thread, and a thread that keeps trying to
\* lock gc.state gets it.  Nobody owes a collection, a panic or a spurious wake.
Fairness ==
  /\ \A t \in Threads : WF_vars(RunsFreely(t)) /\ SF_vars(TakesGcState(t))
  /\ WF_vars(Collector)
  /\ WF_vars(JoinWorker)

FairSpec == Spec /\ Fairness

\* As FairSpec, with a condition variable that always wakes a sleeper in the end.
WakingSpec == FairSpec /\ \A w \in Threads \union {Gc} : WF_vars(SpuriousWake(w))

-----------------------------------------------------------------------------
(* Properties.                                                             *)

\* Every variable holds a value of its kind.
TypeOK ==
  /\ requested \in BOOLEAN /\ epoch \in Nat
  /\ waiters \subseteq Threads \union {Gc}
  /\ threads \subseteq Threads
  /\ ctx \in [Threads -> {"none", "live", "freed"}]
  /\ mutator \in [Threads -> {"none", "live", "freed"}]
  /\ active \in [Threads -> BOOLEAN]
  /\ blocked \in [Threads -> Nat]
  /\ pc \in [Threads -> MutatorPcs]
  /\ left \in [Threads -> 0 .. Iterations]
  /\ asked \in BOOLEAN
  /\ gcPc \in GcPcs
  /\ visit \subseteq Threads /\ scanned \subseteq Threads
  /\ captives \subseteq Threads
  /\ joined \in 0 .. NumThreads
  /\ result \in {"joining", "ok", "WorkerThreadPanicked"}

\* From the moment stop_all_mutators sees everyone blocked until
\* resume_mutators, every mutator it counted stays inside stop_for_gc for this
\* collection's epoch, registered, active and with its Mutator alive: none is
\* released by a stray notify, none unbinds under the collector.
CaptivesStayBlocked ==
  gcPc \in PausePcs =>
    \A t \in captives :
      /\ pc[t] \in PollStops /\ blocked[t] = epoch
      /\ t \in threads /\ active[t] /\ mutator[t] = "live"

\* mutators() is taken after gc.state was given up; still no captive is missed:
\* when the tracing starts, the roots of each have been visited.
EveryCaptiveScanned == gcPc = "collect" => captives \subseteq scanned

\* A mutator sleeps on gc.wake only while a collection is requested: no
\* resume_mutators, and no waking of others, leaves one asleep in a running world.
NoSleepAfterResume == (waiters \ {Gc} # {}) => requested

\* The collector reads the contexts in the registry through raw pointers: a
\* registered context has not been freed, whatever step unbind_thread is at.
RegisteredContextsLive == \A t \in threads : ctx[t] = "live"

\* The handshake implements StopTheWorld: members are the active registered
\* threads, halted those inside the wait loop of stop_for_gc.
STW == INSTANCE StopTheWorld WITH
  Thread <- Threads,
  world <- IF ~requested THEN "running"
           ELSE IF gcPc \in PausePcs THEN "stopped" ELSE "stopping",
  members <- {t \in threads : active[t]},
  halted <- {t \in Threads : blocked[t] # 0}

ImplementsStopTheWorld == STW!Spec

\* run_mutator_stress returns, with Ok or with WorkerThreadPanicked.
StressReturns == <>(result # "joining")

\* A requested collection is resumed from.
PauseEnds == requested ~> ~requested

\* A mutator that parked for a collection gets out of stop_for_gc.
ParkedMutatorsResume == \A t \in Threads : blocked[t] # 0 ~> blocked[t] = 0

=============================================================================
