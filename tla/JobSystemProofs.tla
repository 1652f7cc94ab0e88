--------------------------- MODULE JobSystemProofs ---------------------------
(***************************************************************************)
(* Proofs about the job system, for every number of workers, clients and   *)
(* jobs, every ring size, every number of setups and shutdowns.  The first *)
(* part is about the threads: who is where, holds what, has which ring.    *)
(***************************************************************************)
EXTENDS JobSystem, FiniteSetTheorems, TLAPS

(* A worker past its first critical section has a ring.                    *)
Claimed == {w \in Workers : worker_index[w] # NoRing}
ClaimInv == \A w \in Workers : pc[w] \notin {"off", "start"} => worker_index[w] # NoRing

(* The mutex is held by the thread that is in the critical section.        *)
LockInv == \A t \in Threads : (mutex = t) <=> (pc[t] \in LockedPcs)

SignalInv == /\ \A t \in idle_signal : pc[t] = "wait_sleep"
             /\ \A t \in queue_signal : pc[t] = "sleep"

InitLoopPcs   == {"init_q", "init_r", "init_run"}
DeinitLoopPcs == {"deinit_q", "deinit_r", "deinit_join"}

(* What each phase of Main's calls says of the other threads.              *)
LifeInv ==
  /\ pc[Main] \notin InitLoopPcs \cup DeinitLoopPcs => i = 0
  /\ sync_live <=> phase # "down"
  /\ phase = "down" =>
       /\ mutex = NoThread /\ \A t \in Callers : pc[t] = "ready"
       /\ \A w \in Workers : pc[w] = "off"
  /\ phase = "setup" =>
       /\ pc[Main] \in InitLoopPcs \cup {"wait", "wait_sleep"}
       /\ \A c \in Clients : pc[c] = "ready"
       /\ pc[Main] \in InitLoopPcs => \A w \in Workers : w >= i => pc[w] = "off"
  /\ phase = "up" => /\ pc[Main] \in CallerPcs
                     /\ \A w \in Workers : pc[w] \notin {"off", "start"}
  /\ phase = "stopping" =>
       /\ pc[Main] \in DeinitLoopPcs \cup {"bcast", "release"}
       /\ \A c \in Clients : pc[c] = "ready"
       /\ \A w \in Workers : pc[w] # "start"
       /\ pc[Main] \in DeinitLoopPcs => \A w \in Workers : w < i => pc[w] = "off"
       /\ pc[Main] = "release" => \A w \in Workers : pc[w] = "off"
  /\ phase \in {"setup", "up"} =>
       running /\ \A w \in Workers : pc[w] \notin {"exit_lock", "exited"}

IdleSet == {w \in Workers : pc[w] \in IdlePcs}

(* In the first setup no ring has a job yet, and so no worker runs one.    *)
FreshPcs == {"off", "start", "loop", "idle_lock", "test", "test_cmp", "sleep"}
FreshInv == cycles = 0 /\ phase \in {"down", "setup"} =>
  \A w \in Workers : /\ queue_index[w] = 0 /\ running_index[w] = 0
                     /\ reg[w] = 0 /\ pc[w] \in FreshPcs

(* Nothing queues a job while a setup hands out the rings.                 *)
QueuePcs   == {"q_load", "q_store", "q_signal"}
NoQueueInv == ~JobsMayQueue => \A w \in Workers : pc[w] \notin QueuePcs
CycleInv   == phase = "setup" => cycles < CycleLimit

(* How many steps ago, modulo the workers, current_worker_index was s.     *)
Back(s) == IF s < current_worker_index THEN current_worker_index - s
                                       ELSE current_worker_index - s + worker_count

(* During a setup current_worker_index has passed each ring handed out at  *)
(* most once: it comes back to none of them before all are handed out.     *)
RingsInv ==
  /\ DistinctRings
  /\ \A w \in Workers : pc[w] \in {"off", "start"} => worker_index[w] = NoRing
  /\ phase = "setup" => \A w \in Claimed : Back(worker_index[w]) <= Cardinality(Claimed)

(* The inductive invariant: the types, who has a ring, who holds the       *)
(* mutex, who sleeps, what the phase of init() and deinit() says of every  *)
(* thread, and the exact idle count.                                       *)
IInv == TypeOK /\ ClaimInv /\ LockInv /\ SignalInv /\ LifeInv /\ IdleCountExact
        /\ FreshInv /\ NoQueueInv /\ CycleInv

(* What the assumption on the constants says of the sets built from them.  *)
LEMMA ConstantFacts ==
  /\ worker_count \in Nat \ {0} /\ RingSize \in Nat \ {0, 1} /\ JobLimit \in Nat
  /\ Workers \cap Callers = {} /\ Main \in Callers /\ Main \notin Clients
  /\ NoThread \notin Threads
  /\ \A s \in Workers : NextRing(s) \in Workers
  /\ 0 \in Indices /\ \A k \in Indices : NextIndex(k) \in Indices
BY ConstantsAssumption
DEF worker_count, WorkersFor, int32_max, int32_min, Workers, Callers, Threads, Indices,
    NextRing, NextIndex

(* The steps that may change a ring.                                       *)
LEMMA RingFrame == Next =>
  \/ UNCHANGED ring
  \/ ResetQueueIndex \/ ResetRunningIndex
  \/ \E t \in Threads : QueueStore(t) \/ QueueAdvance(t)
  \/ \E w \in Workers : PopAdvance(w)
BY DEF Next, Lifecycle, Call, MainLoop, Stopped, vars, ring, counts, sync,
       locals, life, ghosts, BeginSetup, RunThread, BeginShutdown,
       BroadcastShutdown, JoinWorker, ReleaseSync, QueueLoad, QueueBroadcast,
       WaitSleep, WaitReturn, SpuriousWakeup, CallNullEntry, ClaimRing,
       TestRunning, BecomeIdle, TestQueue, CompareIdle, WakeUp, LoadQueue,
       CompareDrain, TakeJob, PopLoad, FinishJob, CallNullJob, ExitLoop

(* The steps that may change a counter or running.                         *)
LEMMA CountFrame == Next =>
  \/ UNCHANGED counts
  \/ BeginSetup \/ BeginShutdown
  \/ \E t \in Threads : QueueAdvance(t)
  \/ \E w \in Workers : ClaimRing(w) \/ BecomeIdle(w) \/ TestQueue(w) \/ CompareIdle(w) \/ ExitLoop(w)
BY DEF Next, Lifecycle, Call, MainLoop, Stopped, vars, ring, counts, sync,
       locals, life, ghosts, ResetQueueIndex, ResetRunningIndex, RunThread,
       BroadcastShutdown, JoinWorker, ReleaseSync, QueueStore, QueueLoad,
       QueueBroadcast, WaitSleep, WaitReturn, SpuriousWakeup, CallNullEntry,
       TestRunning, WakeUp, LoadQueue, CompareDrain, TakeJob, PopLoad,
       PopAdvance, FinishJob, CallNullJob

(* The steps that may change the mutex or a set of sleepers.               *)
LEMMA SyncFrame == Next =>
  \/ UNCHANGED sync
  \/ BeginSetup \/ BeginShutdown \/ BroadcastShutdown \/ ReleaseSync
  \/ \E t \in Threads : \/ QueueStore(t) \/ QueueAdvance(t) \/ QueueBroadcast(t)
                        \/ WaitSleep(t) \/ WaitReturn(t) \/ SpuriousWakeup(t)
  \/ \E w \in Workers : \/ ClaimRing(w) \/ BecomeIdle(w) \/ TestQueue(w) \/ CompareIdle(w)
                        \/ WakeUp(w) \/ TakeJob(w) \/ PopAdvance(w) \/ ExitLoop(w)
BY DEF Next, Lifecycle, Call, MainLoop, Stopped, vars, ring, counts, sync,
       locals, life, ghosts, ResetQueueIndex, ResetRunningIndex, RunThread,
       JoinWorker, QueueLoad, CallNullEntry, TestRunning, LoadQueue,
       CompareDrain, PopLoad, FinishJob, CallNullJob

(* The steps that may change main_loop's locals or a loaded index.         *)
LEMMA LocalsFrame == Next =>
  \/ UNCHANGED locals
  \/ JoinWorker
  \/ \E t \in Threads : QueueLoad(t) \/ QueueAdvance(t)
  \/ \E w \in Workers : \/ ClaimRing(w) \/ TestQueue(w) \/ CompareIdle(w)
                        \/ LoadQueue(w) \/ CompareDrain(w) \/ TakeJob(w)
                        \/ PopLoad(w) \/ PopAdvance(w) \/ FinishJob(w)
BY DEF Next, Lifecycle, Call, MainLoop, Stopped, vars, ring, counts, sync,
       locals, life, ghosts, BeginSetup, ResetQueueIndex, ResetRunningIndex,
       RunThread, BeginShutdown, BroadcastShutdown, ReleaseSync, QueueStore,
       QueueBroadcast, WaitSleep, WaitReturn, SpuriousWakeup, CallNullEntry,
       TestRunning, BecomeIdle, WakeUp, CallNullJob, ExitLoop

(* The steps that may change the phase of Main's calls.                    *)
LEMMA LifeFrame == Next =>
  \/ UNCHANGED life
  \/ BeginSetup \/ RunThread \/ BeginShutdown \/ JoinWorker \/ ReleaseSync
  \/ \E t \in Threads : WaitReturn(t)
  \/ \E w \in Workers : CallNullEntry(w) \/ CallNullJob(w)
BY DEF Next, Lifecycle, Call, MainLoop, Stopped, vars, ring, counts, sync,
       locals, life, ghosts, ResetQueueIndex, ResetRunningIndex,
       BroadcastShutdown, QueueStore, QueueLoad, QueueAdvance, QueueBroadcast,
       WaitSleep, SpuriousWakeup, ClaimRing, TestRunning, BecomeIdle,
       TestQueue, CompareIdle, WakeUp, LoadQueue, CompareDrain, TakeJob,
       PopLoad, PopAdvance, FinishJob, ExitLoop

(* The steps that may change the history.                                  *)
LEMMA HistoryFrame == Next =>
  \/ UNCHANGED ghosts
  \/ \E t \in Threads : QueueStore(t)
  \/ \E w \in Workers : FinishJob(w)
BY DEF Next, Lifecycle, Call, MainLoop, Stopped, vars, ring, counts, sync,
       locals, life, ghosts, BeginSetup, ResetQueueIndex, ResetRunningIndex,
       RunThread, BeginShutdown, BroadcastShutdown, JoinWorker, ReleaseSync,
       QueueLoad, QueueAdvance, QueueBroadcast, WaitSleep, WaitReturn,
       SpuriousWakeup, CallNullEntry, ClaimRing, TestRunning, BecomeIdle,
       TestQueue, CompareIdle, WakeUp, LoadQueue, CompareDrain, TakeJob,
       PopLoad, PopAdvance, CallNullJob, ExitLoop

-----------------------------------------------------------------------------
(* Type correctness, one lemma per part of TypeOK.                         *)

(* Indices stay inside their rings.                                        *)
LEMMA RingStep ==
  ASSUME TypeOK, ClaimInv, Next PROVE RingOK'
<1> USE ConstantFacts
<1>1. CASE ResetQueueIndex
  BY <1>1 DEF ResetQueueIndex, TypeOK, RingOK, LifeOK
<1>2. CASE ResetRunningIndex
  BY <1>2 DEF ResetRunningIndex, TypeOK, RingOK, LifeOK
<1>3. ASSUME NEW t \in Threads, QueueStore(t) PROVE RingOK'
  <2> DEFINE s == current_worker_index
             k == queue_index[s]
  <2>1. s \in Workers /\ k \in Indices /\ submitted' \in JobIds
    BY <1>3 DEF QueueStore, TypeOK, RingOK, CountOK, HistoryOK, JobIds
  <2>2. jobs' = [jobs EXCEPT ![s] = [jobs[s] EXCEPT ![k] = submitted']]
    BY <1>3, <2>1 DEF QueueStore, TypeOK, RingOK
  <2>3. [jobs[s] EXCEPT ![k] = submitted'] \in [Indices -> JobIds \cup {NoJob}]
    BY <2>1 DEF TypeOK, RingOK
  <2> QED BY <1>3, <2>1, <2>2, <2>3 DEF QueueStore, TypeOK, RingOK
<1>4. ASSUME NEW t \in Threads, QueueAdvance(t) PROVE RingOK'
  BY <1>4 DEF QueueAdvance, TypeOK, RingOK, CountOK, LocalsOK
<1>5. ASSUME NEW w \in Workers, PopAdvance(w) PROVE RingOK'
  <2>1. worker_index[w] \in Workers /\ reg[w] \in Indices
    BY <1>5 DEF PopAdvance, Move, At, TypeOK, LocalsOK, ClaimInv, NoRing, Threads
  <2> QED BY <1>5, <2>1 DEF PopAdvance, TypeOK, RingOK
<1> QED BY <1>1, <1>2, <1>3, <1>4, <1>5, RingFrame DEF TypeOK, RingOK, ring

(* The ring of the next job or worker stays a ring.                        *)
LEMMA CountStep ==
  ASSUME TypeOK, ClaimInv, Next PROVE CountOK'
<1> USE ConstantFacts DEF TypeOK, CountOK
<1>1. CASE BeginSetup \/ BeginShutdown
  <2>1. CASE BeginSetup
    BY <2>1 DEF BeginSetup
  <2>2. CASE BeginShutdown
    BY <2>2 DEF BeginShutdown
  <2> QED BY <1>1, <2>1, <2>2
<1>2. ASSUME NEW t \in Threads, QueueAdvance(t) PROVE CountOK'
  BY <1>2 DEF QueueAdvance
<1>3. ASSUME NEW w \in Workers,
             ClaimRing(w) \/ BecomeIdle(w) \/ TestQueue(w) \/ CompareIdle(w) \/ ExitLoop(w)
      PROVE CountOK'
  BY <1>3 DEF ClaimRing, BecomeIdle, TestQueue, CompareIdle, ExitLoop, LeaveIdle, CountIdle
<1> QED BY <1>1, <1>2, <1>3, CountFrame DEF counts

(* Only workers sleep on queue_signal, only callers on idle_signal.        *)
LEMMA SyncStep ==
  ASSUME TypeOK, ClaimInv, Next PROVE SyncOK'
<1> USE ConstantFacts DEF TypeOK, SyncOK
<1>1. CASE BeginSetup \/ BeginShutdown \/ BroadcastShutdown \/ ReleaseSync
  BY <1>1 DEF BeginSetup, BeginShutdown, BroadcastShutdown, ReleaseSync, LockFree, WakeWorkers
<1>2. ASSUME NEW t \in Threads,
             QueueStore(t) \/ QueueAdvance(t) \/ QueueBroadcast(t) \/ SpuriousWakeup(t)
      PROVE SyncOK'
  BY <1>2 DEF QueueStore, QueueAdvance, QueueBroadcast, SpuriousWakeup, Lock, Unlock, WakeWorkers
<1>3. ASSUME NEW t \in Threads, WaitSleep(t) \/ WaitReturn(t) PROVE SyncOK'
  BY <1>3 DEF WaitSleep, WaitReturn, LockFree
<1>4. ASSUME NEW w \in Workers,
             ClaimRing(w) \/ BecomeIdle(w) \/ TestQueue(w) \/ CompareIdle(w) \/ WakeUp(w)
             \/ TakeJob(w) \/ PopAdvance(w) \/ ExitLoop(w)
      PROVE SyncOK'
  BY <1>4 DEF ClaimRing, BecomeIdle, TestQueue, CompareIdle, WakeUp, TakeJob, PopAdvance,
              ExitLoop, LeaveIdle, Lock, Unlock, LockFree, WakeWaiters, Threads
<1> QED BY <1>1, <1>2, <1>3, <1>4, SyncFrame DEF sync

(* A worker takes what a ring holds: a job queued, or none.                *)
LEMMA LocalsStep ==
  ASSUME TypeOK, ClaimInv, Next PROVE LocalsOK'
<1> USE ConstantFacts DEF TypeOK, LocalsOK
<1>1. CASE JoinWorker
  BY <1>1 DEF JoinWorker
<1>2. ASSUME NEW t \in Threads, QueueLoad(t) \/ QueueAdvance(t) PROVE LocalsOK'
  BY <1>2 DEF QueueLoad, QueueAdvance, Load, RingOK, CountOK
<1>3. ASSUME NEW w \in Workers, ClaimRing(w) \/ FinishJob(w) PROVE LocalsOK'
  BY <1>3 DEF ClaimRing, FinishJob, CountOK
<1>4. ASSUME NEW w \in Workers,
             \/ TestQueue(w) \/ CompareIdle(w) \/ LoadQueue(w) \/ CompareDrain(w)
             \/ TakeJob(w) \/ PopLoad(w) \/ PopAdvance(w)
      PROVE LocalsOK'
  <2>1. pc[w] \notin {"off", "start"}
    BY <1>4 DEF TestQueue, CompareIdle, LoadQueue, CompareDrain, TakeJob, PopLoad, PopAdvance,
                Move, At
  <2>2. w \in Threads /\ worker_index[w] \in Workers
    BY <2>1 DEF ClaimInv, Threads
  <2>3. /\ queue_index[worker_index[w]] \in Indices
        /\ running_index[worker_index[w]] \in Indices
        /\ jobs[worker_index[w]][running_index[worker_index[w]]] \in JobIds \cup {NoJob}
    BY <2>2 DEF RingOK
  <2>4. CASE TakeJob(w)
    BY <2>3, <2>4 DEF TakeJob
  <2>5. CASE TestQueue(w) \/ CompareIdle(w)
    BY <2>2, <2>3, <2>5 DEF TestQueue, CompareIdle, Load
  <2>6. CASE LoadQueue(w) \/ CompareDrain(w) \/ PopLoad(w) \/ PopAdvance(w)
    BY <2>2, <2>3, <2>6 DEF LoadQueue, CompareDrain, PopLoad, PopAdvance, Load
  <2> QED BY <1>4, <2>4, <2>5, <2>6
<1> QED BY <1>1, <1>2, <1>3, <1>4, LocalsFrame DEF locals

(* The loop counter of init() and deinit() stays a worker.                 *)
LEMMA LifeStep ==
  ASSUME TypeOK, ClaimInv, Next PROVE LifeOK'
<1> USE ConstantFacts DEF TypeOK, LifeOK
<1>1. CASE BeginSetup \/ BeginShutdown \/ ReleaseSync
  BY <1>1 DEF BeginSetup, BeginShutdown, ReleaseSync, Workers
<1>2. CASE RunThread \/ JoinWorker
  BY <1>2 DEF RunThread, JoinWorker, NextI, Last, Workers
<1>3. ASSUME NEW t \in Threads, WaitReturn(t) PROVE LifeOK'
  BY <1>3 DEF WaitReturn
<1>4. ASSUME NEW w \in Workers, CallNullEntry(w) \/ CallNullJob(w) PROVE LifeOK'
  BY <1>4 DEF CallNullEntry, CallNullJob
<1> QED BY <1>1, <1>2, <1>3, <1>4, LifeFrame DEF life

(* Jobs are numbered in the order they are queued.                         *)
LEMMA HistoryStep ==
  ASSUME TypeOK, ClaimInv, Next PROVE HistoryOK'
<1> USE ConstantFacts DEF TypeOK, HistoryOK
<1>1. ASSUME NEW t \in Threads, QueueStore(t) PROVE HistoryOK'
  BY <1>1 DEF QueueStore, CountOK, JobIds
<1>2. ASSUME NEW w \in Workers, FinishJob(w) PROVE HistoryOK'
  <2>1. job[w] \in JobIds
    BY <1>2 DEF FinishJob, LocalsOK
  <2>2. int32_min(ran[job[w]] + 1, MaxRuns) \in 0 .. MaxRuns
    BY <2>1 DEF int32_min, MaxRuns
  <2> QED BY <1>2, <2>1, <2>2 DEF FinishJob
<1> QED BY <1>1, <1>2, HistoryFrame DEF ghosts

(* A worker that moves inside main_loop.                                   *)
LEMMA WorkerMove ==
  ASSUME PcOK, NEW w \in Workers, NEW to \in WorkerPcs, Goto(w, to) PROVE PcOK'
BY ConstantFacts DEF PcOK, Goto, Threads, Callers

(* A thread that moves inside a call.                                      *)
LEMMA CallerMove ==
  ASSUME PcOK, NEW c \in Callers, NEW to \in CallerPcs, Goto(c, to) PROVE PcOK'
BY ConstantFacts DEF PcOK, Goto, Threads, Callers, MainPcs

(* Main moves inside a lifecycle call.                                     *)
LEMMA MainMove ==
  ASSUME PcOK, NEW to \in MainPcs, Goto(Main, to) PROVE PcOK'
BY ConstantFacts DEF PcOK, Goto, Threads, Callers

(* Main moves and so does the worker it starts or joins.                   *)
LEMMA LifecycleMove ==
  ASSUME PcOK, NEW w \in Workers, NEW main \in MainPcs, NEW to \in WorkerPcs,
         pc' = [pc EXCEPT ![Main] = main, ![w] = to]
  PROVE  PcOK'
BY ConstantFacts DEF PcOK, Threads, Callers

(* Every thread stays at the points of its own code.                       *)
LEMMA PcStep ==
  ASSUME TypeOK, Next PROVE PcOK'
<1> USE ConstantFacts DEF TypeOK
<1>1. CASE UNCHANGED pc
  BY <1>1 DEF PcOK
<1>2. ASSUME BeginSetup \/ ResetQueueIndex \/ ResetRunningIndex \/ BeginShutdown
             \/ BroadcastShutdown \/ ReleaseSync
      PROVE PcOK'
  <2>1. \E to \in MainPcs : Goto(Main, to)
    BY <1>2 DEF BeginSetup, ResetQueueIndex, ResetRunningIndex, BeginShutdown,
                BroadcastShutdown, ReleaseSync, Move, MainPcs, CallerPcs
  <2> QED BY <2>1, MainMove
<1>3. ASSUME RunThread \/ JoinWorker PROVE PcOK'
  <2>1. \E main \in MainPcs, to \in WorkerPcs : pc' = [pc EXCEPT ![Main] = main, ![i] = to]
    BY <1>3 DEF RunThread, JoinWorker, MainPcs, CallerPcs, WorkerPcs
  <2> QED BY <2>1, LifecycleMove DEF LifeOK
<1>4. ASSUME NEW t \in Threads, Call(t) PROVE PcOK'
  <2>1. \E to \in {"q_load", "q_store", "q_signal", "wait_sleep", Home(t)} : Goto(t, to)
    BY <1>4 DEF Call, QueueStore, QueueLoad, QueueAdvance, QueueBroadcast, WaitSleep,
                WaitReturn, Move
  <2>2. CASE t \in Workers
    BY <2>1, <2>2, WorkerMove DEF Home, WorkerPcs, LockedPcs
  <2>3. CASE t \in Callers
    BY <2>1, <2>3, CallerMove DEF Home, CallerPcs
  <2> QED BY <2>2, <2>3 DEF Threads
<1>5. ASSUME NEW w \in Workers, MainLoop(w) PROVE PcOK'
  <2>1. UNCHANGED pc \/ \E to \in WorkerPcs : Goto(w, to)
    BY <1>5 DEF MainLoop, CallNullEntry, ClaimRing, TestRunning, BecomeIdle, TestQueue,
                CompareIdle, WakeUp, LoadQueue, CompareDrain, TakeJob, PopLoad, PopAdvance,
                FinishJob, CallNullJob, ExitLoop, LeaveIdle, Move, WorkerPcs, LockedPcs
  <2> QED BY <2>1, <1>1, WorkerMove
<1> QED BY <1>1, <1>2, <1>3, <1>4, <1>5
        DEF Next, Lifecycle, Stopped, SpuriousWakeup, vars

(* A worker that left its first critical section keeps its ring.           *)
LEMMA ClaimStep ==
  ASSUME TypeOK, ClaimInv, Next PROVE ClaimInv'
<1> USE ConstantFacts DEF TypeOK, ClaimInv
<1>1. CASE UNCHANGED worker_index /\ UNCHANGED pc
  BY <1>1
<1>2. ASSUME BeginSetup \/ ResetQueueIndex \/ ResetRunningIndex \/ BeginShutdown
             \/ BroadcastShutdown \/ ReleaseSync
      PROVE ClaimInv'
  <2>1. \E to \in MainPcs : Goto(Main, to) /\ UNCHANGED worker_index
    BY <1>2 DEF BeginSetup, ResetQueueIndex, ResetRunningIndex, BeginShutdown,
                BroadcastShutdown, ReleaseSync, Move, MainPcs, CallerPcs, locals
  <2> QED BY <2>1 DEF Goto, PcOK, Callers, Threads
<1>3. CASE RunThread
  BY <1>3 DEF RunThread, At, LifeOK, PcOK, Callers, Threads, locals
<1>4. CASE JoinWorker
  BY <1>4 DEF JoinWorker, LifeOK, LocalsOK, PcOK, Callers, Threads
<1>5. ASSUME NEW t \in Threads, Call(t) PROVE ClaimInv'
  <2>1. /\ \E to \in {"q_load", "q_store", "q_signal", "wait_sleep", "run", "ready"} :
             Goto(t, to) /\ (to = "ready" => t \notin Workers)
        /\ t \in Workers => pc[t] \notin {"off", "start"}
        /\ UNCHANGED worker_index
    BY <1>5 DEF Call, QueueStore, QueueLoad, QueueAdvance, QueueBroadcast, WaitSleep, Home,
                WaitReturn, Waiting, MayCall, MayWait, InJob, MayQueue, Move, At, PcOK, WorkerPcs, LockedPcs,
                locals
  <2> QED BY <2>1 DEF Goto, PcOK, Threads
<1>6. ASSUME NEW w \in Workers, ClaimRing(w) PROVE ClaimInv'
  <2>1. current_worker_index # NoRing
    BY DEF CountOK, NoRing, Workers
  <2> QED BY <1>6, <2>1 DEF ClaimRing, Move, Goto, LocalsOK, PcOK, Threads
<1>7. ASSUME NEW w \in Workers, MainLoop(w), ~ClaimRing(w) PROVE ClaimInv'
  <2>1. /\ UNCHANGED worker_index
        /\ \/ UNCHANGED pc
           \/ /\ \E to \in WorkerPcs \ {"off", "start"} : Goto(w, to)
              /\ pc[w] \notin {"off", "start"}
    BY <1>7 DEF MainLoop, CallNullEntry, TestRunning, BecomeIdle, TestQueue, At,
                CompareIdle, WakeUp, LoadQueue, CompareDrain, TakeJob, PopLoad, PopAdvance,
                FinishJob, CallNullJob, ExitLoop, LeaveIdle, Move, WorkerPcs, LockedPcs,
                locals
  <2> QED BY <2>1 DEF Goto, PcOK, Threads
<1> QED BY <1>1, <1>2, <1>3, <1>4, <1>5, <1>6, <1>7
        DEF Next, Lifecycle, Stopped, SpuriousWakeup, vars, locals

(* The types hold at first.                                                *)
LEMMA TypeInit == Init => TypeOK /\ ClaimInv
<1> SUFFICES ASSUME Init PROVE TypeOK /\ ClaimInv
  OBVIOUS
<1> USE ConstantFacts DEF Init
<1>1. 0 \in Workers
  BY DEF Workers
<1>2. RingOK
  BY <1>1 DEF RingOK
<1>3. CountOK
  <2>1. running \in BOOLEAN
    OBVIOUS
  <2>2. current_worker_index \in Workers /\ idle_worker_count \in Int
    BY <1>1
  <2> QED BY <2>1, <2>2 DEF CountOK
<1>4. SyncOK
  BY DEF SyncOK
<1>5. LifeOK
  BY <1>1 DEF LifeOK
<1>6. PcOK /\ ClaimInv
  BY DEF PcOK, ClaimInv, WorkerPcs, CallerPcs, MainPcs, Threads, Callers
<1>7. LocalsOK
  BY DEF LocalsOK
<1>8. HistoryOK
  BY DEF HistoryOK, MaxRuns
<1> QED BY <1>2, <1>3, <1>4, <1>5, <1>6, <1>7, <1>8 DEF TypeOK

(* Every step keeps the types.                                             *)
LEMMA TypeNext == TypeOK /\ ClaimInv /\ [Next]_vars => TypeOK' /\ ClaimInv'
<1>1. CASE UNCHANGED vars
  BY <1>1 DEF vars, ring, counts, sync, locals, life, ghosts, TypeOK, RingOK, CountOK, SyncOK,
              PcOK, LocalsOK, LifeOK, HistoryOK, ClaimInv
<1> QED BY <1>1, RingStep, CountStep, SyncStep, PcStep, LocalsStep, LifeStep, HistoryStep,
           ClaimStep DEF TypeOK

(* Every variable keeps its type: no index leaves its ring, no thread      *)
(* reaches a point of another thread's code, whatever the schedule.        *)
THEOREM TypeCorrect == Spec => []TypeOK
<1>1. Spec => [](TypeOK /\ ClaimInv)
  BY TypeInit, TypeNext, PTL DEF Spec
<1> QED BY <1>1, PTL

-----------------------------------------------------------------------------
(* The mutex belongs to the thread in the critical section; only threads   *)
(* that wait are asleep.                                                   *)

(* Where Main is in its loops tells the phase.                             *)
LEMMA LoopPhase ==
  ASSUME TypeOK, LifeInv, phase # "crashed"
  PROVE  /\ i \in Workers
         /\ pc[Main] \in InitLoopPcs => phase = "setup" /\ pc[i] = "off"
         /\ pc[Main] \in DeinitLoopPcs \cup {"bcast", "release"} => phase = "stopping"
BY ConstantFacts
DEF TypeOK, LifeOK, LifeInv, InitLoopPcs, DeinitLoopPcs, CallerPcs, Workers

(* A move that neither takes nor releases the mutex.                       *)
LEMMA Kept ==
  ASSUME PcOK, LockInv, NEW t \in Threads, NEW to, Goto(t, to), UNCHANGED mutex,
         (pc[t] \in LockedPcs) <=> (to \in LockedPcs)
  PROVE  LockInv'
BY DEF PcOK, LockInv, Goto

(* A move that takes the mutex.                                            *)
LEMMA Taken ==
  ASSUME PcOK, LockInv, NEW t \in Threads, NEW to \in LockedPcs, Lock(t), Goto(t, to)
  PROVE  LockInv'
BY ConstantFacts DEF PcOK, LockInv, Goto, Lock

(* A move that releases the mutex.                                         *)
LEMMA Released ==
  ASSUME PcOK, LockInv, NEW t \in Threads, NEW to, to \notin LockedPcs,
         pc[t] \in LockedPcs, Unlock(t), Goto(t, to)
  PROVE  LockInv'
BY ConstantFacts DEF PcOK, LockInv, Goto, Unlock

(* Every step keeps the mutex with the thread inside.                      *)
LEMMA LockStep ==
  ASSUME TypeOK, LockInv, LifeInv, phase # "crashed", Next PROVE LockInv'
<1> USE DEF TypeOK
<1>1. CASE UNCHANGED mutex /\ UNCHANGED pc
  BY <1>1 DEF LockInv
<1>2. CASE BeginSetup
  BY <1>2, ConstantFacts DEF BeginSetup, LifeInv, LockInv, Goto, PcOK, LockedPcs, Threads, Callers
<1>3. ASSUME \/ ResetQueueIndex \/ ResetRunningIndex \/ BeginShutdown
             \/ BroadcastShutdown \/ ReleaseSync
      PROVE LockInv'
  <2>1. pc[Main] \notin LockedPcs
    BY <1>3 DEF ResetQueueIndex, ResetRunningIndex, BeginShutdown, BroadcastShutdown,
                ReleaseSync, Move, At, LockedPcs, Callers
  <2>2. \E to \in MainPcs \ LockedPcs : Goto(Main, to) /\ UNCHANGED mutex
    BY <1>3 DEF ResetQueueIndex, ResetRunningIndex, BeginShutdown, BroadcastShutdown,
                ReleaseSync, Move, MainPcs, CallerPcs, LockedPcs, LockFree, sync
  <2> QED BY <2>1, <2>2, Kept DEF Threads, Callers
<1>4. CASE RunThread
  <2>1. pc[i] = "off" /\ pc[Main] = "init_run" /\ i \in Workers
    BY <1>4, LoopPhase DEF RunThread, At, InitLoopPcs
  <2> QED BY <1>4, <2>1, ConstantFacts
          DEF RunThread, LockInv, LockedPcs, PcOK, sync, Threads, Callers
<1>5. CASE JoinWorker
  <2>1. pc[i] \in {"exited", "off"} /\ pc[Main] = "deinit_join" /\ i \in Workers
    BY <1>5 DEF JoinWorker, Terminated, At, LifeOK
  <2> QED BY <1>5, <2>1, ConstantFacts
          DEF JoinWorker, LockInv, LockedPcs, PcOK, sync, Threads, Callers
<1>6. ASSUME NEW t \in Threads, Call(t) PROVE LockInv'
  <2>1. CASE QueueStore(t)
    BY <2>1, Taken DEF QueueStore, LockedPcs
  <2>2. CASE QueueLoad(t)
    BY <2>2, Kept DEF QueueLoad, Move, At, LockedPcs, sync
  <2>3. CASE QueueAdvance(t)
    BY <2>3, Released DEF QueueAdvance, Move, At, LockedPcs
  <2>4. CASE QueueBroadcast(t)
    BY <2>4, Kept DEF QueueBroadcast, Move, At, LockedPcs, Home
  <2>5. CASE WaitSleep(t) \/ WaitReturn(t)
    BY <2>5, Kept DEF WaitSleep, WaitReturn, Waiting, MayCall, MayWait, InJob, At, Home,
                      LockedPcs, LockFree
  <2> QED BY <1>6, <2>1, <2>2, <2>3, <2>4, <2>5 DEF Call
<1>7. ASSUME NEW w \in Workers, MainLoop(w) PROVE LockInv'
  <2> USE DEF Threads
  <2>1. CASE \/ ClaimRing(w) \/ TestRunning(w) \/ LoadQueue(w) \/ CompareDrain(w)
             \/ PopLoad(w) \/ FinishJob(w) \/ ExitLoop(w)
    BY <2>1, Kept DEF ClaimRing, TestRunning, LoadQueue, CompareDrain, PopLoad, FinishJob,
                      ExitLoop, Move, At, LockedPcs, LockFree, sync
  <2>2. CASE BecomeIdle(w) \/ WakeUp(w) \/ TakeJob(w)
    BY <2>2, Taken DEF BecomeIdle, WakeUp, TakeJob, Move, LockedPcs
  <2>3. CASE PopAdvance(w)
    BY <2>3, Released DEF PopAdvance, Move, At, LockedPcs
  <2>4. CASE TestQueue(w)
    BY <2>4, Kept, Released DEF TestQueue, LeaveIdle, At, LockedPcs
  <2>5. CASE CompareIdle(w)
    BY <2>5, Released DEF CompareIdle, LeaveIdle, At, LockedPcs
  <2>6. CASE CallNullEntry(w) \/ CallNullJob(w)
    BY <1>1, <2>6 DEF CallNullEntry, CallNullJob, sync
  <2> QED BY <1>7, <2>1, <2>2, <2>3, <2>4, <2>5, <2>6 DEF MainLoop
<1> QED BY <1>1, <1>2, <1>3, <1>4, <1>5, <1>6, <1>7
        DEF Next, Lifecycle, Stopped, SpuriousWakeup, vars, sync

(* A thread is asleep only where its code waits.                           *)
LEMMA SignalStep ==
  ASSUME TypeOK, SignalInv, LifeInv, phase # "crashed", Next PROVE SignalInv'
<1> USE DEF TypeOK, SignalInv
<1>1. CASE UNCHANGED pc /\ UNCHANGED <<idle_signal, queue_signal>>
  BY <1>1
<1>2. ASSUME \/ BeginSetup \/ ResetQueueIndex \/ ResetRunningIndex \/ BeginShutdown
             \/ BroadcastShutdown \/ ReleaseSync
      PROVE SignalInv'
  <2>1. pc[Main] # "wait_sleep" /\ Main \in Threads /\ Main \notin queue_signal
    BY <1>2, ConstantFacts
       DEF BeginSetup, ResetQueueIndex, ResetRunningIndex, BeginShutdown, BroadcastShutdown,
           ReleaseSync, Move, At, Callers, Threads, LifeInv, SyncOK
  <2>2. /\ \E to \in MainPcs : Goto(Main, to)
        /\ idle_signal' \subseteq idle_signal /\ queue_signal' \subseteq queue_signal
    BY <1>2 DEF BeginSetup, ResetQueueIndex, ResetRunningIndex, BeginShutdown, BroadcastShutdown,
                ReleaseSync, Move, MainPcs, CallerPcs, WakeWorkers, sync
  <2> QED BY <2>1, <2>2 DEF Goto, PcOK
<1>3. CASE RunThread \/ JoinWorker
  <2>1. /\ i \in Workers /\ pc[i] \in {"off", "exited"}
        /\ pc[Main] \in {"init_run", "deinit_join"}
    BY <1>3, LoopPhase DEF RunThread, JoinWorker, Terminated, At, InitLoopPcs
  <2>2. i \notin queue_signal \cup idle_signal /\ Main \notin idle_signal \cup queue_signal
    BY <2>1
  <2> QED BY <1>3, <2>2 DEF RunThread, JoinWorker, PcOK, SyncOK, Threads, Callers, sync
<1>4. ASSUME NEW t \in Threads, Call(t) PROVE SignalInv'
  <2>1. CASE QueueStore(t) \/ QueueLoad(t) \/ QueueAdvance(t) \/ QueueBroadcast(t)
    <3>1. pc[t] \notin {"sleep", "wait_sleep"}
      BY <2>1 DEF QueueStore, QueueLoad, QueueAdvance, QueueBroadcast, Move, At, MayQueue,
                  MayCall, MayWait, InJob
    <3>2. /\ \E to : Goto(t, to)
          /\ idle_signal' \subseteq idle_signal /\ queue_signal' \subseteq queue_signal
      BY <2>1 DEF QueueStore, QueueLoad, QueueAdvance, QueueBroadcast, Move, WakeWorkers, sync
    <3> QED BY <3>1, <3>2 DEF Goto, PcOK
  <2>2. CASE WaitSleep(t)
    <3>1. pc[t] # "sleep"
      BY <2>2 DEF WaitSleep, Waiting, MayCall, MayWait, InJob, At
    <3> QED BY <2>2, <3>1 DEF WaitSleep, Goto, PcOK
  <2>3. CASE WaitReturn(t)
    <3>1. t \notin idle_signal /\ pc[t] # "sleep"
      BY <2>3 DEF WaitReturn, Waiting, At
    <3> QED BY <2>3, <3>1 DEF WaitReturn, Goto, PcOK
  <2> QED BY <1>4, <2>1, <2>2, <2>3 DEF Call
<1>5. ASSUME NEW w \in Workers, MainLoop(w) PROVE SignalInv'
  <2>1. w \in Threads
    BY DEF Threads
  <2>2. CASE CompareIdle(w)
    <3>1. pc[w] \notin {"sleep", "wait_sleep"}
      BY <2>2 DEF CompareIdle, At
    <3> QED BY <2>1, <2>2, <3>1 DEF CompareIdle, LeaveIdle, WakeWaiters, Goto, PcOK, SyncOK, Threads
  <2>3. CASE WakeUp(w)
    BY <2>1, <2>3 DEF WakeUp, Move, At, Goto, PcOK
  <2>4. ASSUME ~CompareIdle(w), ~WakeUp(w) PROVE SignalInv'
    <3>1. /\ \/ UNCHANGED pc
             \/ pc[w] \notin {"sleep", "wait_sleep"} /\ \E to : Goto(w, to)
          /\ idle_signal' \subseteq idle_signal /\ queue_signal' \subseteq queue_signal
      BY <1>5, <2>4
         DEF MainLoop, CallNullEntry, ClaimRing, TestRunning, BecomeIdle, TestQueue, At,
             LoadQueue, CompareDrain, TakeJob, PopLoad, PopAdvance, FinishJob, CallNullJob,
             ExitLoop, LeaveIdle, Move, WakeWaiters, sync
    <3> QED BY <2>1, <3>1 DEF Goto, PcOK, SyncOK, Threads
  <2> QED BY <2>2, <2>3, <2>4
<1>6. ASSUME NEW t \in Threads, SpuriousWakeup(t) PROVE SignalInv'
  BY <1>6 DEF SpuriousWakeup
<1> QED BY <1>1, <1>2, <1>3, <1>4, <1>5, <1>6 DEF Next, Lifecycle, Stopped, vars, sync

-----------------------------------------------------------------------------
(* idle_worker_count is the number of workers in the waiting section.      *)

(* There are worker_count workers, a finite number.                        *)
LEMMA WorkersFinite ==
  /\ IsFiniteSet(Workers) /\ Cardinality(Workers) = worker_count
  /\ IsFiniteSet(IdleSet) /\ Cardinality(IdleSet) \in Nat
<1>1. IsFiniteSet(Workers) /\ Cardinality(Workers) = worker_count
  BY ConstantFacts, FS_Interval DEF Workers
<1>2. IdleSet \subseteq Workers
  BY DEF IdleSet
<1> QED BY <1>1, <1>2, FS_Subset, FS_CardinalityType

(* A step that leaves the waiting section and the count alone.             *)
LEMMA IdleSame ==
  ASSUME IdleCountExact, phase' = phase, UNCHANGED idle_worker_count, IdleSet' = IdleSet
  PROVE  IdleCountExact'
BY DEF IdleCountExact, IdleSet

(* A move inside or outside the waiting section.                           *)
LEMMA IdleMove ==
  ASSUME TypeOK, IdleCountExact, NEW t \in Threads, NEW to, Goto(t, to), phase' = phase,
         UNCHANGED idle_worker_count, t \in Workers => (pc[t] \in IdlePcs <=> to \in IdlePcs)
  PROVE  IdleCountExact'
<1>1. IdleSet' = IdleSet
  BY DEF IdleSet, Goto, TypeOK, PcOK
<1> QED BY <1>1, IdleSame

(* A worker that enters the waiting section counts itself.                 *)
LEMMA IdleEnter ==
  ASSUME TypeOK, IdleCountExact, NEW w \in Workers, NEW to \in IdlePcs, pc[w] \notin IdlePcs,
         Goto(w, to), CountIdle(1), phase' = phase
  PROVE  IdleCountExact'
<1>1. IdleSet' = IdleSet \cup {w} /\ w \notin IdleSet
  BY DEF IdleSet, Goto, TypeOK, PcOK, Threads
<1>2. Cardinality(IdleSet') = Cardinality(IdleSet) + 1
  BY <1>1, WorkersFinite, FS_AddElement
<1> QED BY <1>2 DEF IdleCountExact, IdleSet, CountIdle

(* A worker that leaves the waiting section takes itself off.              *)
LEMMA IdleLeave ==
  ASSUME TypeOK, IdleCountExact, NEW w \in Workers, NEW to, to \notin IdlePcs, pc[w] \in IdlePcs,
         Goto(w, to), CountIdle(-1), phase' = phase
  PROVE  IdleCountExact'
<1>1. IdleSet' = IdleSet \ {w} /\ w \in IdleSet
  BY DEF IdleSet, Goto, TypeOK, PcOK, Threads
<1>2. Cardinality(IdleSet') = Cardinality(IdleSet) - 1
  BY <1>1, WorkersFinite, FS_RemoveElement
<1> QED BY <1>2, WorkersFinite DEF IdleCountExact, IdleSet, CountIdle

(* Every step keeps the idle count exact.                                  *)
LEMMA IdleStep ==
  ASSUME TypeOK, LifeInv, IdleCountExact, phase # "crashed", Next PROVE IdleCountExact'
<1> USE DEF TypeOK
<1>1. CASE UNCHANGED pc /\ UNCHANGED idle_worker_count /\ UNCHANGED phase
  BY <1>1 DEF IdleCountExact
<1>2. CASE BeginSetup
  <2>1. IdleSet' = {}
    BY <1>2, ConstantFacts
       DEF BeginSetup, LifeInv, IdleSet, Goto, PcOK, IdlePcs, Threads, Callers
  <2> QED BY <1>2, <2>1, FS_EmptySet DEF BeginSetup, IdleCountExact, IdleSet
<1>3. CASE ResetQueueIndex \/ ResetRunningIndex \/ BroadcastShutdown
  BY <1>3, IdleMove, ConstantFacts
     DEF ResetQueueIndex, ResetRunningIndex, BroadcastShutdown, Move, counts, life, Threads
<1>4. CASE BeginShutdown \/ ReleaseSync \/ JoinWorker
  <2>1. phase' \notin {"setup", "up"}
    BY <1>4, LoopPhase DEF BeginShutdown, ReleaseSync, JoinWorker, At, DeinitLoopPcs
  <2> QED BY <2>1 DEF IdleCountExact
<1>5. CASE RunThread
  <2>1. i \in Workers /\ pc[i] = "off"
    BY <1>5, LoopPhase DEF RunThread, At, InitLoopPcs
  <2>2. IdleSet' = IdleSet
    BY <1>5, <2>1, ConstantFacts DEF RunThread, IdleSet, PcOK, IdlePcs, Threads, Callers
  <2> QED BY <1>5, <2>2, IdleSame DEF RunThread, counts
<1>6. ASSUME NEW t \in Threads, Call(t), ~WaitReturn(t) PROVE IdleCountExact'
  <2>1. /\ phase' = phase /\ UNCHANGED idle_worker_count
        /\ t \in Workers => pc[t] \notin IdlePcs
    BY <1>6, ConstantFacts
       DEF Call, QueueStore, QueueLoad, QueueAdvance, QueueBroadcast, WaitSleep, Waiting,
           MayCall, MayWait, InJob,
           MayQueue, Move, At, PcOK, IdlePcs, WorkerPcs, LockedPcs, counts, life
  <2>2. \E to : Goto(t, to) /\ to \notin IdlePcs
    BY <1>6
       DEF Call, QueueStore, QueueLoad, QueueAdvance, QueueBroadcast, WaitSleep, Move, Home, IdlePcs
  <2> QED BY <2>1, <2>2, IdleMove
<1>7. ASSUME NEW t \in Threads, WaitReturn(t) PROVE IdleCountExact'
  <2>1. UNCHANGED idle_worker_count
    BY <1>7 DEF WaitReturn, counts
  <2>2. IdleSet' = IdleSet
    BY <1>7 DEF WaitReturn, Waiting, At, Goto, Home, IdleSet, IdlePcs, PcOK
  <2>3. phase' \in {"setup", "up"} => phase \in {"setup", "up"}
    BY <1>7 DEF WaitReturn
  <2> QED BY <2>1, <2>2, <2>3 DEF IdleCountExact, IdleSet
<1>8. ASSUME NEW w \in Workers, MainLoop(w) PROVE IdleCountExact'
  <2> USE DEF Threads
  <2>1. CASE \/ ClaimRing(w) \/ TestRunning(w) \/ WakeUp(w) \/ LoadQueue(w) \/ CompareDrain(w)
             \/ TakeJob(w) \/ PopLoad(w) \/ PopAdvance(w) \/ FinishJob(w)
    BY <2>1, IdleMove DEF ClaimRing, TestRunning, WakeUp, LoadQueue, CompareDrain, TakeJob,
       PopLoad, PopAdvance, FinishJob, Move, At, IdlePcs, counts, life
  <2>2. CASE BecomeIdle(w)
    BY <2>2, IdleEnter DEF BecomeIdle, Move, At, IdlePcs, life
  <2>3. CASE TestQueue(w)
    BY <2>3, IdleMove, IdleLeave DEF TestQueue, LeaveIdle, At, IdlePcs, life
  <2>4. CASE CompareIdle(w)
    BY <2>4, IdleMove, IdleLeave DEF CompareIdle, LeaveIdle, At, IdlePcs, life
  <2>5. CASE CallNullEntry(w) \/ CallNullJob(w)
    BY <2>5 DEF CallNullEntry, CallNullJob, IdleCountExact
  <2>6. CASE ExitLoop(w)
    BY <2>6 DEF ExitLoop, Move, At, LifeInv, IdleCountExact, life
  <2> QED BY <1>8, <2>1, <2>2, <2>3, <2>4, <2>5, <2>6 DEF MainLoop
<1> QED BY <1>1, <1>2, <1>3, <1>4, <1>5, <1>6, <1>7, <1>8
        DEF Next, Lifecycle, Stopped, SpuriousWakeup, vars, counts, life

(* wait_idle can only end a setup once every worker is in its loop.        *)
LEMMA AllIdle ==
  ASSUME TypeOK, LifeInv, IdleCountExact, phase \in {"setup", "up"}, IsIdle
  PROVE  \A w \in Workers : pc[w] \in IdlePcs
<1>1. Cardinality(IdleSet) = Cardinality(Workers)
  BY WorkersFinite DEF LifeInv, IdleCountExact, IdleSet, IsIdle
<1>2. IdleSet = Workers
  BY <1>1, WorkersFinite, FS_Subset DEF IdleSet
<1> QED BY <1>2 DEF IdleSet

-----------------------------------------------------------------------------
(* What each phase says of the other threads.                              *)

(* A worker's move respects the phase.                                     *)
LEMMA LifeWorkerMove ==
  ASSUME TypeOK, LifeInv, phase # "crashed", NEW w \in Workers, pc[w] # "off",
         NEW to, to \notin {"off", "start"}, Goto(w, to),
         UNCHANGED <<i, phase, sync_live, running>>,
         to \in {"exit_lock", "exited"} => phase \notin {"setup", "up"}
  PROVE  LifeInv'
<1>1. /\ \A t \in Threads \ {w} : pc'[t] = pc[t]
      /\ pc'[w] = to /\ w # Main /\ Main \in Threads /\ w \notin Clients
      /\ Clients \subseteq Threads /\ Workers \subseteq Threads /\ w \notin Callers
  BY ConstantFacts DEF Goto, TypeOK, PcOK, Threads, Callers
<1>2. phase # "down" /\ ~(pc[Main] = "release" /\ phase = "stopping")
  BY DEF LifeInv
<1> QED BY <1>1, <1>2 DEF LifeInv, Callers

(* A caller's move respects the phase.                                     *)
LEMMA LifeCallerMove ==
  ASSUME TypeOK, LifeInv, NEW c \in Callers, NEW to \in CallerPcs, Goto(c, to),
         UNCHANGED <<i, phase, sync_live, running>>,
         pc[Main] \notin InitLoopPcs \cup DeinitLoopPcs,
         \/ phase = "up"
         \/ phase = "setup" /\ c = Main /\ to = "wait_sleep"
  PROVE  LifeInv'
<1>1. /\ \A t \in Threads \ {c} : pc'[t] = pc[t]
      /\ pc'[c] = to /\ c \notin Workers
      /\ Main \in Threads /\ Clients \subseteq Threads /\ Workers \subseteq Threads
      /\ Main \notin Clients
  BY ConstantFacts DEF Goto, TypeOK, PcOK, Threads, Callers
<1>2. pc'[Main] \in CallerPcs \/ pc'[Main] = pc[Main]
  BY <1>1
<1>3. pc'[Main] \notin InitLoopPcs \cup DeinitLoopPcs
  BY <1>2 DEF CallerPcs, InitLoopPcs, DeinitLoopPcs
<1> QED BY <1>1, <1>2, <1>3 DEF LifeInv, Callers

(* A step of init() or deinit() respects the phase.                        *)
LEMMA LifeLifecycle ==
  ASSUME TypeOK, LifeInv, LockInv, phase # "crashed", Lifecycle PROVE LifeInv'
<1> USE ConstantFacts, LoopPhase DEF TypeOK, LifeOK, PcOK, InitLoopPcs, DeinitLoopPcs
<1>1. CASE BeginSetup
  BY <1>1 DEF BeginSetup, LifeInv, Goto, Threads, Callers
<1>2. CASE RunThread
  <2>1. pc[Main] = "init_run" /\ phase = "setup" /\ i \in Workers
    BY <1>2 DEF RunThread, At
  <2>2. /\ pc' = [pc EXCEPT ![Main] = pc'[Main], ![i] = pc'[i]]
        /\ pc'[Main] = IF Last THEN "wait" ELSE "init_q"
        /\ pc'[i] \in {"start", "off"}
    BY <1>2, <2>1 DEF RunThread, Threads, Callers
  <2>3. \A t \in Threads \ {Main, i} : pc'[t] = pc[t]
    BY <1>2, <2>1 DEF RunThread
  <2>4. UNCHANGED <<phase, sync_live, running>> /\ NextI
    BY <1>2 DEF RunThread, sync, counts
  <2>5. Last => i' = 0
    BY <2>4 DEF NextI
  <2>6. ~Last => i' = i + 1 /\ \A w \in Workers : w >= i' => w > i
    BY <2>4, <2>1 DEF NextI, Workers
  <2>7. \A w \in Workers : ~Last /\ w >= i' => pc'[w] = "off"
    BY <2>1, <2>3, <2>6 DEF LifeInv, Threads, Callers, Workers
  <2>8. /\ \A c \in Clients : pc'[c] = "ready"
        /\ running' /\ \A w \in Workers : pc'[w] \notin {"exit_lock", "exited"}
    BY <2>1, <2>2, <2>3, <2>4 DEF LifeInv, Threads, Callers
  <2> QED BY <2>1, <2>2, <2>4, <2>5, <2>7, <2>8 DEF LifeInv
<1>3. CASE ResetQueueIndex \/ ResetRunningIndex
  BY <1>3 DEF ResetQueueIndex, ResetRunningIndex, Move, At, Goto, LifeInv, Threads, Callers,
              counts, sync, life
<1>4. CASE BeginShutdown
  BY <1>4 DEF BeginShutdown, At, Goto, LifeInv, Threads, Callers, CallerPcs
<1>5. CASE BroadcastShutdown
  BY <1>5 DEF BroadcastShutdown, Move, At, Goto, LifeInv, Threads, Callers, counts, life, Workers
<1>6. CASE JoinWorker
  <2>1. pc[Main] = "deinit_join" /\ phase = "stopping" /\ i \in Workers
    BY <1>6 DEF JoinWorker, At
  <2>2. /\ pc'[Main] = IF Last THEN "release" ELSE "deinit_q"
        /\ pc'[i] = "off"
        /\ \A t \in Threads \ {Main, i} : pc'[t] = pc[t]
    BY <1>6, <2>1 DEF JoinWorker, Threads, Callers
  <2>3. UNCHANGED <<phase, sync_live, running>> /\ NextI
    BY <1>6 DEF JoinWorker, sync, counts
  <2>4. Last => i' = 0 /\ \A w \in Workers : w <= i
    BY <2>1, <2>3 DEF NextI, Last, Workers
  <2>5. ~Last => i' = i + 1 /\ \A w \in Workers : w < i' => w <= i
    BY <2>1, <2>3 DEF NextI, Workers
  <2>6. \A w \in Workers : w <= i => pc'[w] = "off"
    BY <2>1, <2>2 DEF LifeInv, Threads, Callers, Workers
  <2>7. /\ \A c \in Clients : pc'[c] = "ready"
        /\ \A w \in Workers : pc'[w] # "start"
    BY <2>1, <2>2 DEF LifeInv, Threads, Callers
  <2> QED BY <2>1, <2>2, <2>3, <2>4, <2>5, <2>6, <2>7 DEF LifeInv
<1>7. CASE ReleaseSync
  <2>1. \A t \in Threads : pc[t] \notin LockedPcs
    BY <1>7 DEF ReleaseSync, Move, At, LifeInv, LockedPcs, Threads, Callers
  <2>2. mutex = NoThread
    BY <2>1 DEF LockInv, SyncOK
  <2> QED BY <1>7, <2>2 DEF ReleaseSync, Move, At, Goto, LifeInv, Threads, Callers
<1> QED BY <1>1, <1>2, <1>3, <1>4, <1>5, <1>6, <1>7 DEF Lifecycle

(* Every step respects the phase; a setup returns from wait_idle() with all*)
(* workers idle, so none is left to start.                                 *)
LEMMA LifeInvStep ==
  ASSUME TypeOK, LockInv, LifeInv, IdleCountExact, phase # "crashed", Next PROVE LifeInv'
<1> USE ConstantFacts DEF TypeOK
<1>1. CASE UNCHANGED vars
  BY <1>1 DEF vars, counts, sync, life, LifeInv
<1>2. CASE Lifecycle
  BY <1>2, LifeLifecycle
<1>3. ASSUME NEW t \in Threads, Call(t), t \in Workers PROVE LifeInv'
  <2>1. /\ pc[t] # "off" /\ UNCHANGED <<i, phase, sync_live, running>>
        /\ \E to \in {"q_load", "q_store", "q_signal", "wait_sleep", "run"} : Goto(t, to)
    BY <1>3, ConstantFacts
       DEF Call, QueueStore, QueueLoad, QueueAdvance, QueueBroadcast, WaitSleep, WaitReturn,
           Waiting, MayCall, MayWait, InJob, MayQueue, Move, At, PcOK, WorkerPcs, LockedPcs, Home,
           counts, sync, life
  <2> QED BY <1>3, <2>1, LifeWorkerMove
<1>4. ASSUME NEW t \in Threads, Call(t), t \notin Workers PROVE LifeInv'
  <2>1. t \in Callers
    BY <1>4 DEF Threads
  <2>2. \/ phase = "up"
        \/ phase = "setup" /\ t = Main /\ pc[Main] \in {"wait", "wait_sleep"}
    <3>1. phase = "up" \/ pc[t] \in {"q_load", "q_store", "q_signal", "wait", "wait_sleep"}
      BY <1>4
         DEF Call, QueueStore, QueueLoad, QueueAdvance, QueueBroadcast, WaitSleep, WaitReturn,
             Waiting, MayCall, MayWait, InJob, MayQueue, Move, At
    <3>2. phase \in {"setup", "up"}
      BY <2>1, <3>1 DEF LifeInv, LifeOK, Callers, DeinitLoopPcs
    <3>3. phase = "setup" => t \notin Clients /\ pc[Main] \in InitLoopPcs \cup {"wait", "wait_sleep"}
      BY <3>1 DEF LifeInv
    <3> QED BY <2>1, <3>1, <3>2, <3>3 DEF Callers, InitLoopPcs
  <2>3. pc[Main] \notin InitLoopPcs \cup DeinitLoopPcs
    BY <2>2 DEF LifeInv, CallerPcs, InitLoopPcs, DeinitLoopPcs
  <2>4. CASE phase = "up" \/ WaitSleep(t)
    <3>1. UNCHANGED <<i, phase, sync_live, running>> /\ \E to \in CallerPcs : Goto(t, to)
      BY <1>4, <2>2, <2>4
         DEF Call, QueueStore, QueueLoad, QueueAdvance, QueueBroadcast, WaitSleep, WaitReturn,
             Move, Home, CallerPcs, counts, sync, life
    <3>2. WaitSleep(t) => Goto(t, "wait_sleep")
      BY DEF WaitSleep
    <3>3. "wait_sleep" \in CallerPcs
      BY DEF CallerPcs
    <3> QED BY <2>1, <2>2, <2>3, <2>4, <3>1, <3>2, <3>3, LifeCallerMove
  <2>5. CASE phase = "setup" /\ ~WaitSleep(t)
    <3>1. t = Main /\ WaitReturn(t)
      BY <1>4, <2>2, <2>5
         DEF Call, QueueStore, QueueLoad, QueueAdvance, QueueBroadcast, MayCall, MayWait, InJob,
             MayQueue, Move, At
    <3>2. \A w \in Workers : pc[w] \in IdlePcs
      BY <2>5, <3>1, AllIdle DEF WaitReturn
    <3>3. phase' = "up" /\ UNCHANGED <<i, sync_live, running>>
      BY <2>5, <3>1 DEF WaitReturn, counts
    <3>4. pc'[Main] = "ready" /\ \A w \in Workers : pc'[w] = pc[w]
      BY <3>1 DEF WaitReturn, Goto, Home, PcOK, Threads, Callers
    <3> QED BY <2>3, <2>5, <3>2, <3>3, <3>4
            DEF LifeInv, IdlePcs, CallerPcs, InitLoopPcs, DeinitLoopPcs
  <2> QED BY <2>2, <2>4, <2>5
<1>5. ASSUME NEW w \in Workers, CallNullEntry(w) \/ CallNullJob(w) PROVE LifeInv'
  <2>1. phase # "down" /\ phase' = "crashed" /\ UNCHANGED <<pc, i, sync_live>>
    BY <1>5 DEF CallNullEntry, CallNullJob, At, LifeInv, sync
  <2> QED BY <2>1 DEF LifeInv
<1>6. ASSUME NEW w \in Workers, MainLoop(w), ~CallNullEntry(w), ~CallNullJob(w) PROVE LifeInv'
  <2>1. /\ pc[w] # "off" /\ UNCHANGED <<i, phase, sync_live, running>>
        /\ \E to : /\ Goto(w, to) /\ to \notin {"off", "start"}
                   /\ to = "exit_lock" => ~running
                   /\ to = "exited" => pc[w] = "exit_lock"
    BY <1>6
       DEF MainLoop, ClaimRing, TestRunning, BecomeIdle, TestQueue, CompareIdle, WakeUp, LoadQueue,
           CompareDrain, TakeJob, PopLoad, PopAdvance, FinishJob, ExitLoop, LeaveIdle, Move, At,
           counts, sync, life
  <2>2. ~running \/ pc[w] = "exit_lock" => phase \notin {"setup", "up"}
    BY DEF LifeInv
  <2> QED BY <2>1, <2>2, LifeWorkerMove
<1> QED BY <1>1, <1>2, <1>3, <1>4, <1>5, <1>6
        DEF Next, SpuriousWakeup, LifeInv, counts, life

-----------------------------------------------------------------------------
(* The rings handed out in a setup.                                        *)

(* In a setup no job is handed out before the workers have their rings.    *)
LEMMA FreshStep ==
  ASSUME TypeOK, ClaimInv, LifeInv, FreshInv, phase # "crashed", Next PROVE FreshInv'
<1> USE ConstantFacts DEF TypeOK
<1> SUFFICES ASSUME cycles' = 0, phase' \in {"down", "setup"}, NEW v \in Workers
             PROVE  /\ queue_index'[v] = 0 /\ running_index'[v] = 0
                    /\ reg'[v] = 0 /\ pc'[v] \in FreshPcs
  BY DEF FreshInv
<1>1. CASE UNCHANGED <<ring, reg, pc, cycles, phase>>
  BY <1>1 DEF FreshInv, ring
<1> DEFINE Old == /\ queue_index[v] = 0 /\ running_index[v] = 0
                  /\ reg[v] = 0 /\ pc[v] \in FreshPcs
<1>2. CASE BeginSetup
  <2>1. cycles = 0 /\ phase = "down"
    BY <1>2 DEF BeginSetup
  <2>2. Old
    BY <2>1 DEF FreshInv
  <2> QED BY <1>2, <2>2 DEF BeginSetup, Goto, PcOK, Threads, Callers, ring, locals
<1>3. CASE RunThread \/ ResetQueueIndex \/ ResetRunningIndex
  <2>1. Old
    BY <1>3 DEF RunThread, ResetQueueIndex, ResetRunningIndex, FreshInv, life
  <2>2. queue_index'[v] = 0 /\ running_index'[v] = 0 /\ reg'[v] = 0
    BY <1>3, <2>1 DEF RunThread, ResetQueueIndex, ResetRunningIndex, RingOK, ring, locals
  <2>3. pc'[v] \in FreshPcs
    BY <1>3, <2>1 DEF RunThread, ResetQueueIndex, ResetRunningIndex, Move, Goto, PcOK,
                      FreshPcs, Threads, Callers
  <2> QED BY <2>2, <2>3
<1>4. CASE BeginShutdown \/ BroadcastShutdown \/ JoinWorker \/ ReleaseSync
  <2>1. phase = "stopping" \/ phase' = "stopping"
    BY <1>4, LoopPhase
       DEF BeginShutdown, BroadcastShutdown, JoinWorker, ReleaseSync, Move, At, DeinitLoopPcs
  <2> QED BY <1>4, <2>1
          DEF BeginShutdown, BroadcastShutdown, JoinWorker, ReleaseSync, LifeOK, life
<1>5. ASSUME NEW t \in Threads, Call(t) PROVE Old'
  <2>1. cycles = 0 /\ phase = "setup"
    BY <1>5 DEF Call, QueueStore, QueueLoad, QueueAdvance, QueueBroadcast, WaitSleep, WaitReturn,
                Waiting, MayCall, MayWait, InJob, MayQueue, Move, At, LifeInv, Callers, FreshInv, FreshPcs,
                Threads, life, LifeOK
  <2>2. Old /\ pc[t] \notin QueuePcs \cup {"run"}
    BY <1>5, <2>1 DEF FreshInv, FreshPcs, LifeInv, InitLoopPcs, Threads, Callers, QueuePcs
  <2>3. WaitSleep(t) \/ WaitReturn(t)
    BY <1>5, <2>1, <2>2
       DEF Call, QueueStore, QueueLoad, QueueAdvance, QueueBroadcast, MayCall, MayWait, InJob,
                            MayQueue, Move, At, QueuePcs
  <2>4. t \notin Workers
    BY <2>1, <2>2, <2>3
       DEF WaitSleep, WaitReturn, Waiting, MayCall, MayWait, InJob, At, FreshInv, FreshPcs
  <2> QED BY <2>2, <2>3, <2>4 DEF WaitSleep, WaitReturn, Goto, PcOK, Threads, ring, locals
<1>6. ASSUME NEW w \in Workers, MainLoop(w) PROVE Old'
  <2>1. cycles = 0 /\ phase = phase' /\ pc[w] # "off" /\ ~CallNullEntry(w) /\ ~CallNullJob(w)
    BY <1>6 DEF MainLoop, CallNullEntry, ClaimRing, TestRunning, BecomeIdle, TestQueue,
                CompareIdle, WakeUp, LoadQueue, CompareDrain, TakeJob, PopLoad, PopAdvance,
                FinishJob, CallNullJob, ExitLoop, Move, At, life
  <2>2. phase = "setup" /\ running
    BY <2>1 DEF LifeInv
  <2>3. /\ Old /\ pc[w] \in FreshPcs /\ reg[w] = 0
        /\ \A s \in Workers : queue_index[s] = 0 /\ running_index[s] = 0
    BY <2>1, <2>2 DEF FreshInv
  <2>4. pc[w] # "start" => worker_index[w] \in Workers
    BY <2>1 DEF ClaimInv, LocalsOK
  <2>5. \/ ClaimRing(w) \/ TestRunning(w) \/ BecomeIdle(w)
        \/ TestQueue(w) \/ CompareIdle(w) \/ WakeUp(w)
    BY <1>6, <2>1, <2>3
       DEF MainLoop, LoadQueue, CompareDrain, TakeJob, PopLoad, PopAdvance, FinishJob, ExitLoop,
           Move, At, FreshPcs
  <2>6. UNCHANGED ring
    BY <2>5 DEF ClaimRing, TestRunning, BecomeIdle, TestQueue, CompareIdle, WakeUp
  <2>7. UNCHANGED reg \/ Load(w, 0)
    BY <2>2, <2>3, <2>4, <2>5
       DEF ClaimRing, TestRunning, BecomeIdle, TestQueue, CompareIdle, WakeUp, locals, At
  <2>8. \E to \in FreshPcs : Goto(w, to)
    BY <2>2, <2>3, <2>4, <2>5
       DEF ClaimRing, TestRunning, BecomeIdle, TestQueue, CompareIdle, WakeUp, HasJob, Move, At,
           FreshPcs
  <2> QED BY <2>3, <2>6, <2>7, <2>8 DEF Load, Goto, LocalsOK, PcOK, Threads, ring
<1> QED BY <1>1, <1>2, <1>3, <1>4, <1>5, <1>6
        DEF Next, Lifecycle, Stopped, SpuriousWakeup, vars, ring, locals, life

(* If jobs queue no jobs, no worker is inside queue_job.                   *)
LEMMA NoQueueStep ==
  ASSUME TypeOK, NoQueueInv, Next PROVE NoQueueInv'
<1> SUFFICES ASSUME ~JobsMayQueue, NEW v \in Workers PROVE pc'[v] \notin QueuePcs
  BY DEF NoQueueInv
<1> USE ConstantFacts DEF TypeOK, QueuePcs
<1>1. pc[v] \notin QueuePcs
  BY DEF NoQueueInv
<1>2. CASE Lifecycle
  <2>1. \/ \E main : Goto(Main, main)
        \/ \E main, to : to \in {"off", "start"} /\ pc' = [pc EXCEPT ![Main] = main, ![i] = to]
    BY <1>2 DEF Lifecycle, BeginSetup, ResetQueueIndex, ResetRunningIndex, RunThread, BeginShutdown,
                BroadcastShutdown, JoinWorker, ReleaseSync, Move
  <2> QED BY <1>1, <2>1 DEF Goto, PcOK, LifeOK, Threads, Callers
<1>3. ASSUME NEW t \in Threads, Call(t) PROVE pc'[v] \notin QueuePcs
  <2>1. CASE WaitSleep(t) \/ WaitReturn(t)
    BY <1>1, <2>1 DEF WaitSleep, WaitReturn, Home, Goto, PcOK, Threads
  <2>2. CASE ~WaitSleep(t) /\ ~WaitReturn(t)
    <3>1. t # v
      BY <1>1, <1>3, <2>2 DEF Call, QueueStore, QueueLoad, QueueAdvance, QueueBroadcast, MayCall,
                              InJob, MayQueue, Move, At
    <3>2. \E to : Goto(t, to)
      BY <1>3, <2>2 DEF Call, QueueStore, QueueLoad, QueueAdvance, QueueBroadcast, Move
    <3> QED BY <1>1, <3>1, <3>2 DEF Goto, PcOK, Threads
  <2> QED BY <2>1, <2>2
<1>4. ASSUME NEW w \in Workers, MainLoop(w) PROVE pc'[v] \notin QueuePcs
  <2>1. UNCHANGED pc \/ \E to : to \notin QueuePcs /\ Goto(w, to)
    BY <1>4 DEF MainLoop, CallNullEntry, ClaimRing, TestRunning, BecomeIdle, TestQueue, CompareIdle,
                WakeUp, LoadQueue, CompareDrain, TakeJob, PopLoad, PopAdvance, FinishJob,
                CallNullJob, ExitLoop, LeaveIdle, Move
  <2> QED BY <1>1, <2>1 DEF Goto, PcOK, Threads
<1> QED BY <1>1, <1>2, <1>3, <1>4 DEF Next, Stopped, SpuriousWakeup, vars

(* The setups made stay within their bound.                                *)
LEMMA CycleStep == CycleInv /\ Next => CycleInv'
BY LifeFrame DEF CycleInv, BeginSetup, RunThread, BeginShutdown, JoinWorker, ReleaseSync, WaitReturn,
                 CallNullEntry, CallNullJob, life

(* The next ring, without the remainder.                                   *)
LEMMA NextRingValue ==
  \A s \in Workers : NextRing(s) = IF s + 1 = worker_count THEN 0 ELSE s + 1
BY ConstantFacts DEF NextRing, Workers

(* The workers that own a ring are finitely many.                          *)
LEMMA ClaimedFinite ==
  /\ IsFiniteSet(Claimed) /\ Cardinality(Claimed) \in Nat
  /\ \A w \in Workers \ Claimed : Cardinality(Claimed) < worker_count
<1>1. Claimed \subseteq Workers
  BY DEF Claimed
<1>2. IsFiniteSet(Claimed) /\ Cardinality(Claimed) \in Nat
  BY <1>1, WorkersFinite, FS_Subset, FS_CardinalityType
<1>3. \A w \in Workers \ Claimed : Claimed # Workers
  OBVIOUS
<1> QED BY <1>1, <1>2, <1>3, WorkersFinite, FS_Subset, ConstantFacts

(* The setups of the source's callers: no job queues during one, because   *)
(* jobs never queue or because there is only the first.                    *)
QuietSetups == ~JobsMayQueue \/ CycleLimit <= 1

(* While a setup runs nobody advances current_worker_index but its workers.*)
LEMMA NobodyQueuesInSetup ==
  ASSUME QuietSetups \/ cycles = 0, TypeOK, LifeInv, FreshInv, NoQueueInv, CycleInv,
         phase = "setup",
         NEW t \in Threads
  PROVE  pc[t] # "q_store"
<1> USE DEF TypeOK
<1>1. CASE t \in Callers
  BY <1>1 DEF LifeInv, Callers, InitLoopPcs
<1>2. CASE t \in Workers /\ ~JobsMayQueue
  BY <1>2 DEF NoQueueInv, QueuePcs
<1>3. CASE t \in Workers /\ CycleLimit <= 1
  <2>1. cycles = 0
    BY <1>3, ConstantsAssumption DEF CycleInv, LifeOK, ConstantsAssumption
  <2> QED BY <1>3, <2>1 DEF FreshInv, FreshPcs
<1>4. CASE t \in Workers /\ cycles = 0
  BY <1>4 DEF FreshInv, FreshPcs
<1> QED BY <1>1, <1>2, <1>3, <1>4 DEF QuietSetups, Threads

(* The rings the workers own are those just behind current_worker_index.   *)
LEMMA RingsStep ==
  ASSUME QuietSetups \/ cycles = 0, TypeOK, ClaimInv, LifeInv, FreshInv, NoQueueInv,
         CycleInv, RingsInv, phase # "crashed", Next
  PROVE  RingsInv'
<1> USE ConstantFacts DEF TypeOK
<1> DEFINE Unclaimed == \A w \in Workers : pc[w] \in {"off", "start"} => worker_index[w] = NoRing
           Passed == phase = "setup" =>
                       \A w \in Claimed : Back(worker_index[w]) <= Cardinality(Claimed)
<1>1. ASSUME UNCHANGED worker_index, Unclaimed',
             UNCHANGED current_worker_index \/ phase' # "setup",
             phase' = "setup" => phase = "setup" \/ Claimed = {}
      PROVE RingsInv'
  <2>1. DistinctRings' /\ Claimed' = Claimed
    BY <1>1 DEF RingsInv, DistinctRings, Claimed
  <2>2. Passed'
    BY <1>1, <2>1 DEF RingsInv, Claimed, Back
  <2> QED BY <1>1, <2>1, <2>2 DEF RingsInv
<1>2. CASE BeginSetup
  <2>1. Claimed = {} /\ UNCHANGED <<worker_index, current_worker_index>>
    BY <1>2 DEF BeginSetup, LifeInv, RingsInv, Claimed, locals
  <2>2. Unclaimed'
    BY <1>2, <2>1 DEF BeginSetup, RingsInv, Goto, PcOK, Threads, Callers
  <2> QED BY <1>1, <2>1, <2>2
<1>3. ASSUME \/ ResetQueueIndex \/ ResetRunningIndex \/ BeginShutdown \/ BroadcastShutdown
             \/ ReleaseSync
      PROVE RingsInv'
  <2>1. /\ UNCHANGED <<worker_index, current_worker_index>> /\ \E to : Goto(Main, to)
        /\ phase' = "setup" => phase = "setup"
    BY <1>3 DEF ResetQueueIndex, ResetRunningIndex, BeginShutdown, BroadcastShutdown, ReleaseSync,
                Move, counts, locals, life
  <2>2. Unclaimed'
    BY <2>1 DEF RingsInv, Goto, PcOK, Threads, Callers
  <2> QED BY <1>1, <2>1, <2>2
<1>4. CASE RunThread
  <2>1. pc[i] = "off" /\ i \in Workers
    BY <1>4, LoopPhase DEF RunThread, At, InitLoopPcs
  <2>2. Unclaimed'
    BY <1>4, <2>1 DEF RunThread, RingsInv, PcOK, Threads, Callers, locals
  <2> QED BY <1>1, <1>4, <2>2 DEF RunThread, counts, locals
<1>5. CASE JoinWorker
  <2>1. i \in Workers /\ phase' = "stopping"
    BY <1>5, LoopPhase DEF JoinWorker, At, DeinitLoopPcs
  <2>2. worker_index' = [worker_index EXCEPT ![i] = NoRing]
    BY <1>5 DEF JoinWorker
  <2>3. DistinctRings'
    BY <2>1, <2>2 DEF RingsInv, DistinctRings, LocalsOK
  <2>4. Unclaimed'
    BY <1>5, <2>1, <2>2 DEF JoinWorker, RingsInv, LocalsOK, PcOK, Threads, Callers
  <2> QED BY <2>1, <2>3, <2>4 DEF RingsInv
<1>6. ASSUME NEW t \in Threads, Call(t) PROVE RingsInv'
  <2>1. /\ UNCHANGED worker_index
        /\ phase' = "setup" => phase = "setup"
        /\ UNCHANGED current_worker_index \/ (pc[t] = "q_store" /\ UNCHANGED phase)
    BY <1>6 DEF Call, QueueStore, QueueLoad, QueueAdvance, QueueBroadcast, WaitSleep, WaitReturn,
                Move, At, counts, locals, life
  <2>2. UNCHANGED current_worker_index \/ phase' # "setup"
    BY <2>1, NobodyQueuesInSetup
  <2>3. \E to : Goto(t, to) /\ (to \in {"off", "start"} => t \notin Workers)
    BY <1>6 DEF Call, QueueStore, QueueLoad, QueueAdvance, QueueBroadcast, WaitSleep, WaitReturn,
                Move, Home
  <2>4. Unclaimed'
    BY <2>1, <2>3 DEF RingsInv, Goto, PcOK, Threads
  <2> QED BY <1>1, <2>1, <2>2, <2>4
<1>7. ASSUME NEW w \in Workers, ClaimRing(w) PROVE RingsInv'
  <2> DEFINE c == current_worker_index
  <2>1. /\ pc[w] = "start" /\ pc' = [pc EXCEPT ![w] = "loop"] /\ c \in Workers
        /\ worker_index' = [worker_index EXCEPT ![w] = c]
        /\ current_worker_index' = NextRing(c) /\ phase' = phase
    BY <1>7 DEF ClaimRing, Move, At, Goto, CountOK, life
  <2>2. phase = "setup"
    BY <2>1 DEF LifeInv, LifeOK
  <2>3. w \notin Claimed /\ Claimed' = Claimed \cup {w}
    <3>1. worker_index[w] = NoRing /\ c # NoRing
      BY <2>1 DEF RingsInv, NoRing, Workers
    <3> QED BY <2>1, <3>1 DEF Claimed, LocalsOK
  <2>4. Cardinality(Claimed') = Cardinality(Claimed) + 1 /\ Cardinality(Claimed) < worker_count
    BY <2>3, ClaimedFinite, FS_AddElement
  <2>5. \A v \in Claimed : /\ worker_index[v] \in Workers /\ worker_index'[v] = worker_index[v]
                           /\ Back(worker_index[v]) <= Cardinality(Claimed)
    BY <2>1, <2>2, <2>3 DEF RingsInv, Claimed, LocalsOK
  <2>6. \A v \in Claimed : worker_index[v] # c
    BY <2>4, <2>5, ClaimedFinite DEF Back, Workers
  <2>7. DistinctRings'
    BY <2>1, <2>5, <2>6 DEF RingsInv, DistinctRings, Claimed, LocalsOK
  <2>8. Unclaimed'
    BY <2>1 DEF RingsInv, PcOK, LocalsOK, Threads
  <2>9. \A v \in Claimed : Back(worker_index[v])' <= Cardinality(Claimed')
    <3> SUFFICES ASSUME NEW v \in Claimed PROVE Back(worker_index[v])' <= Cardinality(Claimed')
      OBVIOUS
    <3> DEFINE s == worker_index[v]
    <3>1. s \in Workers /\ s # c /\ worker_index'[v] = s /\ Back(s) <= Cardinality(Claimed)
      BY <2>5, <2>6
    <3>2. Back(worker_index[v])' = Back(s) + 1
      BY <2>1, <3>1, NextRingValue DEF Back, Workers
    <3>3. Back(s) \in Int
      BY <2>1, <3>1 DEF Back, Workers
    <3> QED BY <2>4, <3>1, <3>2, <3>3, ClaimedFinite
  <2>10. Back(worker_index[w])' <= Cardinality(Claimed')
    <3>1. worker_index'[w] = c
      BY <2>1 DEF LocalsOK
    <3>2. Back(worker_index[w])' = 1
      BY <2>1, <3>1, NextRingValue DEF Back, Workers
    <3> QED BY <2>4, <3>2, ClaimedFinite
  <2> QED BY <2>3, <2>7, <2>8, <2>9, <2>10 DEF RingsInv
<1>8. ASSUME NEW w \in Workers, MainLoop(w), ~ClaimRing(w) PROVE RingsInv'
  <2>1. /\ UNCHANGED <<worker_index, current_worker_index>>
        /\ phase' = "setup" => phase = "setup"
        /\ UNCHANGED pc \/ \E to : to \notin {"off", "start"} /\ Goto(w, to)
    BY <1>8 DEF MainLoop, CallNullEntry, TestRunning, BecomeIdle, TestQueue, CompareIdle, WakeUp,
                LoadQueue, CompareDrain, TakeJob, PopLoad, PopAdvance, FinishJob, CallNullJob,
                ExitLoop, LeaveIdle, Move, counts, locals, life
  <2>2. Unclaimed'
    BY <2>1 DEF RingsInv, Goto, PcOK, Threads
  <2> QED BY <1>1, <2>1, <2>2
<1>9. CASE UNCHANGED <<pc, worker_index, current_worker_index, phase>>
  BY <1>1, <1>9 DEF RingsInv
<1> QED BY <1>2, <1>3, <1>4, <1>5, <1>6, <1>7, <1>8, <1>9
        DEF Next, Lifecycle, Stopped, SpuriousWakeup, vars, counts, locals, life

-----------------------------------------------------------------------------
(* The inductive invariant and what follows from it.                       *)

(* Both invariants hold at first.                                          *)
LEMMA IInit == Init => IInv /\ RingsInv
<1> SUFFICES ASSUME Init PROVE IInv /\ RingsInv
  OBVIOUS
<1> USE ConstantFacts DEF Init
<1>1. TypeOK /\ ClaimInv
  BY TypeInit
<1>2. LockInv /\ SignalInv /\ LifeInv
  BY DEF LockInv, SignalInv, LifeInv, LockedPcs, InitLoopPcs, DeinitLoopPcs, Threads, Callers
<1>3. IdleCountExact /\ CycleInv
  BY DEF IdleCountExact, CycleInv
<1>4. FreshInv /\ NoQueueInv
  BY DEF FreshInv, NoQueueInv, FreshPcs, QueuePcs, Threads
<1>5. RingsInv
  BY DEF RingsInv, DistinctRings
<1> QED BY <1>1, <1>2, <1>3, <1>4, <1>5 DEF IInv

(* Every step keeps the inductive invariant.                               *)
LEMMA INext == IInv /\ [Next]_vars => IInv'
<1> SUFFICES ASSUME IInv, [Next]_vars PROVE IInv'
  OBVIOUS
<1>1. CASE UNCHANGED vars
  BY <1>1 DEF IInv, vars, ring, counts, sync, locals, life, ghosts, TypeOK, RingOK, CountOK,
              SyncOK, PcOK, LocalsOK, LifeOK, HistoryOK, ClaimInv, LockInv, SignalInv, LifeInv,
              IdleCountExact, FreshInv, NoQueueInv, CycleInv
<1>2. CASE phase # "crashed" /\ Next
  BY <1>2, TypeNext, LockStep, SignalStep, LifeInvStep, IdleStep, FreshStep, NoQueueStep,
     CycleStep DEF IInv
<1> QED BY <1>1, <1>2 DEF Next

(* Every step keeps the rings distinct.                                    *)
LEMMA RingsNext ==
  (QuietSetups \/ cycles = 0) /\ IInv /\ RingsInv /\ [Next]_vars => RingsInv'
<1>1. CASE UNCHANGED vars
  BY <1>1 DEF vars, counts, locals, life, RingsInv, DistinctRings, Claimed, Back
<1>2. CASE phase # "crashed" /\ Next
  BY <1>2, RingsStep DEF IInv
<1> QED BY <1>1, <1>2 DEF Next

(* The inductive invariant always holds: who holds the mutex, who sleeps,  *)
(* what each phase of setup and shutdown says of the threads.              *)
THEOREM Inductive == Spec => []IInv
BY IInit, INext, PTL DEF Spec

(* The idle count is_idle() relies on is exact at every step of a setup    *)
(* and until the shutdown.                                                 *)
THEOREM IdleCountCorrect == Spec => []IdleCountExact
<1>1. IInv => IdleCountExact
  BY DEF IInv
<1> QED BY <1>1, Inductive, PTL

(* Nobody touches the mutex or a signal once deinit() has released them,   *)
(* nor before init() has made them.                                        *)
THEOREM ReleasedCorrect == Spec => []ReleasedWhenUnused
<1>1. IInv => ReleasedWhenUnused
  BY DEF IInv, TypeOK, SyncOK, LifeInv, SignalInv, ReleasedWhenUnused, Threads
<1> QED BY <1>1, Inductive, PTL

(* A setup that returns has a running worker for every ring, whatever      *)
(* thread_run did: a failed thread makes it wait for ever instead.         *)
THEOREM UpCorrect == Spec => []UpMeansAllClaimed
<1>1. IInv => UpMeansAllClaimed
  BY DEF IInv, LifeInv, ClaimInv, UpMeansAllClaimed
<1> QED BY <1>1, Inductive, PTL

(* No two workers own the same ring, as long as no job queues another      *)
(* during a setup after the first.                                         *)
THEOREM DistinctRingsCorrect ==
  ASSUME QuietSetups PROVE Spec => []DistinctRings
<1>1. IInv /\ RingsInv /\ [Next]_vars => (IInv /\ RingsInv)'
  BY INext, RingsNext
<1>2. IInv /\ RingsInv => DistinctRings
  BY DEF RingsInv
<1> QED BY IInit, <1>1, <1>2, PTL DEF Spec

-----------------------------------------------------------------------------
(***************************************************************************)
(* The second part is about the jobs, from the first setup to the moment a *)
(* shutdown begins: what is in the rings, in which order, and what becomes *)
(* of it.  After that moment deinit() writes the indices under the feet of *)
(* the workers and none of this holds.                                     *)
(***************************************************************************)

Active == cycles = 0 /\ phase \in {"down", "setup", "up"}

(* The entry at index k comes that many steps after the entry at r.        *)
Dist(r, k) == IF k >= r THEN k - r ELSE k - r + RingSize
Off(s, k)  == Dist(running_index[s], k)
Count(s)   == Off(s, queue_index[s])

(* Threads between the two accesses of line 145 and of line 185; workers   *)
(* that have taken a job and not run it to its end.                        *)
AddPcs  == {"q_load", "q_store"}
TakePcs == {"pop_load", "pop_store"}
HoldPcs == TakePcs \cup AddPcs \cup {"q_signal", "wait_sleep", "run"}

Adding(s) == current_worker_index = s /\ \E t \in Threads : pc[t] \in AddPcs
Taking(s) == \E w \in Workers : worker_index[w] = s /\ pc[w] \in TakePcs

(* The indices of ring s at which jobs wait: from running_index up to      *)
(* queue_index, with the one being added and without the one being taken.  *)
Live(s) == {k \in Indices : /\ Taking(s) => k # running_index[s]
                            /\ \/ Off(s, k) < Count(s)
                               \/ Adding(s) /\ k = queue_index[s]}

(* What the accesses of the indices rely on.                               *)
IndexInv ==
  /\ \A s \in Workers : Adding(s) => ~RingFull(s)
  /\ \A t \in Threads : pc[t] = "q_store" => reg[t] = queue_index[current_worker_index]
  /\ \A w \in Workers :
       /\ pc[w] = "pop_store" => reg[w] = running_index[worker_index[w]]
       /\ pc[w] = "drain_cmp" => Off(worker_index[w], reg[w]) <= Count(worker_index[w])
       /\ pc[w] \in TakePcs \cup {"pop_lock"} => Count(worker_index[w]) > 0

(* Jobs are numbered in the order they were queued.                        *)
Queued == 1 .. submitted

(* What waits in a ring was put there, in this order, and has not run.     *)
Waits(j, s)  == j \in Queued /\ placed[j] = s /\ ran[j] = 0
LiveInv      == \A s \in Workers : \A k \in Live(s) : Waits(jobs[s][k], s)
OrderInv     == \A s \in Workers : \A k, l \in Live(s) :
                  Off(s, k) < Off(s, l) => jobs[s][k] < jobs[s][l]

(* A job in a worker's hands came before all that wait in its ring.        *)
HeldInv ==
  \A w \in Workers :
    /\ job[w] # NoJob <=> pc[w] \in HoldPcs
    /\ job[w] # NoJob => /\ Waits(job[w], worker_index[w])
                         /\ \A k \in Live(worker_index[w]) : job[w] < jobs[worker_index[w]][k]

(* Every job has run once, is in a worker's hands or waits in its ring.    *)
Held(j)   == \E w \in Workers : job[w] = j
InRing(j) == \E k \in Live(placed[j]) : jobs[placed[j]][k] = j
KnownInv  == \A j \in JobIds :
  IF j \in Queued THEN placed[j] \in Workers /\ (ran[j] = 1 \/ (ran[j] = 0 /\ (Held(j) \/ InRing(j))))
                  ELSE ran[j] = 0

(* What has run came before all that waits or is in a worker's hands.      *)
PastInv ==
  \A j \in Queued : ran[j] = 1 =>
    /\ \A k \in Live(placed[j]) : j < jobs[placed[j]][k]
    /\ \A w \in Workers : job[w] # NoJob /\ worker_index[w] = placed[j] => j < job[w]

PoolInv == LiveInv /\ OrderInv /\ HeldInv /\ KnownInv /\ PastInv
WInv    == Active => IndexInv /\ PoolInv

-----------------------------------------------------------------------------
(* Arithmetic of a ring.                                                   *)

(* The next index, without the remainder.                                  *)
LEMMA NextIndexValue ==
  \A k \in Indices : NextIndex(k) = IF k + 1 = RingSize THEN 0 ELSE k + 1
BY ConstantFacts DEF NextIndex, Indices

(* Distances stay below the size of the ring and tell indices apart.       *)
LEMMA DistFacts ==
  ASSUME NEW r \in Indices
  PROVE  /\ \A k \in Indices : Dist(r, k) \in 0 .. RingSize - 1
         /\ \A k \in Indices : Dist(r, k) = 0 <=> k = r
         /\ \A k, l \in Indices : Dist(r, k) = Dist(r, l) => k = l
BY ConstantFacts DEF Dist, Indices

(* The index after the one at distance d is at distance d + 1, unless that *)
(* is r again.                                                             *)
LEMMA DistNext ==
  ASSUME NEW r \in Indices, NEW k \in Indices, NextIndex(k) # r
  PROVE  Dist(r, NextIndex(k)) = Dist(r, k) + 1
BY ConstantFacts, NextIndexValue DEF Dist, Indices

(* Seen from the index after r every other index is one nearer.            *)
LEMMA DistShift ==
  ASSUME NEW r \in Indices, NEW k \in Indices
  PROVE  Dist(NextIndex(r), k) = IF k = r THEN RingSize - 1 ELSE Dist(r, k) - 1
BY ConstantFacts, NextIndexValue DEF Dist, Indices

(* A ring is full when all indices but one are in use.                     *)
LEMMA DistFull ==
  ASSUME NEW r \in Indices, NEW k \in Indices
  PROVE  NextIndex(k) = r <=> Dist(r, k) = RingSize - 1
BY ConstantFacts, NextIndexValue DEF Dist, Indices

(* A distance, as JobSystem writes it.                                     *)
LEMMA DistRemainder ==
  ASSUME NEW r \in Indices, NEW k \in Indices
  PROVE  (k - r) % RingSize = Dist(r, k)
BY ConstantFacts DEF Dist, Indices

-----------------------------------------------------------------------------
(* The steps before a shutdown.                                            *)

(* No two threads are in the critical section; none is while it is free.   *)
LEMMA OneInside ==
  ASSUME LockInv, NEW t \in Threads, pc[t] \in LockedPcs
  PROVE  mutex = t /\ mutex # NoThread /\ \A u \in Threads : pc[u] \in LockedPcs => u = t
BY ConstantFacts DEF LockInv

(* A step into the time before a shutdown comes from it.                   *)
LEMMA ActiveBefore ==
  ASSUME TypeOK, phase # "crashed", Next, Active' PROVE Active
<1> USE DEF Active
<1>1. CASE UNCHANGED life
  BY <1>1 DEF life
<1>2. CASE BeginSetup \/ RunThread \/ BeginShutdown \/ JoinWorker
  BY <1>2 DEF BeginSetup, RunThread, BeginShutdown, JoinWorker
<1>3. CASE ReleaseSync
  BY <1>3 DEF ReleaseSync, TypeOK, LifeOK
<1>4. ASSUME NEW t \in Threads, WaitReturn(t) PROVE Active
  BY <1>4 DEF WaitReturn
<1>5. ASSUME NEW w \in Workers, CallNullEntry(w) \/ CallNullJob(w) PROVE Active
  BY <1>5 DEF CallNullEntry, CallNullJob
<1> QED BY <1>1, <1>2, <1>3, <1>4, <1>5, LifeFrame

(* Before a shutdown a step of setup or shutdown leaves the rings alone:   *)
(* the indices the first setup clears are 0 already.                       *)
LEMMA LifecycleQuiet ==
  ASSUME IInv, phase # "crashed", Active, Active', Lifecycle
  PROVE  /\ UNCHANGED <<ring, current_worker_index, locals, ghosts>>
         /\ \E to \in MainPcs \ (AddPcs \cup {"q_signal", "wait_sleep"}), new \in {"off", "start"} :
              \/ pc' = [pc EXCEPT ![Main] = to]
              \/ pc[i] = "off" /\ i \in Workers /\ pc' = [pc EXCEPT ![Main] = to, ![i] = new]
<1> USE DEF MainPcs, CallerPcs, AddPcs
<1>1. CASE BeginSetup
  BY <1>1 DEF BeginSetup, Goto
<1>2. CASE ResetQueueIndex \/ ResetRunningIndex
  <2>1. phase = "setup" /\ i \in Workers /\ pc[Main] \in InitLoopPcs
    BY <1>2, LoopPhase DEF IInv, Active, ResetQueueIndex, ResetRunningIndex, Move, At, InitLoopPcs,
                           DeinitLoopPcs
  <2>2. queue_index[i] = 0 /\ running_index[i] = 0
    BY <2>1 DEF IInv, FreshInv, Active
  <2>3. UNCHANGED ring
    BY <1>2, <2>2 DEF ResetQueueIndex, ResetRunningIndex, IInv, TypeOK, RingOK, ring
  <2> QED BY <1>2, <2>1, <2>3 DEF ResetQueueIndex, ResetRunningIndex, Move, At, Goto, counts, InitLoopPcs
<1>3. CASE RunThread
  <2>1. i \in Workers /\ pc[i] = "off"
    BY <1>3, LoopPhase DEF IInv, RunThread, At, InitLoopPcs
  <2> QED BY <1>3, <2>1 DEF RunThread, counts
<1>4. CASE BeginShutdown \/ BroadcastShutdown \/ JoinWorker \/ ReleaseSync
  BY <1>4, LoopPhase DEF IInv, Active, BeginShutdown, BroadcastShutdown, JoinWorker, ReleaseSync, Move, At,
                         DeinitLoopPcs
<1> QED BY <1>1, <1>2, <1>3, <1>4 DEF Lifecycle

-----------------------------------------------------------------------------
(* The indices.                                                            *)

(* A thread that moves to a place of which IndexInv says nothing, or one   *)
(* it was already said of, and touches no loaded index but its own.        *)
LEMMA IndexMove ==
  ASSUME TypeOK, IndexInv, NEW t \in Threads, NEW to, Goto(t, to),
         UNCHANGED <<queue_index, running_index, current_worker_index, worker_index>>,
         \A u \in Threads : u # t => reg'[u] = reg[u],
         to \in AddPcs => pc[t] \in AddPcs,
         to \notin {"q_store", "pop_store", "drain_cmp"},
         to \in TakePcs \cup {"pop_lock"} => pc[t] \in TakePcs \cup {"pop_lock"}
  PROVE  IndexInv'
<1> USE DEF TypeOK, PcOK, Threads
<1>1. pc' = [pc EXCEPT ![t] = to] /\ pc \in [Threads -> WorkerPcs \cup MainPcs]
  BY DEF Goto
<1>2. \A s \in Workers : Adding(s)' => ~RingFull(s)'
  BY <1>1 DEF IndexInv, Adding, RingFull
<1>3. \A u \in Threads : pc'[u] = "q_store" => reg'[u] = queue_index'[current_worker_index']
  BY <1>1 DEF IndexInv
<1>4. ASSUME NEW w \in Workers
      PROVE  /\ pc'[w] = "pop_store" => reg'[w] = running_index'[worker_index'[w]]
             /\ pc'[w] = "drain_cmp" => Off(worker_index[w], reg[w])' <= Count(worker_index[w])'
             /\ pc'[w] \in TakePcs \cup {"pop_lock"} => Count(worker_index[w])' > 0
  BY <1>1 DEF IndexInv, Off, Count
<1> QED BY <1>2, <1>3, <1>4 DEF IndexInv

(* Steps that leave every index and every ring alone.                      *)
LEMMA IndexStill ==
  ASSUME TypeOK, IndexInv,
         UNCHANGED <<queue_index, running_index, current_worker_index, worker_index, reg, pc>>
  PROVE  IndexInv'
BY DEF IndexInv, Adding, RingFull, Off, Count

(* The loads keep what they say.                                           *)
LEMMA IndexLoads ==
  ASSUME IInv, IndexInv
  PROVE  /\ \A t \in Threads : QueueLoad(t) => IndexInv'
         /\ \A w \in Workers : PopLoad(w) \/ LoadQueue(w) \/ CompareDrain(w) => IndexInv'
<1> USE DEF IInv, TypeOK, PcOK, LocalsOK, RingOK, CountOK, Threads
<1> DEFINE Same == UNCHANGED <<queue_index, running_index, current_worker_index, worker_index>>
           Part(w) == /\ pc[w] = "pop_store" => reg[w] = running_index[worker_index[w]]
                      /\ pc[w] = "drain_cmp" => Off(worker_index[w], reg[w]) <= Count(worker_index[w])
                      /\ pc[w] \in TakePcs \cup {"pop_lock"} => Count(worker_index[w]) > 0
<1>1. ASSUME NEW t \in Threads, QueueLoad(t) PROVE IndexInv'
  <2>1. /\ pc' = [pc EXCEPT ![t] = "q_store"] /\ pc[t] = "q_load" /\ Same
        /\ reg' = [reg EXCEPT ![t] = queue_index[current_worker_index]]
    BY <1>1 DEF QueueLoad, Move, At, Goto, Load, ring, counts
  <2>2. \A s \in Workers : Adding(s)' => ~RingFull(s)'
    BY <2>1 DEF IndexInv, Adding, RingFull, AddPcs
  <2>3. \A u \in Threads : pc'[u] = "q_store" => reg'[u] = queue_index'[current_worker_index']
    BY <2>1 DEF IndexInv
  <2>4. \A w \in Workers : Part(w)'
    BY <2>1 DEF IndexInv, Off, Count, TakePcs
  <2> QED BY <2>2, <2>3, <2>4 DEF IndexInv
<1>2. ASSUME NEW w \in Workers, PopLoad(w) \/ LoadQueue(w) \/ CompareDrain(w) PROVE IndexInv'
  <2> DEFINE s == worker_index[w]
             to == pc'[w]
  <2>1. /\ pc' = [pc EXCEPT ![w] = to] /\ reg' = [reg EXCEPT ![w] = reg'[w]] /\ Same
        /\ pc[w] \in {"drain", "drain_cmp", "pop_load"}
        /\ to \in {"loop", "drain_cmp", "pop_lock", "pop_store"}
    BY <1>2 DEF PopLoad, LoadQueue, CompareDrain, Move, At, Goto, Load, ring, counts
  <2>2. s \in Workers /\ queue_index[s] \in Indices /\ running_index[s] \in Indices
        /\ reg[w] \in Indices
    BY <2>1 DEF ClaimInv
  <2>3. \A u \in Workers : Adding(u)' => ~RingFull(u)'
    BY <2>1 DEF IndexInv, Adding, RingFull, AddPcs
  <2>4. \A t \in Threads : pc'[t] = "q_store" => reg'[t] = queue_index'[current_worker_index']
    BY <2>1 DEF IndexInv
  <2>5. \A v \in Workers \ {w} : Part(v)'
    BY <2>1 DEF IndexInv, Off, Count, TakePcs
  <2>6. CASE PopLoad(w)
    <3>1. reg'[w] = running_index[s] /\ to = "pop_store" /\ pc[w] = "pop_load"
      BY <2>6 DEF PopLoad, Load, Move, At, Goto
    <3> QED BY <2>1, <2>3, <2>4, <2>5, <3>1 DEF IndexInv, Off, Count, TakePcs
  <2>7. CASE LoadQueue(w)
    <3>1. reg'[w] = queue_index[s] /\ to = "drain_cmp"
      BY <2>7 DEF LoadQueue, Load, Move, At, Goto
    <3>2. Off(worker_index[w], reg[w])' <= Count(worker_index[w])'
      <4>1. Count(s)' = Count(s) /\ Off(worker_index[w], reg[w])' = Count(s)
        BY <2>1, <3>1 DEF Off, Count
      <4>2. Count(s) \in Int
        BY <2>2, DistFacts DEF Off, Count
      <4> QED BY <2>1, <4>1, <4>2
    <3> QED BY <2>1, <2>3, <2>4, <2>5, <3>1, <3>2 DEF IndexInv, TakePcs
  <2>8. CASE CompareDrain(w)
    <3>1. /\ pc[w] = "drain_cmp" /\ to \in {"pop_lock", "loop"}
          /\ to = "pop_lock" => reg[w] # running_index[s]
      BY <2>8 DEF CompareDrain, HasJob, Move, At, Goto
    <3>2. to = "pop_lock" => Count(s) > 0
      <4>1. Off(s, reg[w]) <= Count(s) /\ Count(s) \in Nat
        BY <2>2, <3>1, DistFacts DEF IndexInv, Off, Count
      <4>2. Off(s, reg[w]) \in Nat /\ (Off(s, reg[w]) = 0 <=> reg[w] = running_index[s])
        BY <2>2, DistFacts DEF Off
      <4> QED BY <3>1, <4>1, <4>2
    <3>3. Count(worker_index[w])' = Count(s)
      BY <2>1 DEF Count, Off
    <3> QED BY <2>1, <2>3, <2>4, <2>5, <3>1, <3>2, <3>3 DEF IndexInv, TakePcs
  <2> QED BY <1>2, <2>6, <2>7, <2>8
<1> QED BY <1>1, <1>2

(* A job is added to a ring that has room.                                 *)
LEMMA IndexQueueStore ==
  ASSUME BoundedUse, IInv, IndexInv, NEW t \in Threads, QueueStore(t) PROVE IndexInv'
<1> USE DEF IInv, TypeOK, PcOK, Threads
<1>1. /\ pc' = [pc EXCEPT ![t] = "q_load"] /\ ~RingFull(current_worker_index)
      /\ UNCHANGED <<queue_index, running_index, current_worker_index, worker_index, reg>>
  BY DEF QueueStore, Goto, counts, locals
<1>2. \A s \in Workers : Adding(s)' => ~RingFull(s)'
  BY <1>1 DEF Adding, RingFull
<1>3. \A u \in Threads : pc'[u] = "q_store" => reg'[u] = queue_index'[current_worker_index']
  BY <1>1 DEF IndexInv
<1>4. ASSUME NEW w \in Workers
      PROVE  /\ pc'[w] = "pop_store" => reg'[w] = running_index'[worker_index'[w]]
             /\ pc'[w] = "drain_cmp" => Off(worker_index[w], reg[w])' <= Count(worker_index[w])'
             /\ pc'[w] \in TakePcs \cup {"pop_lock"} => Count(worker_index[w])' > 0
  BY <1>1 DEF IndexInv, Off, Count, TakePcs
<1> QED BY <1>2, <1>3, <1>4 DEF IndexInv

(* queue_index goes on by one: the ring holds one more.                    *)
LEMMA CountQueueAdvance ==
  ASSUME IInv, IndexInv, NEW t \in Threads, QueueAdvance(t),
         NEW c \in Workers, c = current_worker_index
  PROVE  /\ Adding(c) /\ queue_index[c] \in Indices
         /\ queue_index' = [queue_index EXCEPT ![c] = NextIndex(queue_index[c])]
         /\ UNCHANGED <<running_index, worker_index>>
         /\ Count(c)' = Count(c) + 1
         /\ \A s \in Workers : s # c => Count(s)' = Count(s)
<1> USE DEF IInv, TypeOK, RingOK, CountOK
<1> DEFINE q == queue_index[c]
<1>1. /\ pc[t] = "q_store" /\ q \in Indices /\ running_index[c] \in Indices
      /\ reg[t] = q /\ Adding(c) /\ ~RingFull(c)
  BY DEF QueueAdvance, Move, At, IndexInv, Adding, AddPcs
<1>2. /\ queue_index' = [queue_index EXCEPT ![c] = NextIndex(q)]
      /\ UNCHANGED <<running_index, worker_index>>
  BY <1>1 DEF QueueAdvance
<1>3. Count(c)' = Count(c) + 1
  <2>1. Count(c)' = Dist(running_index[c], NextIndex(q))
    BY <1>1, <1>2 DEF Count, Off
  <2> QED BY <1>1, <2>1, DistNext DEF RingFull, Count, Off
<1>4. \A s \in Workers : s # c => Count(s)' = Count(s)
  BY <1>2 DEF Count, Off
<1> QED BY <1>1, <1>2, <1>3, <1>4

LEMMA IndexQueueAdvance ==
  ASSUME IInv, IndexInv, NEW t \in Threads, QueueAdvance(t) PROVE IndexInv'
<1> USE DEF IInv, TypeOK, PcOK, RingOK, LocalsOK, Threads
<1>1. /\ pc[t] = "q_store" /\ pc' = [pc EXCEPT ![t] = "q_signal"]
      /\ reg' = [reg EXCEPT ![t] = 0]
  BY DEF QueueAdvance, Move, At, Goto, Load
<1>2. \A u \in Threads : pc'[u] \notin LockedPcs
  BY <1>1, OneInside DEF LockedPcs
<1>3. ASSUME NEW w \in Workers
      PROVE  /\ pc'[w] = "drain_cmp" => Off(worker_index[w], reg[w])' <= Count(worker_index[w])'
             /\ pc'[w] = "pop_lock" => Count(worker_index[w])' > 0
  <2> SUFFICES ASSUME pc'[w] \in {"drain_cmp", "pop_lock"}
               PROVE  /\ pc'[w] = "drain_cmp" =>
                           Off(worker_index[w], reg[w])' <= Count(worker_index[w])'
                      /\ pc'[w] = "pop_lock" => Count(worker_index[w])' > 0
    OBVIOUS
  <2> DEFINE s == worker_index[w]
  <2>1. pc'[w] = pc[w] /\ s \in Workers /\ reg'[w] = reg[w] /\ reg[w] \in Indices
        /\ worker_index' = worker_index
    BY <1>1, CountQueueAdvance DEF ClaimInv, CountOK
  <2>2. Count(s)' \in Int /\ Count(s) \in Int /\ Count(s)' >= Count(s)
    <3>1. Count(s) \in Int
      BY <2>1, DistFacts DEF Count, Off
    <3>2. PICK c \in Workers : c = current_worker_index
      BY DEF CountOK
    <3>3. Count(s)' = IF s = c THEN Count(s) + 1 ELSE Count(s)
      BY <2>1, <3>2, CountQueueAdvance
    <3> QED BY <3>1, <3>3
  <2>3. Off(s, reg[w])' = Off(s, reg[w]) /\ Off(s, reg[w]) \in Int
    BY <2>1, CountQueueAdvance, DistFacts DEF Off, CountOK
  <2>4. /\ pc[w] = "drain_cmp" => Off(s, reg[w]) <= Count(s)
        /\ pc[w] = "pop_lock" => Count(s) > 0
    BY DEF IndexInv
  <2>5. Count(worker_index[w])' = Count(s)' /\ Off(worker_index[w], reg[w])' = Off(s, reg[w])'
    BY <2>1
  <2> QED BY <2>1, <2>2, <2>3, <2>4, <2>5
<1> QED BY <1>2, <1>3 DEF IndexInv, LockedPcs, TakePcs, Adding, AddPcs

(* running_index goes on by one: the ring holds one less, and no other     *)
(* worker owns it.                                                         *)
LEMMA CountPopAdvance ==
  ASSUME IInv, DistinctRings, IndexInv, NEW w \in Workers, PopAdvance(w)
  PROVE  LET s == worker_index[w]
         IN  /\ s \in Workers /\ Taking(s) /\ running_index[s] \in Indices
             /\ running_index' = [running_index EXCEPT ![s] = NextIndex(running_index[s])]
             /\ UNCHANGED <<queue_index, worker_index, current_worker_index>>
             /\ Count(s) \in 1 .. RingSize - 1 /\ Count(s)' = Count(s) - 1
             /\ \A v \in Workers : v # w => worker_index[v] # s
<1> USE DEF IInv, TypeOK, RingOK, CountOK
<1> DEFINE s == worker_index[w]
           r == running_index[s]
<1>1. /\ pc[w] = "pop_store" /\ s \in Workers /\ r \in Indices /\ queue_index[s] \in Indices
      /\ reg[w] = r /\ Count(s) > 0 /\ Taking(s)
  BY DEF PopAdvance, Move, At, IndexInv, ClaimInv, LocalsOK, Taking, TakePcs
<1>2. /\ running_index' = [running_index EXCEPT ![s] = NextIndex(r)]
      /\ UNCHANGED <<queue_index, worker_index, current_worker_index>>
  BY <1>1 DEF PopAdvance, counts
<1>3. Count(s) \in 1 .. RingSize - 1 /\ queue_index[s] # r
  BY <1>1, DistFacts DEF Count, Off
<1>4. Count(s)' = Count(s) - 1
  <2>1. Count(s)' = Dist(NextIndex(r), queue_index[s])
    BY <1>1, <1>2 DEF Count, Off
  <2> QED BY <1>1, <1>3, <2>1, DistShift DEF Count, Off
<1>5. \A v \in Workers : v # w => worker_index[v] # s
  BY <1>1 DEF DistinctRings, NoRing, Workers
<1> QED BY <1>1, <1>2, <1>3, <1>4, <1>5

LEMMA IndexPopAdvance ==
  ASSUME IInv, DistinctRings, IndexInv, NEW w \in Workers, PopAdvance(w) PROVE IndexInv'
<1> USE DEF IInv, TypeOK, PcOK, RingOK, LocalsOK, Threads
<1>1. /\ pc[w] = "pop_store" /\ pc' = [pc EXCEPT ![w] = "run"] /\ reg' = [reg EXCEPT ![w] = 0]
  BY DEF PopAdvance, Move, At, Goto, Load
<1>2. \A u \in Threads : pc'[u] \notin LockedPcs
  BY <1>1, OneInside DEF LockedPcs
<1>3. ASSUME NEW v \in Workers
      PROVE  /\ pc'[v] = "drain_cmp" => Off(worker_index[v], reg[v])' <= Count(worker_index[v])'
             /\ pc'[v] = "pop_lock" => Count(worker_index[v])' > 0
  <2> SUFFICES ASSUME pc'[v] \in {"drain_cmp", "pop_lock"}
               PROVE  /\ pc'[v] = "drain_cmp" =>
                           Off(worker_index[v], reg[v])' <= Count(worker_index[v])'
                      /\ pc'[v] = "pop_lock" => Count(worker_index[v])' > 0
    OBVIOUS
  <2>1. /\ v # w /\ pc'[v] = pc[v] /\ reg'[v] = reg[v] /\ worker_index[v] \in Workers
        /\ worker_index' = worker_index
    BY <1>1, CountPopAdvance DEF ClaimInv
  <2>2. /\ running_index'[worker_index[v]] = running_index[worker_index[v]]
        /\ queue_index' = queue_index
    BY <2>1, CountPopAdvance
  <2> QED BY <2>1, <2>2 DEF IndexInv, Count, Off
<1> QED BY <1>2, <1>3 DEF IndexInv, LockedPcs, TakePcs, Adding, AddPcs

(* A worker gets its ring while nobody is in the critical section.         *)
LEMMA IndexClaimRing ==
  ASSUME IInv, IndexInv, NEW w \in Workers, ClaimRing(w) PROVE IndexInv'
<1> USE DEF IInv, TypeOK, PcOK, LocalsOK, Threads
<1>1. /\ pc' = [pc EXCEPT ![w] = "loop"] /\ mutex = NoThread
      /\ worker_index' = [worker_index EXCEPT ![w] = current_worker_index]
      /\ UNCHANGED <<queue_index, running_index, reg>>
  BY DEF ClaimRing, Move, Goto, LockFree, ring
<1>2. \A u \in Threads : pc'[u] \notin LockedPcs
  BY <1>1, OneInside DEF LockedPcs
<1>3. ASSUME NEW v \in Workers
      PROVE  /\ pc'[v] = "drain_cmp" => Off(worker_index[v], reg[v])' <= Count(worker_index[v])'
             /\ pc'[v] = "pop_lock" => Count(worker_index[v])' > 0
  BY <1>1 DEF IndexInv, Count, Off
<1> QED BY <1>2, <1>3 DEF IndexInv, LockedPcs, TakePcs, Adding, AddPcs

(* Every step before a shutdown keeps what the indices rely on.            *)
LEMMA IndexStep ==
  ASSUME BoundedUse, IInv, DistinctRings, IndexInv, phase # "crashed", Active, Active', Next
  PROVE  IndexInv'
<1> USE DEF IInv, TypeOK, PcOK, Threads
<1>1. CASE Lifecycle
  <2>1. UNCHANGED <<queue_index, running_index, current_worker_index, worker_index, reg>>
    BY <1>1, LifecycleQuiet DEF ring, locals
  <2>2. \A t \in Threads : pc'[t] = pc[t] \/ pc'[t] \notin {"q_store", "drain_cmp", "pop_lock"}
                                                           \cup AddPcs \cup TakePcs
    BY <1>1, LifecycleQuiet DEF MainPcs, CallerPcs, AddPcs, TakePcs
  <2>3. \A s \in Workers : Adding(s)' => ~RingFull(s)'
    BY <2>1, <2>2 DEF IndexInv, Adding, RingFull
  <2>4. \A t \in Threads : pc'[t] = "q_store" => reg'[t] = queue_index'[current_worker_index']
    BY <2>1, <2>2 DEF IndexInv
  <2>5. ASSUME NEW w \in Workers
        PROVE  /\ pc'[w] = "pop_store" => reg'[w] = running_index'[worker_index'[w]]
               /\ pc'[w] = "drain_cmp" => Off(worker_index[w], reg[w])' <= Count(worker_index[w])'
               /\ pc'[w] \in TakePcs \cup {"pop_lock"} => Count(worker_index[w])' > 0
    BY <2>1, <2>2 DEF IndexInv, Off, Count, TakePcs
  <2> QED BY <2>3, <2>4, <2>5 DEF IndexInv
<1>2. ASSUME NEW t \in Threads, Call(t) PROVE IndexInv'
  <2>1. CASE QueueBroadcast(t) \/ WaitSleep(t) \/ WaitReturn(t)
    <3>1. PICK to \in {"run", "ready", "wait_sleep"} : Goto(t, to)
      BY <2>1 DEF QueueBroadcast, WaitSleep, WaitReturn, Move, Home
    <3>2. UNCHANGED <<queue_index, running_index, current_worker_index, worker_index, reg>>
      BY <2>1 DEF QueueBroadcast, WaitSleep, WaitReturn, ring, counts, locals
    <3> QED BY <3>1, <3>2, IndexMove DEF AddPcs, TakePcs
  <2> QED BY <1>2, <2>1, IndexQueueStore, IndexQueueAdvance, IndexLoads DEF Call
<1>3. ASSUME NEW w \in Workers, MainLoop(w) PROVE IndexInv'
  <2>1. CASE \/ TestRunning(w) \/ BecomeIdle(w) \/ TestQueue(w) \/ CompareIdle(w) \/ WakeUp(w)
             \/ TakeJob(w) \/ FinishJob(w) \/ ExitLoop(w)
    <3>1. PICK to \in WorkerPcs :
            /\ Goto(w, to)
            /\ to \notin {"q_load", "q_store", "pop_store", "drain_cmp", "pop_lock"}
            /\ to = "pop_load" => pc[w] = "pop_lock"
      BY <2>1 DEF TestRunning, BecomeIdle, TestQueue, CompareIdle, WakeUp, TakeJob, FinishJob,
                  ExitLoop, LeaveIdle, Move, At, WorkerPcs, LockedPcs
    <3>2. /\ UNCHANGED <<queue_index, running_index, current_worker_index, worker_index>>
          /\ \A u \in Threads : u # w => reg'[u] = reg[u]
      BY <2>1 DEF TestRunning, BecomeIdle, TestQueue, CompareIdle, WakeUp, TakeJob, FinishJob,
                  ExitLoop, LeaveIdle, Load, ring, counts, locals, LocalsOK
    <3> QED BY <3>1, <3>2, IndexMove DEF AddPcs, TakePcs
  <2>2. CASE CallNullEntry(w) \/ CallNullJob(w)
    BY <2>2 DEF CallNullEntry, CallNullJob, Active
  <2> QED BY <1>3, <2>1, <2>2, IndexLoads, IndexPopAdvance, IndexClaimRing DEF MainLoop
<1>4. CASE UNCHANGED <<ring, counts, locals, pc>>
  BY <1>4, IndexStill DEF ring, counts, locals
<1> QED BY <1>1, <1>2, <1>3, <1>4 DEF Next, Stopped, SpuriousWakeup, vars

-----------------------------------------------------------------------------
(* The jobs.                                                               *)

(* Jobs that were queued have a number and a ring.                         *)
LEMMA QueuedFacts ==
  ASSUME TypeOK
  PROVE  /\ submitted \in Nat /\ Queued \subseteq JobIds /\ \A j \in Queued : j # NoJob
         /\ KnownInv => \A j \in Queued : placed[j] \in Workers
<1>1. submitted \in Nat /\ Queued \subseteq JobIds /\ \A j \in Queued : j # NoJob
  BY ConstantFacts DEF TypeOK, HistoryOK, Queued, JobIds, NoJob
<1> QED BY <1>1 DEF KnownInv

(* Steps that change neither what waits nor its order, nor what is held.   *)
LEMMA PoolSame ==
  ASSUME TypeOK, ClaimInv, PoolInv, UNCHANGED <<jobs, job, ghosts>>,
         \A s \in Workers : Live(s)' = Live(s),
         \A s \in Workers : \A k, l \in Live(s) : Off(s, k)' < Off(s, l)' => Off(s, k) < Off(s, l),
         \A w \in Workers : pc'[w] \in HoldPcs <=> pc[w] \in HoldPcs,
         \A w \in Workers : job[w] # NoJob => worker_index'[w] = worker_index[w]
  PROVE  PoolInv'
<1>1. LiveInv' /\ OrderInv'
  BY DEF PoolInv, LiveInv, OrderInv, Waits, Queued, ghosts
<1>2. HeldInv'
  <2>1. \A v \in Workers : job'[v] # NoJob <=> pc'[v] \in HoldPcs
    BY DEF PoolInv, HeldInv
  <2>2. ASSUME NEW v \in Workers, job'[v] # NoJob
        PROVE  /\ Waits(job[v], worker_index[v])'
               /\ \A k \in Live(worker_index[v])' : job'[v] < jobs'[worker_index'[v]][k]
    <3>1. worker_index[v] \in Workers /\ worker_index'[v] = worker_index[v]
      BY <2>2 DEF PoolInv, HeldInv, HoldPcs, TakePcs, AddPcs, ClaimInv, TypeOK, LocalsOK
    <3>2. Live(worker_index[v])' = Live(worker_index[v])
      BY <3>1
    <3> QED BY <2>2, <3>1, <3>2 DEF PoolInv, HeldInv, Waits, Queued, ghosts
  <2> QED BY <2>1, <2>2 DEF HeldInv
<1>3. KnownInv'
  BY DEF PoolInv, KnownInv, Held, InRing, Queued, ghosts
<1>4. PastInv'
  <2>1. \A j \in Queued : placed[j] \in Workers
    BY QueuedFacts DEF PoolInv
  <2> QED BY <2>1 DEF PoolInv, PastInv, Queued, ghosts
<1> QED BY <1>1, <1>2, <1>3, <1>4 DEF PoolInv

(* Steps that move no job and no index.                                    *)
LEMMA PoolStill ==
  ASSUME TypeOK, ClaimInv, PoolInv,
         UNCHANGED <<ring, current_worker_index, job, ghosts, worker_index>>,
         \A t \in Threads : pc'[t] \in AddPcs <=> pc[t] \in AddPcs,
         \A w \in Workers : /\ pc'[w] \in TakePcs <=> pc[w] \in TakePcs
                            /\ pc'[w] \in HoldPcs <=> pc[w] \in HoldPcs
  PROVE  PoolInv'
<1>1. \A s \in Workers : Live(s)' = Live(s)
  BY DEF Live, Adding, Taking, Off, Count, ring
<1> QED BY <1>1, PoolSame DEF Off, ring

(* Nothing is being added or taken while the mutex is free; and while a    *)
(* thread is inside, only what that thread adds or takes.                  *)
LEMMA NobodyInside ==
  ASSUME LockInv, mutex = NoThread PROVE \A s : ~Adding(s) /\ ~Taking(s)
BY OneInside DEF Adding, Taking, AddPcs, TakePcs, LockedPcs, Threads

LEMMA OnlyAdding ==
  ASSUME LockInv, NEW t \in Threads, pc[t] \in AddPcs
  PROVE  \A s : ~Taking(s) /\ (Adding(s) <=> s = current_worker_index)
<1>1. \A u \in Threads : pc[u] \notin TakePcs
  BY OneInside DEF AddPcs, TakePcs, LockedPcs
<1> QED BY <1>1 DEF Adding, Taking, Threads

LEMMA OnlyTaking ==
  ASSUME LockInv, NEW w \in Workers, pc[w] \in TakePcs
  PROVE  \A s : ~Adding(s) /\ (Taking(s) <=> s = worker_index[w])
<1>1. \A u \in Threads : pc[u] \in LockedPcs => u = w
  BY OneInside DEF TakePcs, LockedPcs, Threads
<1> QED BY <1>1 DEF Adding, Taking, AddPcs, TakePcs, LockedPcs, Threads

(* A worker that gets its ring has no job yet.                             *)
LEMMA PoolClaimRing ==
  ASSUME IInv, PoolInv, NEW w \in Workers, ClaimRing(w) PROVE PoolInv'
<1> USE DEF IInv, TypeOK, PcOK, LocalsOK
<1>1. /\ pc[w] = "start" /\ pc' = [pc EXCEPT ![w] = "loop"] /\ mutex = NoThread
      /\ worker_index' = [worker_index EXCEPT ![w] = current_worker_index]
      /\ UNCHANGED <<ring, job, ghosts>>
  BY DEF ClaimRing, Move, At, Goto, LockFree
<1>2. \A s \in Workers : ~Adding(s) /\ ~Taking(s) /\ ~Adding(s)' /\ ~Taking(s)'
  <2>1. \A u \in Threads : pc[u] \notin LockedPcs /\ pc'[u] \notin LockedPcs
    BY <1>1, OneInside DEF LockedPcs, Threads
  <2> QED BY <2>1 DEF Adding, Taking, AddPcs, TakePcs, LockedPcs, Threads
<1>3. \A s \in Workers : Live(s)' = Live(s)
  BY <1>1, <1>2 DEF Live, Off, Count, ring
<1>4. \A v \in Workers : pc'[v] \in HoldPcs <=> pc[v] \in HoldPcs
  BY <1>1 DEF HoldPcs, TakePcs, AddPcs, Threads
<1>5. \A v \in Workers : job[v] # NoJob => worker_index'[v] = worker_index[v]
  BY <1>1 DEF PoolInv, HeldInv, HoldPcs, TakePcs, AddPcs
<1> QED BY <1>1, <1>3, <1>4, <1>5, PoolSame DEF Off, ring

(* queue_index goes past the entry that was being added.                   *)
LEMMA PoolQueueAdvance ==
  ASSUME IInv, IndexInv, PoolInv, NEW t \in Threads, QueueAdvance(t) PROVE PoolInv'
<1> USE DEF IInv, TypeOK, PcOK, LocalsOK, RingOK, Threads
<1>1. /\ pc[t] = "q_store" /\ pc' = [pc EXCEPT ![t] = "q_signal"]
      /\ UNCHANGED <<jobs, running_index, worker_index, job, ghosts>>
  BY DEF QueueAdvance, Move, At, Goto
<1>2. PICK c \in Workers : c = current_worker_index
  BY DEF CountOK
<1>3. \A s \in Workers : ~Taking(s) /\ (Adding(s) <=> s = c) /\ ~Taking(s)' /\ ~Adding(s)'
  <2>1. \A u \in Threads : pc'[u] \notin LockedPcs
    BY <1>1, OneInside DEF LockedPcs
  <2>2. \A s \in Workers : ~Taking(s) /\ (Adding(s) <=> s = c)
    BY <1>1, <1>2, OnlyAdding DEF AddPcs
  <2> QED BY <2>1, <2>2 DEF Adding, Taking, AddPcs, TakePcs, LockedPcs
<1>4. \A s \in Workers, k \in Indices : Off(s, k)' = Off(s, k)
  BY <1>1 DEF Off
<1>5. ASSUME NEW s \in Workers PROVE Live(s)' = Live(s)
  <2>1. Count(s)' = (IF s = c THEN Count(s) + 1 ELSE Count(s)) /\ Count(s) \in Nat
    BY <1>2, CountQueueAdvance, DistFacts DEF Count, Off
  <2>2. ASSUME NEW k \in Indices
        PROVE  Off(s, k)' < Count(s)' <=> Off(s, k) < Count(s) \/ (s = c /\ k = queue_index[s])
    <3>1. Off(s, k) \in Nat /\ (Off(s, k) = Count(s) <=> k = queue_index[s])
      BY DistFacts DEF Off, Count
    <3>2. Off(s, k)' = Off(s, k)
      BY <1>4
    <3>3. CASE s = c
      <4>1. Count(s)' = Count(s) + 1
        BY <2>1, <3>3
      <4>2. \A a, b \in Nat : a < b + 1 <=> a < b \/ a = b
        OBVIOUS
      <4>3. Off(s, k)' < Count(s)' <=> Off(s, k) < Count(s) + 1
        BY <3>2, <4>1, Zenon
      <4>4. Off(s, k) < Count(s) + 1 <=> Off(s, k) < Count(s) \/ Off(s, k) = Count(s)
        BY <2>1, <3>1, <4>2, Zenon
      <4> QED BY <3>1, <3>3, <4>3, <4>4, Zenon
    <3>4. CASE s # c
      BY <2>1, <3>1, <3>2, <3>4
    <3> QED BY <3>3, <3>4
  <2> QED BY <1>3, <2>2 DEF Live
<1>6. \A v \in Workers : pc'[v] \in HoldPcs <=> pc[v] \in HoldPcs
  BY <1>1 DEF HoldPcs, TakePcs, AddPcs
<1>7. \A s \in Workers : \A k, l \in Live(s) : Off(s, k)' < Off(s, l)' => Off(s, k) < Off(s, l)
  BY <1>4 DEF Live
<1> QED BY <1>1, <1>5, <1>6, <1>7, PoolSame

(* running_index goes past the entry that was being taken.                 *)
LEMMA PoolPopAdvance ==
  ASSUME IInv, DistinctRings, IndexInv, PoolInv, NEW w \in Workers, PopAdvance(w)
  PROVE  PoolInv'
<1> USE DEF IInv, TypeOK, PcOK, LocalsOK, RingOK, Threads
<1>1. /\ pc[w] = "pop_store" /\ pc' = [pc EXCEPT ![w] = "run"]
      /\ UNCHANGED <<jobs, job, ghosts>>
  BY DEF PopAdvance, Move, At, Goto
<1>2. PICK c \in Workers : c = worker_index[w]
  BY <1>1 DEF ClaimInv
<1>3. /\ running_index' = [running_index EXCEPT ![c] = NextIndex(running_index[c])]
      /\ UNCHANGED <<queue_index, worker_index>>
      /\ Count(c) \in 1 .. RingSize - 1 /\ Count(c)' = Count(c) - 1
  <2>1. Count(worker_index[w])' = Count(c)'
    BY <1>2, CountPopAdvance
  <2> QED BY <1>2, <2>1, CountPopAdvance
<1>4. \A s \in Workers : ~Adding(s) /\ (Taking(s) <=> s = c) /\ ~Taking(s)' /\ ~Adding(s)'
  <2>1. \A u \in Threads : pc'[u] \notin LockedPcs
    BY <1>1, OneInside DEF LockedPcs
  <2>2. \A s \in Workers : ~Adding(s) /\ (Taking(s) <=> s = c)
    BY <1>1, <1>2, OnlyTaking DEF TakePcs
  <2> QED BY <2>1, <2>2 DEF Adding, Taking, AddPcs, TakePcs, LockedPcs
<1>5. \A k \in Indices : Off(c, k)' = IF k = running_index[c] THEN RingSize - 1 ELSE Off(c, k) - 1
  BY <1>3, DistShift DEF Off
<1>6. \A s \in Workers : s # c => Count(s)' = Count(s) /\ \A k \in Indices : Off(s, k)' = Off(s, k)
  BY <1>3 DEF Off, Count
<1>7. \A k \in Indices : Off(c, k) \in Nat
  BY DistFacts DEF Off
<1>8. Live(c)' = Live(c)
  <2>1. ASSUME NEW k \in Indices
        PROVE  Off(c, k)' < Count(c)' <=> k # running_index[c] /\ Off(c, k) < Count(c)
    <3> HIDE DEF Off, Count
    <3> QED BY <1>3, <1>5, <1>7, ConstantFacts
  <2> QED BY <1>4, <2>1 DEF Live
<1>9. \A s \in Workers : s # c => Live(s)' = Live(s)
  BY <1>3, <1>4, <1>6 DEF Live
<1>10. \A s \in Workers : \A k, l \in Live(s) : Off(s, k)' < Off(s, l)' => Off(s, k) < Off(s, l)
  <2>1. \A k, l \in Live(c) : Off(c, k)' < Off(c, l)' => Off(c, k) < Off(c, l)
    <3>1. \A k \in Live(c) : k \in Indices /\ k # running_index[c]
      BY <1>4 DEF Live
    <3> QED BY <1>5, <1>7, <3>1
  <2>2. \A s \in Workers : s # c => \A k, l \in Live(s) : Off(s, k)' < Off(s, l)'
                                                           => Off(s, k) < Off(s, l)
    BY <1>6 DEF Live
  <2> QED BY <2>1, <2>2
<1>11. \A v \in Workers : pc'[v] \in HoldPcs <=> pc[v] \in HoldPcs
  BY <1>1 DEF HoldPcs, TakePcs, AddPcs
<1> QED BY <1>1, <1>3, <1>8, <1>9, <1>10, <1>11, PoolSame

(* One job more.                                                           *)
LEMMA NextInterval ==
  ASSUME NEW m \in Nat, NEW n \in Int, n = m + 1
  PROVE  n \notin 1 .. m /\ 1 .. n = (1 .. m) \cup {n}
<1>1. n \notin 1 .. m
  OBVIOUS
<1>2. 1 .. n = (1 .. m) \cup {n}
  OBVIOUS
<1> QED BY <1>1, <1>2

(* A job enters its ring behind all that wait there.                       *)
LEMMA PoolQueueStore ==
  ASSUME BoundedUse, IInv, PoolInv, NEW t \in Threads, QueueStore(t) PROVE PoolInv'
<1> USE DEF IInv, TypeOK, PcOK, LocalsOK, RingOK, HistoryOK
<1>1. PICK c \in Workers : c = current_worker_index
  BY DEF CountOK
<1>2. PICK q \in Indices : q = queue_index[c]
  OBVIOUS
<1>3. /\ mutex = NoThread /\ pc' = [pc EXCEPT ![t] = "q_load"]
      /\ (t \in Callers /\ pc[t] = "ready") \/ (t \in Workers /\ pc[t] = "run")
      /\ UNCHANGED <<queue_index, running_index, current_worker_index, worker_index, job, ran>>
  <2>1. mutex = NoThread /\ pc' = [pc EXCEPT ![t] = "q_load"]
    BY DEF QueueStore, Goto, Lock
  <2>2. (t \in Callers /\ pc[t] = "ready") \/ (t \in Workers /\ pc[t] = "run")
    BY Zenon DEF QueueStore, MayQueue, MayCall, InJob, At
  <2>3. UNCHANGED <<queue_index, running_index, current_worker_index, worker_index, job, ran>>
    BY DEF QueueStore, counts, locals
  <2> QED BY <2>1, <2>2, <2>3
<1>n. PICK n \in JobIds : n = submitted + 1
  BY ConstantFacts DEF QueueStore, JobIds
<1>4. /\ n \notin Queued /\ submitted' = n /\ Queued' = Queued \cup {n}
      /\ Queued \subseteq JobIds
  <2>1. submitted' = n /\ submitted \in Nat /\ Queued \subseteq JobIds
    BY <1>n, QueuedFacts DEF QueueStore
  <2>2. n \in Int
    BY <1>n, <2>1
  <2> QED BY <1>n, <2>1, <2>2, NextInterval, Zenon DEF Queued
<1>5. /\ placed' = [placed EXCEPT ![n] = c] /\ \A j \in Queued : placed'[j] = placed[j]
      /\ placed'[n] = c
  BY <1>1, <1>n, <1>4 DEF QueueStore
<1>6. jobs' = [jobs EXCEPT ![c] = [jobs[c] EXCEPT ![q] = n]]
  BY <1>1, <1>2, <1>n DEF QueueStore
<1>7. \A s \in Workers : ~Adding(s) /\ ~Taking(s) /\ ~Taking(s)' /\ (Adding(s)' <=> s = c)
  <2>1. \A u \in Threads : pc[u] \notin LockedPcs
    BY <1>3, OneInside
  <2>2. \A u \in Threads : pc'[u] \in LockedPcs <=> u = t
    BY <1>3, <2>1 DEF LockedPcs
  <2> QED BY <1>1, <1>3, <2>1, <2>2 DEF Adding, Taking, AddPcs, TakePcs, LockedPcs, Threads
<1>8. \A s \in Workers, k \in Indices : Off(s, k)' = Off(s, k) /\ Count(s)' = Count(s)
  BY <1>3 DEF Off, Count
<1>9. /\ Live(c)' = Live(c) \cup {q}
      /\ \A k \in Live(c) : k \in Indices /\ k # q /\ Off(c, k) < Off(c, q)
  <2>1. Off(c, q) = Count(c) /\ Off(c, q) \in Nat
    BY <1>2, DistFacts DEF Off, Count
  <2>2. \A k \in Live(c) : k \in Indices /\ Off(c, k) < Off(c, q)
    BY <1>7, <2>1 DEF Live
  <2>3. Live(c)' = Live(c) \cup {q}
    BY <1>2, <1>3, <1>7, <1>8 DEF Live
  <2> QED BY <2>1, <2>2, <2>3
<1>10. \A s \in Workers : s # c => Live(s)' = Live(s)
  BY <1>3, <1>7, <1>8 DEF Live
<1>11. \A s \in Workers : \A k \in Live(s) : jobs'[s][k] = jobs[s][k]
  BY <1>6, <1>9
<1>12. jobs'[c][q] = n
  BY <1>6
<1>13. ran[n] = 0
  BY <1>4 DEF PoolInv, KnownInv
<1>14. \A j, s : Waits(j, s) => Waits(j, s)' /\ j < n
  BY <1>3, <1>n, <1>4, <1>5, QueuedFacts DEF Waits, Queued
<1>15. \A j \in Queued : j < n
  BY <1>n, QueuedFacts DEF Queued
<1>16. LiveInv'
  <2>1. Waits(n, c)'
    BY <1>3, <1>4, <1>5, <1>13 DEF Waits
  <2>2. \A s \in Workers : \A k \in Live(s) : Waits(jobs[s][k], s)'
    BY <1>11, <1>14 DEF PoolInv, LiveInv
  <2> QED BY <1>9, <1>10, <1>11, <1>12, <2>1, <2>2 DEF LiveInv, Waits
<1>17. OrderInv'
  <2>1. ASSUME NEW s \in Workers, NEW k \in Live(s)', NEW l \in Live(s)',
               Off(s, k)' < Off(s, l)'
        PROVE  jobs'[s][k] < jobs'[s][l]
    <3>1. CASE k \in Live(s) /\ l \in Live(s)
      BY <1>8, <1>11, <2>1, <3>1 DEF PoolInv, OrderInv, Live
    <3>2. CASE s = c /\ k \in Live(c) /\ l = q
      BY <1>11, <1>12, <1>14, <3>2 DEF PoolInv, LiveInv
    <3>3. CASE s = c /\ k = q
      <4>1. Off(c, q) < Off(c, l) /\ (l = q \/ l \in Live(c))
        BY <1>8, <1>9, <2>1, <3>3
      <4>2. Off(c, q) \in Nat /\ Off(c, l) \in Nat
        BY <1>9, <4>1, DistFacts DEF Off
      <4> QED BY <1>9, <4>1, <4>2
    <3> QED BY <1>9, <1>10, <3>1, <3>2, <3>3
  <2> QED BY <2>1 DEF OrderInv
<1>18. HeldInv'
  <2>1. \A w \in Workers : pc'[w] \in HoldPcs <=> pc[w] \in HoldPcs
    BY <1>3, ConstantFacts DEF HoldPcs, AddPcs, TakePcs
  <2>2. ASSUME NEW w \in Workers, job[w] # NoJob
        PROVE  /\ Waits(job[w], worker_index[w])'
               /\ \A k \in Live(worker_index[w])' : job'[w] < jobs'[worker_index'[w]][k]
    <3>1. Waits(job[w], worker_index[w]) /\ worker_index[w] \in Workers
      BY <2>2, QueuedFacts DEF PoolInv, HeldInv, KnownInv, Waits
    <3>2. \A k \in Live(worker_index[w]) : job[w] < jobs[worker_index[w]][k]
      BY <2>2 DEF PoolInv, HeldInv
    <3>3. Live(worker_index[w])' = Live(worker_index[w])
          \/ (worker_index[w] = c /\ Live(worker_index[w])' = Live(worker_index[w]) \cup {q})
      BY <1>3, <1>9, <1>10, <3>1
    <3>4. Waits(job[w], worker_index[w])' /\ job[w] < n
      BY <1>3, <1>14, <3>1 DEF Waits
    <3>5. \A k \in Live(worker_index[w])' : job'[w] < jobs'[worker_index'[w]][k]
      BY <1>3, <1>11, <1>12, <3>1, <3>2, <3>3, <3>4
    <3> QED BY <3>4, <3>5
  <2>3. \A w \in Workers : job'[w] # NoJob <=> pc'[w] \in HoldPcs
    BY <1>3, <2>1 DEF PoolInv, HeldInv
  <2> QED BY <1>3, <2>2, <2>3 DEF HeldInv
<1>19. KnownInv'
  <2>1. ASSUME NEW j \in JobIds, j \in Queued
        PROVE  placed'[j] \in Workers
               /\ (ran'[j] = 1 \/ (ran'[j] = 0 /\ (Held(j)' \/ InRing(j)')))
    <3>1. placed[j] \in Workers /\ (ran[j] = 1 \/ (ran[j] = 0 /\ (Held(j) \/ InRing(j))))
      BY <2>1 DEF PoolInv, KnownInv
    <3>2. Held(j) => Held(j)'
      BY <1>3 DEF Held
    <3>3. ASSUME InRing(j) PROVE InRing(j)'
      <4>1. PICK s \in Workers : s = placed[j] /\ placed'[j] = s
        BY <1>5, <2>1, <3>1
      <4>2. PICK k \in Live(s) : jobs[s][k] = j
        BY <3>3, <4>1 DEF InRing
      <4>3. k \in Live(s)' /\ jobs'[s][k] = j
        BY <1>9, <1>10, <1>11, <4>2
      <4> QED BY <4>1, <4>3 DEF InRing
    <3> QED BY <1>3, <1>5, <2>1, <3>1, <3>2, <3>3
  <2>2. placed'[n] \in Workers /\ ran'[n] = 0 /\ InRing(n)'
    <3>1. InRing(n)'
      BY <1>5, <1>9, <1>12 DEF InRing
    <3> QED BY <1>3, <1>5, <1>13, <3>1
  <2>3. \A j \in JobIds : j \notin Queued' => ran'[j] = 0
    BY <1>3, <1>4 DEF PoolInv, KnownInv
  <2> QED BY <1>4, <2>1, <2>2, <2>3 DEF KnownInv
<1>20. PastInv'
  <2>1. ASSUME NEW j \in Queued', ran'[j] = 1
        PROVE  /\ \A k \in Live(placed[j])' : j < jobs'[placed'[j]][k]
               /\ \A w \in Workers : job'[w] # NoJob /\ worker_index'[w] = placed'[j] => j < job'[w]
    <3>1. j \in Queued /\ ran[j] = 1 /\ placed[j] \in Workers /\ placed'[j] = placed[j] /\ j < n
      BY <1>3, <1>4, <1>5, <1>13, <1>15, <2>1, QueuedFacts DEF PoolInv
    <3>2. \A k \in Live(placed[j]) : j < jobs[placed[j]][k]
      BY <3>1 DEF PoolInv, PastInv
    <3>3. Live(placed[j])' = Live(placed[j])
          \/ (placed[j] = c /\ Live(placed[j])' = Live(placed[j]) \cup {q})
      BY <1>9, <1>10, <3>1
    <3>4. \A k \in Live(placed[j])' : j < jobs'[placed'[j]][k]
      BY <1>11, <1>12, <3>1, <3>2, <3>3
    <3>5. \A w \in Workers : job'[w] # NoJob /\ worker_index'[w] = placed'[j] => j < job'[w]
      BY <1>3, <3>1 DEF PoolInv, PastInv
    <3> QED BY <3>4, <3>5
  <2> QED BY <2>1 DEF PastInv
<1> QED BY <1>16, <1>17, <1>18, <1>19, <1>20 DEF PoolInv

(* A worker takes the first job of its ring.                               *)
LEMMA PoolTakeJob ==
  ASSUME IInv, IndexInv, PoolInv, NEW w \in Workers, TakeJob(w) PROVE PoolInv'
<1> USE DEF IInv, TypeOK, PcOK, LocalsOK, RingOK, HistoryOK, Threads
<1>1. PICK c \in Workers : c = worker_index[w]
  BY DEF TakeJob, Move, At, ClaimInv
<1>2. PICK r \in Indices : r = running_index[c]
  OBVIOUS
<1>3. PICK n \in JobIds \cup {NoJob} : n = jobs[c][r]
  OBVIOUS
<1>4. /\ mutex = NoThread /\ pc[w] = "pop_lock" /\ pc' = [pc EXCEPT ![w] = "pop_load"]
      /\ UNCHANGED <<jobs, queue_index, running_index, worker_index, submitted, placed, ran>>
      /\ job' = [job EXCEPT ![w] = n]
  BY <1>1, <1>2, <1>3 DEF TakeJob, Move, At, Goto, Lock, ring, ghosts
<1>5. job[w] = NoJob
  BY <1>4 DEF PoolInv, HeldInv, HoldPcs, TakePcs, AddPcs
<1>6. \A s \in Workers : ~Adding(s) /\ ~Taking(s) /\ ~Adding(s)' /\ (Taking(s)' <=> s = c)
  <2>1. \A u \in Threads : pc[u] \notin LockedPcs
    BY <1>4, OneInside
  <2>2. \A u \in Threads : pc'[u] \in LockedPcs <=> u = w
    BY <1>4, <2>1 DEF LockedPcs
  <2> QED BY <1>1, <1>4, <2>1, <2>2 DEF Adding, Taking, AddPcs, TakePcs, LockedPcs
<1>7. \A s \in Workers, k \in Indices : Off(s, k)' = Off(s, k) /\ Count(s)' = Count(s)
  BY <1>4 DEF Off, Count
<1>8. /\ r \in Live(c) /\ \A k \in Live(c) : k \in Indices /\ (k # r => Off(c, r) < Off(c, k))
      /\ Live(c)' = Live(c) \ {r}
  <2>1. Count(c) > 0 /\ Off(c, r) = 0
    BY <1>1, <1>2, <1>4, DistFacts DEF IndexInv, Off
  <2>2. \A k \in Indices : Off(c, k) \in Nat /\ (Off(c, k) = 0 <=> k = r)
    BY <1>2, DistFacts DEF Off
  <2>3. r \in Live(c)
    BY <1>6, <2>1 DEF Live
  <2>4. \A k \in Live(c) : k \in Indices /\ (k # r => Off(c, r) < Off(c, k))
    BY <2>1, <2>2 DEF Live
  <2>5. Live(c)' = Live(c) \ {r}
    BY <1>2, <1>4, <1>6, <1>7 DEF Live
  <2> QED BY <2>3, <2>4, <2>5
<1>9. \A s \in Workers : s # c => Live(s)' = Live(s)
  BY <1>4, <1>6, <1>7 DEF Live
<1>10. \A s \in Workers : Live(s)' \subseteq Live(s)
  BY <1>8, <1>9
<1>11. \A j, s : Waits(j, s) => Waits(j, s)'
  BY <1>4 DEF Waits, Queued
<1>12. Waits(n, c) /\ n # NoJob /\ \A k \in Live(c) : k # r => n < jobs[c][k]
  <2>1. Waits(n, c)
    BY <1>3, <1>8 DEF PoolInv, LiveInv
  <2>2. \A k \in Live(c) : k # r => n < jobs[c][k]
    BY <1>3, <1>8 DEF PoolInv, OrderInv
  <2> QED BY <2>1, <2>2, QueuedFacts DEF Waits
<1>13. LiveInv'
  <2>1. \A s \in Workers : \A k \in Live(s) : Waits(jobs[s][k], s)'
    BY <1>4, <1>11 DEF PoolInv, LiveInv
  <2> QED BY <1>4, <1>10, <2>1 DEF LiveInv
<1>14. OrderInv'
  <2>1. \A s \in Workers : \A k \in Live(s) : k \in Indices
    BY DEF Live
  <2> QED BY <1>4, <1>7, <1>10, <2>1 DEF PoolInv, OrderInv
<1>15. HeldInv'
  <2>1. job'[w] = n /\ pc'[w] \in HoldPcs /\ worker_index'[w] = c
    BY <1>1, <1>4 DEF HoldPcs, TakePcs
  <2>2. Waits(job[w], worker_index[w])'
    BY <1>11, <1>12, <2>1
  <2>3. \A k \in Live(worker_index[w])' : job'[w] < jobs'[worker_index'[w]][k]
    BY <1>1, <1>4, <1>8, <1>12, <2>1
  <2>4. ASSUME NEW v \in Workers, v # w
        PROVE  /\ job'[v] # NoJob <=> pc'[v] \in HoldPcs
               /\ job'[v] # NoJob =>
                    /\ Waits(job[v], worker_index[v])'
                    /\ \A k \in Live(worker_index[v])' : job'[v] < jobs'[worker_index'[v]][k]
    <3>1. job'[v] = job[v] /\ pc'[v] = pc[v] /\ worker_index'[v] = worker_index[v]
      BY <1>4, <2>4
    <3>2. job[v] # NoJob <=> pc[v] \in HoldPcs
      BY DEF PoolInv, HeldInv
    <3>3. ASSUME job[v] # NoJob
          PROVE  /\ Waits(job[v], worker_index[v])'
                 /\ \A k \in Live(worker_index[v])' : job'[v] < jobs'[worker_index'[v]][k]
      <4>1. Waits(job[v], worker_index[v]) /\ worker_index[v] \in Workers
        BY <3>3, QueuedFacts DEF PoolInv, HeldInv, Waits
      <4>2. Waits(job[v], worker_index[v])'
        BY <3>1, <4>1, <1>4 DEF Waits, Queued
      <4>3. \A k \in Live(worker_index[v])' : k \in Live(worker_index[v])
        BY <1>10, <3>1, <4>1
      <4>4. \A k \in Live(worker_index[v]) : job[v] < jobs[worker_index[v]][k]
        BY <3>3 DEF PoolInv, HeldInv
      <4> QED BY <1>4, <3>1, <4>2, <4>3, <4>4
    <3> QED BY <3>1, <3>2, <3>3
  <2> QED BY <1>12, <2>1, <2>2, <2>3, <2>4 DEF HeldInv
<1>16. KnownInv'
  <2>1. ASSUME NEW j \in JobIds, j \in Queued
        PROVE  placed'[j] \in Workers
               /\ (ran'[j] = 1 \/ (ran'[j] = 0 /\ (Held(j)' \/ InRing(j)')))
    <3>1. placed[j] \in Workers /\ (ran[j] = 1 \/ (ran[j] = 0 /\ (Held(j) \/ InRing(j))))
      BY <2>1 DEF PoolInv, KnownInv
    <3>2. Held(j) => Held(j)'
      BY <1>4, <1>5, <2>1, QueuedFacts DEF Held
    <3>3. ASSUME InRing(j) PROVE Held(j)' \/ InRing(j)'
      <4>1. PICK k \in Live(placed[j]) : jobs[placed[j]][k] = j
        BY <3>3 DEF InRing
      <4>2. CASE placed[j] = c /\ k = r
        BY <1>3, <1>4, <4>1, <4>2 DEF Held
      <4>3. CASE ~(placed[j] = c /\ k = r)
        BY <1>4, <1>8, <1>9, <3>1, <4>1, <4>3 DEF InRing
      <4> QED BY <4>2, <4>3
    <3> QED BY <1>4, <3>1, <3>2, <3>3
  <2>2. \A j \in JobIds : j \notin Queued => ran'[j] = 0
    BY <1>4 DEF PoolInv, KnownInv
  <2> QED BY <1>4, <2>1, <2>2 DEF KnownInv, Queued
<1>17. PastInv'
  <2>1. ASSUME NEW j \in Queued', ran'[j] = 1
        PROVE  /\ \A k \in Live(placed[j])' : j < jobs'[placed'[j]][k]
               /\ \A v \in Workers : job'[v] # NoJob /\ worker_index'[v] = placed'[j] => j < job'[v]
    <3>1. j \in Queued /\ ran[j] = 1 /\ placed[j] \in Workers /\ placed'[j] = placed[j]
      BY <1>4, <2>1, QueuedFacts DEF PoolInv, Queued
    <3>2. \A k \in Live(placed[j]) : j < jobs[placed[j]][k]
      BY <3>1 DEF PoolInv, PastInv
    <3>3. Live(placed[j])' \subseteq Live(placed[j])
      BY <1>8, <1>9, <3>1
    <3>4. \A k \in Live(placed[j])' : j < jobs'[placed'[j]][k]
      BY <1>4, <3>1, <3>2, <3>3
    <3>5. \A v \in Workers : job[v] # NoJob /\ worker_index[v] = placed[j] => j < job[v]
      BY <3>1 DEF PoolInv, PastInv
    <3>6. c = placed[j] => j < n
      BY <1>3, <1>8, <3>2
    <3> QED BY <1>1, <1>4, <3>1, <3>4, <3>5, <3>6
  <2> QED BY <2>1 DEF PastInv
<1> QED BY <1>13, <1>14, <1>15, <1>16, <1>17 DEF PoolInv

(* A job runs to its end: it came before all that wait in its ring, and no *)
(* other worker has a job of that ring.                                    *)
LEMMA PoolFinishJob ==
  ASSUME IInv, DistinctRings, PoolInv, NEW w \in Workers, FinishJob(w) PROVE PoolInv'
<1> USE DEF IInv, TypeOK, PcOK, LocalsOK, RingOK, HistoryOK, Threads
<1>1. PICK c \in Workers : c = worker_index[w]
  BY DEF FinishJob, Move, At, ClaimInv
<1>2. PICK n \in JobIds : n = job[w]
  BY DEF FinishJob
<1>3. Waits(n, c) /\ \A k \in Live(c) : n < jobs[c][k]
  BY <1>1, <1>2 DEF PoolInv, HeldInv, FinishJob
<1>4. /\ pc[w] = "run" /\ pc' = [pc EXCEPT ![w] = "drain"]
      /\ UNCHANGED <<ring, worker_index, current_worker_index, submitted, placed>>
      /\ job' = [job EXCEPT ![w] = NoJob] /\ n # NoJob
      /\ ran' = [ran EXCEPT ![n] = 1]
  <2>1. int32_min(ran[n] + 1, MaxRuns) = 1
    BY <1>3 DEF Waits, int32_min, MaxRuns
  <2> QED BY <1>2, <2>1 DEF FinishJob, Move, At, Goto, counts
<1>5. \A s \in Workers : Live(s)' = Live(s)
  <2>1. \A s \in Workers : (Adding(s)' <=> Adding(s)) /\ (Taking(s)' <=> Taking(s))
    BY <1>4 DEF Adding, Taking, AddPcs, TakePcs
  <2> QED BY <1>4, <2>1 DEF Live, Off, Count, ring
<1>6. \A v \in Workers : v # w => worker_index[v] # c /\ job'[v] = job[v] /\ pc'[v] = pc[v]
  BY <1>1, <1>4 DEF DistinctRings, NoRing, Workers
<1>7. \A j, s : Waits(j, s) /\ j # n => Waits(j, s)'
  BY <1>4, QueuedFacts DEF Waits, Queued
<1>8. LiveInv'
  <2>1. ASSUME NEW s \in Workers, NEW k \in Live(s) PROVE jobs[s][k] # n /\ Waits(jobs[s][k], s)
    <3>1. Waits(jobs[s][k], s)
      BY DEF PoolInv, LiveInv
    <3>2. jobs[s][k] # n
      <4>1. CASE s = c
        BY <1>3, <4>1 DEF Waits, Queued
      <4>2. CASE s # c
        BY <1>3, <3>1, <4>2 DEF Waits
      <4> QED BY <4>1, <4>2
    <3> QED BY <3>1, <3>2
  <2> QED BY <1>4, <1>5, <1>7, <2>1 DEF LiveInv, ring
<1>9. OrderInv'
  BY <1>4, <1>5 DEF PoolInv, OrderInv, Off, ring
<1>10. HeldInv'
  <2>1. job'[w] = NoJob /\ pc'[w] \notin HoldPcs
    BY <1>4 DEF HoldPcs, TakePcs, AddPcs
  <2>2. ASSUME NEW v \in Workers, v # w
        PROVE  /\ job'[v] # NoJob <=> pc'[v] \in HoldPcs
               /\ job'[v] # NoJob =>
                    /\ Waits(job[v], worker_index[v])'
                    /\ \A k \in Live(worker_index[v])' : job'[v] < jobs'[worker_index'[v]][k]
    <3>1. job'[v] = job[v] /\ pc'[v] = pc[v] /\ worker_index'[v] = worker_index[v] /\ jobs' = jobs
      BY <1>4, <1>6, <2>2 DEF ring
    <3>2. job[v] # NoJob <=> pc[v] \in HoldPcs
      BY DEF PoolInv, HeldInv
    <3>3. ASSUME job[v] # NoJob
          PROVE  /\ Waits(job[v], worker_index[v])'
                 /\ \A k \in Live(worker_index[v])' : job'[v] < jobs'[worker_index'[v]][k]
      <4>1. Waits(job[v], worker_index[v]) /\ worker_index[v] \in Workers
        BY <3>3, QueuedFacts DEF PoolInv, HeldInv, Waits
      <4>2. job[v] # n
        BY <1>3, <1>6, <2>2, <4>1 DEF Waits
      <4>3. Waits(job[v], worker_index[v])'
        BY <1>4, <3>1, <4>1, <4>2, QueuedFacts DEF Waits, Queued
      <4>4. Live(worker_index[v])' = Live(worker_index[v])
        BY <1>5, <3>1, <4>1
      <4>5. \A k \in Live(worker_index[v]) : job[v] < jobs[worker_index[v]][k]
        BY <3>3 DEF PoolInv, HeldInv
      <4> QED BY <3>1, <4>3, <4>4, <4>5
    <3> QED BY <3>1, <3>2, <3>3
  <2> QED BY <2>1, <2>2 DEF HeldInv
<1>11. KnownInv'
  <2>1. ASSUME NEW j \in JobIds, j \in Queued, j # n
        PROVE  placed'[j] \in Workers
               /\ (ran'[j] = 1 \/ (ran'[j] = 0 /\ (Held(j)' \/ InRing(j)')))
    <3>1. placed[j] \in Workers /\ (ran[j] = 1 \/ (ran[j] = 0 /\ (Held(j) \/ InRing(j))))
      BY <2>1 DEF PoolInv, KnownInv
    <3>2. Held(j) => Held(j)'
      BY <1>2, <1>6, <2>1 DEF Held
    <3>3. InRing(j) => InRing(j)'
      BY <1>4, <1>5, <3>1 DEF InRing, ring
    <3> QED BY <1>4, <2>1, <3>1, <3>2, <3>3
  <2>2. placed'[n] \in Workers /\ ran'[n] = 1
    BY <1>3, <1>4 DEF Waits
  <2>3. \A j \in JobIds : j \notin Queued => ran'[j] = 0
    BY <1>3, <1>4 DEF PoolInv, KnownInv, Waits
  <2> QED BY <1>4, <2>1, <2>2, <2>3 DEF KnownInv, Queued
<1>12. PastInv'
  <2>1. ASSUME NEW j \in Queued', ran'[j] = 1
        PROVE  /\ \A k \in Live(placed[j])' : j < jobs'[placed'[j]][k]
               /\ \A v \in Workers : job'[v] # NoJob /\ worker_index'[v] = placed'[j] => j < job'[v]
    <3>1. j \in Queued /\ placed[j] \in Workers /\ placed'[j] = placed[j] /\ jobs' = jobs
      BY <1>4, <2>1, QueuedFacts DEF PoolInv, Queued, ring
    <3>2. Live(placed[j])' = Live(placed[j])
      BY <1>5, <3>1
    <3>3. CASE j = n
      <4>1. \A k \in Live(placed[j])' : j < jobs'[placed'[j]][k]
        BY <1>3, <3>1, <3>2, <3>3 DEF Waits
      <4>2. \A v \in Workers : job'[v] # NoJob => worker_index'[v] # placed'[j]
        BY <1>3, <1>4, <1>6, <3>1, <3>3 DEF Waits
      <4> QED BY <4>1, <4>2
    <3>4. CASE j # n
      <4>1. ran[j] = 1
        BY <1>4, <2>1, <3>1, <3>4, QueuedFacts
      <4>2. \A k \in Live(placed[j]) : j < jobs[placed[j]][k]
        BY <3>1, <4>1 DEF PoolInv, PastInv
      <4>3. \A v \in Workers : job[v] # NoJob /\ worker_index[v] = placed[j] => j < job[v]
        BY <3>1, <4>1 DEF PoolInv, PastInv
      <4>4. \A v \in Workers : job'[v] # NoJob => job'[v] = job[v] /\ worker_index'[v] = worker_index[v]
        BY <1>4, <1>6
      <4> QED BY <3>1, <3>2, <4>2, <4>3, <4>4
    <3> QED BY <3>3, <3>4
  <2> QED BY <2>1 DEF PastInv
<1> QED BY <1>8, <1>9, <1>10, <1>11, <1>12 DEF PoolInv

(* A thread that moves to a place where it adds, takes and holds as much   *)
(* as where it was.                                                        *)
LEMMA PoolMove ==
  ASSUME TypeOK, ClaimInv, PoolInv, NEW t \in Threads, NEW to, Goto(t, to),
         UNCHANGED <<ring, current_worker_index, job, ghosts, worker_index>>,
         to \in AddPcs <=> pc[t] \in AddPcs, to \in TakePcs <=> pc[t] \in TakePcs,
         t \in Workers => (to \in HoldPcs <=> pc[t] \in HoldPcs)
  PROVE  PoolInv'
<1>1. pc' = [pc EXCEPT ![t] = to] /\ pc \in [Threads -> WorkerPcs \cup MainPcs]
  BY DEF Goto, TypeOK, PcOK
<1>2. \A u \in Threads : pc'[u] \in AddPcs <=> pc[u] \in AddPcs
  BY <1>1
<1>3. \A w \in Workers : /\ pc'[w] \in TakePcs <=> pc[w] \in TakePcs
                         /\ pc'[w] \in HoldPcs <=> pc[w] \in HoldPcs
  BY <1>1 DEF Threads
<1> QED BY <1>2, <1>3, PoolStill

(* The steps of main_loop that move no job.                                *)
LEMMA PoolLoop ==
  ASSUME TypeOK, ClaimInv, PoolInv, NEW w \in Workers,
         \/ TestRunning(w) \/ BecomeIdle(w) \/ TestQueue(w) \/ CompareIdle(w) \/ WakeUp(w)
         \/ LoadQueue(w) \/ CompareDrain(w) \/ PopLoad(w) \/ ExitLoop(w)
  PROVE  PoolInv'
<1>1. PICK to \in WorkerPcs :
        /\ Goto(w, to)
        /\ to \notin AddPcs /\ pc[w] \notin AddPcs
        /\ to \in TakePcs <=> pc[w] \in TakePcs
        /\ to \in HoldPcs <=> pc[w] \in HoldPcs
  BY DEF TestRunning, BecomeIdle, TestQueue, CompareIdle, WakeUp, LoadQueue, CompareDrain, PopLoad,
         ExitLoop, LeaveIdle, Move, At, WorkerPcs, LockedPcs, AddPcs, TakePcs, HoldPcs
<1>2. UNCHANGED <<ring, current_worker_index, job, ghosts, worker_index>>
  BY DEF TestRunning, BecomeIdle, TestQueue, CompareIdle, WakeUp, LoadQueue, CompareDrain, PopLoad,
         ExitLoop, LeaveIdle, counts, locals
<1> QED BY <1>1, <1>2, PoolMove DEF Threads

(* The steps of a call that move no job.                                   *)
LEMMA PoolCall ==
  ASSUME TypeOK, ClaimInv, PoolInv, NEW t \in Threads,
         QueueLoad(t) \/ QueueBroadcast(t) \/ WaitSleep(t) \/ WaitReturn(t)
  PROVE  PoolInv'
<1>1. UNCHANGED <<ring, current_worker_index, job, ghosts, worker_index>>
  BY DEF QueueLoad, QueueBroadcast, WaitSleep, WaitReturn, counts, locals
<1>2. ~(t \in Workers /\ t \in Callers)
  BY ConstantFacts
<1>3. CASE QueueLoad(t)
  BY <1>1, <1>3, PoolMove DEF QueueLoad, Move, At, AddPcs, TakePcs, HoldPcs
<1>4. CASE QueueBroadcast(t)
  BY <1>1, <1>4, PoolMove DEF QueueBroadcast, Move, At, Home, AddPcs, TakePcs, HoldPcs
<1>5. CASE WaitSleep(t)
  <2>1. Goto(t, "wait_sleep") /\ pc[t] \notin AddPcs \cup TakePcs
    BY <1>5 DEF WaitSleep, MayWait, MayCall, InJob, Waiting, At, AddPcs, TakePcs
  <2>2. t \in Workers => pc[t] \in {"run", "wait_sleep"}
    BY <1>2, <1>5 DEF WaitSleep, MayWait, MayCall, InJob, Waiting, At, TypeOK, PcOK, WorkerPcs, LockedPcs
  <2> QED BY <1>1, <2>1, <2>2, PoolMove DEF AddPcs, TakePcs, HoldPcs
<1>6. CASE WaitReturn(t)
  <2>1. Goto(t, Home(t)) /\ pc[t] \in {"wait", "wait_sleep"}
    BY <1>6 DEF WaitReturn, Waiting, At
  <2>2. t \in Workers => pc[t] = "wait_sleep"
    BY <2>1 DEF TypeOK, PcOK, WorkerPcs, LockedPcs
  <2> QED BY <1>1, <2>1, <2>2, PoolMove DEF AddPcs, TakePcs, HoldPcs, Home
<1> QED BY <1>3, <1>4, <1>5, <1>6

(* Every step before a shutdown keeps the order of the jobs.               *)
LEMMA PoolStep ==
  ASSUME BoundedUse, IInv, DistinctRings, IndexInv, PoolInv, phase # "crashed",
         Active, Active', Next
  PROVE  PoolInv'
<1> USE DEF IInv
<1>1. CASE Lifecycle
  <2>1. UNCHANGED <<ring, current_worker_index, job, ghosts, worker_index>>
    BY <1>1, LifecycleQuiet DEF locals
  <2>2. /\ \A t \in Threads : pc'[t] \in AddPcs <=> pc[t] \in AddPcs
        /\ \A w \in Workers : /\ pc'[w] \in TakePcs <=> pc[w] \in TakePcs
                              /\ pc'[w] \in HoldPcs <=> pc[w] \in HoldPcs
    <3>1. pc[Main] \notin AddPcs
      BY <1>1, LoopPhase, ConstantFacts
         DEF Lifecycle, BeginSetup, ResetQueueIndex, ResetRunningIndex, RunThread, BeginShutdown,
             BroadcastShutdown, JoinWorker, ReleaseSync, Move, At, LifeInv, AddPcs
    <3>2. \A t \in Threads :
            pc'[t] = pc[t] \/ /\ pc'[t] \notin AddPcs \cup TakePcs /\ pc[t] \notin AddPcs \cup TakePcs
                              /\ t \in Workers => pc'[t] \notin HoldPcs /\ pc[t] \notin HoldPcs
      BY <1>1, <3>1, LifecycleQuiet, ConstantFacts
         DEF TypeOK, PcOK, MainPcs, CallerPcs, AddPcs, TakePcs, HoldPcs, Threads
    <3> QED BY <3>2 DEF Threads
  <2> QED BY <2>1, <2>2, PoolStill
<1>2. ASSUME NEW t \in Threads, Call(t) PROVE PoolInv'
  BY <1>2, PoolCall, PoolQueueStore, PoolQueueAdvance DEF Call
<1>3. ASSUME NEW w \in Workers, MainLoop(w) PROVE PoolInv'
  <2>1. ~(CallNullEntry(w) \/ CallNullJob(w))
    BY DEF CallNullEntry, CallNullJob, Active
  <2> QED BY <1>3, <2>1, PoolLoop, PoolClaimRing, PoolTakeJob, PoolPopAdvance, PoolFinishJob
          DEF MainLoop
<1>4. CASE UNCHANGED <<ring, counts, locals, pc, ghosts>>
  BY <1>4, PoolStill DEF counts, locals
<1> QED BY <1>1, <1>2, <1>3, <1>4 DEF Next, Stopped, SpuriousWakeup, vars

-----------------------------------------------------------------------------
(* The invariant of the jobs.                                              *)

JobsInv == IInv /\ (cycles = 0 => RingsInv) /\ WInv

LEMMA JobsInit == Init => JobsInv
<1> SUFFICES ASSUME Init PROVE WInv
  BY IInit DEF JobsInv
<1> USE DEF Init
<1>1. Queued = {} /\ \A w \in Workers : job[w] = NoJob
  BY DEF Queued
<1>2. \A t \in Threads : pc[t] \in {"off", "ready"}
  OBVIOUS
<1>3. \A s \in Workers : ~Adding(s) /\ Count(s) = 0
  BY <1>2 DEF Adding, AddPcs, Count, Off, Dist
<1>4. \A s \in Workers : Live(s) = {}
  <2>1. \A s \in Workers : \A k \in Indices : ~(Off(s, k) < 0)
    BY ConstantFacts DEF Off, Dist, Indices
  <2> QED BY <1>3, <2>1 DEF Live
<1>5. IndexInv
  BY <1>2, <1>3 DEF IndexInv, TakePcs, Threads
<1>6. LiveInv /\ OrderInv /\ PastInv
  BY <1>1, <1>4 DEF LiveInv, OrderInv, PastInv
<1>7. HeldInv
  BY <1>1, <1>2 DEF HeldInv, HoldPcs, TakePcs, AddPcs, Threads
<1>8. KnownInv
  BY <1>1 DEF KnownInv
<1> QED BY <1>5, <1>6, <1>7, <1>8 DEF WInv, PoolInv

LEMMA JobsNext ==
  ASSUME BoundedUse, JobsInv, [Next]_vars PROVE JobsInv'
<1> USE DEF JobsInv
<1>1. IInv'
  BY INext
<1>2. cycles' = 0 => RingsInv'
  <2>1. cycles' = 0 => cycles = 0
    <3>1. CASE ReleaseSync
      BY <3>1 DEF ReleaseSync, IInv, TypeOK, LifeOK
    <3>2. CASE Next /\ ~ReleaseSync
      BY <3>2, LifeFrame DEF life, BeginSetup, RunThread, BeginShutdown, JoinWorker, WaitReturn,
                             CallNullEntry, CallNullJob
    <3> QED BY <3>1, <3>2 DEF vars, life
  <2> QED BY <2>1, RingsNext
<1>3. WInv'
  <2>1. CASE UNCHANGED vars
    <3>1. Active' <=> Active
      BY <2>1 DEF vars, life, Active
    <3> QED BY <2>1, <3>1, IndexStill, PoolStill DEF vars, ring, counts, locals, WInv, IInv
  <2>2. CASE phase # "crashed" /\ Next
    <3> SUFFICES ASSUME Active' PROVE IndexInv' /\ PoolInv'
      BY DEF WInv
    <3>1. Active
      BY <2>2, ActiveBefore DEF IInv
    <3>2. DistinctRings /\ IndexInv /\ PoolInv
      BY <3>1 DEF Active, RingsInv, WInv
    <3> QED BY <2>2, <3>1, <3>2, IndexStep, PoolStep
  <2> QED BY <2>1, <2>2 DEF Next
<1> QED BY <1>1, <1>2, <1>3

LEMMA JobsAlways == ASSUME BoundedUse PROVE Spec => []JobsInv
<1>1. JobsInv /\ [Next]_vars => JobsInv'
  BY JobsNext
<1> QED BY <1>1, JobsInit, PTL DEF Spec

-----------------------------------------------------------------------------
(* What the callers rely on.                                               *)

(* Jobs of one ring run in the order they were queued, as long as no       *)
(* caller queues into a full ring and no shutdown has begun.               *)
THEOREM RingOrderCorrect ==
  ASSUME BoundedUse PROVE Spec => []RingOrder
<1>1. ASSUME JobsInv PROVE RingOrder
  <2> SUFFICES ASSUME Undisturbed, NEW j \in Queued, NEW k \in Queued, j < k,
                      placed[j] = placed[k], ran[k] > 0
               PROVE  ran[j] > 0
    BY DEF RingOrder, Queued
  <2>1. PoolInv /\ TypeOK
    BY <1>1 DEF JobsInv, IInv, WInv, Active, Undisturbed
  <2>2. /\ j \in JobIds /\ k \in JobIds /\ placed[j] \in Workers
        /\ ran[k] = 1 /\ (ran[j] = 1 \/ Held(j) \/ InRing(j))
    BY <2>1, QueuedFacts DEF PoolInv, KnownInv
  <2>3. ~Held(j)
    <3> SUFFICES ASSUME NEW w \in Workers, job[w] = j PROVE FALSE
      BY DEF Held
    <3>1. job[w] # NoJob /\ worker_index[w] = placed[k]
      BY <2>1, QueuedFacts DEF PoolInv, HeldInv, Waits
    <3>2. k < j
      BY <2>1, <2>2, <3>1 DEF PoolInv, PastInv
    <3> QED BY <2>2, <3>2 DEF JobIds
  <2>4. ~InRing(j)
    <3> SUFFICES ASSUME NEW l \in Live(placed[k]), jobs[placed[k]][l] = j PROVE FALSE
      BY DEF InRing
    <3>1. k < j
      BY <2>1, <2>2 DEF PoolInv, PastInv
    <3> QED BY <2>2, <3>1 DEF JobIds
  <2> QED BY <2>2, <2>3, <2>4
<1> QED BY <1>1, JobsAlways, PTL

(* While nobody is in the critical section, a system that is idle has run  *)
(* every job queued so far.                                                *)
LEMMA IdleDone ==
  ASSUME JobsInv, Active, phase # "down", mutex = NoThread, IsIdle
  PROVE  \A j \in Queued : ran[j] = 1
<1> USE DEF JobsInv, IInv, TypeOK
<1>1. phase \in {"setup", "up"} /\ running
  BY DEF Active, LifeInv
<1>2. \A w \in Workers : pc[w] \in IdlePcs
  BY <1>1, AllIdle
<1>3. \A w \in Workers : job[w] = NoJob
  BY <1>2 DEF WInv, PoolInv, HeldInv, HoldPcs, TakePcs, AddPcs, IdlePcs
<1>4. \A s \in Workers : Live(s) = {}
  <2>1. \A s \in Workers : Count(s) = 0 /\ \A k \in Indices : Off(s, k) \in Nat
    BY <1>1, DistFacts DEF IsIdle, RingOK, Count, Off
  <2> QED BY <2>1, NobodyInside DEF Live
<1> QED BY <1>3, <1>4, QueuedFacts DEF WInv, PoolInv, KnownInv, Held, InRing

(* wait_idle returns only when every job queued so far has run to its end. *)
THEOREM IdleCorrect ==
  ASSUME BoundedUse PROVE Spec => []IdleMeansDone
<1>1. JobsInv => IdleMeansDone
  BY IdleDone DEF IdleMeansDone, Undisturbed, Active, Queued
<1> QED BY <1>1, JobsAlways, PTL

(* Every job queued is in one place: once in its ring, or with one worker, *)
(* or run once; none is lost and none is run twice.                        *)
THEOREM ConservationCorrect ==
  ASSUME BoundedUse PROVE Spec => []JobConservation
<1>1. ASSUME JobsInv PROVE JobConservation
  <2> SUFFICES ASSUME Undisturbed, mutex = NoThread, NEW j \in Queued
               PROVE  Cardinality({k \in Window(placed[j]) : jobs[placed[j]][k] = j})
                        + Cardinality({w \in Workers : job[w] = j}) + ran[j] = 1
    BY DEF JobConservation, Queued
  <2>1. PoolInv /\ TypeOK /\ LockInv /\ DistinctRings
    BY <1>1 DEF JobsInv, IInv, WInv, Active, Undisturbed, RingsInv
  <2>2. j \in JobIds /\ j # NoJob /\ ran[j] \in {0, 1} /\ (ran[j] = 1 \/ Held(j) \/ InRing(j))
    BY <2>1, QueuedFacts DEF PoolInv, KnownInv
  <2>3. PICK s \in Workers : s = placed[j]
    BY <2>1, QueuedFacts DEF PoolInv
  <2> DEFINE A == {k \in Window(placed[j]) : jobs[placed[j]][k] = j}
             B == {w \in Workers : job[w] = j}
  <2>4. Window(placed[j]) = Live(s)
    <3>1. \A k \in Indices : (k - running_index[s]) % RingSize = Off(s, k)
      BY <2>1, DistRemainder DEF Off, TypeOK, RingOK
    <3>2. queue_index[s] \in Indices
      BY <2>1 DEF TypeOK, RingOK
    <3> QED BY <2>1, <2>3, <3>1, <3>2, NobodyInside DEF Window, Live, Count
  <2>5. CASE ran[j] = 1
    <3>1. A = {}
      BY <2>1, <2>2, <2>3, <2>4, <2>5 DEF PoolInv, PastInv, JobIds
    <3>2. B = {}
      BY <2>1, <2>2, <2>5 DEF PoolInv, HeldInv, Waits
    <3> QED BY <2>5, <3>1, <3>2, FS_EmptySet
  <2>6. CASE ran[j] = 0 /\ Held(j)
    <3>1. PICK w \in Workers : job[w] = j
      BY <2>6 DEF Held
    <3>2. worker_index[w] = s
      BY <2>1, <2>2, <2>3, <3>1 DEF PoolInv, HeldInv, Waits
    <3>3. A = {}
      BY <2>1, <2>2, <2>3, <2>4, <3>1, <3>2 DEF PoolInv, HeldInv, JobIds
    <3>4. B = {w}
      <4>1. \A v \in Workers : job[v] = j => worker_index[v] = s
        BY <2>1, <2>2, <2>3 DEF PoolInv, HeldInv, Waits
      <4>2. \A v \in Workers : job[v] = j => v = w
        BY <2>1, <3>2, <4>1 DEF DistinctRings, NoRing, Workers
      <4> QED BY <3>1, <4>2
    <3>5. Cardinality(A) = 0 /\ Cardinality(B) = 1
      BY <3>3, <3>4, FS_EmptySet, FS_Singleton, Zenon
    <3> QED BY <2>6, <3>5
  <2>7. CASE ran[j] = 0 /\ ~Held(j)
    <3>1. PICK k \in Live(s) : jobs[s][k] = j
      BY <2>2, <2>3, <2>7 DEF InRing
    <3>2. B = {}
      BY <2>7 DEF Held
    <3>3. \A l \in Live(s) : jobs[s][l] = j => l = k
      <4> SUFFICES ASSUME NEW l \in Live(s), jobs[s][l] = j, l # k PROVE FALSE
        OBVIOUS
      <4>1. Off(s, k) \in Nat /\ Off(s, l) \in Nat /\ Off(s, k) # Off(s, l)
        <5>1. running_index[s] \in Indices /\ k \in Indices /\ l \in Indices
          BY <2>1 DEF TypeOK, RingOK, Live
        <5> QED BY <5>1, DistFacts DEF Off
      <4>2. Off(s, k) < Off(s, l) \/ Off(s, l) < Off(s, k)
        BY <4>1
      <4>3. j < j
        BY <2>1, <3>1, <4>2 DEF PoolInv, OrderInv
      <4> QED BY <2>2, <4>3 DEF JobIds
    <3>4. A = {k}
      BY <2>3, <2>4, <3>1, <3>3
    <3>5. Cardinality(A) = 1 /\ Cardinality(B) = 0
      BY <3>2, <3>4, FS_EmptySet, FS_Singleton, Zenon
    <3> QED BY <2>7, <3>5
  <2> QED BY <2>2, <2>5, <2>6, <2>7
<1> QED BY <1>1, JobsAlways, PTL

(* Until the first shutdown begins, the job in the hands of a worker that  *)
(* runs it was queued and has not run.                                     *)
THEOREM TakesCorrect == ASSUME BoundedUse PROVE Spec => []TakesUntilShutdown
<1>1. ASSUME JobsInv, Undisturbed PROVE TakesQueuedJob
  BY <1>1 DEF Undisturbed, Active, JobsInv, WInv, PoolInv, HeldInv, HoldPcs, Waits, TakesQueuedJob
<1>2. JobsInv => TakesUntilShutdown
  BY <1>1 DEF TakesUntilShutdown
<1> QED BY <1>2, JobsAlways, PTL

(* No worker returns from wait_idle, called from inside its job, while the *)
(* system runs.                                                            *)
StopInv == phase = "stopping" => ~running

LEMMA StopStep ==
  ASSUME TypeOK, StopInv, phase # "crashed", Next PROVE StopInv'
<1>1. phase' = "stopping" => phase = "stopping" \/ BeginShutdown
  BY LifeFrame DEF life, BeginSetup, RunThread, JoinWorker, ReleaseSync, WaitReturn, CallNullEntry,
                   CallNullJob
<1>2. running' = running \/ BeginSetup \/ BeginShutdown
  BY CountFrame DEF counts, QueueAdvance, ClaimRing, BecomeIdle, TestQueue, CompareIdle, ExitLoop
<1>3. BeginShutdown => ~running'
  BY DEF BeginShutdown
<1>4. BeginSetup => phase' # "stopping"
  BY DEF BeginSetup
<1> QED BY <1>1, <1>2, <1>3, <1>4 DEF StopInv

(* A thread asleep in wait_idle comes back only by finding the system idle.*)
LEMMA SleeperMoves ==
  ASSUME TypeOK, LifeInv, phase # "crashed", Next, NEW w \in Workers, pc[w] = "wait_sleep",
         pc'[w] # "wait_sleep"
  PROVE  IsIdle /\ phase # "down"
<1> USE DEF TypeOK, PcOK, Threads
<1>1. CASE Lifecycle
  <2>1. RunThread => pc[i] = "off"
    BY LoopPhase DEF RunThread, At, InitLoopPcs
  <2>2. JoinWorker => pc[i] # "wait_sleep"
    BY DEF JoinWorker, Terminated
  <2> QED BY <1>1, <2>1, <2>2, ConstantFacts
          DEF Lifecycle, BeginSetup, RunThread, ResetQueueIndex, ResetRunningIndex, BeginShutdown,
              BroadcastShutdown, JoinWorker, ReleaseSync, Move, Goto
<1>2. ASSUME NEW t \in Threads, Call(t) PROVE IsIdle /\ phase # "down"
  <2>1. t = w
    BY <1>2 DEF Call, QueueStore, QueueLoad, QueueAdvance, QueueBroadcast, WaitSleep, WaitReturn,
                Move, Goto
  <2>2. WaitReturn(w)
    BY <1>2, <2>1 DEF Call, QueueStore, QueueLoad, QueueAdvance, QueueBroadcast, WaitSleep, Move, At,
                      Goto, MayQueue, MayCall, InJob
  <2> QED BY <2>2 DEF WaitReturn, LifeInv
<1>3. ASSUME NEW v \in Workers, MainLoop(v) PROVE IsIdle /\ phase # "down"
  BY <1>3 DEF MainLoop, CallNullEntry, ClaimRing, TestRunning, BecomeIdle, TestQueue, CompareIdle,
              WakeUp, LoadQueue, CompareDrain, TakeJob, PopLoad, PopAdvance, FinishJob, CallNullJob,
              ExitLoop, LeaveIdle, Move, At, Goto
<1>4. ~UNCHANGED pc
  OBVIOUS
<1> QED BY <1>1, <1>2, <1>3, <1>4 DEF Next, Stopped, SpuriousWakeup, vars

THEOREM WaitInVainCorrect == Spec => JobsWaitInVain
<1> DEFINE SInv == IInv /\ StopInv
<1>1. Init => SInv
  BY IInit DEF StopInv, Init
<1>2. SInv /\ [Next]_vars => SInv'
  BY INext, StopStep DEF IInv, Next, vars, life, counts, StopInv
<1>3. ASSUME SInv, [Next]_vars, NEW w \in Workers, pc[w] = "wait_sleep", pc'[w] # "wait_sleep"
      PROVE  ~running
  <2>1. phase # "crashed" /\ Next
    BY <1>3 DEF Next, vars
  <2>2. IsIdle /\ phase # "down"
    BY <1>3, <2>1, SleeperMoves DEF IInv
  <2>3. CASE phase \in {"setup", "up"}
    BY <1>3, <2>2, <2>3, AllIdle DEF IInv, IdlePcs
  <2>4. CASE phase = "stopping"
    BY <1>3, <2>4 DEF StopInv
  <2> QED BY <1>3, <2>1, <2>2, <2>3, <2>4 DEF IInv, TypeOK, LifeOK
<1>4. SInv /\ [Next]_vars =>
        [\A w \in Workers : At(w, "wait_sleep") /\ pc'[w] # "wait_sleep" => ~running]_vars
  BY <1>3 DEF At
<1> QED BY <1>1, <1>2, <1>4, PTL DEF Spec, JobsWaitInVain

-----------------------------------------------------------------------------
(* The job system is a pool.                                               *)

WaitPcs == {"wait", "wait_sleep"}
Pending == {j \in 1 .. submitted : ran[j] = 0}
Waiters == {t \in Threads : pc[t] \in WaitPcs}

(* A thread that moves without a job: it begins to wait, or nothing is     *)
(* seen outside.                                                           *)
LEMMA PoolBegin ==
  ASSUME TypeOK, Active, Active', UNCHANGED ghosts, NEW t \in Threads,
         \A u \in Threads : u # t => (pc'[u] \in WaitPcs <=> pc[u] \in WaitPcs),
         pc[t] \in WaitPcs => pc'[t] \in WaitPcs
  PROVE  Pool!Next \/ UNCHANGED <<Pending, Waiters, ran>>
<1>1. UNCHANGED <<Pending, ran>>
  BY DEF Pending, ghosts
<1>2. CASE pc[t] \in WaitPcs \/ pc'[t] \notin WaitPcs
  BY <1>1, <1>2 DEF Waiters
<1>3. CASE pc[t] \notin WaitPcs /\ pc'[t] \in WaitPcs
  <2>1. Waiters' = Waiters \cup {t} /\ t \notin Waiters
    BY <1>3 DEF Waiters
  <2>2. Pool!BeginWait(t)
    BY <1>1, <2>1 DEF Pool!BeginWait, Waiters, WaitPcs, Pending
  <2>3. Pool!Use
    BY <2>2 DEF Pool!Use, Active
  <2> QED BY <2>3 DEF Pool!Next
<1> QED BY <1>2, <1>3

(* A step before a shutdown, as the pool sees it.                          *)
LEMMA PoolCallStep ==
  ASSUME JobsInv, Active, Active', NEW t \in Threads, Call(t)
  PROVE  Pool!Next \/ UNCHANGED <<Pending, Waiters, ran>>
<1> USE DEF JobsInv, IInv, TypeOK, PcOK
<1>1. CASE QueueStore(t)
  <2>1. PICK n \in JobIds : n = submitted + 1
    BY <1>1, ConstantFacts DEF QueueStore, JobIds, HistoryOK
  <2>2. submitted \in Nat /\ n \in Int /\ submitted' = n /\ ran' = ran /\ ran[n] = 0 /\ n \notin Queued
    BY <1>1, <2>1, QueuedFacts DEF QueueStore, WInv, PoolInv, KnownInv, Queued
  <2>3. Pending' = Pending \cup {n} /\ n \notin Pending
    <3>1. n \notin 1 .. submitted /\ 1 .. n = (1 .. submitted) \cup {n}
      BY <2>1, <2>2, NextInterval, Zenon
    <3> QED BY <2>2, <3>1 DEF Pending
  <2>4. Waiters' = Waiters
    BY <1>1 DEF QueueStore, Goto, MayQueue, MayCall, InJob, At, Waiters, WaitPcs
  <2>5. Pool!Submit(n)
    BY <2>2, <2>3, <2>4 DEF Pool!Submit, Pending, Waiters, WaitPcs
  <2>6. Pool!Use
    BY <2>5 DEF Pool!Use, Active
  <2> QED BY <2>6 DEF Pool!Next
<1>2. CASE QueueLoad(t) \/ QueueAdvance(t) \/ QueueBroadcast(t)
  <2>1. UNCHANGED ghosts /\ pc[t] \notin WaitPcs /\ pc'[t] \notin WaitPcs
        /\ \A u \in Threads : u # t => pc'[u] = pc[u]
    BY <1>2 DEF QueueLoad, QueueAdvance, QueueBroadcast, Move, At, Goto, Home, WaitPcs
  <2> QED BY <2>1, PoolBegin
<1>3. CASE WaitSleep(t)
  <2>1. UNCHANGED ghosts /\ pc'[t] \in WaitPcs /\ \A u \in Threads : u # t => pc'[u] = pc[u]
    BY <1>3 DEF WaitSleep, Goto, WaitPcs
  <2> QED BY <2>1, PoolBegin
<1>4. CASE WaitReturn(t)
  <2>1. /\ UNCHANGED ghosts /\ pc[t] \in WaitPcs /\ mutex = NoThread /\ IsIdle
        /\ pc' = [pc EXCEPT ![t] = Home(t)] /\ Home(t) \notin WaitPcs
    BY <1>4 DEF WaitReturn, Waiting, At, Goto, LockFree, Home, WaitPcs
  <2>2. Pending = {} /\ Pending' = {}
    <3>1. phase # "down"
      BY <2>1 DEF LifeInv, WaitPcs, Threads
    <3> QED BY <2>1, <3>1, IdleDone DEF Pending, Queued, ghosts
  <2>3. Waiters' = Waiters \ {t} /\ t \in Waiters
    BY <2>1 DEF Waiters
  <2>4. Pool!EndWait(t)
    BY <2>1, <2>2, <2>3 DEF Pool!EndWait, Pending, Waiters, WaitPcs, ghosts
  <2>5. Pool!Use
    BY <2>4 DEF Pool!Use, Active
  <2> QED BY <2>5 DEF Pool!Next
<1> QED BY <1>1, <1>2, <1>3, <1>4 DEF Call

LEMMA PoolLoopStep ==
  ASSUME JobsInv, Active, Active', NEW w \in Workers, MainLoop(w)
  PROVE  Pool!Next \/ UNCHANGED <<Pending, Waiters, ran>>
<1> USE DEF JobsInv, IInv, TypeOK, PcOK, Threads
<1>1. pc[w] \notin WaitPcs /\ pc'[w] \notin WaitPcs /\ \A u \in Threads : u # w => pc'[u] = pc[u]
  BY DEF MainLoop, CallNullEntry, ClaimRing, TestRunning, BecomeIdle, TestQueue, CompareIdle, WakeUp,
         LoadQueue, CompareDrain, TakeJob, PopLoad, PopAdvance, FinishJob, CallNullJob, ExitLoop,
         LeaveIdle, Move, At, Goto, WaitPcs
<1>2. CASE FinishJob(w)
  <2>1. PICK n \in JobIds : n = job[w]
    BY <1>2 DEF FinishJob, LocalsOK
  <2>2. n \in Queued /\ ran[n] = 0
    BY <1>2, <2>1 DEF FinishJob, WInv, PoolInv, HeldInv, Waits
  <2>3. ran' = [ran EXCEPT ![n] = @ + 1] /\ submitted' = submitted
    BY <1>2, <2>1, <2>2 DEF FinishJob, int32_min, MaxRuns
  <2>4. Pending' = Pending \ {n} /\ n \in Pending
    <3>1. \A j \in Queued : ran'[j] = 0 <=> ran[j] = 0 /\ j # n
      BY <2>2, <2>3, QueuedFacts DEF HistoryOK
    <3> QED BY <2>2, <2>3, <3>1 DEF Pending, Queued
  <2>5. Waiters' = Waiters
    BY <1>1 DEF Waiters
  <2>6. Pool!Run(n)
    BY <2>3, <2>4, <2>5 DEF Pool!Run, Pending, Waiters, WaitPcs
  <2>7. Pool!Use
    BY <2>6 DEF Pool!Use, Active
  <2> QED BY <2>7 DEF Pool!Next
<1>3. CASE ~FinishJob(w)
  <2>1. UNCHANGED ghosts
    BY <1>3 DEF MainLoop, CallNullEntry, ClaimRing, TestRunning, BecomeIdle, TestQueue, CompareIdle,
                WakeUp, LoadQueue, CompareDrain, TakeJob, PopLoad, PopAdvance, CallNullJob, ExitLoop
  <2> QED BY <1>1, <2>1, PoolBegin
<1> QED BY <1>2, <1>3

LEMMA PoolLifecycleStep ==
  ASSUME JobsInv, Active, Active', phase # "crashed", Lifecycle
  PROVE  Pool!Next \/ UNCHANGED <<Pending, Waiters, ran>>
<1> USE DEF JobsInv, IInv, TypeOK, PcOK, Threads
<1>1. UNCHANGED ghosts
  BY LifecycleQuiet
<1>2. pc[Main] \notin WaitPcs
  BY LoopPhase, ConstantFacts
     DEF Lifecycle, BeginSetup, ResetQueueIndex, ResetRunningIndex, RunThread, BeginShutdown,
         BroadcastShutdown, JoinWorker, ReleaseSync, Move, At, LifeInv, WaitPcs
<1>3. \A u \in Threads : u # Main => (pc'[u] \in WaitPcs <=> pc[u] \in WaitPcs)
  BY LifecycleQuiet, ConstantFacts DEF WaitPcs
<1> QED BY <1>1, <1>2, <1>3, PoolBegin, ConstantFacts

(* Until a shutdown begins the job system is the pool its callers see: a   *)
(* job is accepted, runs once, and a call of wait_idle that had to sleep   *)
(* ends when none is left.                                                 *)
THEOREM PoolCorrect ==
  ASSUME BoundedUse PROVE Spec => IsJobPool
<1>1. Init => Pool!Init
  <2> SUFFICES ASSUME Init PROVE Pool!Init
    OBVIOUS
  <2> QED BY DEF Init, Pool!Init
<1>2. ASSUME JobsInv, [Next]_vars
      PROVE  Pool!Next \/ UNCHANGED <<Active, Pending, ran, Waiters>>
  <2>1. CASE UNCHANGED vars
    BY <2>1 DEF vars, life, ghosts, Active, Pending, Waiters
  <2>2. CASE phase # "crashed" /\ Next /\ Active /\ Active'
    <3>1. Pool!Next \/ UNCHANGED <<Pending, Waiters, ran>>
      <4>1. CASE UNCHANGED <<pc, ghosts>>
        BY <4>1 DEF ghosts, Pending, Waiters
      <4>2. Lifecycle \/ (\E t \in Threads : Call(t)) \/ (\E w \in Workers : MainLoop(w))
            \/ UNCHANGED <<pc, ghosts>>
        BY <2>2 DEF Next, SpuriousWakeup, vars
      <4> QED BY <1>2, <2>2, <4>1, <4>2, PoolLifecycleStep, PoolCallStep, PoolLoopStep
    <3> QED BY <2>2, <3>1
  <2>3. CASE ~Active'
    BY <2>3 DEF Pool!Next, Pool!Closed, Active
  <2>4. CASE phase # "crashed" /\ Next /\ ~Active
    BY <1>2, <2>3, <2>4, ActiveBefore DEF JobsInv, IInv
  <2> QED BY <1>2, <2>1, <2>2, <2>3, <2>4 DEF Next
<1>3. JobsInv /\ [Next]_vars =>
        [Pool!Next]_<<cycles = 0 /\ phase \in {"down", "setup", "up"},
                      {j \in 1 .. submitted : ran[j] = 0}, ran,
                      {t \in Threads : pc[t] \in {"wait", "wait_sleep"}}>>
  BY <1>2 DEF Active, Pending, Waiters, WaitPcs
<1> QED BY <1>1, <1>3, JobsAlways, PTL DEF Spec, IsJobPool, Pool!Spec
=============================================================================
