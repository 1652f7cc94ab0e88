------------------------------ MODULE JobSystem ------------------------------
(***************************************************************************)
(* The job system of src/threading/job_system.cpp: one thread sets it up   *)
(* and shuts it down, any thread queues jobs and waits for idleness, and   *)
(* worker_count threads run the jobs, each from a ring of its own.         *)
(*                                                                         *)
(* Grain of atomicity.  A lock .. unlock section that only touches data    *)
(* every thread touches under the mutex is one action.  queue_index and    *)
(* running_index are also read (line 180) and written (lines 70-71, 88-89) *)
(* without the mutex: each access to them is a step of its own, inside a   *)
(* locked section too.  In the comparisons of lines 172 and 180 the model  *)
(* loads queue_index first; loading running_index first adds no outcome,   *)
(* since deinit() writes queue_index before running_index.                 *)
(***************************************************************************)
EXTENDS Integers, FiniteSets

CONSTANTS
  Main,             \* the thread that calls job_system_setup / _shutdown
  Clients,          \* further threads that call job_system_queue / _wait_idle
  NoThread,         \* owner of a mutex nobody holds
  CpuCores,         \* what threading_get_cpu_cores() answers
  MaxWorkers,       \* JOB_SYSTEM_MAX_WORKERS
  RingSize,         \* JOB_SYSTEM_MAX_JOBS
  JobLimit,         \* bound: jobs queued in a behaviour
  CycleLimit,       \* bound: setups in a behaviour
  BoundedUse,       \* callers never queue into a ring with RingSize - 1 jobs
  JobsMayQueue,     \* job functions may call job_system_queue
  JobsMayWait,      \* job functions may call job_system_wait_idle
  ThreadRunMayFail, \* CreateThread may fail
  SpuriousWakeups   \* a condition variable may wake without a broadcast

int32_min(x, y) == IF x < y THEN x ELSE y
int32_max(x, y) == IF x > y THEN x ELSE y

(* The worker count init(requestWorkers) computes; setup requests -1.      *)
WorkersFor(requestWorkers) ==
  LET thread_count == int32_max(1, CpuCores)
  IN  IF requestWorkers <= 0 THEN thread_count
      ELSE int32_min(thread_count, int32_min(requestWorkers, MaxWorkers))
worker_count == WorkersFor(-1)

Workers == 0 .. worker_count - 1    \* threads and, independently, rings
Callers == Clients \cup {Main}
Threads == Workers \cup Callers
Indices == 0 .. RingSize - 1
JobIds  == 1 .. JobLimit
NoJob   == 0                        \* Job{}: func is null
NoRing  == -1
MaxRuns == 2                        \* bound: ran is 0, 1 or "more than once"

ASSUME ConstantsAssumption ==
  /\ CpuCores \in Int /\ MaxWorkers \in Nat \ {0} /\ RingSize \in Nat \ {0, 1}
  /\ JobLimit \in Nat /\ CycleLimit \in Nat
  /\ Main \notin Clients /\ Main \notin Int /\ Clients \cap Int = {}
  /\ NoThread \notin Threads
  /\ {BoundedUse, JobsMayQueue, JobsMayWait, ThreadRunMayFail, SpuriousWakeups} \subseteq BOOLEAN

VARIABLES
  jobs, queue_index, running_index,   \* per ring: entries, next free, next to take
  current_worker_index,               \* ring of the next job, or of the next worker
  idle_worker_count, running,
  mutex,                              \* the thread inside the critical section
  idle_signal, queue_signal,          \* the threads asleep on each condition variable
  sync_live,                          \* the mutex is initialised and not yet released
  pc,                                 \* where each thread is
  worker_index, job,                  \* per worker: main_loop's locals, ring and job
  reg,                                \* per thread: what its last load of an index got
  i,                                  \* the loop counter of init() and deinit()
  phase,                              \* the lifecycle call Main is in, or between
  cycles, submitted, placed, ran      \* history: shutdowns, jobs queued, the ring
                                      \* each went to, how often each ran

ring   == <<jobs, queue_index, running_index>>
counts == <<current_worker_index, idle_worker_count, running>>
sync   == <<mutex, idle_signal, queue_signal, sync_live>>
locals == <<worker_index, job, reg>>
life   == <<i, phase, cycles>>
ghosts == <<submitted, placed, ran>>
vars   == <<ring, counts, sync, pc, locals, life, ghosts>>

LockedPcs == {"q_load", "q_store", "test", "test_cmp", "pop_load", "pop_store"}
WorkerPcs == LockedPcs \cup {"off", "start", "loop", "idle_lock", "sleep", "drain",
               "drain_cmp", "pop_lock", "run", "q_signal", "wait_sleep", "exit_lock",
               "exited"}
CallerPcs == {"ready", "q_load", "q_store", "q_signal", "wait", "wait_sleep"}
MainPcs   == CallerPcs \cup {"init_q", "init_r", "init_run", "bcast", "deinit_q",
               "deinit_r", "deinit_join", "release"}

At(t, label)      == pc[t] = label
Goto(t, label)    == pc' = [pc EXCEPT ![t] = label]
Move(t, from, to) == At(t, from) /\ Goto(t, to)
Load(t, value)    == reg' = [reg EXCEPT ![t] = value]

(* A definition named "...Mutant" is what a plausible bug would make of    *)
(* the one that follows it; the specification never uses it.               *)
NextIndexMutant(k) == k + 1
NextIndex(k)       == (k + 1) % RingSize

NextRingMutant(s) == s
NextRing(s)       == (s + 1) % worker_count

(* Where a caller is between calls: a worker calls from inside a job.      *)
Home(t) == IF t \in Workers THEN "run" ELSE "ready"

Init ==
  /\ jobs = [s \in Workers |-> [k \in Indices |-> NoJob]]
  /\ queue_index = [s \in Workers |-> 0] /\ running_index = [s \in Workers |-> 0]
  /\ current_worker_index = 0 /\ idle_worker_count = 0 /\ running = FALSE
  /\ mutex = NoThread /\ sync_live = FALSE
  /\ idle_signal = {} /\ queue_signal = {}
  /\ pc = [t \in Threads |-> IF t \in Workers THEN "off" ELSE "ready"]
  /\ worker_index = [w \in Workers |-> NoRing] /\ job = [w \in Workers |-> NoJob]
  /\ reg = [t \in Threads |-> 0]
  /\ i = 0 /\ phase = "down" /\ cycles = 0
  /\ submitted = 0 /\ placed = [j \in JobIds |-> NoRing] /\ ran = [j \in JobIds |-> 0]

-----------------------------------------------------------------------------
(* The critical section and the condition variables.                       *)

LockMutant(t) == mutex' = t
Lock(t)       == mutex = NoThread /\ mutex' = t
Unlock(t)     == mutex' = NoThread
LockFree      == mutex = NoThread /\ UNCHANGED mutex   \* lock .. unlock in one step

(* Broadcasts.  The second mutant wakes one sleeper instead of all.        *)
WakeWaitersMutant == UNCHANGED idle_signal
WakeWaiters       == idle_signal' = {}

WakeWorkersMutant == UNCHANGED queue_signal
WakeOneMutant     == \/ queue_signal = {} /\ UNCHANGED queue_signal
                     \/ \E w \in queue_signal : queue_signal' = queue_signal \ {w}
WakeWorkers       == queue_signal' = {}

SpuriousWakeup(t) ==
  /\ SpuriousWakeups /\ t \in idle_signal \cup queue_signal
  /\ idle_signal' = idle_signal \ {t} /\ queue_signal' = queue_signal \ {t}
  /\ UNCHANGED <<ring, counts, mutex, sync_live, pc, locals, life, ghosts>>

-----------------------------------------------------------------------------
(* The lifecycle calls of Main: init(-1) and deinit().                     *)

BeginSetup ==
  /\ phase = "down" /\ cycles < CycleLimit
  /\ mutex' = NoThread /\ idle_signal' = {} /\ queue_signal' = {} /\ sync_live' = TRUE
  /\ running' = TRUE /\ idle_worker_count' = 0
  /\ Goto(Main, "init_q") /\ i' = 0 /\ phase' = "setup"
  /\ UNCHANGED <<ring, current_worker_index, locals, cycles, ghosts>>

(* The writes of init() and deinit() to ring i, made without the mutex.    *)
ResetQueueIndex ==
  /\ Move(Main, "init_q", "init_r") \/ Move(Main, "deinit_q", "deinit_r")
  /\ queue_index' = [queue_index EXCEPT ![i] = 0]
  /\ UNCHANGED <<jobs, running_index, counts, sync, locals, life, ghosts>>

ResetRunningIndex ==
  /\ Move(Main, "init_r", "init_run") \/ Move(Main, "deinit_r", "deinit_join")
  /\ running_index' = [running_index EXCEPT ![i] = 0]
  /\ UNCHANGED <<jobs, queue_index, counts, sync, locals, life, ghosts>>

Last  == i + 1 = worker_count
NextI == i' = IF Last THEN 0 ELSE i + 1

(* init() ignores the result of thread_run.                                *)
RunThread ==
  /\ At(Main, "init_run")
  /\ \E created \in {"start"} \cup (IF ThreadRunMayFail THEN {"off"} ELSE {}) :
       pc' = [pc EXCEPT ![Main] = IF Last THEN "wait" ELSE "init_q", ![i] = created]
  /\ NextI
  /\ UNCHANGED <<ring, counts, sync, locals, phase, cycles, ghosts>>

(* Use: no client is inside a call when job_system_shutdown is called.     *)
BeginShutdown ==
  /\ phase = "up" /\ \A t \in Callers : At(t, "ready")
  /\ LockFree
  /\ running' = FALSE
  /\ Goto(Main, "bcast") /\ phase' = "stopping"
  /\ UNCHANGED <<ring, current_worker_index, idle_worker_count, idle_signal,
                 queue_signal, sync_live, locals, i, cycles, ghosts>>

BroadcastShutdown ==
  /\ Move(Main, "bcast", "deinit_q")
  /\ WakeWorkers
  /\ UNCHANGED <<ring, counts, mutex, idle_signal, sync_live, locals, life, ghosts>>

TerminatedMutant(w) == TRUE
Terminated(w)       == pc[w] \in {"exited", "off"}

(* thread_join(&worker_threads[i]) returns once thread i has terminated.   *)
JoinWorker ==
  /\ At(Main, "deinit_join") /\ Terminated(i)
  /\ pc' = [pc EXCEPT ![Main] = IF Last THEN "release" ELSE "deinit_q", ![i] = "off"]
  /\ worker_index' = [worker_index EXCEPT ![i] = NoRing]   \* its locals are gone
  /\ NextI
  /\ UNCHANGED <<ring, counts, sync, job, reg, phase, cycles, ghosts>>

ReleaseSync ==
  /\ Move(Main, "release", "ready")
  /\ sync_live' = FALSE
  /\ phase' = "down" /\ cycles' = cycles + 1
  /\ UNCHANGED <<ring, counts, mutex, idle_signal, queue_signal, locals, i, ghosts>>

-----------------------------------------------------------------------------
(* The calls between setup and shutdown.                                   *)

MayCall(t)  == t \in Callers /\ At(t, "ready") /\ phase = "up"
InJob(t)    == t \in Workers /\ At(t, "run") /\ job[t] # NoJob
MayQueue(t) == MayCall(t) \/ (InJob(t) /\ JobsMayQueue)
MayWait(t)  == MayCall(t) \/ (InJob(t) /\ JobsMayWait)

(* A guard on the caller, not in the code: queue_job never looks.          *)
RingFull(s) == NextIndex(queue_index[s]) = running_index[s]

QueueStore(t) ==
  /\ MayQueue(t) /\ submitted < JobLimit
  /\ BoundedUse => ~RingFull(current_worker_index)
  /\ Lock(t)
  /\ submitted' = submitted + 1
  /\ jobs' = [jobs EXCEPT ![current_worker_index]
                            [queue_index[current_worker_index]] = submitted']
  /\ placed' = [placed EXCEPT ![submitted'] = current_worker_index]
  /\ Goto(t, "q_load")
  /\ UNCHANGED <<queue_index, running_index, counts, idle_signal, queue_signal,
                 sync_live, locals, life, ran>>

(* Line 145 is a load and a store of queue_index.                          *)
QueueLoad(t) ==
  /\ Move(t, "q_load", "q_store")
  /\ Load(t, queue_index[current_worker_index])
  /\ UNCHANGED <<ring, counts, sync, worker_index, job, life, ghosts>>

QueueAdvance(t) ==
  /\ Move(t, "q_store", "q_signal")
  /\ queue_index' = [queue_index EXCEPT ![current_worker_index] = NextIndex(reg[t])]
  /\ current_worker_index' = NextRing(current_worker_index)
  /\ Load(t, 0) /\ Unlock(t)
  /\ UNCHANGED <<jobs, running_index, idle_worker_count, running, idle_signal,
                 queue_signal, sync_live, worker_index, job, life, ghosts>>

QueueBroadcast(t) ==
  /\ Move(t, "q_signal", Home(t))
  /\ WakeWorkers
  /\ UNCHANGED <<ring, counts, mutex, idle_signal, sync_live, locals, life, ghosts>>

(* is_idle_non_locking()                                                   *)
IsIdleMutant == (\A s \in Workers : queue_index[s] = running_index[s]) \/ ~running
IsIdle == \/ /\ \A s \in Workers : queue_index[s] = running_index[s]
             /\ idle_worker_count = worker_count
          \/ ~running

(* wait_idle(): one turn of its loop under the mutex.  A call that finds   *)
(* the system idle changes nothing; init() ends with such a wait.          *)
Waiting(t) == At(t, "wait") \/ (At(t, "wait_sleep") /\ t \notin idle_signal)

WaitSleep(t) ==
  /\ MayWait(t) \/ Waiting(t)
  /\ LockFree /\ ~IsIdle
  /\ idle_signal' = idle_signal \cup {t}
  /\ Goto(t, "wait_sleep")
  /\ UNCHANGED <<ring, counts, queue_signal, sync_live, locals, life, ghosts>>

WaitReturn(t) ==
  /\ Waiting(t)
  /\ LockFree /\ IsIdle
  /\ Goto(t, Home(t))
  /\ phase' = IF t = Main /\ phase = "setup" THEN "up" ELSE phase
  /\ UNCHANGED <<ring, counts, idle_signal, queue_signal, sync_live, locals, i, cycles,
                 ghosts>>

-----------------------------------------------------------------------------
(* main_loop(), and what runs before it.                                   *)

(* init() hands thread_run worker_threads[i].func, which nobody has set,   *)
(* and not thread_func: every thread may find its entry null.  ClaimRing   *)
(* follows a thread whose entry is main_loop, as init() intends.           *)
CallNullEntry(w) ==
  /\ At(w, "start")
  /\ phase' = "crashed"
  /\ UNCHANGED <<ring, counts, sync, pc, locals, i, cycles, ghosts>>

ClaimRing(w) ==
  /\ Move(w, "start", "loop")
  /\ LockFree
  /\ worker_index' = [worker_index EXCEPT ![w] = current_worker_index]
  /\ current_worker_index' = NextRing(current_worker_index)
  /\ UNCHANGED <<ring, idle_worker_count, running, idle_signal, queue_signal, sync_live,
                 job, reg, life, ghosts>>

TestRunning(w) ==
  /\ Move(w, "loop", IF running THEN "idle_lock" ELSE "exit_lock")
  /\ UNCHANGED <<ring, counts, sync, locals, life, ghosts>>

CountIdleMutant(d) == idle_worker_count' = idle_worker_count + int32_max(d, 0)
CountIdle(d)       == idle_worker_count' = idle_worker_count + d

BecomeIdle(w) ==
  /\ Move(w, "idle_lock", "test")
  /\ Lock(w)
  /\ CountIdle(1)
  /\ UNCHANGED <<ring, current_worker_index, running, idle_signal, queue_signal,
                 sync_live, locals, life, ghosts>>

(* Lines 177-178: leave the inner loop and unlock.                         *)
LeaveIdle(w) ==
  /\ Goto(w, "drain")
  /\ CountIdle(-1)
  /\ Unlock(w)
  /\ UNCHANGED <<idle_signal, queue_signal>>

(* Line 172, running and the load of queue_index.                          *)
TestQueue(w) ==
  /\ At(w, "test")
  /\ \/ /\ running
        /\ Load(w, queue_index[worker_index[w]])
        /\ Goto(w, "test_cmp")
        /\ UNCHANGED <<idle_worker_count, mutex, idle_signal, queue_signal>>
     \/ ~running /\ LeaveIdle(w) /\ UNCHANGED reg
  /\ UNCHANGED <<ring, current_worker_index, running, sync_live, worker_index, job,
                 life, ghosts>>

(* The comparison of the index loaded before with running_index.           *)
HasJobMutant(w) == TRUE
HasJob(w)       == reg[w] # running_index[worker_index[w]]

(* Line 172, the load of running_index: sleep (lines 174-175) or leave.    *)
CompareIdle(w) ==
  /\ At(w, "test_cmp") /\ Load(w, 0)
  /\ \/ /\ ~HasJob(w)
        /\ WakeWaiters /\ queue_signal' = queue_signal \cup {w}
        /\ Unlock(w)
        /\ Goto(w, "sleep")
        /\ UNCHANGED idle_worker_count
     \/ HasJob(w) /\ LeaveIdle(w)
  /\ UNCHANGED <<ring, current_worker_index, running, sync_live, worker_index, job,
                 life, ghosts>>

WakeUp(w) ==
  /\ Move(w, "sleep", "test") /\ w \notin queue_signal
  /\ Lock(w)
  /\ UNCHANGED <<ring, counts, idle_signal, queue_signal, sync_live, locals, life, ghosts>>

(* Line 180, without the mutex: two loads.                                 *)
LoadQueue(w) ==
  /\ Move(w, "drain", "drain_cmp")
  /\ Load(w, queue_index[worker_index[w]])
  /\ UNCHANGED <<ring, counts, sync, worker_index, job, life, ghosts>>

CompareDrain(w) ==
  /\ Move(w, "drain_cmp", IF HasJob(w) THEN "pop_lock" ELSE "loop")
  /\ Load(w, 0)
  /\ UNCHANGED <<ring, counts, sync, worker_index, job, life, ghosts>>

TakeJob(w) ==
  /\ Move(w, "pop_lock", "pop_load")
  /\ Lock(w)
  /\ job' = [job EXCEPT ![w] = jobs[worker_index[w]][running_index[worker_index[w]]]]
  /\ UNCHANGED <<ring, counts, idle_signal, queue_signal, sync_live, worker_index, reg,
                 life, ghosts>>

(* Line 185 is a load and a store of running_index.                        *)
PopLoad(w) ==
  /\ Move(w, "pop_load", "pop_store")
  /\ Load(w, running_index[worker_index[w]])
  /\ UNCHANGED <<ring, counts, sync, worker_index, job, life, ghosts>>

PopAdvance(w) ==
  /\ Move(w, "pop_store", "run")
  /\ running_index' = [running_index EXCEPT ![worker_index[w]] = NextIndex(reg[w])]
  /\ Load(w, 0) /\ Unlock(w)
  /\ UNCHANGED <<jobs, queue_index, counts, idle_signal, queue_signal, sync_live,
                 worker_index, job, life, ghosts>>

(* Line 189: the job returns, or its function is null.                     *)
FinishJob(w) ==
  /\ job[w] # NoJob /\ Move(w, "run", "drain")
  /\ ran' = [ran EXCEPT ![job[w]] = int32_min(@ + 1, MaxRuns)]
  /\ job' = [job EXCEPT ![w] = NoJob]
  /\ UNCHANGED <<ring, counts, sync, worker_index, reg, life, submitted, placed>>

CallNullJob(w) ==
  /\ At(w, "run") /\ job[w] = NoJob
  /\ phase' = "crashed"
  /\ UNCHANGED <<ring, counts, sync, pc, locals, i, cycles, ghosts>>

ExitLoop(w) ==
  /\ Move(w, "exit_lock", "exited")
  /\ LockFree
  /\ CountIdle(1)
  /\ WakeWaiters
  /\ UNCHANGED <<ring, current_worker_index, running, queue_signal, sync_live, locals,
                 life, ghosts>>

-----------------------------------------------------------------------------
Lifecycle == \/ BeginSetup \/ RunThread
             \/ ResetQueueIndex \/ ResetRunningIndex
             \/ BeginShutdown \/ BroadcastShutdown \/ JoinWorker \/ ReleaseSync

Call(t) == \/ QueueStore(t) \/ QueueLoad(t) \/ QueueAdvance(t) \/ QueueBroadcast(t)
           \/ WaitSleep(t) \/ WaitReturn(t)

MainLoop(w) == \/ CallNullEntry(w) \/ ClaimRing(w) \/ TestRunning(w)
               \/ BecomeIdle(w) \/ TestQueue(w) \/ CompareIdle(w) \/ WakeUp(w)
               \/ LoadQueue(w) \/ CompareDrain(w)
               \/ TakeJob(w) \/ PopLoad(w) \/ PopAdvance(w)
               \/ FinishJob(w) \/ CallNullJob(w) \/ ExitLoop(w)

(* The process has crashed, or it has made its last shutdown.              *)
Stopped == \/ phase = "crashed"
           \/ phase = "down" /\ cycles = CycleLimit

Next == \/ /\ phase # "crashed"
           /\ \/ Lifecycle
              \/ \E t \in Threads : Call(t) \/ SpuriousWakeup(t)
              \/ \E w \in Workers : MainLoop(w)
        \/ Stopped /\ UNCHANGED vars

Spec == Init /\ [][Next]_vars

(* The scheduler runs every thread that can go on, and jobs return.  No    *)
(* thread has to begin a call.                                             *)
Fairness ==
  /\ WF_vars(phase # "crashed" /\ pc[Main] # "ready" /\ Lifecycle)
  /\ \A t \in Threads : WF_vars(phase # "crashed" /\ pc[t] \notin {"ready", "run"} /\ Call(t))
  /\ \A w \in Workers : WF_vars(phase # "crashed" /\ MainLoop(w))

FairSpec == Spec /\ Fairness

-----------------------------------------------------------------------------
RingOK ==
  /\ jobs \in [Workers -> [Indices -> JobIds \cup {NoJob}]]
  /\ queue_index \in [Workers -> Indices] /\ running_index \in [Workers -> Indices]

CountOK ==
  current_worker_index \in Workers /\ idle_worker_count \in Int /\ running \in BOOLEAN

SyncOK ==
  /\ mutex \in Threads \cup {NoThread} /\ sync_live \in BOOLEAN
  /\ idle_signal \subseteq Threads /\ queue_signal \subseteq Workers

PcOK ==
  /\ pc \in [Threads -> WorkerPcs \cup MainPcs]
  /\ \A w \in Workers : pc[w] \in WorkerPcs
  /\ \A c \in Clients : pc[c] \in CallerPcs
  /\ pc[Main] \in MainPcs

LocalsOK ==
  /\ worker_index \in [Workers -> Workers \cup {NoRing}]
  /\ job \in [Workers -> JobIds \cup {NoJob}]
  /\ reg \in [Threads -> Indices]

LifeOK ==
  i \in Workers /\ cycles \in Nat /\ phase \in {"down", "setup", "up", "stopping", "crashed"}

HistoryOK ==
  /\ submitted \in 0 .. JobLimit
  /\ placed \in [JobIds -> Workers \cup {NoRing}] /\ ran \in [JobIds -> 0 .. MaxRuns]

(* Every variable has its type: the indices stay inside their rings, the   *)
(* threads at the points of their own code.                                *)
TypeOK == RingOK /\ CountOK /\ SyncOK /\ PcOK /\ LocalsOK /\ LifeOK /\ HistoryOK

(* No two workers own the same ring: each job has one taker, although init *)
(* and queue_job advance the same current_worker_index, and although a     *)
(* second setup starts from wherever the first one left it.                *)
DistinctRings ==
  \A v, w \in Workers : v # w /\ worker_index[v] = worker_index[w] => worker_index[v] = NoRing

(* idle_worker_count is the number of workers inside the waiting section,  *)
(* at every step, locked or not: is_idle() relies on it.                   *)
IdlePcs == {"test", "test_cmp", "sleep"}
IdleCountExact ==
  phase \in {"setup", "up"} =>
    idle_worker_count = Cardinality({w \in Workers : pc[w] \in IdlePcs})

(* Before the first shutdown: what deinit() writes is not yet in play.     *)
Undisturbed == cycles = 0 /\ phase \in {"setup", "up"}

Window(s) == {k \in Indices : (k - running_index[s]) % RingSize
                                < (queue_index[s] - running_index[s]) % RingSize}

(* A job that queue_job accepted is, whenever nobody is in the critical    *)
(* section, in exactly one place: once in the live part of its ring, taken *)
(* by one worker, or run once.                                             *)
JobConservation ==
  Undisturbed /\ mutex = NoThread =>
    \A j \in 1 .. submitted :
        Cardinality({k \in Window(placed[j]) : jobs[placed[j]][k] = j})
      + Cardinality({w \in Workers : job[w] = j}) + ran[j] = 1

(* When is_idle() answers true, and so when wait_idle() returns, every job *)
(* queued so far has run to its end.                                       *)
IdleMeansDone ==
  Undisturbed /\ mutex = NoThread /\ IsIdle => \A j \in 1 .. submitted : ran[j] = 1

(* Jobs of one ring run in the order they were queued.                     *)
RingOrder ==
  Undisturbed => \A j, k \in 1 .. submitted :
    j < k /\ placed[j] = placed[k] /\ ran[k] > 0 => ran[j] > 0

(* A worker only takes a job that was queued and has not run yet.          *)
TakesQueuedJob ==
  \A w \in Workers : pc[w] = "run" => job[w] # NoJob /\ ran[job[w]] = 0

(* Before the first shutdown begins a worker only ever takes a job that    *)
(* was queued and has not run, and so calls no null function of a job,     *)
(* although it looks at its ring without the mutex.                        *)
TakesUntilShutdown == Undisturbed => TakesQueuedJob

(* A job that calls job_system_wait_idle waits for itself: its worker is   *)
(* not idle while it waits, so no broadcast ever lets it go on, only the   *)
(* end of running does.                                                    *)
JobsWaitInVain ==
  [][\A w \in Workers : At(w, "wait_sleep") /\ pc'[w] # "wait_sleep" => ~running]_vars

(* Until the first shutdown begins the job system is a pool: each job that *)
(* was queued runs once, and a call of wait_idle that had to sleep returns *)
(* only when all have.                                                     *)
Pool == INSTANCE JobPool WITH
          open    <- cycles = 0 /\ phase \in {"down", "setup", "up"},
          pending <- {j \in 1 .. submitted : ran[j] = 0},
          runs    <- ran,
          waiting <- {t \in Threads : pc[t] \in {"wait", "wait_sleep"}}

IsJobPool == Pool!Spec

(* The mutex and the signals are released only when every worker thread    *)
(* has terminated and no caller is inside a call ("must be alive long      *)
(* enough before worker threads done").                                    *)
ReleasedWhenUnused ==
  ~sync_live => mutex = NoThread /\ idle_signal \cup queue_signal = {}
                /\ \A t \in Threads : pc[t] \in {"off", "ready"}

(* job_system_setup returns only once every worker thread exists, runs     *)
(* main_loop and has a ring, whatever thread_run did.                      *)
UpMeansAllClaimed ==
  phase = "up" => \A w \in Workers : worker_index[w] # NoRing /\ pc[w] \notin {"off", "start"}

-----------------------------------------------------------------------------
(* init() waits for a worker it failed to start: main_loop never counts it *)
(* idle, so the setup does not return.                                     *)
ThreadMissing ==
  phase = "setup" /\ pc[Main] \in {"wait", "wait_sleep"} /\ \E w \in Workers : At(w, "off")

(* Setup returns once every worker it needs has been created: the workers' *)
(* broadcasts of line 174 wake init()'s wait when the last one is idle.    *)
SetupReturns == phase = "setup" ~> phase \in {"up", "crashed"} \/ ThreadMissing

(* Shutdown returns (or a worker ran into a null job): workers asleep,     *)
(* about to sleep and inside jobs all notice that running is false.        *)
ShutdownReturns == phase = "stopping" ~> phase \in {"down", "crashed"}

(* The broadcast of line 151, sent after the mutex is released, is not     *)
(* lost: a queued job is run, unless a shutdown begins.                    *)
QueuedJobsRun ==
  \A j \in JobIds :
    cycles = 0 /\ submitted >= j ~> ran[j] > 0 \/ ~running \/ phase = "crashed"

(* A thread asleep in wait_idle comes back: the last worker to become idle *)
(* wakes it, although the workers broadcast before they know they are last.*)
WaitersReturn ==
  \A t \in Callers : pc[t] \in {"wait", "wait_sleep"} ~>
                       pc[t] = "ready" \/ phase = "crashed" \/ ThreadMissing
=============================================================================
