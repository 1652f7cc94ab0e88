--------------------------- MODULE ThreadSemaphore ---------------------------
(***************************************************************************)
(* The semaphore of src/threading/Windows/thread_functions_windows.cpp: a  *)
(* count behind a mutex and a condition variable.  post blocks while the   *)
(* count is 1 and wait while it is not positive; neither signals.  Every   *)
(* access to the count is under the mutex, so a section is one action;     *)
(* only its holder's name is kept, because try_wait gives up when the      *)
(* mutex is held.                                                          *)
(***************************************************************************)
EXTENDS Integers, FiniteSets

CONSTANTS
  Threads,         \* the threads that use the semaphore
  NoThread,        \* owner of a mutex nobody holds
  InitialCounts,   \* the counts thread_semaphore_init is called with
  PostLimit,       \* bound: posts in a behaviour
  SpuriousWakeups  \* the condition variable may wake without a signal

ASSUME SemaphoreAssumption ==
  /\ NoThread \notin Threads /\ InitialCounts \subseteq Nat
  /\ PostLimit \in Nat /\ SpuriousWakeups \in BOOLEAN

VARIABLES count, mutex, signal,   \* signal: the threads asleep on it
          call,                   \* the call each thread is in
          initial, posted, taken  \* history: first count, calls that changed it

sem  == <<count, mutex, signal>>
hist == <<initial, posted, taken>>
vars == <<sem, call, hist>>

Calls == {"post", "wait", "try_wait"}

(* thread_semaphore_init                                                   *)
Init == /\ initial \in InitialCounts /\ count = initial
        /\ mutex = NoThread /\ signal = {}
        /\ call = [t \in Threads |-> "none"]
        /\ posted = 0 /\ taken = 0

Begin(t, op) == /\ call[t] = "none" /\ call' = [call EXCEPT ![t] = op]
                /\ op = "post" => posted + Cardinality({u \in Threads : call[u] = "post"}) < PostLimit
                /\ UNCHANGED <<sem, hist>>

Return(t) == mutex' = NoThread /\ call' = [call EXCEPT ![t] = "none"]

(* A thread about to enter the section: it has called, or it was woken.    *)
Enter(t) == /\ call[t] \in Calls /\ mutex = NoThread /\ t \notin signal
            /\ mutex' = t
            /\ UNCHANGED <<count, signal, call, hist>>

(* A definition named "...Mutant" is what a plausible bug would make of    *)
(* the one that follows it; the specification never uses it.               *)
PostBlocksMutant == count = 2
PostBlocks       == count = 1
WaitBlocksMutant == count < 0
WaitBlocks       == count <= 0

Inside(t, op) == mutex = t /\ call[t] = op

BlockedMutant(t) == mutex = t /\ count = 0
Blocked(t)       == \/ Inside(t, "post") /\ PostBlocks
                    \/ Inside(t, "wait") /\ WaitBlocks

(* thread_signal_wait: asleep, and the mutex released, in one step.        *)
Sleep(t) == /\ Blocked(t)
            /\ mutex' = NoThread /\ signal' = signal \cup {t}
            /\ UNCHANGED <<count, call, hist>>

(* Post and Wait leave without a thread_signal_send.                       *)
Post(t) == /\ Inside(t, "post") /\ ~PostBlocks
           /\ count' = count + 1 /\ posted' = posted + 1
           /\ Return(t)
           /\ UNCHANGED <<signal, initial, taken>>

Wait(t) == /\ Inside(t, "wait") /\ ~WaitBlocks
           /\ count' = count - 1 /\ taken' = taken + 1
           /\ Return(t)
           /\ UNCHANGED <<signal, initial, posted>>

(* try_wait asks count == 0 where wait asks count <= 0.                    *)
TryWait(t) == /\ Inside(t, "try_wait")
              /\ IF count = 0 THEN UNCHANGED <<count, taken>>
                              ELSE count' = count - 1 /\ taken' = taken + 1
              /\ Return(t)
              /\ UNCHANGED <<signal, initial, posted>>

(* thread_mutex_try_lock fails: somebody is inside.                        *)
GiveUp(t) == /\ call[t] = "try_wait" /\ mutex \notin {NoThread, t}
             /\ call' = [call EXCEPT ![t] = "none"]
             /\ UNCHANGED <<sem, hist>>

WakeUp(t) == /\ SpuriousWakeups /\ t \in signal
             /\ signal' = signal \ {t}
             /\ UNCHANGED <<count, mutex, call, hist>>

Serve(t) == Enter(t) \/ Sleep(t) \/ Post(t) \/ Wait(t) \/ TryWait(t) \/ GiveUp(t)

(* The system may stop: every thread may end up asleep.                    *)
Next == \E t \in Threads : \/ \E op \in Calls : Begin(t, op)
                           \/ Serve(t) \/ WakeUp(t)

Spec == Init /\ [][Next]_vars

(* A thread that can go on inside a call does.                             *)
FairSpec == Spec /\ \A t \in Threads : WF_vars(Serve(t))

-----------------------------------------------------------------------------
TypeOK == /\ count \in Int /\ initial \in InitialCounts
          /\ posted \in Nat /\ taken \in Nat
          /\ mutex \in Threads \cup {NoThread} /\ signal \subseteq Threads
          /\ call \in [Threads -> Calls \cup {"none"}]

(* No unit is taken twice and none is made up: what was put in and not     *)
(* taken out is what the count says, and it is never overdrawn, although   *)
(* wait and try_wait test the count differently.                           *)
Balance == count = initial + posted - taken /\ count >= 0

(* A semaphore made with a count of 0 or 1 stays binary: the posts beyond  *)
(* block instead of adding up.  One made with more is not held back.       *)
Binary == initial <= 1 => count <= 1

(* try_wait never blocks, whatever the other threads do, also while all    *)
(* others sleep on the semaphore.                                          *)
TryWaitReturns == \A t \in Threads : call[t] = "try_wait" ~> call[t] = "none"
=============================================================================
