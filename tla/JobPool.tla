------------------------------- MODULE JobPool -------------------------------
(***************************************************************************)
(* What the job system promises its callers, from its setup to the moment  *)
(* a shutdown begins: jobs go into a pool and leave it by being run, each  *)
(* once, and whoever waits for idleness waits until the pool is empty.     *)
(***************************************************************************)
EXTENDS Naturals

CONSTANTS JobIds, Threads

VARIABLES
  open,     \* no shutdown has begun
  pending,  \* the jobs accepted and not yet run
  runs,     \* how often each job was run
  waiting   \* the threads asleep in a call that waits for idleness

Init == /\ open = TRUE /\ pending = {} /\ waiting = {}
        /\ runs = [j \in JobIds |-> 0]

Submit(j) == /\ j \notin pending /\ runs[j] = 0
             /\ pending' = pending \cup {j}
             /\ UNCHANGED <<runs, waiting>>

Run(j) == /\ j \in pending
          /\ pending' = pending \ {j} /\ runs' = [runs EXCEPT ![j] = @ + 1]
          /\ UNCHANGED waiting

BeginWait(t) == /\ t \notin waiting /\ waiting' = waiting \cup {t}
                /\ UNCHANGED <<pending, runs>>

EndWait(t) == /\ t \in waiting /\ pending = {} /\ waiting' = waiting \ {t}
              /\ UNCHANGED <<pending, runs>>

Use == /\ open' = open
       /\ \/ \E j \in JobIds : Submit(j) \/ Run(j)
          \/ \E t \in Threads : BeginWait(t) \/ EndWait(t)

(* A pool that is closed promises nothing.                                 *)
Closed == ~open'

Next == Use \/ Closed
Spec == Init /\ [][Next]_<<open, pending, runs, waiting>>
=============================================================================
