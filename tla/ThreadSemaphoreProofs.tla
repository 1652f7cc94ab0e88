------------------------ MODULE ThreadSemaphoreProofs ------------------------
(***************************************************************************)
(* The count of a semaphore, for any number of threads, any initial count  *)
(* and any number of posts.                                                *)
(***************************************************************************)
EXTENDS ThreadSemaphore, TLAPS

(* The invariant is inductive as it stands.                                *)
Inv == TypeOK /\ Balance /\ Binary

(* It holds at first.                                                      *)
LEMMA InitInv == Init => Inv
BY SemaphoreAssumption
DEF SemaphoreAssumption, Init, Inv, TypeOK, Balance, Binary, Calls

(* Every step keeps it: each section changes the count and the history     *)
(* together, and posts only below 1 or from above.                         *)
LEMMA NextInv == Inv /\ [Next]_vars => Inv'
<1> SUFFICES ASSUME Inv, [Next]_vars PROVE Inv'
  OBVIOUS
<1> USE SemaphoreAssumption DEF SemaphoreAssumption, Inv, TypeOK, Balance, Binary, Calls
<1>1. CASE UNCHANGED vars
  BY <1>1 DEF vars, sem, hist
<1>2. ASSUME NEW t \in Threads,
             \/ \E op \in Calls : Begin(t, op)
             \/ Enter(t) \/ Sleep(t) \/ GiveUp(t) \/ WakeUp(t)
      PROVE Inv'
  BY <1>2 DEF Begin, Enter, Sleep, GiveUp, WakeUp, sem, hist
<1>3. ASSUME NEW t \in Threads, Post(t) PROVE Inv'
  BY <1>3 DEF Post, PostBlocks, Return
<1>4. ASSUME NEW t \in Threads, Wait(t) PROVE Inv'
  BY <1>4 DEF Wait, WaitBlocks, Return
<1>5. ASSUME NEW t \in Threads, TryWait(t) PROVE Inv'
  BY <1>5 DEF TryWait, Return
<1> QED BY <1>1, <1>2, <1>3, <1>4, <1>5 DEF Next, Serve

(* No unit is taken twice or made up, however the calls interleave.        *)
THEOREM BalanceCorrect == Spec => []Balance
<1>1. Inv => Balance
  BY DEF Inv
<1> QED BY InitInv, NextInv, <1>1, PTL DEF Spec

(* Posts never raise a semaphore made with 0 or 1 above 1.                 *)
THEOREM BinaryCorrect == Spec => []Binary
<1>1. Inv => Binary
  BY DEF Inv
<1> QED BY InitInv, NextInv, <1>1, PTL DEF Spec
=============================================================================
