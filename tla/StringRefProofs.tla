--------------------------- MODULE StringRefProofs ---------------------------
(***************************************************************************)
(* The life of a reference-counted string in both branches of atomic_ops.h *)
(* and for any number of references, however the calls overlap, until an   *)
(* exchange of the Windows branch loses an update.                         *)
(***************************************************************************)
EXTENDS StringRef, FiniteSetTheorems, TLAPS

(* The call that will free the buffer: its decrement answered 0.           *)
Freeing(r) == pc[r] = "free_test" /\ Last(r)

(* Only the Windows branch reads before it writes.  The buffer is live     *)
(* until the one call that brought the count to 0 has freed it, which only *)
(* happens where the subtraction answers the new one.                      *)
ReadInv == \A r \in Refs : pc[r] \in {"ref_exchange", "free_exchange"} => atomics # "gcc"
Exact   == memref = Cardinality(Counted)
HeapInv == /\ memref > 0 => heap = "live"
           /\ heap = "none" => frees = 0 /\ \A r \in Refs : pc[r] = "none"
           /\ heap = "live" => frees = 0
           /\ heap = "freed" => frees = 1
           /\ atomics = "gcc" /\ heap = "live" /\ memref = 0 =>
                \E r \in Refs : Freeing(r)
FreeInv == /\ \A r \in Refs : Freeing(r) => memref = 0 /\ heap = "live"
           /\ \A r, q \in Refs : Freeing(r) /\ Freeing(q) => r = q

(* The inductive invariant.                                                *)
Sound == TypeOK /\ ReadInv /\ Exact /\ HeapInv /\ FreeInv
IInv  == IF torn THEN atomics # "gcc" ELSE Sound

(* The number of counted references is a number, and 0 only for none.      *)
LEMMA CountedSize ==
  /\ IsFiniteSet(Counted) /\ Cardinality(Counted) \in Nat
  /\ Cardinality(Counted) = 0 <=> Counted = {}
<1>1. Counted \subseteq Refs
  BY DEF Counted
<1>2. IsFiniteSet(Counted)
  BY <1>1, StringAssumption, FS_Subset DEF StringAssumption
<1> QED BY <1>2, FS_CardinalityType, FS_EmptySet

(* The same in the next state.                                             *)
LEMMA CountedSizeNext ==
  /\ IsFiniteSet(Counted') /\ Cardinality(Counted') \in Nat
  /\ Cardinality(Counted') = 0 <=> Counted' = {}
<1>1. Counted' \subseteq Refs
  BY DEF Counted
<1>2. IsFiniteSet(Counted')
  BY <1>1, StringAssumption, FS_Subset DEF StringAssumption
<1> QED BY <1>2, FS_CardinalityType, FS_EmptySet

(* A reference that is taken adds one to the number.                       *)
LEMMA CountedGrows ==
  ASSUME NEW q \in Refs, q \notin Counted, Counted' = Counted \cup {q}
  PROVE  Cardinality(Counted') = Cardinality(Counted) + 1
BY CountedSize, FS_AddElement

(* A reference that is given back takes one from the number.               *)
LEMMA CountedShrinks ==
  ASSUME NEW q \in Refs, q \in Counted, Counted' = Counted \ {q}
  PROVE  Cardinality(Counted') = Cardinality(Counted) - 1
BY CountedSize, FS_RemoveElement

(* The invariant holds at first.                                           *)
LEMMA IInit == Init => IInv
<1> SUFFICES ASSUME Init PROVE Sound
  BY DEF Init, IInv
<1> USE DEF Init
<1>1. TypeOK
  <2>1. torn \in BOOLEAN
    OBVIOUS
  <2> QED BY <2>1 DEF TypeOK
<1>2. ReadInv
  BY DEF ReadInv
<1>3. Counted = {}
  BY DEF Counted, Touching
<1>4. Exact
  BY <1>3, CountedSize DEF Exact
<1>5. HeapInv
  BY DEF HeapInv
<1>6. FreeInv
  BY DEF FreeInv, Freeing
<1> QED BY <1>1, <1>2, <1>4, <1>5, <1>6 DEF Sound

(* Making the string.                                                      *)
LEMMA NewStep ==
  ASSUME ~torn', NEW r \in Refs, Sound, atomics' = atomics,
         New(r)
  PROVE  Sound'
<1> USE DEF New, Goto
<1>1. TypeOK'
  BY DEF Sound, TypeOK, Touching
<1>2. \A q \in Refs : pc[q] = "none"
  BY DEF Sound, HeapInv
<1>3. ReadInv'
  BY <1>2 DEF Sound, ReadInv, TypeOK
<1>4. Counted = {} /\ Counted' = Counted \cup {r}
  BY <1>2 DEF Sound, TypeOK, Counted, Touching
<1>5. Exact'
  <2>1. Cardinality(Counted) = 0
    BY <1>4, CountedSize
  <2>2. Cardinality(Counted') = Cardinality(Counted) + 1
    BY <1>4, CountedGrows
  <2>3. memref' = 1
    OBVIOUS
  <2> QED BY <2>1, <2>2, <2>3 DEF Exact
<1>6. HeapInv'
  BY DEF Sound, HeapInv
<1>7. FreeInv'
  BY <1>2 DEF Sound, TypeOK, FreeInv, Freeing
<1> QED BY <1>1, <1>3, <1>5, <1>6, <1>7 DEF Sound

(* Beginning a call: who holds what does not change.                       *)
LEMMA BeginStep ==
  ASSUME ~torn', NEW r \in Refs, Sound, atomics' = atomics,
         BeginRef(r) \/ BeginFree(r)
  PROVE  Sound'
<1> USE DEF BeginRef, BeginFree, Begin, Goto
<1>1. TypeOK'
  BY DEF Sound, TypeOK, Touching
<1>2. ReadInv'
  BY DEF Sound, ReadInv, TypeOK
<1>3. Counted' = Counted
  BY DEF Sound, TypeOK, Counted, Touching
<1>4. Exact'
  BY <1>3 DEF Sound, Exact
<1>5. \A q \in Refs : Freeing(q)' <=> Freeing(q)
  BY DEF Sound, TypeOK, Freeing, Last
<1>6. HeapInv'
  BY <1>5 DEF Sound, HeapInv
<1>7. FreeInv'
  BY <1>5 DEF Sound, FreeInv
<1> QED BY <1>1, <1>2, <1>4, <1>6, <1>7 DEF Sound

(* A reference under way is counted: the buffer is live, nobody frees it.  *)
LEMMA Referenced ==
  ASSUME NEW r \in Counted, Sound
  PROVE  memref > 0 /\ heap = "live" /\ \A q \in Refs : ~Freeing(q)
<1>1. memref > 0
  BY CountedSize DEF Sound, Exact
<1> QED BY <1>1 DEF Sound, HeapInv, FreeInv

(* The end of string_ref.                                                  *)
LEMMA AddStep ==
  ASSUME ~torn', NEW r \in Refs, NEW q \in Refs, Sound, atomics' = atomics,
         AtomicAdd(r, q)
  PROVE  Sound'
<1> USE DEF AtomicAdd, MadeFrom, Increment
<1>1. TypeOK'
  BY DEF Sound, TypeOK, Touching
<1>2. ReadInv'
  BY DEF Sound, ReadInv, TypeOK
<1>3. q \notin Counted
  BY DEF Counted, Touching
<1>4. r \in Counted
  BY DEF Counted, Touching
<1>5. Counted' = Counted \cup {q}
  BY DEF Sound, TypeOK, Counted, Touching
<1>6. Exact'
  BY <1>3, <1>5, CountedGrows DEF Sound, Exact
<1>7. memref > 0 /\ heap = "live" /\ \A p \in Refs : ~Freeing(p)
  BY <1>4, Referenced
<1>8. HeapInv'
  BY <1>7 DEF Sound, HeapInv, TypeOK
<1>9. \A p \in Refs : ~Freeing(p)'
  BY <1>7 DEF Sound, TypeOK, Freeing, Last
<1>10. FreeInv'
  BY <1>9 DEF FreeInv
<1> QED BY <1>1, <1>2, <1>6, <1>8, <1>10 DEF Sound

(* The decrement of string_free.                                           *)
LEMMA SubStep ==
  ASSUME ~torn', NEW r \in Refs, Sound, atomics' = atomics,
         AtomicSub(r)
  PROVE  Sound'
<1> USE DEF AtomicSub, Answer, See, Goto
<1>1. TypeOK'
  BY DEF Sound, TypeOK, Touching
<1>2. ReadInv'
  BY DEF Sound, ReadInv, TypeOK
<1>3. r \in Counted
  BY DEF Counted, Touching
<1>4. Counted' = Counted \ {r}
  BY DEF Sound, TypeOK, Counted, Touching
<1>5. Exact'
  BY <1>3, <1>4, CountedShrinks DEF Sound, Exact
<1>6. memref > 0 /\ heap = "live" /\ \A p \in Refs : ~Freeing(p)
  BY <1>3, Referenced
<1>7. memref \in Int /\ memref' = memref - 1 /\ heap' = "live"
  BY <1>6 DEF Sound, TypeOK
<1>8. Freeing(r)' <=> memref' = 0
  BY <1>6, <1>7 DEF Sound, TypeOK, Freeing, Last
<1>9. \A p \in Refs \ {r} : ~Freeing(p)'
  BY <1>6 DEF Sound, TypeOK, Freeing, Last
<1>10. HeapInv'
  BY <1>7, <1>8 DEF Sound, HeapInv
<1>11. FreeInv'
  BY <1>7, <1>8, <1>9 DEF FreeInv
<1> QED BY <1>1, <1>2, <1>5, <1>10, <1>11 DEF Sound

(* The test of string_free, and the free.                                  *)
LEMMA TestStep ==
  ASSUME ~torn', NEW r \in Refs, Sound, atomics' = atomics,
         FreeTest(r)
  PROVE  Sound'
<1> USE DEF FreeTest, See, Goto
<1>1. TypeOK'
  BY DEF Sound, TypeOK, Touching
<1>2. ReadInv'
  BY DEF Sound, ReadInv, TypeOK
<1>3. Counted' = Counted
  BY DEF Sound, TypeOK, Counted, Touching
<1>4. Exact'
  BY <1>3 DEF Sound, Exact
<1>5. \A q \in Refs : q # r => (Freeing(q)' <=> Freeing(q))
  BY DEF Sound, TypeOK, Freeing, Last
<1>6. ~Freeing(r)'
  BY DEF Sound, TypeOK, Freeing
<1>7. CASE Last(r)
  <2>1. Freeing(r)
    BY <1>7 DEF Freeing
  <2>2. memref = 0 /\ heap = "live" /\ \A q \in Refs : q # r => ~Freeing(q)
    BY <2>1 DEF Sound, FreeInv
  <2>3. HeapInv'
    BY <1>7, <2>2 DEF Sound, HeapInv, TypeOK
  <2>4. FreeInv'
    BY <1>5, <1>6, <2>2 DEF FreeInv
  <2> QED BY <1>1, <1>2, <1>4, <2>3, <2>4 DEF Sound
<1>8. CASE ~Last(r)
  <2>1. \A q \in Refs : Freeing(q)' <=> Freeing(q)
    BY <1>5, <1>6, <1>8 DEF Freeing
  <2>2. heap # "none"
    BY DEF Sound, HeapInv
  <2>3. HeapInv'
    BY <1>8, <2>1, <2>2 DEF Sound, HeapInv
  <2>4. FreeInv'
    BY <1>8, <2>1 DEF Sound, FreeInv
  <2> QED BY <1>1, <1>2, <1>4, <2>3, <2>4 DEF Sound
<1> QED BY <1>7, <1>8

(* The first half of the exchange: the count is read.                      *)
LEMMA ReadStep ==
  ASSUME ~torn', NEW r \in Refs, Sound, atomics' = atomics,
         ReadOperand(r)
  PROVE  Sound'
<1> USE DEF ReadOperand, See, Goto
<1>1. TypeOK'
  BY DEF Sound, TypeOK, Touching
<1>2. atomics = "win32"
  OBVIOUS
<1>3. ReadInv'
  BY <1>2 DEF Sound, ReadInv, TypeOK
<1>4. Counted' = Counted
  BY DEF Sound, TypeOK, Counted, Touching
<1>5. Exact'
  BY <1>4 DEF Sound, Exact
<1>6. \A q \in Refs : Freeing(q)' <=> Freeing(q)
  BY DEF Sound, TypeOK, Freeing, Last
<1>7. HeapInv'
  BY <1>6 DEF Sound, HeapInv
<1>8. FreeInv'
  BY <1>6 DEF Sound, FreeInv
<1> QED BY <1>1, <1>3, <1>5, <1>7, <1>8 DEF Sound

(* The end of string_ref by an exchange: what it read is still the count.  *)
LEMMA ExchangeAddStep ==
  ASSUME ~torn', NEW r \in Refs, NEW q \in Refs, Sound, atomics' = atomics,
         ExchangeAdd(r, q)
  PROVE  Sound'
<1> USE DEF ExchangeAdd, MadeFrom, Exchanged
<1>1. atomics # "gcc" /\ seen[r] = memref
  BY DEF Sound, ReadInv
<1>2. TypeOK'
  BY DEF Sound, TypeOK, Touching
<1>4. ReadInv'
  BY <1>1 DEF Sound, TypeOK, ReadInv
<1>5. r \in Counted /\ q \notin Counted /\ Counted' = Counted \cup {q}
  BY DEF Sound, TypeOK, Counted, Touching
<1>6. memref \in Int /\ memref' = memref + 1
  BY <1>1 DEF Sound, TypeOK
<1>7. Exact'
  BY <1>5, <1>6, CountedGrows DEF Sound, Exact
<1>8. memref > 0 /\ heap = "live" /\ \A p \in Refs : ~Freeing(p)
  BY <1>5, Referenced
<1>9. HeapInv'
  BY <1>1, <1>6, <1>8 DEF Sound, HeapInv
<1>10. \A p \in Refs : ~Freeing(p)'
  BY <1>8 DEF Sound, TypeOK, Freeing, Last
<1>11. FreeInv'
  BY <1>10 DEF FreeInv
<1> QED BY <1>2, <1>4, <1>7, <1>9, <1>11 DEF Sound

(* The subtraction by an exchange answers the old count, which is not 0:   *)
(* this string_free will not free the buffer.                              *)
LEMMA ExchangeSubStep ==
  ASSUME ~torn', NEW r \in Refs, Sound, atomics' = atomics,
         ExchangeSub(r)
  PROVE  Sound'
<1> USE DEF ExchangeSub, Exchanged, See, Goto
<1>1. atomics # "gcc" /\ seen[r] = memref
  BY DEF Sound, ReadInv
<1>2. TypeOK'
  BY DEF Sound, TypeOK, Touching
<1>4. ReadInv'
  BY <1>1 DEF Sound, TypeOK, ReadInv
<1>5. r \in Counted /\ Counted' = Counted \ {r}
  BY DEF Sound, TypeOK, Counted, Touching
<1>6. memref \in Int /\ memref' = memref - 1
  BY <1>1 DEF Sound, TypeOK
<1>7. Exact'
  BY <1>5, <1>6, CountedShrinks DEF Sound, Exact
<1>8. memref > 0 /\ heap = "live" /\ \A p \in Refs : ~Freeing(p)
  BY <1>5, Referenced
<1>9. HeapInv'
  BY <1>1, <1>6, <1>8 DEF Sound, HeapInv
<1>10. \A p \in Refs : ~Freeing(p)'
  BY <1>6, <1>8 DEF Sound, TypeOK, Freeing, Last
<1>11. FreeInv'
  BY <1>10 DEF FreeInv
<1> QED BY <1>2, <1>4, <1>7, <1>9, <1>11 DEF Sound

(* Every step keeps the invariant.                                         *)
LEMMA INext == IInv /\ [Next]_vars => IInv'
<1> SUFFICES ASSUME IInv, [Next]_vars PROVE IInv'
  OBVIOUS
<1>1. CASE UNCHANGED vars
  BY <1>1 DEF vars, IInv, Sound, TypeOK, ReadInv, Exact, Counted, HeapInv, FreeInv, Freeing, Last
<1>2. CASE Next
  <2>1. ~torn /\ Sound /\ atomics' = atomics
    BY <1>2 DEF Next, IInv
  <2>2. ASSUME ~torn' PROVE Sound'
    BY <1>2, <2>1, <2>2, NewStep, BeginStep, AddStep, SubStep, TestStep, ReadStep,
       ExchangeAddStep, ExchangeSubStep DEF Next
  <2>3. ASSUME torn' PROVE \E r \in Refs : pc[r] \in {"ref_exchange", "free_exchange"}
    BY <1>2, <2>1, <2>3 DEF Next, New, BeginRef, BeginFree, Begin, AtomicAdd, AtomicSub, FreeTest,
                            ReadOperand, ExchangeAdd, ExchangeSub
  <2>4. torn' => atomics' # "gcc"
    BY <2>1, <2>3 DEF Sound, ReadInv
  <2> QED BY <2>2, <2>4 DEF IInv
<1> QED BY <1>1, <1>2

(* What is proved of the invariant holds always.                           *)
LEMMA Always == Spec => []IInv
BY IInit, INext, PTL DEF Spec

(* The count is the number of references, whatever calls overlap, until an *)
(* update is lost.                                                         *)
THEOREM CountCorrect == Spec => []CountExact
<1>1. IInv => CountExact
  BY DEF IInv, Sound, Exact, CountExact
<1> QED BY <1>1, Always, PTL

(* Nobody touches the buffer after it was freed, until an update is lost.  *)
THEOREM NoUseAfterFreeCorrect == Spec => []NoUseAfterFree
<1>1. IInv => NoUseAfterFree
  BY Referenced DEF IInv, NoUseAfterFree
<1> QED BY <1>1, Always, PTL

(* The buffer is freed once, until an update is lost.                      *)
THEOREM FreedOnceCorrect == Spec => []FreedOnce
<1>1. IInv => FreedOnce
  BY DEF IInv, Sound, TypeOK, HeapInv, FreeInv, Freeing, FreedOnce
<1> QED BY <1>1, Always, PTL

(* With __atomic_add_fetch no update is lost, and the buffer is not left   *)
(* behind when the last reference is gone; with InterlockedExchange it is. *)
THEOREM NoLeakCorrect == Spec => []NoLeak
<1>1. IInv => NoLeak
  <2> SUFFICES ASSUME IInv, atomics = "gcc", \A r \in Refs : pc[r] = "none" PROVE heap # "live"
    BY DEF NoLeak, IInv
  <2>1. Sound
    BY DEF IInv
  <2>2. Counted = {}
    BY DEF Counted, Touching
  <2>3. memref = 0
    BY <2>1, <2>2, CountedSize DEF Sound, Exact
  <2>4. \A r \in Refs : ~Freeing(r)
    BY DEF Freeing
  <2> QED BY <2>1, <2>3, <2>4 DEF Sound, HeapInv
<1> QED BY <1>1, Always, PTL
=============================================================================
