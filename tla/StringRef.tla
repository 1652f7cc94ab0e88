------------------------------ MODULE StringRef ------------------------------
(***************************************************************************)
(* The reference-counted strings of src/text/string_functions.cpp over the *)
(* atomic operations of Include/threading/atomic_ops.h: one StringBuffer   *)
(* on the heap and the references to it.  Each reference belongs to one    *)
(* thread at a time, which makes one call with it: references are the      *)
(* actors, and calls with different references overlap in any way.         *)
(*                                                                         *)
(* atomics is the branch of atomic_ops.h that the compiler takes:          *)
(* "gcc", __atomic_add_fetch: one step that answers the new value;         *)
(* "win32", InterlockedExchange(p, *p + n): a read, then an exchange that  *)
(* answers the value it replaces.                                          *)
(***************************************************************************)
EXTENDS Integers, FiniteSets

CONSTANTS
  Refs,     \* the references there can be at a time: a bound
  Branches  \* the branches of atomic_ops.h a compiler may take

ASSUME StringAssumption == Branches \subseteq {"gcc", "win32"} /\ IsFiniteSet(Refs)

VARIABLES
  atomics, \* the branch taken
  memref,  \* the count in the buffer
  heap,    \* the buffer is "none", "live" or "freed"
  frees,   \* history: how often it was given to memory_global_free
  pc,      \* "none": no reference; "held"; or inside the call made with it
  seen,    \* what the atomic operation of that call read or answered
  torn     \* history: an exchange wrote over a count that had changed since
           \* it was read, so the update of another call is lost

vars == <<atomics, memref, heap, frees, pc, seen, torn>>

Touching == {"held", "ref", "ref_exchange", "free", "free_exchange"}
Counted  == {r \in Refs : pc[r] \in Touching}
Goto(r, label) == pc' = [pc EXCEPT ![r] = label]
See(r, value)  == seen' = [seen EXCEPT ![r] = value]

Init == /\ atomics \in Branches
        /\ memref = 0 /\ heap = "none" /\ frees = 0
        /\ pc = [r \in Refs |-> "none"] /\ seen = [r \in Refs |-> 0] /\ torn = FALSE

(* string_new of a string that is not on the heap, string_format           *)
New(r) == /\ heap = "none"
          /\ heap' = "live" /\ memref' = 1
          /\ Goto(r, "held")
          /\ UNCHANGED <<frees, seen, torn>>

(* string_ref, or string_new of a heap string; string_free.  The memtag is *)
(* read here, and was written before the reference was made.               *)
Begin(r, label) == /\ pc[r] = "held" /\ Goto(r, label)
                   /\ UNCHANGED <<memref, heap, frees, seen, torn>>

BeginRef(r)  == Begin(r, "ref")
BeginFree(r) == Begin(r, "free")

(* A definition named "...Mutant" is what a plausible bug would make of    *)
(* the one that follows it; the specification never uses it.               *)
IncrementMutant == memref' = memref
Increment       == memref' = memref + 1

AnswerMutant(r) == See(r, memref)
Answer(r)       == See(r, memref')

MadeFrom(r, q) == /\ r # q /\ pc[q] = "none"
                  /\ pc' = [pc EXCEPT ![r] = "held", ![q] = "held"]

(* The end of string_ref: q is the reference it made from r.               *)
AtomicAdd(r, q) == /\ atomics = "gcc" /\ pc[r] = "ref"
                   /\ Increment
                   /\ MadeFrom(r, q)
                   /\ UNCHANGED <<heap, frees, seen, torn>>

AtomicSub(r) == /\ atomics = "gcc" /\ pc[r] = "free"
                /\ memref' = memref - 1
                /\ Answer(r)
                /\ Goto(r, "free_test")
                /\ UNCHANGED <<heap, frees, torn>>

ReadOperand(r) == /\ atomics = "win32"
                  /\ \/ pc[r] = "ref" /\ Goto(r, "ref_exchange")
                     \/ pc[r] = "free" /\ Goto(r, "free_exchange")
                  /\ See(r, memref)
                  /\ UNCHANGED <<memref, heap, frees, torn>>

ExchangedMutant(r, n) ==                            \* as in lines 29 and 30
  memref' = seen[r] - n /\ torn' = (seen[r] # memref)
Exchanged(r, n) == memref' = seen[r] + n /\ torn' = (seen[r] # memref)

ExchangeAdd(r, q) == /\ pc[r] = "ref_exchange"
                     /\ Exchanged(r, 1)
                     /\ MadeFrom(r, q)
                     /\ UNCHANGED <<heap, frees, seen>>

ExchangeSub(r) == /\ pc[r] = "free_exchange"
                  /\ Exchanged(r, -1)
                  /\ See(r, memref)
                  /\ Goto(r, "free_test")
                  /\ UNCHANGED <<heap, frees>>

LastMutant(r) == memref <= 0
Last(r)       == seen[r] <= 0

(* Lines 71-74: by what the atomic operation answered, not by the count.   *)
FreeTest(r) == /\ pc[r] = "free_test"
               /\ Goto(r, "none") /\ See(r, 0)
               /\ IF Last(r) THEN heap' = "freed" /\ frees' = frees + 1
                             ELSE UNCHANGED <<heap, frees>>
               /\ UNCHANGED <<memref, torn>>

(* The system stops when the string is freed.  Once an update was lost the *)
(* count means nothing any more, and what follows is not modelled.         *)
Next == ~torn /\ UNCHANGED atomics /\ \E r \in Refs :
          \/ New(r) \/ BeginRef(r) \/ BeginFree(r)
          \/ AtomicSub(r) \/ ReadOperand(r) \/ ExchangeSub(r) \/ FreeTest(r)
          \/ \E q \in Refs : AtomicAdd(r, q) \/ ExchangeAdd(r, q)

Spec == Init /\ [][Next]_vars

-----------------------------------------------------------------------------
TypeOK == /\ memref \in Int /\ frees \in Nat /\ torn \in BOOLEAN
          /\ heap \in {"none", "live", "freed"}
          /\ pc \in [Refs -> Touching \cup {"none", "free_test"}]
          /\ seen \in [Refs -> Int]

(* memref is the number of references, however calls overlap and also      *)
(* while they are under way, with one exception: an exchange of the        *)
(* Windows branch that interrupts the read and the exchange of another     *)
(* call, whose update it or itself is lost.                                *)
CountExact == ~torn => memref = Cardinality(Counted)

(* As long as no update was lost, nobody who holds a reference, or is      *)
(* inside a call with one, touches a buffer that was freed.                *)
NoUseAfterFree == ~torn /\ Counted # {} => heap = "live"

(* As long as no update was lost, the buffer is freed once, and not while  *)
(* a string_free may still decide to free it again.                        *)
FreedOnce ==
  ~torn => /\ frees <= 1
           /\ frees = 1 => ~\E r \in Refs : pc[r] = "free_test" /\ Last(r)

(* In the GNU branch the buffer is freed when the last call with the last  *)
(* reference is over, and no update is ever lost.  Not so in the Windows   *)
(* branch: its subtraction answers the old count, so the last string_free  *)
(* sees 1 and leaves the buffer behind.                                    *)
NoLeak == atomics = "gcc" => /\ ~torn
                             /\ (\A r \in Refs : pc[r] = "none") => heap # "live"
=============================================================================
