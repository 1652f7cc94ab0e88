---------------------------- MODULE GrowableArray ----------------------------
(***************************************************************************)
(* Array<T> of Include/container/array_functions.h, built without          *)
(* assertions; its caller keeps the pointer array_push_expand returns.     *)
(*                                                                         *)
(* The file names the elements "elements" and "items", the new array       *)
(* "new_array" and "newArray", and writes array.count for array->count;    *)
(* each is read as the one thing it can mean.                              *)
(***************************************************************************)
EXTENDS Integers, Sequences

CONSTANTS
  Values,
  Capacities,    \* what array_new is called with
  CountLimit     \* bound: elements in an array

ASSUME ArrayAssumption ==
  Capacities \subseteq Nat /\ CountLimit \in Nat

VARIABLES
  capacity, count,
  elements,  \* of indices 0 .. capacity - 1, or of those written so far
  refused    \* history: a block that had to grow was not granted

vars == <<capacity, count, elements, refused>>

(* array_new.  memory_alloc answers a block of size 0 too.                 *)
Init == /\ capacity \in Capacities /\ count = 0
        /\ elements = [n \in {} |-> n] /\ refused = FALSE

array_ensure_size(size) == capacity >= size

(* A definition named "...Mutant" is what a plausible bug would make of    *)
(* the one that follows it; the specification never uses it.               *)
CopiedMutant(n) == n < count - 1
Copied(n)       == n < count

SizeMutant == count
Size       == count + 1

(* Lines 75-78.  memory_alloc may refuse: array_ensure_size_or_new then    *)
(* gives back the array it was given, and the value goes behind its block. *)
PushExpand(value) ==
  /\ count < CountLimit
  /\ \E granted \in BOOLEAN :
       LET grown == granted /\ ~array_ensure_size(Size)
           kept  == {n \in DOMAIN elements : grown => Copied(n)}
       IN  /\ capacity' = IF grown THEN Size ELSE capacity
           /\ elements' = [n \in kept \cup {count} |->
                              IF n = count THEN value ELSE elements[n]]
           /\ refused' = (~granted /\ ~array_ensure_size(Size))
  /\ count' = count + 1

(* Lines 67-69, by a caller that asked array_ensure_size before.           *)
Push(value) ==
  /\ array_ensure_size(count + 1)
  /\ elements' = [n \in DOMAIN elements \cup {count} |->
                     IF n = count THEN value ELSE elements[n]]
  /\ count' = count + 1
  /\ UNCHANGED <<capacity, refused>>

(* Lines 84-86, by a caller that knows that the array is not empty.        *)
Pop == /\ count > 0 /\ count' = count - 1
       /\ UNCHANGED <<capacity, elements, refused>>

Clear == count' = 0 /\ UNCHANGED <<capacity, elements, refused>>

(* What follows a write behind the block is not modelled.                 *)
Next == \/ /\ ~refused
           /\ \/ \E value \in Values : PushExpand(value) \/ Push(value)
              \/ Pop \/ Clear
        \/ refused /\ UNCHANGED vars

Spec == Init /\ [][Next]_vars

-----------------------------------------------------------------------------
(* Every element that counts was written, inside the block: the one way    *)
(* out is that the allocator refused to let it grow.                       *)
FitsBlock == ~refused => count <= capacity /\ 0 .. count - 1 \subseteq DOMAIN elements

Junk == -1
S == INSTANCE Stack WITH stack <- [n \in 1 .. count |->
       IF n - 1 \in DOMAIN elements THEN elements[n - 1] ELSE Junk]

(* Each call is the operation of its name on a stack, with the value it    *)
(* was given, also when it moves the array to a larger block; only the     *)
(* push whose growth was refused is excused.                               *)
CallsOnStack ==
  ~refused' => /\ \A value \in Values : PushExpand(value) \/ Push(value) => S!Push(value)
               /\ Pop => S!Pop
               /\ Clear => S!Clear

IsStack == S!Init /\ [][CallsOnStack]_vars
=============================================================================
