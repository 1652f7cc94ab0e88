------------------------------ MODULE HashTable ------------------------------
(***************************************************************************)
(* HashTable<int32_t> of Include/container/hash_table_functions.h: buckets *)
(* of chains through dense arrays of nexts, keys and values that live in   *)
(* one growing block.  Calls on a table do not overlap.                    *)
(*                                                                         *)
(* The calls of lines 150, 169, 287 and 296 lack an argument (old_block,   *)
(* alignment, table); they are read as if it were there.                   *)
(***************************************************************************)
EXTENDS Integers

CONSTANTS
  Keys, Values,
  HashCount,   \* hash_count
  Uses,        \* the ways a table is used: a subset of AllUses
  CountLimit   \* bound: entries in a table

AllCalls    == {"set", "remove", "clear", "reset", "new"}
AllReallocs == {"in_place", "moved", "fails"}

(* A use of the table: the calls made, the values set, what the allocator  *)
(* does with a block that grows, whether the model follows the table after *)
(* it got out of order (see orderly), and the first capacity, 32 in the    *)
(* code.                                                                   *)
AllUses == [calls : SUBSET AllCalls, values : SUBSET Values, reallocs : SUBSET AllReallocs,
            anyway : BOOLEAN, first : Nat \ {0}]

ASSUME TableAssumption ==
  /\ Keys \subseteq Nat /\ Values \subseteq Int
  /\ HashCount \in Nat \ {0} /\ CountLimit \in Nat
  /\ \A u \in Uses : u \in AllUses

VARIABLES
  count, capacity,
  hashs,                \* head of each bucket, or NULL
  nexts, keys, values,  \* of slots 0 .. capacity - 1
  created,              \* what hash_table_new has answered
  lost,                 \* the buckets were written where there was no memory
  orderly,              \* history: see below
  use                   \* the way the table is used

vars == <<count, capacity, hashs, nexts, keys, values, created, lost, orderly, use>>

(* A table gets out of order by the removal of an entry after which        *)
(* another was set in its bucket and is still there, by hash_table_clear   *)
(* when it has entries, and by the growth of a block that has entries:     *)
(* the code cuts the chain, leaves the heads behind, and overwrites the    *)
(* values or reads the freed block.  Freed or detached, it is in order.    *)

NULL    == <<>>
Junk    == -2           \* what memory holds that nothing was written to
Buckets == 0 .. HashCount - 1
Slots   == 0 .. capacity - 1

(* hash_table_init on a table of the caller's                              *)
Reset == /\ count' = 0 /\ capacity' = 0 /\ hashs' = NULL
         /\ nexts' = NULL /\ keys' = NULL /\ values' = NULL
         /\ orderly' = TRUE

Init == /\ count = 0 /\ capacity = 0 /\ hashs = NULL
        /\ nexts = NULL /\ keys = NULL /\ values = NULL
        /\ created = "nothing" /\ lost = FALSE /\ orderly = TRUE /\ use \in Uses

Hash(key) == key % HashCount

-----------------------------------------------------------------------------
(* hash_table_index_of on a table with these buckets, nexts and keys: the  *)
(* walk along key's chain stops at its end or at an entry with the key.    *)
Walk(hs, ns, key) ==
  LET walk[n \in 0 .. capacity] ==
        IF n = 0 THEN hs[Hash(key)]
        ELSE LET prev == walk[n - 1] IN IF prev < 0 THEN prev ELSE ns[prev]
  IN  walk

Stops(walk, ks, key, n) == walk[n] < 0 \/ ks[walk[n]] = key

Find(hs, ns, ks, key) ==
  IF hs = NULL THEN [curr |-> -1, prev |-> -1]
  ELSE LET walk == Walk(hs, ns, key)
           n    == CHOOSE k \in 0 .. capacity : /\ Stops(walk, ks, key, k)
                                                /\ \A l \in 0 .. k - 1 : ~Stops(walk, ks, key, l)
       IN  [curr |-> walk[n], prev |-> IF n = 0 THEN -1 ELSE walk[n - 1]]

index_of(key)  == Find(hashs, nexts, keys, key).curr
contains(key)  == index_of(key) > -1
get_value(key) == values[index_of(key)]

(* Make slot the successor of prev, or the head of key's bucket.           *)
LinkHashs(hs, prev, key, slot) == IF prev > -1 THEN hs ELSE [hs EXCEPT ![Hash(key)] = slot]
LinkNexts(ns, prev, slot)      == IF prev > -1 THEN [ns EXCEPT ![prev] = slot] ELSE ns

(* The slot of a new entry ends its chain.  After hash_table_clear prev    *)
(* may be that slot, left over: lines 194 and 200 in this order unlink it. *)
(*                                                                         *)
(* A definition named "...Mutant" is what a plausible bug would make of    *)
(* the one that follows it; the specification never uses it.               *)
AddLastMutant(ns, prev, slot) == LinkNexts([ns EXCEPT ![slot] = -1], prev, slot)
AddLast(ns, prev, slot)       == [LinkNexts(ns, prev, slot) EXCEPT ![slot] = -1]

-----------------------------------------------------------------------------
(* Lines 164-189.  The block holds nexts, keys and values in this order.   *)
(* Grown in place, the keys land on the old values before those are moved; *)
(* moved, the old keys and values are read from the block just freed, and  *)
(* are still there or are junk.                                            *)
FullMutant == count > capacity
Full       == count + 1 > capacity

NewCapacity == IF capacity > 0 THEN capacity * 2 ELSE use.first

Grown(ks, vs) ==
  [capacity |-> NewCapacity,
   nexts    |-> [n \in 0 .. NewCapacity - 1 |-> IF n \in Slots THEN nexts[n] ELSE Junk],
   keys     |-> [n \in 0 .. NewCapacity - 1 |-> IF n \in Slots THEN ks[n] ELSE Junk],
   values   |-> [n \in 0 .. NewCapacity - 1 |-> IF n \in Slots THEN vs[n] ELSE Junk]]

Blocks ==
  IF ~Full THEN {[capacity |-> capacity, nexts |-> nexts, keys |-> keys, values |-> values]}
  ELSE LET junk == [n \in Slots |-> Junk]
       IN  (IF "in_place" \in use.reallocs \/ capacity = 0 THEN {Grown(keys, keys)} ELSE {})
             \cup (IF "moved" \in use.reallocs THEN {Grown(keys, values), Grown(junk, junk)} ELSE {})

AllBuckets == IF hashs = NULL THEN [h \in Buckets |-> -1] ELSE hashs

(* hash_table_set_value, or a write through the slot that                  *)
(* hash_table_get_value_or_new_entry answers                               *)
SetExisting(key, value) ==
  /\ contains(key)
  /\ values' = [values EXCEPT ![index_of(key)] = value]
  /\ UNCHANGED <<count, capacity, hashs, nexts, keys, orderly>>

SetNew(key, value) ==
  /\ ~contains(key) /\ count < CountLimit
  /\ LET prev == Find(hashs, nexts, keys, key).prev
     IN  \E block \in Blocks :
           /\ capacity' = block.capacity
           /\ hashs'  = LinkHashs(AllBuckets, prev, key, count)
           /\ nexts'  = AddLast(block.nexts, prev, count)
           /\ keys'   = [block.keys EXCEPT ![count] = key]
           /\ values' = [block.values EXCEPT ![count] = value]
  /\ count' = count + 1
  /\ orderly' = (orderly /\ ~(Full /\ capacity > 0))

(* The block cannot be had; the buckets were made before.                  *)
SetFails(key) ==
  /\ ~contains(key) /\ Full /\ "fails" \in use.reallocs
  /\ hashs' = AllBuckets
  /\ UNCHANGED <<count, capacity, nexts, keys, values, orderly>>

(* The buckets cannot be had and are written through the null pointer.     *)
BucketsFail(key) ==
  /\ ~contains(key) /\ hashs = NULL /\ "fails" \in use.reallocs
  /\ lost' = TRUE
  /\ UNCHANGED <<count, capacity, hashs, nexts, keys, values, orderly>>

(* hash_table_remove and hash_table_erase: unlink the entry, and move the  *)
(* last one into its slot.                                                 *)
MovesLastMutant(slot) == FALSE
MovesLast(slot)       == slot < count - 1

Remove(key) ==
  /\ contains(key)
  /\ orderly' = (orderly /\ nexts[index_of(key)] = -1)
  /\ LET found == Find(hashs, nexts, keys, key)
         curr  == found.curr
         last  == count - 1
         hs    == LinkHashs(hashs, found.prev, key, -1)
         ns    == LinkNexts(nexts, found.prev, -1)
     IN  IF MovesLast(curr)
         THEN LET ks   == [keys EXCEPT ![curr] = keys[last]]
                  ns2  == [ns EXCEPT ![curr] = ns[last]]
                  prev == Find(hs, ns2, ks, ks[curr]).prev
              IN  /\ keys'   = ks
                  /\ values' = [values EXCEPT ![curr] = values[last]]
                  /\ hashs'  = LinkHashs(hs, prev, ks[curr], curr)
                  /\ nexts'  = LinkNexts(ns2, prev, curr)
         ELSE hashs' = hs /\ nexts' = ns /\ UNCHANGED <<keys, values>>
  /\ count' = count - 1
  /\ UNCHANGED capacity

Clear == /\ count' = 0 /\ orderly' = (orderly /\ count = 0)
         /\ UNCHANGED <<capacity, hashs, nexts, keys, values>>

(* hash_table_new frees the table that hash_table_init accepts and returns *)
(* the one it rejects.                                                     *)
hash_table_new(initialised) == IF initialised THEN "NULL" ELSE "a table"

New == /\ created' = hash_table_new(HashCount > 0)
       /\ UNCHANGED <<count, capacity, hashs, nexts, keys, values, orderly>>

-----------------------------------------------------------------------------
Set(key, value) == SetExisting(key, value) \/ SetNew(key, value) \/ SetFails(key)

(* hash_table_free and hash_table_detach leave the table as init does.     *)
Next ==
  \/ /\ ~lost /\ UNCHANGED use
     /\ \/ /\ orderly \/ use.anyway
           /\ \/ "set" \in use.calls /\ \E key \in Keys, value \in use.values : Set(key, value)
              \/ "remove" \in use.calls /\ \E key \in Keys : Remove(key)
              \/ "clear" \in use.calls /\ Clear
           /\ UNCHANGED <<created, lost>>
        \/ "set" \in use.calls /\ (\E key \in Keys : BucketsFail(key)) /\ UNCHANGED created
        \/ "reset" \in use.calls /\ Reset /\ UNCHANGED <<created, lost>>
        \/ "new" \in use.calls /\ New /\ UNCHANGED lost
  \/ lost /\ UNCHANGED vars

Spec == Init /\ [][Next]_vars

-----------------------------------------------------------------------------
Contents == [key \in {k \in Keys : contains(k)} |-> get_value(key)]

Map == INSTANCE KeyMap WITH map <- Contents

(* What each call makes of the map of the keys to their values.            *)
CallsOnMap ==
  /\ orderly /\ orderly' =>
       /\ \A key \in Keys, value \in use.values :
            SetExisting(key, value) \/ SetNew(key, value) => Map!Put(key, value)
       /\ \A key \in Keys : /\ SetFails(key) => UNCHANGED Contents
                           /\ Remove(key) => Map!Delete(key)
  /\ Reset => Map!Forget

(* As long as it is in order the table is the map that its callers made: a *)
(* set puts the value it was given, at its key and nowhere else, a set     *)
(* that fails changes nothing, and a removal deletes its key, also when it *)
(* moves another entry.                                                    *)
IsMap == Map!Init /\ [][CallsOnMap]_vars

TypeOK ==
  /\ capacity \in Nat /\ count \in 0 .. capacity
  /\ hashs = NULL \/ hashs \in [Buckets -> Slots \cup {-1}]
  /\ nexts \in [Slots -> Slots \cup {-1, Junk}]
  /\ keys \in [Slots -> Keys \cup {Junk}] /\ values \in [Slots -> Values \cup Keys \cup {Junk}]
  /\ created \in {"nothing", "NULL", "a table"} /\ lost \in BOOLEAN /\ orderly \in BOOLEAN

(* Every lookup ends, also after clearing, setting again and growing: no   *)
(* chain runs in a circle.  Removals that cut chains close one, which the  *)
(* run ht_hang shows; here the first of them is the last that is followed. *)
LookupsEnd ==
  hashs # NULL => \A key \in Keys : \E n \in 0 .. capacity :
                    Stops(Walk(hashs, nexts, key), keys, key, n)
=============================================================================
