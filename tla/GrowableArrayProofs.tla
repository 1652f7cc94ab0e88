------------------------ MODULE GrowableArrayProofs ------------------------
(***************************************************************************)
(* Proofs about the array, for every capacity, every set of values, any    *)
(* number of elements and whatever the allocator grants: until it refuses  *)
(* to let an array grow, when array_push_expand writes behind the block.   *)
(***************************************************************************)
EXTENDS GrowableArray, SequenceTheorems, TLAPS

Fits ==
  /\ capacity \in Nat /\ count \in 0 .. capacity
  /\ DOMAIN elements \subseteq Nat /\ elements \in [DOMAIN elements -> Values]
  /\ 0 .. count - 1 \subseteq DOMAIN elements

ArrayInv == ~refused => Fits

(* A push, expanding or not, puts its value behind the elements that count *)
(* and leaves those as they are.                                           *)
LEMMA PushStep ==
  ASSUME ~refused', Fits, NEW value \in Values, PushExpand(value) \/ Push(value)
  PROVE  /\ capacity' \in Nat /\ count' = count + 1 /\ count' <= capacity'
         /\ \E kept \in SUBSET DOMAIN elements :
              /\ 0 .. count - 1 \subseteq kept
              /\ elements' = [n \in kept \cup {count} |->
                                IF n = count THEN value ELSE elements[n]]
<1> USE DEF Fits
<1>1. CASE PushExpand(value)
  <2> DEFINE grown == ~(capacity >= count + 1)
             kept  == {n \in DOMAIN elements : grown => n < count}
  <2>1. /\ capacity' = IF grown THEN count + 1 ELSE capacity
        /\ count' = count + 1
        /\ elements' = [n \in kept \cup {count} |-> IF n = count THEN value ELSE elements[n]]
    <3>1. PICK granted \in BOOLEAN :
            LET g == granted /\ ~array_ensure_size(Size)
                k == {n \in DOMAIN elements : g => Copied(n)}
            IN  /\ capacity' = IF g THEN Size ELSE capacity
                /\ elements' = [n \in k \cup {count} |-> IF n = count THEN value ELSE elements[n]]
                /\ refused' = (~granted /\ ~array_ensure_size(Size))
      BY <1>1 DEF PushExpand
    <3>2. (granted /\ ~array_ensure_size(Size)) = grown
      BY <3>1 DEF array_ensure_size, Size
    <3> QED BY <1>1, <3>1, <3>2 DEF PushExpand, Size, Copied
  <2>2. 0 .. count - 1 \subseteq kept
    OBVIOUS
  <2>3. capacity' \in Nat /\ count' <= capacity'
    BY <2>1
  <2> QED BY <2>1, <2>2, <2>3
<1>2. CASE Push(value)
  <2>1. capacity' \in Nat /\ count' = count + 1 /\ count' <= capacity'
    BY <1>2 DEF Push, array_ensure_size
  <2>2. elements' = [n \in DOMAIN elements \cup {count} |-> IF n = count THEN value ELSE elements[n]]
    BY <1>2 DEF Push
  <2> QED BY <2>1, <2>2
<1> QED BY <1>1, <1>2

LEMMA ArrayInit == Init => ArrayInv
BY ArrayAssumption DEF Init, ArrayInv, Fits

LEMMA ArrayNext ==
  ASSUME ArrayInv, [Next]_vars PROVE ArrayInv'
<1> SUFFICES ASSUME ~refused' PROVE Fits'
  BY DEF ArrayInv
<1>1. ~refused
  BY DEF Next, vars
<1>2. Fits
  BY <1>1 DEF ArrayInv
<1> USE <1>2 DEF Fits
<1>3. ASSUME NEW value \in Values, PushExpand(value) \/ Push(value) PROVE Fits'
  <2>1. PICK kept \in SUBSET DOMAIN elements :
          /\ 0 .. count - 1 \subseteq kept
          /\ elements' = [n \in kept \cup {count} |-> IF n = count THEN value ELSE elements[n]]
    BY <1>3, PushStep
  <2>2. capacity' \in Nat /\ count' \in 0 .. capacity' /\ count' = count + 1
    BY <1>3, PushStep
  <2>3. DOMAIN elements' \subseteq Nat /\ elements' \in [DOMAIN elements' -> Values]
    BY <2>1
  <2>4. 0 .. count' - 1 \subseteq DOMAIN elements'
    BY <2>1, <2>2
  <2> QED BY <2>2, <2>3, <2>4
<1>4. CASE Pop
  BY <1>4 DEF Pop
<1>5. CASE Clear
  BY <1>5 DEF Clear
<1>6. CASE UNCHANGED vars
  BY <1>6 DEF vars
<1> QED BY <1>1, <1>3, <1>4, <1>5, <1>6 DEF Next

(* Unless a growth was refused, every element that counts was written,     *)
(* inside the block.                                                       *)
THEOREM FitsBlockCorrect == Spec => []FitsBlock
<1>1. ArrayInv /\ [Next]_vars => ArrayInv'
  BY ArrayNext
<1>2. ArrayInv => FitsBlock
  BY DEF ArrayInv, Fits, FitsBlock
<1> QED BY ArrayInit, <1>1, <1>2, PTL DEF Spec

(* The stack that c elements of e make.                                    *)
StackOf(c, e) == [n \in 1 .. c |-> IF n - 1 \in DOMAIN e THEN e[n - 1] ELSE Junk]

LEMMA StackFacts ==
  ASSUME NEW c \in Nat, NEW e, e \in [DOMAIN e -> Values], 0 .. c - 1 \subseteq DOMAIN e
  PROVE  /\ StackOf(c, e) \in Seq(Values) /\ Len(StackOf(c, e)) = c
         /\ \A n \in 1 .. c : StackOf(c, e)[n] = e[n - 1]
<1>1. \A n \in 1 .. c : n - 1 \in DOMAIN e
  OBVIOUS
<1>2. \A n \in 1 .. c : e[n - 1] \in Values
  BY <1>1
<1>3. StackOf(c, e) = [n \in 1 .. c |-> e[n - 1]]
  BY <1>1 DEF StackOf
<1>4. StackOf(c, e) \in [1 .. c -> Values]
  BY <1>2, <1>3
<1>5. StackOf(c, e) \in Seq(Values)
  BY <1>4, SeqDef
<1>6. Len(StackOf(c, e)) = c
  BY <1>4, <1>5, LenProperties
<1> QED BY <1>3, <1>5, <1>6

(* Each call is the operation of its name on a stack, growing or not,      *)
(* unless its growth is refused.                                           *)
THEOREM StackCorrect == Spec => IsStack
<1>1. Init => S!Init
  BY DEF Init, S!Init
<1>2. ASSUME ArrayInv, [Next]_vars PROVE CallsOnStack
  <2> SUFFICES ASSUME ~refused'
               PROVE  /\ \A value \in Values : PushExpand(value) \/ Push(value) => S!Push(value)
                      /\ Pop => S!Pop
                      /\ Clear => S!Clear
    BY DEF CallsOnStack
  <2>0. Fits /\ Fits'
    <3>1. ~refused
      BY <1>2 DEF Next, vars
    <3>2. ArrayInv'
      BY <1>2, ArrayNext
    <3> QED BY <1>2, <3>1, <3>2 DEF ArrayInv
  <2> USE <2>0 DEF Fits
  <2> DEFINE now  == StackOf(count, elements)
             then == StackOf(count', elements')
  <2>1. count \in Nat /\ now \in Seq(Values) /\ Len(now) = count
        /\ \A n \in 1 .. count : now[n] = elements[n - 1]
    BY StackFacts
  <2>2. count' \in Nat /\ then \in Seq(Values) /\ Len(then) = count'
        /\ \A n \in 1 .. count' : then[n] = elements'[n - 1]
    BY StackFacts
  <2> HIDE DEF now, then
  <2>3. ASSUME NEW value \in Values, PushExpand(value) \/ Push(value)
        PROVE  then = Append(now, value)
    <3>1. count' = count + 1 /\ elements'[count] = value
          /\ \A n \in 0 .. count - 1 : elements'[n] = elements[n]
      <4>1. PICK kept \in SUBSET DOMAIN elements :
              /\ 0 .. count - 1 \subseteq kept
              /\ elements' = [n \in kept \cup {count} |-> IF n = count THEN value ELSE elements[n]]
        BY <2>3, PushStep
      <4>2. count' = count + 1
        BY <2>3, PushStep
      <4> QED BY <2>1, <4>1, <4>2
    <3>2. Append(now, value) \in Seq(Values) /\ Len(Append(now, value)) = count'
          /\ \A n \in 1 .. count : Append(now, value)[n] = now[n]
          /\ Append(now, value)[count'] = value
      BY <2>1, <3>1, AppendProperties
    <3>3. \A n \in 1 .. count' : then[n] = Append(now, value)[n]
      <4>1. \A n \in 1 .. count : n \in 1 .. count' /\ n - 1 \in 0 .. count - 1
        BY <2>1, <3>1
      <4>2. \A n \in 1 .. count : then[n] = Append(now, value)[n]
        BY <2>1, <2>2, <3>1, <3>2, <4>1
      <4>3. then[count'] = value
        BY <2>1, <2>2, <3>1
      <4>4. \A n \in 1 .. count' : n \in 1 .. count \/ n = count'
        BY <2>1, <3>1
      <4> QED BY <3>2, <4>2, <4>3, <4>4
    <3> QED BY <2>2, <3>2, <3>3, SeqEqual
  <2>4. ASSUME Pop PROVE now # <<>> /\ then = SubSeq(now, 1, Len(now) - 1)
    <3>1. count > 0 /\ count' = count - 1 /\ elements' = elements
      BY <2>4 DEF Pop
    <3>2. now # <<>>
      BY <2>1, <3>1, EmptySeq
    <3>3. SubSeq(now, 1, count - 1) \in Seq(Values) /\ Len(SubSeq(now, 1, count - 1)) = count - 1
          /\ \A n \in 1 .. count - 1 : SubSeq(now, 1, count - 1)[n] = now[n]
      <4>1. \A n \in 1 .. count - 1 : now[n] \in Values
        BY <2>1, ElementOfSeq
      <4> QED BY <2>1, <3>1, <4>1, SubSeqProperties
    <3>4. \A n \in 1 .. count - 1 : then[n] = SubSeq(now, 1, count - 1)[n]
      BY <2>1, <2>2, <3>1, <3>3
    <3>5. then = SubSeq(now, 1, count - 1)
      BY <2>2, <3>1, <3>3, <3>4, SeqEqual
    <3> QED BY <2>1, <3>2, <3>5
  <2>5. ASSUME Clear PROVE then = <<>>
    BY <2>2, <2>5, EmptySeq DEF Clear
  <2>6. /\ \A value \in Values : S!Push(value) <=> then = Append(now, value)
        /\ S!Pop <=> now # <<>> /\ then = SubSeq(now, 1, Len(now) - 1)
        /\ S!Clear <=> then = <<>>
    BY DEF S!Push, S!Pop, S!Clear, now, then, StackOf
  <2> QED BY <2>3, <2>4, <2>5, <2>6
<1>3. ArrayInv /\ [Next]_vars => [CallsOnStack]_vars
  BY <1>2
<1>4. ArrayInv /\ [Next]_vars => ArrayInv'
  BY ArrayNext
<1> QED BY ArrayInit, <1>1, <1>3, <1>4, PTL DEF Spec, IsStack
=============================================================================
