-------------------------- MODULE StringTextProofs --------------------------
(***************************************************************************)
(* What the string functions read and what length they answer, for every   *)
(* length and size, until a write or a read goes outside.                  *)
(***************************************************************************)
EXTENDS StringText, TLAPS

Fates   == {"whole", "cut", "blank"}
Strings == [tag: {"none", "heap", "weak"}, length: Nat, text: Nat, room: Nat, fate: Fates]

(* There is a terminator, or the length stays in front of where it should  *)
(* be, or the text was never written; and LengthHonest of one string.      *)
Bounded(s) == s.fate = "blank" \/ s.text < s.room \/ (s.tag = "heap" /\ s.length < s.room)
Honest(s)  == s.fate = "whole" => StringLength(s) = Lesser(s.text, s.room - 1)
Good(s)    == s \in Strings /\ Bounded(s) /\ Honest(s)

Inv == /\ strings \in [Slots -> Strings]
       /\ \A i \in Slots : Good(strings[i])
       /\ ReadsInside

(* Putting a string into a slot keeps all of them good, if it is good or   *)
(* too large for its room.                                                 *)
LEMMA PutKeeps ==
  ASSUME Inv, NEW i \in Slots, NEW s, NEW bytes, bytes <= s.room => Good(s), s.room \in Int,
         bytes \in Nat, Put(i, s, bytes), ReadsInside'
  PROVE  Inv'
<1>1. CASE bytes <= s.room
  BY <1>1 DEF Inv, Put, Good
<1>2. CASE bytes > s.room
  BY <1>2 DEF Inv, Put, Good
<1> QED BY <1>1, <1>2

LEMMA LiteralGood ==
  ASSUME NEW n \in Nat
  PROVE  Good(Literal(n)) /\ Literal(n).room \in Nat
BY DEF Literal, String, Good, Strings, Fates, Bounded, Honest, StringLength, Lesser

LEMMA InvInit == Init => Inv
BY LiteralGood, TextAssumption DEF TextAssumption, Init, Inv, Good, ReadsInside

(* strncpy stays inside a good source that was written.                    *)
LEMMA ReadsFit ==
  ASSUME NEW s, Good(s)
  PROVE  /\ StringLength(s) \in Nat
         /\ s.fate # "blank" => Reads(s, StringLength(s)) <= s.room
BY DEF Good, Strings, Bounded, StringLength, Reads, Lesser

LEMMA ReadOfFits ==
  ASSUME NEW s, Good(s), ReadOf(s)
  PROVE  ReadsInside'
BY ReadsFit DEF ReadOf, ReadsInside, Good, Strings, Reads, Lesser

(* The copies that string_new and string_from make.                        *)
LEMMA CopyGood ==
  ASSUME NEW s, Good(s), NEW stray \in {0, 1}, NEW room \in Nat, StringLength(s) < room
  PROVE  LET n    == StringLength(s)
             text == IF s.text < n THEN s.text ELSE Kept(s, n) + stray
         IN  /\ Good(String("heap", n, text, n + 1, CopyFate(s)))
             /\ Good(String("weak", n, Kept(s, n), room, CopyFate(s)))
<1> DEFINE n == StringLength(s)
<1>1. n \in Nat /\ s.text \in Nat /\ s.room \in Nat /\ s.fate \in Fates
  BY ReadsFit DEF Good, Strings
<1>2. s.fate = "whole" => n = Lesser(s.text, s.room - 1)
  BY DEF Good, Honest
<1>3. s.fate = "whole" => s.text >= n
  BY <1>1, <1>2 DEF Lesser
<1>4. CopyFate(s) \in Fates /\ (CopyFate(s) = "whole" => s.fate = "whole")
  BY <1>1 DEF CopyFate, Fates
<1> QED
  BY <1>1, <1>3, <1>4 DEF Good, Strings, Bounded, Honest, StringLength, Lesser, Kept, String

(* What vsnprintf leaves in a buffer.                                      *)
LEMMA PrintKeeps ==
  ASSUME Inv, NEW i \in Slots, NEW tag \in {"heap", "weak"}, NEW n \in Nat, NEW limit \in Nat,
         NEW room \in Int, limit = 0 => room >= 0, Vsnprintf(i, tag, n, limit, room)
  PROVE  Inv'
<1> DEFINE fate == CASE limit = 0 -> "blank" [] limit \in 1 .. n -> "cut" [] OTHER -> "whole"
           s(text) == String(tag, n, text, room, fate)
           bytes   == Lesser(n + 1, limit)
<1>1. PICK text \in IF limit = 0 THEN 0 .. room ELSE {Lesser(n, limit - 1)} :
        Put(i, s(text), bytes)
  BY DEF Vsnprintf
<1>2. text \in Nat /\ bytes \in Nat
  BY DEF Lesser
<1>3. fate \in Fates
  BY DEF Fates
<1>4. limit # 0 => bytes = text + 1
  BY <1>2 DEF Lesser
<1>5. ASSUME bytes <= room PROVE Good(s(text))
  <2>1. room \in Nat
    BY <1>2, <1>5
  <2>2. s(text) \in Strings
    BY <1>2, <1>3, <2>1 DEF String, Strings
  <2>3. Bounded(s(text))
    BY <1>2, <1>4, <1>5 DEF String, Bounded
  <2>4. fate = "whole" => limit # 0 /\ n < limit /\ text = n
    BY DEF Lesser
  <2>5. Honest(s(text))
    BY <1>2, <1>4, <1>5, <2>4 DEF String, Honest, StringLength, Lesser
  <2> QED BY <2>2, <2>3, <2>5 DEF Good
<1>6. s(text).room = room
  BY DEF String
<1>7. ReadsInside'
  BY DEF Vsnprintf, ReadNothing, ReadsInside
<1> HIDE DEF s, bytes
<1> QED BY <1>1, <1>2, <1>5, <1>6, <1>7, PutKeeps

LEMMA InvNext == Inv /\ [Next]_vars => Inv'
<1> SUFFICES ASSUME Inv, [Next]_vars PROVE Inv'
  OBVIOUS
<1>0. HEADER \in Nat /\ Sizes \subseteq Nat /\ Lengths \subseteq Nat
  BY TextAssumption DEF TextAssumption
<1>1. ASSUME NEW i \in Slots, NEW j \in Slots, New(i, j) PROVE Inv'
  <2> DEFINE s == strings[j]  n == StringLength(s)
  <2>1. Good(s) /\ n \in Nat /\ s.room \in Nat
    BY ReadsFit DEF Inv, Good, Strings
  <2>2. CASE s.tag = "heap"
    <3>1. Put(i, s, 0) /\ ReadsInside'
      BY <1>1, <2>2 DEF New, ReadNothing, ReadsInside
    <3> QED BY <2>1, <3>1, PutKeeps
  <2>3. CASE s.tag # "heap" /\ n = 0
    <3>1. Put(i, EMPTY_STRING, 0) /\ ReadsInside'
      BY <1>1, <2>3 DEF New, ReadNothing, ReadsInside
    <3> QED BY <3>1, LiteralGood, PutKeeps DEF EMPTY_STRING
  <2>4. CASE s.tag # "heap" /\ n # 0
    <3>1. PICK stray \in {0, 1} :
            LET text == IF s.text < n THEN s.text ELSE Kept(s, n) + stray
            IN  Put(i, String("heap", n, text, n + 1, CopyFate(s)), n)
      BY <1>1, <2>4 DEF New
    <3>2. ReadsInside'
      BY <1>1, <2>1, <2>4, ReadOfFits DEF New
    <3> DEFINE text == IF s.text < n THEN s.text ELSE Kept(s, n) + stray
               copy == String("heap", n, text, n + 1, CopyFate(s))
    <3>3. n + 1 \in Nat /\ n < n + 1
      BY <2>1
    <3>4. Good(copy) /\ copy.room = n + 1
      BY <2>1, <3>3, CopyGood DEF String
    <3>5. Put(i, copy, n)
      BY <3>1
    <3> HIDE DEF copy, text
    <3> QED BY <2>1, <3>2, <3>3, <3>4, <3>5, PutKeeps
  <2> QED BY <2>2, <2>3, <2>4
<1>2. ASSUME NEW i \in Slots, NEW j \in Slots, NEW size \in Sizes, From(i, j, size) PROVE Inv'
  <2> DEFINE s == strings[j]  n == StringLength(s)
  <2>1. Good(s) /\ n \in Nat
    BY ReadsFit DEF Inv
  <2>2. CASE n = 0
    <3>1. Put(i, EMPTY_STRING, 0) /\ ReadsInside'
      BY <1>2, <2>2 DEF From, ReadNothing, ReadsInside
    <3> QED BY <3>1, LiteralGood, PutKeeps DEF EMPTY_STRING
  <2>3. CASE n # 0
    <3> DEFINE copy == String("weak", n, Kept(s, n), size - HEADER, CopyFate(s))
    <3>1. Put(i, copy, n + 1) /\ ReadOf(s)
      BY <1>2, <2>3 DEF From
    <3>2. ReadsInside'
      BY <2>1, <3>1, ReadOfFits
    <3>3. copy.room = size - HEADER /\ size - HEADER \in Int /\ n + 1 \in Nat
      BY <1>0, <2>1 DEF String
    <3>4. n + 1 <= size - HEADER => Good(copy)
      <4> SUFFICES ASSUME n + 1 <= size - HEADER PROVE Good(copy)
        OBVIOUS
      <4>1. size - HEADER \in Nat /\ n < size - HEADER
        BY <2>1, <3>3
      <4> QED BY <2>1, <4>1, CopyGood
    <3> HIDE DEF copy
    <3> QED BY <3>1, <3>2, <3>3, <3>4, PutKeeps
  <2> QED BY <2>2, <2>3
<1>3. ASSUME NEW i \in Slots, NEW size \in Sizes, NEW n \in Lengths,
             Format(i, size, n) \/ FormatArgv(i, size, n)
      PROVE  Inv'
  BY <1>0, <1>3, PrintKeeps DEF Format, FormatArgv
<1>4. ASSUME NEW i \in Slots, NEW size \in Sizes, NEW n \in Lengths, FormatBuffer(i, size, n)
      PROVE  Inv'
  <2>1. size - HEADER \in Int /\ HEADER < SIZE_RANGE /\ size < SIZE_RANGE /\ SIZE_RANGE \in Nat
    BY <1>0, TextAssumption DEF TextAssumption
  <2>2. Limit(size) = IF size >= HEADER THEN size - HEADER ELSE size - HEADER + SIZE_RANGE
    BY <1>0, <2>1 DEF Limit
  <2>3. Limit(size) \in Nat /\ (Limit(size) = 0 => size - HEADER >= 0)
    BY <1>0, <2>1, <2>2
  <2> QED BY <1>0, <1>4, <2>1, <2>3, PrintKeeps DEF FormatBuffer
<1>5. CASE UNCHANGED vars
  BY <1>5 DEF vars, Inv, ReadsInside
<1> QED BY <1>1, <1>2, <1>3, <1>4, <1>5 DEF Next

LEMMA Invariant == Spec => []Inv
<1>1. Inv /\ [Next]_vars => Inv'
  BY InvNext
<1> QED BY InvInit, <1>1, PTL DEF Spec

(* No call reads behind its source, terminated or not, unless that was     *)
(* never written.                                                          *)
THEOREM ReadsInsideCorrect == Spec => []ReadsInside
<1>1. Inv => ReadsInside
  BY DEF Inv
<1> QED BY Invariant, <1>1, PTL

(* Only cutting a text short makes the length of it or its copies lie.     *)
THEOREM LengthHonestCorrect == Spec => []LengthHonest
<1>1. Inv => LengthHonest
  BY DEF Inv, Good, Honest, LengthHonest
<1> QED BY Invariant, <1>1, PTL
=============================================================================
