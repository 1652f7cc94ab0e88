----------------------------- MODULE StringText -----------------------------
(***************************************************************************)
(* The text of the strings of src/text/string_functions.cpp: what is       *)
(* stored as their length, where their terminator is, and which bytes the  *)
(* functions read and write, when strings made by one call are given to    *)
(* the next.  Counting references is in StringRef.  Built without          *)
(* assertions; the characters do not matter.                               *)
(***************************************************************************)
EXTENDS Integers

CONSTANTS
  Slots,       \* the variables of a caller that hold strings
  Lengths,     \* of literals, and of what a format comes to
  Sizes,       \* the buffer_size arguments
  HEADER,      \* sizeof(StringBuffer)
  SIZE_RANGE   \* one more than the largest size_t

ASSUME TextAssumption ==
  /\ Lengths \subseteq Nat /\ Sizes \subseteq Nat /\ HEADER \in Nat /\ SIZE_RANGE \in Nat
  /\ \A n \in Lengths \cup Sizes : HEADER + n < SIZE_RANGE

VARIABLES
  strings,                 \* what each slot holds
  wild,                    \* the last call wrote behind the buffer it was given
  read, readable, source   \* history: the bytes of text that the last call read,
                           \* how many there were, and the fate of that text

vars == <<strings, wild, read, readable, source>>

Lesser(a, b) == IF a < b THEN a ELSE b

(* text is where the first terminator is, or room if there is none in the  *)
(* room bytes that the string has.  fate is history: "whole", "cut" by a   *)
(* format, or "blank", made by a format that had no byte to write to.      *)
String(tag, length, text, room, fate) ==
  [tag |-> tag, length |-> length, text |-> text, room |-> room, fate |-> fate]
Literal(n) == String("none", 0, n, n + 1, "whole")
EMPTY_STRING == Literal(0)

(* A call hands out s, having written the first bytes of its text; what it *)
(* hands out if it wrote behind the room is not known.                     *)
Put(i, s, bytes) ==
  /\ wild' = (bytes > s.room)
  /\ strings' = IF wild' THEN strings ELSE [strings EXCEPT ![i] = s]

Init == /\ strings \in [Slots -> {Literal(n) : n \in Lengths}]
        /\ wild = FALSE /\ read = 0 /\ readable = 0 /\ source = "whole"

(* string_length: as stored behind a memtag of this library, or strlen.    *)
StringLength(s) == IF s.tag \in {"heap", "weak"} THEN s.length ELSE s.text

(* What strncpy reads of s to write n characters, and the characters of s  *)
(* it keeps: it stops behind the terminator and fills up with zeros.       *)
(* A definition named "...Mutant" is what a plausible bug would make of    *)
(* the one that follows it; the specification never uses it.               *)
ReadsMutant(s, n) == n
Reads(s, n)       == Lesser(s.text + 1, n)

KeptMutant(s, n) == Lesser(s.text, n - 1)
Kept(s, n)       == Lesser(s.text, n)

ReadOf(s)   == read' = Reads(s, StringLength(s)) /\ readable' = s.room /\ source' = s.fate
ReadNothing == read' = 0 /\ readable' = 0 /\ source' = "whole"

(* A copy of a blank string is terminated and as long as chance has it.    *)
CopyFate(s) == IF s.fate = "blank" THEN "cut" ELSE s.fate

(* string_new: another reference to a heap string, or a copy of length     *)
(* characters.  The byte behind a copy is what the allocator left there.   *)
New(i, j) ==
  LET s == strings[j]  n == StringLength(s)
  IN  \/ s.tag = "heap" /\ Put(i, s, 0) /\ ReadNothing
      \/ s.tag # "heap" /\ n = 0 /\ Put(i, EMPTY_STRING, 0) /\ ReadNothing
      \/ /\ s.tag # "heap" /\ n # 0
         /\ \E stray \in {0, 1} :
              LET text == IF s.text < n THEN s.text ELSE Kept(s, n) + stray
              IN  Put(i, String("heap", n, text, n + 1, CopyFate(s)), n)
         /\ ReadOf(s)

(* string_from: the assertion of line 90 asks for less room than is needed *)
(* for the header, the characters and the terminator.                      *)
From(i, j, size) ==
  LET s == strings[j]  n == StringLength(s)
  IN  IF n = 0
      THEN Put(i, EMPTY_STRING, 0) /\ ReadNothing
      ELSE /\ Put(i, String("weak", n, Kept(s, n), size - HEADER, CopyFate(s)), n + 1)
           /\ ReadOf(s)

(* vsnprintf of n characters into the first limit bytes of room.  It       *)
(* answers n, which is stored, however much it wrote.  For a limit of 0 it *)
(* writes nothing, not even a terminator: the text is what was there.      *)
Vsnprintf(i, tag, n, limit, room) ==
  /\ \E text \in IF limit = 0 THEN 0 .. room ELSE {Lesser(n, limit - 1)} :
       Put(i, String(tag, n, text, room, CASE limit = 0 -> "blank"
                                           [] limit \in 1 .. n -> "cut"
                                           [] OTHER -> "whole"),
           Lesser(n + 1, limit))
  /\ ReadNothing

Format(i, size, n)     == Vsnprintf(i, "heap", n, size, size + 1)
FormatArgv(i, size, n) == Vsnprintf(i, "heap", n, size, size + HEADER + 1)

(* The subtraction is of unsigned numbers: a buffer that cannot hold the   *)
(* header is taken for a huge one.                                         *)
Limit(size) == (size - HEADER) % SIZE_RANGE

FormatBuffer(i, size, n) == Vsnprintf(i, "weak", n, Limit(size), size - HEADER)

(* What follows a write or a read outside is not modelled.                 *)
Lost == wild \/ read > readable

Next ==
  \/ /\ ~Lost
     /\ \E i, j \in Slots :
          \/ New(i, j)
          \/ \E size \in Sizes : From(i, j, size)
          \/ \E size \in Sizes, n \in Lengths : Format(i, size, n) \/ FormatArgv(i, size, n)
          \/ \E size \in Sizes, n \in Lengths : FormatBuffer(i, size, n)
  \/ Lost /\ UNCHANGED vars

Spec == Init /\ [][Next]_vars

-----------------------------------------------------------------------------
(* No call reads behind the string it is given, also when the terminator   *)
(* is missing or the length is too large, unless that string was made by a *)
(* format with no byte to write to, which stores a length all the same.    *)
ReadsInside == read > readable => source = "blank"

(* A string that no format cut short, and no copy of one that a format cut *)
(* short, has as many characters as string_length answers; the missing     *)
(* terminator of string_new is behind them.                                *)
LengthHonest ==
  \A i \in Slots : LET s == strings[i]
                   IN  s.fate = "whole" => StringLength(s) = Lesser(s.text, s.room - 1)
=============================================================================
