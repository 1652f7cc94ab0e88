-------------------------- MODULE FileSystemProofs --------------------------
(***************************************************************************)
(* Reads and writes stay inside the buffer or the file, a short one means  *)
(* the end, and a caller that reads until is_eof gets everything: for      *)
(* every interface, buffer, file, request and search path.                 *)
(***************************************************************************)
EXTENDS FileSystem, TLAPS

(* What the handle, the flag and the last transfer say of the interface.   *)
(* The flag of a C library file is only set at the end or past it, and     *)
(* whatever could change that clears it.                                   *)
Streams ==
  /\ handle = "none" => access = {} /\ ~eof
  /\ inteface = "memory" => handle = "none"
  /\ eof => inteface = "stdio" /\ cursor >= length

(* No cursor leaves a buffer or a Windows file unless a seek or a request  *)
(* that overflows led it out.                                              *)
CursorInRange ==
  /\ inteface # "memory" => cursor >= 0
  /\ ~strayed /\ inteface # "stdio" => cursor >= 0 /\ cursor <= length

Inv == TypeOK /\ CursorInRange /\ TransfersInside /\ ShortOnlyAtEnd /\ Streams

(* The computation of lines 90-92 and 101-103 for a cursor in the buffer   *)
(* and a sum that does not overflow.                                       *)
LEMMA ClampInside ==
  ASSUME NEW size \in Nat, length \in Nat, cursor \in 0 .. length,
         cursor + size <= INT32_MAX, NEW sum \in {cursor + size, Wrap(cursor + size)}
  PROVE  /\ Clamp(size, sum) \in 0 .. size
         /\ cursor + Clamp(size, sum) \in 0 .. length
         /\ Wrap(cursor + Clamp(size, sum)) = cursor + Clamp(size, sum)
         /\ Clamp(size, sum) < size => cursor + Clamp(size, sum) = length
<1>1. INT32_MAX \in Nat /\ cursor \in Nat
  BY StreamAssumption DEF StreamAssumption
<1>2. \A n \in Nat : n <= INT32_MAX => Wrap(n) = n
  BY <1>1 DEF Wrap
<1>3. sum = cursor + size
  BY <1>1, <1>2
<1> QED
  BY <1>1, <1>2, <1>3 DEF Clamp

LEMMA WrapInt == ASSUME NEW n \in Int PROVE Wrap(n) \in Int
BY StreamAssumption DEF StreamAssumption, Wrap

(* fs_get_exists_path leads to a file that is there.                       *)
LEMMA ExistsPathExists ==
  ASSUME TypeOK, NEW place \in Places, ExistsPath(place)
  PROVE  disk[place] \in Nat
BY DEF TypeOK, ExistsPath, fs_exists, Absent

LEMMA InvInit == Init => Inv
<1> SUFFICES ASSUME Init PROVE Inv
  OBVIOUS
<1>1. length \in Nat /\ disk \in [Places -> Nat \cup {Absent}]
  <2>1. Lengths \subseteq Nat
    BY StreamAssumption DEF StreamAssumption
  <2> QED BY <2>1 DEF Init
<1>2. TypeOK
  <2>1. /\ inteface \in {"memory", "stdio", "windows"} /\ handle \in Places \cup {"none"}
        /\ access \subseteq {"read", "write", "append"} /\ last \in {"none", "read", "write"}
    BY DEF Init
  <2>2. {cursor, from, asked, moved} \subseteq Int
    BY DEF Init
  <2>3. {eof, answer, strayed} \subseteq BOOLEAN /\ loop \in {"none", "plain", "asking"}
    BY DEF Init
  <2> QED BY <1>1, <2>1, <2>2, <2>3 DEF TypeOK
<1>3. CursorInRange /\ TransfersInside /\ ShortOnlyAtEnd
  BY <1>1 DEF Init, CursorInRange, TransfersInside, ShortOnlyAtEnd
<1>4. Streams
  BY DEF Init, Streams
<1> QED
  BY <1>2, <1>3, <1>4 DEF Inv

(* A file opened with its right length and a buffer of one of the Lengths. *)
LEMMA OpenKeeps ==
  ASSUME Inv, NEW size \in Nat, Open(size), handle = "none", eof' = eof, last' = last, loop' = loop,
         answer' = answer,
         disk' \in [Places -> Nat \cup {Absent}],
         inteface' \in {"memory", "stdio", "windows"}, handle' \in Places \cup {"none"},
         access' \subseteq {"read", "write", "append"},
         handle' = "none" => access' = {}, inteface' = "memory" => handle' = "none"
  PROVE  Inv'
<1>1. /\ length' \in Nat /\ cursor' = 0 /\ from' = 0 /\ asked' = 0 /\ moved' = 0 /\ strayed' = FALSE
      /\ {cursor', from', asked', moved'} \subseteq Int
  BY DEF Open, Untouched
<1>2. eof' = FALSE /\ answer' \in BOOLEAN /\ last' \in {"none", "read", "write"}
      /\ loop' \in {"none", "plain", "asking"}
  BY DEF Inv, TypeOK, Streams
<1>3. {eof', answer', strayed'} \subseteq BOOLEAN
  BY <1>1, <1>2
<1>4. TypeOK'
  BY <1>1, <1>2, <1>3 DEF TypeOK
<1>5. CursorInRange' /\ TransfersInside' /\ ShortOnlyAtEnd'
  BY <1>1 DEF CursorInRange, TransfersInside, ShortOnlyAtEnd
<1>6. Streams'
  BY <1>2 DEF Streams
<1> QED BY <1>4, <1>5, <1>6 DEF Inv

LEMMA InvNext == Inv /\ [Next]_vars => Inv'
<1> SUFFICES ASSUME Inv, [Next]_vars PROVE Inv'
  OBVIOUS
<1> USE DEF Inv
<1>0. /\ length \in Nat /\ cursor \in Int /\ (inteface # "memory" => cursor \in Nat)
      /\ (~strayed /\ inteface # "stdio" => cursor \in 0 .. length)
      /\ disk \in [Places -> Nat \cup {Absent}]
  BY DEF TypeOK, CursorInRange
<1>1. ASSUME UNCHANGED <<disk, bytes, opened, eof, last>>, answer' \in BOOLEAN,
             loop' \in {"none", "plain", "asking"}
      PROVE  Inv'
  BY <1>1 DEF bytes, opened, TypeOK, CursorInRange, TransfersInside,
     ShortOnlyAtEnd, Streams, is_eof, AtEnd
<1>2. ASSUME NEW path \in Dirs, AddSearchPath(path) \/ RemoveSearchPath(path) PROVE Inv'
  BY <1>1, <1>2 DEF AddSearchPath, RemoveSearchPath, TypeOK
<1>3. ASSUME NEW size \in Lengths, OpenMemory(size) PROVE Inv'
  <2>1. size \in Nat
    BY StreamAssumption DEF StreamAssumption
  <2> QED
    BY <1>0, <1>3, <2>1, OpenKeeps DEF OpenMemory, MayOpen, TypeOK, Streams
<1>4. ASSUME NEW kind \in {"stdio", "windows"}, NEW place \in Places, NEW size \in Nat,
             NEW may \in SUBSET {"read", "write", "append"}, OpenFile(kind, place, size, may)
      PROVE  Inv'
  <2>1. disk' \in [Places -> Nat \cup {Absent}]
    BY <1>0, <1>4 DEF OpenFile
  <2> QED
    BY <1>4, <2>1, FileAssumption, OpenKeeps DEF OpenFile, MayOpen, FileAssumption
<1>5. ASSUME NEW mode \in SUBSET Flags, OpenStdio(mode) PROVE Inv'
  <2>1. PICK place \in Places :
          /\ ExistsPath(place)
          /\ OpenFile("stdio", place, IF "Read" \in mode THEN disk[place] ELSE 0, StdioAccess(mode))
    BY <1>5 DEF OpenStdio
  <2>2. disk[place] \in Nat
    BY <2>1, ExistsPathExists
  <2> QED
    BY <1>4, <2>1, <2>2 DEF StdioAccess
<1>6. ASSUME NEW mode \in SUBSET Flags, OpenWindows(mode) PROVE Inv'
  <2>1. Here \in Places /\ disk[Here] \in Nat
    BY <1>0, <1>6 DEF OpenWindows, fs_exists, Absent, Places
  <2> QED
    BY <1>4, <1>6, <2>1 DEF OpenWindows, WindowsAccess
<1>7. ASSUME NEW size \in Requests, TransferMemory(size), loop' \in {"none", "plain", "asking"} PROVE Inv'
  <2>1. size \in Nat
    BY StreamAssumption DEF StreamAssumption
  <2>2. PICK sum \in {cursor + size, Wrap(cursor + size)} :
          /\ from' = cursor /\ asked' = size /\ moved' = Clamp(size, sum)
          /\ cursor' = Wrap(cursor + Clamp(size, sum))
          /\ strayed' = (strayed \/ cursor + size > INT32_MAX)
          /\ UNCHANGED length
    BY <1>7 DEF TransferMemory, Transfer
  <2>3. UNCHANGED <<disk, inteface, handle, access, eof, last, answer>> /\ inteface = "memory"
    BY <1>7 DEF TransferMemory, opened
  <2>4. Clamp(size, sum) \in Int
    BY <1>0, <2>1 DEF Clamp
  <2>5. {from', asked', moved', cursor'} \subseteq Int
    BY <1>0, <2>1, <2>2, <2>4, WrapInt
  <2>6. strayed' \in BOOLEAN
    BY <2>2
  <2>7. TypeOK'
    BY <1>7, <2>2, <2>3, <2>5, <2>6 DEF TypeOK
  <2>8. ASSUME ~strayed' PROVE CursorInRange' /\ TransfersInside' /\ ShortOnlyAtEnd'
    <3>4. ~strayed /\ ~(cursor + size > INT32_MAX)
      BY <2>2, <2>8
    <3>1. ~strayed /\ cursor + size <= INT32_MAX
      BY <1>0, <2>1, <3>4, StreamAssumption DEF StreamAssumption
    <3>2. cursor \in 0 .. length
      BY <1>0, <2>3, <3>1
    <3>3. /\ Clamp(size, sum) \in 0 .. size /\ cursor + Clamp(size, sum) \in 0 .. length
          /\ Wrap(cursor + Clamp(size, sum)) = cursor + Clamp(size, sum)
          /\ Clamp(size, sum) < size => cursor + Clamp(size, sum) = length
      BY <1>0, <2>1, <3>1, <3>2, ClampInside
    <3> QED
      BY <1>0, <2>1, <2>2, <2>3, <3>2, <3>3 DEF CursorInRange, TransfersInside, ShortOnlyAtEnd, is_eof, AtEnd
  <2>9. ASSUME strayed' PROVE CursorInRange' /\ TransfersInside' /\ ShortOnlyAtEnd'
    BY <2>3, <2>9 DEF CursorInRange, TransfersInside, ShortOnlyAtEnd
  <2>10. Streams'
    BY <2>3 DEF Streams
  <2> QED BY <2>7, <2>8, <2>9, <2>10
<1>8. ASSUME NEW size \in Requests, ReadFile(size), loop' \in {"none", "plain", "asking"} PROVE Inv'
  <2>1. size \in Nat
    BY StreamAssumption DEF StreamAssumption
  <2>12. inteface # "memory" /\ cursor \in Nat
    BY <1>0, <1>8 DEF ReadFile, Streams
  <2>2. Lesser(size, Left) \in 0 .. size /\ Lesser(size, Left) <= Left /\ Left \in Nat
    BY <1>0, <2>1 DEF Lesser, Left, Greater
  <2>3. /\ Lesser(size, Left) > 0 => cursor + Lesser(size, Left) <= length
        /\ Lesser(size, Left) < size => cursor + Lesser(size, Left) >= length
        /\ ~strayed /\ inteface # "stdio" => cursor + Lesser(size, Left) <= length
    BY <1>0, <2>1, <2>12 DEF Lesser, Left, Greater
  <2>4. TypeOK'
    BY <1>0, <1>8, <2>1, <2>2 DEF ReadFile, opened, TypeOK
  <2>5. CursorInRange' /\ TransfersInside'
    BY <1>0, <1>8, <2>1, <2>2, <2>3, <2>12 DEF ReadFile, opened, CursorInRange, TransfersInside
  <2>6. /\ UNCHANGED <<inteface, handle, access, length>> /\ cursor' = cursor + Lesser(size, Left)
        /\ asked' = size /\ moved' = Lesser(size, Left) /\ "read" \in access
        /\ eof' <=> inteface = "stdio" /\ (eof \/ Lesser(size, Left) < size)
    BY <1>8 DEF ReadFile, opened
  <2>7. inteface = "stdio" \/ inteface = "windows"
    BY <2>6 DEF Streams, TypeOK
  <2>8. eof \/ Lesser(size, Left) < size => cursor + Lesser(size, Left) >= length
    BY <1>0, <2>2, <2>3 DEF Streams
  <2>9. Streams'
    BY <2>6, <2>8 DEF Streams
  <2>10. ASSUME inteface = "stdio" PROVE ShortOnlyAtEnd'
    <3>1. moved' < asked' => eof'
      BY <2>6, <2>10
    <3> QED
      BY <2>6, <2>10, <3>1 DEF ShortOnlyAtEnd, is_eof
  <2>13. strayed' = strayed
    BY <1>8 DEF ReadFile
  <2>11. ASSUME inteface = "windows" PROVE ShortOnlyAtEnd'
    <3>1. ~strayed' /\ moved' < asked' => cursor' = length'
      BY <1>0, <2>2, <2>3, <2>6, <2>11, <2>12, <2>13
    <3> QED
      BY <2>6, <2>11, <3>1 DEF ShortOnlyAtEnd, is_eof, AtEnd
  <2> QED BY <2>4, <2>5, <2>7, <2>9, <2>10, <2>11
<1>9. ASSUME NEW size \in Requests, WriteFile(size), loop' \in {"none", "plain", "asking"} PROVE Inv'
  <2>1. size \in Nat /\ size > 0
    BY <1>9, StreamAssumption DEF StreamAssumption, WriteFile
  <2>2. handle \in Places /\ inteface \in {"stdio", "windows"}
    BY <1>9 DEF WriteFile, Streams, TypeOK
  <2>3. Start \in Nat /\ (eof => Start >= length)
    BY <1>0, <2>2 DEF Start, Streams
  <2>4. /\ length' \in Nat /\ length' >= Start + size /\ (eof => length' = Start + size)
        /\ cursor' = Start + size
    BY <1>0, <1>9, <2>1, <2>3 DEF WriteFile, Greater
  <2>5. disk' \in [Places -> Nat \cup {Absent}]
    BY <1>0, <1>9, <2>4 DEF WriteFile
  <2> QED
    BY <1>9, <2>1, <2>2, <2>3, <2>4, <2>5 DEF WriteFile, opened, TypeOK, CursorInRange,
       TransfersInside, ShortOnlyAtEnd, Streams
<1>10. ASSUME NEW offset \in Offsets, NEW count \in Counts, SeekMemory(offset, count) PROVE Inv'
  <2>1. Target(offset, count) \in Int
    BY <1>0, WrapInt, StreamAssumption DEF StreamAssumption, AllOffsets, ValidOffsets, Target
  <2>2. /\ cursor' = Target(offset, count) /\ length' = length /\ from' = 0 /\ asked' = 0 /\ moved' = 0
        /\ strayed' = (Target(offset, count) \notin 0 .. length)
    BY <1>10 DEF SeekMemory, Seek, Untouched
  <2>3. /\ UNCHANGED <<disk, inteface, handle, access, eof, last, loop>> /\ inteface = "memory"
        /\ answer' = TRUE
    BY <1>10 DEF SeekMemory, opened
  <2>4. {cursor', from', asked', moved'} \subseteq Int /\ {eof', answer', strayed'} \subseteq BOOLEAN
    BY <2>1, <2>2, <2>3 DEF TypeOK
  <2>5. TypeOK'
    BY <2>2, <2>3, <2>4 DEF TypeOK
  <2>8. ASSUME ~strayed' PROVE cursor' >= 0 /\ cursor' <= length'
    <3>1. Target(offset, count) \in 0 .. length
      BY <2>2, <2>8
    <3> QED BY <1>0, <2>1, <2>2, <3>1
  <2>6. CursorInRange'
    BY <2>3, <2>8 DEF CursorInRange
  <2>7. TransfersInside' /\ ShortOnlyAtEnd' /\ Streams'
    BY <2>2, <2>3 DEF TransfersInside, ShortOnlyAtEnd, Streams
  <2> QED BY <2>5, <2>6, <2>7
<1>11. ASSUME NEW offset \in Offsets, NEW count \in Counts, SeekFile(offset, count) PROVE Inv'
  <2>1. FileTarget(offset, count) \in Int
    BY <1>0, StreamAssumption DEF StreamAssumption, AllOffsets, ValidOffsets, FileTarget
  <2>2. cursor' \in Nat /\ strayed' = (inteface = "windows" /\ cursor' > length)
    BY <2>1, <1>11, FileAssumption DEF SeekFile, FileAssumption
  <2>3. /\ UNCHANGED <<disk, inteface, handle, access, length, loop>> /\ inteface # "memory"
        /\ eof' = FALSE /\ last' = "none" /\ from' = 0 /\ asked' = 0 /\ moved' = 0
        /\ answer' = (inteface # "stdio")
    BY <1>11 DEF SeekFile, Untouched, opened, Streams
  <2>4. {cursor', from', asked', moved'} \subseteq Int
    BY <2>2, <2>3
  <2>5. {eof', answer', strayed'} \subseteq BOOLEAN
    BY <2>2, <2>3
  <2>6. TypeOK'
    BY <2>3, <2>4, <2>5 DEF TypeOK
  <2>9. ASSUME ~strayed', inteface' # "stdio" PROVE cursor' <= length'
    <3>1. inteface = "windows" /\ ~(cursor' > length)
      BY <2>2, <2>3, <2>9 DEF TypeOK
    <3> QED BY <1>0, <2>2, <2>3, <3>1
  <2>7. CursorInRange'
    BY <2>2, <2>9 DEF CursorInRange
  <2>8. TransfersInside' /\ ShortOnlyAtEnd' /\ Streams'
    BY <2>3 DEF TransfersInside, ShortOnlyAtEnd, Streams
  <2> QED BY <2>6, <2>7, <2>8
<1>17. ASSUME NEW offset \in Offsets, NEW count \in Counts, SeekFails(offset, count) PROVE Inv'
  BY <1>1, <1>17 DEF SeekFails, TypeOK
<1>12. ASSUME GetSize \/ Flush \/ Close PROVE Inv'
  <2>1. ASSUME UNCHANGED <<disk, inteface, cursor, length, loop, strayed, answer>>, eof' = FALSE,
               last' = "none", Untouched, handle' \in Places \cup {"none"},
               access' \subseteq {"read", "write", "append"}, handle' = "none" => access' = {},
               handle' \in {handle, "none"}
        PROVE  Inv'
    <3>1. from' = 0 /\ asked' = 0 /\ moved' = 0
      BY <2>1 DEF Untouched
    <3>2. {cursor', from', asked', moved'} \subseteq Int
      BY <1>0, <2>1, <3>1
    <3>5. {eof', answer', strayed'} \subseteq BOOLEAN
      <4>1. {answer, strayed} \subseteq BOOLEAN
        BY DEF TypeOK
      <4> QED BY <2>1, <4>1
    <3>3. TypeOK'
      BY <2>1, <3>2, <3>5 DEF TypeOK
    <3>4. CursorInRange' /\ TransfersInside' /\ ShortOnlyAtEnd' /\ Streams'
      BY <2>1, <3>1 DEF CursorInRange, TransfersInside, ShortOnlyAtEnd, Streams
    <3> QED BY <3>3, <3>4
  <2>3. CASE GetSize
    BY <2>1, <2>3 DEF GetSize, opened, TypeOK, Streams
  <2>4. CASE Close
    BY <2>1, <2>4 DEF Close, opened, TypeOK, Streams
  <2>2. CASE Flush
    BY <2>2 DEF Flush, bytes, opened, TypeOK, CursorInRange, TransfersInside, ShortOnlyAtEnd,
       Streams, is_eof, AtEnd
  <2> QED BY <1>12, <2>2, <2>3, <2>4
<1>13. ASSUME BeginLoop \/ EndLoop PROVE Inv'
  BY <1>1, <1>13 DEF BeginLoop, EndLoop, TypeOK
<1>14. ASSUME ReadOn PROVE Inv'
  <2>1. PICK size \in Requests \ {0} : Read(size)
    BY <1>14 DEF ReadOn
  <2> QED
    BY <1>7, <1>8, <1>14, <2>1 DEF ReadOn, Read, TypeOK
<1>15. ASSUME NEW size \in Requests, (Read(size) /\ UNCHANGED loop) \/ Write(size) PROVE Inv'
  BY <1>7, <1>8, <1>9, <1>15 DEF Read, Write, TypeOK
<1>16. CASE UNCHANGED vars
  BY <1>1, <1>16 DEF vars, TypeOK
<1> QED
  BY <1>2, <1>3, <1>5, <1>6, <1>10, <1>11, <1>12, <1>13, <1>14, <1>15, <1>16, <1>17 DEF Next

LEMMA Invariant == Spec => []Inv
<1>1. Inv /\ [Next]_vars => Inv'
  BY InvNext
<1> QED BY InvInit, <1>1, PTL DEF Spec

(* Places, handles, rights and lengths keep their types.                   *)
THEOREM TypeCorrect == Spec => []TypeOK
<1>1. Inv => TypeOK
  BY DEF Inv
<1> QED BY Invariant, <1>1, PTL

(* No read or write leaves the file; none leaves the buffer unless a seek  *)
(* or an overflow of the sum led out of it.                                *)
THEOREM TransfersInsideCorrect == Spec => []TransfersInside
<1>1. Inv => TransfersInside
  BY DEF Inv
<1> QED BY Invariant, <1>1, PTL

(* A short transfer means that is_eof answers true, for callers that seek  *)
(* inside the buffer or the Windows file.                                  *)
THEOREM ShortOnlyAtEndCorrect == Spec => []ShortOnlyAtEnd
<1>1. Inv => ShortOnlyAtEnd
  BY DEF Inv
<1> QED BY Invariant, <1>1, PTL

(* A loop until is_eof stops at the end, whichever interface it reads and  *)
(* wherever the cursor has been.                                           *)
THEOREM LoopReadsAllCorrect == Spec => LoopReadsAll
<1>1. Inv /\ [Next]_vars => [loop # "none" /\ loop' = "none" => cursor >= length]_vars
  <2> SUFFICES ASSUME Inv, Next, loop # "none", loop' = "none", ~UNCHANGED vars PROVE cursor >= length
    OBVIOUS
  <2>1. EndLoop
    BY DEF Next, AddSearchPath, RemoveSearchPath, OpenMemory, OpenStdio, OpenWindows, OpenFile,
       MayOpen, Write, SeekMemory, SeekFile, SeekFails, GetSize, Flush, Close, BeginLoop, ReadOn
  <2>2. is_eof
    BY <2>1 DEF EndLoop
  <2> QED
    BY <2>2 DEF Inv, Streams, TypeOK, is_eof, AtEnd
<1> QED BY Invariant, <1>1, PTL DEF Spec, LoopReadsAll

=============================================================================
