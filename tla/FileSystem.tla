----------------------------- MODULE FileSystem -----------------------------
(***************************************************************************)
(* The file streams of include/fs/fs.h: a FileStream and the interface its *)
(* calls go to, a buffer (MemoryStream), a C library file                  *)
(* (src/fs/stdio/fs_stdio.cpp) or a Windows file                           *)
(* (src/fs/windows/fs_windows.cpp); and the search paths of src/fs/fs.cpp. *)
(* One file name is used; a place is a directory it may be in.             *)
(***************************************************************************)
EXTENDS MemoryStream, Sequences

CONSTANTS
  Here,        \* where the name alone leads to
  Dirs,        \* the search paths callers add
  MaxLength,   \* bound on the length of a file and on seeks past its end
  SEARCH_PATH_MAX_COUNT

Absent  == -1         \* the length of a file that is not there
Mangled == "mangled"  \* a path that names no directory
Places  == {Here} \cup Dirs
Flags   == {"Read", "Write", "Append", "Binary"}

ASSUME FileAssumption ==
  /\ MaxLength \in Nat /\ SEARCH_PATH_MAX_COUNT \in Nat
  /\ Mangled \notin Places /\ "none" \notin Places /\ Here \notin Dirs

VARIABLES
  disk,              \* the length of the file in each place
  search,            \* g_search_paths, the first g_search_path_count rows
  inteface,          \* stream->inteface
  handle,            \* the place of the open file; "none" is NULL or invalid
  access,            \* what the handle may do
  eof,               \* the end-of-file flag of the C library's stream
  last,              \* the last transfer on it since a seek or a flush
  answer,            \* what the last seek or flush answered
  loop               \* the caller that reads until fs_is_eof: "none", one that
                     \* does "plain" reads, one "asking" for the size as well

bytes  == <<length, cursor, from, asked, moved, strayed>>
opened == <<inteface, handle, access>>
vars   == <<disk, search, bytes, opened, eof, last, answer, loop>>

Greater(a, b) == IF a > b THEN a ELSE b
Lesser(a, b)  == IF a < b THEN a ELSE b

Init ==
  /\ disk \in [Places -> Lengths \cup {Absent}]
  /\ search = <<>> /\ strayed = FALSE /\ answer = TRUE
  /\ inteface = "memory" /\ handle = "none" /\ access = {} /\ eof = FALSE
  /\ last = "none" /\ loop = "none"
  /\ length \in Lengths /\ cursor = 0 /\ from = 0 /\ asked = 0 /\ moved = 0

-----------------------------------------------------------------------------
(* Search paths: a list of distinct names.  Adding one more than           *)
(* SEARCH_PATH_MAX_COUNT is left to the caller.                            *)
Listed(path) == \E i \in DOMAIN search : search[i] = path

AddSearchPath(path) ==
  /\ ~Listed(path) /\ Len(search) < SEARCH_PATH_MAX_COUNT
  /\ search' = Append(search, path)
  /\ UNCHANGED <<disk, bytes, opened, eof, last, answer, loop>>

(* memmove copies as many bytes as there are rows behind the removed one:  *)
(* what that leaves in the row depends on the two names.                   *)
Moved(i) == IF i < Len(search) THEN {search[i], search[i + 1], Mangled} ELSE {search[i]}

RemoveSearchPath(path) ==
  \E i \in DOMAIN search :
    /\ search[i] = path /\ \A j \in 1 .. i - 1 : search[j] # path
    /\ \E row \in Moved(i) :
         search' = [j \in 1 .. Len(search) - 1 |-> IF j = i THEN row ELSE search[j]]
    /\ UNCHANGED <<disk, bytes, opened, eof, last, answer, loop>>

(* fs_exists and fs_get_exists_path: the name alone, then the search paths *)
(* in the order they were added.                                           *)
fs_existsMutant(place) == place \in Places
fs_exists(place)       == place \in Places /\ disk[place] # Absent

ExistsPath(place) ==
  IF fs_exists(Here) THEN place = Here
  ELSE \E i \in DOMAIN search : /\ search[i] = place /\ fs_exists(place)
                                /\ \A j \in 1 .. i - 1 : ~fs_exists(search[j])

-----------------------------------------------------------------------------
(* Opening.  An open file is closed before the stream is used for another: *)
(* a guard on the caller.  An open that fails changes nothing.             *)
MayOpen == loop = "none" /\ handle = "none"

OpenMemory(size) ==
  /\ MayOpen /\ Open(size)
  /\ inteface' = "memory" /\ UNCHANGED <<disk, search, handle, access, eof, last, answer, loop>>

OpenFile(kind, place, size, may) ==
  /\ MayOpen /\ Open(size)
  /\ inteface' = kind /\ handle' = place /\ access' = may
  /\ disk' = [disk EXCEPT ![place] = size]
  /\ UNCHANGED <<search, eof, last, answer, loop>>

(* stdio_open builds "r", "w", "b" and "+" in this order.  fopen goes by   *)
(* the first: "w" empties the file, a "w" after an "r" is ignored, and     *)
(* nothing else may come first.  The misspelt call of line 87 is read as   *)
(* fs_get_exists_path, and a name that leads nowhere as a failed open.     *)
StdioAccess(mode) ==
  IF "Append" \in mode THEN {"read", "write"}
  ELSE IF "Read" \in mode THEN {"read"} ELSE {"write"}

OpenStdio(mode) ==
  /\ mode \cap {"Read", "Write"} # {}
  /\ \E place \in Places :
       /\ ExistsPath(place)
       /\ OpenFile("stdio", place, IF "Read" \in mode THEN disk[place] ELSE 0, StdioAccess(mode))

(* windows_io_open takes one of reading and writing, never both, and opens *)
(* a file as it is.  Append takes back the right to write elsewhere.       *)
WindowsAccess(mode) ==
  LET right == IF "Read" \in mode THEN {"read"} ELSE {"write"}
  IN  IF "Append" \in mode THEN (right \ {"write"}) \cup {"append"} ELSE right

OpenWindows(mode) ==
  /\ ("Read" \in mode) # ("Write" \in mode) /\ fs_exists(Here)
  /\ OpenFile("windows", Here, disk[Here], WindowsAccess(mode))

(* stdio_close and windows_io_close; memory_stream_close changes nothing.  *)
Close ==
  /\ loop = "none" /\ handle # "none"
  /\ handle' = "none" /\ access' = {} /\ eof' = FALSE /\ last' = "none"
  /\ Untouched /\ UNCHANGED <<disk, search, length, cursor, strayed, inteface, answer, loop>>

-----------------------------------------------------------------------------
(* Transfers on a file.  One the handle does not allow moves nothing.  The *)
(* C library wants a seek or a flush between writing and reading, a guard  *)
(* on the caller.                                                          *)
Left == Greater(length - cursor, 0)

ReadFile(size) ==
  LET got == Lesser(size, Left)
  IN  /\ "read" \in access /\ last # "write"
      /\ from' = cursor /\ asked' = size /\ moved' = got /\ cursor' = cursor + got
      /\ eof' = (inteface = "stdio" /\ (eof \/ got < size))
      /\ last' = IF inteface = "stdio" THEN "read" ELSE "none"
      /\ UNCHANGED <<disk, search, length, strayed, opened, answer>>

(* A handle that may only append writes at the end, wherever it is.        *)
Start == IF "write" \in access THEN cursor ELSE length

WriteFile(size) ==
  /\ access \cap {"write", "append"} # {} /\ (last = "read" => eof)
  /\ size > 0 /\ Start + size <= MaxLength
  /\ from' = Start /\ asked' = size /\ moved' = size
  /\ cursor' = Start + size /\ length' = Greater(length, Start + size)
  /\ disk' = [disk EXCEPT ![handle] = length']
  /\ last' = IF inteface = "stdio" THEN "write" ELSE "none"
  /\ UNCHANGED <<search, strayed, opened, eof, answer>>

TransferMemory(size) ==
  inteface = "memory" /\ Transfer(size) /\ UNCHANGED <<disk, search, opened, eof, last, answer>>

(* fs_read and fs_write                                                    *)
Read(size)  == TransferMemory(size) \/ ReadFile(size)
Write(size) == loop = "none" /\ (TransferMemory(size) \/ WriteFile(size)) /\ UNCHANGED loop

(* fs_seek.  From the end, a file counts onwards where a buffer counts     *)
(* back.  An offset that is none fails on stdio and is the start on        *)
(* Windows.  A place before the start leaves a file where it is.  Whatever *)
(* happens, stdio_seek answers false and the others true.                  *)
FileTarget(offset, count) ==
  CASE offset = "current" -> cursor + count
    [] offset = "end"     -> length + count
    [] offset = "start"   -> count
    [] offset = "invalid" -> IF inteface = "stdio" THEN -1 ELSE count

SeekMemory(offset, count) ==
  /\ loop = "none" /\ inteface = "memory" /\ Seek(offset, count)
  /\ answer' = TRUE /\ UNCHANGED <<disk, search, opened, eof, last, loop>>

SeekFile(offset, count) ==
  LET place == FileTarget(offset, count)
  IN  /\ loop = "none" /\ handle # "none" /\ place \in 0 .. MaxLength
      /\ cursor' = place /\ eof' = FALSE /\ last' = "none"
      /\ strayed' = (inteface = "windows" /\ place > length)
      /\ answer' = (inteface # "stdio")
      /\ Untouched /\ UNCHANGED <<disk, search, length, opened, loop>>

SeekFails(offset, count) ==
  /\ loop = "none" /\ handle # "none" /\ FileTarget(offset, count) < 0
  /\ answer' = (inteface # "stdio")
  /\ UNCHANGED <<disk, search, bytes, opened, eof, last, loop>>

(* stdio_get_size goes to the end and back, which clears the flag; what    *)
(* the other interfaces are asked changes nothing.                         *)
GetSize ==
  /\ loop # "plain" /\ inteface = "stdio" /\ handle # "none"
  /\ eof' = FALSE /\ last' = "none"
  /\ Untouched /\ UNCHANGED <<disk, search, length, cursor, strayed, opened, answer, loop>>

(* fs_flush.  stdio_flush answers whether fflush failed, the others        *)
(* whether they succeeded; memory_stream_flush does nothing.               *)
Flush ==
  /\ loop = "none" /\ last # "read" /\ (handle # "none" \/ inteface = "memory")
  /\ \E failed \in IF inteface = "memory" THEN {FALSE} ELSE BOOLEAN :
       /\ answer' = IF inteface = "stdio" THEN failed ELSE ~failed
       /\ last' = IF failed THEN last ELSE "none"
  /\ UNCHANGED <<disk, search, bytes, opened, eof, loop>>

is_eof == IF inteface = "stdio" THEN eof ELSE AtEnd

(* A caller that reads until is_eof, asking for at least one byte.         *)
BeginLoop ==
  /\ loop = "none" /\ loop' \in {"plain", "asking"}
  /\ (inteface = "memory" \/ "read" \in access) /\ last # "write"
  /\ UNCHANGED <<disk, search, bytes, opened, eof, last, answer>>

ReadOn  == /\ loop # "none" /\ ~is_eof
           /\ \E size \in Requests \ {0} : Read(size)
           /\ UNCHANGED loop
EndLoop == /\ loop # "none" /\ is_eof /\ loop' = "none"
           /\ UNCHANGED <<disk, search, bytes, opened, eof, last, answer>>

(* A copy outside the buffer is the last thing the program is known to do. *)
Next ==
  \/ /\ ~Lost
     /\ \/ \E path \in Dirs : AddSearchPath(path) \/ RemoveSearchPath(path)
        \/ \E size \in Lengths : OpenMemory(size)
        \/ \E mode \in SUBSET Flags : OpenStdio(mode) \/ OpenWindows(mode)
        \/ \E size \in Requests : (loop = "none" /\ Read(size) /\ UNCHANGED loop) \/ Write(size)
        \/ \E offset \in Offsets, count \in Counts :
             SeekMemory(offset, count) \/ SeekFile(offset, count) \/ SeekFails(offset, count)
        \/ GetSize \/ Flush \/ Close \/ BeginLoop \/ ReadOn \/ EndLoop
  \/ Lost /\ UNCHANGED vars

(* The loop is code of the caller, which goes on as long as it can.        *)
Spec == Init /\ [][Next]_vars /\ WF_vars(~Lost /\ (ReadOn \/ EndLoop))

-----------------------------------------------------------------------------
TypeOK ==
  /\ disk \in [Places -> Nat \cup {Absent}]
  /\ inteface \in {"memory", "stdio", "windows"} /\ handle \in Places \cup {"none"}
  /\ access \subseteq {"read", "write", "append"}
  /\ length \in Nat /\ {cursor, from, asked, moved} \subseteq Int
  /\ {eof, answer, strayed} \subseteq BOOLEAN
  /\ last \in {"none", "read", "write"} /\ loop \in {"none", "plain", "asking"}

(* Reads and writes touch no byte outside the buffer or the file and move  *)
(* no more than was asked for, whatever was read, written and sought       *)
(* before: a buffer is only left by a seek that was asked to leave it, or  *)
(* by a request that overflows the sum.                                    *)
TransfersInside ==
  (inteface = "memory" => ~strayed) =>
    from >= 0 /\ moved \in 0 .. asked /\ (moved > 0 => from + moved <= length)

(* Less is moved than was asked only if that reaches the end, and then     *)
(* is_eof says so on every interface, if callers seek inside the buffer or *)
(* the Windows file.                                                       *)
ShortOnlyAtEnd == ~strayed /\ moved < asked => is_eof

(* A caller that reads until is_eof has read to the end when it stops, on  *)
(* every interface and wherever it sought before.                          *)
LoopReadsAll == [][loop # "none" /\ loop' = "none" => cursor >= length]_vars

(* It does stop, if it does not ask for the size between a read and the    *)
(* test, which forgets the end of a stdio file, and did not seek outside.  *)
ReaderEnds == loop = "plain" ~> loop = "none" \/ strayed
=============================================================================
