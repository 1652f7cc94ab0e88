---------------------------- MODULE MemoryStream ----------------------------
(***************************************************************************)
(* The file stream over a buffer of src/fs/fs_memory_stream.cpp, built     *)
(* without assertions.  Which bytes are moved matters, not their values.   *)
(* FileSystem composes it with the streams over files.                     *)
(***************************************************************************)
EXTENDS Integers

CONSTANTS
  Lengths,       \* the buffer sizes fs_from_memory is given
  Requests,      \* the sizes of reads and writes
  Counts,        \* the counts of seeks
  Offsets,       \* the SeekOffset values passed: a subset of AllOffsets
  INT32_MAX

ValidOffsets == {"start", "current", "end"}
AllOffsets   == ValidOffsets \cup {"invalid"}

ASSUME StreamAssumption ==
  /\ INT32_MAX \in Nat
  /\ Lengths \subseteq 0 .. INT32_MAX /\ Requests \subseteq 0 .. INT32_MAX
  /\ Counts \subseteq -INT32_MAX .. INT32_MAX
  /\ Offsets \subseteq AllOffsets

VARIABLES
  length, cursor,
  from, asked, moved,  \* history: the last read or write, where it began,
                       \* the bytes requested and the bytes it moved
  strayed              \* history: the last seek led outside the buffer or the
                       \* Windows file, or a request since overflowed the sum

Untouched == from' = 0 /\ asked' = 0 /\ moved' = 0

(* memory_stream_open                                                      *)
Open(size) == length' = size /\ cursor' = 0 /\ strayed' = FALSE /\ Untouched

(* The int32_t that the sum or the difference of two int32_t is stored as. *)
Wrap(n) == IF n > INT32_MAX THEN n - 2 * (INT32_MAX + 1)
           ELSE IF n < -INT32_MAX - 1 THEN n + 2 * (INT32_MAX + 1) ELSE n

(* A definition named "...Mutant" is what a plausible bug would make of    *)
(* the one that follows it; the specification never uses it.               *)
ClampMutant(size, sum) == IF sum > length THEN length - cursor - 1 ELSE size
Clamp(size, sum)       == IF sum > length THEN length - cursor ELSE size

(* memory_stream_read and memory_stream_write move the same bytes.  A sum  *)
(* of lines 90 and 101 that overflows is undefined: the build compares     *)
(* what it wraps to, or the sum as it is.                                  *)
Transfer(size) ==
  \E sum \in {cursor + size, Wrap(cursor + size)} :
    /\ from' = cursor /\ asked' = size /\ moved' = Clamp(size, sum)
    /\ cursor' = Wrap(cursor + Clamp(size, sum))
    /\ strayed' = (strayed \/ cursor + size > INT32_MAX)
    /\ UNCHANGED length

(* The memcpy was given bytes outside the buffer, or a negative count of   *)
(* them, and nothing is known from then on.                                *)
Lost == moved < 0 \/ (moved > 0 /\ ~(from >= 0 /\ from + moved <= length))

Target(offset, count) == CASE offset = "current" -> Wrap(cursor + count)
                           [] offset = "end"     -> Wrap(length - count)
                           [] offset = "start"   -> count
                           [] offset = "invalid" -> -1

(* memory_stream_seek, whose test rejects nothing.                         *)
Rejected(place) == place < 0 /\ place >= length

Seek(offset, count) ==
  LET place == Target(offset, count)
  IN  /\ ~Rejected(place)
      /\ cursor' = place /\ strayed' = (place \notin 0 .. length)
      /\ Untouched /\ UNCHANGED length

AtEndMutant == cursor + 1 >= length
AtEnd       == cursor = length
=============================================================================
