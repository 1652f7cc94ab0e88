---------------------------- MODULE MCFileSystem ----------------------------
(* Instances of FileSystem for TLC.  Seeks go forwards, backwards and      *)
(* across the whole of the longest buffer.                                 *)
EXTENDS FileSystem

MCCounts == {-2, 0, 1, 3}
=============================================================================
