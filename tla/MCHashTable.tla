----------------------------- MODULE MCHashTable -----------------------------
(* Instances of HashTable for TLC.                                         *)
EXTENDS HashTable

(* A table from which anything is removed, whose memory may be refused,    *)
(* until it gets out of order.                                             *)
Tidy == [calls |-> {"set", "remove", "clear", "reset"}, values |-> {7, 8},
         reallocs |-> {"moved", "fails"}, anyway |-> FALSE, first |-> 4]

(* A table that is cleared, set again and grown, in order or not, from     *)
(* which nothing is removed.                                               *)
Reused == [calls |-> {"set", "clear", "reset", "new"}, values |-> {7},
           reallocs |-> AllReallocs, anyway |-> TRUE, first |-> 2]

(* A table from which anything is removed, in order or not.                *)
Untidy == [calls |-> {"set", "remove"}, values |-> {7},
           reallocs |-> {"moved"}, anyway |-> TRUE, first |-> 5]

MCUses == {Tidy, Reused}
MCHang == {Untidy}
=============================================================================
