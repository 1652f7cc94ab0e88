-------------------------------- MODULE Stack --------------------------------
(* What an Array promises its callers: a stack of values.                  *)
EXTENDS Sequences, Naturals

CONSTANT Values

VARIABLE stack

Init == stack = <<>>

Push(v) == stack' = Append(stack, v)
Pop     == stack # <<>> /\ stack' = SubSeq(stack, 1, Len(stack) - 1)
Clear   == stack' = <<>>

Next == (\E v \in Values : Push(v)) \/ Pop \/ Clear

Spec == Init /\ [][Next]_stack
=============================================================================
