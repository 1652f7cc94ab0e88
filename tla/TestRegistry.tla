---------------------------- MODULE TestRegistry ----------------------------
(***************************************************************************)
(* The unit-test cases of src/misc/testing.cpp: each TestCase is a static  *)
(* object whose constructor links it into a list, before main() runs the   *)
(* list.  The order of the constructors of different files is not fixed.   *)
(***************************************************************************)
EXTENDS Naturals, FiniteSets

CONSTANTS
  Cases,   \* the test cases in the source files
  NULL

ASSUME CasesAssumption == NULL \notin Cases /\ IsFiniteSet(Cases)

VARIABLES
  linked,                              \* the cases constructed so far
  g_head_test_case, g_tail_test_case,
  next,                                \* of each case; NULL until it is constructed
  test_case,                           \* where testing_run_all_cases is
  phase,                               \* "constructing", "running" or "done"
  ran, test_count                      \* how often each case ran; the count printed

list == <<linked, g_head_test_case, g_tail_test_case, next>>
vars == <<list, test_case, phase, ran, test_count>>

Init == /\ linked = {} /\ g_head_test_case = NULL /\ g_tail_test_case = NULL
        /\ next = [c \in Cases |-> NULL]
        /\ test_case = NULL /\ phase = "constructing"
        /\ ran = [c \in Cases |-> 0] /\ test_count = 0

(* A definition named "...Mutant" is what a plausible bug would make of    *)
(* the one that follows it; the specification never uses it.               *)
LinkMutant(c) == next' = [next EXCEPT ![c] = g_head_test_case]
SwapMutant(c) == next' = [next EXCEPT ![c] = IF g_head_test_case = NULL THEN NULL
                                              ELSE c]   \* the tail is set before next
Link(c)       == next' = [next EXCEPT ![c] = IF g_head_test_case = NULL THEN NULL
                                              ELSE g_tail_test_case]

Construct(c) ==
  /\ phase = "constructing" /\ c \notin linked
  /\ linked' = linked \cup {c}
  /\ Link(c)
  /\ g_head_test_case' = IF g_head_test_case = NULL THEN c ELSE g_head_test_case
  /\ g_tail_test_case' = c
  /\ UNCHANGED <<test_case, phase, ran, test_count>>

BeginRun ==
  /\ phase = "constructing" /\ linked = Cases
  /\ phase' = "running" /\ test_case' = g_head_test_case
  /\ UNCHANGED <<list, ran, test_count>>

(* Bound: a count of runs stops above the number of cases.                 *)
OneMore(count) == IF count > Cardinality(Cases) THEN count ELSE count + 1

RunCase ==
  /\ phase = "running" /\ test_case # NULL
  /\ ran' = [ran EXCEPT ![test_case] = OneMore(@)]
  /\ test_case' = next[test_case]
  /\ test_count' = OneMore(test_count)
  /\ UNCHANGED <<list, phase>>

EndRun ==
  /\ phase = "running" /\ test_case = NULL
  /\ phase' = "done"
  /\ UNCHANGED <<list, test_case, ran, test_count>>

Next == (\E c \in Cases : Construct(c)) \/ BeginRun \/ RunCase \/ EndRun

Spec == Init /\ [][Next]_vars

-----------------------------------------------------------------------------
(* Where following next from c has come to after n steps.                 *)
Walk(c) ==
  LET after[n \in 0 .. Cardinality(Cases)] ==
        IF n = 0 THEN c
        ELSE LET d == after[n - 1] IN IF d = NULL THEN NULL ELSE next[d]
  IN  after

Reached(c) == {Walk(c)[n] : n \in 0 .. Cardinality(Cases)} \ {NULL}

(* From the tail, in the order opposite to construction, the links reach   *)
(* every case: none is dropped by the constructors.                        *)
TailReachesAll == Reached(g_tail_test_case) = linked

(* Between any two constructors, in whatever order they run, the links     *)
(* lead in no circle: from every case they come to an end, so a run that   *)
(* follows them ends, wherever it begins.                                  *)
LinksEnd == \A c \in linked : Walk(c)[Cardinality(Cases)] = NULL

(* "Run all unit test cases"                                               *)
AllRun == phase = "done" => \A c \in Cases : ran[c] = 1
=============================================================================
