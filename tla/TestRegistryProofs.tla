-------------------------- MODULE TestRegistryProofs --------------------------
(***************************************************************************)
(* The constructors drop no test case and link none in a circle, for any   *)
(* number of cases and in whatever order they run.                         *)
(***************************************************************************)
EXTENDS TestRegistry, FiniteSetTheorems, WellFoundedInduction, TLAPS

(* The links from the tail are the cases of s, one after the other.        *)
Chain(m, s) == /\ m \in Nat /\ m = Cardinality(linked)
               /\ s \in [0 .. m - 1 -> linked]
               /\ \A c \in linked : \E n \in 0 .. m - 1 : s[n] = c
               /\ g_tail_test_case = IF m = 0 THEN NULL ELSE s[0]
               /\ \A n \in 0 .. m - 1 : next[s[n]] = IF n = m - 1 THEN NULL ELSE s[n + 1]

(* The inductive invariant.                                                *)
LinkInv == /\ linked \subseteq Cases
           /\ next \in [Cases -> Cases \cup {NULL}]
           /\ g_head_test_case = NULL <=> linked = {}
           /\ \E m, s : Chain(m, s)

-----------------------------------------------------------------------------
(* Induction.                                                              *)

Less == {p \in Nat \X Nat : p[1] < p[2]}

(* A set of natural numbers has a least element.                           *)
LEMMA Least ==
  ASSUME NEW T \in SUBSET Nat, T # {}
  PROVE  \E m \in T : \A n \in T : m <= n
<1>1. IsWellFoundedOn(Less, Nat)
  BY NatLessThanWellFounded, Zenon DEF OpToRel, Less
<1>2. PICK m \in T : \A n \in T : ~ (<<n, m>> \in Less)
  BY <1>1, WFMin
<1>3. ASSUME NEW n \in T PROVE m <= n
  <2>1. ~(n < m)
    BY <1>2 DEF Less
  <2> QED BY <2>1
<1> QED BY <1>3

(* Two functions on 0 .. k that begin alike and go on alike are the same.  *)
LEMMA SameWalk ==
  ASSUME NEW k \in Nat, NEW f, NEW g, f[0] = g[0],
         \A n \in 0 .. k - 1 : f[n] = g[n] => f[n + 1] = g[n + 1]
  PROVE  \A n \in 0 .. k : f[n] = g[n]
<1> DEFINE Bad == {n \in 0 .. k : f[n] # g[n]}
<1> SUFFICES ASSUME Bad # {} PROVE FALSE
  OBVIOUS
<1>1. PICK m \in Bad : \A n \in Bad : m <= n
  <2>1. Bad \in SUBSET Nat
    OBVIOUS
  <2> HIDE DEF Bad
  <2> QED BY <2>1, Least
<1>2. m # 0 /\ m - 1 \in 0 .. k - 1 /\ m - 1 + 1 = m
  OBVIOUS
<1>3. f[m - 1] = g[m - 1]
  BY <1>1, <1>2
<1> QED BY <1>2, <1>3

-----------------------------------------------------------------------------
(* What the walk along the links from place k of the chain comes to; place *)
(* m is behind the last.                                                   *)
LEMMA ChainWalk ==
  ASSUME NEW m, NEW s, Chain(m, s), linked \subseteq Cases, NEW k \in 0 .. m,
         NEW c, c = IF k = m THEN NULL ELSE s[k]
  PROVE  \A n \in 0 .. Cardinality(Cases) : Walk(c)[n] = IF k + n < m THEN s[k + n] ELSE NULL
<1> DEFINE N == Cardinality(Cases)
           W(f) == [n \in 0 .. N |->
                      IF n = 0 THEN c
                      ELSE LET d == f[n - 1] IN IF d = NULL THEN NULL ELSE next[d]]
           at == [n \in 0 .. N |-> IF k + n < m THEN s[k + n] ELSE NULL]
           after == CHOOSE f : f = W(f)
<1>1. N \in Nat /\ m \in 0 .. N
  BY FS_Subset, FS_CardinalityType, CasesAssumption DEF CasesAssumption, Chain
<1>2. \A b \in linked : b # NULL
  BY CasesAssumption DEF CasesAssumption
<1> HIDE DEF N
<1>3. at = W(at)
  <2>1. ASSUME NEW n \in 0 .. N PROVE at[n] = W(at)[n]
    <3>1. CASE n = 0
      BY <3>1, <1>1 DEF Chain
    <3>2. CASE n # 0 /\ k + n <= m
      <4>1. k + n - 1 \in 0 .. m - 1 /\ n - 1 \in 0 .. N /\ k + (n - 1) = k + n - 1
            /\ k + (n - 1) < m /\ k + n - 1 + 1 = k + n
        BY <3>2, <1>1
      <4>2. at[n - 1] = s[k + n - 1] /\ s[k + n - 1] \in linked /\ s[k + n - 1] # NULL
        BY <4>1, <1>2 DEF Chain
      <4>3. next[s[k + n - 1]] = IF k + n - 1 = m - 1 THEN NULL ELSE s[k + n]
        BY <4>1 DEF Chain
      <4> QED BY <3>2, <4>1, <4>2, <4>3, <1>1
    <3>3. CASE n # 0 /\ k + n > m
      <4>1. n - 1 \in 0 .. N /\ at[n - 1] = NULL
        BY <3>3, <1>1
      <4> QED BY <3>3, <4>1, <1>1
    <3> QED BY <3>1, <3>2, <3>3, <1>1
  <2> QED BY <2>1
<1>4. after = W(after)
  <2> HIDE DEF at, W
  <2> QED BY <1>3
<1>5. \A n \in 0 .. N : after[n] = at[n]
  <2> DEFINE Step(d) == IF d = NULL THEN NULL ELSE next[d]
  <2>1. \A n \in 0 .. N : at[n] = IF n = 0 THEN c ELSE Step(at[n - 1])
    <3> HIDE DEF at
    <3> QED BY <1>3
  <2>2. \A n \in 0 .. N : after[n] = IF n = 0 THEN c ELSE Step(after[n - 1])
    <3> HIDE DEF after
    <3> QED BY <1>4
  <2> HIDE DEF at, after, Step
  <2>3. after[0] = at[0]
    BY <2>1, <2>2, <1>1
  <2>4. ASSUME NEW n \in 0 .. N - 1, after[n] = at[n] PROVE after[n + 1] = at[n + 1]
    <3>1. n + 1 \in 0 .. N /\ n + 1 # 0 /\ (n + 1) - 1 = n
      BY <1>1
    <3> QED BY <2>1, <2>2, <2>4, <3>1
  <2> QED BY <2>3, <2>4, <1>1, SameWalk
<1>6. Walk(c) = after
  BY DEF Walk, N
<1> QED BY <1>5, <1>6 DEF N

LEMMA ChainReached ==
  ASSUME NEW m, NEW s, Chain(m, s), linked \subseteq Cases
  PROVE  TailReachesAll /\ LinksEnd
<1> DEFINE N == Cardinality(Cases)
           tail == Walk(g_tail_test_case)
<1>1. N \in Nat /\ m \in 0 .. N
  BY FS_Subset, FS_CardinalityType, CasesAssumption DEF CasesAssumption, Chain
<1>2. \A b \in linked : b # NULL
  BY CasesAssumption DEF CasesAssumption
<1>3. \A n \in 0 .. N : tail[n] = IF n < m THEN s[n] ELSE NULL
  <2>1. g_tail_test_case = IF 0 = m THEN NULL ELSE s[0]
    BY DEF Chain
  <2>2. \A n \in 0 .. N : tail[n] = IF 0 + n < m THEN s[0 + n] ELSE NULL
    BY <2>1, <1>1, ChainWalk
  <2> HIDE DEF tail, N
  <2> QED BY <2>2, <1>1
<1>4. ASSUME NEW c \in linked PROVE Walk(c)[N] = NULL
  <2>1. PICK k \in 0 .. m - 1 : s[k] = c
    BY DEF Chain
  <2>2. Walk(c)[N] = IF k + N < m THEN s[k + N] ELSE NULL
    BY <2>1, <1>1, ChainWalk
  <2> QED BY <2>2, <1>1
<1>5. Reached(g_tail_test_case) = {tail[n] : n \in 0 .. N} \ {NULL}
  BY DEF Reached
<1> HIDE DEF tail
<1>6. ASSUME NEW n \in 0 .. N, tail[n] # NULL PROVE tail[n] \in linked
  BY <1>3, <1>6, <1>1 DEF Chain
<1>7. ASSUME NEW c \in linked PROVE \E n \in 0 .. N : tail[n] = c
  <2>1. PICK n \in 0 .. m - 1 : s[n] = c
    BY DEF Chain
  <2>2. n \in 0 .. N /\ n < m
    BY <1>1
  <2> QED BY <2>1, <2>2, <1>3
<1>8. Reached(g_tail_test_case) = linked
  <2> HIDE DEF N
  <2> QED BY <1>2, <1>5, <1>6, <1>7
<1> QED BY <1>4, <1>8 DEF TailReachesAll, LinksEnd

(* The invariant holds at first.                                           *)
LEMMA LinkInit == Init => LinkInv
<1> SUFFICES ASSUME Init PROVE LinkInv
  OBVIOUS
<1> USE DEF Init
<1>1. Cardinality(linked) = 0
  BY FS_EmptySet
<1>2. Chain(0, [n \in 0 .. 0 - 1 |-> NULL])
  BY <1>1 DEF Chain
<1>3. \E m, s : Chain(m, s)
  BY <1>2
<1> QED BY <1>3 DEF LinkInv

(* A constructor puts its case before those of the chain.                  *)
LEMMA LinkConstruct ==
  ASSUME NEW c \in Cases, LinkInv, Construct(c)
  PROVE  LinkInv'
<1> USE DEF Construct, Link
<1>1. PICK m, s : Chain(m, s)
  BY DEF LinkInv
<1>2. g_head_test_case' # NULL /\ linked' # {} /\ linked' \subseteq Cases
  BY CasesAssumption DEF CasesAssumption, LinkInv
<1>3. Cardinality(linked') = m + 1
  BY <1>1, FS_Subset, FS_AddElement, CasesAssumption DEF CasesAssumption, LinkInv, Chain
<1>4. m \in Nat /\ (m = 0 <=> linked = {})
  BY <1>1, FS_Subset, FS_EmptySet, CasesAssumption DEF CasesAssumption, LinkInv, Chain
<1>5. next' = [next EXCEPT ![c] = IF m = 0 THEN NULL ELSE s[0]]
  BY <1>1, <1>4 DEF LinkInv, Chain
<1>6. next' \in [Cases -> Cases \cup {NULL}]
  <2>1. m # 0 => s[0] \in Cases
    <3>1. m # 0 => 0 \in 0 .. m - 1
      BY <1>4
    <3>2. s \in [0 .. m - 1 -> linked]
      BY <1>1 DEF Chain
    <3> QED BY <3>1, <3>2 DEF LinkInv
  <2> QED BY <1>5, <2>1 DEF LinkInv
<1> DEFINE s2 == [n \in 0 .. m |-> IF n = 0 THEN c ELSE s[n - 1]]
<1>7. Chain(m + 1, s2)'
  <2>1. ASSUME NEW n \in 0 .. m PROVE s2[n] \in linked'
    BY <1>1, <1>4 DEF Chain
  <2>2. ASSUME NEW d \in linked' PROVE \E n \in 0 .. m : s2[n] = d
    <3>1. CASE d = c
      <4>1. s2[0] = d /\ 0 \in 0 .. m
        BY <3>1, <1>4
      <4> QED BY <4>1
    <3>2. CASE d \in linked
      <4>1. PICK n \in 0 .. m - 1 : s[n] = d
        BY <1>1, <3>2 DEF Chain
      <4>2. n + 1 \in 0 .. m /\ s2[n + 1] = d
        BY <4>1, <1>4
      <4> QED BY <4>2
    <3> QED BY <3>1, <3>2
  <2>3. ASSUME NEW n \in 0 .. m
        PROVE  next'[s2[n]] = IF n = m THEN NULL ELSE s2[n + 1]
    <3>1. CASE n = 0
      BY <1>4, <1>5, <3>1 DEF LinkInv
    <3>2. CASE n # 0
      <4>1. n - 1 \in 0 .. m - 1 /\ (n - 1) + 1 = n
        BY <1>4, <3>2
      <4>2. s2[n] = s[n - 1] /\ s[n - 1] \in linked
        BY <1>1, <3>2, <4>1 DEF Chain
      <4>3. next'[s[n - 1]] = next[s[n - 1]]
        BY <1>5, <4>2 DEF LinkInv
      <4>4. next[s[n - 1]] = IF n - 1 = m - 1 THEN NULL ELSE s[n]
        BY <1>1, <4>1 DEF Chain
      <4>5. n # m => n + 1 \in 0 .. m /\ n + 1 # 0 /\ s2[n + 1] = s[n]
        BY <1>4
      <4> QED BY <1>4, <4>2, <4>3, <4>4, <4>5
    <3> QED BY <3>1, <3>2
  <2>4. g_tail_test_case' = s2[0] /\ m + 1 # 0 /\ (m + 1) - 1 = m /\ m + 1 \in Nat
    BY <1>4
  <2>5. s2 \in [0 .. m -> linked']
    BY <2>1
  <2> HIDE DEF s2
  <2> QED BY <1>3, <2>2, <2>3, <2>4, <2>5 DEF Chain
<1>8. \E k, t : Chain(k, t)'
  <2> HIDE DEF s2
  <2> QED BY <1>7
<1> QED BY <1>2, <1>6, <1>8 DEF LinkInv

(* Every step keeps the invariant.                                         *)
LEMMA LinkNext == LinkInv /\ [Next]_vars => LinkInv'
<1> SUFFICES ASSUME LinkInv, [Next]_vars PROVE LinkInv'
  OBVIOUS
<1>1. ASSUME NEW c \in Cases, Construct(c) PROVE LinkInv'
  BY <1>1, LinkConstruct
<1>2. CASE UNCHANGED list
  BY <1>2 DEF list, LinkInv, Chain
<1> QED BY <1>1, <1>2 DEF Next, BeginRun, RunCase, EndRun, vars

LEMMA LinkMeans == LinkInv => TailReachesAll /\ LinksEnd
BY ChainReached DEF LinkInv

(* From the tail, in the order opposite to construction, the links reach   *)
(* every case.                                                             *)
THEOREM NoCaseDropped == Spec => []TailReachesAll
BY LinkMeans, LinkInit, LinkNext, PTL DEF Spec

(* From every case the links come to an end.                               *)
THEOREM NoCircle == Spec => []LinksEnd
BY LinkMeans, LinkInit, LinkNext, PTL DEF Spec
=============================================================================
