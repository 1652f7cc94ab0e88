--------------------------- MODULE HashTableProofs ---------------------------
(***************************************************************************)
(* The hash table keeps to its block, its lookups end and, as long as it   *)
(* is in order, it is the map that KeyMap describes, for every number of   *)
(* keys, buckets and entries.                                              *)
(*                                                                         *)
(* What the chains look like is said without recursion: no set of slots is *)
(* closed under nexts (Acyclic), and no set of entries lacks both a head   *)
(* and an entry that leads into it (Rooted).                               *)
(***************************************************************************)
EXTENDS HashTable, FiniteSetTheorems, WellFoundedInduction, TLAPS

(* The walk of lines 80-86 that begins at start, and what index_of makes   *)
(* of it, for any table.                                                   *)
Path(cap, start, ns) ==
  LET walk[n \in 0 .. cap] ==
        IF n = 0 THEN start
        ELSE LET prev == walk[n - 1] IN IF prev < 0 THEN prev ELSE ns[prev]
  IN  walk

FirstStop(cap, path, ks, key) ==
  CHOOSE k \in 0 .. cap : Stops(path, ks, key, k) /\ \A l \in 0 .. k - 1 : ~Stops(path, ks, key, l)

Lookup(cap, hs, ns, ks, key) ==
  LET path == Path(cap, hs[Hash(key)], ns)
      n    == FirstStop(cap, path, ks, key)
  IN  [curr |-> path[n], prev |-> IF n = 0 THEN -1 ELSE path[n - 1]]

Ends == {-1, Junk}

(* The slots of L lie in a block of cap slots.                             *)
Within(cap, L) == cap \in Nat /\ L \in SUBSET (0 .. cap - 1)

(* Nothing leads out of the slots of L, and no set of them is closed.      *)
Closed(L, start, ns) == /\ start \in L \cup Ends
                        /\ \A s \in L : ns[s] \in L \cup Ends
Acyclic(L, ns) == \A S \in SUBSET L : S # {} => \E s \in S : ns[s] \notin S

(* L are the slots of the entries, each on the chain of its key and on no  *)
(* other, once.                                                            *)
Rooted(L, hs, ns, ks) ==
  \A S \in SUBSET L : S # {} =>
    \E s \in S : hs[Hash(ks[s])] = s \/ \E p \in L \ S : ns[p] = s
OnePred(L, hs, ns) ==
  /\ \A p, q \in L : ns[p] \in L /\ ns[p] = ns[q] => p = q
  /\ \A p \in L : ns[p] \in L => \A h \in Buckets : hs[h] # ns[p]
OwnChain(L, hs, ns, ks) ==
  /\ \A h \in Buckets : hs[h] \in L => Hash(ks[hs[h]]) = h
  /\ \A s \in L : ns[s] \in L => Hash(ks[ns[s]]) = Hash(ks[s])
Chained(L, hs, ns, ks) ==
  /\ \A h \in Buckets : hs[h] \in L \cup {-1}
  /\ \A s \in L : ns[s] \in L \cup {-1} /\ ks[s] \in Keys
  /\ \A s, t \in L : ks[s] = ks[t] => s = t
  /\ Acyclic(L, ns) /\ Rooted(L, hs, ns, ks) /\ OnePred(L, hs, ns) /\ OwnChain(L, hs, ns, ks)

-----------------------------------------------------------------------------
(* Induction.                                                              *)

Less == {p \in Nat \X Nat : p[1] < p[2]}

(* A set of natural numbers has a least element.                           *)
LEMMA Least ==
  ASSUME NEW T \in SUBSET Nat, T # {}
  PROVE  \E m \in T : \A n \in T : m <= n
<1>1. IsWellFoundedOn(Less, Nat)
  BY NatLessThanWellFounded, Zenon DEF OpToRel, Less
<1>2. PICK m \in T : \A n \in T : ~ (<<n, m>> \in Less)
  BY <1>1, WFMin
<1>3. ASSUME NEW n \in T PROVE m <= n
  <2>1. ~(n < m)
    BY <1>2 DEF Less
  <2> QED BY <2>1
<1> QED BY <1>3

(* A set with 0 and the successors of its elements up to k has all of them.*)
LEMMA Induction ==
  ASSUME NEW k \in Nat, NEW T, 0 \in T, \A n \in 0 .. k - 1 : n \in T => n + 1 \in T
  PROVE  \A n \in 0 .. k : n \in T
<1> DEFINE Bad == {n \in 0 .. k : n \notin T}
<1> SUFFICES ASSUME Bad # {} PROVE FALSE
  OBVIOUS
<1>1. PICK m \in Bad : \A n \in Bad : m <= n
  <2>1. Bad \in SUBSET Nat
    OBVIOUS
  <2> HIDE DEF Bad
  <2> QED BY <2>1, Least
<1>2. m # 0 /\ m - 1 \in 0 .. k - 1
  OBVIOUS
<1>3. m - 1 \in T
  BY <1>1, <1>2
<1> QED BY <1>2, <1>3

-----------------------------------------------------------------------------
(* The walk.                                                               *)

(* The definition of Path conforms to its equation.                        *)
LEMMA PathEquation ==
  ASSUME NEW cap \in Nat, NEW start, NEW ns
  PROVE  Path(cap, start, ns) =
           [n \in 0 .. cap |-> IF n = 0 THEN start
                               ELSE LET prev == Path(cap, start, ns)[n - 1]
                                    IN  IF prev < 0 THEN prev ELSE ns[prev]]
<1> DEFINE Next1(prev) == IF prev < 0 THEN prev ELSE ns[prev]
           Is(g, m) == g = [n \in 0 .. m |-> IF n = 0 THEN start ELSE Next1(g[n - 1])]
           Good == {m \in Nat : \E g : Is(g, m)}
<1>1. SUFFICES \E g : Is(g, cap)
  BY DEF Path
<1> HIDE DEF Next1
<1>2. 0 \in Good
  <2>1. Is([n \in 0 .. 0 |-> start], 0)
    OBVIOUS
  <2> QED BY <2>1
<1>3. ASSUME NEW m \in 0 .. cap - 1, m \in Good PROVE m + 1 \in Good
  <2>1. PICK g : Is(g, m)
    BY <1>3
  <2> DEFINE h == [n \in 0 .. m + 1 |-> IF n = m + 1 THEN Next1(g[m]) ELSE g[n]]
  <2>2. \A n \in 0 .. m : g[n] = IF n = 0 THEN start ELSE Next1(g[n - 1])
    BY <2>1
  <2>3. \A n \in 0 .. m + 1 : h[n] = IF n = 0 THEN start ELSE Next1(h[n - 1])
    BY <2>2
  <2>4. Is(h, m + 1)
    BY <2>3
  <2>5. (\E f : Is(f, m + 1)) /\ m + 1 \in Nat
    <3> HIDE DEF h, Is
    <3> QED BY <2>4
  <2> QED BY <2>5
<1> HIDE DEF Good
<1>4. cap \in Good
  BY <1>2, <1>3, Induction
<1> QED BY <1>4 DEF Good

(* The same, step by step.                                                 *)
LEMMA PathSteps ==
  ASSUME NEW cap \in Nat, NEW start, NEW ns
  PROVE  /\ Path(cap, start, ns)[0] = start
         /\ \A n \in 1 .. cap : LET prev == Path(cap, start, ns)[n - 1]
                                IN  Path(cap, start, ns)[n] = IF prev < 0 THEN prev ELSE ns[prev]
         /\ DOMAIN Path(cap, start, ns) = 0 .. cap
BY PathEquation

(* A slot is no end of a chain.                                            *)
LEMMA NotNegative == \A s \in Nat : ~(s < 0)
OBVIOUS

(* A walk stays on the slots it may visit.                                 *)
LEMMA PathType ==
  ASSUME NEW cap \in Nat, NEW L \in SUBSET Nat, NEW start, NEW ns, Closed(L, start, ns)
  PROVE  \A n \in 0 .. cap : Path(cap, start, ns)[n] \in L \cup Ends
<1> DEFINE path == Path(cap, start, ns)
           T == {n \in 0 .. cap : path[n] \in L \cup Ends}
<1>1. path[0] = start /\ \A n \in 1 .. cap : path[n] = IF path[n - 1] < 0 THEN path[n - 1]
                                                       ELSE ns[path[n - 1]]
  BY PathSteps
<1> HIDE DEF path
<1>2. 0 \in T
  BY <1>1 DEF Closed
<1>3. ASSUME NEW n \in 0 .. cap - 1, n \in T PROVE n + 1 \in T
  <2>1. path[n + 1] = IF path[n] < 0 THEN path[n] ELSE ns[path[n]]
    BY <1>1
  <2>2. CASE path[n] \in Ends
    <3>1. path[n] < 0
      BY <2>2 DEF Ends, Junk
    <3> QED BY <1>3, <2>1, <3>1
  <2>3. CASE path[n] \in L
    <3>1. ~(path[n] < 0)
      BY <2>3, NotNegative
    <3>2. ns[path[n]] \in L \cup Ends
      BY <2>3 DEF Closed
    <3> QED BY <2>1, <3>1, <3>2
  <2> QED BY <1>3, <2>2, <2>3
<1>4. \A n \in 0 .. cap : n \in T
  <2> HIDE DEF T
  <2> QED BY <1>2, <1>3, Induction
<1> QED BY <1>4 DEF path

(* Where it has ended it stays.                                            *)
LEMMA PathStays ==
  ASSUME NEW cap \in Nat, NEW start, NEW ns, NEW m \in 0 .. cap, Path(cap, start, ns)[m] < 0
  PROVE  \A n \in m .. cap : Path(cap, start, ns)[n] = Path(cap, start, ns)[m]
<1> DEFINE path == Path(cap, start, ns)
           T == {k \in 0 .. cap - m : path[m + k] = path[m]}
<1>1. \A n \in 1 .. cap : path[n - 1] < 0 => path[n] = path[n - 1]
  BY PathSteps
<1>2. path[m] < 0
  OBVIOUS
<1> HIDE DEF path
<1>3. 0 \in T
  OBVIOUS
<1>4. ASSUME NEW k \in 0 .. (cap - m) - 1, k \in T PROVE k + 1 \in T
  <2>1. m + k + 1 \in 1 .. cap /\ (m + k + 1) - 1 = m + k
    OBVIOUS
  <2>2. path[m + k + 1] = path[m + k]
    BY <1>1, <1>2, <1>4, <2>1
  <2> QED BY <1>4, <2>2
<1>5. \A k \in 0 .. cap - m : k \in T
  <2>1. cap - m \in Nat
    OBVIOUS
  <2> HIDE DEF T
  <2> QED BY <1>3, <1>4, <2>1, Induction
<1>6. ASSUME NEW n \in m .. cap PROVE path[n] = path[m]
  <2>1. n - m \in 0 .. cap - m /\ m + (n - m) = n
    OBVIOUS
  <2>2. n - m \in T
    BY <1>5, <2>1
  <2> QED BY <2>1, <2>2
<1> QED BY <1>6 DEF path

(* Without a circle it ends after as many steps as there are slots, since  *)
(* it would visit a slot twice otherwise.                                  *)
LEMMA PathEnds ==
  ASSUME NEW cap \in Nat, NEW L \in SUBSET (0 .. cap - 1), NEW start, NEW ns,
         Closed(L, start, ns), Acyclic(L, ns)
  PROVE  Path(cap, start, ns)[cap] < 0
<1> DEFINE path == Path(cap, start, ns)
<1>1. \A n \in 0 .. cap : path[n] \in L \cup Ends
  BY PathType
<1>2. SUFFICES ASSUME ~(path[cap] < 0) PROVE FALSE
  OBVIOUS
<1>3. \A n \in 0 .. cap : path[n] < 0 => path[cap] = path[n]
  BY PathStays
<1>4. \A n \in 0 .. cap : path[n] \in L
  BY <1>1, <1>2, <1>3 DEF Ends, Junk
<1>5. path \in [0 .. cap -> L]
  BY <1>4, PathEquation
<1>6. PICK i \in 0 .. cap, j \in 0 .. cap : i # j /\ path[i] = path[j]
  <2>1. IsFiniteSet(0 .. cap) /\ Cardinality(0 .. cap) = cap + 1
    BY FS_Interval
  <2>2. IsFiniteSet(0 .. cap - 1) /\ Cardinality(0 .. cap - 1) = cap
    BY FS_Interval
  <2>3. IsFiniteSet(L) /\ Cardinality(L) <= cap /\ Cardinality(L) \in Nat
    BY <2>2, FS_Subset, FS_CardinalityType
  <2> HIDE DEF path
  <2> QED BY <1>5, <2>1, <2>3, FS_PigeonHole
<1>7. ASSUME NEW a \in 0 .. cap, NEW b \in 0 .. cap, a < b, path[a] = path[b] PROVE FALSE
  <2> DEFINE S == {path[n] : n \in a .. b - 1}
  <2>1. S \in SUBSET L /\ path[a] \in S
    BY <1>4, <1>7
  <2>2. PICK n \in a .. b - 1 : ns[path[n]] \notin S
    <3>1. PICK s \in S : ns[s] \notin S
      <4> HIDE DEF S, path
      <4> QED BY <2>1 DEF Acyclic
    <3> QED BY <3>1
  <2>3. path[n + 1] = ns[path[n]]
    <3>1. n + 1 \in 1 .. cap /\ (n + 1) - 1 = n /\ n \in 0 .. cap
      OBVIOUS
    <3>2. ~(path[n] < 0)
      <4>1. path[n] \in L
        BY <1>4, <3>1
      <4>2. \A s \in L : s \in Nat
        OBVIOUS
      <4> HIDE DEF path
      <4> QED BY <4>1, <4>2, NotNegative
    <3> QED BY <3>1, <3>2, PathSteps
  <2>4. path[n + 1] \in S
    <3>1. CASE n + 1 = b
      BY <3>1, <1>7, <2>1
    <3>2. CASE n + 1 # b
      BY <3>2
    <3> QED BY <3>1, <3>2
  <2> QED BY <2>2, <2>3, <2>4
<1> QED BY <1>6, <1>7

(* A lookup stops at the first place where it may.                         *)
LEMMA FirstStopFacts ==
  ASSUME NEW cap \in Nat, NEW path, NEW ks, NEW key, path[cap] < 0
  PROVE  LET n == FirstStop(cap, path, ks, key)
         IN  /\ n \in 0 .. cap /\ Stops(path, ks, key, n)
             /\ \A l \in 0 .. n - 1 : ~Stops(path, ks, key, l)
<1> DEFINE T == {k \in 0 .. cap : Stops(path, ks, key, k)}
<1>1. cap \in T
  BY DEF Stops
<1>2. PICK m \in T : \A n \in T : m <= n
  <2>1. T \in SUBSET Nat
    OBVIOUS
  <2> HIDE DEF T
  <2> QED BY <1>1, <2>1, Least
<1>3. m \in 0 .. cap /\ Stops(path, ks, key, m) /\ \A l \in 0 .. m - 1 : ~Stops(path, ks, key, l)
  BY <1>2
<1> QED BY <1>3 DEF FirstStop

(* What a lookup answers: the step n it stopped at, and around it.         *)
LEMMA LookupFacts ==
  ASSUME NEW cap, NEW L, Within(cap, L), NEW hs, NEW ns, NEW ks, NEW key,
         Closed(L, hs[Hash(key)], ns), Acyclic(L, ns)
  PROVE  LET path == Path(cap, hs[Hash(key)], ns)
             f    == Lookup(cap, hs, ns, ks, key)
         IN  \E n \in 0 .. cap :
               /\ f.curr = path[n] /\ f.prev = IF n = 0 THEN -1 ELSE path[n - 1]
               /\ Stops(path, ks, key, n) /\ \A l \in 0 .. n - 1 : ~Stops(path, ks, key, l)
<1>1. cap \in Nat /\ L \in SUBSET (0 .. cap - 1)
  BY DEF Within
<1> USE <1>1
<1> DEFINE path == Path(cap, hs[Hash(key)], ns)
<1>2. path[cap] < 0
  BY PathEnds
<1> HIDE DEF path
<1>3. LET n == FirstStop(cap, path, ks, key)
      IN  /\ n \in 0 .. cap /\ Stops(path, ks, key, n)
          /\ \A l \in 0 .. n - 1 : ~Stops(path, ks, key, l)
  BY <1>2, FirstStopFacts
<1> QED BY <1>3 DEF Lookup, path

(* It is at an entry with the key or at the end of the chain; what it came *)
(* from leads there and has another key.                                   *)
LEMMA LookupEnds ==
  ASSUME NEW cap, NEW L, Within(cap, L), NEW hs, NEW ns, NEW ks, NEW key,
         Closed(L, hs[Hash(key)], ns), Acyclic(L, ns)
  PROVE  LET f == Lookup(cap, hs, ns, ks, key)
         IN  /\ f.curr \in Ends \/ (f.curr \in L /\ ks[f.curr] = key)
             /\ \/ f.prev = -1 /\ f.curr = hs[Hash(key)]
                \/ f.prev \in L /\ ks[f.prev] # key /\ ns[f.prev] = f.curr
<1>1. cap \in Nat /\ L \in SUBSET (0 .. cap - 1)
  BY DEF Within
<1> USE <1>1
<1> DEFINE start == hs[Hash(key)]
           path  == Path(cap, start, ns)
           f     == Lookup(cap, hs, ns, ks, key)
<1>2. PICK n \in 0 .. cap :
        /\ f.curr = path[n] /\ f.prev = IF n = 0 THEN -1 ELSE path[n - 1]
        /\ Stops(path, ks, key, n) /\ \A l \in 0 .. n - 1 : ~Stops(path, ks, key, l)
  BY LookupFacts
<1>3. \A m \in 0 .. cap : path[m] \in L \cup Ends
  BY PathType
<1>4. \A s \in L : s \in Nat
  OBVIOUS
<1>5. \A e \in Ends : e < 0
  BY DEF Ends, Junk
<1>6. path[0] = start /\ \A m \in 1 .. cap : path[m] = IF path[m - 1] < 0 THEN path[m - 1]
                                                       ELSE ns[path[m - 1]]
  BY PathSteps
<1> HIDE DEF path, f
<1>7. f.curr \in Ends \/ (f.curr \in L /\ ks[f.curr] = key)
  BY <1>2, <1>3, <1>4, NotNegative DEF Stops
<1>8. CASE n = 0
  BY <1>2, <1>6, <1>7, <1>8 DEF f
<1>9. CASE n # 0
  <2>1. n - 1 \in 0 .. n - 1 /\ n - 1 \in 0 .. cap /\ n \in 1 .. cap
    BY <1>9
  <2>2. ~(path[n - 1] < 0) /\ ks[path[n - 1]] # key
    BY <1>2, <2>1 DEF Stops
  <2>3. path[n - 1] \in L /\ path[n] = ns[path[n - 1]]
    BY <1>3, <1>5, <1>6, <2>1, <2>2
  <2>4. f.prev \in L /\ ks[f.prev] # key /\ ns[f.prev] = f.curr
    BY <1>2, <1>9, <2>2, <2>3
  <2> QED BY <1>7, <2>4 DEF f
<1> QED BY <1>8, <1>9

-----------------------------------------------------------------------------
(* The chains of an orderly table.                                         *)

(* Every key has a bucket.                                                 *)
LEMMA HashType == \A key \in Keys : Hash(key) \in Buckets
BY TableAssumption DEF TableAssumption, Hash, Buckets

(* Orderly chains can be walked.                                           *)
LEMMA ChainedClosed ==
  ASSUME NEW L, NEW hs, NEW ns, NEW ks, Chained(L, hs, ns, ks), NEW key \in Keys
  PROVE  Closed(L, hs[Hash(key)], ns) /\ Acyclic(L, ns)
BY HashType DEF Chained, Closed, Ends

(* What is on the path of a bucket belongs there.                          *)
LEMMA PathInBucket ==
  ASSUME NEW cap \in Nat, NEW L \in SUBSET (0 .. cap - 1), NEW hs, NEW ns, NEW ks,
         Chained(L, hs, ns, ks), NEW key \in Keys
  PROVE  \A n \in 0 .. cap : LET s == Path(cap, hs[Hash(key)], ns)[n]
                             IN  s \in L => Hash(ks[s]) = Hash(key)
<1> DEFINE path == Path(cap, hs[Hash(key)], ns)
           T == {n \in 0 .. cap : path[n] \in L => Hash(ks[path[n]]) = Hash(key)}
<1>1. path[0] = hs[Hash(key)]
      /\ \A m \in 1 .. cap : path[m] = IF path[m - 1] < 0 THEN path[m - 1] ELSE ns[path[m - 1]]
  BY PathSteps
<1>2. \A m \in 0 .. cap : path[m] \in L \cup Ends
  BY PathType, ChainedClosed
<1>3. (\A e \in Ends : e < 0) /\ \A t \in L : ~(t < 0)
  BY DEF Ends, Junk
<1> HIDE DEF path
<1>4. 0 \in T
  BY <1>1, HashType DEF Chained, OwnChain
<1>5. ASSUME NEW n \in 0 .. cap - 1, n \in T PROVE n + 1 \in T
  <2>1. path[n + 1] = IF path[n] < 0 THEN path[n] ELSE ns[path[n]]
    BY <1>1
  <2>2. SUFFICES ASSUME path[n + 1] \in L PROVE Hash(ks[path[n + 1]]) = Hash(key)
    OBVIOUS
  <2>3. path[n] \in L /\ path[n + 1] = ns[path[n]]
    <3>1. n \in 0 .. cap
      OBVIOUS
    <3>2. ~(path[n] < 0)
      BY <1>3, <2>1, <2>2
    <3> QED BY <1>2, <1>3, <2>1, <3>1, <3>2
  <2>4. Hash(ks[path[n]]) = Hash(key)
    BY <1>5, <2>3
  <2>5. Hash(ks[ns[path[n]]]) = Hash(ks[path[n]])
    BY <2>2, <2>3 DEF Chained, OwnChain
  <2> QED BY <2>3, <2>4, <2>5
<1>6. \A n \in 0 .. cap : n \in T
  <2> HIDE DEF T
  <2> QED BY <1>4, <1>5, Induction
<1> QED BY <1>6 DEF path

(* Every entry is on the path of the bucket of its key.                    *)
LEMMA EntryOnPath ==
  ASSUME NEW cap \in Nat, NEW L \in SUBSET (0 .. cap - 1), NEW hs, NEW ns, NEW ks,
         Chained(L, hs, ns, ks), NEW key \in Keys, NEW s \in L, Hash(ks[s]) = Hash(key)
  PROVE  \E n \in 0 .. cap : Path(cap, hs[Hash(key)], ns)[n] = s
<1> DEFINE path == Path(cap, hs[Hash(key)], ns)
           S == {t \in L : Hash(ks[t]) = Hash(key) /\ \A n \in 0 .. cap : path[n] # t}
<1>1. path[0] = hs[Hash(key)]
      /\ \A m \in 1 .. cap : path[m] = IF path[m - 1] < 0 THEN path[m - 1] ELSE ns[path[m - 1]]
  BY PathSteps
<1>2. path[cap] < 0
  BY PathEnds, ChainedClosed
<1>3. \A t \in L : ~(t < 0)
  OBVIOUS
<1> SUFFICES ASSUME S # {} PROVE FALSE
  OBVIOUS
<1> HIDE DEF path
<1>4. PICK t \in S : hs[Hash(ks[t])] = t \/ \E p \in L \ S : ns[p] = t
  <2>1. S \in SUBSET L
    OBVIOUS
  <2> HIDE DEF S
  <2> QED BY <2>1 DEF Chained, Rooted
<1>5. hs[Hash(ks[t])] # t
  BY <1>1
<1>6. PICK p \in L \ S : ns[p] = t
  BY <1>4, <1>5
<1>7. Hash(ks[p]) = Hash(key)
  BY <1>6 DEF Chained, OwnChain
<1>8. PICK n \in 0 .. cap : path[n] = p
  BY <1>6, <1>7
<1>9. ~(path[n] < 0) /\ n # cap
  BY <1>2, <1>3, <1>8
<1>10. n + 1 \in 1 .. cap /\ (n + 1) - 1 = n
  BY <1>9
<1>11. path[n + 1] = t
  BY <1>1, <1>6, <1>8, <1>9, <1>10
<1> QED BY <1>10, <1>11

(* A lookup finds the entry with the key, if there is one.                 *)
LEMMA LookupFinds ==
  ASSUME NEW cap, NEW L, Within(cap, L), NEW hs, NEW ns, NEW ks,
         Chained(L, hs, ns, ks), NEW key \in Keys
  PROVE  LET f == Lookup(cap, hs, ns, ks, key)
         IN  /\ \A s \in L : ks[s] = key => f.curr = s
             /\ (\A s \in L : ks[s] # key) => f.curr = -1
             /\ f.prev \in L => Hash(ks[f.prev]) = Hash(key)
<1>1. cap \in Nat /\ L \in SUBSET (0 .. cap - 1)
  BY DEF Within
<1> USE <1>1
<1> DEFINE path == Path(cap, hs[Hash(key)], ns)
           f    == Lookup(cap, hs, ns, ks, key)
<1>2. Closed(L, hs[Hash(key)], ns) /\ Acyclic(L, ns)
  BY ChainedClosed
<1>3. PICK n \in 0 .. cap :
        /\ f.curr = path[n] /\ f.prev = IF n = 0 THEN -1 ELSE path[n - 1]
        /\ Stops(path, ks, key, n) /\ \A l \in 0 .. n - 1 : ~Stops(path, ks, key, l)
  BY <1>2, LookupFacts
<1>4. \A m \in 0 .. cap : path[m] \in L => Hash(ks[path[m]]) = Hash(key)
  BY PathInBucket
<1>5. \A m \in 0 .. cap : path[m] < 0 => \A l \in m .. cap : path[l] = path[m]
  BY PathStays
<1>6. \A t \in L : ~(t < 0)
  OBVIOUS
<1>7. ASSUME NEW s \in L, ks[s] = key PROVE f.curr = s
  <2>1. PICK m \in 0 .. cap : path[m] = s
    BY <1>7, EntryOnPath
  <2> HIDE DEF path, f
  <2>2. Stops(path, ks, key, m)
    BY <1>7, <2>1 DEF Stops
  <2>3. n <= m
    BY <1>3, <2>2
  <2>4. ~(path[n] < 0)
    BY <1>5, <1>6, <2>1, <2>3
  <2>5. ks[path[n]] = key
    BY <1>3, <2>4 DEF Stops
  <2>6. path[n] \in L
    <3>1. path[n] \in L \cup Ends
      BY <1>2, PathType DEF path
    <3> QED BY <2>4, <3>1 DEF Ends, Junk
  <2> QED BY <1>3, <1>7, <2>5, <2>6 DEF Chained
<1>8. ASSUME \A s \in L : ks[s] # key PROVE f.curr = -1
  <2>1. \A m \in 0 .. cap : path[m] \in L \cup {-1}
    <3> DEFINE T == {m \in 0 .. cap : path[m] \in L \cup {-1}}
    <3>1. path[0] = hs[Hash(key)]
          /\ \A m \in 1 .. cap : path[m] = IF path[m - 1] < 0 THEN path[m - 1] ELSE ns[path[m - 1]]
      BY PathSteps
    <3> HIDE DEF path
    <3>2. 0 \in T
      BY <3>1, HashType DEF Chained
    <3>3. ASSUME NEW m \in 0 .. cap - 1, m \in T PROVE m + 1 \in T
      <4>1. path[m + 1] = IF path[m] < 0 THEN path[m] ELSE ns[path[m]]
        BY <3>1
      <4>2. CASE path[m] = -1
        BY <4>1, <4>2
      <4>3. CASE path[m] \in L
        <5>1. ~(path[m] < 0)
          BY <1>6, <4>3
        <5>2. ns[path[m]] \in L \cup {-1}
          BY <4>3 DEF Chained
        <5> QED BY <4>1, <5>1, <5>2
      <4> QED BY <3>3, <4>2, <4>3
    <3>4. \A m \in 0 .. cap : m \in T
      <4> HIDE DEF T
      <4> QED BY <3>2, <3>3, Induction
    <3> QED BY <3>4
  <2>2. f.curr \in Ends
    <3>1. f.curr \in Ends \/ (f.curr \in L /\ ks[f.curr] = key)
      BY <1>2, LookupEnds
    <3> HIDE DEF f
    <3> QED BY <1>8, <3>1
  <2> HIDE DEF path, f
  <2> QED BY <1>3, <2>1, <2>2 DEF Ends, Junk
<1>9. ASSUME f.prev \in L PROVE Hash(ks[f.prev]) = Hash(key)
  <2> HIDE DEF path, f
  <2>1. n # 0
    BY <1>3, <1>6, <1>9
  <2> QED BY <1>3, <1>4, <1>9, <2>1
<1> QED BY <1>7, <1>8, <1>9

(* An entry that is added behind the end of its chain.                     *)
Lengthened(L, hs, ns, ks, prev, slot, key, hs2, ns2, ks2) ==
  /\ slot \in Nat \ L /\ key \in Keys /\ \A s \in L : ks[s] # key
  /\ \/ prev = -1 /\ hs[Hash(key)] = -1
     \/ prev \in L /\ ns[prev] = -1 /\ Hash(ks[prev]) = Hash(key)
  /\ \A h \in Buckets : hs2[h] = IF prev = -1 /\ h = Hash(key) THEN slot ELSE hs[h]
  /\ ns2[slot] = -1 /\ \A s \in L : ns2[s] = IF s = prev THEN slot ELSE ns[s]
  /\ ks2[slot] = key /\ \A s \in L : ks2[s] = ks[s]

(* The chains are orderly with the new entry.                              *)
LEMMA ChainGrows ==
  ASSUME NEW L \in SUBSET Nat, NEW hs, NEW ns, NEW ks, Chained(L, hs, ns, ks),
         NEW prev, NEW slot, NEW key, NEW hs2, NEW ns2, NEW ks2,
         Lengthened(L, hs, ns, ks, prev, slot, key, hs2, ns2, ks2)
  PROVE  Chained(L \cup {slot}, hs2, ns2, ks2)
<1> USE DEF Lengthened
<1> DEFINE M == L \cup {slot}
<1>1. -1 \notin M
  OBVIOUS
<1>2. (\A h \in Buckets : hs2[h] \in M \cup {-1}) /\ \A s \in M : ns2[s] \in M \cup {-1} /\ ks2[s] \in Keys
  BY DEF Chained
<1>3. \A s, t \in M : ks2[s] = ks2[t] => s = t
  BY DEF Chained
<1>4. Acyclic(M, ns2)
  <2> SUFFICES ASSUME NEW S \in SUBSET M, S # {} PROVE \E s \in S : ns2[s] \notin S
    BY DEF Acyclic
  <2>1. CASE slot \in S
    BY <2>1
  <2>2. CASE slot \notin S
    <3>1. S \in SUBSET L
      BY <2>2
    <3>2. PICK s \in S : ns[s] \notin S
      BY <3>1 DEF Chained, Acyclic
    <3> QED BY <2>2, <3>1, <3>2
  <2> QED BY <2>1, <2>2
<1>5. Rooted(M, hs2, ns2, ks2)
  <2> SUFFICES ASSUME NEW S \in SUBSET M, S # {}
               PROVE  \E s \in S : hs2[Hash(ks2[s])] = s \/ \E p \in M \ S : ns2[p] = s
    BY DEF Rooted
  <2>1. CASE S = {slot}
    BY <2>1, HashType
  <2>2. CASE S # {slot}
    <3> DEFINE R == S \ {slot}
    <3>1. R \in SUBSET L /\ R # {}
      BY <2>2
    <3>2. PICK s \in R : hs[Hash(ks[s])] = s \/ \E p \in L \ R : ns[p] = s
      <4> HIDE DEF R
      <4> QED BY <3>1 DEF Chained, Rooted
    <3>3. CASE hs[Hash(ks[s])] = s
      <4>1. Hash(ks[s]) \in Buckets
        BY <3>1, HashType DEF Chained
      <4>2. hs2[Hash(ks2[s])] = s
        BY <3>1, <3>3, <4>1
      <4> QED BY <4>2
    <3>4. ASSUME NEW p \in L \ R, ns[p] = s PROVE ns2[p] = s /\ p \in M \ S
      BY <3>1, <3>4
    <3> QED BY <3>2, <3>3, <3>4
  <2> QED BY <2>1, <2>2
<1>6. OnePred(M, hs2, ns2)
  <2>1. \A p, q \in M : ns2[p] \in M /\ ns2[p] = ns2[q] => p = q
    BY DEF Chained, OnePred
  <2>2. ASSUME NEW p \in M, ns2[p] \in M, NEW h \in Buckets PROVE hs2[h] # ns2[p]
    <3>1. p \in L /\ hs[h] \in L \cup {-1} /\ ns[p] \in L \cup {-1}
      BY <1>1, <2>2 DEF Chained
    <3>2. CASE p = prev
      BY <1>1, <3>1, <3>2
    <3>3. CASE p # prev
      <4>1. ns2[p] = ns[p] /\ ns[p] \in L
        BY <1>1, <2>2, <3>1, <3>3
      <4>2. hs[h] # ns[p]
        BY <3>1, <4>1 DEF Chained, OnePred
      <4> QED BY <4>1, <4>2
    <3> QED BY <3>2, <3>3
  <2> QED BY <2>1, <2>2 DEF OnePred
<1>7. OwnChain(M, hs2, ns2, ks2)
  <2>1. ASSUME NEW h \in Buckets, hs2[h] \in M PROVE Hash(ks2[hs2[h]]) = h
    <3>1. CASE prev = -1 /\ h = Hash(key)
      BY <3>1
    <3>2. CASE ~(prev = -1 /\ h = Hash(key))
      <4>1. hs2[h] = hs[h] /\ hs[h] \in L
        BY <1>1, <2>1, <3>2 DEF Chained
      <4>2. Hash(ks[hs[h]]) = h
        BY <4>1 DEF Chained, OwnChain
      <4> QED BY <4>1, <4>2
    <3> QED BY <3>1, <3>2
  <2>2. ASSUME NEW s \in M, ns2[s] \in M PROVE Hash(ks2[ns2[s]]) = Hash(ks2[s])
    <3>1. s \in L
      BY <1>1, <2>2
    <3>2. CASE s = prev
      BY <1>1, <3>1, <3>2
    <3>3. CASE s # prev
      <4>1. ns2[s] = ns[s] /\ ns[s] \in L
        BY <1>1, <2>2, <3>1, <3>3 DEF Chained
      <4>2. Hash(ks[ns[s]]) = Hash(ks[s])
        BY <3>1, <4>1 DEF Chained, OwnChain
      <4> QED BY <3>1, <4>1, <4>2
    <3> QED BY <3>2, <3>3
  <2> QED BY <2>1, <2>2 DEF OwnChain
<1> QED BY <1>2, <1>3, <1>4, <1>5, <1>6, <1>7 DEF Chained

(* What leads to the entry of slot s.                                      *)
Leads(L, hs, ns, ks, prev, s) == \/ prev = -1 /\ hs[Hash(ks[s])] = s
                                 \/ prev \in L /\ ns[prev] = s

(* An entry that is taken off the end of its chain.                        *)
Shortened(L, hs, ns, ks, prev, curr, hs2, ns2, ks2) ==
  /\ curr \in L /\ ns[curr] = -1 /\ Leads(L, hs, ns, ks, prev, curr)
  /\ \A h \in Buckets : hs2[h] = IF prev = -1 /\ h = Hash(ks[curr]) THEN -1 ELSE hs[h]
  /\ \A s \in L \ {curr} : ns2[s] = IF s = prev THEN -1 ELSE ns[s]
  /\ \A s \in L \ {curr} : ks2[s] = ks[s]

(* The chains are orderly without the entry.                               *)
LEMMA ChainShrinks ==
  ASSUME NEW L \in SUBSET Nat, NEW hs, NEW ns, NEW ks, Chained(L, hs, ns, ks),
         NEW prev, NEW curr, NEW hs2, NEW ns2, NEW ks2,
         Shortened(L, hs, ns, ks, prev, curr, hs2, ns2, ks2)
  PROVE  Chained(L \ {curr}, hs2, ns2, ks2)
<1> USE DEF Shortened, Leads
<1> DEFINE M == L \ {curr}
<1>1. -1 \notin L /\ Hash(ks[curr]) \in Buckets
  <2>1. ks[curr] \in Keys
    BY DEF Chained
  <2> QED BY <2>1, HashType
<1>2. ASSUME NEW h \in Buckets PROVE hs2[h] = -1 \/ (hs2[h] \in M /\ hs2[h] = hs[h])
  <2>1. hs[h] \in L \cup {-1}
    BY DEF Chained
  <2>2. CASE hs[h] = curr
    <3>1. h = Hash(ks[curr])
      BY <2>2 DEF Chained, OwnChain
    <3>2. ~(prev \in L /\ ns[prev] = curr)
      BY <2>2 DEF Chained, OnePred
    <3> QED BY <3>1, <3>2
  <2>3. CASE hs[h] # curr
    BY <2>1, <2>3
  <2> QED BY <2>2, <2>3
<1>3. ASSUME NEW s \in M PROVE ns2[s] = -1 \/ (ns2[s] \in M /\ ns2[s] = ns[s])
  <2>1. ns[s] \in L \cup {-1}
    BY DEF Chained
  <2>2. CASE ns[s] = curr
    <3>1. hs[Hash(ks[curr])] # curr
      BY <1>1, <2>2 DEF Chained, OnePred
    <3>2. s = prev
      BY <2>2, <3>1 DEF Chained, OnePred
    <3> QED BY <3>2
  <2>3. CASE ns[s] # curr
    BY <2>1, <2>3
  <2> QED BY <2>2, <2>3
<1>4. (\A h \in Buckets : hs2[h] \in M \cup {-1}) /\ \A s \in M : ns2[s] \in M \cup {-1} /\ ks2[s] \in Keys
  BY <1>2, <1>3 DEF Chained
<1>5. \A s, t \in M : ks2[s] = ks2[t] => s = t
  BY DEF Chained
<1>6. Acyclic(M, ns2)
  <2> SUFFICES ASSUME NEW S \in SUBSET M, S # {} PROVE \E s \in S : ns2[s] \notin S
    BY DEF Acyclic
  <2>1. S \in SUBSET L
    OBVIOUS
  <2>2. PICK s \in S : ns[s] \notin S
    BY <2>1 DEF Chained, Acyclic
  <2>3. ns2[s] \notin S
    BY <1>1, <1>3, <2>2
  <2> QED BY <2>3
<1>7. Rooted(M, hs2, ns2, ks2)
  <2> SUFFICES ASSUME NEW S \in SUBSET M, S # {}
               PROVE  \E s \in S : hs2[Hash(ks2[s])] = s \/ \E p \in M \ S : ns2[p] = s
    BY DEF Rooted
  <2>1. PICK s \in S : hs[Hash(ks[s])] = s \/ \E p \in L \ S : ns[p] = s
    BY DEF Chained, Rooted
  <2>2. CASE hs[Hash(ks[s])] = s
    <3>1. Hash(ks[s]) \in Buckets
      BY HashType DEF Chained
    <3>2. ~(prev = -1 /\ Hash(ks[s]) = Hash(ks[curr]))
      BY <1>1, <2>2
    <3>3. ks2[s] = ks[s] /\ hs2[Hash(ks[s])] = hs[Hash(ks[s])]
      BY <3>1, <3>2
    <3>4. hs2[Hash(ks2[s])] = s
      BY <2>2, <3>3
    <3> QED BY <3>4
  <2>3. ASSUME NEW p \in L \ S, ns[p] = s PROVE p \in M \ S /\ ns2[p] = s
    BY <2>3
  <2> QED BY <2>1, <2>2, <2>3
<1>8. OnePred(M, hs2, ns2)
  <2>1. ASSUME NEW p \in M, NEW q \in M, ns2[p] \in M, ns2[p] = ns2[q] PROVE p = q
    <3>1. ns2[p] = ns[p] /\ ns2[q] = ns[q]
      BY <1>1, <1>3, <2>1
    <3> QED BY <2>1, <3>1 DEF Chained, OnePred
  <2>2. ASSUME NEW p \in M, ns2[p] \in M, NEW h \in Buckets PROVE hs2[h] # ns2[p]
    <3>1. ns2[p] = ns[p]
      BY <1>1, <1>3, <2>2
    <3>2. hs[h] # ns[p]
      BY <2>2, <3>1 DEF Chained, OnePred
    <3> QED BY <1>1, <1>2, <2>2, <3>1, <3>2
  <2> QED BY <2>1, <2>2 DEF OnePred
<1>9. OwnChain(M, hs2, ns2, ks2)
  <2>1. ASSUME NEW h \in Buckets, hs2[h] \in M PROVE Hash(ks2[hs2[h]]) = h
    <3>1. hs2[h] = hs[h]
      BY <1>1, <1>2, <2>1
    <3>2. Hash(ks[hs[h]]) = h
      BY <2>1, <3>1 DEF Chained, OwnChain
    <3> QED BY <2>1, <3>1, <3>2
  <2>2. ASSUME NEW s \in M, ns2[s] \in M PROVE Hash(ks2[ns2[s]]) = Hash(ks2[s])
    <3>1. ns2[s] = ns[s]
      BY <1>1, <1>3, <2>2
    <3>2. Hash(ks[ns[s]]) = Hash(ks[s])
      BY <2>2, <3>1 DEF Chained, OwnChain
    <3> QED BY <2>2, <3>1, <3>2
  <2> QED BY <2>1, <2>2 DEF OwnChain
<1> QED BY <1>4, <1>5, <1>6, <1>7, <1>8, <1>9 DEF Chained

(* An entry that is moved to another slot.                                 *)
Renamed(L, hs, ns, ks, prev, last, curr, hs2, ns2, ks2) ==
  /\ last \in L /\ curr \in Nat \ L /\ Leads(L, hs, ns, ks, prev, last)
  /\ \A h \in Buckets : hs2[h] = IF prev = -1 /\ h = Hash(ks[last]) THEN curr ELSE hs[h]
  /\ ns2[curr] = ns[last]
  /\ \A s \in L \ {last} : ns2[s] = IF s = prev THEN curr ELSE ns[s]
  /\ ks2[curr] = ks[last] /\ \A s \in L \ {last} : ks2[s] = ks[s]

(* The chains are orderly with the entry in its new slot.                  *)
LEMMA ChainRenamed ==
  ASSUME NEW L \in SUBSET Nat, NEW hs, NEW ns, NEW ks, Chained(L, hs, ns, ks),
         NEW prev, NEW last, NEW curr, NEW hs2, NEW ns2, NEW ks2,
         Renamed(L, hs, ns, ks, prev, last, curr, hs2, ns2, ks2)
  PROVE  Chained((L \ {last}) \cup {curr}, hs2, ns2, ks2)
<1> USE DEF Renamed, Leads
<1> DEFINE M == (L \ {last}) \cup {curr}
           New1(s) == IF s = last THEN curr ELSE s
<1>1. -1 \notin L /\ Hash(ks[last]) \in Buckets /\ curr # -1 /\ curr # last
  <2>1. ks[last] \in Keys
    BY DEF Chained
  <2> QED BY <2>1, HashType
<1>2. ns[last] # last
  <2>1. {last} \in SUBSET L /\ {last} # {}
    OBVIOUS
  <2>2. PICK s \in {last} : ns[s] \notin {last}
    BY <2>1 DEF Chained, Acyclic
  <2> QED BY <2>2
<1>3. ASSUME NEW h \in Buckets PROVE (hs2[h] = -1 /\ hs[h] = -1) \/ (hs[h] \in L /\ hs2[h] = New1(hs[h]))
  <2>1. hs[h] \in L \cup {-1}
    BY DEF Chained
  <2>2. CASE hs[h] = last
    <3>1. h = Hash(ks[last])
      BY <2>2 DEF Chained, OwnChain
    <3>2. ~(prev \in L /\ ns[prev] = last)
      BY <2>2 DEF Chained, OnePred
    <3> QED BY <2>2, <3>1, <3>2
  <2>3. CASE hs[h] # last
    BY <2>1, <2>3
  <2> QED BY <2>2, <2>3
<1>4. ASSUME NEW s \in L
      PROVE  (ns2[New1(s)] = -1 /\ ns[s] = -1) \/ (ns[s] \in L /\ ns2[New1(s)] = New1(ns[s]))
  <2>1. ns[s] \in L \cup {-1}
    BY DEF Chained
  <2>2. CASE s = last
    BY <1>1, <1>2, <2>1, <2>2
  <2>3. CASE s # last /\ ns[s] = last
    <3>1. hs[Hash(ks[last])] # last
      BY <1>1, <2>3 DEF Chained, OnePred
    <3>2. s = prev
      BY <2>3, <3>1 DEF Chained, OnePred
    <3> QED BY <2>3, <3>2
  <2>4. CASE s # last /\ ns[s] # last
    <3>1. ns2[s] = ns[s]
      BY <1>1, <2>4
    <3> QED BY <1>1, <2>1, <2>4, <3>1
  <2> QED BY <2>2, <2>3, <2>4
<1>5. /\ \A t \in M : \E s \in L : t = New1(s)
      /\ \A s \in L : New1(s) \in M /\ New1(s) # -1 /\ ks2[New1(s)] = ks[s]
      /\ \A s, t \in L : New1(s) = New1(t) => s = t
  BY <1>1
<1>6. -1 \notin M
  BY <1>1
<1> HIDE DEF M, New1
<1>7. (\A h \in Buckets : hs2[h] \in M \cup {-1}) /\ \A s \in M : ns2[s] \in M \cup {-1} /\ ks2[s] \in Keys
  <2>1. \A h \in Buckets : hs2[h] \in M \cup {-1}
    BY <1>3, <1>5
  <2>2. ASSUME NEW t \in M PROVE ns2[t] \in M \cup {-1} /\ ks2[t] \in Keys
    <3>1. PICK s \in L : t = New1(s)
      BY <1>5
    <3>2. ks[s] \in Keys
      BY DEF Chained
    <3> QED BY <1>4, <1>5, <3>1, <3>2
  <2> QED BY <2>1, <2>2
<1>8. ASSUME NEW s \in M, NEW t \in M, ks2[s] = ks2[t] PROVE s = t
  <2>1. PICK a \in L, b \in L : s = New1(a) /\ t = New1(b)
    BY <1>5
  <2>2. ks[a] = ks[b]
    BY <1>8, <1>5, <2>1
  <2> QED BY <2>1, <2>2 DEF Chained
<1>9. Acyclic(M, ns2)
  <2> SUFFICES ASSUME NEW S \in SUBSET M, S # {} PROVE \E s \in S : ns2[s] \notin S
    BY DEF Acyclic
  <2> DEFINE R == {s \in L : New1(s) \in S}
  <2>1. R \in SUBSET L /\ R # {}
    BY <1>5
  <2>2. PICK s \in R : ns[s] \notin R
    <3> HIDE DEF R
    <3> QED BY <2>1 DEF Chained, Acyclic
  <2>3. New1(s) \in S /\ ns2[New1(s)] \notin S
    BY <1>4, <1>5, <2>2 
  <2> QED BY <2>3
<1>10. Rooted(M, hs2, ns2, ks2)
  <2> SUFFICES ASSUME NEW S \in SUBSET M, S # {}
               PROVE  \E s \in S : hs2[Hash(ks2[s])] = s \/ \E p \in M \ S : ns2[p] = s
    BY DEF Rooted
  <2> DEFINE R == {s \in L : New1(s) \in S}
  <2>1. R \in SUBSET L /\ R # {}
    BY <1>5
  <2>2. PICK s \in R : hs[Hash(ks[s])] = s \/ \E p \in L \ R : ns[p] = s
    <3> HIDE DEF R
    <3> QED BY <2>1 DEF Chained, Rooted
  <2>3. s \in L /\ New1(s) \in S /\ ks2[New1(s)] = ks[s] /\ Hash(ks[s]) \in Buckets
    BY <1>5, HashType DEF Chained
  <2>4. CASE hs[Hash(ks[s])] = s
    BY <1>1, <1>3, <2>3, <2>4
  <2>5. ASSUME NEW p \in L \ R, ns[p] = s PROVE New1(p) \in M \ S /\ ns2[New1(p)] = New1(s)
    BY <1>1, <1>4, <1>5, <2>3, <2>5
  <2> QED BY <2>2, <2>3, <2>4, <2>5
<1>11. OnePred(M, hs2, ns2)
  <2>1. ASSUME NEW p \in M, NEW q \in M, ns2[p] \in M, ns2[p] = ns2[q] PROVE p = q
    <3>1. PICK a \in L, b \in L : p = New1(a) /\ q = New1(b)
      BY <1>5
    <3>2. ns[a] \in L /\ ns[b] \in L /\ New1(ns[a]) = New1(ns[b])
      BY <1>4, <1>5, <2>1, <3>1, <1>6
    <3>3. ns[a] = ns[b]
      BY <1>5, <3>2
    <3> QED BY <3>1, <3>2, <3>3 DEF Chained, OnePred
  <2>2. ASSUME NEW p \in M, ns2[p] \in M, NEW h \in Buckets PROVE hs2[h] # ns2[p]
    <3>1. PICK a \in L : p = New1(a)
      BY <1>5
    <3>2. ns[a] \in L /\ ns2[p] = New1(ns[a]) /\ New1(ns[a]) # -1
      BY <1>4, <1>5, <1>6, <2>2, <3>1
    <3>3. hs[h] # ns[a]
      BY <3>2 DEF Chained, OnePred
    <3>4. hs2[h] = -1 \/ (hs[h] \in L /\ hs2[h] = New1(hs[h]))
      BY <1>3
    <3>5. CASE hs2[h] = -1
      BY <3>2, <3>5
    <3>6. CASE hs[h] \in L /\ hs2[h] = New1(hs[h])
      <4>1. New1(hs[h]) # New1(ns[a])
        BY <1>5, <3>2, <3>3, <3>6, Zenon
      <4> QED BY <3>2, <3>6, <4>1
    <3> QED BY <3>4, <3>5, <3>6
  <2> QED BY <2>1, <2>2 DEF OnePred
<1>12. OwnChain(M, hs2, ns2, ks2)
  <2>1. ASSUME NEW h \in Buckets, hs2[h] \in M PROVE Hash(ks2[hs2[h]]) = h
    <3>1. hs[h] \in L /\ hs2[h] = New1(hs[h])
      BY <1>3, <1>6, <2>1
    <3>2. Hash(ks[hs[h]]) = h
      BY <3>1 DEF Chained, OwnChain
    <3>3. ks2[New1(hs[h])] = ks[hs[h]]
      BY <1>5, <3>1, Zenon
    <3> QED BY <3>1, <3>2, <3>3
  <2>2. ASSUME NEW t \in M, ns2[t] \in M PROVE Hash(ks2[ns2[t]]) = Hash(ks2[t])
    <3>1. PICK s \in L : t = New1(s)
      BY <1>5
    <3>2. ns[s] \in L /\ ns2[t] = New1(ns[s])
      BY <1>4, <1>6, <2>2, <3>1
    <3>3. Hash(ks[ns[s]]) = Hash(ks[s])
      BY <3>2 DEF Chained, OwnChain
    <3> QED BY <1>5, <3>1, <3>2, <3>3
  <2> QED BY <2>1, <2>2 DEF OwnChain
<1> QED BY <1>7, <1>8, <1>9, <1>10, <1>11, <1>12 DEF Chained, M

-----------------------------------------------------------------------------
(* The invariant.                                                          *)

(* The entries of an orderly table.                                        *)
OrderlyInv == Chained(0 .. count - 1, AllBuckets, nexts, keys)

(* When the arrays are sound: no removal has cut a chain.                  *)
Sound == orderly \/ "remove" \notin use.calls

FlagsOK == created \in {"nothing", "NULL", "a table"} /\ lost \in BOOLEAN /\ orderly \in BOOLEAN

Inv == /\ use \in Uses /\ FlagsOK
       /\ Sound => TypeOK
       /\ orderly => OrderlyInv
       /\ "remove" \notin use.calls => Acyclic(Slots, nexts)

-----------------------------------------------------------------------------
(* The lookups of the model.                                               *)

(* NULL is the empty function, and no table of buckets.                    *)
LEMMA NullFacts ==
  /\ NULL = [i \in {} |-> i] /\ \A T : NULL \in [0 .. -1 -> T]
  /\ \A T : \A hs \in [Buckets -> T] : hs # NULL
<1>1. NULL = [i \in {} |-> i] /\ 0 .. -1 = {}
  BY DEF NULL
<1>2. \A T : NULL \in [0 .. -1 -> T]
  BY <1>1
<1>3. ASSUME NEW T, NEW hs \in [Buckets -> T] PROVE hs # NULL
  <2>1. 0 \in DOMAIN hs
    BY TableAssumption DEF TableAssumption, Buckets
  <2> QED BY <1>1, <2>1
<1> QED BY <1>1, <1>2, <1>3

(* In an empty bucket nothing is found.                                    *)
LEMMA NothingFound ==
  ASSUME NEW cap \in Nat, NEW hs, NEW ns, NEW ks, NEW key, hs[Hash(key)] = -1
  PROVE  Lookup(cap, hs, ns, ks, key) = [curr |-> -1, prev |-> -1]
<1> DEFINE path == Path(cap, hs[Hash(key)], ns)
<1>1. path[0] = -1
  BY PathSteps
<1>2. path[cap] < 0
  BY <1>1, PathStays
<1> HIDE DEF path
<1> DEFINE n == FirstStop(cap, path, ks, key)
<1>3. n \in 0 .. cap /\ \A l \in 0 .. n - 1 : ~Stops(path, ks, key, l)
  BY <1>2, FirstStopFacts
<1>4. Stops(path, ks, key, 0)
  BY <1>1 DEF Stops
<1> HIDE DEF n
<1>5. n = 0
  BY <1>3, <1>4
<1> QED BY <1>1, <1>5 DEF n, path, Lookup

(* The lookup of hash_table_index_of is Lookup, for any arrays it is       *)
(* given.                                                                  *)
LEMMA FindIs ==
  ASSUME NEW hs, NEW ns, NEW ks, NEW key, hs # NULL
  PROVE  Find(hs, ns, ks, key) = Lookup(capacity, hs, ns, ks, key)
BY DEF Find, Lookup, Walk, Path, FirstStop

(* The same for the arrays of the table, whether or not it has buckets     *)
(* yet.                                                                    *)
LEMMA FindIsLookup ==
  ASSUME capacity \in Nat, NEW key \in Keys
  PROVE  Find(hashs, nexts, keys, key) = Lookup(capacity, AllBuckets, nexts, keys, key)
<1>1. CASE hashs = NULL
  <2>1. AllBuckets[Hash(key)] = -1
    BY <1>1, HashType DEF AllBuckets
  <2> QED BY <1>1, <2>1, NothingFound DEF Find
<1>2. CASE hashs # NULL
  BY <1>2, FindIs DEF AllBuckets
<1> QED BY <1>1, <1>2

(* The same after a step.                                                  *)
LEMMA FindIsLookupNext ==
  ASSUME capacity' \in Nat, NEW key \in Keys
  PROVE  Find(hashs, nexts, keys, key)' = Lookup(capacity', AllBuckets', nexts', keys', key)
<1>1. CASE hashs' = NULL
  <2>1. AllBuckets'[Hash(key)] = -1
    BY <1>1, HashType DEF AllBuckets
  <2> QED BY <1>1, <2>1, NothingFound DEF Find
<1>2. CASE hashs' # NULL
  <2>1. Find(hashs, nexts, keys, key)' = Lookup(capacity', hashs', nexts', keys', key)
    BY <1>2 DEF Find, Lookup, Walk, Path, FirstStop
  <2> QED BY <1>2, <2>1 DEF AllBuckets
<1> QED BY <1>1, <1>2

(* It answers an entry with the key or an end, and what leads there.       *)
LEMMA Found ==
  ASSUME Inv, Sound, NEW key \in Keys
  PROVE  LET f == Find(hashs, nexts, keys, key)
         IN  /\ f.curr \in Ends \/ (f.curr \in Slots /\ keys[f.curr] = key)
             /\ \/ f.prev = -1 /\ f.curr = AllBuckets[Hash(key)]
                \/ f.prev \in Slots /\ nexts[f.prev] = f.curr
<1>1. TypeOK
  BY DEF Inv, Sound
<1>2. Find(hashs, nexts, keys, key) = Lookup(capacity, AllBuckets, nexts, keys, key)
  BY <1>1, FindIsLookup DEF TypeOK
<1>3. PICK L \in SUBSET Slots : Closed(L, AllBuckets[Hash(key)], nexts) /\ Acyclic(L, nexts)
  <2>1. CASE orderly
    <3>1. Chained(0 .. count - 1, AllBuckets, nexts, keys)
      BY <2>1 DEF Inv, OrderlyInv
    <3>2. 0 .. count - 1 \in SUBSET Slots
      <4>1. capacity \in Nat /\ count \in 0 .. capacity
        BY <1>1 DEF TypeOK
      <4> QED BY <4>1 DEF Slots
    <3> QED BY <3>1, <3>2, ChainedClosed
  <2>2. CASE "remove" \notin use.calls
    <3>1. Closed(Slots, AllBuckets[Hash(key)], nexts)
      <4>1. Hash(key) \in Buckets
        BY HashType
      <4> QED BY <1>1, <4>1 DEF TypeOK, Closed, Ends, AllBuckets
    <3> QED BY <2>2, <3>1 DEF Inv
  <2> QED BY <2>1, <2>2 DEF Sound
<1>4. LET f == Lookup(capacity, AllBuckets, nexts, keys, key)
      IN  /\ f.curr \in Ends \/ (f.curr \in L /\ keys[f.curr] = key)
          /\ \/ f.prev = -1 /\ f.curr = AllBuckets[Hash(key)]
             \/ f.prev \in L /\ keys[f.prev] # key /\ nexts[f.prev] = f.curr
  <2>1. Within(capacity, L)
    BY <1>1 DEF TypeOK, Slots, Within
  <2> QED BY <1>3, <2>1, LookupEnds
<1> QED BY <1>2, <1>3, <1>4

(* In an orderly table it finds the entry with the key, if there is one.   *)
LEMMA FoundIn ==
  ASSUME NEW cap, NEW L, Within(cap, L), NEW hs, NEW ns, NEW ks,
         Chained(L, hs, ns, ks), NEW key \in Keys
  PROVE  LET i == Lookup(cap, hs, ns, ks, key).curr
         IN  /\ \A s \in L : ks[s] = key => i = s /\ i > -1
             /\ (\A s \in L : ks[s] # key) => ~(i > -1)
<1> DEFINE f == Lookup(cap, hs, ns, ks, key)
<1>1. /\ \A s \in L : ks[s] = key => f.curr = s
      /\ (\A s \in L : ks[s] # key) => f.curr = -1
      /\ f.prev \in L => Hash(ks[f.prev]) = Hash(key)
  BY LookupFinds
<1>2. \A s \in L : s > -1
  BY DEF Within
<1> HIDE DEF f
<1>3. (\A s \in L : ks[s] = key => f.curr = s /\ f.curr > -1) /\ ((\A s \in L : ks[s] # key) => ~(f.curr > -1))
  BY <1>1, <1>2
<1> QED BY <1>3 DEF f

(* index_of and contains answer what the entries say.                      *)
LEMMA FoundOrderly ==
  ASSUME capacity \in Nat, count \in 0 .. capacity, NEW key \in Keys,
         Chained(0 .. count - 1, AllBuckets, nexts, keys)
  PROVE  /\ \A s \in 0 .. count - 1 : keys[s] = key => index_of(key) = s /\ contains(key)
         /\ (\A s \in 0 .. count - 1 : keys[s] # key) => ~contains(key)
<1>1. PICK cap, L, hs, ns, ks : /\ cap = capacity /\ L = 0 .. count - 1
                                 /\ hs = AllBuckets /\ ns = nexts /\ ks = keys
  OBVIOUS
<1>2. Within(cap, L) /\ Chained(L, hs, ns, ks)
  BY <1>1 DEF Within
<1>3. LET i == Lookup(cap, hs, ns, ks, key).curr
      IN  /\ \A s \in L : ks[s] = key => i = s /\ i > -1
          /\ (\A s \in L : ks[s] # key) => ~(i > -1)
  BY <1>2, FoundIn
<1>4. index_of(key) = Lookup(cap, hs, ns, ks, key).curr
  BY <1>1, FindIsLookup DEF index_of
<1> QED BY <1>1, <1>3, <1>4 DEF contains

(* A block to set an entry in has room for it and what nexts had.          *)
LEMMA BlockFacts ==
  ASSUME TypeOK, use \in AllUses, NEW block \in Blocks
  PROVE  /\ block.capacity \in Nat /\ capacity <= block.capacity /\ count + 1 <= block.capacity
         /\ block.nexts \in [0 .. block.capacity - 1 -> Slots \cup {-1, Junk}]
         /\ \A n \in 0 .. block.capacity - 1 : block.nexts[n] = IF n \in Slots THEN nexts[n] ELSE Junk
         /\ block.keys \in [0 .. block.capacity - 1 -> Keys \cup {Junk}]
         /\ block.values \in [0 .. block.capacity - 1 -> Values \cup Keys \cup {Junk}]
         /\ block.capacity = IF Full THEN NewCapacity ELSE capacity
         /\ ~Full => block.keys = keys /\ block.values = values
<1>1. capacity \in Nat /\ count \in 0 .. capacity /\ use.first \in Nat \ {0}
  BY DEF TypeOK, AllUses
<1>2. CASE ~Full
  <2>1. block = [capacity |-> capacity, nexts |-> nexts, keys |-> keys, values |-> values]
    BY <1>2 DEF Blocks
  <2>2. count + 1 <= capacity
    BY <1>1, <1>2 DEF Full
  <2>3. block.capacity = capacity /\ block.nexts = nexts /\ block.keys = keys /\ block.values = values
    BY <2>1
  <2>4. \A n \in 0 .. capacity - 1 : n \in Slots
    BY DEF Slots
  <2>5. /\ nexts \in [0 .. capacity - 1 -> Slots \cup {-1, Junk}]
        /\ keys \in [0 .. capacity - 1 -> Keys \cup {Junk}]
        /\ values \in [0 .. capacity - 1 -> Values \cup Keys \cup {Junk}]
    BY DEF TypeOK, Slots
  <2> QED BY <1>1, <1>2, <2>2, <2>3, <2>4, <2>5
<1>3. CASE Full
  <2>1. NewCapacity \in Nat /\ capacity <= NewCapacity /\ count + 1 <= NewCapacity
    BY <1>1, <1>3 DEF Full, NewCapacity
  <2>2. PICK ks, vs : /\ block = Grown(ks, vs)
                      /\ ks \in [Slots -> Keys \cup {Junk}]
                      /\ vs \in [Slots -> Values \cup Keys \cup {Junk}]
    <3> DEFINE junk == [n \in Slots |-> Junk]
    <3>1. block \in {Grown(keys, keys), Grown(keys, values), Grown(junk, junk)}
      BY <1>3 DEF Blocks
    <3>2. /\ junk \in [Slots -> Keys \cup {Junk}] /\ junk \in [Slots -> Values \cup Keys \cup {Junk}]
          /\ keys \in [Slots -> Keys \cup {Junk}] /\ keys \in [Slots -> Values \cup Keys \cup {Junk}]
          /\ values \in [Slots -> Values \cup Keys \cup {Junk}]
      BY DEF TypeOK
    <3> HIDE DEF junk
    <3> QED BY <3>1, <3>2
  <2>3. /\ block.capacity = NewCapacity
        /\ block.nexts = [n \in 0 .. NewCapacity - 1 |-> IF n \in Slots THEN nexts[n] ELSE Junk]
        /\ block.keys = [n \in 0 .. NewCapacity - 1 |-> IF n \in Slots THEN ks[n] ELSE Junk]
        /\ block.values = [n \in 0 .. NewCapacity - 1 |-> IF n \in Slots THEN vs[n] ELSE Junk]
    BY <2>2 DEF Grown
  <2>4. block.nexts \in [0 .. NewCapacity - 1 -> Slots \cup {-1, Junk}]
    BY <2>3 DEF TypeOK
  <2>5. block.keys \in [0 .. NewCapacity - 1 -> Keys \cup {Junk}]
    BY <2>2, <2>3
  <2>6. block.values \in [0 .. NewCapacity - 1 -> Values \cup Keys \cup {Junk}]
    BY <2>2, <2>3
  <2> QED BY <1>3, <2>1, <2>3, <2>4, <2>5, <2>6
<1> QED BY <1>2, <1>3

-----------------------------------------------------------------------------
(* The block of the table.                                                 *)

(* Both sizes are numbers.                                                 *)
LEMMA Sizes == ASSUME TypeOK PROVE capacity \in Nat /\ count \in Nat
<1>1. capacity \in Nat /\ count \in 0 .. capacity
  BY DEF TypeOK
<1> QED BY <1>1

(* A new value for an entry keeps to the block.                            *)
LEMMA TypeSetExisting ==
  ASSUME Inv, Sound, NEW key \in Keys, NEW value \in use.values, SetExisting(key, value),
         FlagsOK', UNCHANGED use
  PROVE  TypeOK'
<1>1. TypeOK /\ value \in Values
  BY TableAssumption DEF Inv, Sound, TableAssumption, AllUses
<1>2. values' \in [Slots -> Values \cup Keys \cup {Junk}]
  BY <1>1 DEF SetExisting, TypeOK
<1> QED BY <1>1, <1>2 DEF SetExisting, TypeOK, FlagsOK, Slots

(* The buckets, made if there were none, lead to slots.                    *)
LEMMA AllBucketsType ==
  ASSUME TypeOK PROVE AllBuckets \in [Buckets -> Slots \cup {-1}]
BY DEF TypeOK, AllBuckets

(* A new entry keeps to the block, which may grow for it.                  *)
LEMMA TypeSetNew ==
  ASSUME Inv, Sound, NEW key \in Keys, NEW value \in use.values, SetNew(key, value),
         FlagsOK', UNCHANGED use
  PROVE  TypeOK'
<1>1. TypeOK /\ value \in Values /\ use \in AllUses
  BY TableAssumption DEF Inv, Sound, TableAssumption, AllUses
<1> DEFINE prev == Find(hashs, nexts, keys, key).prev
<1>2. prev = -1 \/ prev \in Slots
  BY Found
<1> HIDE DEF prev
<1>3. PICK block \in Blocks :
        /\ capacity' = block.capacity
        /\ hashs'  = LinkHashs(AllBuckets, prev, key, count)
        /\ nexts'  = AddLast(block.nexts, prev, count)
        /\ keys'   = [block.keys EXCEPT ![count] = key]
        /\ values' = [block.values EXCEPT ![count] = value]
  BY DEF SetNew, prev
<1>4. /\ block.capacity \in Nat /\ capacity <= block.capacity /\ count + 1 <= block.capacity
      /\ block.nexts \in [0 .. block.capacity - 1 -> Slots \cup {-1, Junk}]
      /\ block.keys \in [0 .. block.capacity - 1 -> Keys \cup {Junk}]
      /\ block.values \in [0 .. block.capacity - 1 -> Values \cup Keys \cup {Junk}]
  BY <1>1, BlockFacts
<1>5. count' = count + 1 /\ count \in Nat /\ capacity \in Nat
  BY <1>1, Sizes DEF SetNew
<1>6. capacity' \in Nat /\ count' \in 0 .. capacity'
  BY <1>3, <1>4, <1>5
<1>7. Slots' = 0 .. block.capacity - 1 /\ Slots \subseteq Slots' /\ count \in Slots'
  BY <1>3, <1>4, <1>5 DEF Slots
<1>8. hashs' \in [Buckets -> Slots' \cup {-1}]
  BY <1>1, <1>3, <1>7, AllBucketsType DEF LinkHashs
<1>9. nexts' \in [Slots' -> Slots' \cup {-1, Junk}]
  <2>1. block.nexts \in [Slots' -> Slots' \cup {-1, Junk}]
    BY <1>4, <1>7
  <2>2. LinkNexts(block.nexts, prev, count) \in [Slots' -> Slots' \cup {-1, Junk}]
    BY <1>7, <2>1 DEF LinkNexts
  <2> QED BY <1>3, <2>2 DEF AddLast
<1>10. keys' \in [Slots' -> Keys \cup {Junk}]
  BY <1>3, <1>4, <1>7
<1>11. values' \in [Slots' -> Values \cup Keys \cup {Junk}]
  BY <1>1, <1>3, <1>4, <1>7
<1>12. created' \in {"nothing", "NULL", "a table"} /\ lost' \in BOOLEAN /\ orderly' \in BOOLEAN
  BY DEF FlagsOK
<1> QED BY <1>6, <1>8, <1>9, <1>10, <1>11, <1>12 DEF TypeOK

(* Buckets without a block lead nowhere.                                   *)
LEMMA TypeSetFails ==
  ASSUME Inv, Sound, NEW key \in Keys, SetFails(key), FlagsOK', UNCHANGED use
  PROVE  TypeOK'
<1>1. TypeOK
  BY DEF Inv, Sound
<1>2. hashs' \in [Buckets -> Slots \cup {-1}]
  BY <1>1, AllBucketsType DEF SetFails
<1> QED BY <1>1, <1>2 DEF SetFails, TypeOK, FlagsOK, Slots

(* An emptied table has no slots.                                          *)
LEMMA TypeReset ==
  ASSUME Reset, FlagsOK', UNCHANGED use
  PROVE  TypeOK'
<1>1. Slots' = 0 .. -1
  BY DEF Reset, Slots
<1>2. created' \in {"nothing", "NULL", "a table"} /\ lost' \in BOOLEAN /\ orderly' \in BOOLEAN
  BY DEF FlagsOK
<1>3. capacity' \in Nat /\ count' \in 0 .. capacity'
  BY DEF Reset
<1>4. \A T : NULL \in [0 .. -1 -> T]
  BY NullFacts
<1>5. /\ nexts' \in [Slots' -> Slots' \cup {-1, Junk}] /\ keys' \in [Slots' -> Keys \cup {Junk}]
      /\ values' \in [Slots' -> Values \cup Keys \cup {Junk}] /\ hashs' = NULL
  BY <1>1, <1>4 DEF Reset
<1> QED BY <1>2, <1>3, <1>5 DEF TypeOK

(* A cleared table has the block it had.                                   *)
LEMMA TypeClear ==
  ASSUME Inv, Sound, Clear, FlagsOK', UNCHANGED use
  PROVE  TypeOK'
<1>1. TypeOK
  BY DEF Inv, Sound
<1>2. capacity' \in Nat /\ count' \in 0 .. capacity'
  BY <1>1, Sizes DEF Clear
<1> QED BY <1>1, <1>2 DEF Clear, TypeOK, FlagsOK, Slots

(* What touches no array leaves them sound.                                *)
LEMMA TypeSame ==
  ASSUME Inv, Sound, UNCHANGED <<count, capacity, hashs, nexts, keys, values>>, FlagsOK', UNCHANGED use
  PROVE  TypeOK'
BY DEF Inv, Sound, TypeOK, FlagsOK, Slots

(* In a table whose slots hold no circle, none arises: a new entry is the  *)
(* end of its chain, whatever led to its slot before.                      *)
LEMMA AcyclicSetNew ==
  ASSUME Inv, "remove" \notin use.calls, NEW key \in Keys, NEW value \in use.values,
         SetNew(key, value), FlagsOK', UNCHANGED use
  PROVE  Acyclic(Slots, nexts)'
<1>1. TypeOK /\ use \in AllUses /\ Acyclic(Slots, nexts)
  BY TableAssumption DEF Inv, Sound, TableAssumption
<1> DEFINE prev == Find(hashs, nexts, keys, key).prev
<1>2. prev = -1 \/ prev \in Slots
  BY Found DEF Sound
<1> HIDE DEF prev
<1>3. PICK block \in Blocks :
        capacity' = block.capacity /\ nexts' = AddLast(block.nexts, prev, count)
  BY DEF SetNew, prev
<1>4. /\ block.capacity \in Nat /\ capacity <= block.capacity /\ count + 1 <= block.capacity
      /\ block.nexts \in [0 .. block.capacity - 1 -> Slots \cup {-1, Junk}]
      /\ \A n \in 0 .. block.capacity - 1 : block.nexts[n] = IF n \in Slots THEN nexts[n] ELSE Junk
  BY <1>1, BlockFacts
<1>5. count \in Nat /\ capacity \in Nat
  BY <1>1, Sizes
<1>6. Slots' = 0 .. block.capacity - 1 /\ Slots \subseteq Slots' /\ count \in Slots'
  BY <1>3, <1>4, <1>5 DEF Slots
<1>7. \A n \in Slots' : nexts'[n] = IF n = count THEN -1 ELSE IF n = prev THEN count
                                    ELSE IF n \in Slots THEN nexts[n] ELSE Junk
  BY <1>2, <1>3, <1>4, <1>6 DEF AddLast, LinkNexts, Slots
<1>8. -1 \notin Slots' /\ Junk \notin Slots'
  BY <1>4, <1>6 DEF Junk
<1>9. ASSUME NEW S \in SUBSET Slots', S # {} PROVE \E s \in S : nexts'[s] \notin S
  <2>1. CASE count \in S
    BY <1>7, <1>8, <2>1
  <2>2. CASE count \notin S /\ S \subseteq Slots
    <3>1. PICK s \in S : nexts[s] \notin S
      BY <1>1, <1>9, <2>2 DEF Acyclic
    <3>2. nexts'[s] \notin S
      BY <1>6, <1>7, <2>2, <3>1
    <3> QED BY <3>2
  <2>3. CASE count \notin S /\ ~(S \subseteq Slots)
    <3>1. PICK s \in S : s \notin Slots
      BY <2>3
    <3>2. s # count /\ s # prev
      BY <1>2, <1>8, <2>3, <3>1
    <3>3. nexts'[s] = Junk
      BY <1>7, <3>1, <3>2
    <3> QED BY <1>8, <3>3
  <2> QED BY <2>1, <2>2, <2>3
<1> QED BY <1>9 DEF Acyclic

-----------------------------------------------------------------------------
(* Removal.                                                                *)

(* What a lookup in orderly chains answers for the key of an entry.        *)
LEMMA LookupOfEntry ==
  ASSUME NEW cap, NEW L, Within(cap, L), NEW hs, NEW ns, NEW ks,
         Chained(L, hs, ns, ks), NEW key \in Keys
  PROVE  \A s \in L : ks[s] = key =>
           LET f == Lookup(cap, hs, ns, ks, key)
           IN  f.curr = s /\ Leads(L \ {s}, hs, ns, ks, f.prev, s)
<1> DEFINE f == Lookup(cap, hs, ns, ks, key)
<1>1. /\ \A s \in L : ks[s] = key => f.curr = s
      /\ (\A s \in L : ks[s] # key) => f.curr = -1
      /\ f.prev \in L => Hash(ks[f.prev]) = Hash(key)
  BY LookupFinds
<1>2. Closed(L, hs[Hash(key)], ns) /\ Acyclic(L, ns)
  BY ChainedClosed
<1>3. /\ f.curr \in Ends \/ (f.curr \in L /\ ks[f.curr] = key)
      /\ \/ f.prev = -1 /\ f.curr = hs[Hash(key)]
         \/ f.prev \in L /\ ks[f.prev] # key /\ ns[f.prev] = f.curr
  BY <1>2, LookupEnds
<1> HIDE DEF f
<1>4. ASSUME NEW s \in L, ks[s] = key
      PROVE  f.curr = s /\ Leads(L \ {s}, hs, ns, ks, f.prev, s)
  BY <1>1, <1>3, <1>4 DEF Leads
<1> QED BY <1>4 DEF f

(* The entry of the last slot moves to that of an entry that was unlinked. *)
LEMMA ChainMoves ==
  ASSUME NEW cap \in Nat, NEW n \in 1 .. cap, NEW T, NEW hs \in [Buckets -> T],
         NEW ns \in [0 .. cap - 1 -> T], NEW ks \in [0 .. cap - 1 -> Keys \cup {Junk}],
         Chained(0 .. n - 1, hs, ns, ks), NEW curr \in 0 .. n - 2, ns[curr] = -1,
         NEW prev, Leads(0 .. n - 1, hs, ns, ks, prev, curr),
         NEW hs1, NEW ns1, NEW ks1, NEW p
  PROVE  /\ hs1 = LinkHashs(hs, prev, ks[curr], -1)
         /\ ns1 = [LinkNexts(ns, prev, -1) EXCEPT ![curr] = LinkNexts(ns, prev, -1)[n - 1]]
         /\ ks1 = [ks EXCEPT ![curr] = ks[n - 1]]
         /\ p = Lookup(cap, hs1, ns1, ks1, ks[n - 1]).prev
         => /\ p = -1 \/ p \in 0 .. n - 1
            /\ Chained(0 .. n - 2, LinkHashs(hs1, p, ks[n - 1], curr), LinkNexts(ns1, p, curr), ks1)
<1>1. SUFFICES ASSUME hs1 = LinkHashs(hs, prev, ks[curr], -1),
                      ns1 = [LinkNexts(ns, prev, -1) EXCEPT ![curr] = LinkNexts(ns, prev, -1)[n - 1]],
                      ks1 = [ks EXCEPT ![curr] = ks[n - 1]],
                      p = Lookup(cap, hs1, ns1, ks1, ks[n - 1]).prev
               PROVE  /\ p = -1 \/ p \in 0 .. n - 1
                      /\ Chained(0 .. n - 2, LinkHashs(hs1, p, ks[n - 1], curr), LinkNexts(ns1, p, curr), ks1)
  OBVIOUS
<1>2. PICK L, last : L = 0 .. n - 1 /\ last = n - 1
  OBVIOUS
<1>3. /\ L \in SUBSET Nat /\ L \in SUBSET (0 .. cap - 1)
      /\ curr \in L /\ last \in L /\ last # curr
  BY <1>2
<1>4. prev = -1 \/ (prev \in L /\ prev > -1)
  BY <1>2 DEF Leads
<1>5. /\ \A h \in Buckets : hs1[h] = IF prev = -1 /\ h = Hash(ks[curr]) THEN -1 ELSE hs[h]
      /\ DOMAIN hs1 = Buckets
  BY <1>1, <1>4 DEF LinkHashs
<1>6. /\ \A s \in L \ {curr} : ns1[s] = IF s = prev THEN -1 ELSE ns[s]
      /\ ns1[curr] = ns1[last] /\ DOMAIN ns1 = 0 .. cap - 1
  BY <1>1, <1>2, <1>3, <1>4 DEF LinkNexts
<1>7. (\A s \in L \ {curr} : ks1[s] = ks[s]) /\ ks1[curr] = ks[last]
  BY <1>1, <1>2, <1>3
<1>8. Chained(L, hs, ns, ks) /\ Shortened(L, hs, ns, ks, prev, curr, hs1, ns1, ks1)
  BY <1>2, <1>3, <1>5, <1>6, <1>7 DEF Shortened
<1>9. Chained(L \ {curr}, hs1, ns1, ks1)
  BY <1>3, <1>8, ChainShrinks
<1>10. PICK M : M = L \ {curr}
  OBVIOUS
<1>11. Chained(M, hs1, ns1, ks1) /\ M \in SUBSET (0 .. cap - 1) /\ last \in M /\ M \in SUBSET Nat /\ curr \notin M
  BY <1>3, <1>9, <1>10
<1>12. PICK key \in Keys : key = ks[last] /\ key = ks1[last]
  BY <1>3, <1>7, <1>11 DEF Chained
<1>13. p = Lookup(cap, hs1, ns1, ks1, key).prev
  BY <1>1, <1>2, <1>12
<1>14. Leads(M \ {last}, hs1, ns1, ks1, p, last)
  <2>1. Chained(M, hs1, ns1, ks1) /\ Within(cap, M)
    BY <1>11 DEF Within
  <2>2. \A s \in M : ks1[s] = key =>
          LET f == Lookup(cap, hs1, ns1, ks1, key)
          IN  f.curr = s /\ Leads(M \ {s}, hs1, ns1, ks1, f.prev, s)
    BY <2>1, LookupOfEntry
  <2> QED BY <1>11, <1>12, <1>13, <2>2
<1>15. p = -1 \/ (p \in M /\ p > -1 /\ p # curr)
  <2>1. \A s \in M : s > -1
    BY <1>2, <1>10
  <2>2. p = -1 \/ p \in M
    BY <1>14 DEF Leads
  <2> QED BY <1>11, <2>1, <2>2
<1>16. PICK hs2, ns2 : hs2 = LinkHashs(hs1, p, key, curr) /\ ns2 = LinkNexts(ns1, p, curr)
  OBVIOUS
<1>17. \A h \in Buckets : hs2[h] = IF p = -1 /\ h = Hash(ks1[last]) THEN curr ELSE hs1[h]
  BY <1>5, <1>12, <1>15, <1>16 DEF LinkHashs
<1>18. ns2[curr] = ns1[last]
  <2>1. CASE p = -1
    <3>1. ns2 = ns1
      BY <1>16, <2>1 DEF LinkNexts
    <3> QED BY <1>6, <3>1
  <2>2. CASE p # -1
    <3>1. ns2 = [ns1 EXCEPT ![p] = curr] /\ p # curr
      BY <1>15, <1>16, <2>2 DEF LinkNexts
    <3> QED BY <1>6, <3>1
  <2> QED BY <2>1, <2>2
<1>19. ASSUME NEW s \in M \ {last} PROVE ns2[s] = IF s = p THEN curr ELSE ns1[s]
  BY <1>6, <1>11, <1>15, <1>16 DEF LinkNexts
<1>20. ks1[curr] = ks1[last] /\ \A s \in M \ {last} : ks1[s] = ks1[s]
  BY <1>7, <1>12
<1>21. Leads(M, hs1, ns1, ks1, p, last)
  BY <1>14 DEF Leads
<1>22. Renamed(M, hs1, ns1, ks1, p, last, curr, hs2, ns2, ks1)
  <2>1. curr \in Nat \ M
    BY <1>11
  <2> QED BY <1>11, <1>17, <1>18, <1>19, <1>20, <1>21, <2>1 DEF Renamed
<1>23. Chained((M \ {last}) \cup {curr}, hs2, ns2, ks1)
  BY <1>11, <1>22, ChainRenamed
<1>24. (M \ {last}) \cup {curr} = 0 .. n - 2
  BY <1>2, <1>10
<1>25. p = -1 \/ p \in 0 .. n - 1
  BY <1>2, <1>10, <1>15
<1> QED BY <1>2, <1>12, <1>16, <1>23, <1>24, <1>25

-----------------------------------------------------------------------------
(* The map of a table.                                                     *)

(* m maps the keys of the slots of L to their values.                      *)
Holds(m, L, ks, vs) == /\ m = [key \in {ks[s] : s \in L} |-> m[key]]
                       /\ \A s \in L : m[ks[s]] = vs[s]

(* index_of and contains answer what the entries say, after a step.        *)
LEMMA FoundOrderlyNext ==
  ASSUME capacity' \in Nat, count' \in 0 .. capacity', NEW key \in Keys,
         Chained(0 .. count' - 1, AllBuckets', nexts', keys')
  PROVE  /\ \A s \in 0 .. count' - 1 : keys'[s] = key => index_of(key)' = s /\ contains(key)'
         /\ (\A s \in 0 .. count' - 1 : keys'[s] # key) => ~contains(key)'
<1>1. PICK cap, n, hs, ns, ks :
        /\ cap \in Nat /\ n \in Nat /\ n <= cap
        /\ cap = capacity' /\ n = count' /\ hs = AllBuckets' /\ ns = nexts' /\ ks = keys'
  OBVIOUS
<1>2. PICK L : L = 0 .. n - 1
  OBVIOUS
<1>3. Within(cap, L)
  <2>1. cap \in Nat /\ n \in Nat /\ n <= cap
    BY <1>1
  <2>2. \A s \in 0 .. n - 1 : s \in 0 .. cap - 1
    BY <2>1
  <2> QED BY <1>2, <2>1, <2>2 DEF Within
<1>4. Chained(L, hs, ns, ks)
  BY <1>1, <1>2
<1>5. LET i == Lookup(cap, hs, ns, ks, key).curr
      IN  /\ \A s \in L : ks[s] = key => i = s /\ i > -1
          /\ (\A s \in L : ks[s] # key) => ~(i > -1)
  BY <1>3, <1>4, FoundIn
<1>6. index_of(key)' = Lookup(cap, hs, ns, ks, key).curr
  BY <1>1, FindIsLookupNext DEF index_of
<1> QED BY <1>1, <1>2, <1>5, <1>6 DEF contains

(* The map of an orderly table is that of its entries.                     *)
LEMMA ContentsHolds ==
  ASSUME TypeOK, Chained(0 .. count - 1, AllBuckets, nexts, keys)
  PROVE  Holds(Contents, 0 .. count - 1, keys, values)
<1>1. capacity \in Nat /\ count \in 0 .. capacity
  BY DEF TypeOK
<1>2. \A s \in 0 .. count - 1 : keys[s] \in Keys
  BY DEF Chained
<1>3. ASSUME NEW key \in Keys
      PROVE  /\ \A s \in 0 .. count - 1 : keys[s] = key => index_of(key) = s /\ contains(key)
             /\ (\A s \in 0 .. count - 1 : keys[s] # key) => ~contains(key)
  BY <1>1, FoundOrderly
<1>4. {k \in Keys : contains(k)} = {keys[s] : s \in 0 .. count - 1}
  BY <1>2, <1>3
<1>5. \A s \in 0 .. count - 1 : get_value(keys[s]) = values[s]
  BY <1>2, <1>3 DEF get_value
<1> QED BY <1>4, <1>5 DEF Contents, Holds

(* The same after a step.                                                  *)
LEMMA ContentsHoldsNext ==
  ASSUME TypeOK', OrderlyInv'
  PROVE  Holds(Contents', 0 .. count' - 1, keys', values')
<1>1. capacity' \in Nat /\ count' \in 0 .. capacity'
  BY DEF TypeOK
<1>2. Chained(0 .. count' - 1, AllBuckets', nexts', keys')
  BY DEF OrderlyInv
<1>3. \A s \in 0 .. count' - 1 : keys'[s] \in Keys
  BY <1>2 DEF Chained
<1>4. ASSUME NEW key \in Keys
      PROVE  /\ \A s \in 0 .. count' - 1 : keys'[s] = key => index_of(key)' = s /\ contains(key)'
             /\ (\A s \in 0 .. count' - 1 : keys'[s] # key) => ~contains(key)'
  BY <1>1, <1>2, FoundOrderlyNext
<1>5. {k \in Keys : contains(k)'} = {keys'[s] : s \in 0 .. count' - 1}
  BY <1>3, <1>4
<1>6. \A key \in Keys : \A s \in 0 .. count' - 1 : keys'[s] = key => get_value(key)' = values'[s]
  BY <1>4 DEF get_value
<1>7. Contents' = [key \in {k \in Keys : contains(k)'} |-> get_value(key)']
  BY DEF Contents
<1>8. \A s \in 0 .. count' - 1 : Contents'[keys'[s]] = values'[s]
  BY <1>3, <1>5, <1>6, <1>7
<1> QED BY <1>5, <1>7, <1>8 DEF Holds

PutTo(m, k, v)   == [l \in DOMAIN m \cup {k} |-> IF l = k THEN v ELSE m[l]]
DeleteFrom(m, k) == [l \in DOMAIN m \ {k} |-> m[l]]

(* With one entry more, or with another value, the map is put to.          *)
LEMMA PutHolds ==
  ASSUME NEW m, NEW L, NEW ks, NEW vs, Holds(m, L, ks, vs),
         NEW m2, NEW M, NEW ks2, NEW vs2, Holds(m2, M, ks2, vs2),
         NEW slot, NEW key, NEW value, M = L \cup {slot}, slot \in L => ks[slot] = key,
         ks2[slot] = key /\ vs2[slot] = value,
         \A s \in L \ {slot} : ks2[s] = ks[s] /\ vs2[s] = vs[s] /\ ks[s] # key
  PROVE  m2 = PutTo(m, key, value)
<1> DEFINE p == PutTo(m, key, value)
<1>1. p = [l \in DOMAIN m \cup {key} |-> IF l = key THEN value ELSE m[l]]
  BY DEF PutTo
<1>2. DOMAIN m = {ks[s] : s \in L} /\ DOMAIN m2 = {ks2[s] : s \in M}
  BY DEF Holds
<1>3. DOMAIN m2 = DOMAIN m \cup {key}
  BY <1>2
<1>4. \A l \in DOMAIN m2 : m2[l] = p[l]
  <2> TAKE l \in DOMAIN m2
  <2>1. PICK s \in M : l = ks2[s]
    BY <1>2
  <2>2. m2[l] = vs2[s]
    BY <2>1 DEF Holds
  <2>3. CASE s = slot
    BY <1>1, <1>3, <2>1, <2>2, <2>3
  <2>4. CASE s # slot
    <3>1. s \in L \ {slot} /\ l = ks[s] /\ vs2[s] = vs[s] /\ l # key
      BY <2>1, <2>4
    <3>2. m[l] = vs[s]
      BY <3>1 DEF Holds
    <3> QED BY <1>1, <1>3, <2>2, <3>1, <3>2
  <2> QED BY <2>3, <2>4
<1>5. m2 = [l \in DOMAIN m2 |-> m2[l]] /\ p = [l \in DOMAIN m2 |-> p[l]]
  BY <1>1, <1>2, <1>3 DEF Holds
<1> HIDE DEF p
<1>6. m2 = p
  BY <1>4, <1>5
<1> QED BY <1>6 DEF p

(* Without the entry of a key the map lost that key.                       *)
LEMMA DeleteHolds ==
  ASSUME NEW m, NEW L, NEW ks, NEW vs, Holds(m, L, ks, vs),
         NEW m2, NEW M, NEW ks2, NEW vs2, Holds(m2, M, ks2, vs2), NEW key,
         \A t \in M : \E s \in L : ks[s] # key /\ ks2[t] = ks[s] /\ vs2[t] = vs[s],
         \A s \in L : ks[s] # key => \E t \in M : ks2[t] = ks[s]
  PROVE  m2 = DeleteFrom(m, key)
<1> DEFINE d == DeleteFrom(m, key)
<1>1. d = [l \in DOMAIN m \ {key} |-> m[l]]
  BY DEF DeleteFrom
<1>2. DOMAIN m = {ks[s] : s \in L} /\ DOMAIN m2 = {ks2[t] : t \in M}
  BY DEF Holds
<1>3. DOMAIN m2 = DOMAIN m \ {key}
  BY <1>2
<1>4. \A l \in DOMAIN m2 : m2[l] = d[l]
  <2> TAKE l \in DOMAIN m2
  <2>1. PICK t \in M : l = ks2[t]
    BY <1>2
  <2>2. PICK s \in L : ks[s] # key /\ ks2[t] = ks[s] /\ vs2[t] = vs[s]
    BY <2>1
  <2>3. m2[l] = vs2[t] /\ m[l] = vs[s]
    BY <2>1, <2>2 DEF Holds
  <2> QED BY <1>1, <1>3, <2>2, <2>3
<1>5. m2 = [l \in DOMAIN m2 |-> m2[l]] /\ d = [l \in DOMAIN m2 |-> d[l]]
  BY <1>1, <1>2, <1>3 DEF Holds
<1> HIDE DEF d
<1>6. m2 = d
  BY <1>4, <1>5
<1> QED BY <1>6 DEF d

-----------------------------------------------------------------------------
(* The calls of an orderly table.                                          *)

(* Where a key that has no entry is linked in: at the end of its chain.    *)
LEMMA LookupOfNew ==
  ASSUME NEW cap, NEW L, Within(cap, L), NEW hs, NEW ns, NEW ks, Chained(L, hs, ns, ks), NEW key \in Keys
  PROVE  (\A s \in L : ks[s] # key) =>
           LET p == Lookup(cap, hs, ns, ks, key).prev
           IN  \/ p = -1 /\ hs[Hash(key)] = -1
               \/ p \in L /\ ns[p] = -1 /\ Hash(ks[p]) = Hash(key)
<1> DEFINE f == Lookup(cap, hs, ns, ks, key)
<1>1. /\ \A s \in L : ks[s] = key => f.curr = s
      /\ (\A s \in L : ks[s] # key) => f.curr = -1
      /\ f.prev \in L => Hash(ks[f.prev]) = Hash(key)
  BY LookupFinds
<1>2. Closed(L, hs[Hash(key)], ns) /\ Acyclic(L, ns)
  BY ChainedClosed
<1>3. /\ f.curr \in Ends \/ (f.curr \in L /\ ks[f.curr] = key)
      /\ \/ f.prev = -1 /\ f.curr = hs[Hash(key)]
         \/ f.prev \in L /\ ks[f.prev] # key /\ ns[f.prev] = f.curr
  BY <1>2, LookupEnds
<1> HIDE DEF f
<1>4. ASSUME \A s \in L : ks[s] # key
      PROVE  \/ f.prev = -1 /\ hs[Hash(key)] = -1
             \/ f.prev \in L /\ ns[f.prev] = -1 /\ Hash(ks[f.prev]) = Hash(key)
  BY <1>1, <1>3, <1>4
<1> QED BY <1>4 DEF f

(* What is known of an orderly table.                                      *)
LEMMA OrderlyFacts ==
  ASSUME Inv, orderly
  PROVE  /\ TypeOK /\ use \in AllUses
         /\ capacity \in Nat /\ count \in 0 .. capacity
         /\ Chained(0 .. count - 1, AllBuckets, nexts, keys)
         /\ Holds(Contents, 0 .. count - 1, keys, values)
<1>1. TypeOK /\ use \in AllUses /\ OrderlyInv
  BY TableAssumption DEF Inv, Sound, TableAssumption
<1>2. capacity \in Nat /\ count \in 0 .. capacity
  BY <1>1 DEF TypeOK
<1> QED BY <1>1, <1>2, ContentsHolds DEF OrderlyInv

(* Setting a key that has an entry puts to the map.                        *)
LEMMA OrderlySetExisting ==
  ASSUME Inv, orderly, NEW key \in Keys, NEW value \in use.values, SetExisting(key, value), UNCHANGED use,
         TypeOK'
  PROVE  OrderlyInv' /\ Contents' = PutTo(Contents, key, value)
<1>1. /\ capacity \in Nat /\ count \in 0 .. capacity
      /\ Chained(0 .. count - 1, AllBuckets, nexts, keys)
      /\ Holds(Contents, 0 .. count - 1, keys, values) /\ TypeOK
  BY OrderlyFacts
<1>2. OrderlyInv'
  BY <1>1 DEF OrderlyInv, SetExisting, AllBuckets
<1>3. Holds(Contents', 0 .. count - 1, keys, values')
  BY <1>2, ContentsHoldsNext DEF SetExisting
<1>4. PICK slot \in 0 .. count - 1 : slot = index_of(key) /\ keys[slot] = key
  BY <1>1, FoundOrderly DEF SetExisting
<1>5. /\ \A s \in 0 .. count - 1 : values'[s] = IF s = slot THEN value ELSE values[s]
      /\ \A s \in (0 .. count - 1) \ {slot} : keys[s] # key
  <2>1. values \in [Slots -> Values \cup Keys \cup {Junk}]
    BY <1>1 DEF TypeOK
  <2>2. \A s \in 0 .. count - 1 : s \in Slots
    <3>1. capacity \in Nat /\ count \in 0 .. capacity
      BY <1>1
    <3> QED BY <3>1 DEF Slots
  <2> QED BY <1>1, <1>4, <2>1, <2>2 DEF SetExisting, Chained
<1>6. PICK L, m, m2, ks, vs, vs2 : /\ L = 0 .. count - 1 /\ ks = keys /\ vs = values /\ vs2 = values'
                                   /\ m = Contents /\ m2 = Contents'
  OBVIOUS
<1>7. /\ Holds(m, L, ks, vs) /\ Holds(m2, L, ks, vs2) /\ L = L \cup {slot} /\ ks[slot] = key
      /\ vs2[slot] = value /\ \A s \in L \ {slot} : ks[s] = ks[s] /\ vs2[s] = vs[s] /\ ks[s] # key
  BY <1>1, <1>3, <1>4, <1>5, <1>6
<1>8. m2 = PutTo(m, key, value)
  BY <1>7, PutHolds
<1> QED BY <1>2, <1>6, <1>8

(* So does setting one that has none.                                      *)
LEMMA OrderlySetNew ==
  ASSUME Inv, orderly, orderly', NEW key \in Keys, NEW value \in use.values, SetNew(key, value),
         UNCHANGED use, TypeOK'
  PROVE  OrderlyInv' /\ Contents' = PutTo(Contents, key, value)
<1>1. /\ capacity \in Nat /\ count \in 0 .. capacity
      /\ Chained(0 .. count - 1, AllBuckets, nexts, keys)
      /\ Holds(Contents, 0 .. count - 1, keys, values) /\ TypeOK /\ use \in AllUses
  BY OrderlyFacts
<1>2. PICK L, hs, ns, ks, vs, slot, prev :
        /\ L = 0 .. count - 1 /\ slot = count /\ prev = Find(hashs, nexts, keys, key).prev
        /\ hs = AllBuckets /\ ns = nexts /\ ks = keys /\ vs = values
  OBVIOUS
<1>3. PICK block \in Blocks :
        /\ capacity' = block.capacity
        /\ hashs'  = LinkHashs(hs, prev, key, slot)
        /\ nexts'  = AddLast(block.nexts, prev, slot)
        /\ keys'   = [block.keys EXCEPT ![slot] = key]
        /\ values' = [block.values EXCEPT ![slot] = value]
  BY <1>2 DEF SetNew
<1>4. /\ block.capacity \in Nat /\ capacity <= block.capacity /\ count + 1 <= block.capacity
      /\ block.nexts \in [0 .. block.capacity - 1 -> Slots \cup {-1, Junk}]
      /\ \A n \in 0 .. block.capacity - 1 : block.nexts[n] = IF n \in Slots THEN nexts[n] ELSE Junk
      /\ block.keys \in [0 .. block.capacity - 1 -> Keys \cup {Junk}]
      /\ block.values \in [0 .. block.capacity - 1 -> Values \cup Keys \cup {Junk}]
      /\ block.capacity = IF Full THEN NewCapacity ELSE capacity
      /\ ~Full => block.keys = keys /\ block.values = values
  BY <1>1, BlockFacts
<1>5. count < CountLimit /\ count' = count + 1 /\ ~contains(key) /\ CountLimit \in Nat
  BY TableAssumption DEF SetNew, TableAssumption
<1>6. Full => capacity = 0 /\ count = 0
  <2>1. Full => ~(capacity > 0)
    BY DEF SetNew
  <2> QED BY <1>1, <2>1
<1>8. /\ L \in SUBSET Nat /\ L \in SUBSET Slots /\ slot \in Nat \ L
      /\ 0 .. count' - 1 = L \cup {slot} /\ L \cup {slot} \in SUBSET (0 .. block.capacity - 1)
  BY <1>1, <1>2, <1>4, <1>5 DEF Slots
<1>9. \A s \in L : block.nexts[s] = ns[s] /\ block.keys[s] = ks[s] /\ block.values[s] = vs[s]
  BY <1>1, <1>2, <1>4, <1>6, <1>8
<1>10. \A s \in L : ks[s] # key
  BY <1>1, <1>2, <1>5, FoundOrderly
<1>11. Chained(L, hs, ns, ks)
  BY <1>1, <1>2
<1>12. \/ prev = -1 /\ hs[Hash(key)] = -1
       \/ prev \in L /\ ns[prev] = -1 /\ Hash(ks[prev]) = Hash(key)
  <2>1. PICK cap : cap = capacity
    OBVIOUS
  <2>2. prev = Lookup(cap, hs, ns, ks, key).prev
    BY <1>1, <1>2, <2>1, FindIsLookup
  <2>3. Within(cap, L)
    BY <1>1, <1>8, <2>1 DEF Slots, Within
  <2>4. (\A s \in L : ks[s] # key) =>
           LET p == Lookup(cap, hs, ns, ks, key).prev
           IN  \/ p = -1 /\ hs[Hash(key)] = -1
               \/ p \in L /\ ns[p] = -1 /\ Hash(ks[p]) = Hash(key)
    BY <1>11, <2>3, LookupOfNew
  <2> QED BY <1>10, <2>2, <2>4
<1>13. prev = -1 \/ (prev \in L /\ prev > -1 /\ prev # slot)
  <2>1. \A s \in L : s > -1 /\ s # slot
    BY <1>1, <1>2
  <2> QED BY <1>12, <2>1
<1>14. PICK hs2, ns2, ks2, vs2 : hs2 = hashs' /\ ns2 = nexts' /\ ks2 = keys' /\ vs2 = values'
  OBVIOUS
<1>15. DOMAIN hs = Buckets /\ hs \in [Buckets -> Slots \cup {-1}]
  BY <1>1, <1>2, AllBucketsType
<1>16. \A h \in Buckets : hs2[h] = IF prev = -1 /\ h = Hash(key) THEN slot ELSE hs[h]
  BY <1>3, <1>13, <1>14, <1>15 DEF LinkHashs
<1>17. ns2[slot] = -1 /\ \A s \in L : ns2[s] = IF s = prev THEN slot ELSE ns[s]
  <2>1. DOMAIN block.nexts = 0 .. block.capacity - 1 /\ slot \in 0 .. block.capacity - 1
    BY <1>4, <1>8
  <2>2. CASE prev = -1
    <3>1. ns2 = [block.nexts EXCEPT ![slot] = -1] /\ prev \notin L
      BY <1>3, <1>8, <1>14, <2>2 DEF AddLast, LinkNexts
    <3> QED BY <1>8, <1>9, <2>1, <3>1
  <2>3. CASE prev # -1
    <3>1. ns2 = [[block.nexts EXCEPT ![prev] = slot] EXCEPT ![slot] = -1]
      BY <1>3, <1>13, <1>14, <2>3 DEF AddLast, LinkNexts
    <3> QED BY <1>8, <1>9, <1>13, <2>1, <2>3, <3>1
  <2> QED BY <2>2, <2>3
<1>18. /\ ks2[slot] = key /\ \A s \in L : ks2[s] = ks[s]
       /\ vs2[slot] = value /\ \A s \in L : vs2[s] = vs[s]
  BY <1>3, <1>4, <1>8, <1>9, <1>14
<1>19. Lengthened(L, hs, ns, ks, prev, slot, key, hs2, ns2, ks2)
  BY <1>8, <1>10, <1>12, <1>16, <1>17, <1>18 DEF Lengthened
<1>20. Chained(L \cup {slot}, hs2, ns2, ks2)
  BY <1>8, <1>11, <1>19, ChainGrows
<1>21. AllBuckets' = hs2
  <2>1. hashs' \in [Buckets -> Slots \cup {-1, slot}]
    BY <1>3, <1>15 DEF LinkHashs
  <2>2. hashs' # NULL
    BY <2>1, NullFacts
  <2> QED BY <1>14, <2>2 DEF AllBuckets
<1>22. OrderlyInv'
  BY <1>8, <1>14, <1>20, <1>21 DEF OrderlyInv
<1>23. Holds(Contents', 0 .. count' - 1, keys', values')
  BY <1>22, ContentsHoldsNext
<1>24. PICK m, m2 : m = Contents /\ m2 = Contents'
  OBVIOUS
<1>25. PICK M : M = L \cup {slot}
  OBVIOUS
<1>26. Holds(m, L, ks, vs) /\ Holds(m2, M, ks2, vs2)
  BY <1>1, <1>2, <1>8, <1>14, <1>23, <1>24, <1>25
<1>27. /\ M = L \cup {slot} /\ (slot \in L => ks[slot] = key) /\ ks2[slot] = key /\ vs2[slot] = value
       /\ \A s \in L \ {slot} : ks2[s] = ks[s] /\ vs2[s] = vs[s] /\ ks[s] # key
  BY <1>8, <1>10, <1>18, <1>25
<1>28. m2 = PutTo(m, key, value)
  BY <1>26, <1>27, PutHolds
<1> QED BY <1>22, <1>24, <1>28

(* What leaves the entries alone leaves the map alone.                     *)
LEMMA OrderlySame ==
  ASSUME Inv, orderly, UNCHANGED <<count, capacity, nexts, keys, values>>, AllBuckets' = AllBuckets, TypeOK'
  PROVE  OrderlyInv' /\ Contents' = Contents
<1>1. /\ capacity \in Nat /\ count \in 0 .. capacity
      /\ Chained(0 .. count - 1, AllBuckets, nexts, keys)
      /\ Holds(Contents, 0 .. count - 1, keys, values)
  BY OrderlyFacts
<1>2. OrderlyInv'
  BY <1>1 DEF OrderlyInv
<1>3. Holds(Contents', 0 .. count - 1, keys, values)
  BY <1>2, ContentsHoldsNext
<1>4. PICK L, m, m2, ks, vs : L = 0 .. count - 1 /\ ks = keys /\ vs = values /\ m = Contents /\ m2 = Contents'
  OBVIOUS
<1>5. Holds(m, L, ks, vs) /\ Holds(m2, L, ks, vs)
  BY <1>1, <1>3, <1>4
<1>6. m = m2
  <2>1. \A key \in {ks[s] : s \in L} : m[key] = m2[key]
    BY <1>5 DEF Holds
  <2>2. m = [key \in {ks[s] : s \in L} |-> m[key]] /\ m2 = [key \in {ks[s] : s \in L} |-> m2[key]]
    BY <1>5 DEF Holds
  <2> QED BY <2>1, <2>2
<1> QED BY <1>2, <1>4, <1>6

(* Freeing or detaching the table empties the map.                         *)
LEMMA OrderlyReset ==
  ASSUME Reset, TypeOK'
  PROVE  OrderlyInv' /\ Contents' = Map!Empty
<1>1. AllBuckets' = [h \in Buckets |-> -1]
  BY DEF Reset, AllBuckets
<1>2. PICK L, hs, ns, ks, vs : L = {} /\ hs = AllBuckets' /\ ns = nexts' /\ ks = keys' /\ vs = values'
  OBVIOUS
<1>3. Chained(L, hs, ns, ks)
  <2>1. \A h \in Buckets : hs[h] = -1
    BY <1>1, <1>2
  <2>2. L = {}
    BY <1>2
  <2> QED BY <2>1, <2>2 DEF Chained, Acyclic, Rooted, OnePred, OwnChain
<1>4. 0 .. count' - 1 = L
  BY <1>2 DEF Reset
<1>5. OrderlyInv'
  BY <1>2, <1>3, <1>4 DEF OrderlyInv, Reset
<1>6. Holds(Contents', 0 .. count' - 1, keys', values')
  BY <1>5, ContentsHoldsNext
<1>7. PICK m : m = Contents'
  OBVIOUS
<1>8. Holds(m, {}, ks, vs)
  BY <1>2, <1>4, <1>6, <1>7
<1>9. m = Map!Empty
  BY <1>8 DEF Holds, Map!Empty
<1> QED BY <1>5, <1>7, <1>9

(* Removing or erasing a key deletes it from the map and nothing else,     *)
(* although another entry may move.                                        *)
LEMMA OrderlyRemove ==
  ASSUME Inv, orderly, orderly', NEW key \in Keys, Remove(key), FlagsOK', UNCHANGED use
  PROVE  TypeOK' /\ OrderlyInv' /\ Contents' = DeleteFrom(Contents, key)
<1>1. /\ capacity \in Nat /\ count \in 0 .. capacity
      /\ Chained(0 .. count - 1, AllBuckets, nexts, keys)
      /\ Holds(Contents, 0 .. count - 1, keys, values) /\ TypeOK
  BY OrderlyFacts
<1>2. PICK curr \in 0 .. count - 1 : curr = index_of(key) /\ keys[curr] = key
  BY <1>1, FoundOrderly DEF Remove
<1>3. hashs # NULL /\ nexts[curr] = -1
  <2>1. contains(key) /\ nexts[index_of(key)] = -1
    BY DEF Remove
  <2>2. hashs = NULL => index_of(key) = -1
    BY DEF index_of, Find
  <2> QED BY <1>1, <1>2, <2>1, <2>2 DEF contains
<1>4. hashs \in [Buckets -> Slots \cup {-1}] /\ AllBuckets = hashs
  BY <1>1, <1>3 DEF TypeOK, AllBuckets
<1>5. PICK cap, n, hs, ns, ks, vs, prev :
        /\ cap = capacity /\ n = count /\ hs = hashs /\ ns = nexts /\ ks = keys /\ vs = values
        /\ prev = Find(hashs, nexts, keys, key).prev
  OBVIOUS
<1>6. cap \in Nat /\ n \in 1 .. cap /\ curr \in 0 .. n - 1
  BY <1>1, <1>2, <1>5
<1>7. PICK L : L = 0 .. n - 1
  OBVIOUS
<1>8. Within(cap, L) /\ curr \in L /\ ks[curr] = key /\ ns[curr] = -1
  <2>1. \A s \in 0 .. n - 1 : s \in 0 .. cap - 1
    BY <1>6
  <2> QED BY <1>2, <1>3, <1>5, <1>6, <1>7, <2>1 DEF Within
<1>9. Chained(L, hs, ns, ks)
  BY <1>1, <1>4, <1>5, <1>7
<1>10. Leads(L \ {curr}, hs, ns, ks, prev, curr)
  <2>1. \A s \in L : ks[s] = key =>
          LET f == Lookup(cap, hs, ns, ks, key)
          IN  f.curr = s /\ Leads(L \ {s}, hs, ns, ks, f.prev, s)
    BY <1>8, <1>9, LookupOfEntry
  <2>2. prev = Lookup(cap, hs, ns, ks, key).prev
    BY <1>1, <1>4, <1>5, FindIsLookup
  <2> QED BY <1>8, <2>1, <2>2
<1>11. Leads(L, hs, ns, ks, prev, curr)
  BY <1>10 DEF Leads
<1>12. PICK T : T = Slots \cup {-1, Junk}
  OBVIOUS
<1>13. /\ hs \in [Buckets -> T] /\ ns \in [0 .. cap - 1 -> T]
       /\ ks \in [0 .. cap - 1 -> Keys \cup {Junk}] /\ vs \in [0 .. cap - 1 -> Values \cup Keys \cup {Junk}]
  BY <1>1, <1>4, <1>5, <1>12 DEF TypeOK, Slots
<1>14. PICK hs1, ns0 : hs1 = LinkHashs(hs, prev, key, -1) /\ ns0 = LinkNexts(ns, prev, -1)
  OBVIOUS
<1>15. prev = -1 \/ (prev \in L /\ prev > -1 /\ prev # curr)
  <2>1. \A s \in L : s > -1
    BY <1>7
  <2> QED BY <1>10, <2>1 DEF Leads
<1>16. /\ hs1 \in [Buckets -> Slots \cup {-1}]
       /\ ns0 \in [0 .. cap - 1 -> T]
  BY <1>4, <1>5, <1>12, <1>13, <1>14 DEF LinkHashs, LinkNexts
<1>17. count' = n - 1 /\ capacity' = cap
  BY <1>5 DEF Remove
<1>18. PICK M : M = 0 .. n - 2
  OBVIOUS
<1>19. /\ Chained(M, hashs', nexts', keys')
       /\ hashs' \in [Buckets -> Slots \cup {-1}] /\ nexts' \in [0 .. cap - 1 -> T]
       /\ keys' \in [0 .. cap - 1 -> Keys \cup {Junk}]
       /\ values' \in [0 .. cap - 1 -> Values \cup Keys \cup {Junk}]
       /\ \A t \in M : \E s \in L \ {curr} : keys'[t] = ks[s] /\ values'[t] = vs[s]
       /\ \A s \in L \ {curr} : \E t \in M : keys'[t] = ks[s]
  <2>1. CASE MovesLast(curr)
    <3>1. PICK last : last = n - 1
      OBVIOUS
    <3>2. /\ last \in L /\ last # curr /\ last \in 0 .. cap - 1
          /\ curr \in 0 .. n - 2 /\ curr \in 0 .. cap - 1 /\ curr \in Slots
      BY <1>5, <1>6, <1>7, <2>1, <3>1 DEF MovesLast, Slots
    <3>3. PICK ns1, ks1, p : /\ ks1 = [ks EXCEPT ![curr] = ks[last]]
                             /\ ns1 = [ns0 EXCEPT ![curr] = ns0[last]]
                             /\ p = Find(hs1, ns1, ks1, ks1[curr]).prev
      OBVIOUS
    <3>4. /\ keys' = ks1 /\ values' = [vs EXCEPT ![curr] = vs[last]]
          /\ hashs' = LinkHashs(hs1, p, ks1[curr], curr) /\ nexts' = LinkNexts(ns1, p, curr)
      BY <1>2, <1>5, <1>14, <2>1, <3>1, <3>3 DEF Remove, index_of
    <3>5. ks1[curr] = ks[last]
      BY <1>13, <3>2, <3>3
    <3>6. p = Lookup(cap, hs1, ns1, ks1, ks[last]).prev
      <4>1. hs1 # NULL
        BY <1>16, NullFacts
      <4> QED BY <1>5, <3>3, <3>5, <4>1, FindIs
    <3>7. /\ p = -1 \/ p \in 0 .. n - 1
          /\ Chained(0 .. n - 2, LinkHashs(hs1, p, ks[n - 1], curr), LinkNexts(ns1, p, curr), ks1)
      <4>1. /\ hs1 = LinkHashs(hs, prev, ks[curr], -1)
            /\ ns1 = [LinkNexts(ns, prev, -1) EXCEPT ![curr] = LinkNexts(ns, prev, -1)[n - 1]]
            /\ ks1 = [ks EXCEPT ![curr] = ks[n - 1]]
            /\ p = Lookup(cap, hs1, ns1, ks1, ks[n - 1]).prev
        BY <1>8, <1>14, <3>1, <3>3, <3>6
      <4>2. Chained(0 .. n - 1, hs, ns, ks) /\ Leads(0 .. n - 1, hs, ns, ks, prev, curr)
        BY <1>7, <1>9, <1>11
      <4>3. /\ hs \in [Buckets -> T] /\ ns \in [0 .. cap - 1 -> T]
            /\ ks \in [0 .. cap - 1 -> Keys \cup {Junk}] /\ ns[curr] = -1
            /\ cap \in Nat /\ n \in 1 .. cap /\ curr \in 0 .. n - 2
        BY <1>6, <1>8, <1>13, <3>2
      <4> QED BY <4>1, <4>2, <4>3, ChainMoves
    <3>8. Chained(M, hashs', nexts', keys')
      BY <1>18, <3>1, <3>4, <3>5, <3>7
    <3>9. p = -1 \/ p \in Slots
      BY <1>5, <1>6, <3>7 DEF Slots
    <3>10. hashs' \in [Buckets -> Slots \cup {-1}]
      BY <1>16, <3>2, <3>4 DEF LinkHashs
    <3>11. nexts' \in [0 .. cap - 1 -> T]
      BY <1>12, <1>16, <3>2, <3>3, <3>4 DEF LinkNexts
    <3>12. keys' \in [0 .. cap - 1 -> Keys \cup {Junk}]
      BY <1>13, <3>2, <3>3, <3>4
    <3>13. values' \in [0 .. cap - 1 -> Values \cup Keys \cup {Junk}]
      BY <1>13, <3>2, <3>4
    <3>14. /\ keys'[curr] = ks[last] /\ values'[curr] = vs[last]
           /\ \A s \in 0 .. cap - 1 : s # curr => keys'[s] = ks[s] /\ values'[s] = vs[s]
      BY <1>13, <3>2, <3>3, <3>4
    <3>15. /\ \A t \in M : t \in 0 .. cap - 1 /\ (t # curr => t \in L \ {curr})
           /\ \A s \in L \ {curr} : s # last => s \in M
           /\ curr \in M
      BY <1>6, <1>7, <1>18, <3>1, <3>2
    <3>16. ASSUME NEW t \in M
           PROVE  \E s \in L \ {curr} : keys'[t] = ks[s] /\ values'[t] = vs[s]
      BY <3>2, <3>14, <3>15
    <3>17. ASSUME NEW s \in L \ {curr} PROVE \E t \in M : keys'[t] = ks[s]
      BY <3>14, <3>15
    <3> QED BY <3>8, <3>10, <3>11, <3>12, <3>13, <3>16, <3>17
  <2>2. CASE ~MovesLast(curr)
    <3>1. curr = n - 1
      BY <1>5, <1>6, <2>2 DEF MovesLast
    <3>2. hashs' = hs1 /\ nexts' = ns0 /\ keys' = ks /\ values' = vs
      BY <1>2, <1>5, <1>14, <2>2 DEF Remove, index_of
    <3>3. M = L \ {curr}
      BY <1>6, <1>7, <1>18, <3>1
    <3>4. \A h \in Buckets : hs1[h] = IF prev = -1 /\ h = Hash(ks[curr]) THEN -1 ELSE hs[h]
      BY <1>8, <1>13, <1>14, <1>15 DEF LinkHashs
    <3>5. \A s \in L \ {curr} : ns0[s] = IF s = prev THEN -1 ELSE ns[s]
      <4>1. \A s \in L : s \in 0 .. cap - 1
        BY <1>8 DEF Within
      <4> QED BY <1>13, <1>14, <1>15, <4>1 DEF LinkNexts
    <3>6. Shortened(L, hs, ns, ks, prev, curr, hs1, ns0, ks)
      BY <1>8, <1>11, <3>4, <3>5 DEF Shortened
    <3>7. L \in SUBSET Nat
      BY <1>7
    <3>8. Chained(L \ {curr}, hs1, ns0, ks)
      BY <1>9, <3>6, <3>7, ChainShrinks
    <3> QED BY <1>13, <1>16, <3>2, <3>3, <3>8
  <2> QED BY <2>1, <2>2
<1>20. Slots' = Slots /\ Slots = 0 .. cap - 1
  BY <1>5, <1>17 DEF Slots
<1>21. TypeOK'
  <2>1. capacity' \in Nat /\ count' \in 0 .. capacity'
    BY <1>6, <1>17
  <2>2. created' \in {"nothing", "NULL", "a table"} /\ lost' \in BOOLEAN /\ orderly' \in BOOLEAN
    BY DEF FlagsOK
  <2> QED BY <1>12, <1>19, <1>20, <2>1, <2>2 DEF TypeOK
<1>22. AllBuckets' = hashs'
  BY <1>19, NullFacts DEF AllBuckets
<1>23. 0 .. count' - 1 = M
  BY <1>6, <1>17, <1>18
<1>24. OrderlyInv'
  BY <1>1, <1>5, <1>17, <1>19, <1>22, <1>23 DEF OrderlyInv
<1>25. PICK m, m2, ks2, vs2 : m = Contents /\ m2 = Contents' /\ ks2 = keys' /\ vs2 = values'
  OBVIOUS
<1>26. Holds(m, L, ks, vs) /\ Holds(m2, M, ks2, vs2)
  BY <1>1, <1>5, <1>7, <1>21, <1>23, <1>24, <1>25, ContentsHoldsNext
<1>27. \A s \in L : ks[s] # key <=> s # curr
  BY <1>8, <1>9 DEF Chained
<1>28. \A t \in M : \E s \in L : ks[s] # key /\ ks2[t] = ks[s] /\ vs2[t] = vs[s]
  BY <1>19, <1>25, <1>27
<1>29. \A s \in L : ks[s] # key => \E t \in M : ks2[t] = ks[s]
  BY <1>19, <1>25, <1>27
<1>30. m2 = DeleteFrom(m, key)
  BY <1>26, <1>28, <1>29, DeleteHolds
<1> QED BY <1>21, <1>24, <1>25, <1>30

-----------------------------------------------------------------------------
(* Every call keeps the invariant, and makes of an orderly table's map     *)
(* what KeyMap says.                                                       *)

(* The invariant holds of a table that was just made.                      *)
LEMMA InvInit == Init => Inv
<1> SUFFICES ASSUME Init PROVE Inv
  OBVIOUS
<1>1. Slots = 0 .. -1 /\ use \in Uses
  BY DEF Init, Slots
<1>2. TypeOK
  <2>1. \A T : NULL \in [0 .. -1 -> T]
    BY NullFacts
  <2>2. /\ nexts \in [Slots -> Slots \cup {-1, Junk}] /\ keys \in [Slots -> Keys \cup {Junk}]
        /\ values \in [Slots -> Values \cup Keys \cup {Junk}]
    BY <1>1, <2>1 DEF Init
  <2>3. /\ count = 0 /\ capacity = 0 /\ hashs = NULL /\ created = "nothing"
        /\ lost \in BOOLEAN /\ orderly \in BOOLEAN
    BY DEF Init
  <2> QED BY <2>2, <2>3 DEF TypeOK
<1>3. \A h \in Buckets : AllBuckets[h] = -1
  BY DEF Init, AllBuckets
<1>4. Chained({}, AllBuckets, nexts, keys)
  BY <1>3 DEF Chained, Acyclic, Rooted, OnePred, OwnChain
<1>5. 0 .. count - 1 = {} /\ Slots = {} /\ capacity = 0
  BY <1>1 DEF Init
<1>6. OrderlyInv /\ FlagsOK
  BY <1>4, <1>5 DEF OrderlyInv, FlagsOK, Init
<1>7. Acyclic(Slots, nexts)
  BY <1>5 DEF Acyclic
<1> QED BY <1>1, <1>2, <1>6, <1>7 DEF Inv

(* The steps of a table, as the lemmas above have them.                    *)
LEMMA NextCases ==
  ASSUME Inv, [Next]_vars
  PROVE  /\ UNCHANGED use /\ FlagsOK'
         /\ \/ \E key \in Keys, value \in use.values : SetExisting(key, value) \/ SetNew(key, value)
            \/ \E key \in Keys : SetFails(key)
            \/ "remove" \in use.calls /\ \E key \in Keys : Remove(key)
            \/ Clear
            \/ Reset
            \/ UNCHANGED <<count, capacity, hashs, nexts, keys, values, orderly>>
<1>1. UNCHANGED use
  BY DEF Next, vars
<1>2. created' \in {"nothing", "NULL", "a table"}
  BY DEF Next, vars, New, hash_table_new, Inv, FlagsOK
<1>3. lost' \in BOOLEAN
  BY DEF Next, vars, BucketsFail, Inv, FlagsOK
<1>4. \/ \E key \in Keys, value \in use.values : SetExisting(key, value) \/ SetNew(key, value)
      \/ \E key \in Keys : SetFails(key)
      \/ "remove" \in use.calls /\ \E key \in Keys : Remove(key)
      \/ Clear
      \/ Reset
      \/ UNCHANGED <<count, capacity, hashs, nexts, keys, values, orderly>>
  BY DEF Next, Set, vars, New, BucketsFail
<1>5. orderly' \in BOOLEAN
  BY <1>4 DEF SetExisting, SetNew, SetFails, Remove, Clear, Reset, Inv, FlagsOK
<1> QED BY <1>1, <1>2, <1>3, <1>4, <1>5 DEF FlagsOK

(* A table that is in order after a call was in order before, or is empty. *)
LEMMA SoundBefore ==
  ASSUME Inv, [Next]_vars, ~Reset
  PROVE  /\ orderly' => orderly
         /\ Sound' => Sound
<1>1. orderly' => orderly
  BY NextCases DEF SetExisting, SetNew, SetFails, Remove, Clear
<1>2. UNCHANGED use
  BY NextCases
<1> QED BY <1>1, <1>2 DEF Sound

(* No step leaves the block, if no removal has cut a chain.                *)
LEMMA TypeNext ==
  ASSUME Inv, [Next]_vars, Sound' PROVE TypeOK'
<1>1. UNCHANGED use /\ FlagsOK'
  BY NextCases
<1>2. CASE Reset
  BY <1>1, <1>2, TypeReset
<1>3. ASSUME ~Reset PROVE TypeOK'
  <2>1. Sound
    BY <1>3, SoundBefore
  <2>2. ASSUME NEW key \in Keys, NEW value \in use.values, SetExisting(key, value) \/ SetNew(key, value)
        PROVE  TypeOK'
    BY <1>1, <2>1, <2>2, TypeSetExisting, TypeSetNew
  <2>3. ASSUME NEW key \in Keys, SetFails(key) PROVE TypeOK'
    BY <1>1, <2>1, <2>3, TypeSetFails
  <2>4. ASSUME NEW key \in Keys, "remove" \in use.calls, Remove(key) PROVE TypeOK'
    <3>1. orderly' /\ orderly
      BY <1>1, <1>3, <2>4, SoundBefore DEF Sound
    <3> QED BY <1>1, <2>4, <3>1, OrderlyRemove
  <2>5. CASE Clear
    BY <1>1, <2>1, <2>5, TypeClear
  <2>6. CASE UNCHANGED <<count, capacity, hashs, nexts, keys, values, orderly>>
    BY <1>1, <2>1, <2>6, TypeSame
  <2> QED BY <1>3, <2>2, <2>3, <2>4, <2>5, <2>6, NextCases
<1> QED BY <1>2, <1>3

(* No step closes a circle, where nothing is removed.                      *)
LEMMA AcyclicNext ==
  ASSUME Inv, [Next]_vars, "remove" \notin use.calls PROVE Acyclic(Slots, nexts)'
<1>1. UNCHANGED use /\ FlagsOK' /\ Acyclic(Slots, nexts)
  BY NextCases DEF Inv
<1>2. ASSUME NEW key \in Keys, NEW value \in use.values, SetNew(key, value)
      PROVE  Acyclic(Slots, nexts)'
  BY <1>1, <1>2, AcyclicSetNew
<1>3. CASE UNCHANGED <<capacity, nexts>>
  BY <1>1, <1>3 DEF Slots
<1>4. CASE Reset
  <2>1. Slots' = 0 .. -1
    BY <1>4 DEF Reset, Slots
  <2>2. \A S \in SUBSET Slots' : S = {}
    BY <2>1
  <2> QED BY <2>2 DEF Acyclic
<1> QED BY <1>2, <1>3, <1>4, NextCases DEF SetExisting, SetFails, Clear

(* A call that leaves a table in order makes of its map what KeyMap says.  *)
LEMMA OrderlyCalls ==
  ASSUME Inv, [Next]_vars, orderly, orderly'
  PROVE  /\ \A key \in Keys, value \in use.values :
              SetExisting(key, value) \/ SetNew(key, value) =>
                OrderlyInv' /\ Contents' = PutTo(Contents, key, value)
         /\ \A key \in Keys : SetFails(key) => OrderlyInv' /\ Contents' = Contents
         /\ \A key \in Keys : Remove(key) => OrderlyInv' /\ Contents' = DeleteFrom(Contents, key)
         /\ Clear \/ UNCHANGED <<count, capacity, hashs, nexts, keys, values, orderly>> =>
              OrderlyInv' /\ Contents' = Contents
<1>1. UNCHANGED use /\ FlagsOK' /\ TypeOK /\ TypeOK'
  BY NextCases, TypeNext DEF Inv, Sound
<1>2. ASSUME NEW key \in Keys, NEW value \in use.values, SetExisting(key, value) \/ SetNew(key, value)
      PROVE  OrderlyInv' /\ Contents' = PutTo(Contents, key, value)
  BY <1>1, <1>2, OrderlySetExisting, OrderlySetNew
<1>3. ASSUME NEW key \in Keys, SetFails(key) PROVE OrderlyInv' /\ Contents' = Contents
  <2>1. AllBuckets \in [Buckets -> Slots \cup {-1}]
    BY <1>1, AllBucketsType
  <2>2. AllBuckets # NULL
    BY <2>1, NullFacts
  <2>3. AllBuckets' = AllBuckets
    BY <1>3, <2>2 DEF SetFails, AllBuckets
  <2> QED BY <1>1, <1>3, <2>3, OrderlySame DEF SetFails
<1>4. ASSUME NEW key \in Keys, Remove(key)
      PROVE  OrderlyInv' /\ Contents' = DeleteFrom(Contents, key)
  BY <1>1, <1>4, OrderlyRemove
<1>5. ASSUME Clear \/ UNCHANGED <<count, capacity, hashs, nexts, keys, values, orderly>>
      PROVE  OrderlyInv' /\ Contents' = Contents
  <2>1. UNCHANGED <<count, capacity, nexts, keys, values>> /\ AllBuckets' = AllBuckets
    BY <1>5 DEF Clear, AllBuckets
  <2> QED BY <1>1, <2>1, OrderlySame
<1> QED BY <1>2, <1>3, <1>4, <1>5

(* So does freeing or detaching any table.                                 *)
LEMMA ResetCall ==
  ASSUME Inv, [Next]_vars, Reset PROVE OrderlyInv' /\ Contents' = Map!Empty
BY NextCases, TypeReset, OrderlyReset

(* Every step keeps the invariant.                                         *)
LEMMA InvNext == Inv /\ [Next]_vars => Inv'
<1> SUFFICES ASSUME Inv, [Next]_vars PROVE Inv'
  OBVIOUS
<1>1. UNCHANGED use /\ FlagsOK'
  BY NextCases
<1>2. Sound' => TypeOK'
  BY TypeNext
<1>3. ASSUME orderly' PROVE OrderlyInv'
  <2>1. CASE Reset
    BY <2>1, ResetCall
  <2>2. CASE ~Reset
    <3>1. orderly
      BY <1>3, <2>2, SoundBefore
    <3> QED BY <1>3, <2>2, <3>1, NextCases, OrderlyCalls
  <2> QED BY <2>1, <2>2
<1>4. "remove" \notin use.calls => Acyclic(Slots, nexts)'
  BY AcyclicNext
<1>5. use' \in Uses
  BY <1>1 DEF Inv
<1> QED BY <1>1, <1>2, <1>3, <1>4, <1>5 DEF Inv

(* The invariant holds always.                                             *)
LEMMA InvHolds == Spec => []Inv
BY InvInit, InvNext, PTL DEF Spec

-----------------------------------------------------------------------------
(* A table keeps to its block until a removal cuts a chain: every slot it  *)
(* leads to is one of it, for every number of keys, buckets and entries.   *)
THEOREM TypeCorrect == Spec => [](orderly \/ "remove" \notin use.calls => TypeOK)
<1>1. Inv => (orderly \/ "remove" \notin use.calls => TypeOK)
  BY DEF Inv, Sound
<1> QED BY <1>1, InvHolds, PTL

(* A lookup ends until a removal cuts a chain, also after the table was    *)
(* cleared, set again and grown.                                           *)
THEOREM LookupsEndCorrect == Spec => [](orderly \/ "remove" \notin use.calls => LookupsEnd)
<1>1. ASSUME Inv, Sound PROVE LookupsEnd
  <2>1. SUFFICES ASSUME hashs # NULL, NEW key \in Keys
                 PROVE  \E n \in 0 .. capacity : Stops(Walk(hashs, nexts, key), keys, key, n)
    BY DEF LookupsEnd
  <2>2. TypeOK
    BY <1>1 DEF Inv
  <2>3. PICK cap, hs, ns : cap = capacity /\ hs = hashs /\ ns = nexts
    OBVIOUS
  <2>4. cap \in Nat /\ Slots = 0 .. cap - 1
    BY <2>2, <2>3 DEF TypeOK, Slots
  <2>5. PICK L \in SUBSET Slots : Closed(L, hs[Hash(key)], ns) /\ Acyclic(L, ns)
    <3>1. CASE orderly
      <4>1. Chained(0 .. count - 1, hs, ns, keys)
        BY <1>1, <2>1, <2>3, <3>1 DEF Inv, OrderlyInv, AllBuckets
      <4>2. 0 .. count - 1 \in SUBSET Slots
        <5>1. capacity \in Nat /\ count \in 0 .. capacity
          BY <2>2 DEF TypeOK
        <5> QED BY <5>1 DEF Slots
      <4> QED BY <2>1, <4>1, <4>2, ChainedClosed
    <3>2. CASE "remove" \notin use.calls
      <4>1. Hash(key) \in Buckets
        BY <2>1, HashType
      <4>2. Closed(Slots, hs[Hash(key)], ns)
        BY <2>1, <2>2, <2>3, <4>1 DEF TypeOK, Closed, Ends
      <4> QED BY <1>1, <2>3, <3>2, <4>2 DEF Inv
    <3> QED BY <1>1, <3>1, <3>2 DEF Sound
  <2>6. Path(cap, hs[Hash(key)], ns)[cap] < 0
    BY <2>4, <2>5, PathEnds
  <2>7. Walk(hashs, nexts, key)[cap] < 0
    BY <2>3, <2>6 DEF Walk, Path
  <2> QED BY <2>3, <2>4, <2>7 DEF Stops
<1>2. Inv => (orderly \/ "remove" \notin use.calls => LookupsEnd)
  BY <1>1 DEF Sound
<1> QED BY <1>2, InvHolds, PTL

(* As long as it is in order a table is the map that its callers made: a   *)
(* set puts the value it was given, a removal deletes its key, and nothing *)
(* else changes what a lookup finds.                                       *)
THEOREM MapCorrect == Spec => IsMap
<1>1. Init => Map!Init
  <2> SUFFICES ASSUME Init PROVE Contents = Map!Empty
    BY DEF Map!Init
  <2>1. Holds(Contents, 0 .. count - 1, keys, values)
    BY InvInit, OrderlyFacts DEF Init
  <2>2. 0 .. count - 1 = {}
    BY DEF Init
  <2> QED BY <2>1, <2>2 DEF Holds, Map!Empty
<1>2. ASSUME Inv, [Next]_vars PROVE CallsOnMap
  <2>1. ASSUME orderly, orderly'
        PROVE  /\ \A key \in Keys, value \in use.values :
                    SetExisting(key, value) \/ SetNew(key, value) => Map!Put(key, value)
               /\ \A key \in Keys : /\ SetFails(key) => UNCHANGED Contents
                                    /\ Remove(key) => Map!Delete(key)
    BY <1>2, <2>1, OrderlyCalls DEF PutTo, DeleteFrom, Map!Put, Map!Delete
  <2>2. Reset => Map!Forget
    BY <1>2, ResetCall DEF Map!Forget
  <2> QED BY <2>1, <2>2 DEF CallsOnMap
<1>3. Inv /\ [Next]_vars => [CallsOnMap]_vars
  BY <1>2
<1> QED BY <1>1, <1>3, InvHolds, PTL DEF Spec, IsMap
=============================================================================
