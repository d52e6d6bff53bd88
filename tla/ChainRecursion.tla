--------------------------- MODULE ChainRecursion ---------------------------
(***************************************************************************)
(* Recursion along the edges of a forest whose nodes 1 .. n hang off       *)
(* earlier nodes, 0 for none: the shape of the experiment graph, of the    *)
(* history of the user interface, and of every operator of the two that    *)
(* walks a chain.  Such a recursion has a solution, and what every node    *)
(* inherits from its parent all nodes have.                                *)
(*                                                                         *)
(* The induction theorems of the library take a predicate; here what is    *)
(* proved by induction is the set of the numbers it holds of.              *)
(***************************************************************************)
EXTENDS Integers, FiniteSetTheorems, WellFoundedInduction, TLAPS

(* Nodes 1 .. n, each with its parent.                                     *)
Forest(n, parent) ==
  /\ n \in Nat
  /\ parent \in [1 .. n -> 0 .. n]
  /\ \A i \in 1 .. n : parent[i] < i

(* Each node's value, from its own start or from its parent's value.       *)
Solves(f, n, parent, start, step) ==
  \A i \in 1 .. n :
    f[i] = IF parent[i] = 0 THEN start[i] ELSE step[<<i, f[parent[i]]>>]

LEMMA LeastNumber ==
  ASSUME NEW T, T \subseteq Nat, T # {}
  PROVE  \E n \in T : \A m \in T : n <= m
<1>1. PICK n \in T : \A m \in T : ~(<<m, n>> \in OpToRel(<, Nat))
  BY WFMin, NatLessThanWellFounded
<1>2. \A m \in T : ~(m < n)
  BY <1>1 DEF OpToRel
<1> QED
  BY <1>2

(* What a function makes of a finite set is finite.                        *)
LEMMA FiniteImage ==
  ASSUME NEW S, NEW T, NEW f \in [S -> T], \A t \in T : \E x \in S : f[x] = t,
         IsFiniteSet(S)
  PROVE  IsFiniteSet(T)
<1>1. f \in Surjection(S, T)
  BY DEF Surjection
<1> QED BY <1>1, FS_Surjection

LEMMA ForestInduction ==
  ASSUME NEW n, NEW parent, Forest(n, parent), NEW S,
         \A i \in 1 .. n : parent[i] = 0 \/ parent[i] \in S => i \in S
  PROVE  \A i \in 1 .. n : i \in S
<1> DEFINE T == {i \in 1 .. n : i \notin S}
<1>1. SUFFICES ASSUME T # {} PROVE FALSE
  OBVIOUS
<1>2. T \subseteq Nat
  BY DEF Forest
<1>3. PICK i \in T : \A j \in T : i <= j
  BY <1>1, <1>2, LeastNumber
<1>4. parent[i] \in 0 .. n /\ parent[i] < i /\ i \in 1 .. n /\ n \in Nat
  BY DEF Forest
<1>5. parent[i] # 0 => parent[i] \in 1 .. n
  BY <1>4
<1>6. parent[i] # 0 => parent[i] \in S
  BY <1>3, <1>4, <1>5
<1> QED
  BY <1>6

LEMMA ForestRecursion ==
  ASSUME NEW n, NEW parent, Forest(n, parent), NEW V,
         NEW start \in [1 .. n -> V], NEW step \in [(1 .. n) \X V -> V]
  PROVE  \E f \in [1 .. n -> V] : Solves(f, n, parent, start, step)
<1> DEFINE Upto(f, k) ==
             \A i \in 1 .. k :
               f[i] = IF parent[i] = 0 THEN start[i] ELSE step[<<i, f[parent[i]]>>]
           Has(k) == \E f \in [1 .. k -> V] : Upto(f, k)
           T == {k \in 0 .. n : ~Has(k)}
<1>1. n \in Nat /\ \A i \in 1 .. n : parent[i] \in 0 .. n /\ parent[i] < i
  BY DEF Forest
<1>2. Has(0)
  <2> DEFINE none == [i \in 1 .. 0 |-> start[i]]
  <2>1. none \in [1 .. 0 -> V]
    OBVIOUS
  <2> HIDE DEF none
  <2>2. Upto(none, 0)
    OBVIOUS
  <2> QED
    BY <2>1, <2>2
<1>3. ASSUME NEW k \in 1 .. n, Has(k - 1)
      PROVE  Has(k)
  <2>1. PICK f \in [1 .. k - 1 -> V] : Upto(f, k - 1)
    BY <1>3
  <2> DEFINE last == IF parent[k] = 0 THEN start[k] ELSE step[<<k, f[parent[k]]>>]
             g == [i \in 1 .. k |-> IF i = k THEN last ELSE f[i]]
  <2>2. parent[k] # 0 => parent[k] \in 1 .. k - 1
    BY <1>1
  <2>3. last \in V
    BY <2>2
  <2> HIDE DEF last
  <2>4. \A i \in 1 .. k : i # k => i \in 1 .. k - 1
    BY <1>1
  <2>5. g \in [1 .. k -> V]
    BY <2>3, <2>4
  <2>6. ASSUME NEW i \in 1 .. k
        PROVE  g[i] = IF parent[i] = 0 THEN start[i] ELSE step[<<i, g[parent[i]]>>]
    <3>1. parent[i] \in 0 .. n /\ parent[i] < i /\ i \in Nat /\ i <= k
      BY <1>1
    <3>2. parent[i] # 0 => g[parent[i]] = f[parent[i]]
      BY <3>1, <1>1
    <3>3. CASE i = k
      BY <3>2, <3>3 DEF last
    <3>4. CASE i # k
      BY <2>1, <2>4, <3>2, <3>4
    <3> QED
      BY <3>3, <3>4
  <2> HIDE DEF g
  <2>7. Upto(g, k)
    BY <2>6
  <2> QED
    BY <2>5, <2>7
<1> HIDE DEF Has
<1>4. T = {}
  <2>1. SUFFICES ASSUME T # {} PROVE FALSE
    OBVIOUS
  <2>2. T \subseteq Nat
    BY <1>1
  <2>3. PICK k \in T : \A m \in T : k <= m
    BY <2>1, <2>2, LeastNumber
  <2>4. k \in 1 .. n
    BY <1>1, <1>2
  <2>5. k - 1 \notin T /\ k - 1 \in 0 .. n
    BY <1>1, <2>3, <2>4
  <2> QED
    BY <1>3, <2>3, <2>4, <2>5
<1>5. Has(n)
  BY <1>1, <1>4
<1> QED
  BY <1>5 DEF Has, Solves

(* A function of 0 .. n, each value from the one before.                   *)
Counts(f, n, first, step) ==
  f[0] = first /\ \A i \in 1..n : f[i] = step[<<i, f[i - 1]>>]

(* A recursion that counts from 0 has a solution.                          *)
LEMMA CountedRecursion ==
  ASSUME NEW n \in Nat, NEW V, NEW first \in V,
         NEW step \in [(1..n) \X V -> V]
  PROVE  \E f \in [0..n -> V] : Counts(f, n, first, step)
<1> DEFINE m == n + 1
           parent == [i \in 1..m |-> i - 1]
           start == [i \in 1..m |-> first]
           next == [x \in (1..m) \X V |->
                     IF x[1] = 1 THEN first ELSE step[<<x[1] - 1, x[2]>>]]
<1>1. Forest(m, parent) /\ \A i \in 1..m : parent[i] = i - 1
  BY DEF Forest
<1>2. start \in [1..m -> V] /\ \A i \in 1..m : start[i] = first
  OBVIOUS
<1>3. ASSUME NEW x \in (1..m) \X V
      PROVE  (IF x[1] = 1 THEN first ELSE step[<<x[1] - 1, x[2]>>]) \in V
  <2>1. x[1] \in 1..m /\ x[2] \in V
    OBVIOUS
  <2>2. x[1] # 1 => <<x[1] - 1, x[2]>> \in (1..n) \X V
    BY <2>1
  <2> QED BY <2>2
<1>4. next \in [(1..m) \X V -> V]
  BY <1>3
<1>5. \A i \in 1..m, v \in V : i # 1 => next[<<i, v>>] = step[<<i - 1, v>>]
  OBVIOUS
<1>6. m \in Nat /\ m = n + 1
  OBVIOUS
<1> HIDE DEF m, parent, start, next
<1>7. PICK g \in [1..m -> V] : Solves(g, m, parent, start, next)
  BY <1>1, <1>2, <1>4, ForestRecursion
<1> DEFINE f == [i \in 0..n |-> g[i + 1]]
<1>8. f \in [0..n -> V]
  BY <1>6, <1>7
<1>9. f[0] = first
  <2>1. 1 \in 1..m /\ 0 \in 0..n
    BY <1>6
  <2>2. g[1] = start[1]
    <3>1. parent[1] = 0
      BY <1>1, <2>1
    <3>2. \A i \in 1..m : g[i] = IF parent[i] = 0 THEN start[i] ELSE next[<<i, g[parent[i]]>>]
      BY <1>7 DEF Solves
    <3> QED BY <2>1, <3>1, <3>2
  <2>3. f[0] = g[0 + 1] /\ 0 + 1 = 1
    BY <2>1
  <2> QED BY <1>2, <2>1, <2>2, <2>3
<1>10. ASSUME NEW i \in 1..n PROVE f[i] = step[<<i, f[i - 1]>>]
  <2>1. i + 1 \in 1..m /\ parent[i + 1] = i /\ i # 0 /\ i \in 1..m
    BY <1>1, <1>6
  <2>2. g[i + 1] = next[<<i + 1, g[i]>>]
    BY <1>7, <2>1 DEF Solves
  <2>3. g[i] \in V
    BY <1>7, <2>1
  <2>4. next[<<i + 1, g[i]>>] = step[<<i, g[i]>>]
    BY <1>5, <2>1, <2>3
  <2>5. f[i] = g[i + 1] /\ f[i - 1] = g[i]
    BY <1>6, <2>1
  <2> QED BY <2>2, <2>4, <2>5
<1> HIDE DEF f
<1> QED BY <1>8, <1>9, <1>10 DEF Counts
=============================================================================
