--------------------------- MODULE HistoryProofs ---------------------------
(***************************************************************************)
(* What holds of the chains of experiments however many sessions,          *)
(* experiments and names there are.                                        *)
(*                                                                         *)
(* The operators that walk the chains are stated here of any sequence of   *)
(* experiments e, so that they can be compared before and after a step.    *)
(***************************************************************************)
EXTENDS ExperimentHistory, ChainRecursion, SequenceTheorems, FiniteSetTheorems

-----------------------------------------------------------------------------
(* Sequences *)

IsSequence(s) == s \in Seq({s[i] : i \in DOMAIN s})

LEMMA SeqFacts ==
  ASSUME NEW s, IsSequence(s)
  PROVE  Len(s) \in Nat /\ DOMAIN s = 1..Len(s) /\ s = [i \in 1..Len(s) |-> s[i]]
  BY DEF IsSequence

LEMMA SeqByDomain ==
  ASSUME NEW n \in Nat, NEW f, f = [i \in 1..n |-> f[i]]
  PROVE  IsSequence(f) /\ Len(f) = n
<1> DEFINE S == {f[i] : i \in DOMAIN f}
<1>1. f \in [1..n -> S]
  OBVIOUS
<1>2. f \in Seq(S)
  BY <1>1
<1> QED BY <1>1, <1>2 DEF IsSequence

LEMMA SeqAppended ==
  ASSUME NEW s, IsSequence(s), NEW x
  PROVE  /\ IsSequence(Append(s, x)) /\ Len(Append(s, x)) = Len(s) + 1
         /\ \A i \in 1..Len(s) : Append(s, x)[i] = s[i]
         /\ Append(s, x)[Len(s) + 1] = x
<1> DEFINE S == {s[i] : i \in DOMAIN s} \cup {x}
           a == Append(s, x)
<1>1. s \in Seq(S)
  BY DEF IsSequence
<1>2. a \in Seq(S) /\ Len(a) = Len(s) + 1 /\ Len(s) \in Nat
  BY <1>1
<1>3. (\A i \in 1..Len(s) : a[i] = s[i]) /\ a[Len(s) + 1] = x
  BY <1>1
<1>4. a = [i \in 1..Len(a) |-> a[i]] /\ Len(a) \in Nat
  <2> HIDE DEF a, S
  <2>1. PICK k \in Nat : a \in [1..k -> S]
    BY <1>2, SeqDef
  <2>2. Len(a) = k
    BY <1>2, <2>1
  <2> QED BY <2>1, <2>2
<1> HIDE DEF a, S
<1>5. IsSequence(a) /\ Len(a) = Len(s) + 1
  BY <1>2, <1>4, SeqByDomain
<1> QED BY <1>3, <1>5 DEF a

-----------------------------------------------------------------------------
(* Walks down the chains *)

Parents(e) == IsSequence(e) /\ \A i \in 1..Len(e) : e[i].parent \in 0..(i - 1)

IsAncestors(f, e) ==
  f = [id \in 0..Len(e) |->
        IF id = 0 \/ e[id].parent = 0 THEN {} ELSE {e[id].parent} \cup f[e[id].parent]]

AncestorsOf(e) == CHOOSE f : IsAncestors(f, e)

LEMMA Walks == Ancestors = AncestorsOf(exps)
  BY DEF Ancestors, AncestorsOf, IsAncestors, Parent

Walked(n, parent, V, base, step) ==
  \E f \in [0..n -> V] : f[0] = base /\ \A i \in 1..n : f[i] = step[<<i, f[parent[i]]>>]

(* A recursion that begins at 0, which is nobody.                          *)
LEMMA WalkRecursion ==
  ASSUME NEW n, NEW parent, Forest(n, parent), NEW V, NEW base \in V,
         NEW step \in [(1..n) \X V -> V]
  PROVE  Walked(n, parent, V, base, step)
<1> DEFINE start == [i \in 1..n |-> step[<<i, base>>]]
<1>1. start \in [1..n -> V] /\ n \in Nat
  BY DEF Forest
<1> HIDE DEF start
<1>2. PICK g \in [1..n -> V] : Solves(g, n, parent, start, step)
  BY <1>1, ForestRecursion
<1> DEFINE f == [i \in 0..n |-> IF i = 0 THEN base ELSE g[i]]
<1>3. \A i \in 1..n : i \in 0..n /\ i # 0
  BY <1>1
<1>4. f \in [0..n -> V] /\ f[0] = base /\ \A i \in 1..n : f[i] = g[i]
  <2>1. \A i \in 0..n : i # 0 => i \in 1..n
    BY <1>1
  <2>2. 0 \in 0..n
    BY <1>1
  <2> QED BY <1>3, <2>1, <2>2
<1>5. ASSUME NEW i \in 1..n PROVE f[i] = step[<<i, f[parent[i]]>>]
  <2>1. f[i] = IF parent[i] = 0 THEN step[<<i, base>>] ELSE step[<<i, g[parent[i]]>>]
    BY <1>2, <1>4 DEF Solves, start
  <2>2. parent[i] \in 0..n /\ (parent[i] # 0 => parent[i] \in 1..n)
    BY DEF Forest
  <2> HIDE DEF f
  <2> QED BY <1>4, <2>1, <2>2
<1> HIDE DEF f
<1> QED BY <1>4, <1>5 DEF Walked

LEMMA AncestorsSolved ==
  ASSUME NEW e, Parents(e)
  PROVE  /\ AncestorsOf(e)[0] = {}
         /\ \A i \in 1..Len(e) :
              AncestorsOf(e)[i] = IF e[i].parent = 0 THEN {}
                                  ELSE {e[i].parent} \cup AncestorsOf(e)[e[i].parent]
<1> DEFINE n == Len(e)
           V == SUBSET (1..n)
           parent == [i \in 1..n |-> e[i].parent]
           step == [x \in (1..n) \X V |->
                     IF parent[x[1]] = 0 THEN {} ELSE {parent[x[1]]} \cup x[2]]
<1>1. n \in Nat /\ \A i \in 1..n : e[i].parent \in 0..(i - 1)
  BY SeqFacts DEF Parents
<1>0. 0 \in 0..n /\ \A i \in 1..n : i \in 0..n /\ i # 0 /\ e[i].parent \in 0..n
  BY <1>1
<1>2. Forest(n, parent)
  BY <1>1 DEF Forest
<1>3. step \in [(1..n) \X V -> V] /\ {} \in V
  BY <1>0
<1>4. PICK f \in [0..n -> V] :
        f[0] = {} /\ \A i \in 1..n : f[i] = step[<<i, f[parent[i]]>>]
  <2> DEFINE none == {}
  <2>1. none \in V
    OBVIOUS
  <2> HIDE DEF none, step, parent, V, n
  <2>2. Walked(n, parent, V, none, step)
    BY <1>2, <1>3, <2>1, WalkRecursion
  <2> QED BY <2>2 DEF none, Walked
<1>5. \A i \in 1..n : f[i] = IF e[i].parent = 0 THEN {} ELSE {e[i].parent} \cup f[e[i].parent]
  <2> TAKE i \in 1..n
  <2>1. e[i].parent \in 0..n
    BY <1>1
  <2>2. f[e[i].parent] \in V
    BY <2>1
  <2>3. f[i] = step[<<i, f[parent[i]]>>] /\ parent[i] = e[i].parent
    BY <1>4
  <2> QED BY <2>2, <2>3
<1> DEFINE body(id) == IF id = 0 \/ e[id].parent = 0 THEN {}
                       ELSE {e[id].parent} \cup f[e[id].parent]
<1>6. \A id \in 0..n : f[id] = body(id)
  <2> TAKE id \in 0..n
  <2>1. id = 0 \/ id \in 1..n
    BY <1>1
  <2> QED BY <1>4, <1>5, <2>1
<1> HIDE DEF body
<1>7. f = [id \in 0..n |-> body(id)]
  BY <1>6
<1>8. IsAncestors(f, e)
  BY <1>7 DEF body, IsAncestors, n
<1> DEFINE A == AncestorsOf(e)
<1>9. IsAncestors(A, e)
  BY <1>8 DEF AncestorsOf
<1> HIDE DEF A, step, parent
<1>10. \A id \in 0..n : A[id] = IF id = 0 \/ e[id].parent = 0 THEN {}
                                ELSE {e[id].parent} \cup A[e[id].parent]
  BY <1>9, Zenon DEF IsAncestors
<1>11. A[0] = {} /\ \A i \in 1..n : A[i] = IF e[i].parent = 0 THEN {}
                                          ELSE {e[i].parent} \cup A[e[i].parent]
  BY <1>0, <1>10
<1> QED BY <1>11 DEF A

(* An experiment and those its chain leads to; of nobody there are none.   *)
Above(e, id) == IF id = 0 THEN {} ELSE {id} \cup AncestorsOf(e)[id]

LEMMA AncestorsAbove ==
  ASSUME NEW e, Parents(e), NEW i \in 1..Len(e)
  PROVE  AncestorsOf(e)[i] = Above(e, e[i].parent)
  BY AncestorsSolved DEF Above

-----------------------------------------------------------------------------
(* The invariant *)

ExpFields == {"name", "parent", "deep", "chain"}

NodeOK(x) == DOMAIN x = ExpFields /\ x.deep \in Nat /\ x.chain \in Nat

Precedes(x, y) == x.deep < y.deep /\ (x.name = y.name => x.chain < y.chain)

(* An experiment is above all that its chain leads to, which is still in   *)
(* the graph.                                                              *)
GraphOK(e, left) ==
  /\ Parents(e) /\ left \subseteq 1..Len(e)
  /\ \A i \in 1..Len(e) : NodeOK(e[i])
  /\ \A i \in left : e[i].parent \in left \cup {0}
  /\ \A i \in left : \A j \in AncestorsOf(e)[i] : j \in left /\ Precedes(e[j], e[i])

(* So is one under creation above its parent, which it holds.              *)
TaskOK(t, e, left) ==
  t.op = "create" =>
    /\ t.parent \in left \cup {0} /\ t.deep \in Nat /\ t.chain \in Nat
    /\ \A j \in Above(e, t.parent) : j \in left /\ Precedes(e[j], t)

HistoryInv ==
  /\ GraphOK(exps, live)
  /\ session = [s \in Session |-> session[s]]
  /\ \A s \in Session : TaskOK(session[s], exps, live)

LEMMA ExpsFacts ==
  ASSUME HistoryInv
  PROVE  /\ Len(exps) \in Nat /\ live \subseteq 1..Len(exps)
         /\ DOMAIN exps = 1..Len(exps) /\ exps = [i \in 1..Len(exps) |-> exps[i]]
         /\ \A i \in 1..Len(exps) : NodeOK(exps[i])
  BY SeqFacts DEF HistoryInv, GraphOK, Parents

LEMMA GraphAppended ==
  ASSUME NEW e, NEW left, GraphOK(e, left), NEW x, NodeOK(x), x.parent \in left \cup {0},
         \A j \in Above(e, x.parent) : j \in left /\ Precedes(e[j], x)
  PROVE  /\ GraphOK(Append(e, x), left \cup {Len(e) + 1})
         /\ \A i \in 1..Len(e) : /\ Append(e, x)[i] = e[i]
                                 /\ AncestorsOf(Append(e, x))[i] = AncestorsOf(e)[i]
<1> DEFINE n == Len(e)
           f == Append(e, x)
           more == left \cup {n + 1}
<1>1. /\ IsSequence(f) /\ Len(f) = n + 1 /\ n \in Nat /\ f[n + 1] = x
      /\ \A i \in 1..n : f[i] = e[i]
  BY SeqAppended, SeqFacts DEF GraphOK, Parents
<1>2. Parents(e) /\ left \subseteq 1..n /\ \A i \in 1..n : e[i].parent \in 0..(i - 1)
  BY DEF GraphOK, Parents
<1> HIDE DEF f, n
<1>3. Parents(f)
  <2> SUFFICES ASSUME NEW i \in 1..(n + 1) PROVE f[i].parent \in 0..(i - 1)
    BY <1>1 DEF Parents
  <2>1. CASE i = n + 1
    <3>1. x.parent \in 0..n
      <4>1. x.parent = 0 \/ x.parent \in 1..n
        BY <1>2
      <4>2. n \in Nat
        BY <1>1
      <4> QED BY <4>1, <4>2
    <3>2. f[i] = x /\ i - 1 = n
      BY <1>1, <2>1
    <3> QED BY <3>1, <3>2
  <2>2. CASE i \in 1..n
    BY <1>1, <1>2, <2>2
  <2> QED BY <1>1, <2>1, <2>2
<1>4. \A i \in 1..n : AncestorsOf(f)[i] = AncestorsOf(e)[i]
  <2> DEFINE S == {i \in 1..n : AncestorsOf(f)[i] = AncestorsOf(e)[i]}
             parent == [i \in 1..n |-> e[i].parent]
  <2>1. Forest(n, parent)
    BY <1>1, <1>2 DEF Forest
  <2>2. ASSUME NEW i \in 1..n, parent[i] = 0 \/ parent[i] \in S PROVE i \in S
    <3>0. i \in 1..Len(f)
      BY <1>1
    <3>1. AncestorsOf(f)[i] = IF f[i].parent = 0 THEN {}
                              ELSE {f[i].parent} \cup AncestorsOf(f)[f[i].parent]
      BY <1>3, <3>0, AncestorsSolved
    <3>2. AncestorsOf(e)[i] = IF e[i].parent = 0 THEN {}
                              ELSE {e[i].parent} \cup AncestorsOf(e)[e[i].parent]
      BY <1>2, AncestorsSolved DEF n
    <3>3. f[i].parent = e[i].parent /\ parent[i] = e[i].parent
      BY <1>1
    <3> QED BY <2>2, <3>1, <3>2, <3>3
  <2> HIDE DEF S, parent
  <2>3. \A i \in 1..n : i \in S
    BY <2>1, <2>2, ForestInduction
  <2> QED BY <2>3 DEF S
<1>5. AncestorsOf(f)[n + 1] = Above(e, x.parent)
  <2>1. AncestorsOf(f)[n + 1] = Above(f, x.parent)
    BY <1>1, <1>3, AncestorsAbove
  <2> QED BY <1>2, <1>4, <2>1 DEF Above
<1>6. ASSUME NEW i \in more, NEW j \in AncestorsOf(f)[i]
      PROVE  j \in more /\ Precedes(f[j], f[i])
  <2>1. CASE i = n + 1
    <3>1. j \in left /\ Precedes(e[j], x)
      BY <1>5, <1>6, <2>1
    <3> QED BY <1>1, <1>2, <2>1, <3>1
  <2>2. CASE i \in left
    <3>1. j \in left /\ Precedes(e[j], e[i])
      BY <1>2, <1>4, <1>6, <2>2 DEF GraphOK
    <3> QED BY <1>1, <1>2, <2>2, <3>1
  <2> QED BY <2>1, <2>2
<1>7. \A i \in 1..(n + 1) : NodeOK(f[i])
  <2> TAKE i \in 1..(n + 1)
  <2>1. i = n + 1 \/ i \in 1..n
    BY <1>1
  <2> QED BY <1>1, <2>1 DEF GraphOK, n
<1>8. \A i \in more : f[i].parent \in more \cup {0}
  BY <1>1, <1>2 DEF GraphOK
<1>9. more \subseteq 1..(n + 1)
  BY <1>1, <1>2
<1>10. GraphOK(f, more)
  BY <1>1, <1>3, <1>6, <1>7, <1>8, <1>9 DEF GraphOK
<1> QED BY <1>1, <1>4, <1>10 DEF f, n

(* The children of g lose their parent, and nobody's chain leads to g.     *)
Cut(e, g) ==
  [i \in DOMAIN e |-> IF e[i].parent = g THEN [e[i] EXCEPT !.parent = 0] ELSE e[i]]

LEMMA GraphCut ==
  ASSUME NEW e, NEW left, GraphOK(e, left), NEW g
  PROVE  /\ GraphOK(Cut(e, g), left \ {g})
         /\ \A i \in 1..Len(e) :
              /\ Cut(e, g)[i].name = e[i].name /\ Cut(e, g)[i].deep = e[i].deep
              /\ Cut(e, g)[i].chain = e[i].chain
              /\ AncestorsOf(Cut(e, g))[i] \subseteq AncestorsOf(e)[i] \ {g}
<1> DEFINE n == Len(e)
           f == Cut(e, g)
           less == left \ {g}
<1>1. /\ n \in Nat /\ DOMAIN e = 1..n /\ Parents(e) /\ left \subseteq 1..n
      /\ \A i \in 1..n : e[i].parent \in 0..(i - 1) /\ NodeOK(e[i])
  BY SeqFacts DEF GraphOK, Parents
<1>2. f = [i \in 1..n |-> f[i]]
  BY <1>1 DEF Cut
<1>3. ASSUME NEW i \in 1..n
      PROVE  /\ f[i].name = e[i].name /\ f[i].deep = e[i].deep /\ f[i].chain = e[i].chain
             /\ f[i].parent = IF e[i].parent = g THEN 0 ELSE e[i].parent
             /\ DOMAIN f[i] = ExpFields
  <2>1. f[i] = IF e[i].parent = g THEN [e[i] EXCEPT !.parent = 0] ELSE e[i]
    BY <1>1 DEF Cut
  <2>2. DOMAIN e[i] = ExpFields
    BY <1>1 DEF NodeOK
  <2> HIDE DEF f
  <2> QED BY <2>1, <2>2 DEF ExpFields
<1> HIDE DEF f, n
<1>4. IsSequence(f) /\ Len(f) = n
  BY <1>1, <1>2, SeqByDomain
<1>5. Parents(f)
  BY <1>1, <1>3, <1>4 DEF Parents
<1>6. \A i \in 1..n : AncestorsOf(f)[i] \subseteq AncestorsOf(e)[i] \ {g}
  <2> DEFINE S == {i \in 1..n : AncestorsOf(f)[i] \subseteq AncestorsOf(e)[i] \ {g}}
             parent == [i \in 1..n |-> f[i].parent]
  <2>1. Forest(n, parent)
    BY <1>1, <1>4, <1>5 DEF Forest, Parents
  <2>2. ASSUME NEW i \in 1..n, parent[i] = 0 \/ parent[i] \in S PROVE i \in S
    <3>1. AncestorsOf(f)[i] = IF f[i].parent = 0 THEN {}
                              ELSE {f[i].parent} \cup AncestorsOf(f)[f[i].parent]
      BY <1>4, <1>5, AncestorsSolved
    <3>2. AncestorsOf(e)[i] = IF e[i].parent = 0 THEN {}
                              ELSE {e[i].parent} \cup AncestorsOf(e)[e[i].parent]
      BY <1>1, AncestorsSolved DEF n
    <3>3. CASE f[i].parent = 0
      BY <3>1, <3>3
    <3>4. CASE f[i].parent # 0
      <4>1. f[i].parent = e[i].parent /\ e[i].parent # g /\ f[i].parent \in S
        BY <1>3, <2>2, <3>4
      <4> QED BY <3>1, <3>2, <3>4, <4>1
    <3> QED BY <3>3, <3>4
  <2> HIDE DEF S, parent
  <2>3. \A i \in 1..n : i \in S
    BY <2>1, <2>2, ForestInduction
  <2> QED BY <2>3 DEF S
<1>7. ASSUME NEW i \in less, NEW j \in AncestorsOf(f)[i]
      PROVE  j \in less /\ Precedes(f[j], f[i])
  <2>1. j \in AncestorsOf(e)[i] /\ j # g /\ i \in left
    BY <1>1, <1>6, <1>7
  <2>2. j \in left /\ Precedes(e[j], e[i])
    BY <2>1 DEF GraphOK
  <2> QED BY <1>1, <1>3, <2>1, <2>2 DEF Precedes
<1>8. \A i \in 1..n : NodeOK(f[i])
  BY <1>1, <1>3 DEF NodeOK
<1>9. \A i \in less : f[i].parent \in less \cup {0}
  <2> TAKE i \in less
  <2>1. e[i].parent \in left \cup {0} /\ i \in 1..n
    BY <1>1 DEF GraphOK
  <2> QED BY <1>3, <2>1
<1>10. GraphOK(f, less)
  BY <1>1, <1>4, <1>5, <1>7, <1>8, <1>9 DEF GraphOK
<1> QED BY <1>3, <1>6, <1>10 DEF f, n

-----------------------------------------------------------------------------
(* Creation *)

LEMMA BoundedValues ==
  ASSUME NEW n \in Nat, NEW g, \A i \in 1..n : g[i] \in Nat
  PROVE  \E b \in Nat : \A i \in 1..n : g[i] <= b
<1> DEFINE Has(k) == \E b \in Nat : \A i \in 1..k : g[i] <= b
           T == {k \in 0..n : ~Has(k)}
<1>1. Has(0)
  <2>1. \A i \in 1..0 : g[i] <= 0
    OBVIOUS
  <2> QED BY <2>1
<1>2. ASSUME NEW k \in 1..n, Has(k - 1) PROVE Has(k)
  <2>1. PICK b \in Nat : \A i \in 1..(k - 1) : g[i] <= b
    BY <1>2
  <2> DEFINE c == IF g[k] <= b THEN b ELSE g[k]
  <2>2. c \in Nat /\ g[k] <= c /\ b <= c
    OBVIOUS
  <2> HIDE DEF c
  <2>3. \A i \in 1..k : g[i] <= c
    <3> TAKE i \in 1..k
    <3>1. i = k \/ i \in 1..(k - 1)
      OBVIOUS
    <3>2. g[i] \in Nat
      OBVIOUS
    <3> QED BY <2>1, <2>2, <3>1, <3>2
  <2> QED BY <2>2, <2>3
<1> HIDE DEF Has
<1>3. T = {}
  <2>1. SUFFICES ASSUME T # {} PROVE FALSE
    OBVIOUS
  <2>2. T \subseteq Nat
    OBVIOUS
  <2>3. PICK k \in T : \A m \in T : k <= m
    BY <2>1, <2>2, LeastNumber
  <2>4. k \in 1..n
    BY <1>1
  <2>5. k - 1 \notin T /\ k - 1 \in 0..n
    BY <2>3, <2>4
  <2> QED BY <1>2, <2>3, <2>4, <2>5
<1>4. Has(n)
  BY <1>3
<1> QED BY <1>4 DEF Has

(* The next id of a name is above every one that is left of it.            *)
LEMMA NextIsAbove ==
  ASSUME HistoryInv, NEW name
  PROVE  /\ NextChainId(name) \in Nat
         /\ \A i \in live : exps[i].name = name => exps[i].chain < NextChainId(name)
<1> DEFINE n == Len(exps)
           S == {0} \cup {exps[i].chain : i \in {j \in live : exps[j].name = name}}
           g == [i \in 1..n |-> exps[i].chain]
<1>1. n \in Nat /\ live \subseteq 1..n /\ \A i \in 1..n : exps[i].chain \in Nat
  BY ExpsFacts DEF NodeOK
<1>2. \A i \in 1..n : g[i] \in Nat /\ g[i] = exps[i].chain
  BY <1>1
<1> HIDE DEF g
<1>3. PICK b \in Nat : \A i \in 1..n : g[i] <= b
  BY <1>1, <1>2, BoundedValues
<1>4. S \subseteq Nat /\ 0 \in S /\ \A y \in S : y <= b
  BY <1>1, <1>2, <1>3
<1>5. \A i \in live : exps[i].name = name => exps[i].chain \in S
  OBVIOUS
<1> DEFINE B == {c \in Nat : \A y \in S : y <= c}
<1> HIDE DEF S
<1>6. B # {} /\ B \subseteq Nat
  BY <1>4
<1>7. PICK c \in B : \A d \in B : c <= d
  BY <1>6, LeastNumber
<1>8. c \in S
  <2>1. SUFFICES ASSUME c \notin S PROVE FALSE
    OBVIOUS
  <2>2. c # 0 /\ c \in Nat
    BY <1>4, <2>1
  <2>3. c - 1 \in Nat /\ \A y \in S : y <= c - 1
    BY <1>4, <1>7, <2>1, <2>2
  <2>4. c - 1 \in B
    BY <2>3
  <2> QED BY <1>7, <2>2, <2>4
<1>9. Maximum(S) \in S /\ \A y \in S : y <= Maximum(S)
  <2>1. \A y \in S : y <= c
    BY <1>7
  <2> QED BY <1>8, <2>1 DEF Maximum
<1> DEFINE m == Maximum(S)
<1>10. NextChainId(name) = 1 + m
  BY DEF NextChainId, S
<1>11. m \in Nat /\ \A y \in S : y \in Nat /\ y <= m
  BY <1>4, <1>9
<1> HIDE DEF m
<1>12. \A y \in S : y < 1 + m
  BY <1>11
<1> QED BY <1>5, <1>10, <1>11, <1>12

LEMMA TasksGoOn ==
  ASSUME HistoryInv, NEW s \in Session, NEW task, session' = [session EXCEPT ![s] = task],
         NEW e, NEW left, TaskOK(task, e, left),
         \A t \in Session \ {s} : TaskOK(session[t], e, left)
  PROVE  /\ session' = [t \in Session |-> session'[t]]
         /\ \A t \in Session : TaskOK(session'[t], e, left)
<1>1. /\ session' = [t \in Session |-> session'[t]] /\ session'[s] = task
      /\ \A t \in Session \ {s} : session'[t] = session[t]
  BY DEF HistoryInv
<1>2. ASSUME NEW t \in Session PROVE TaskOK(session'[t], e, left)
  <2>1. t = s \/ t \in Session \ {s}
    OBVIOUS
  <2>2. CASE t = s
    <3>1. session'[t] = task
      BY <1>1, <2>2
    <3> QED BY <3>1
  <2>3. CASE t \in Session \ {s}
    <3>1. session'[t] = session[t] /\ TaskOK(session[t], e, left)
      BY <1>1, <2>3
    <3> QED BY <3>1
  <2> QED BY <2>1, <2>2, <2>3
<1> QED BY <1>1, <1>2

(* A step that changes nothing but what one session is at.                 *)
LEMMA ContinueStep ==
  ASSUME HistoryInv, NEW s \in Session, NEW task, Continue(s, task), TaskOK(task, exps, live)
  PROVE  HistoryInv'
<1>1. session' = [session EXCEPT ![s] = task] /\ exps' = exps /\ live' = live
  BY DEF Continue
<1>2. \A t \in Session \ {s} : TaskOK(session[t], exps, live)
  BY DEF HistoryInv
<1>3. /\ session' = [t \in Session |-> session'[t]]
      /\ \A t \in Session : TaskOK(session'[t], exps, live)
  BY <1>1, <1>2, TasksGoOn
<1>4. GraphOK(exps', live') /\ \A t \in Session : TaskOK(session'[t], exps', live')
  BY <1>1, <1>3 DEF HistoryInv
<1> QED BY <1>3, <1>4 DEF HistoryInv

LEMMA BeginStep ==
  ASSUME HistoryInv, NEW s \in Session, NEW name, NEW parent \in live \cup {0},
         BeginCreation(s, name, parent)
  PROVE  HistoryInv'
<1> DEFINE task == [op |-> "create", name |-> name, parent |-> parent,
                    deep |-> Depth(parent), chain |-> NextChainId(name)]
<1>1. /\ task.name = name /\ task.parent = parent /\ task.deep = Depth(parent)
      /\ task.chain = NextChainId(name) /\ Continue(s, task)
  BY DEF BeginCreation
<1> HIDE DEF task
<1>2. /\ GraphOK(exps, live) /\ live \subseteq 1..Len(exps)
      /\ \A i \in 1..Len(exps) : exps[i].deep \in Nat
  BY ExpsFacts DEF HistoryInv, NodeOK
<1>3. Depth(parent) \in Nat
  BY <1>2 DEF Depth
<1>4. ASSUME NEW j \in Above(exps, parent)
      PROVE  j \in live /\ exps[j].deep < Depth(parent)
  <2>1. parent \in live /\ (j = parent \/ j \in AncestorsOf(exps)[parent])
    BY <1>4 DEF Above
  <2>2. j \in live /\ (j = parent \/ exps[j].deep < exps[parent].deep)
    BY <1>2, <2>1 DEF GraphOK, Precedes
  <2>3. exps[j].deep \in Nat /\ exps[parent].deep \in Nat /\ parent # 0
    BY <1>2, <2>1, <2>2
  <2>4. Depth(parent) = exps[parent].deep + 1
    BY <2>3 DEF Depth
  <2> QED BY <2>2, <2>3, <2>4
<1>5. /\ NextChainId(name) \in Nat
      /\ \A i \in live : exps[i].name = name => exps[i].chain < NextChainId(name)
  BY NextIsAbove
<1>6. TaskOK(task, exps, live)
  BY <1>1, <1>3, <1>4, <1>5 DEF TaskOK, Precedes
<1> QED BY <1>1, <1>6, ContinueStep

LEMMA IdleIsOK == \A e, left : TaskOK(Idle, e, left)
  BY DEF TaskOK, Idle

LEMMA CommitStep ==
  ASSUME HistoryInv, NEW s \in Session, CommitCreation(s)
  PROVE  /\ HistoryInv'
         /\ \A i \in 1..Len(exps) : exps'[i] = exps[i]
         /\ live' = live \cup {Len(exps) + 1}
         /\ exps'[Len(exps) + 1].name = session[s].name
         /\ exps'[Len(exps) + 1].chain = session[s].chain
<1> DEFINE t == session[s]
           x == [name |-> t.name, parent |-> t.parent, deep |-> t.deep, chain |-> t.chain]
           f == Append(exps, x)
           more == live \cup {Len(exps) + 1}
<1>1. /\ t.op = "create" /\ exps' = f /\ live' = more
      /\ session' = [session EXCEPT ![s] = Idle]
  BY DEF CommitCreation
<1>2. /\ GraphOK(exps, live) /\ TaskOK(t, exps, live)
      /\ Parents(exps) /\ live \subseteq 1..Len(exps)
  BY DEF HistoryInv, GraphOK
<1>3. /\ x.name = t.name /\ x.parent = t.parent /\ x.deep = t.deep /\ x.chain = t.chain
      /\ DOMAIN x = ExpFields
  BY DEF ExpFields
<1> HIDE DEF t, x
<1>4. NodeOK(x) /\ x.parent \in live \cup {0}
  BY <1>1, <1>2, <1>3 DEF TaskOK, NodeOK
<1>5. \A j \in Above(exps, x.parent) : j \in live /\ Precedes(exps[j], x)
  BY <1>1, <1>2, <1>3 DEF TaskOK, Precedes
<1>6. /\ GraphOK(f, more)
      /\ \A i \in 1..Len(exps) : f[i] = exps[i] /\ AncestorsOf(f)[i] = AncestorsOf(exps)[i]
  BY <1>2, <1>4, <1>5, GraphAppended
<1>7. f[Len(exps) + 1] = x
  BY <1>2, SeqAppended DEF Parents
<1> HIDE DEF f
<1>8. ASSUME NEW r \in Session \ {s} PROVE TaskOK(session[r], f, more)
  <2>1. SUFFICES ASSUME session[r].op = "create"
                 PROVE  /\ session[r].parent \in more \cup {0} /\ session[r].deep \in Nat
                        /\ session[r].chain \in Nat
                        /\ \A j \in Above(f, session[r].parent) :
                             j \in more /\ Precedes(f[j], session[r])
    BY DEF TaskOK
  <2>2. TaskOK(session[r], exps, live)
    BY DEF HistoryInv
  <2>3. /\ session[r].parent \in live \cup {0} /\ session[r].deep \in Nat
        /\ session[r].chain \in Nat
        /\ \A j \in Above(exps, session[r].parent) :
             j \in live /\ Precedes(exps[j], session[r])
    BY <2>1, <2>2 DEF TaskOK
  <2>4. Above(f, session[r].parent) = Above(exps, session[r].parent)
    BY <1>2, <1>6, <2>3 DEF Above
  <2>5. \A j \in Above(f, session[r].parent) : j \in live /\ Precedes(f[j], session[r])
    BY <1>2, <1>6, <2>3, <2>4
  <2> QED BY <2>3, <2>5
<1>9. /\ session' = [r \in Session |-> session'[r]]
      /\ \A r \in Session : TaskOK(session'[r], f, more)
  <2>1. TaskOK(Idle, f, more)
    BY IdleIsOK
  <2> QED BY <1>1, <1>8, <2>1, TasksGoOn
<1>10. HistoryInv'
  BY <1>1, <1>6, <1>9 DEF HistoryInv
<1> QED BY <1>1, <1>3, <1>6, <1>7, <1>10 DEF t

-----------------------------------------------------------------------------
(* Deletion *)

LEMMA DeleteStep ==
  ASSUME HistoryInv, NEW s \in Session, DeleteExperiment(s)
  PROVE  /\ HistoryInv'
         /\ \A i \in 1..Len(exps) : exps'[i].name = exps[i].name /\ exps'[i].chain = exps[i].chain
         /\ live' \subseteq live
<1> DEFINE g == session[s].target
           f == Cut(exps, g)
           less == live \ {g}
<1>1. /\ \A t \in Session : session[t].op = "create" => session[t].parent # g
      /\ exps' = f /\ live' = less /\ session' = [session EXCEPT ![s] = Idle]
  BY DEF DeleteExperiment, Cut, Parent
<1>2. GraphOK(exps, live) /\ live \subseteq 1..Len(exps) /\ Parents(exps)
  BY DEF HistoryInv, GraphOK
<1> HIDE DEF g
<1>3. /\ GraphOK(f, less)
      /\ \A i \in 1..Len(exps) :
           /\ f[i].name = exps[i].name /\ f[i].deep = exps[i].deep /\ f[i].chain = exps[i].chain
           /\ AncestorsOf(f)[i] \subseteq AncestorsOf(exps)[i] \ {g}
  BY <1>2, GraphCut
<1> HIDE DEF f
<1>4. ASSUME NEW r \in Session \ {s} PROVE TaskOK(session[r], f, less)
  <2>1. SUFFICES ASSUME session[r].op = "create"
                 PROVE  /\ session[r].parent \in less \cup {0} /\ session[r].deep \in Nat
                        /\ session[r].chain \in Nat
                        /\ \A j \in Above(f, session[r].parent) :
                             j \in less /\ Precedes(f[j], session[r])
    BY DEF TaskOK
  <2>2. TaskOK(session[r], exps, live)
    BY DEF HistoryInv
  <2>3. /\ session[r].parent \in live \cup {0} /\ session[r].deep \in Nat
        /\ session[r].chain \in Nat
        /\ \A j \in Above(exps, session[r].parent) :
             j \in live /\ Precedes(exps[j], session[r])
    BY <2>1, <2>2 DEF TaskOK
  <2>4. session[r].parent # g
    BY <1>1, <2>1
  <2>5. Above(f, session[r].parent) \subseteq Above(exps, session[r].parent) \ {g}
    BY <1>2, <1>3, <2>3, <2>4 DEF Above
  <2>6. \A j \in Above(f, session[r].parent) : j \in less /\ Precedes(f[j], session[r])
    <3> TAKE j \in Above(f, session[r].parent)
    <3>1. j \in live /\ j # g /\ Precedes(exps[j], session[r])
      BY <2>3, <2>5
    <3> QED BY <1>2, <1>3, <3>1 DEF Precedes
  <2> QED BY <2>3, <2>4, <2>6
<1>5. /\ session' = [r \in Session |-> session'[r]]
      /\ \A r \in Session : TaskOK(session'[r], f, less)
  <2>1. TaskOK(Idle, f, less)
    BY IdleIsOK
  <2> QED BY <1>1, <1>4, <2>1, TasksGoOn
<1>6. HistoryInv'
  BY <1>1, <1>3, <1>5 DEF HistoryInv
<1> QED BY <1>1, <1>3, <1>6

-----------------------------------------------------------------------------
(* The order along the chains *)

LEMMA HistoryStarts == Init => HistoryInv
<1> SUFFICES ASSUME Init PROVE HistoryInv
  OBVIOUS
<1>1. exps = <<>> /\ live = {} /\ session = [s \in Session |-> Idle]
  BY DEF Init
<1>2. IsSequence(exps) /\ Len(exps) = 0
  BY <1>1 DEF IsSequence
<1>3. GraphOK(exps, live)
  BY <1>1, <1>2 DEF GraphOK, Parents
<1>4. \A s \in Session : TaskOK(session[s], exps, live)
  BY <1>1, IdleIsOK
<1> QED BY <1>1, <1>3, <1>4 DEF HistoryInv

LEMMA HistoryStep ==
  ASSUME HistoryInv, [Next]_vars
  PROVE  HistoryInv'
<1>1. CASE UNCHANGED vars
  BY <1>1 DEF vars, HistoryInv
<1>2. CASE Next
  <2>1. PICK s \in Session :
          \/ \E name \in Name, parent \in live \cup {0} : BeginCreation(s, name, parent)
          \/ CommitCreation(s) \/ \E id \in live : CheckDeletable(s, id)
          \/ DeleteExperiment(s) \/ Abandon(s)
    BY <1>2 DEF Next
  <2>2. CASE \E name \in Name, parent \in live \cup {0} : BeginCreation(s, name, parent)
    BY <2>2, BeginStep
  <2>3. CASE CommitCreation(s)
    BY <2>3, CommitStep
  <2>4. CASE \E id \in live : CheckDeletable(s, id)
    <3>1. PICK id \in live : CheckDeletable(s, id)
      BY <2>4
    <3> DEFINE task == [op |-> "delete", target |-> id]
    <3>2. Continue(s, task) /\ task.op = "delete"
      BY <3>1 DEF CheckDeletable
    <3> HIDE DEF task
    <3>3. TaskOK(task, exps, live)
      BY <3>2 DEF TaskOK
    <3> QED BY <3>2, <3>3, ContinueStep
  <2>5. CASE DeleteExperiment(s)
    BY <2>5, DeleteStep
  <2>6. CASE Abandon(s)
    <3>1. Continue(s, Idle) /\ TaskOK(Idle, exps, live)
      BY <2>6, IdleIsOK DEF Abandon
    <3> QED BY <3>1, ContinueStep
  <2> QED BY <2>1, <2>2, <2>3, <2>4, <2>5, <2>6
<1> QED BY <1>1, <1>2

LEMMA HistoryInvariance == Spec => []HistoryInv
<1>1. Init => HistoryInv
  BY HistoryStarts
<1>2. HistoryInv /\ [Next]_vars => HistoryInv'
  BY HistoryStep
<1> QED BY <1>1, <1>2, PTL DEF Spec

(* deep and chain_id grow along every chain, whatever was deleted          *)
(* (02-triggers.cypher:30-67, experiment_repository.py:439-478).           *)
THEOREM ChainsOrdered == Spec => []OrderedAlongChains
<1>1. HistoryInv => OrderedAlongChains
  <2> SUFFICES ASSUME HistoryInv, NEW j \in live, NEW i \in Ancestors[j]
               PROVE  /\ exps[i].deep < exps[j].deep
                      /\ exps[i].name = exps[j].name => exps[i].chain < exps[j].chain
    BY DEF OrderedAlongChains
  <2>1. GraphOK(exps, live) /\ i \in AncestorsOf(exps)[j]
    BY Walks DEF HistoryInv
  <2> QED BY <2>1 DEF GraphOK, Precedes
<1> QED BY <1>1, HistoryInvariance, PTL

-----------------------------------------------------------------------------
(* How many experiments of a name share an id *)

HoldersOf(e, left, name, chain) == {j \in left : e[j].name = name /\ e[j].chain = chain}

MakersOf(tasks, name, chain) ==
  {s \in Session : /\ tasks[s].op = "create"
                   /\ tasks[s].name = name /\ tasks[s].chain = chain}

FewHold(e, left, tasks) ==
  \A name, chain : Cardinality(HoldersOf(e, left, name, chain))
                     + Cardinality(MakersOf(tasks, name, chain)) <= Cardinality(Session)

LEMMA LiveFinite ==
  ASSUME HistoryInv
  PROVE  IsFiniteSet(live)
<1>1. live \subseteq 1..Len(exps) /\ Len(exps) \in Nat
  BY ExpsFacts
<1>2. IsFiniteSet(1..Len(exps))
  BY <1>1, FS_Interval
<1> QED BY <1>1, <1>2, FS_Subset

LEMMA FewerHold ==
  ASSUME IsFiniteSet(Session), NEW e, NEW left, IsFiniteSet(left), NEW tasks, NEW f, NEW left2,
         NEW tasks2, NEW name, NEW chain,
         Cardinality(HoldersOf(e, left, name, chain))
           + Cardinality(MakersOf(tasks, name, chain)) <= Cardinality(Session),
         HoldersOf(f, left2, name, chain) \subseteq HoldersOf(e, left, name, chain),
         MakersOf(tasks2, name, chain) \subseteq MakersOf(tasks, name, chain)
  PROVE  Cardinality(HoldersOf(f, left2, name, chain))
           + Cardinality(MakersOf(tasks2, name, chain)) <= Cardinality(Session)
<1> DEFINE H == HoldersOf(e, left, name, chain)
           M == MakersOf(tasks, name, chain)
           H2 == HoldersOf(f, left2, name, chain)
           M2 == MakersOf(tasks2, name, chain)
<1>1. H \subseteq left /\ M \subseteq Session
  BY DEF HoldersOf, MakersOf
<1> HIDE DEF H, M, H2, M2
<1>2. IsFiniteSet(H) /\ IsFiniteSet(M)
  BY <1>1, FS_Subset
<1>3. H2 \subseteq H /\ M2 \subseteq M
  BY DEF H, M, H2, M2
<1>4. /\ IsFiniteSet(H2) /\ Cardinality(H2) <= Cardinality(H)
      /\ IsFiniteSet(M2) /\ Cardinality(M2) <= Cardinality(M)
  BY <1>2, <1>3, FS_Subset
<1>5. /\ Cardinality(H) \in Nat /\ Cardinality(M) \in Nat /\ Cardinality(Session) \in Nat
      /\ Cardinality(H2) \in Nat /\ Cardinality(M2) \in Nat
  BY <1>2, <1>4, FS_CardinalityType
<1>6. Cardinality(H) + Cardinality(M) <= Cardinality(Session)
  BY DEF H, M
<1>7. Cardinality(H2) + Cardinality(M2) <= Cardinality(Session)
  BY <1>4, <1>5, <1>6
<1> QED BY <1>7 DEF H2, M2


(* Every step but those of a creation.                                     *)
LEMMA NoneCreated ==
  ASSUME HistoryInv, FewHold(exps, live, session), IsFiniteSet(Session),
         NEW s \in Session, NEW task, session' = [session EXCEPT ![s] = task],
         task.op # "create", live' \subseteq live,
         \A i \in 1..Len(exps) : exps'[i].name = exps[i].name /\ exps'[i].chain = exps[i].chain
  PROVE  FewHold(exps', live', session')
<1>1. live \subseteq 1..Len(exps) /\ IsFiniteSet(live)
  BY ExpsFacts, LiveFinite
<1>2. \A t \in Session : session'[t].op = "create" => session'[t] = session[t]
  BY DEF HistoryInv
<1> SUFFICES ASSUME NEW name, NEW chain
             PROVE  Cardinality(HoldersOf(exps', live', name, chain))
                      + Cardinality(MakersOf(session', name, chain)) <= Cardinality(Session)
  BY DEF FewHold
<1> DEFINE f == exps'
           left2 == live'
           tasks2 == session'
<1>3. HoldersOf(f, left2, name, chain) \subseteq HoldersOf(exps, live, name, chain)
  BY <1>1 DEF HoldersOf
<1>4. MakersOf(tasks2, name, chain) \subseteq MakersOf(session, name, chain)
  BY <1>2 DEF MakersOf
<1>5. Cardinality(HoldersOf(exps, live, name, chain))
        + Cardinality(MakersOf(session, name, chain)) <= Cardinality(Session)
  BY DEF FewHold
<1> HIDE DEF f, left2, tasks2
<1>6. Cardinality(HoldersOf(f, left2, name, chain))
        + Cardinality(MakersOf(tasks2, name, chain)) <= Cardinality(Session)
  BY <1>1, <1>3, <1>4, <1>5, FewerHold
<1> QED BY <1>6 DEF f, left2, tasks2

LEMMA BeginHold ==
  ASSUME HistoryInv, FewHold(exps, live, session), IsFiniteSet(Session),
         NEW s \in Session, NEW name, NEW parent \in live \cup {0},
         BeginCreation(s, name, parent)
  PROVE  FewHold(exps', live', session')
<1>1. /\ session'[s].name = name /\ session'[s].chain = NextChainId(name)
      /\ \A t \in Session \ {s} : session'[t] = session[t]
      /\ UNCHANGED <<exps, live>>
  BY DEF BeginCreation, Continue, HistoryInv
<1>2. live \subseteq 1..Len(exps) /\ Len(exps) \in Nat
  BY ExpsFacts
<1>3. IsFiniteSet(live)
  BY LiveFinite
<1> SUFFICES ASSUME NEW nm, NEW chain
             PROVE  Cardinality(HoldersOf(exps, live, nm, chain))
                      + Cardinality(MakersOf(session', nm, chain)) <= Cardinality(Session)
  BY <1>1 DEF FewHold
<1> DEFINE tasks2 == session'
<1>4. CASE nm = name /\ chain = NextChainId(name)
  <2>1. HoldersOf(exps, live, nm, chain) = {}
    <3>1. \A i \in live : exps[i].name = name => exps[i].chain # NextChainId(name)
      <4> TAKE i \in live
      <4>1. exps[i].chain \in Nat
        BY ExpsFacts DEF NodeOK
      <4> QED BY <4>1, NextIsAbove
    <3> QED BY <1>4, <3>1 DEF HoldersOf
  <2>2. MakersOf(tasks2, nm, chain) \subseteq Session
    BY DEF MakersOf
  <2>3. Cardinality({}) = 0
    BY FS_EmptySet
  <2> HIDE DEF tasks2
  <2>4. /\ Cardinality(MakersOf(tasks2, nm, chain)) <= Cardinality(Session)
        /\ Cardinality(MakersOf(tasks2, nm, chain)) \in Nat
    BY <2>2, FS_Subset, FS_CardinalityType
  <2>5. Cardinality(HoldersOf(exps, live, nm, chain))
          + Cardinality(MakersOf(tasks2, nm, chain)) <= Cardinality(Session)
    BY <2>1, <2>3, <2>4
  <2> QED BY <2>5 DEF tasks2
<1>5. CASE ~(nm = name /\ chain = NextChainId(name))
  <2>1. MakersOf(tasks2, nm, chain) \subseteq MakersOf(session, nm, chain)
    BY <1>1, <1>5 DEF MakersOf
  <2>2. Cardinality(HoldersOf(exps, live, nm, chain))
          + Cardinality(MakersOf(session, nm, chain)) <= Cardinality(Session)
    BY DEF FewHold
  <2> HIDE DEF tasks2
  <2>3. Cardinality(HoldersOf(exps, live, nm, chain))
          + Cardinality(MakersOf(tasks2, nm, chain)) <= Cardinality(Session)
    BY <1>3, <2>1, <2>2, FewerHold
  <2> QED BY <2>3 DEF tasks2
<1> QED BY <1>4, <1>5

LEMMA CommitHold ==
  ASSUME HistoryInv, FewHold(exps, live, session), IsFiniteSet(Session),
         NEW s \in Session, CommitCreation(s)
  PROVE  FewHold(exps', live', session')
<1> DEFINE n == Len(exps)
           task == session[s]
           f == exps'
           left2 == live'
           tasks2 == session'
<1>1. /\ task.op = "create" /\ left2 = live \cup {n + 1}
      /\ f[n + 1].name = task.name /\ f[n + 1].chain = task.chain
      /\ \A i \in 1..n : f[i].name = exps[i].name /\ f[i].chain = exps[i].chain
  BY CommitStep DEF CommitCreation
<1>2. tasks2[s].op # "create" /\ \A t \in Session \ {s} : tasks2[t] = session[t]
  BY DEF CommitCreation, HistoryInv, Idle
<1>4. live \subseteq 1..n /\ n \in Nat /\ n + 1 \notin live
  BY ExpsFacts
<1>5. IsFiniteSet(live)
  BY LiveFinite
<1> SUFFICES ASSUME NEW name, NEW chain
             PROVE  Cardinality(HoldersOf(f, left2, name, chain))
                      + Cardinality(MakersOf(tasks2, name, chain)) <= Cardinality(Session)
  BY DEF FewHold
<1> DEFINE H == HoldersOf(exps, live, name, chain)
           M == MakersOf(session, name, chain)
           H2 == HoldersOf(f, left2, name, chain)
           M2 == MakersOf(tasks2, name, chain)
<1>6. Cardinality(H) + Cardinality(M) <= Cardinality(Session)
  BY DEF FewHold
<1>7. CASE task.name = name /\ task.chain = chain
  <2>1. H2 = H \cup {n + 1} /\ n + 1 \notin H
    BY <1>1, <1>4, <1>7 DEF HoldersOf
  <2>2. M2 \subseteq M \ {s} /\ s \in M
    BY <1>1, <1>2, <1>7 DEF MakersOf
  <2>3. H \subseteq live /\ M \subseteq Session
    BY DEF HoldersOf, MakersOf
  <2> HIDE DEF H, M, H2, M2
  <2>4. IsFiniteSet(H) /\ IsFiniteSet(M)
    BY <1>5, <2>3, FS_Subset
  <2>5. Cardinality(H2) = Cardinality(H) + 1
    BY <2>1, <2>4, FS_AddElement
  <2>6. IsFiniteSet(M \ {s}) /\ Cardinality(M \ {s}) = Cardinality(M) - 1
    BY <2>2, <2>4, FS_RemoveElement
  <2>7. IsFiniteSet(M2) /\ Cardinality(M2) <= Cardinality(M \ {s})
    BY <2>2, <2>6, FS_Subset
  <2>8. /\ Cardinality(H) \in Nat /\ Cardinality(M) \in Nat /\ Cardinality(M2) \in Nat
        /\ Cardinality(Session) \in Nat
    BY <2>4, <2>7, FS_CardinalityType
  <2>9. Cardinality(H2) + Cardinality(M2) <= Cardinality(Session)
    BY <1>6, <2>5, <2>6, <2>7, <2>8
  <2> QED BY <2>9 DEF H2, M2
<1>8. CASE ~(task.name = name /\ task.chain = chain)
  <2>1. H2 \subseteq H
    BY <1>1, <1>4, <1>8 DEF HoldersOf
  <2>2. M2 \subseteq M
    BY <1>2 DEF MakersOf
  <2> HIDE DEF f, left2, tasks2
  <2> QED BY <1>5, <1>6, <2>1, <2>2, FewerHold
<1> QED BY <1>7, <1>8

(* What a session is at that does not begin a creation.                    *)
LEMMA HoldStep ==
  ASSUME HistoryInv, FewHold(exps, live, session), IsFiniteSet(Session), [Next]_vars
  PROVE  FewHold(exps', live', session')
<1>1. CASE UNCHANGED vars
  BY <1>1 DEF vars, FewHold
<1>2. CASE Next
  <2>1. PICK s \in Session :
          \/ \E name \in Name, parent \in live \cup {0} : BeginCreation(s, name, parent)
          \/ CommitCreation(s) \/ \E id \in live : CheckDeletable(s, id)
          \/ DeleteExperiment(s) \/ Abandon(s)
    BY <1>2 DEF Next
  <2>2. CASE \E name \in Name, parent \in live \cup {0} : BeginCreation(s, name, parent)
    BY <2>2, BeginHold
  <2>3. CASE CommitCreation(s)
    BY <2>3, CommitHold
  <2>4. Idle.op # "create"
    BY DEF Idle
  <2>5. CASE \E id \in live : CheckDeletable(s, id)
    <3>1. PICK id \in live : CheckDeletable(s, id)
      BY <2>5
    <3> DEFINE task == [op |-> "delete", target |-> id]
    <3>2. /\ session' = [session EXCEPT ![s] = task] /\ task.op # "create"
          /\ live' = live /\ exps' = exps
      BY <3>1 DEF CheckDeletable, Continue
    <3> HIDE DEF task
    <3> QED BY <3>2, NoneCreated
  <2>6. CASE DeleteExperiment(s)
    <3>1. session' = [session EXCEPT ![s] = Idle]
      BY <2>6 DEF DeleteExperiment
    <3> QED BY <2>4, <2>6, <3>1, DeleteStep, NoneCreated
  <2>7. CASE Abandon(s)
    <3>1. session' = [session EXCEPT ![s] = Idle] /\ live' = live /\ exps' = exps
      BY <2>7 DEF Abandon, Continue
    <3> QED BY <2>4, <3>1, NoneCreated
  <2> QED BY <2>1, <2>2, <2>3, <2>5, <2>6, <2>7
<1> QED BY <1>1, <1>2

(* No more experiments share a name and a chain_id than there are sessions *)
(* to create them at a time (02-triggers.cypher:30-47).                    *)
THEOREM ClashesBounded ==
  ASSUME IsFiniteSet(Session)
  PROVE  Spec => []ClashBounded
<1> DEFINE Inv == HistoryInv /\ FewHold(exps, live, session)
<1>1. Init => Inv
  <2> SUFFICES ASSUME Init PROVE FewHold(exps, live, session)
    BY HistoryStarts
  <2> SUFFICES ASSUME NEW name, NEW chain
               PROVE  Cardinality(HoldersOf(exps, live, name, chain))
                        + Cardinality(MakersOf(session, name, chain)) <= Cardinality(Session)
    BY DEF FewHold
  <2>1. HoldersOf(exps, live, name, chain) = {} /\ MakersOf(session, name, chain) = {}
    BY DEF Init, HoldersOf, MakersOf, Idle
  <2>2. Cardinality({}) = 0 /\ Cardinality(Session) \in Nat
    BY FS_EmptySet, FS_CardinalityType
  <2> QED BY <2>1, <2>2
<1>2. Inv /\ [Next]_vars => Inv'
  BY HistoryStep, HoldStep
<1>3. Inv => ClashBounded
  <2> SUFFICES ASSUME Inv, NEW i \in live
               PROVE  Cardinality({j \in live : /\ exps[j].name = exps[i].name
                                                /\ exps[j].chain = exps[i].chain})
                        <= Cardinality(Session)
    BY DEF ClashBounded
  <2> DEFINE H == HoldersOf(exps, live, exps[i].name, exps[i].chain)
             M == MakersOf(session, exps[i].name, exps[i].chain)
  <2>1. Cardinality(H) + Cardinality(M) <= Cardinality(Session)
    BY DEF FewHold
  <2>2. H \subseteq live /\ M \subseteq Session
    BY DEF HoldersOf, MakersOf
  <2>3. H = {j \in live : exps[j].name = exps[i].name /\ exps[j].chain = exps[i].chain}
    BY DEF HoldersOf
  <2> HIDE DEF H, M
  <2>4. IsFiniteSet(H) /\ IsFiniteSet(M)
    BY <2>2, LiveFinite, FS_Subset
  <2>5. Cardinality(H) \in Nat /\ Cardinality(M) \in Nat /\ Cardinality(Session) \in Nat
    BY <2>4, FS_CardinalityType
  <2>6. Cardinality(H) <= Cardinality(Session)
    BY <2>1, <2>5
  <2> QED BY <2>3, <2>6
<1> QED BY <1>1, <1>2, <1>3, PTL DEF Spec
=============================================================================
