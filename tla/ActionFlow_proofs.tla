--------------------------- MODULE ActionFlow_proofs ---------------------------
(***************************************************************************)
(* The refs of every published screen and the fate of every command, for   *)
(* any screens and commands.  Reconcile and Carried are recursive, so what *)
(* they yield is proved by induction over the candidates and the refs of   *)
(* the screen before; LeastElement and Recursion, which are about sets of  *)
(* numbers and functions only, take the place of an induction rule.        *)
(***************************************************************************)
EXTENDS ActionFlow, FiniteSetTheorems, SequenceTheorems, TLAPS

-----------------------------------------------------------------------------
(* Induction *)

\* A set of natural numbers that is not empty has a least element.  With it an induction
\* is the proof that the numbers for which a statement fails have no least one.
LEMMA LeastElement ==
    ASSUME NEW T, T \subseteq Nat, T # {}
    PROVE  \E m \in T : \A k \in T : m <= k
<1> SUFFICES ASSUME \A m \in T : \E k \in T : k < m
             PROVE  FALSE
  OBVIOUS
<1>1. PICK n \in T : TRUE
  OBVIOUS
<1> DEFINE U == {k \in 0 .. n : \E j \in T : j <= k}
           down == [k \in U |-> k - 1]
<1>2. IsFiniteSet(U) /\ n \in U
  <2>1. IsFiniteSet(0 .. n) /\ U \in SUBSET (0 .. n)
    BY FS_Interval
  <2> QED  BY <2>1, FS_Subset
<1>3. IsFiniteSet(U \ {n}) /\ Cardinality(U \ {n}) = Cardinality(U) - 1 /\ Cardinality(U) \in Nat
  <2> HIDE DEF U
  <2> QED  BY <1>2, FS_RemoveElement, FS_CardinalityType
<1>4. down \in Injection(U, U \ {n})
  <2>1. \A k \in U : k - 1 \in U \ {n}
    OBVIOUS
  <2>2. \A k \in U : k \in Int
    OBVIOUS
  <2> HIDE DEF U
  <2> QED  BY <2>1, <2>2 DEF Injection, IsInjective
<1> HIDE DEF U, down
<1>5. Cardinality(U) <= Cardinality(U \ {n})
  BY <1>3, <1>4, FS_Injection
<1> QED  BY <1>3, <1>5

\* f starts with a and takes one step after the other, none of which leaves V.
StepsIn(V, step) == \A k \in Nat : \A v \in V : step[k][v] \in V
Iterates(V, a, step, f) ==
    /\ f \in [Nat -> V]
    /\ f[0] = a
    /\ \A k \in Nat : f[k + 1] = step[k][f[k]]

\* Recursive functions exist: values can be chosen step by step, each from the one before.
LEMMA Recursion ==
    ASSUME NEW V, NEW a \in V, NEW step, StepsIn(V, step)
    PROVE  \E f : Iterates(V, a, step, f)
<1> USE DEF StepsIn
<1> DEFINE P(n, g) == /\ g \in [0 .. n -> V]
                      /\ g[0] = a
                      /\ \A k \in 0 .. n - 1 : g[k + 1] = step[k][g[k]]
           Runs == {n \in Nat : \E g : P(n, g)}
<1>1. ASSUME NEW n \in Nat PROVE n \in Runs
  <2> SUFFICES ASSUME Nat \ Runs # {} PROVE FALSE
    OBVIOUS
  <2>1. PICK m \in Nat \ Runs : \A k \in Nat \ Runs : m <= k
    <3> HIDE DEF Runs
    <3> QED  BY LeastElement, Nat \ Runs \subseteq Nat
  <2>2. 0 \in Runs
    <3>1. P(0, [k \in 0 .. 0 |-> a])
      OBVIOUS
    <3> QED  BY <3>1
  <2>3. m - 1 \in Runs
    <3> HIDE DEF Runs
    <3> QED  BY <2>1, <2>2
  <2>4. PICK g : P(m - 1, g)
    BY <2>3
  <2> DEFINE h == [k \in 0 .. m |-> IF k = m THEN step[m - 1][g[m - 1]] ELSE g[k]]
  <2>5. m \in Nat /\ m - 1 \in Nat
    BY <2>1, <2>2, <2>3
  <2>6. step[m - 1][g[m - 1]] \in V
    BY <2>4, <2>5
  <2>7. h \in [0 .. m -> V]
    BY <2>4, <2>5, <2>6
  <2>8. h[0] = a
    BY <2>4, <2>5
  <2>9. ASSUME NEW k \in 0 .. m - 1 PROVE h[k + 1] = step[k][h[k]]
    <3>1. h[k] = g[k]
      BY <2>5
    <3>2. CASE k = m - 1
      <4>1. h[m] = step[m - 1][g[m - 1]]
        BY <2>5
      <4>2. k + 1 = m /\ h[k] = g[m - 1]
        BY <2>5, <3>1, <3>2
      <4> HIDE DEF h
      <4> QED  BY <4>1, <4>2, <3>2
    <3>3. CASE k # m - 1
      BY <2>5, <3>1, <3>3, <2>4
    <3> QED  BY <3>2, <3>3
  <2>10. P(m, h)
    <3> HIDE DEF h
    <3> QED  BY <2>7, <2>8, <2>9
  <2>11. m \in Runs
    <3> HIDE DEF h
    <3> QED  BY <2>5, <2>10
  <2> QED  BY <2>1, <2>11
<1>2. ASSUME NEW n \in Nat, NEW g, NEW h, P(n, g), P(n + 1, h)
      PROVE  g[n] = h[n]
  <2> DEFINE T == {k \in Nat : k <= n /\ g[k] # h[k]}
  <2> SUFFICES ASSUME T # {} PROVE FALSE
    OBVIOUS
  <2>1. PICK m \in T : \A k \in T : m <= k
    <3>1. T \subseteq Nat
      OBVIOUS
    <3> HIDE DEF T
    <3> QED  BY <3>1, LeastElement
  <2>2. m \in Nat /\ m <= n /\ g[m] # h[m]
    OBVIOUS
  <2>3. m # 0
    BY <1>2, <2>2
  <2>4. m - 1 \in Nat /\ m - 1 \notin T
    <3> HIDE DEF T
    <3> QED  BY <2>1, <2>2, <2>3
  <2>5. g[m - 1] = h[m - 1]
    BY <2>2, <2>4
  <2>6. g[(m - 1) + 1] = step[m - 1][g[m - 1]] /\ h[(m - 1) + 1] = step[m - 1][h[m - 1]]
    BY <1>2, <2>2, <2>3
  <2> QED  BY <2>2, <2>5, <2>6
<1> DEFINE G(n) == CHOOSE g : P(n, g)
           f == [n \in Nat |-> G(n)[n]]
<1>3. ASSUME NEW n \in Nat PROVE P(n, G(n))
  <2>1. \E g : P(n, g)
    BY <1>1
  <2> QED  BY <2>1, Zenon
<1> HIDE DEF G
<1>4. ASSUME NEW n \in Nat PROVE f[n + 1] = step[n][f[n]]
  <2>1. G(n + 1)[n + 1] = step[n][G(n + 1)[n]]
    <3>1. P(n + 1, G(n + 1))
      BY <1>3
    <3> QED  BY <3>1
  <2>2. G(n)[n] = G(n + 1)[n]
    <3>1. P(n, G(n)) /\ P(n + 1, G(n + 1))
      BY <1>3
    <3> HIDE DEF P
    <3> QED  BY <3>1, <1>2
  <2> QED  BY <2>1, <2>2
<1>5. f \in [Nat -> V] /\ f[0] = a
  <2>1. ASSUME NEW n \in Nat PROVE G(n)[n] \in V
    <3>1. P(n, G(n))
      BY <1>3
    <3> QED  BY <3>1
  <2>2. G(0)[0] = a
    <3>1. P(0, G(0))
      BY <1>3
    <3> QED  BY <3>1
  <2> QED  BY <2>1, <2>2
<1> HIDE DEF f
<1>6. Iterates(V, a, step, f)
  BY <1>4, <1>5 DEF Iterates
<1> QED  BY <1>6

-----------------------------------------------------------------------------
(* Refs *)

\* Finite sets of ref numbers, and the functions from such a set to candidates.
RefSets == UNION {SUBSET (1 .. b) : b \in Nat}
Rids(nodes) == {n.rid : n \in ToSet(nodes)}
Bindings(nodes) == UNION {[D -> Rids(nodes)] : D \in RefSets}
OneToOne(refs) == \A r, q \in DOMAIN refs : refs[r] = refs[q] => r = q

\* rid is that of a candidate that matches the description.
Matched(nodes, d, rid) == \E n \in ToSet(nodes) : n.rid = rid /\ Matches(d, Description(n))

\* The largest number of a finite set of refs, 0 for none, as Carried counts up to it.
LEMMA MaxOfRefs ==
    ASSUME NEW D \in RefSets
    PROVE  /\ Max(D \cup {0}) \in Nat
           /\ Max(D \cup {0}) \in D \cup {0}
           /\ \A r \in D : r <= Max(D \cup {0})
<1>1. PICK b \in Nat : D \subseteq 1 .. b
  BY DEF RefSets
<1> DEFINE S == D \cup {0}
           T == {k \in Nat : \A r \in S : r <= k}
<1>2. S \subseteq Nat /\ b \in T /\ T \subseteq Nat
  BY <1>1
<1>3. PICK m \in T : \A k \in T : m <= k
  <2> HIDE DEF T
  <2> QED  BY <1>2, LeastElement
<1>4. m \in S
  <2> SUFFICES ASSUME m \notin S PROVE FALSE
    OBVIOUS
  <2>1. m \in Nat /\ \A r \in S : r <= m
    OBVIOUS
  <2>2. m # 0 /\ \A r \in S : r <= m - 1
    BY <1>2, <2>1
  <2>3. m - 1 \in T
    BY <2>1, <2>2
  <2> HIDE DEF T
  <2> QED  BY <1>3, <2>1, <2>3
<1>5. \A r \in S : m >= r
  BY <1>2
<1> DEFINE x == Max(S)
<1>6. x \in S /\ \A r \in S : x >= r
  <2> HIDE DEF S
  <2> QED  BY <1>4, <1>5 DEF Max
<1> HIDE DEF x
<1>7. x \in Nat /\ x \in D \cup {0} /\ \A r \in D : r <= x
  BY <1>2, <1>6
<1> QED  BY <1>7 DEF x

\* The number that FreeRef chooses exists, is a ref number and is not in use.
LEMMA FreeRefIsFree ==
    ASSUME NEW refs, DOMAIN refs \in RefSets
    PROVE  /\ FreeRef(refs) \in Nat \ {0}
           /\ FreeRef(refs) \notin DOMAIN refs
<1> DEFINE D == DOMAIN refs
           T == {k \in Nat : k # 0 /\ k \notin D}
<1>1. PICK b \in Nat : D \subseteq 1 .. b
  BY DEF RefSets
<1>2. b + 1 \in T /\ T \subseteq Nat
  BY <1>1
<1>3. PICK m \in T : \A k \in T : m <= k
  <2> HIDE DEF T
  <2> QED  BY <1>2, LeastElement
<1>4. m \in Nat /\ m # 0 /\ m \notin D /\ 1 .. m - 1 \subseteq D
  <2>1. \A k \in 1 .. m - 1 : k \notin T
    <3> HIDE DEF T
    <3> QED  BY <1>2, <1>3
  <2> QED  BY <2>1
<1>5. IsFiniteSet(D) /\ Cardinality(D) \in Nat
  <2>1. IsFiniteSet(1 .. b)
    BY FS_Interval
  <2> HIDE DEF D
  <2> QED  BY <1>1, <2>1, FS_Subset, FS_CardinalityType
<1>6. Cardinality(1 .. m - 1) = m - 1
  BY <1>4, FS_Interval
<1>7. Cardinality(1 .. m - 1) <= Cardinality(D)
  BY <1>4, <1>5, FS_Subset
<1>8. m \in 1 .. Cardinality(D) + 1
  BY <1>4, <1>5, <1>6, <1>7
<1> HIDE DEF T
<1>9. /\ FreeRef(refs) \in 1 .. Cardinality(D) + 1
      /\ FreeRef(refs) \notin D
  BY <1>4, <1>8 DEF FreeRef
<1> QED  BY <1>5, <1>9

\* What Best finds for a description is a candidate that matches it.
LEMMA BestMatches ==
    ASSUME NEW d, NEW nodes, Best(d, nodes) # 0
    PROVE  \E n \in nodes : n.rid = Best(d, nodes) /\ Matches(d, Description(n))
<1> DEFINE high == Confirmed(d, nodes)
           clear == {x \in high : \A y \in high \ {x} : Beats(x[2], y[2])}
<1>1. Best(d, nodes) = IF clear = {} THEN 0 ELSE (CHOOSE x \in clear : TRUE)[1].rid
  BY DEF Best, With
<1>2. PICK x \in clear : Best(d, nodes) = x[1].rid
  <2> HIDE DEF clear
  <2> QED  BY <1>1
<1>3. x \in Confirmed(d, nodes)
  OBVIOUS
<1>4. PICK n \in nodes : x = <<n, Evidence(d, Description(n))>>
  BY <1>3 DEF Confirmed
<1>5. x[1] = n /\ x[2] = Evidence(d, Description(n))
  BY <1>4
<1>6. x[1].role = d.role /\ Confident(x[2])
  BY <1>3 DEF Confirmed
<1>7. Description(n).role = n.role
  BY DEF Description
<1> QED  BY <1>2, <1>5, <1>6, <1>7 DEF Matches

\* No refs at all are bindings of any screen.
LEMMA EmptyRefs ==
    ASSUME NEW nodes
    PROVE  /\ NoRefs \in Bindings(nodes)
           /\ DOMAIN NoRefs = {}
<1>1. <<>> \in [{} -> Rids(nodes)] /\ DOMAIN <<>> = {}
  OBVIOUS
<1>2. {} \in RefSets
  BY DEF RefSets
<1> QED  BY <1>1, <1>2 DEF NoRefs, Bindings

\* Bindings are a function from finitely many ref numbers to candidates.
LEMMA BindingsHaveRefs ==
    ASSUME NEW nodes, NEW refs \in Bindings(nodes)
    PROVE  /\ DOMAIN refs \in RefSets
           /\ refs \in [DOMAIN refs -> Rids(nodes)]
BY DEF Bindings

\* One more ref for a candidate makes bindings of bindings.
LEMMA BindRefType ==
    ASSUME NEW nodes, NEW refs \in Bindings(nodes), NEW k \in Nat \ {0}, NEW rid \in Rids(nodes)
    PROVE  /\ BindRef(refs, k, rid) \in Bindings(nodes)
           /\ DOMAIN BindRef(refs, k, rid) = DOMAIN refs \cup {k}
<1> DEFINE D == DOMAIN refs
           next == BindRef(refs, k, rid)
<1>1. D \in RefSets /\ refs \in [D -> Rids(nodes)]
  BY BindingsHaveRefs
<1>2. PICK b \in Nat : D \subseteq 1 .. b
  BY <1>1 DEF RefSets
<1>3. D \cup {k} \in RefSets
  <2>1. CASE k <= b
    BY <1>2, <2>1 DEF RefSets
  <2>2. CASE k > b
    <3>1. D \cup {k} \subseteq 1 .. k
      BY <1>2, <2>2
    <3> HIDE DEF D
    <3> QED  BY <3>1 DEF RefSets
  <2> QED  BY <1>2, <2>1, <2>2
<1>4. next = [r \in D \cup {k} |-> IF r = k THEN rid ELSE refs[r]]
  BY DEF BindRef
<1> HIDE DEF next
<1>5. next \in [D \cup {k} -> Rids(nodes)]
  BY <1>1, <1>4
<1> QED  BY <1>3, <1>5 DEF Bindings, next

\* A new ref for a candidate without one leaves one ref for each.
LEMMA BindRefBinds ==
    ASSUME NEW refs, NEW k, NEW rid, k \notin DOMAIN refs, rid \notin Bound(refs), OneToOne(refs)
    PROVE  /\ Bound(BindRef(refs, k, rid)) = Bound(refs) \cup {rid}
           /\ OneToOne(BindRef(refs, k, rid))
<1> DEFINE next == BindRef(refs, k, rid)
<1>1. /\ DOMAIN next = DOMAIN refs \cup {k}
      /\ next[k] = rid
      /\ \A r \in DOMAIN refs : next[r] = refs[r]
  BY DEF BindRef
<1> HIDE DEF next
<1>2. Bound(next) = Bound(refs) \cup {rid}
  BY <1>1 DEF Bound
<1>3. OneToOne(next)
  BY <1>1 DEF Bound, OneToOne
<1> QED  BY <1>2, <1>3 DEF next

\* What Best finds among the candidates that remain is one of them, has no ref yet and
\* matches.
LEMMA BestRemains ==
    ASSUME NEW d, NEW nodes, NEW refs, Best(d, Remaining(ToSet(nodes), refs)) # 0
    PROVE  /\ Best(d, Remaining(ToSet(nodes), refs)) \in Rids(nodes)
           /\ Best(d, Remaining(ToSet(nodes), refs)) \notin Bound(refs)
           /\ Matched(nodes, d, Best(d, Remaining(ToSet(nodes), refs)))
BY BestMatches DEF Rids, Remaining, Matched

\* The refs that are carried over, as the last value of a run that takes the refs of the
\* screen before one by one.
LEMMA CarriedRuns ==
    ASSUME NEW nodes, NEW previous
    PROVE  \E run :
               /\ run[0] = NoRefs
               /\ \A k \in Nat : run[k + 1] = Carry(nodes, previous, k + 1, run[k])
               /\ Carried(nodes, previous) = run[Max(DOMAIN previous \cup {0})]
<1> DEFINE def(f) == [k \in Nat |-> IF k = 0 THEN NoRefs ELSE Carry(nodes, previous, k, f[k - 1])]
           upTo == CHOOSE f : f = def(f)
           step == [k \in Nat |-> [v \in Bindings(nodes) |-> Carry(nodes, previous, k + 1, v)]]
<1>1. Carried(nodes, previous) = upTo[Max(DOMAIN previous \cup {0})]
  BY DEF Carried
<1>2. \A k \in Nat, v \in Bindings(nodes) : Carry(nodes, previous, k + 1, v) \in Bindings(nodes)
  <2> SUFFICES ASSUME NEW k \in Nat, NEW v \in Bindings(nodes)
               PROVE  Carry(nodes, previous, k + 1, v) \in Bindings(nodes)
    OBVIOUS
  <2>1. k + 1 \in Nat \ {0}
    OBVIOUS
  <2> QED  BY <2>1, BestRemains, BindRefType DEF Carry
<1>3. \A k \in Nat, v \in Bindings(nodes) : step[k][v] = Carry(nodes, previous, k + 1, v)
  OBVIOUS
<1> HIDE DEF step
<1>4. PICK run : /\ run \in [Nat -> Bindings(nodes)]
                 /\ run[0] = NoRefs
                 /\ \A k \in Nat : run[k + 1] = step[k][run[k]]
  <2>1. StepsIn(Bindings(nodes), step)
    BY <1>2, <1>3 DEF StepsIn
  <2>2. NoRefs \in Bindings(nodes)
    BY EmptyRefs
  <2>3. \E run : Iterates(Bindings(nodes), NoRefs, step, run)
    BY <2>1, <2>2, Recursion
  <2> QED  BY <2>3 DEF Iterates
<1>5. run = def(run)
  <2>1. ASSUME NEW k \in Nat, k # 0 PROVE run[k] = Carry(nodes, previous, k, run[k - 1])
    <3>1. k - 1 \in Nat /\ (k - 1) + 1 = k
      BY <2>1
    <3>2. run[(k - 1) + 1] = Carry(nodes, previous, (k - 1) + 1, run[k - 1])
      BY <3>1, <1>3, <1>4
    <3> QED  BY <3>1, <3>2
  <2> QED  BY <2>1, <1>4
<1>6. upTo = def(upTo)
  <2> HIDE DEF def
  <2> QED  BY <1>5
<1> DEFINE up == upTo
<1>7. up = def(up)
  BY <1>6
<1> HIDE DEF up, upTo
<1>8. up[0] = NoRefs /\ \A k \in Nat : up[k + 1] = Carry(nodes, previous, k + 1, up[k])
  <2>1. \A k \in Nat : def(up)[k] = IF k = 0 THEN NoRefs ELSE Carry(nodes, previous, k, up[k - 1])
    OBVIOUS
  <2>2. \A k \in Nat : up[k] = IF k = 0 THEN NoRefs ELSE Carry(nodes, previous, k, up[k - 1])
    <3> HIDE DEF def
    <3> QED  BY <1>7, <2>1
  <2>3. up[0] = NoRefs
    BY <2>2
  <2>4. ASSUME NEW k \in Nat PROVE up[k + 1] = Carry(nodes, previous, k + 1, up[k])
    <3>1. k + 1 \in Nat /\ k + 1 # 0 /\ (k + 1) - 1 = k
      OBVIOUS
    <3> QED  BY <2>2, <3>1
  <2> QED  BY <2>3, <2>4
<1>9. Carried(nodes, previous) = up[Max(DOMAIN previous \cup {0})]
  BY <1>1 DEF up
<1> QED  BY <1>8, <1>9

\* Carried refs are refs of the screen before, each for a candidate of its own that
\* matches the description.
LEMMA CarriedFaithful ==
    ASSUME NEW nodes, NEW previous, DOMAIN previous \in RefSets
    PROVE  /\ Carried(nodes, previous) \in Bindings(nodes)
           /\ DOMAIN Carried(nodes, previous) \subseteq DOMAIN previous
           /\ OneToOne(Carried(nodes, previous))
           /\ \A r \in DOMAIN Carried(nodes, previous) :
                  Matched(nodes, previous[r], Carried(nodes, previous)[r])
<1>1. PICK run : /\ run[0] = NoRefs
                 /\ \A k \in Nat : run[k + 1] = Carry(nodes, previous, k + 1, run[k])
                 /\ Carried(nodes, previous) = run[Max(DOMAIN previous \cup {0})]
  BY CarriedRuns
<1> DEFINE good(k) == /\ run[k] \in Bindings(nodes)
                      /\ DOMAIN run[k] \subseteq DOMAIN previous \cap 1 .. k
                      /\ OneToOne(run[k])
                      /\ \A r \in DOMAIN run[k] : Matched(nodes, previous[r], run[k][r])
           Bad == {k \in Nat : ~ good(k)}
<1>2. good(0)
  BY <1>1, EmptyRefs DEF OneToOne
<1>3. ASSUME NEW k \in Nat, good(k) PROVE good(k + 1)
  <2> DEFINE rid == Best(previous[k + 1], Remaining(ToSet(nodes), run[k]))
  <2>1. k + 1 \in Nat \ {0} /\ k + 1 \notin DOMAIN run[k] /\ 1 .. k \subseteq 1 .. k + 1
    BY <1>3
  <2>2. run[k + 1] = IF k + 1 \notin DOMAIN previous \/ rid = 0 THEN run[k]
                     ELSE BindRef(run[k], k + 1, rid)
    BY <1>1 DEF Carry
  <2>3. rid # 0 => /\ rid \in Rids(nodes) /\ rid \notin Bound(run[k])
                   /\ Matched(nodes, previous[k + 1], rid)
    BY BestRemains
  <2> HIDE DEF rid
  <2>4. CASE k + 1 \notin DOMAIN previous \/ rid = 0
    <3>1. run[k + 1] = run[k]
      BY <2>2, <2>4
    <3> QED  BY <3>1, <1>3, <2>1
  <2>5. CASE ~ (k + 1 \notin DOMAIN previous \/ rid = 0)
    <3>1. run[k + 1] = BindRef(run[k], k + 1, rid)
      BY <2>2, <2>5
    <3>2. run[k + 1] \in Bindings(nodes) /\ DOMAIN run[k + 1] = DOMAIN run[k] \cup {k + 1}
      <4>1. run[k] \in Bindings(nodes) /\ k + 1 \in Nat \ {0} /\ rid \in Rids(nodes)
        BY <2>1, <2>3, <2>5, <1>3
      <4>2. /\ BindRef(run[k], k + 1, rid) \in Bindings(nodes)
            /\ DOMAIN BindRef(run[k], k + 1, rid) = DOMAIN run[k] \cup {k + 1}
        <5>1. \A refs \in Bindings(nodes), j \in Nat \ {0}, x \in Rids(nodes) :
                 /\ BindRef(refs, j, x) \in Bindings(nodes)
                 /\ DOMAIN BindRef(refs, j, x) = DOMAIN refs \cup {j}
          BY BindRefType
        <5> QED  BY <4>1, <5>1
      <4> QED  BY <4>2, <3>1
    <3>3. OneToOne(run[k + 1])
      BY <3>1, <2>1, <2>3, <2>5, <1>3, BindRefBinds
    <3>4. ASSUME NEW r \in DOMAIN run[k + 1] PROVE Matched(nodes, previous[r], run[k + 1][r])
      <4>1. r \in DOMAIN run[k] \cup {k + 1}
            /\ run[k + 1][r] = IF r = k + 1 THEN rid ELSE run[k][r]
        BY <3>1 DEF BindRef
      <4> QED  BY <4>1, <2>3, <2>5, <1>3
    <3> QED  BY <3>2, <3>3, <3>4, <2>1, <2>5, <1>3
  <2> QED  BY <2>4, <2>5
<1>4. Bad = {}
  <2> SUFFICES ASSUME Bad # {} PROVE FALSE
    OBVIOUS
  <2>1. PICK m \in Bad : \A k \in Bad : m <= k
    <3>1. Bad \subseteq Nat
      OBVIOUS
    <3> HIDE DEF Bad
    <3> QED  BY <3>1, LeastElement
  <2>2. m \in Nat /\ ~ good(m)
    OBVIOUS
  <2>3. m # 0
    BY <2>2, <1>2
  <2>4. m - 1 \in Nat /\ m - 1 \notin Bad /\ (m - 1) + 1 = m
    <3> HIDE DEF Bad, good
    <3> QED  BY <2>1, <2>2, <2>3
  <2>5. good(m - 1)
    <3> HIDE DEF good
    <3> QED  BY <2>4
  <2>6. good((m - 1) + 1)
    <3> HIDE DEF good
    <3> QED  BY <2>4, <2>5, <1>3
  <2> QED
    <3> HIDE DEF good
    <3> QED  BY <2>2, <2>4, <2>6
<1>5. Max(DOMAIN previous \cup {0}) \in Nat
  BY MaxOfRefs
<1>6. good(Max(DOMAIN previous \cup {0}))
  <2> HIDE DEF good
  <2> QED  BY <1>4, <1>5
<1> QED  BY <1>1, <1>6

\* A candidate that is given a ref has one, and no other ref changes.
LEMMA GiveType ==
    ASSUME NEW S, NEW nodes \in Seq(S), NEW i \in 1 .. Len(nodes), NEW refs \in Bindings(nodes)
    PROVE  /\ Give(nodes, i, refs) \in Bindings(nodes)
           /\ DOMAIN refs \subseteq DOMAIN Give(nodes, i, refs)
           /\ OneToOne(refs) => OneToOne(Give(nodes, i, refs))
           /\ Bound(Give(nodes, i, refs)) = Bound(refs) \cup {nodes[i].rid}
           /\ \A r \in DOMAIN refs : Give(nodes, i, refs)[r] = refs[r]
<1> DEFINE rid == nodes[i].rid
           free == FreeRef(refs)
<1>1. rid \in Rids(nodes)
  <2>1. nodes[i] \in ToSet(nodes)
    BY DEF ToSet
  <2> QED  BY <2>1 DEF Rids
<1>2. free \in Nat \ {0} /\ free \notin DOMAIN refs
  BY BindingsHaveRefs, FreeRefIsFree
<1>3. Give(nodes, i, refs) = IF rid \in Bound(refs) THEN refs ELSE BindRef(refs, free, rid)
  BY DEF Give
<1> HIDE DEF rid, free
<1>4. CASE rid \in Bound(refs)
  BY <1>3, <1>4 DEF rid
<1>5. CASE rid \notin Bound(refs)
  <2>1. Give(nodes, i, refs) = BindRef(refs, free, rid)
    BY <1>3, <1>5
  <2>2. /\ BindRef(refs, free, rid) \in Bindings(nodes)
        /\ DOMAIN BindRef(refs, free, rid) = DOMAIN refs \cup {free}
    <3>1. \A j \in Nat \ {0}, x \in Rids(nodes) :
             /\ BindRef(refs, j, x) \in Bindings(nodes)
             /\ DOMAIN BindRef(refs, j, x) = DOMAIN refs \cup {j}
      BY BindRefType
    <3> QED  BY <1>1, <1>2, <3>1
  <2>3. OneToOne(refs) => OneToOne(BindRef(refs, free, rid))
    BY <1>2, <1>5, BindRefBinds
  <2>4. Bound(BindRef(refs, free, rid)) = Bound(refs) \cup {rid}
    <3>1. refs \in [DOMAIN refs -> Rids(nodes)]
      BY BindingsHaveRefs
    <3> QED  BY <3>1, <1>2 DEF Bound, BindRef
  <2>5. \A r \in DOMAIN refs : BindRef(refs, free, rid)[r] = refs[r]
    BY <1>2 DEF BindRef
  <2> QED  BY <2>1, <2>2, <2>3, <2>4, <2>5 DEF rid
<1> QED  BY <1>4, <1>5

\* The refs of a screen, as the last value of a run that goes through the candidates.
LEMMA ReconcileRuns ==
    ASSUME NEW S, NEW nodes \in Seq(S), NEW previous, DOMAIN previous \in RefSets
    PROVE  \E run :
               /\ run[0] = Carried(nodes, previous)
               /\ \A i \in 1 .. Len(nodes) : run[i] = Give(nodes, i, run[i - 1])
               /\ Reconcile(nodes, previous) = run[Len(nodes)]
<1> DEFINE n == Len(nodes)
           first == Carried(nodes, previous)
           def(f) == [i \in 0 .. n |-> IF i = 0 THEN first ELSE Give(nodes, i, f[i - 1])]
           given == CHOOSE f : f = def(f)
           step == [k \in Nat |-> [v \in Bindings(nodes) |->
                       IF k + 1 \in 1 .. n THEN Give(nodes, k + 1, v) ELSE v]]
<1>1. Reconcile(nodes, previous) = given[n]
  BY DEF Reconcile
<1>2. n \in Nat
  BY LenProperties
<1>3. first \in Bindings(nodes)
  BY CarriedFaithful
<1> HIDE DEF n, first
<1>4. StepsIn(Bindings(nodes), step)
  <2> SUFFICES ASSUME NEW k \in Nat, NEW v \in Bindings(nodes)
               PROVE  (IF k + 1 \in 1 .. n THEN Give(nodes, k + 1, v) ELSE v) \in Bindings(nodes)
    BY DEF StepsIn
  <2> QED  BY GiveType DEF n
<1>5. \A k \in Nat, v \in Bindings(nodes) : k + 1 \in 1 .. n => step[k][v] = Give(nodes, k + 1, v)
  OBVIOUS
<1> HIDE DEF step
<1>6. PICK run : Iterates(Bindings(nodes), first, step, run)
  <2>1. \E run : Iterates(Bindings(nodes), first, step, run)
    BY <1>3, <1>4, Recursion
  <2> QED  BY <2>1
<1>7. /\ run \in [Nat -> Bindings(nodes)]
      /\ run[0] = first
      /\ \A k \in Nat : run[k + 1] = step[k][run[k]]
  BY <1>6 DEF Iterates
<1> DEFINE cut == [i \in 0 .. n |-> run[i]]
<1>8. cut = def(cut)
  <2>1. cut[0] = first
    BY <1>2, <1>7
  <2>2. ASSUME NEW i \in 0 .. n, i # 0 PROVE cut[i] = Give(nodes, i, cut[i - 1])
    <3>1. i - 1 \in Nat /\ (i - 1) + 1 = i /\ i \in 1 .. n /\ i - 1 \in 0 .. n
      BY <1>2, <2>2
    <3>2. run[(i - 1) + 1] = Give(nodes, (i - 1) + 1, run[i - 1])
      BY <3>1, <1>5, <1>7
    <3> QED  BY <3>1, <3>2
  <2>3. cut = [i \in 0 .. n |-> cut[i]]
    OBVIOUS
  <2> HIDE DEF cut
  <2> QED  BY <2>1, <2>2, <2>3
<1>9. given = def(given)
  <2> HIDE DEF def
  <2> QED  BY <1>8
<1> DEFINE give == given
<1>10. give = def(give)
  BY <1>9
<1> HIDE DEF give, given
<1>11. \A i \in 0 .. n : give[i] = IF i = 0 THEN first ELSE Give(nodes, i, give[i - 1])
  <2>1. \A i \in 0 .. n : def(give)[i] = IF i = 0 THEN first ELSE Give(nodes, i, give[i - 1])
    OBVIOUS
  <2> HIDE DEF def
  <2> QED  BY <1>10, <2>1
<1>12. give[0] = first /\ \A i \in 1 .. n : give[i] = Give(nodes, i, give[i - 1])
  BY <1>2, <1>11
<1>13. Reconcile(nodes, previous) = give[n]
  BY <1>1 DEF give
<1> QED  BY <1>12, <1>13 DEF n, first

\* RefRegistryBuilder.reconcile: whatever the refs of the screen before and the candidates
\* are, each candidate has exactly one ref, and the refs carried over are kept.
THEOREM ReconcileFaithful ==
    ASSUME NEW S, NEW nodes \in Seq(S), NEW previous, DOMAIN previous \in RefSets
    PROVE  /\ Reconcile(nodes, previous) \in Bindings(nodes)
           /\ DOMAIN Carried(nodes, previous) \subseteq DOMAIN Reconcile(nodes, previous)
           /\ \A r \in DOMAIN Carried(nodes, previous) :
                  Reconcile(nodes, previous)[r] = Carried(nodes, previous)[r]
           /\ OneToOne(Reconcile(nodes, previous))
           /\ Bound(Reconcile(nodes, previous)) = Rids(nodes)
<1> DEFINE n == Len(nodes)
           first == Carried(nodes, previous)
<1>1. PICK run : /\ run[0] = first
                 /\ \A i \in 1 .. n : run[i] = Give(nodes, i, run[i - 1])
                 /\ Reconcile(nodes, previous) = run[n]
  BY ReconcileRuns
<1>2. n \in Nat /\ DOMAIN nodes = 1 .. n
  BY LenProperties
<1>3. first \in Bindings(nodes) /\ OneToOne(first)
  BY CarriedFaithful
<1> HIDE DEF first, n
<1> DEFINE good(i) == /\ run[i] \in Bindings(nodes)
                      /\ DOMAIN first \subseteq DOMAIN run[i]
                      /\ \A r \in DOMAIN first : run[i][r] = first[r]
                      /\ OneToOne(run[i])
                      /\ \A j \in 1 .. i : nodes[j].rid \in Bound(run[i])
           Bad == {i \in 0 .. n : ~ good(i)}
<1>4. good(0)
  BY <1>1, <1>3
<1>5. ASSUME NEW i \in 1 .. n, good(i - 1) PROVE good(i)
  <2>1. run[i] = Give(nodes, i, run[i - 1])
    BY <1>1
  <2>2. i \in 1 .. Len(nodes) /\ run[i - 1] \in Bindings(nodes)
    BY <1>5 DEF n
  <2>3. /\ run[i] \in Bindings(nodes)
        /\ DOMAIN run[i - 1] \subseteq DOMAIN run[i]
        /\ OneToOne(run[i - 1]) => OneToOne(run[i])
        /\ Bound(run[i]) = Bound(run[i - 1]) \cup {nodes[i].rid}
        /\ \A r \in DOMAIN run[i - 1] : run[i][r] = run[i - 1][r]
    BY <2>1, <2>2, GiveType
  <2>4. ASSUME NEW j \in 1 .. i PROVE nodes[j].rid \in Bound(run[i])
    <3>1. j = i \/ j \in 1 .. i - 1
      BY <1>2
    <3> QED  BY <3>1, <2>3, <1>5
  <2> QED  BY <2>3, <2>4, <1>5
<1>6. Bad = {}
  <2> SUFFICES ASSUME Bad # {} PROVE FALSE
    OBVIOUS
  <2>1. PICK m \in Bad : \A k \in Bad : m <= k
    <3>1. Bad \subseteq Nat
      BY <1>2
    <3> HIDE DEF Bad
    <3> QED  BY <3>1, LeastElement
  <2>2. m \in 0 .. n /\ ~ good(m)
    OBVIOUS
  <2>3. m # 0
    BY <2>2, <1>4
  <2>4. m \in 1 .. n /\ m - 1 \in 0 .. n /\ m - 1 \notin Bad
    <3> HIDE DEF Bad, good
    <3> QED  BY <1>2, <2>1, <2>2, <2>3
  <2>5. good(m - 1)
    <3> HIDE DEF good
    <3> QED  BY <2>4
  <2>6. good(m)
    <3> HIDE DEF good
    <3> QED  BY <2>4, <2>5, <1>5
  <2> QED
    <3> HIDE DEF good
    <3> QED  BY <2>2, <2>6
<1>7. good(n)
  <2> HIDE DEF good
  <2> QED  BY <1>2, <1>6
<1>8. Rids(nodes) \subseteq Bound(run[n])
  BY <1>2, <1>7 DEF Rids, ToSet
<1>9. Bound(run[n]) \subseteq Rids(nodes)
  <2>1. run[n] \in [DOMAIN run[n] -> Rids(nodes)]
    BY <1>7, BindingsHaveRefs
  <2> QED  BY <2>1 DEF Bound
<1> QED  BY <1>1, <1>7, <1>8, <1>9 DEF first

-----------------------------------------------------------------------------
(* Codes *)

\* Codes of failures before the device is asked to act.
Refusals ==
    {"RUNTIME_NOT_CONNECTED", "SCREEN_NOT_READY", "DEVICE_AGENT_CAPABILITY_MISMATCH",
     "REF_RESOLUTION_FAILED", "REF_STALE", "TARGET_BLOCKED", "TARGET_NOT_ACTIONABLE",
     "DEVICE_RPC_FAILED", "DEVICE_RPC_TRANSPORT_RESET", "DEVICE_AGENT_UNAUTHORIZED"}
\* Codes of failures after it.
Doubts == {"TARGET_NOT_ACTIONABLE", "OPEN_FAILED"} \cup NotConfirmed

\* A refusal is never reported as dispatched.
LEMMA RefusalsNotDispatched ==
    ASSUME NEW code \in Refusals, NEW screen
    PROVE  Failure(code, FALSE, FALSE, screen).execution # "dispatched"
BY DEF Refusals, Failure, FailureExecution, NotConfirmed, Availability

\* A doubt about an action that was performed is reported as dispatched.
LEMMA DoubtsDispatched ==
    ASSUME NEW code \in Doubts, NEW screen
    PROVE  Failure(code, TRUE, FALSE, screen).execution = "dispatched"
BY DEF Doubts, Failure, FailureExecution, NotConfirmed

\* The codes of validate_ref_action.
LEMMA AdmissionCodes ==
    ASSUME NEW screen, NEW n, NEW c
    PROVE  Admission(screen, n, c) \in {"ok", "TARGET_BLOCKED", "TARGET_NOT_ACTIONABLE"}
BY DEF Admission

\* What stops a command before its request is built is a refusal.
LEMMA PrecheckCodes ==
    ASSUME NEW c
    PROVE  Precheck(c) \in Refusals \cup {"ok"}
<1>1. \A screen, n : Admission(screen, n, c) \in Refusals \cup {"ok"}
  BY AdmissionCodes DEF Refusals
<1> QED  BY <1>1 DEF Precheck, Refusals

\* The codes of resolve_submit_route.
LEMMA SubmitRouteCodes ==
    ASSUME NEW screen, NEW refs, NEW rid
    PROVE  SubmitRoute(screen, refs, rid).code \in {"ok", "TARGET_BLOCKED", "TARGET_NOT_ACTIONABLE"}
BY DEF SubmitRoute, NoRoute

\* What stops a request from being built is a refusal.
LEMMA BuildCodes ==
    ASSUME NEW c, NEW screen, NEW rid, NEW required
    PROVE  Build(c, screen, rid, required).code \in Refusals \cup {"ok"}
<1>1. SubmitRoute(Compiled[screen.ui], screen.refs, rid).code
        \in {"ok", "TARGET_BLOCKED", "TARGET_NOT_ACTIONABLE"}
  BY SubmitRouteCodes
<1>2. ResolvedAdmission(c, screen.ui, rid) \in {"ok", "TARGET_BLOCKED", "TARGET_NOT_ACTIONABLE"}
  BY AdmissionCodes DEF ResolvedAdmission
<1> DEFINE route == SubmitRoute(Compiled[screen.ui], screen.refs, rid)
           admitted == ResolvedAdmission(c, screen.ui, rid)
<1>3. Build(c, screen, rid, required) =
        IF c.kind # "submit" THEN [code |-> admitted, route |-> "", target |-> rid]
        ELSE IF route.code # "ok" THEN route
        ELSE IF ~SameRoute(required, route.route) THEN NoRoute("TARGET_NOT_ACTIONABLE")
        ELSE IF RequiredKind(c, route.route) \notin Capabilities
        THEN NoRoute("DEVICE_AGENT_CAPABILITY_MISMATCH")
        ELSE route
  BY DEF Build
<1> HIDE DEF route, admitted
<1>4. route.code \in Refusals \cup {"ok"} /\ admitted \in Refusals \cup {"ok"}
  BY <1>1, <1>2 DEF route, admitted, Refusals
<1>5. \A code : NoRoute(code).code = code
  BY DEF NoRoute
<1>6. {"TARGET_NOT_ACTIONABLE", "DEVICE_AGENT_CAPABILITY_MISMATCH"} \subseteq Refusals
  BY DEF Refusals
<1>7. [code |-> admitted, route |-> "", target |-> rid].code = admitted
  OBVIOUS
<1> DEFINE plain == [code |-> admitted, route |-> "", target |-> rid]
           unfit == NoRoute("TARGET_NOT_ACTIONABLE")
           unable == NoRoute("DEVICE_AGENT_CAPABILITY_MISMATCH")
<1>8. {plain.code, route.code, unfit.code, unable.code} \subseteq Refusals \cup {"ok"}
  BY <1>4, <1>5, <1>6, <1>7
<1> HIDE DEF plain, unfit, unable
<1>9. Build(c, screen, rid, required) \in {plain, route, unfit, unable}
  BY <1>3 DEF plain, unfit, unable
<1> QED  BY <1>8, <1>9

\* What is wrong with the source of a repair is a refusal.
LEMMA SourceCodes ==
    ASSUME NEW c
    PROVE  Source(c).code \in Refusals \cup {"ok"}
BY DEF Source, Refusals

\* The outcomes of validate_submit_confirmation.
LEMMA SubmitOutcomes ==
    ASSUME NEW route, NEW done, NEW before, NEW raw, NEW old, NEW screen, NEW places
    PROVE  SubmitOutcome(route, done, before, raw, old, screen, places)
              \in NotConfirmed \cup {"unconfirmed", "targetGone", "publicChange", "sameTarget"}
BY DEF SubmitOutcome, NotConfirmed, FirstPlace

\* What a confirmation finds missing is a doubt.
LEMMA ConfirmationCodes ==
    ASSUME NEW screen
    PROVE  Confirmation(screen).code \in Doubts \cup {"ok"}
<1> {"TARGET_NOT_ACTIONABLE", "TYPE_NOT_CONFIRMED", "ACTION_NOT_CONFIRMED", "OPEN_FAILED"} \subseteq Doubts
    /\ NotConfirmed \subseteq Doubts
  BY DEF Doubts, NotConfirmed
<1> QED  BY DEF Confirmation, FirstPlace

-----------------------------------------------------------------------------
(* The invariant *)

\* A published screen: refs carried over and refs given anew do not meet.
AllBindings == UNION {Bindings(Candidates[u]) : u \in UIs}
Screens == [ui : UIs, refs : AllBindings, reused : SUBSET Nat]
Faithful(screen) ==
    /\ screen.ui \in UIs
    /\ screen.refs \in Bindings(Candidates[screen.ui])
    /\ OneToOne(screen.refs)
    /\ Bound(screen.refs) = Rids(Candidates[screen.ui])
    /\ screen.reused \subseteq DOMAIN screen.refs
SeenOK ==
    /\ seen \in Seq(Screens)
    /\ Len(seen) <= MaxSeen
    /\ \A i \in DOMAIN seen : Faithful(seen[i])

\* A job is a record, and the authority is the newest screen or none.
JobShape ==
    job = [cmd |-> job.cmd, prev |-> job.prev, repaired |-> job.repaired,
           required |-> job.required, found |-> job.found, route |-> job.route,
           snap |-> job.snap, rid |-> job.rid, target |-> job.target, done |-> job.done]
PlaceOK ==
    /\ pc \in {"idle", "repair", "send", "confirm", "answered"}
    /\ cur \in {0, Len(seen)}
    /\ connected \in BOOLEAN
    /\ cur # 0 => connected
    /\ JobShape
\* What is known of a command at each place of the program.
IdleOK == pc = "idle" => job = NoJob /\ performed = <<>> /\ result = NoResult
RunningOK ==
    pc \in {"repair", "send", "confirm"} =>
        /\ connected /\ result = NoResult
        /\ performed = IF pc = "confirm" THEN <<"answered">> ELSE <<>>
JobOK ==
    pc # "idle" =>
        /\ job.cmd \in Commands
        /\ job.prev \in 0 .. Len(seen) /\ job.snap \in 0 .. Len(seen)
AnsweredOK == pc = "answered" => performed \in {<<>>, <<"answered">>, <<"lost">>}
\* Only submit has a route, and a repair knows from which screen the ref is.
KindOK == job.cmd.kind # "submit" => job.route = "" /\ job.required = ""
Statuses == {"valid", "malformed", "unreadable", "gone"}
RepairOK ==
    pc = "repair" =>
        /\ IsRef(job.cmd) /\ job.repaired = TRUE /\ cur # 0 /\ KindOK
        /\ \/ job.cmd.screen = Current /\ job.found = <<>>
           \/ job.cmd.screen # Current /\ job.found \in [DOMAIN seen -> Statuses]
SendOK ==
    pc = "send" =>
        /\ job.repaired \in BOOLEAN /\ KindOK
        /\ job.repaired = FALSE => job.found = <<>> /\ (IsRef(job.cmd) => job.cmd.screen = Current)
        /\ job.repaired => IsRef(job.cmd)
        /\ IsRef(job.cmd) => cur # 0
\* The inductive invariant; the last four are properties that the steps need.
FlowOK ==
    /\ SeenOK /\ PlaceOK /\ IdleOK /\ RunningOK /\ JobOK /\ AnsweredOK /\ RepairOK /\ SendOK
    /\ AdmissibleDispatch /\ NewestSource /\ OutcomeTruthful /\ NoScreenFromBefore

-----------------------------------------------------------------------------
(* Screens *)

\* What the assumption says of a compiled screen: its nodes are known by their rids.
LEMMA NodesByRid ==
    ASSUME NEW u \in UIs
    PROVE  /\ Candidates[u] \in Seq(NodesOf(Compiled[u]))
           /\ \A n \in ToSet(Candidates[u]) : n \in NodesOf(Compiled[u])
           /\ \A n \in NodesOf(Compiled[u]) : TheNode(Compiled[u], n.rid) = n
           /\ \A n \in NodesOf(Compiled[u]) : n.rid \in DOMAIN Snapshot[u].nodes
<1>1. /\ Candidates[u] \in Seq(NodesOf(Compiled[u]))
      /\ \A n \in NodesOf(Compiled[u]) :
             /\ n.rid \in DOMAIN Snapshot[u].nodes
             /\ \A m \in NodesOf(Compiled[u]) : n.rid = m.rid => n = m
  BY NodesAssumption
<1>2. \A n \in ToSet(Candidates[u]) : n \in NodesOf(Compiled[u])
  BY <1>1, ElementOfSeq DEF ToSet
<1>3. ASSUME NEW n \in NodesOf(Compiled[u]) PROVE TheNode(Compiled[u], n.rid) = n
  BY <1>1 DEF TheNode
<1> QED  BY <1>1, <1>2, <1>3

\* The screen that a refresh publishes has one ref for each candidate.
LEMMA PublishedFaithful ==
    ASSUME SeenOK, PlaceOK, NEW u \in UIs
    PROVE  Published(u) \in Screens /\ Faithful(Published(u)) /\ Published(u).ui = u
<1> DEFINE before == IF cur = 0 THEN NoRefs
                     ELSE [r \in DOMAIN seen[cur].refs |-> DescriptionOf(cur, r)]
           nodes == Candidates[u]
           S == NodesOf(Compiled[u])
           refs == Reconcile(nodes, before)
           reused == DOMAIN Carried(nodes, before)
<1>1. nodes \in Seq(S)
  BY NodesByRid
<1>2. DOMAIN before \in RefSets
  <2>1. CASE cur = 0
    <3>1. DOMAIN NoRefs = {} /\ {} \in RefSets
      BY EmptyRefs DEF RefSets
    <3> QED  BY <2>1, <3>1
  <2>2. CASE cur # 0
    <3>1. cur \in DOMAIN seen
      BY <2>2, LenProperties DEF SeenOK, PlaceOK
    <3>2. seen[cur].refs \in Bindings(Candidates[seen[cur].ui])
      BY <3>1 DEF SeenOK, Faithful
    <3>3. DOMAIN seen[cur].refs \in RefSets
      BY <3>2, BindingsHaveRefs
    <3>4. DOMAIN before = DOMAIN seen[cur].refs
      BY <2>2
    <3> QED  BY <3>3, <3>4
  <2> QED  BY <2>1, <2>2
<1>3. Published(u) = [ui |-> u, refs |-> refs, reused |-> reused]
  BY DEF Published
<1> HIDE DEF before, nodes, S
<1>4. /\ refs \in Bindings(nodes)
      /\ reused \subseteq DOMAIN refs
      /\ OneToOne(refs)
      /\ Bound(refs) = Rids(nodes)
  BY <1>1, <1>2, ReconcileFaithful
<1> HIDE DEF refs, reused
<1>5. DOMAIN refs \subseteq Nat
  <2>1. DOMAIN refs \in RefSets
    BY <1>4, BindingsHaveRefs
  <2> QED  BY <2>1 DEF RefSets
<1>6. refs \in AllBindings
  BY <1>4 DEF AllBindings, nodes
<1> QED  BY <1>3, <1>4, <1>5, <1>6 DEF Screens, Faithful, nodes

\* A published screen is the newest and has the authority.
LEMMA PublishAppends ==
    ASSUME SeenOK, PlaceOK, NEW screen \in Screens, Faithful(screen), Publish(screen)
    PROVE  /\ SeenOK'
           /\ Len(seen') = Len(seen) + 1
           /\ cur' = Len(seen') /\ cur' # 0
           /\ \A i \in DOMAIN seen : seen'[i] = seen[i]
           /\ seen'[Len(seen')] = screen
           /\ Len(seen) \in Nat
<1>1. seen \in Seq(Screens) /\ seen' = Append(seen, screen) /\ Len(seen) \in Nat
  BY LenProperties DEF SeenOK, Publish
<1>2. /\ seen' \in Seq(Screens)
      /\ Len(seen') = Len(seen) + 1
      /\ \A i \in 1 .. Len(seen) : seen'[i] = seen[i]
      /\ seen'[Len(seen) + 1] = screen
  BY <1>1, AppendProperties
<1>3. DOMAIN seen = 1 .. Len(seen) /\ DOMAIN seen' = 1 .. Len(seen')
  BY <1>1, <1>2, LenProperties
<1>4. Len(seen') <= MaxSeen
  BY <1>1, <1>2, BoundAssumption DEF Publish
<1>5. ASSUME NEW i \in DOMAIN seen' PROVE Faithful(seen'[i])
  <2>1. CASE i = Len(seen) + 1
    BY <2>1, <1>2
  <2>2. CASE i \in DOMAIN seen
    BY <2>2, <1>2, <1>3 DEF SeenOK
  <2> QED  BY <1>1, <1>2, <1>3, <2>1, <2>2
<1>6. SeenOK'
  BY <1>2, <1>4, <1>5 DEF SeenOK, Faithful
<1> QED  BY <1>1, <1>2, <1>3, <1>6 DEF Publish

-----------------------------------------------------------------------------
(* Requests *)

\* The request built for the element at rid of u is one that u admits; an element of the
\* screen that the command names was admitted before.
AdmittedAs(u, c, rid, built) ==
    IF c.kind = "submit"
    THEN /\ FocusedRid(Compiled[u]) = rid
         /\ built.route = "attributed" => "tap" \in TheNode(Compiled[u], built.target).actions
    ELSE /\ ResolvedAdmission(c, u, rid) = "ok"
         /\ built.route = ""

\* A route to submit an input starts at the focused one and taps what can be tapped.
LEMMA SubmitRouteAdmits ==
    ASSUME NEW u \in UIs, NEW refs \in Bindings(Candidates[u]), NEW rid,
           SubmitRoute(Compiled[u], refs, rid).code = "ok"
    PROVE  LET route == SubmitRoute(Compiled[u], refs, rid)
           IN  /\ FocusedRid(Compiled[u]) = rid
               /\ route.route = "attributed" =>
                      "tap" \in TheNode(Compiled[u], route.target).actions
<1> DEFINE screen == Compiled[u]
           route == SubmitRoute(screen, refs, rid)
           subject == TheNode(screen, rid)
           through == SubmitRefs(screen, refs, rid)
           r == CHOOSE x \in through : TRUE
           target == TheNode(screen, refs[r])
<1>1. /\ NodeAt(screen, rid) # {}
      /\ IsFocused(screen, subject)
      /\ route.route = "attributed" => /\ through # {} /\ "tap" \in target.actions
                                       /\ route.target = target.rid
  <2> HIDE DEF through, subject, screen
  <2> QED  BY DEF SubmitRoute, NoRoute, through, subject, screen
<1>2. PICK n \in NodesOf(screen) : n.rid = rid
  BY <1>1 DEF NodeAt
<1>3. FocusedRid(screen) = rid
  <2>1. subject = n
    BY <1>2, NodesByRid
  <2> QED  BY <1>1, <1>2, <2>1 DEF IsFocused
<1>4. ASSUME route.route = "attributed"
      PROVE  "tap" \in TheNode(screen, route.target).actions
  <2>1. r \in through
    <3> HIDE DEF through
    <3> QED  BY <1>1, <1>4
  <2>2. PICK x : r = RefOf(refs, x) /\ r # 0
    BY <2>1 DEF SubmitRefs
  <2>3. r \in DOMAIN refs
    <3> HIDE DEF r
    <3> QED  BY <2>2 DEF RefOf, Bound
  <2>4. refs[r] \in Rids(Candidates[u])
    <3>1. refs \in [DOMAIN refs -> Rids(Candidates[u])]
      BY BindingsHaveRefs
    <3> HIDE DEF r
    <3> QED  BY <2>3, <3>1
  <2>5. PICK m \in NodesOf(screen) : m.rid = refs[r]
    <3> HIDE DEF r
    <3> QED  BY <2>4, NodesByRid DEF Rids
  <2>6. target = m /\ TheNode(screen, m.rid) = m
    <3> HIDE DEF r
    <3> QED  BY <2>5, NodesByRid
  <2> HIDE DEF r, target
  <2> QED  BY <1>1, <1>4, <2>6
<1> QED  BY <1>3, <1>4

\* A request for an element of a published screen is admitted there.
LEMMA BuildAdmits ==
    ASSUME NEW c, NEW screen, Faithful(screen), NEW rid, NEW required,
           Build(c, screen, rid, required).code = "ok"
    PROVE  AdmittedAs(screen.ui, c, rid, Build(c, screen, rid, required))
<1> DEFINE u == screen.ui
           built == Build(c, screen, rid, required)
           route == SubmitRoute(Compiled[u], screen.refs, rid)
           admitted == ResolvedAdmission(c, u, rid)
<1>1. built = IF c.kind # "submit" THEN [code |-> admitted, route |-> "", target |-> rid]
              ELSE IF route.code # "ok" THEN route
              ELSE IF ~SameRoute(required, route.route) THEN NoRoute("TARGET_NOT_ACTIONABLE")
              ELSE IF RequiredKind(c, route.route) \notin Capabilities
              THEN NoRoute("DEVICE_AGENT_CAPABILITY_MISMATCH")
              ELSE route
  BY DEF Build
<1>2. built.code = "ok"
  OBVIOUS
<1> HIDE DEF built
<1>3. CASE c.kind # "submit"
  <2>1. built = [code |-> admitted, route |-> "", target |-> rid]
    BY <1>1, <1>3
  <2> HIDE DEF admitted
  <2>2. admitted = "ok" /\ built.route = ""
    BY <2>1, <1>2
  <2> QED  BY <1>3, <2>2 DEF AdmittedAs, admitted, built
<1>4. CASE c.kind = "submit"
  <2> HIDE DEF route
  <2>1. built = route
    BY <1>1, <1>2, <1>4 DEF NoRoute
  <2>2. u \in UIs /\ screen.refs \in Bindings(Candidates[u])
    BY DEF Faithful
  <2>3. /\ FocusedRid(Compiled[u]) = rid
        /\ route.route = "attributed" => "tap" \in TheNode(Compiled[u], route.target).actions
    <3>1. SubmitRoute(Compiled[u], screen.refs, rid).code = "ok"
      BY <2>1, <1>2 DEF route
    <3> HIDE DEF u
    <3> QED  BY <2>2, <3>1, SubmitRouteAdmits DEF route
  <2> QED  BY <1>4, <2>1, <2>3 DEF AdmittedAs, built
<1> QED  BY <1>3, <1>4

\* A lookup that finds an artifact has the newest of its screen, no unreadable one newer.
LEMMA LookupFound ==
    ASSUME NEW files, NEW screen, Lookup(files, screen).status = "found"
    PROVE  LET matching == {f \in files : f.screen = screen /\ f.status # "unreadable"}
               unknown == {f \in files : f.status = "unreadable"}
           IN  /\ matching # {}
               /\ Lookup(files, screen).file = NewestOf(matching)
               /\ NewestOf(matching).status = "valid"
               /\ \A u \in unknown : ~ u.sequence >= NewestOf(matching).sequence
BY DEF Lookup

\* Of finitely many publications one is the newest.
LEMMA NewestFile ==
    ASSUME NEW files, files # {}, NEW N \in Nat, \A f \in files : f.sequence \in 1 .. N
    PROVE  /\ NewestOf(files) \in files
           /\ \A f \in files : NewestOf(files).sequence >= f.sequence
<1> DEFINE D == {f.sequence : f \in files}
<1>1. D \in RefSets /\ D # {} /\ \A k \in D : k \in 1 .. N
  BY DEF RefSets
<1>2. Max(D \cup {0}) \in Nat /\ Max(D \cup {0}) \in D \cup {0} /\ \A k \in D : k <= Max(D \cup {0})
  <2> HIDE DEF D
  <2> QED  BY <1>1, MaxOfRefs
<1>3. Max(D \cup {0}) \in D
  <2> HIDE DEF D
  <2> QED  BY <1>1, <1>2
<1>4. PICK f \in files : f.sequence = Max(D \cup {0})
  BY <1>3
<1>5. \A g \in files : f.sequence >= g.sequence
  <2> SUFFICES ASSUME NEW g \in files PROVE f.sequence >= g.sequence
    OBVIOUS
  <2>1. g.sequence \in D
    OBVIOUS
  <2> HIDE DEF D
  <2> QED  BY <1>1, <1>2, <1>4, <2>1
<1> QED  BY <1>5 DEF NewestOf

\* The first n publications that are of the screen of the command and not gone.
GivenBefore(n) ==
    {i \in 1 .. n : /\ ScreenOf[seen[i].ui] = job.cmd.screen
                    /\ i \in DOMAIN job.found => job.found[i] # "gone"}

\* The source of a repair is the newest publication of the screen that was found.
LEMMA SourceIsNewest ==
    ASSUME SeenOK, PlaceOK, RepairOK, pc = "repair", Source(job.cmd).code = "ok"
    PROVE  LET at == Source(job.cmd).at
           IN  /\ at \in GivenBefore(Len(seen))
               /\ \A i \in GivenBefore(Len(seen)) : i <= at
               /\ job.cmd.ref \in DOMAIN seen[at].refs
<1> DEFINE N == Len(seen)
           given == GivenBefore(N)
           at == Source(job.cmd).at
<1>1. N \in Nat /\ DOMAIN seen = 1 .. N /\ cur = N /\ cur # 0
  BY LenProperties DEF SeenOK, PlaceOK, RepairOK
<1>2. CASE job.cmd.screen = Current
  <2>1. job.found = <<>> /\ DOMAIN job.found = {}
    BY <1>2 DEF RepairOK
  <2>2. job.cmd.ref \in DOMAIN seen[cur].refs /\ at = cur
    BY <1>2 DEF Source
  <2>3. cur \in given
    BY <1>1, <1>2, <2>1 DEF GivenBefore, Current
  <2>4. \A i \in given : i <= cur
    BY <1>1 DEF GivenBefore
  <2> QED  BY <2>2, <2>3, <2>4
<1>3. CASE job.cmd.screen # Current
  <2> DEFINE files == FilesFound(job.found)
             matching == {f \in files : f.screen = job.cmd.screen /\ f.status # "unreadable"}
             unknown == {f \in files : f.status = "unreadable"}
             newest == NewestOf(matching)
  <2>1. job.found \in [1 .. N -> Statuses]
    BY <1>1, <1>3 DEF RepairOK
  <2>2. /\ Lookup(files, job.cmd.screen).status = "found"
        /\ job.cmd.ref \in DOMAIN seen[Lookup(files, job.cmd.screen).file.sequence].refs
        /\ at = Lookup(files, job.cmd.screen).file.sequence
    <3> HIDE DEF files
    <3> QED  BY <1>3 DEF Source, files
  <2>3. /\ matching # {}
        /\ Lookup(files, job.cmd.screen).file = newest
        /\ newest.status = "valid"
        /\ \A u \in unknown : ~ u.sequence >= newest.sequence
    <3> HIDE DEF files
    <3> QED  BY <2>2, LookupFound
  <2>4. \A f \in files : \E i \in 1 .. N : /\ job.found[i] # "gone"
                                          /\ f.screen = ScreenOf[seen[i].ui]
                                          /\ f.sequence = i /\ f.status = job.found[i]
    BY <2>1 DEF FilesFound
  <2>5. ASSUME NEW i \in 1 .. N, job.found[i] # "gone"
        PROVE  \E f \in files : /\ f.screen = ScreenOf[seen[i].ui]
                                /\ f.sequence = i /\ f.status = job.found[i]
    <3> DEFINE f == [screen |-> ScreenOf[seen[i].ui], sequence |-> i, status |-> job.found[i]]
    <3>1. f \in files
      BY <2>1, <2>5 DEF FilesFound
    <3>2. f.screen = ScreenOf[seen[i].ui] /\ f.sequence = i /\ f.status = job.found[i]
      OBVIOUS
    <3> HIDE DEF f, files
    <3> QED  BY <3>1, <3>2
  <2> HIDE DEF files
  <2>6. newest \in matching /\ \A f \in matching : newest.sequence >= f.sequence
    <3>1. \A f \in matching : f.sequence \in 1 .. N
      BY <2>4
    <3> HIDE DEF matching
    <3> QED  BY <1>1, <2>3, <3>1, NewestFile
  <2> HIDE DEF newest
  <2>7. newest.sequence \in given
    <3>1. PICK i \in 1 .. N : /\ job.found[i] # "gone"
                              /\ newest.screen = ScreenOf[seen[i].ui] /\ newest.sequence = i
      BY <2>4, <2>6
    <3>2. newest.screen = job.cmd.screen
      BY <2>6
    <3> QED  BY <2>1, <3>1, <3>2 DEF GivenBefore
  <2>8. ASSUME NEW i \in given PROVE i <= newest.sequence
    <3>1. i \in 1 .. N /\ ScreenOf[seen[i].ui] = job.cmd.screen /\ job.found[i] # "gone"
      BY <2>1 DEF GivenBefore
    <3>2. PICK f \in files : /\ f.screen = ScreenOf[seen[i].ui]
                             /\ f.sequence = i /\ f.status = job.found[i]
      BY <2>5, <3>1
    <3>3. newest.sequence \in 1 .. N
      BY <2>7 DEF GivenBefore
    <3>4. CASE f.status = "unreadable"
      <4>1. ~ f.sequence >= newest.sequence
        BY <2>3, <3>4
      <4> QED  BY <3>1, <3>2, <3>3, <4>1
    <3>5. CASE f.status # "unreadable"
      <4>1. newest.sequence >= f.sequence
        BY <2>6, <3>1, <3>2, <3>5
      <4> QED  BY <3>1, <3>2, <3>3, <4>1
    <3> QED  BY <3>4, <3>5
  <2> QED  BY <2>2, <2>3, <2>7, <2>8
<1> QED  BY <1>2, <1>3

-----------------------------------------------------------------------------
(* Steps *)

\* The invariant when no command runs after the step.
LEMMA FlowWhenIdle ==
    ASSUME SeenOK', PlaceOK', pc' = "idle", job' = NoJob, performed' = <<>>, result' = NoResult
    PROVE  FlowOK'
BY DEF FlowOK, IdleOK, RunningOK, JobOK, AnsweredOK, RepairOK, SendOK, AdmissibleDispatch,
       NewestSource, OutcomeTruthful, NoScreenFromBefore, NoResult

\* The invariant when a command ends with the step.
LEMMA FlowWhenAnswered ==
    ASSUME SeenOK', PlaceOK', pc' = "answered", JobOK', AnsweredOK',
           OutcomeTruthful', NoScreenFromBefore'
    PROVE  FlowOK'
BY DEF FlowOK, IdleOK, RunningOK, RepairOK, SendOK, AdmissibleDispatch, NewestSource

\* The invariant when a command runs after the step.
LEMMA FlowWhenRunning ==
    ASSUME SeenOK', PlaceOK', pc' \in {"repair", "send", "confirm"}, JobOK', RunningOK',
           RepairOK', SendOK', AdmissibleDispatch', NewestSource'
    PROVE  FlowOK'
<1>1. OutcomeTruthful' /\ NoScreenFromBefore'
  BY DEF OutcomeTruthful, NoScreenFromBefore, RunningOK, NoResult
<1> QED  BY <1>1 DEF FlowOK, IdleOK, AnsweredOK

\* Published screens stay what they are.
LEMMA SeenStays ==
    ASSUME SeenOK, UNCHANGED seen
    PROVE  SeenOK'
BY DEF SeenOK, Faithful

\* A command that ends forgets what its lookup found, and nothing else.
LEMMA EndKeepsJob ==
    ASSUME JobShape, job' = [job EXCEPT !.found = <<>>]
    PROVE  /\ JobShape'
           /\ job'.cmd = job.cmd /\ job'.prev = job.prev /\ job'.snap = job.snap
<1> DEFINE j == [cmd |-> job.cmd, prev |-> job.prev, repaired |-> job.repaired,
                 required |-> job.required, found |-> <<>>, route |-> job.route,
                 snap |-> job.snap, rid |-> job.rid, target |-> job.target, done |-> job.done]
<1>1. job' = j
  BY DEF JobShape
<1> QED  BY <1>1 DEF JobShape

\* A refusal of an action that the device did not do, or did without the daemon knowing,
\* is a truthful answer in the sense of OutcomeTruthful.
LEMMA RefusalTruthful ==
    ASSUME NEW code \in Refusals, NEW screen, result' = Failure(code, FALSE, FALSE, screen),
           performed' \in {<<>>, <<"lost">>}
    PROVE  OutcomeTruthful' /\ NoScreenFromBefore'
<1>1. result'.execution # "dispatched"
  BY RefusalsNotDispatched
<1>2. "answered" \notin ToSet(performed')
  <2>1. ToSet(<<>>) = {} /\ ToSet(<<"lost">>) = {"lost"}
    BY DEF ToSet
  <2> QED  BY <2>1
<1> QED  BY <1>1, <1>2 DEF OutcomeTruthful, NoScreenFromBefore

\* A command starts with no place, route or finding.
LEMMA StartOf ==
    ASSUME NEW c
    PROVE  [NoJob EXCEPT !.cmd = c] =
               [cmd |-> c, prev |-> 0, repaired |-> FALSE, required |-> "", found |-> <<>>,
                route |-> "", snap |-> 0, rid |-> 0, target |-> 0, done |-> TRUE]
<1> DEFINE nothing == [kind |-> "none"]
           empty == <<>>
           none == ""
           zero == 0
           no == FALSE
           yes == TRUE
<1>1. NoJob = [cmd |-> nothing, prev |-> zero, repaired |-> no, required |-> none,
               found |-> empty, route |-> none, snap |-> zero, rid |-> zero,
               target |-> zero, done |-> yes]
  BY DEF NoJob
<1> HIDE DEF nothing, empty, none, zero, no, yes
<1>2. [NoJob EXCEPT !.cmd = c] =
          [cmd |-> c, prev |-> zero, repaired |-> no, required |-> none, found |-> empty,
           route |-> none, snap |-> zero, rid |-> zero, target |-> zero, done |-> yes]
  BY <1>1
<1> QED  BY <1>2 DEF empty, none, zero, no, yes

\* At first nothing is published and no command runs.
LEMMA FlowInitially == Init => FlowOK
<1> SUFFICES ASSUME Init PROVE FlowOK
  OBVIOUS
<1>1. <<>> \in Seq(Screens) /\ Len(<<>>) = 0 /\ DOMAIN <<>> = {}
  BY EmptySeq
<1>2. SeenOK
  BY <1>1, BoundAssumption DEF Init, SeenOK
<1>3. PlaceOK
  BY <1>1 DEF Init, PlaceOK, JobShape, NoJob
<1> QED  BY <1>2, <1>3 DEF Init, FlowOK, IdleOK, RunningOK, JobOK, AnsweredOK, RepairOK,
                           SendOK, AdmissibleDispatch, NewestSource, OutcomeTruthful,
                           NoScreenFromBefore, NoResult

\* Another command publishes the screen.
LEMMA ObserveKeepsFlow ==
    ASSUME FlowOK, NEW u \in UIs, Observe(u)
    PROVE  FlowOK'
<1>1. Published(u) \in Screens /\ Faithful(Published(u))
  BY PublishedFaithful DEF FlowOK
<1>2. SeenOK' /\ cur' = Len(seen')
  BY <1>1, PublishAppends DEF FlowOK, Observe
<1>3. PlaceOK'
  BY <1>2 DEF FlowOK, PlaceOK, Observe, JobShape
<1>4. pc' = "idle" /\ job' = NoJob /\ performed' = <<>> /\ result' = NoResult
  BY DEF FlowOK, IdleOK, Observe
<1> QED  BY <1>2, <1>3, <1>4, FlowWhenIdle

\* The runtime gets a device again.
LEMMA ConnectKeepsFlow ==
    ASSUME FlowOK, Connect
    PROVE  FlowOK'
<1>1. SeenOK'
  BY SeenStays DEF FlowOK, Connect
<1>2. PlaceOK'
  BY DEF FlowOK, PlaceOK, Connect, JobShape
<1>3. pc' = "idle" /\ job' = NoJob /\ performed' = <<>> /\ result' = NoResult
  BY DEF FlowOK, IdleOK, Connect
<1> QED  BY <1>1, <1>2, <1>3, FlowWhenIdle

\* The answer reaches the caller.
LEMMA DeliverKeepsFlow ==
    ASSUME FlowOK, Deliver
    PROVE  FlowOK'
<1>1. SeenOK'
  BY SeenStays DEF FlowOK, Deliver
<1>2. PlaceOK'
  BY DEF FlowOK, PlaceOK, Deliver, JobShape, NoJob
<1>3. pc' = "idle" /\ job' = NoJob /\ performed' = <<>> /\ result' = NoResult
  BY DEF Deliver
<1> QED  BY <1>1, <1>2, <1>3, FlowWhenIdle

\* A command ends before it is built: refused, or the input has the focus already.
LEMMA RefuseKeepsFlow ==
    ASSUME FlowOK, NEW c \in Commands, Refuse(c) \/ FocusThere(c)
    PROVE  FlowOK'
<1>1. SeenOK'
  BY SeenStays DEF FlowOK, Refuse, FocusThere
<1>2. /\ pc' = "answered" /\ performed' = <<>>
      /\ job' = [[NoJob EXCEPT !.cmd = c] EXCEPT !.found = <<>>]
  BY DEF FlowOK, IdleOK, Refuse, FocusThere, End
<1>3. job' = [cmd |-> c, prev |-> 0, repaired |-> FALSE, required |-> "", found |-> <<>>,
              route |-> "", snap |-> 0, rid |-> 0, target |-> 0, done |-> TRUE]
  <2>1. job' = [[cmd |-> c, prev |-> 0, repaired |-> FALSE, required |-> "", found |-> <<>>,
                 route |-> "", snap |-> 0, rid |-> 0, target |-> 0, done |-> TRUE]
                    EXCEPT !.found = <<>>]
    BY <1>2, StartOf
  <2> DEFINE empty == <<>>
  <2> HIDE DEF empty
  <2> QED  BY <2>1 DEF empty
<1>4. JobShape' /\ job'.cmd = c /\ job'.prev = 0 /\ job'.snap = 0
  BY <1>3 DEF JobShape
<1>5. PlaceOK'
  BY <1>2, <1>4 DEF FlowOK, PlaceOK, Refuse, FocusThere
<1>6. JobOK' /\ AnsweredOK'
  <2>1. Len(seen') \in Nat
    BY <1>1, LenProperties DEF SeenOK
  <2> QED  BY <2>1, <1>2, <1>4 DEF JobOK, AnsweredOK
<1>7. OutcomeTruthful' /\ NoScreenFromBefore'
  <2>1. CASE Refuse(c)
    <3>1. Precheck(c) \in Refusals
      BY <2>1, PrecheckCodes DEF Refuse
    <3>2. result' = Failure(Precheck(c), FALSE, FALSE, cur)
      BY <2>1 DEF Refuse, End
    <3> HIDE DEF Refuse
    <3> QED  BY <1>2, <3>1, <3>2, RefusalTruthful
  <2>2. CASE FocusThere(c)
    <3>1. result'.execution = "notAttempted"
      BY <2>2 DEF FocusThere, End
    <3>2. ToSet(performed') = {}
      BY <1>2 DEF ToSet
    <3> QED  BY <3>1, <3>2 DEF OutcomeTruthful, NoScreenFromBefore
  <2> QED  BY <2>1, <2>2
<1> QED  BY <1>1, <1>2, <1>5, <1>6, <1>7, FlowWhenAnswered

\* A command that is refused ends with a truthful answer.
LEMMA FlowWhenRefused ==
    ASSUME NEW code \in Refusals, NEW screen,
           JobShape', job'.cmd \in Commands, job'.prev \in 0 .. Len(seen'),
           job'.snap \in 0 .. Len(seen'),
           SeenOK', cur' \in {0, Len(seen')}, connected' \in BOOLEAN, cur' # 0 => connected',
           pc' = "answered", result' = Failure(code, FALSE, FALSE, screen),
           performed' \in {<<>>, <<"lost">>}
    PROVE  FlowOK'
<1>1. PlaceOK' /\ JobOK' /\ AnsweredOK'
  BY DEF PlaceOK, JobOK, AnsweredOK
<1>2. OutcomeTruthful' /\ NoScreenFromBefore'
  BY RefusalTruthful
<1> QED  BY <1>1, <1>2, FlowWhenAnswered

\* A command starts; a ref of the current screen is admitted there.
LEMMA BeginKeepsFlow ==
    ASSUME FlowOK, NEW c \in Commands, Begin(c)
    PROVE  FlowOK'
<1> DEFINE start == [NoJob EXCEPT !.cmd = c, !.prev = cur]
           rid == seen[cur].refs[c.ref]
           built == Build(c, seen[cur], rid, "")
<1>1. SeenOK'
  BY SeenStays DEF FlowOK, Begin
<1>2. /\ Precheck(c) = "ok" /\ connected /\ (IsRef(c) => cur # 0)
      /\ performed = <<>> /\ performed' = <<>> /\ result = NoResult
      /\ cur' = cur /\ connected' = connected /\ seen' = seen
      /\ cur \in {0, Len(seen)}
  BY DEF Begin, Precheck, FlowOK, IdleOK, PlaceOK
<1>3. Len(seen) \in Nat /\ cur \in 0 .. Len(seen) /\ 0 \in 0 .. Len(seen)
  BY <1>2, LenProperties DEF FlowOK, SeenOK
<1>4. start = [cmd |-> c, prev |-> cur, repaired |-> FALSE, required |-> "", found |-> <<>>,
               route |-> "", snap |-> 0, rid |-> 0, target |-> 0, done |-> TRUE]
  <2>1. start = [[NoJob EXCEPT !.cmd = c] EXCEPT !.prev = cur]
    OBVIOUS
  <2> DEFINE empty == <<>>
             named == [cmd |-> c, prev |-> 0, repaired |-> FALSE, required |-> "",
                       found |-> empty, route |-> "", snap |-> 0, rid |-> 0, target |-> 0,
                       done |-> TRUE]
  <2>2. start = [named EXCEPT !.prev = cur]
    BY <2>1, StartOf
  <2> HIDE DEF start, empty
  <2> QED  BY <2>2 DEF empty
<1> HIDE DEF start
<1>5. CASE ~IsRef(c) /\ pc' = "send" /\ job' = start /\ result' = result
  <2>1. PlaceOK' /\ JobOK' /\ RunningOK' /\ RepairOK' /\ SendOK'
    BY <1>2, <1>3, <1>4, <1>5
       DEF PlaceOK, JobShape, JobOK, RunningOK, RepairOK, SendOK, KindOK, IsRef
  <2>2. AdmissibleDispatch' /\ NewestSource'
    BY <1>4, <1>5 DEF AdmissibleDispatch, NewestSource, IsRef
  <2> QED  BY <1>1, <1>5, <2>1, <2>2, FlowWhenRunning
<1>6. ASSUME IsRef(c), c.screen # Current, pc' = "repair", result' = result,
             NEW found \in Findings, job' = [start EXCEPT !.repaired = TRUE, !.found = found]
      PROVE  FlowOK'
  <2>1. job' = [cmd |-> c, prev |-> cur, repaired |-> TRUE, required |-> "", found |-> found,
                route |-> "", snap |-> 0, rid |-> 0, target |-> 0, done |-> TRUE]
    BY <1>4, <1>6
  <2>2. found \in [DOMAIN seen -> Statuses]
    BY <1>6 DEF Findings, Statuses
  <2>3. Current' = Current
    BY <1>2 DEF Current
  <2>4. /\ JobShape'
        /\ job'.cmd = c /\ job'.prev = cur /\ job'.snap = 0 /\ job'.repaired = TRUE
        /\ job'.found = found /\ job'.route = "" /\ job'.required = ""
    BY <2>1 DEF JobShape
  <2>5. PlaceOK' /\ JobOK' /\ RunningOK' /\ SendOK'
    BY <1>2, <1>3, <2>4, <1>6 DEF PlaceOK, JobOK, RunningOK, SendOK
  <2>6. RepairOK'
    BY <1>2, <2>4, <2>2, <2>3, <1>6 DEF RepairOK, KindOK
  <2>7. AdmissibleDispatch' /\ NewestSource'
    BY <1>6 DEF AdmissibleDispatch, NewestSource
  <2> QED  BY <1>1, <1>6, <2>5, <2>6, <2>7, FlowWhenRunning
<1>7. CASE /\ IsRef(c) /\ c.screen = Current /\ built.code = "ok"
           /\ pc' = "send" /\ result' = result
           /\ job' = [start EXCEPT !.snap = cur, !.rid = rid, !.route = built.route,
                                   !.target = built.target]
  <2>1. job' = [cmd |-> c, prev |-> cur, repaired |-> FALSE, required |-> "", found |-> <<>>,
                route |-> built.route, snap |-> cur, rid |-> rid, target |-> built.target,
                done |-> TRUE]
    <3> HIDE DEF built, rid
    <3> QED  BY <1>4, <1>7
  <2>2. Faithful(seen[cur]) /\ cur # 0
    <3>1. cur \in DOMAIN seen
      <4>1. DOMAIN seen = 1 .. Len(seen) /\ cur # 0
        BY <1>2, <1>7, LenProperties DEF FlowOK, SeenOK
      <4> QED  BY <4>1, <1>3
    <3> QED  BY <3>1, <1>2, <1>7 DEF FlowOK, SeenOK
  <2>3. AdmittedAs(seen[cur].ui, c, rid, built)
    <3> HIDE DEF rid
    <3> QED  BY <2>2, <1>7, BuildAdmits
  <2>4. c.kind # "submit" =>
            Admission(Compiled[seen[cur].ui], TheNode(Compiled[seen[cur].ui], rid), c) = "ok"
    BY <1>2, <1>7 DEF Precheck
  <2> HIDE DEF built, rid
  <2>5. /\ JobShape'
         /\ job'.cmd = c /\ job'.prev = cur /\ job'.snap = cur /\ job'.repaired = FALSE
         /\ job'.found = <<>> /\ job'.route = built.route /\ job'.required = ""
    BY <2>1 DEF JobShape
  <2>6. NamedAdmits'
    BY <1>2, <2>1, <2>3, <2>4 DEF NamedAdmits, AdmittedAs
  <2>7. Current' = Current
    BY <1>2 DEF Current
  <2>8. c.kind # "submit" => built.route = ""
    BY <2>3 DEF AdmittedAs
  <2>9. PlaceOK' /\ JobOK' /\ RunningOK' /\ RepairOK'
    BY <1>2, <1>3, <2>5, <1>7 DEF PlaceOK, JobOK, RunningOK, RepairOK
  <2>10. SendOK'
    BY <1>2, <1>7, <2>5, <2>2, <2>7, <2>8 DEF SendOK, KindOK
  <2>11. AdmissibleDispatch' /\ NewestSource'
    BY <1>2, <1>7, <2>5, <2>2, <2>6 DEF AdmissibleDispatch, NewestSource
  <2> QED  BY <1>1, <1>7, <2>9, <2>10, <2>11, FlowWhenRunning
<1>8. CASE /\ built.code # "ok"
           /\ End(start, Failure(built.code, FALSE, FALSE, cur))
  <2>1. built.code \in Refusals
    BY <1>8, BuildCodes
  <2> HIDE DEF built
  <2>2. job' = start /\ pc' = "answered" /\ result' = Failure(built.code, FALSE, FALSE, cur)
    <3>1. job' = [start EXCEPT !.found = <<>>] /\ pc' = "answered"
          /\ result' = Failure(built.code, FALSE, FALSE, cur)
      BY <1>8 DEF End
    <3> DEFINE empty == <<>>
               none == ""
               zero == 0
               no == FALSE
               yes == TRUE
    <3>2. start = [cmd |-> c, prev |-> cur, repaired |-> no, required |-> none,
                   found |-> empty, route |-> none, snap |-> zero, rid |-> zero,
                   target |-> zero, done |-> yes]
      BY <1>4
    <3>3. job' = [start EXCEPT !.found = empty]
      BY <3>1
    <3> HIDE DEF empty, none, zero, no, yes
    <3>4. job' = start
      BY <3>2, <3>3
    <3> QED  BY <3>1, <3>4
  <2>3. JobShape' /\ job'.cmd = c /\ job'.prev = cur /\ job'.snap = 0
    BY <1>4, <2>2 DEF JobShape
  <2> QED  BY <1>1, <1>2, <1>3, <2>1, <2>2, <2>3, FlowWhenRefused
<1>9. \/ ~IsRef(c) /\ pc' = "send" /\ job' = start /\ result' = result
      \/ /\ IsRef(c) /\ c.screen # Current /\ pc' = "repair" /\ result' = result
         /\ \E found \in Findings : job' = [start EXCEPT !.repaired = TRUE, !.found = found]
      \/ /\ IsRef(c) /\ c.screen = Current /\ built.code = "ok"
         /\ pc' = "send" /\ result' = result
         /\ job' = [start EXCEPT !.snap = cur, !.rid = rid, !.route = built.route,
                                 !.target = built.target]
      \/ built.code # "ok" /\ End(start, Failure(built.code, FALSE, FALSE, cur))
  BY DEF Begin, start
<1> HIDE DEF built, rid
<1> QED  BY <1>5, <1>6, <1>7, <1>8, <1>9

\* A command under way that is refused ends with a truthful answer.
LEMMA FlowWhenFailed ==
    ASSUME FlowOK, pc \in {"repair", "send"}, NEW code \in Refusals, NEW screen,
           End(job, Failure(code, FALSE, FALSE, screen)),
           SeenOK', Len(seen) <= Len(seen'), cur' \in {0, Len(seen')}, connected' = connected,
           performed' \in {<<>>, <<"lost">>}
    PROVE  FlowOK'
<1>1. /\ JobShape' /\ job'.cmd = job.cmd /\ job'.prev = job.prev /\ job'.snap = job.snap
      /\ pc' = "answered" /\ result' = Failure(code, FALSE, FALSE, screen)
  <2>1. job' = [job EXCEPT !.found = <<>>] /\ pc' = "answered"
        /\ result' = Failure(code, FALSE, FALSE, screen)
    BY DEF End
  <2>2. JobShape
    BY DEF FlowOK, PlaceOK
  <2> QED  BY <2>1, <2>2, EndKeepsJob
<1>2. /\ job.cmd \in Commands /\ connected = TRUE
      /\ job.prev \in 0 .. Len(seen) /\ job.snap \in 0 .. Len(seen)
  BY DEF FlowOK, JobOK, RunningOK, PlaceOK
<1>3. Len(seen) \in Nat /\ Len(seen') \in Nat
  BY LenProperties DEF FlowOK, SeenOK
<1>4. job'.prev \in 0 .. Len(seen') /\ job'.snap \in 0 .. Len(seen')
  BY <1>1, <1>2, <1>3
<1> QED  BY <1>1, <1>2, <1>4, FlowWhenRefused

\* A repair that has no source or no screen ends the command.
LEMMA RepairFailsKeepsFlow ==
    ASSUME FlowOK, RepairFails
    PROVE  FlowOK'
<1>1. SeenOK' /\ Len(seen) <= Len(seen')
  <2>1. Len(seen) \in Nat
    BY LenProperties DEF FlowOK, SeenOK
  <2> QED  BY <2>1, SeenStays DEF FlowOK, RepairFails
<1>2. PICK code \in {Source(job.cmd).code, "DEVICE_RPC_FAILED"} \ {"ok"} :
          End(job, Failure(code, FALSE, FALSE, cur))
  BY DEF RepairFails
<1>3. code \in Refusals
  <2>1. Source(job.cmd).code \in Refusals \cup {"ok"} /\ "DEVICE_RPC_FAILED" \in Refusals
    BY SourceCodes DEF Refusals
  <2> QED  BY <2>1
<1>4. /\ pc = "repair" /\ cur' \in {0, Len(seen')} /\ connected' = connected
      /\ performed' = <<>>
  BY DEF RepairFails, FlowOK, PlaceOK, RunningOK
<1> QED  BY <1>1, <1>2, <1>3, <1>4, FlowWhenFailed

\* A repair publishes the screen, and the request is for the element of that screen that
\* matches the description in the newest publication of the source.
LEMMA RepairKeepsFlow ==
    ASSUME FlowOK, NEW u \in UIs, Repair(u)
    PROVE  FlowOK'
<1> DEFINE screen == Published(u)
           c == job.cmd
           at == Source(c).at
           desc == DescriptionOf(at, c.ref)
           rid == Best(desc, ToSet(Candidates[u]))
           built == IF rid = 0 THEN NoRoute("REF_STALE")
                    ELSE Build(c, screen, rid, job.required)
           requested == /\ pc' = "send"
                        /\ job' = [job EXCEPT !.snap = Len(seen) + 1, !.rid = rid,
                                              !.route = built.route, !.target = built.target]
                        /\ UNCHANGED result
           ended == End(job, Failure(built.code, FALSE, FALSE, Len(seen) + 1))
           onto(s) == LET b == IF rid = 0 THEN NoRoute("REF_STALE")
                               ELSE Build(c, s, rid, job.required)
                      IN  /\ Publish(s)
                          /\ IF b.code = "ok"
                             THEN /\ pc' = "send"
                                  /\ job' = [job EXCEPT !.snap = Len(seen) + 1, !.rid = rid,
                                                        !.route = b.route, !.target = b.target]
                                  /\ UNCHANGED result
                             ELSE End(job, Failure(b.code, FALSE, FALSE, Len(seen) + 1))
<1>1. /\ pc = "repair" /\ Source(c).code = "ok"
      /\ connected' = connected /\ performed' = performed
      /\ \E s \in {screen} : onto(s)
  BY Zenon DEF Repair
<1>2. onto(screen)
  <2> HIDE DEF onto, screen
  <2> QED  BY <1>1
<1>3. Publish(screen) /\ IF built.code = "ok" THEN requested ELSE ended
  <2> HIDE DEF rid, screen
  <2> QED  BY <1>2
<1>4. /\ pc = "repair" /\ Source(c).code = "ok" /\ Publish(screen)
      /\ connected' = connected /\ performed' = performed
  BY <1>1, <1>3
<1> HIDE DEF onto
<1>5. /\ SeenOK /\ PlaceOK /\ RepairOK /\ RunningOK /\ JobOK /\ JobShape
      /\ performed = <<>> /\ connected = TRUE /\ result = NoResult
  BY <1>4 DEF FlowOK, PlaceOK, RunningOK
<1>6. screen \in Screens /\ Faithful(screen) /\ screen.ui = u
  BY <1>5, PublishedFaithful
<1>7. /\ SeenOK' /\ Len(seen') = Len(seen) + 1 /\ cur' = Len(seen') /\ cur' # 0
      /\ \A i \in DOMAIN seen : seen'[i] = seen[i]
      /\ seen'[Len(seen')] = screen
      /\ Len(seen) \in Nat
  <2> HIDE DEF screen
  <2> QED  BY <1>4, <1>5, <1>6, PublishAppends
<1> HIDE DEF screen
<1>8. CASE built.code # "ok" /\ ended
  <2>1. built.code \in Refusals
    <3>1. Build(c, screen, rid, job.required).code \in Refusals \cup {"ok"}
      BY BuildCodes
    <3>2. NoRoute("REF_STALE").code \in Refusals
      BY DEF NoRoute, Refusals
    <3> HIDE DEF rid
    <3> QED  BY <1>8, <3>1, <3>2
  <2> HIDE DEF built
  <2>2. pc = "repair" /\ connected' = connected /\ performed' = <<>>
    BY <1>4, <1>5
  <2>3. Len(seen) <= Len(seen')
    BY <1>7
  <2> QED  BY <1>7, <1>8, <2>1, <2>2, <2>3, FlowWhenFailed
<1>9. CASE built.code = "ok" /\ requested
  <2>1. rid # 0 /\ built = Build(c, screen, rid, job.required)
    <3>1. NoRoute("REF_STALE").code # "ok"
      BY DEF NoRoute
    <3> HIDE DEF rid
    <3> QED  BY <1>9, <3>1
  <2>2. PICK n \in ToSet(Candidates[u]) : n.rid = rid /\ Matches(desc, Description(n))
    <3> HIDE DEF desc
    <3> QED  BY <2>1, BestMatches
  <2> HIDE DEF rid
  <2>3. TheNode(Compiled[u], rid) = n
    BY <2>2, NodesByRid
  <2>4. AdmittedAs(u, c, rid, built)
    <3> HIDE DEF c
    <3> QED  BY <1>6, <1>9, <2>1, BuildAdmits
  <2> HIDE DEF built
  <2>5. /\ job'.cmd = c /\ job'.prev = job.prev /\ job'.repaired = TRUE
        /\ job'.required = job.required /\ job'.found = job.found
        /\ job'.route = built.route /\ job'.snap = Len(seen) + 1 /\ job'.rid = rid
        /\ job'.target = built.target
        /\ JobShape'
    <3>1. job' = [cmd |-> job.cmd, prev |-> job.prev, repaired |-> job.repaired,
                  required |-> job.required, found |-> job.found, route |-> built.route,
                  snap |-> Len(seen) + 1, rid |-> rid, target |-> built.target,
                  done |-> job.done]
      BY <1>5, <1>9 DEF JobShape
    <3>2. job.repaired = TRUE
      BY <1>4, <1>5 DEF RepairOK
    <3> QED  BY <3>1, <3>2 DEF JobShape
  <2>6. KindOK /\ IsRef(c)
    BY <1>4, <1>5 DEF RepairOK
  <2>7. PlaceOK'
    BY <1>5, <1>4, <1>7, <1>9, <2>5 DEF PlaceOK
  <2>8. JobOK'
    BY <1>4, <1>5, <1>7, <2>5 DEF JobOK
  <2>9. RunningOK' /\ RepairOK'
    BY <1>4, <1>5, <1>9 DEF RunningOK, RepairOK
  <2>10. SendOK'
    <3>1. c.kind # "submit" => built.route = ""
      BY <2>4 DEF AdmittedAs
    <3> QED  BY <1>7, <2>5, <2>6, <3>1 DEF SendOK, KindOK
  <2>11. AdmissibleDispatch'
    <3>1. seen'[job'.snap].ui = u /\ job'.snap = Len(seen')
      BY <1>6, <1>7, <2>5
    <3>2. NamedAdmits' \/ (SourceReturned' /\ c.kind # "submit")
      <4>1. CASE c.kind = "submit"
        BY <2>4, <2>5, <3>1, <4>1 DEF AdmittedAs, NamedAdmits
      <4>2. CASE c.kind # "submit" /\ c.screen # ScreenOf[u]
        BY <2>4, <2>5, <3>1, <4>2 DEF AdmittedAs, NamedAdmits, ResolvedAdmission
      <4>3. CASE c.kind # "submit" /\ c.screen = ScreenOf[u]
        BY <2>5, <2>6, <3>1, <4>3 DEF SourceReturned, KindOK
      <4> QED  BY <4>1, <4>2, <4>3
    <3> QED  BY <1>7, <2>5, <3>1, <3>2 DEF AdmissibleDispatch
  <2>12. NewestSource'
    <3>1. /\ at \in GivenBefore(Len(seen))
          /\ \A i \in GivenBefore(Len(seen)) : i <= at
          /\ c.ref \in DOMAIN seen[at].refs
      BY <1>4, <1>5, SourceIsNewest
    <3> DEFINE given == GivenBefore(Len(seen))
               last == CHOOSE i \in given : \A j \in given : j <= i
    <3> HIDE DEF at
    <3>2. \A i \in given : i \in Nat /\ i \in DOMAIN seen
      BY <1>5, <1>7, LenProperties DEF GivenBefore, SeenOK
    <3>3. last = at
      <4>1. at \in given /\ \A j \in given : j <= at
        BY <3>1
      <4> HIDE DEF given
      <4>2. last \in given /\ \A j \in given : j <= last
        BY <4>1
      <4> HIDE DEF last
      <4>3. last <= at /\ at <= last /\ last \in Nat /\ at \in Nat
        BY <3>2, <4>1, <4>2
      <4> QED  BY <4>3
    <3>4. {i \in 1 .. job'.snap - 1 :
              /\ ScreenOf[seen'[i].ui] = job'.cmd.screen
              /\ i \in DOMAIN job'.found => job'.found[i] # "gone"} = given
      <4>1. job'.snap - 1 = Len(seen)
        BY <1>7, <2>5
      <4>2. \A i \in 1 .. Len(seen) : seen'[i] = seen[i]
        BY <1>5, <1>7, LenProperties DEF SeenOK
      <4> QED  BY <2>5, <4>1, <4>2 DEF GivenBefore
    <3>5. seen'[at] = seen[at]
      BY <1>7, <3>1, <3>2
    <3>6. seen'[job'.snap].ui = u
      BY <1>6, <1>7, <2>5
    <3> QED  BY <2>2, <2>3, <2>5, <3>1, <3>3, <3>4, <3>5, <3>6 DEF NewestSource, DescriptionOf
  <2> QED  BY <1>7, <1>9, <2>7, <2>8, <2>9, <2>10, <2>11, <2>12, FlowWhenRunning
<1> HIDE DEF built, requested, ended
<1> QED  BY <1>3, <1>8, <1>9

\* The device does the action, for the first time.
LEMMA PerformKeepsFlow ==
    ASSUME FlowOK, Perform
    PROVE  FlowOK'
<1>1. /\ pc = "send" /\ pc' = "confirm" /\ performed' = <<"answered">> /\ result' = NoResult
      /\ connected' = connected /\ connected = TRUE /\ seen' = seen
      /\ cur' \in {0, Len(seen')}
      /\ job.cmd \in Commands /\ job.prev \in 0 .. Len(seen) /\ job.snap \in 0 .. Len(seen)
  <2>1. pc = "send" /\ performed' = Append(performed, "answered")
    BY DEF Perform
  <2>2. performed = <<>>
    BY <2>1 DEF FlowOK, RunningOK
  <2>3. performed' = <<"answered">>
    BY <2>1, <2>2
  <2> QED  BY <2>1, <2>3 DEF Perform, FlowOK, PlaceOK, RunningOK, JobOK
<1>2. /\ JobShape' /\ job'.cmd = job.cmd /\ job'.prev = job.prev /\ job'.snap = job.snap
  <2>1. PICK done \in BOOLEAN : job' = [job EXCEPT !.done = done, !.found = <<>>]
    BY DEF Perform
  <2> DEFINE empty == <<>>
  <2>2. job' = [job EXCEPT !.done = done, !.found = empty]
    BY <2>1
  <2> HIDE DEF empty
  <2>3. job' = [cmd |-> job.cmd, prev |-> job.prev, repaired |-> job.repaired,
                required |-> job.required, found |-> empty, route |-> job.route,
                snap |-> job.snap, rid |-> job.rid, target |-> job.target, done |-> done]
    BY <2>2 DEF FlowOK, PlaceOK, JobShape
  <2> QED  BY <2>3 DEF JobShape
<1>3. SeenOK'
  BY <1>1, SeenStays DEF FlowOK
<1>4. PlaceOK' /\ JobOK' /\ RunningOK' /\ RepairOK' /\ SendOK'
  BY <1>1, <1>2 DEF PlaceOK, JobOK, RunningOK, RepairOK, SendOK
<1>5. AdmissibleDispatch' /\ NewestSource'
  BY <1>1 DEF AdmissibleDispatch, NewestSource
<1> QED  BY <1>1, <1>3, <1>4, <1>5, FlowWhenRunning

\* A stale target goes back to the repair; nothing was done.
LEMMA ResendKeepsFlow ==
    ASSUME FlowOK, pc = "send", NEW code, Resendable(code), SendFails(code),
           UNCHANGED <<seen, cur, connected, performed>>
    PROVE  FlowOK'
<1>1. /\ pc' = "repair" /\ job' = [job EXCEPT !.repaired = TRUE, !.required = job.route]
      /\ result' = result /\ IsRef(job.cmd) /\ job.repaired = FALSE
  BY DEF SendFails, Resendable, FlowOK, SendOK
<1>2. /\ JobShape' /\ job'.cmd = job.cmd /\ job'.prev = job.prev /\ job'.snap = job.snap
      /\ job'.repaired = TRUE /\ job'.required = job.route /\ job'.route = job.route
      /\ job'.found = job.found
  <2> DEFINE yes == TRUE
  <2>1. job' = [job EXCEPT !.repaired = yes, !.required = job.route]
    BY <1>1
  <2> HIDE DEF yes
  <2>2. job' = [cmd |-> job.cmd, prev |-> job.prev, repaired |-> yes,
                required |-> job.route, found |-> job.found, route |-> job.route,
                snap |-> job.snap, rid |-> job.rid, target |-> job.target, done |-> job.done]
    BY <2>1 DEF FlowOK, PlaceOK, JobShape
  <2>3. /\ job'.cmd = job.cmd /\ job'.prev = job.prev /\ job'.snap = job.snap
        /\ job'.repaired = yes /\ job'.required = job.route /\ job'.route = job.route
        /\ job'.found = job.found /\ JobShape'
    BY <2>2 DEF JobShape
  <2> QED  BY <2>3 DEF yes
<1>3. SeenOK'
  BY SeenStays DEF FlowOK
<1>4. PlaceOK' /\ JobOK' /\ RunningOK'
  BY <1>1, <1>2 DEF FlowOK, PlaceOK, JobOK, RunningOK
<1>5. RepairOK'
  <2>1. /\ KindOK /\ cur # 0 /\ cur' = cur
        /\ job.found = <<>> /\ job.cmd.screen = Current /\ Current' = Current
    BY <1>1 DEF FlowOK, SendOK, Current
  <2> QED  BY <1>1, <1>2, <2>1 DEF RepairOK, KindOK
<1>6. SendOK' /\ AdmissibleDispatch' /\ NewestSource'
  BY <1>1 DEF SendOK, AdmissibleDispatch, NewestSource
<1> QED  BY <1>1, <1>3, <1>4, <1>5, <1>6, FlowWhenRunning

\* The device answers that it did nothing.
LEMMA RejectKeepsFlow ==
    ASSUME FlowOK,
           NEW code \in {"STALE_TARGET", "TARGET_NOT_ACTIONABLE", "ACTION_FAILED",
                         "DEVICE_AGENT_UNAUTHORIZED"},
           Reject(code)
    PROVE  FlowOK'
<1>1. /\ pc = "send" /\ SendFails(code)
      /\ UNCHANGED <<seen, cur, connected, performed>>
      /\ performed = <<>> /\ cur \in {0, Len(seen)} /\ connected = TRUE /\ JobShape
      /\ job.cmd \in Commands /\ job.prev \in 0 .. Len(seen) /\ job.snap \in 0 .. Len(seen)
  BY DEF Reject, FlowOK, RunningOK, PlaceOK, JobOK
<1>2. SeenOK' /\ Len(seen) <= Len(seen')
  <2>1. Len(seen) \in Nat
    BY LenProperties DEF FlowOK, SeenOK
  <2> QED  BY <1>1, <2>1, SeenStays DEF FlowOK
<1>3. CASE Resendable(code)
  BY <1>1, <1>3, ResendKeepsFlow
<1>4. CASE ~Resendable(code) /\ ActionError(code) \in Refusals
  <2>1. End(job, Failure(ActionError(code), FALSE, FALSE, cur))
    BY <1>1, <1>4 DEF SendFails
  <2> QED  BY <1>1, <1>2, <1>4, <2>1, FlowWhenFailed
<1>5. CASE ~Resendable(code) /\ ActionError(code) = "OPEN_FAILED"
  <2>1. /\ pc' = "answered" /\ job' = [job EXCEPT !.found = <<>>]
        /\ result' = Failure("OPEN_FAILED", FALSE, FALSE, cur)
    BY <1>1, <1>5 DEF SendFails, End
  <2>2. JobShape' /\ job'.cmd = job.cmd /\ job'.prev = job.prev /\ job'.snap = job.snap
    BY <1>1, <2>1, EndKeepsJob
  <2>3. PlaceOK' /\ JobOK' /\ AnsweredOK'
    BY <1>1, <2>1, <2>2 DEF PlaceOK, JobOK, AnsweredOK
  <2>4. OutcomeTruthful' /\ NoScreenFromBefore'
    <3>1. result'.code = "OPEN_FAILED"
      BY <2>1 DEF Failure, SemanticCode, NotConfirmed
    <3>2. performed' = <<>> /\ ToSet(performed') = {}
      BY <1>1 DEF ToSet
    <3> QED  BY <3>1, <3>2 DEF OutcomeTruthful, NoScreenFromBefore
  <2> QED  BY <1>2, <2>1, <2>3, <2>4, FlowWhenAnswered
<1>6. ActionError(code) \in Refusals \cup {"OPEN_FAILED"}
  BY DEF ActionError, Refusals
<1> QED  BY <1>3, <1>4, <1>5, <1>6

\* The answer is lost: the action is not sent again.
LEMMA LoseAnswerKeepsFlow ==
    ASSUME FlowOK, LoseAnswer
    PROVE  FlowOK'
<1>1. /\ pc = "send" /\ End(job, Failure("DEVICE_RPC_TRANSPORT_RESET", FALSE, FALSE, cur))
      /\ UNCHANGED <<seen, cur, connected>> /\ cur \in {0, Len(seen)}
  BY DEF LoseAnswer, SendFails, Resendable, ActionError, FlowOK, PlaceOK
<1>2. performed' \in {<<>>, <<"lost">>}
  <2>1. performed = <<>>
    BY <1>1 DEF FlowOK, RunningOK
  <2> QED  BY <2>1 DEF LoseAnswer
<1>3. SeenOK' /\ Len(seen) <= Len(seen')
  <2>1. Len(seen) \in Nat
    BY LenProperties DEF FlowOK, SeenOK
  <2> QED  BY <1>1, <2>1, SeenStays DEF FlowOK
<1>4. "DEVICE_RPC_TRANSPORT_RESET" \in Refusals
  BY DEF Refusals
<1> QED  BY <1>1, <1>2, <1>3, <1>4, FlowWhenFailed

\* A command that was performed ends as dispatched, with the screen after it or none.
LEMMA FlowWhenDone ==
    ASSUME FlowOK, pc = "confirm", NEW answer, End(job, answer), answer.execution = "dispatched",
           SeenOK', cur' \in {0, Len(seen')}, connected' \in BOOLEAN, cur' # 0 => connected',
           performed' = performed, Len(seen) <= Len(seen'),
           answer.screen = cur', cur' # 0 => Len(seen) < cur'
    PROVE  FlowOK'
<1>1. /\ JobShape' /\ job'.cmd = job.cmd /\ job'.prev = job.prev /\ job'.snap = job.snap
      /\ pc' = "answered" /\ result' = answer
  <2>1. job' = [job EXCEPT !.found = <<>>] /\ pc' = "answered" /\ result' = answer
    BY DEF End
  <2>2. JobShape
    BY DEF FlowOK, PlaceOK
  <2> QED  BY <2>1, <2>2, EndKeepsJob
<1>2. /\ job.cmd \in Commands /\ performed = <<"answered">>
      /\ job.prev \in 0 .. Len(seen) /\ job.snap \in 0 .. Len(seen)
  BY DEF FlowOK, JobOK, RunningOK
<1>3. Len(seen) \in Nat /\ Len(seen') \in Nat
  BY LenProperties DEF FlowOK, SeenOK
<1>4. job'.prev \in 0 .. Len(seen') /\ job'.snap \in 0 .. Len(seen')
  BY <1>1, <1>2, <1>3
<1>5. PlaceOK' /\ JobOK' /\ AnsweredOK'
  BY <1>1, <1>2, <1>4 DEF PlaceOK, JobOK, AnsweredOK
<1>6. OutcomeTruthful'
  <2>1. performed' # <<>>
    BY <1>2
  <2> QED  BY <1>1, <2>1 DEF OutcomeTruthful
<1>7. NoScreenFromBefore'
  <2>1. cur' # 0 => cur' # job'.prev /\ cur' # job'.snap
    BY <1>1, <1>2, <1>3
  <2> QED  BY <1>1, <2>1 DEF NoScreenFromBefore
<1> QED  BY <1>1, <1>5, <1>6, <1>7, FlowWhenAnswered

\* The screen after the action is published, and confirms the action or not.
LEMMA ConfirmKeepsFlow ==
    ASSUME FlowOK, NEW u \in UIs, Confirm(u)
    PROVE  FlowOK'
<1> DEFINE answer(screen, check) ==
               IF check.code = "ok"
               THEN [code |-> "success", execution |-> "dispatched", screen |-> Len(seen) + 1,
                     target |-> ConfirmedTarget(screen, check.status)]
               ELSE Failure(check.code, TRUE, FALSE, Len(seen) + 1)
<1>1. /\ pc = "confirm" /\ connected' = connected /\ performed' = performed
      /\ \E screen \in {Published(u)} : \E check \in {Confirmation(screen)} :
             Publish(screen) /\ End(job, answer(screen, check))
  BY DEF Confirm
<1> HIDE DEF answer
<1>2. PICK screen, check : /\ screen = Published(u) /\ check = Confirmation(screen)
                           /\ Publish(screen) /\ End(job, answer(screen, check))
  BY <1>1
<1>3. SeenOK /\ PlaceOK /\ connected = TRUE
  BY <1>1 DEF FlowOK, PlaceOK, RunningOK
<1>4. screen \in Screens /\ Faithful(screen)
  BY <1>2, <1>3, PublishedFaithful
<1>5. /\ SeenOK' /\ Len(seen') = Len(seen) + 1 /\ cur' = Len(seen') /\ Len(seen) \in Nat
  BY <1>2, <1>3, <1>4, PublishAppends
<1>6. answer(screen, check).execution = "dispatched"
      /\ answer(screen, check).screen = Len(seen) + 1
  <2>1. check.code \in Doubts \cup {"ok"}
    BY <1>2, ConfirmationCodes
  <2>2. CASE check.code = "ok"
    BY <2>2 DEF answer
  <2>3. CASE check.code # "ok"
    <3>1. check.code \in Doubts /\ answer(screen, check) = Failure(check.code, TRUE, FALSE, Len(seen) + 1)
      BY <2>1, <2>3 DEF answer
    <3>2. Failure(check.code, TRUE, FALSE, Len(seen) + 1).execution = "dispatched"
      BY <3>1, DoubtsDispatched
    <3>3. Failure(check.code, TRUE, FALSE, Len(seen) + 1).screen = Len(seen) + 1
      BY DEF Failure
    <3> QED  BY <3>1, <3>2, <3>3
  <2> QED  BY <2>2, <2>3
<1>7. /\ cur' \in {0, Len(seen')} /\ connected' = TRUE /\ Len(seen) <= Len(seen')
      /\ Len(seen) < cur' /\ answer(screen, check).screen = cur'
  BY <1>1, <1>3, <1>5, <1>6
<1> QED  BY <1>1, <1>2, <1>5, <1>6, <1>7, FlowWhenDone

\* There is no screen after the action: none has the authority.
LEMMA LoseScreenKeepsFlow ==
    ASSUME FlowOK,
           NEW code \in {"DEVICE_DISCONNECTED", "SCREEN_NOT_READY", "DEVICE_AGENT_UNAUTHORIZED"},
           LoseScreen(code)
    PROVE  FlowOK'
<1> DEFINE lost == code # "DEVICE_AGENT_UNAUTHORIZED"
           answer == Failure(code, TRUE, lost, 0)
<1>1. /\ pc = "confirm" /\ cur' = 0 /\ connected' = lost /\ End(job, answer)
      /\ seen' = seen /\ performed' = performed
  BY DEF LoseScreen, AuthorityAfterLoss
<1>2. answer.execution = "dispatched" /\ answer.screen = 0
  BY DEF Failure, FailureExecution
<1>3. SeenOK' /\ Len(seen) <= Len(seen')
  <2>1. Len(seen) \in Nat
    BY LenProperties DEF FlowOK, SeenOK
  <2> QED  BY <1>1, <2>1, SeenStays DEF FlowOK
<1>4. connected' \in BOOLEAN
  BY <1>1
<1> HIDE DEF answer, lost
<1> QED  BY <1>1, <1>2, <1>3, <1>4, FlowWhenDone

\* A step that changes nothing.
LEMMA StutterKeepsFlow ==
    ASSUME FlowOK, UNCHANGED vars
    PROVE  FlowOK'
<1>1. /\ seen' = seen /\ cur' = cur /\ connected' = connected /\ pc' = pc
      /\ job' = job /\ performed' = performed /\ result' = result
  BY DEF vars
<1>2. SeenOK'
  BY <1>1, SeenStays DEF FlowOK
<1>3. Current' = Current /\ SourceReturned' = SourceReturned
      /\ NamedAdmits' = NamedAdmits /\ JobShape' = JobShape /\ KindOK' = KindOK
  BY <1>1 DEF Current, SourceReturned, NamedAdmits, JobShape, KindOK
<1>4. PlaceOK' /\ IdleOK' /\ RunningOK' /\ JobOK' /\ AnsweredOK'
  BY <1>1, <1>3 DEF FlowOK, PlaceOK, IdleOK, RunningOK, JobOK, AnsweredOK
<1>5. RepairOK' /\ SendOK'
  BY <1>1, <1>3 DEF FlowOK, RepairOK, SendOK
<1>6. AdmissibleDispatch' /\ OutcomeTruthful' /\ NoScreenFromBefore'
  BY <1>1, <1>3 DEF FlowOK, AdmissibleDispatch, OutcomeTruthful, NoScreenFromBefore
<1>7. NewestSource'
  BY <1>1 DEF FlowOK, NewestSource, DescriptionOf
<1> QED  BY <1>2, <1>4, <1>5, <1>6, <1>7 DEF FlowOK

\* Every step keeps the invariant.
LEMMA FlowStep == FlowOK /\ [Next]_vars => FlowOK'
<1> SUFFICES ASSUME FlowOK, [Next]_vars PROVE FlowOK'
  OBVIOUS
<1>1. ASSUME NEW u \in UIs, Observe(u) \/ Repair(u) \/ Confirm(u) PROVE FlowOK'
  BY <1>1, ObserveKeepsFlow, RepairKeepsFlow, ConfirmKeepsFlow
<1>2. CASE Perform \/ LoseAnswer \/ Connect \/ RepairFails \/ Deliver
  BY <1>2, PerformKeepsFlow, LoseAnswerKeepsFlow, ConnectKeepsFlow, RepairFailsKeepsFlow,
     DeliverKeepsFlow
<1>3. ASSUME NEW c \in Commands, Refuse(c) \/ FocusThere(c) \/ Begin(c) PROVE FlowOK'
  BY <1>3, RefuseKeepsFlow, BeginKeepsFlow
<1>4. ASSUME NEW code \in {"STALE_TARGET", "TARGET_NOT_ACTIONABLE", "ACTION_FAILED",
                           "DEVICE_AGENT_UNAUTHORIZED"},
             Reject(code)
      PROVE  FlowOK'
  BY <1>4, RejectKeepsFlow
<1>5. ASSUME NEW code \in {"DEVICE_DISCONNECTED", "SCREEN_NOT_READY",
                           "DEVICE_AGENT_UNAUTHORIZED"},
             LoseScreen(code)
      PROVE  FlowOK'
  BY <1>5, LoseScreenKeepsFlow
<1>6. CASE UNCHANGED vars
  BY <1>6, StutterKeepsFlow
<1> QED  BY <1>1, <1>2, <1>3, <1>4, <1>5, <1>6 DEF Next

\* The inductive invariant holds in every state.
THEOREM FlowCorrect == Spec => []FlowOK
BY FlowInitially, FlowStep, PTL DEF Spec

\* The types, for any screens, commands and bounds.
THEOREM FlowTypeCorrect == Spec => []FlowTypeOK
<1>1. FlowOK => FlowTypeOK
  <2> SUFFICES ASSUME FlowOK PROVE FlowTypeOK
    OBVIOUS
  <2>1. ASSUME NEW i \in DOMAIN seen
        PROVE  /\ seen[i].ui \in UIs
               /\ Bound(seen[i].refs) \subseteq DOMAIN Snapshot[seen[i].ui].nodes
               /\ seen[i].reused \subseteq DOMAIN seen[i].refs
    <3>1. Faithful(seen[i])
      BY DEF FlowOK, SeenOK
    <3>2. seen[i].ui \in UIs /\ Bound(seen[i].refs) = Rids(Candidates[seen[i].ui])
          /\ seen[i].reused \subseteq DOMAIN seen[i].refs
      BY <3>1 DEF Faithful
    <3>3. Rids(Candidates[seen[i].ui]) \subseteq DOMAIN Snapshot[seen[i].ui].nodes
      BY <3>2, NodesByRid DEF Rids
    <3> QED  BY <3>2, <3>3
  <2>2. pc # "idle" => job.cmd \in Commands /\ job.snap <= Len(seen)
    BY DEF FlowOK, JobOK
  <2> QED  BY <2>1, <2>2 DEF FlowOK, FlowTypeOK, SeenOK, PlaceOK
<1> QED  BY <1>1, FlowCorrect, PTL

\* _should_repair_dispatch_error never lets a command be done twice.
THEOREM OneDispatchCorrect == Spec => []OneDispatch
<1>1. FlowOK => OneDispatch
  <2> SUFFICES ASSUME FlowOK PROVE OneDispatch
    OBVIOUS
  <2>1. performed \in {<<>>, <<"answered">>, <<"lost">>}
    BY DEF FlowOK, PlaceOK, IdleOK, RunningOK, AnsweredOK
  <2> QED  BY <2>1 DEF OneDispatch
<1> QED  BY <1>1, FlowCorrect, PTL

\* Whatever screens come and go, a request is for an element of the current screen that
\* admits the action there.
THEOREM AdmissibleDispatchCorrect == Spec => []AdmissibleDispatch
<1>1. FlowOK => AdmissibleDispatch
  BY DEF FlowOK
<1> QED  BY <1>1, FlowCorrect, PTL

\* lookup_source_screen_artifact and repair_action_binding take a ref for what it named
\* when its screen was published last, however many artifacts are damaged.
THEOREM NewestSourceCorrect == Spec => []NewestSource
<1>1. FlowOK => NewestSource
  BY DEF FlowOK
<1> QED  BY <1>1, FlowCorrect, PTL

\* _map_failure_execution_outcome tells truly what the device did.
THEOREM OutcomeTruthfulCorrect == Spec => []OutcomeTruthful
<1>1. FlowOK => OutcomeTruthful
  BY DEF FlowOK
<1> QED  BY <1>1, FlowCorrect, PTL

\* No answer names a screen from before the action as the current one.
THEOREM NoScreenFromBeforeCorrect == Spec => []NoScreenFromBefore
<1>1. FlowOK => NoScreenFromBefore
  BY DEF FlowOK
<1> QED  BY <1>1, FlowCorrect, PTL

\* Refs carried over and refs given anew never meet.
THEOREM RefsFaithfulCorrect == Spec => []RefsFaithful
<1>1. FlowOK => RefsFaithful
  BY DEF FlowOK, SeenOK, Faithful, OneToOne, Rids, RefsFaithful
<1> QED  BY <1>1, FlowCorrect, PTL

\* A ref that the published screen reuses is one of the screen before and matches.
LEMMA PublishedCarries ==
    ASSUME SeenOK, PlaceOK, cur # 0, NEW u \in UIs, NEW r \in Published(u).reused
    PROVE  /\ r \in DOMAIN seen[cur].refs
           /\ Matches(DescriptionOf(cur, r), Descriptions[u][Published(u).refs[r]])
<1> DEFINE before == [q \in DOMAIN seen[cur].refs |-> DescriptionOf(cur, q)]
           nodes == Candidates[u]
<1>1. Published(u) = [ui |-> u, refs |-> Reconcile(nodes, before),
                      reused |-> DOMAIN Carried(nodes, before)]
  BY DEF Published
<1>2. DOMAIN before = DOMAIN seen[cur].refs /\ DOMAIN before \in RefSets
  <2>1. Faithful(seen[cur])
    <3>1. cur \in DOMAIN seen
      BY LenProperties DEF SeenOK, PlaceOK
    <3> QED  BY <3>1 DEF SeenOK
  <2>2. DOMAIN seen[cur].refs \in RefSets
    BY <2>1, BindingsHaveRefs DEF Faithful
  <2> QED  BY <2>2
<1>3. nodes \in Seq(NodesOf(Compiled[u]))
  BY NodesByRid
<1>4. \A q \in DOMAIN before : before[q] = DescriptionOf(cur, q)
  OBVIOUS
<1> HIDE DEF before
<1> DEFINE carried == Carried(nodes, before)
           refs == Reconcile(nodes, before)
<1>5. /\ DOMAIN carried \subseteq DOMAIN before
      /\ \A q \in DOMAIN carried : Matched(nodes, before[q], carried[q])
  BY <1>2, CarriedFaithful
<1>6. \A q \in DOMAIN carried : refs[q] = carried[q]
  BY <1>2, <1>3, ReconcileFaithful
<1>7. r \in DOMAIN carried /\ Published(u).refs = refs
  BY <1>1
<1> HIDE DEF carried, refs
<1>8. r \in DOMAIN seen[cur].refs /\ Matched(nodes, DescriptionOf(cur, r), refs[r])
  BY <1>2, <1>4, <1>5, <1>6, <1>7
<1>9. PICK n \in ToSet(nodes) : n.rid = refs[r] /\ Matches(DescriptionOf(cur, r), Description(n))
  BY <1>8 DEF Matched
<1>10. Descriptions[u][n.rid] = Description(n)
  <2>1. nodes = RefCandidates(Compiled[u])
    BY DEF Candidates, With
  <2>2. Descriptions[u] = DescriptionsOf(Compiled[u])
    BY DEF Descriptions, With
  <2>3. n.rid \in {m.rid : m \in ToSet(RefCandidates(Compiled[u]))}
    <3> HIDE DEF nodes
    <3> QED  BY <2>1
  <2>4. DescriptionsOf(Compiled[u])[n.rid] = Description(TheNode(Compiled[u], n.rid))
    BY <2>3 DEF DescriptionsOf, TheNode
  <2>5. TheNode(Compiled[u], n.rid) = n
    BY NodesByRid
  <2> QED  BY <2>2, <2>4, <2>5
<1> QED  BY <1>7, <1>8, <1>9, <1>10

\* A ref that a screen takes over from the screen before, while there is one, names an
\* element that matches what the ref named there.
CarriedMatches ==
    [][Len(seen') > Len(seen) /\ cur # 0 =>
       LET next == seen'[Len(seen')]
       IN  \A r \in next.reused :
               /\ r \in DOMAIN seen[cur].refs
               /\ Matches(DescriptionOf(cur, r), Descriptions[next.ui][next.refs[r]])]_vars

\* RefRegistryBuilder.reconcile never hands a ref on to an element that does not match.
THEOREM CarriedMatchesCorrect == Spec => CarriedMatches
<1> DEFINE keeps ==
        Len(seen') > Len(seen) /\ cur # 0 =>
            LET next == seen'[Len(seen')]
            IN  \A r \in next.reused :
                    /\ r \in DOMAIN seen[cur].refs
                    /\ Matches(DescriptionOf(cur, r), Descriptions[next.ui][next.refs[r]])
<1>1. ASSUME FlowOK, Next PROVE keeps
  <2>1. Len(seen) \in Nat
    BY <1>1, LenProperties DEF FlowOK, SeenOK
  <2>2. CASE seen' = seen
    BY <2>1, <2>2
  <2>3. ASSUME NEW u \in UIs, Publish(Published(u)) PROVE keeps
    <3>1. SeenOK /\ PlaceOK
      BY <1>1 DEF FlowOK
    <3>2. Published(u) \in Screens /\ Faithful(Published(u)) /\ Published(u).ui = u
      BY <3>1, PublishedFaithful
    <3>3. seen'[Len(seen')] = Published(u)
      BY <2>3, <3>1, <3>2, PublishAppends
    <3> SUFFICES ASSUME cur # 0, NEW r \in Published(u).reused
                 PROVE  /\ r \in DOMAIN seen[cur].refs
                        /\ Matches(DescriptionOf(cur, r),
                                   Descriptions[u][Published(u).refs[r]])
      BY <3>2, <3>3
    <3> QED  BY <3>1, PublishedCarries
  <2>4. seen' = seen \/ \E u \in UIs : Publish(Published(u))
    <3>1. ASSUME NEW u \in UIs, Observe(u) \/ Repair(u) \/ Confirm(u)
          PROVE  Publish(Published(u))
      BY <3>1 DEF Observe, Repair, Confirm
    <3>2. ASSUME Perform \/ LoseAnswer \/ Connect \/ RepairFails \/ Deliver
          PROVE  seen' = seen
      BY <3>2 DEF Perform, LoseAnswer, Connect, RepairFails, Deliver
    <3>3. ASSUME NEW c \in Commands, Refuse(c) \/ FocusThere(c) \/ Begin(c)
          PROVE  seen' = seen
      BY <3>3 DEF Refuse, FocusThere, Begin
    <3>4. ASSUME NEW code, Reject(code) \/ LoseScreen(code)
          PROVE  seen' = seen
      BY <3>4 DEF Reject, LoseScreen
    <3> QED  BY <1>1, <3>1, <3>2, <3>3, <3>4 DEF Next
  <2> HIDE DEF keeps
  <2> QED  BY <2>2, <2>3, <2>4
<1>2. ASSUME FlowOK, [Next]_vars PROVE [keeps]_vars
  BY <1>1, <1>2
<1> QED  BY <1>2, FlowCorrect, PTL DEF Spec, CarriedMatches

================================================================================
