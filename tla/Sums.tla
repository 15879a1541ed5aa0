--------------------------------- MODULE Sums ----------------------------------
(***************************************************************************)
(* Sums over finite sets, for the proofs about bills: MapThenSumSet and    *)
(* FoldSeq are recursive, so what they return is shown by induction over   *)
(* the set.  The induction is the well-foundedness of strict inclusion, in *)
(* the form that no set of subsets lacks a minimal member.                 *)
(***************************************************************************)
EXTENDS Integers, FiniteSets, FiniteSetTheorems, NaturalsInduction, TLAPS

\* A family that has the empty set, and with a set every larger one, has them all.
LEMMA GrowFromEmpty ==
  ASSUME NEW S, IsFiniteSet(S), NEW Q, {} \in Q,
         \A T \in SUBSET S, x \in S : T \in Q /\ x \notin T => T \cup {x} \in Q
  PROVE  S \in Q
<1> SUFFICES ASSUME S \notin Q PROVE FALSE
  OBVIOUS
<1> DEFINE Out == {T \in SUBSET S : T \notin Q}
<1>1. PICK T \in Out : \A U \in Out : <<U, T>> \notin StrictSubsetOrdering(S)
  <2>1. Out # {} /\ Out \subseteq FiniteSubsetsOf(S)
    BY FS_FiniteSubsetsOfFinite
  <2> HIDE DEF Out
  <2> QED
    BY <2>1, WFMin, FS_StrictSubsetOrderingWellFounded
<1>2. PICK x \in T : TRUE
  OBVIOUS
<1>3. T \ {x} \in SUBSET S /\ T \ {x} # T
  BY <1>2
<1>4. <<T \ {x}, T>> \in StrictSubsetOrdering(S)
  BY <1>3 DEF StrictSubsetOrdering
<1>5. T \ {x} \in Q
  BY <1>1, <1>3, <1>4
<1>6. T = (T \ {x}) \cup {x}
  BY <1>2
<1> QED
  BY <1>2, <1>3, <1>5, <1>6

\* What holds of 0, and of n + 1 when it holds of n, holds up to N.
LEMMA CountUp ==
  ASSUME NEW N \in Nat, NEW Q, 0 \in Q, \A n \in 0 .. N - 1 : n \in Q => n + 1 \in Q
  PROVE  \A n \in 0 .. N : n \in Q
<1> DEFINE Less == {ss \in Nat \X Nat : ss[1] < ss[2]}
           Out  == {n \in 0 .. N : n \notin Q}
<1> SUFFICES ASSUME Out # {} PROVE FALSE
  OBVIOUS
<1>1. IsWellFoundedOn(Less, Nat)
  BY NatLessThanWellFounded, Zenon DEF OpToRel, Less
<1>2. PICK n \in Out : \A m \in Out : <<m, n>> \notin Less
  <2>1. Out \subseteq Nat
    OBVIOUS
  <2> HIDE DEF Out, Less
  <2> QED
    BY <1>1, <2>1, WFMin
<1>3. n - 1 \in 0 .. N - 1 /\ n - 1 \in Nat /\ n \in Nat
  OBVIOUS
<1>4. <<n - 1, n>> \in Less
  BY <1>3
<1>5. n - 1 \in Q
  BY <1>2, <1>3, <1>4
<1> QED
  BY <1>2, <1>3, <1>5

-----------------------------------------------------------------------------
Some(s) == CHOOSE x \in s : TRUE

\* The equation of the function that MapThenFoldSet defines for a sum.
Adds(g, f, S) ==
  g = [s \in SUBSET S |-> IF s = {} THEN 0 ELSE f[Some(s)] + g[s \ {Some(s)}]]

Sum(f, S) == (CHOOSE g : Adds(g, f, S))[S]

LEMMA SomeMember == ASSUME NEW s, s # {} PROVE Some(s) \in s
BY DEF Some

\* All functions that satisfy the equation agree.
LEMMA AddsAgree ==
  ASSUME NEW S, NEW T, NEW V, IsFiniteSet(V), V \subseteq S, V \subseteq T,
         NEW f, NEW g, NEW h, Adds(g, f, S), Adds(h, f, T)
  PROVE  g[V] = h[V]
<1> DEFINE Out == {U \in SUBSET V : g[U] # h[U]}
<1> SUFFICES ASSUME V \in Out PROVE FALSE
  OBVIOUS
<1>1. PICK U \in Out : \A W \in Out : <<W, U>> \notin StrictSubsetOrdering(V)
  <2>1. Out # {} /\ Out \subseteq FiniteSubsetsOf(V)
    BY FS_FiniteSubsetsOfFinite
  <2> HIDE DEF Out
  <2> QED
    BY <2>1, WFMin, FS_StrictSubsetOrderingWellFounded
<1>2. U # {}
  BY DEF Adds
<1> DEFINE W == U \ {Some(U)}
<1>3. g[U] = f[Some(U)] + g[W] /\ h[U] = f[Some(U)] + h[W]
  BY <1>2 DEF Adds
<1>4. W \subseteq V /\ W \subseteq U /\ W # U
  BY <1>2, SomeMember
<1>5. <<W, U>> \in StrictSubsetOrdering(V)
  BY <1>4 DEF StrictSubsetOrdering
<1>6. W \notin Out
  BY <1>1, <1>5
<1> QED
  BY <1>3, <1>4, <1>6

\* On a finite set there is one.
LEMMA AddsExists ==
  ASSUME NEW S, IsFiniteSet(S), NEW f
  PROVE  \E g : Adds(g, f, S)
<1> DEFINE Has(T) == \E g : Adds(g, f, T)
           Out == {T \in SUBSET S : ~ Has(T)}
<1> SUFFICES ASSUME S \in Out PROVE FALSE
  OBVIOUS
<1>1. PICK T \in Out : \A U \in Out : <<U, T>> \notin StrictSubsetOrdering(S)
  <2>1. Out # {} /\ Out \subseteq FiniteSubsetsOf(S)
    BY FS_FiniteSubsetsOfFinite
  <2> HIDE DEF Out
  <2> QED
    BY <2>1, WFMin, FS_StrictSubsetOrderingWellFounded
<1> DEFINE G(U) == CHOOSE g : Adds(g, f, U)
           part == [U \in SUBSET T |-> G(U)[U]]
           full == [U \in SUBSET T |-> IF U = {} THEN 0 ELSE f[Some(U)] + part[U \ {Some(U)}]]
<1>2. ASSUME NEW U \in SUBSET T, U # T PROVE Adds(G(U), f, U)
  <2>1. <<U, T>> \in StrictSubsetOrdering(S)
    BY <1>2 DEF StrictSubsetOrdering
  <2>2. U \notin Out /\ U \in SUBSET S
    BY <1>1, <2>1
  <2>3. Has(U)
    BY <2>2
  <2> QED
    BY <2>3
<1>3. ASSUME NEW U \in SUBSET T, U # T PROVE full[U] = part[U]
  <2>1. Adds(G(U), f, U)
    BY <1>2, <1>3
  <2>2. CASE U = {}
    BY <2>1, <2>2 DEF Adds
  <2>3. CASE U # {}
    <3> DEFINE V == U \ {Some(U)}
    <3>1. V \in SUBSET U /\ V \in SUBSET T /\ V # T
      BY <1>3, <2>3, SomeMember
    <3>2. Adds(G(V), f, V)
      BY <1>2, <3>1
    <3>3. IsFiniteSet(V)
      BY <3>1, FS_Subset
    <3>4. G(U)[V] = G(V)[V]
      <4> HIDE DEF G, V
      <4> QED
        BY <2>1, <3>1, <3>2, <3>3, AddsAgree
    <3>5. G(U)[U] = f[Some(U)] + G(U)[V]
      <4> HIDE DEF G
      <4> QED
        BY <2>1, <2>3 DEF Adds
    <3> HIDE DEF G
    <3> QED
      BY <2>3, <3>1, <3>4, <3>5
  <2> QED
    BY <2>2, <2>3
<1>4. ASSUME NEW U \in SUBSET T, U # {} PROVE part[U \ {Some(U)}] = full[U \ {Some(U)}]
  <2>1. U \ {Some(U)} \in SUBSET T /\ U \ {Some(U)} # T
    BY <1>4, SomeMember
  <2> HIDE DEF part, full
  <2> QED
    BY <1>3, <2>1
<1>5. Adds(full, f, T)
  <2>1. full = [U \in SUBSET T |-> IF U = {} THEN 0 ELSE f[Some(U)] + full[U \ {Some(U)}]]
    <3> HIDE DEF part
    <3> QED
      BY <1>4
  <2> HIDE DEF full
  <2> QED
    BY <2>1 DEF Adds
<1> QED
  BY <1>5
LEMMA SumAdds ==
  ASSUME NEW S, IsFiniteSet(S), NEW f, NEW g, Adds(g, f, S), NEW V \in SUBSET S
  PROVE  Sum(f, V) = g[V]
<1>1. IsFiniteSet(V)
  BY FS_Subset
<1>2. Adds(CHOOSE h : Adds(h, f, V), f, V)
  BY <1>1, AddsExists
<1> QED
  BY <1>1, <1>2, AddsAgree DEF Sum

\* How a sum is computed.
LEMMA SumEmpty == \A f : Sum(f, {}) = 0
<1> TAKE f
<1>1. PICK g : Adds(g, f, {})
  BY AddsExists, FS_EmptySet
<1>2. g[{}] = 0
  BY <1>1 DEF Adds
<1> QED
  BY <1>1, <1>2, SumAdds, FS_EmptySet

LEMMA SumSome ==
  ASSUME NEW S, IsFiniteSet(S), S # {}, NEW f
  PROVE  Sum(f, S) = f[Some(S)] + Sum(f, S \ {Some(S)})
<1>1. PICK g : Adds(g, f, S)
  BY AddsExists
<1>2. g[S] = f[Some(S)] + g[S \ {Some(S)}]
  BY <1>1 DEF Adds
<1> QED
  BY <1>1, <1>2, SumAdds

-----------------------------------------------------------------------------
LEMMA SumType ==
  ASSUME NEW S, IsFiniteSet(S), NEW f, \A x \in S : f[x] \in Int
  PROVE  Sum(f, S) \in Int
<1> DEFINE Out == {T \in SUBSET S : Sum(f, T) \notin Int}
<1> SUFFICES ASSUME S \in Out PROVE FALSE
  OBVIOUS
<1>1. PICK T \in Out : \A U \in Out : <<U, T>> \notin StrictSubsetOrdering(S)
  <2>1. Out # {} /\ Out \subseteq FiniteSubsetsOf(S)
    BY FS_FiniteSubsetsOfFinite
  <2> HIDE DEF Out
  <2> QED
    BY <2>1, WFMin, FS_StrictSubsetOrderingWellFounded
<1>2. T # {} /\ IsFiniteSet(T)
  <2>1. Sum(f, {}) \in Int
    BY SumEmpty
  <2> QED
    BY <2>1, FS_Subset
<1> DEFINE U == T \ {Some(T)}
<1>3. U \in SUBSET S /\ U \subseteq T /\ U # T /\ Some(T) \in S
  BY <1>2, SomeMember
<1>4. <<U, T>> \in StrictSubsetOrdering(S)
  BY <1>3 DEF StrictSubsetOrdering
<1>5. Sum(f, U) \in Int
  BY <1>1, <1>3, <1>4
<1> QED
  BY <1>2, <1>3, <1>5, SumSome

\* Any member may come first.
LEMMA SumSplit ==
  ASSUME NEW S, IsFiniteSet(S), NEW f, \A x \in S : f[x] \in Int, NEW a \in S
  PROVE  Sum(f, S) = f[a] + Sum(f, S \ {a})
<1> DEFINE Out == {T \in SUBSET S : \E x \in T : Sum(f, T) # f[x] + Sum(f, T \ {x})}
<1> SUFFICES ASSUME S \in Out PROVE FALSE
  OBVIOUS
<1>1. PICK T \in Out : \A U \in Out : <<U, T>> \notin StrictSubsetOrdering(S)
  <2>1. Out # {} /\ Out \subseteq FiniteSubsetsOf(S)
    BY FS_FiniteSubsetsOfFinite
  <2> HIDE DEF Out
  <2> QED
    BY <2>1, WFMin, FS_StrictSubsetOrderingWellFounded
<1>2. PICK x \in T : Sum(f, T) # f[x] + Sum(f, T \ {x})
  OBVIOUS
<1> DEFINE y == Some(T)
           U == T \ {y}
           W == T \ {x}
<1>3. IsFiniteSet(T) /\ IsFiniteSet(U) /\ IsFiniteSet(W) /\ IsFiniteSet(U \ {x})
  <2>1. T \subseteq S /\ U \subseteq S /\ W \subseteq S /\ U \ {x} \subseteq S
    OBVIOUS
  <2> QED
    BY <2>1, FS_Subset
<1>4. y \in T
  BY SomeMember
<1>5. Sum(f, T) = f[y] + Sum(f, U)
  BY <1>3, SumSome
<1>6. x # y
  BY <1>2, <1>5
<1>7. Sum(f, U) = f[x] + Sum(f, U \ {x})
  <2>1. U \in SUBSET S /\ <<U, T>> \in StrictSubsetOrdering(S)
    BY <1>4 DEF StrictSubsetOrdering
  <2>2. U \notin Out /\ x \in U
    BY <1>1, <1>6, <2>1
  <2> QED
    BY <2>1, <2>2
<1>8. Sum(f, W) = f[y] + Sum(f, W \ {y})
  <2>1. W \in SUBSET S /\ <<W, T>> \in StrictSubsetOrdering(S)
    BY DEF StrictSubsetOrdering
  <2>2. W \notin Out /\ y \in W
    BY <1>1, <1>4, <1>6, <2>1
  <2> QED
    BY <2>1, <2>2
<1>9. U \ {x} = W \ {y}
  OBVIOUS
<1>10. f[x] \in Int /\ f[y] \in Int /\ Sum(f, U \ {x}) \in Int
  BY <1>3, <1>4, SumType
<1>11. Sum(f, T) # f[x] + Sum(f, W)
  BY <1>2
<1>12. Sum(f, W) = f[y] + Sum(f, U \ {x})
  BY <1>8, <1>9
<1> HIDE DEF y, U, W, Out
<1> QED
  BY <1>5, <1>7, <1>10, <1>11, <1>12

LEMMA SumInsert ==
  ASSUME NEW S, IsFiniteSet(S), NEW a, a \notin S, NEW f, \A x \in S \cup {a} : f[x] \in Int
  PROVE  Sum(f, S \cup {a}) = f[a] + Sum(f, S)
<1>1. IsFiniteSet(S \cup {a}) /\ (S \cup {a}) \ {a} = S
  BY FS_AddElement
<1> QED
  BY <1>1, SumSplit

LEMMA SumOne ==
  ASSUME NEW f, NEW a, f[a] \in Int
  PROVE  Sum(f, {a}) = f[a]
<1>1. Sum(f, {} \cup {a}) = f[a] + Sum(f, {})
  BY SumInsert, FS_EmptySet
<1>2. {} \cup {a} = {a} /\ Sum(f, {}) = 0
  BY SumEmpty
<1> QED
  BY <1>1, <1>2

-----------------------------------------------------------------------------
\* What the terms have in common, the sums have.
LEMMA SumSame ==
  ASSUME NEW S, IsFiniteSet(S), NEW f, NEW g, \A x \in S : f[x] \in Int /\ f[x] = g[x]
  PROVE  Sum(f, S) = Sum(g, S)
<1> DEFINE Q == {T \in SUBSET S : Sum(f, T) = Sum(g, T)}
<1>1. {} \in Q
  BY SumEmpty
<1>2. ASSUME NEW T \in SUBSET S, NEW x \in S, T \in Q, x \notin T PROVE T \cup {x} \in Q
  <2>1. IsFiniteSet(T)
    BY FS_Subset
  <2>2. Sum(f, T \cup {x}) = f[x] + Sum(f, T) /\ Sum(g, T \cup {x}) = g[x] + Sum(g, T)
    BY <1>2, <2>1, SumInsert
  <2> QED
    BY <1>2, <2>2
<1> HIDE DEF Q
<1>3. S \in Q
  BY <1>1, <1>2, GrowFromEmpty
<1> QED
  BY <1>3 DEF Q

LEMMA SumConstant ==
  ASSUME NEW S, IsFiniteSet(S), NEW c \in Int, NEW f, \A x \in S : f[x] = c
  PROVE  Sum(f, S) = c * Cardinality(S)
<1> DEFINE Q == {T \in SUBSET S : Sum(f, T) = c * Cardinality(T)}
<1>1. {} \in Q
  BY SumEmpty, FS_EmptySet
<1>2. ASSUME NEW T \in SUBSET S, NEW x \in S, T \in Q, x \notin T PROVE T \cup {x} \in Q
  <2>1. IsFiniteSet(T)
    BY FS_Subset
  <2>2. Sum(f, T \cup {x}) = c + Sum(f, T)
    <3>1. f[x] = c /\ \A y \in T \cup {x} : f[y] \in Int
      OBVIOUS
    <3> QED
      BY <1>2, <2>1, <3>1, SumInsert
  <2>3. Cardinality(T \cup {x}) = Cardinality(T) + 1 /\ Cardinality(T) \in Nat
    BY <1>2, <2>1, FS_AddElement, FS_CardinalityType
  <2>4. c * (Cardinality(T) + 1) = c + c * Cardinality(T)
    BY <2>3
  <2> QED
    BY <1>2, <2>2, <2>3, <2>4
<1> HIDE DEF Q
<1>3. S \in Q
  BY <1>1, <1>2, GrowFromEmpty
<1> QED
  BY <1>3 DEF Q

LEMMA SumTimes ==
  ASSUME NEW S, IsFiniteSet(S), NEW c \in Int, NEW f, NEW g,
         \A x \in S : f[x] \in Int /\ g[x] = c * f[x]
  PROVE  Sum(g, S) = c * Sum(f, S)
<1> DEFINE Q == {T \in SUBSET S : Sum(g, T) = c * Sum(f, T)}
<1>1. {} \in Q
  BY SumEmpty
<1>2. ASSUME NEW T \in SUBSET S, NEW x \in S, T \in Q, x \notin T PROVE T \cup {x} \in Q
  <2>1. IsFiniteSet(T)
    BY FS_Subset
  <2>2. Sum(f, T) \in Int
    BY <2>1, SumType
  <2>3. Sum(f, T \cup {x}) = f[x] + Sum(f, T)
    BY <1>2, <2>1, SumInsert
  <2>4. \A y \in S : g[y] \in Int
    OBVIOUS
  <2>5. Sum(g, T \cup {x}) = g[x] + Sum(g, T)
    BY <1>2, <2>1, <2>4, SumInsert
  <2>6. \A m, n \in Int : c * (m + n) = c * m + c * n
    OBVIOUS
  <2> QED
    BY <1>2, <2>2, <2>3, <2>5, <2>6
<1> HIDE DEF Q
<1>3. S \in Q
  BY <1>1, <1>2, GrowFromEmpty
<1> QED
  BY <1>3 DEF Q

\* Terms that differ by no more than their slack add up to sums that differ by no
\* more than the sum of the slack.
LEMMA SumWithin ==
  ASSUME NEW S, IsFiniteSet(S), NEW f, NEW g, NEW slack,
         \A x \in S : /\ f[x] \in Int /\ g[x] \in Int /\ slack[x] \in Int
                      /\ f[x] - g[x] <= slack[x] /\ g[x] - f[x] <= slack[x]
  PROVE  /\ Sum(f, S) - Sum(g, S) <= Sum(slack, S)
         /\ Sum(g, S) - Sum(f, S) <= Sum(slack, S)
<1> DEFINE Q == {T \in SUBSET S : /\ Sum(f, T) - Sum(g, T) <= Sum(slack, T)
                                  /\ Sum(g, T) - Sum(f, T) <= Sum(slack, T)}
<1>1. {} \in Q
  <2>1. Sum(f, {}) = 0 /\ Sum(g, {}) = 0 /\ Sum(slack, {}) = 0
    BY SumEmpty
  <2> QED
    BY <2>1
<1>2. ASSUME NEW T \in SUBSET S, NEW x \in S, T \in Q, x \notin T PROVE T \cup {x} \in Q
  <2>1. IsFiniteSet(T)
    BY FS_Subset
  <2>2. Sum(f, T) \in Int /\ Sum(g, T) \in Int /\ Sum(slack, T) \in Int
    BY <2>1, SumType
  <2>3. /\ Sum(f, T \cup {x}) = f[x] + Sum(f, T)
        /\ Sum(g, T \cup {x}) = g[x] + Sum(g, T)
        /\ Sum(slack, T \cup {x}) = slack[x] + Sum(slack, T)
    BY <1>2, <2>1, SumInsert
  <2> QED
    BY <1>2, <2>2, <2>3
<1> HIDE DEF Q
<1>3. S \in Q
  BY <1>1, <1>2, GrowFromEmpty
<1> QED
  BY <1>3 DEF Q

\* GROUP BY: the members of S are put into groups by a key in K.
Grouped(S, K, f, key, group) ==
  /\ IsFiniteSet(S) /\ IsFiniteSet(K)
  /\ \A x \in S : f[x] \in Int /\ key[x] \in K
  /\ \A k \in K : group[k] \subseteq S
  /\ \A k \in K : \A x \in S : x \in group[k] <=> key[x] = k

\* The sums of the groups add up to the sum of all.
LEMMA SumGrouped ==
  ASSUME NEW S, NEW K, NEW f, NEW key, NEW group, Grouped(S, K, f, key, group),
         NEW part, \A k \in K : part[k] = Sum(f, group[k])
  PROVE  Sum(f, S) = Sum(part, K)
<1> USE DEF Grouped
<1> DEFINE Group(T, k) == {x \in T : key[x] = k}
           Parts(T)    == [k \in K |-> Sum(f, Group(T, k))]
           Q           == {T \in SUBSET S : Sum(f, T) = Sum(Parts(T), K)}
<1>1. ASSUME NEW T \in SUBSET S, NEW k \in K
      PROVE  IsFiniteSet(T) /\ IsFiniteSet(Group(T, k)) /\ Parts(T)[k] \in Int
  <2>1. IsFiniteSet(T) /\ Group(T, k) \in SUBSET T /\ Group(T, k) \subseteq S
    BY FS_Subset
  <2>2. IsFiniteSet(Group(T, k))
    BY <2>1, FS_Subset
  <2>3. Sum(f, Group(T, k)) \in Int
    <3> HIDE DEF Group
    <3> QED
      BY <2>1, <2>2, SumType
  <2> QED
    BY <2>1, <2>2, <2>3
<1>2. {} \in Q
  <2>1. \A k \in K : Parts({})[k] = 0
    <3>1. \A k \in K : Group({}, k) = {}
      OBVIOUS
    <3> HIDE DEF Group
    <3> QED
      BY <3>1, SumEmpty
  <2> HIDE DEF Parts
  <2>2. Sum(Parts({}), K) = 0 * Cardinality(K) /\ Cardinality(K) \in Nat
    BY <2>1, SumConstant, FS_CardinalityType
  <2> QED
    BY <2>2, SumEmpty
<1>3. ASSUME NEW T \in SUBSET S, NEW a \in S, T \in Q, a \notin T PROVE T \cup {a} \in Q
  <2> DEFINE old == Parts(T)
             new == Parts(T \cup {a})
             ka  == key[a]
             Rest == K \ {ka}
  <2>1. T \cup {a} \in SUBSET S /\ ka \in K /\ IsFiniteSet(Rest)
    BY FS_Subset
  <2>2. new[ka] = f[a] + old[ka]
    <3>1. Group(T \cup {a}, ka) = Group(T, ka) \cup {a} /\ a \notin Group(T, ka)
      BY <1>3
    <3>2. IsFiniteSet(Group(T, ka)) /\ \A x \in Group(T, ka) \cup {a} : f[x] \in Int
      BY <1>1, <2>1
    <3>3. Sum(f, Group(T, ka) \cup {a}) = f[a] + Sum(f, Group(T, ka))
      <4> HIDE DEF Group
      <4> QED
        BY <3>1, <3>2, SumInsert
    <3> HIDE DEF Group
    <3> QED
      BY <2>1, <3>1, <3>3
  <2>3. ASSUME NEW k \in Rest PROVE new[k] = old[k]
    <3>1. Group(T \cup {a}, k) = Group(T, k)
      BY <2>3
    <3> QED
      BY <3>1
  <2>4. \A k \in K : new[k] \in Int /\ old[k] \in Int
    BY <1>1, <2>1
  <2> HIDE DEF old, new
  <2>5. Sum(new, K) = new[ka] + Sum(new, Rest) /\ Sum(old, K) = old[ka] + Sum(old, Rest)
    BY <2>1, <2>4, SumSplit
  <2>6. Sum(new, Rest) = Sum(old, Rest) /\ Sum(old, Rest) \in Int
    BY <2>1, <2>3, <2>4, SumSame, SumType
  <2>7. Sum(f, T \cup {a}) = f[a] + Sum(f, T)
    BY <1>1, <1>3, <2>1, SumInsert
  <2>8. Sum(f, T) = Sum(old, K)
    BY <1>3 DEF old
  <2>9. Sum(f, T \cup {a}) = Sum(new, K)
    BY <2>1, <2>2, <2>4, <2>5, <2>6, <2>7, <2>8
  <2> QED
    BY <2>1, <2>9 DEF new
<1> HIDE DEF Q
<1>4. S \in Q
  BY <1>2, <1>3, GrowFromEmpty
<1>5. Sum(f, S) = Sum(Parts(S), K)
  BY <1>4 DEF Q
<1>6. \A k \in K : Parts(S)[k] \in Int /\ Parts(S)[k] = part[k]
  <2>1. \A k \in K : Group(S, k) = group[k]
    OBVIOUS
  <2>2. \A k \in K : Parts(S)[k] = Sum(f, Group(S, k))
    OBVIOUS
  <2> HIDE DEF Group, Parts
  <2> QED
    BY <1>1, <2>1, <2>2
<1> HIDE DEF Parts
<1> QED
  BY <1>5, <1>6, SumSame

\* A set onto which a finite set is mapped.
LEMMA ImageFinite ==
  ASSUME NEW S, IsFiniteSet(S), NEW f, NEW T,
         \A x \in S : f[x] \in T, \A y \in T : \E x \in S : y = f[x]
  PROVE  IsFiniteSet(T) /\ Cardinality(T) \in Nat
<1> DEFINE g == [x \in S |-> f[x]]
<1>1. g \in Surjection(S, T)
  BY DEF Surjection
<1> HIDE DEF g
<1>2. IsFiniteSet(T)
  BY <1>1, FS_Surjection
<1> QED
  BY <1>2, FS_CardinalityType

=============================================================================
