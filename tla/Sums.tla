-------------------------------- MODULE Sums --------------------------------
(***************************************************************************)
(* What MapThenSumSet of the community modules computes, as far as the     *)
(* proofs need it: the empty sum, one more term, sums that agree.  Its     *)
(* recursive definition on sets picks an element at every step, and the    *)
(* lemmas show that the choice does not matter.                            *)
(***************************************************************************)
EXTENDS Integers, FiniteSetsExt, FiniteSetTheorems, WellFoundedInduction, TLAPS

Pick(s) == CHOOSE x \in s : TRUE

\* a[s] is the sum of g over s, for every subset s of T.
IsSum(a, g, T) ==
  a = [s \in SUBSET T |-> IF s = {} THEN 0 ELSE g[Pick(s)] + a[s \ {Pick(s)}]]

SumOf(g, T) == (CHOOSE a : IsSum(a, g, T))[T]

-----------------------------------------------------------------------------
\* A set of subsets of a finite set has a smallest member.
LEMMA MinimalSet ==
  ASSUME NEW T, IsFiniteSet(T), NEW D, D \subseteq SUBSET T, D # {}
  PROVE  \E s \in D : \A r \in D : ~(r \subseteq s /\ r # s)
<1>1. D \subseteq FiniteSubsetsOf(T)
  BY FS_Subset DEF FiniteSubsetsOf
<1>2. \E s \in D : \A r \in D : <<r, s>> \notin StrictSubsetOrdering(T)
  BY <1>1, FS_StrictSubsetOrderingWellFounded, WFMin
<1>3. ASSUME NEW r \in D, NEW s \in D, r \subseteq s, r # s
      PROVE  <<r, s>> \in StrictSubsetOrdering(T)
  BY <1>3 DEF StrictSubsetOrdering
<1> QED BY <1>2, <1>3

\* A set of natural numbers has a least one.
LEMMA LeastOfSet ==
  ASSUME NEW S, S \subseteq Nat, S # {}
  PROVE  \E i \in S : \A j \in S : i <= j
<1>1. PICK i \in S : \A j \in S : ~(<<j, i>> \in OpToRel(<, Nat))
  BY NatLessThanWellFounded, WFMin
<1>2. \A j, k \in Nat : j < k => <<j, k>> \in OpToRel(<, Nat)
  BY DEF OpToRel
<1>3. \A j \in S : ~(j < i)
  BY <1>1, <1>2
<1> QED BY <1>3

\* The element picked is one, and the rest is smaller.
LEMMA PickFacts ==
  ASSUME NEW s, s # {}
  PROVE  Pick(s) \in s /\ s \ {Pick(s)} \subseteq s /\ s \ {Pick(s)} # s
<1>1. \E x : x \in s
  OBVIOUS
<1>2. Pick(s) \in s
  BY <1>1 DEF Pick
<1> QED BY <1>2

\* What a sum is at one subset.
LEMMA SumAt ==
  ASSUME NEW a, NEW g, NEW T, IsSum(a, g, T), NEW s, s \subseteq T
  PROVE  a[s] = IF s = {} THEN 0 ELSE g[Pick(s)] + a[s \ {Pick(s)}]
BY Zenon DEF IsSum

\* Two sums agree on a set on which their terms do.
LEMMA SumsAgree ==
  ASSUME NEW T, IsFiniteSet(T), NEW U, NEW a, NEW g, IsSum(a, g, T),
         NEW b, NEW h, IsSum(b, h, U),
         NEW V, V \subseteq T, V \subseteq U, \A x \in V : g[x] = h[x]
  PROVE  a[V] = b[V]
<1> DEFINE D == {s \in SUBSET V : a[s] # b[s]}
<1> SUFFICES ASSUME a[V] # b[V] PROVE FALSE
  OBVIOUS
<1>1. D \subseteq SUBSET T /\ D # {}
  OBVIOUS
<1>2. PICK s \in D : \A r \in D : ~(r \subseteq s /\ r # s)
  <2> HIDE DEF D
  <2> QED BY <1>1, MinimalSet
<1>3. s \subseteq V /\ s \subseteq T /\ s \subseteq U /\ a[s] # b[s]
  OBVIOUS
<1>4. /\ a[s] = IF s = {} THEN 0 ELSE g[Pick(s)] + a[s \ {Pick(s)}]
      /\ b[s] = IF s = {} THEN 0 ELSE h[Pick(s)] + b[s \ {Pick(s)}]
  BY <1>3, SumAt
<1>5. s # {}
  BY <1>3, <1>4
<1>6. Pick(s) \in s /\ s \ {Pick(s)} \subseteq s /\ s \ {Pick(s)} # s
  BY <1>5, PickFacts
<1>7. s \ {Pick(s)} \notin D
  BY <1>2, <1>6
<1>8. a[s \ {Pick(s)}] = b[s \ {Pick(s)}]
  BY <1>3, <1>6, <1>7
<1>9. g[Pick(s)] = h[Pick(s)]
  BY <1>3, <1>6
<1> QED BY <1>3, <1>4, <1>5, <1>8, <1>9

\* What SumOf is at one set, as long as the sums of its subsets exist.
LEMMA SumOfStep ==
  ASSUME NEW g, NEW T, IsFiniteSet(T),
         \A V \in SUBSET T : \E a : IsSum(a, g, V)
  PROVE  SumOf(g, T) = IF T = {} THEN 0 ELSE g[Pick(T)] + SumOf(g, T \ {Pick(T)})
<1> DEFINE a(V) == CHOOSE b : IsSum(b, g, V)
<1>1. \A V \in SUBSET T : IsSum(a(V), g, V)
  OBVIOUS
<1>2. \A V : SumOf(g, V) = a(V)[V]
  BY DEF SumOf
<1> HIDE DEF a
<1>3. a(T)[T] = IF T = {} THEN 0 ELSE g[Pick(T)] + a(T)[T \ {Pick(T)}]
  BY <1>1, SumAt
<1>4. CASE T = {}
  BY <1>2, <1>3, <1>4
<1>5. CASE T # {}
  <2> DEFINE V == T \ {Pick(T)}
  <2>1. V \subseteq T /\ V \in SUBSET V
    OBVIOUS
  <2>2. IsSum(a(T), g, T) /\ IsSum(a(V), g, V)
    BY <1>1, <2>1
  <2>3. a(T)[V] = a(V)[V]
    <3> HIDE DEF V
    <3> QED BY <2>1, <2>2, SumsAgree
  <2> QED BY <1>2, <1>3, <1>5, <2>1, <2>3
<1> QED BY <1>4, <1>5

\* A finite set has a sum.
LEMMA SumExists ==
  ASSUME NEW g, NEW T, IsFiniteSet(T)
  PROVE  \E a : IsSum(a, g, T)
<1> DEFINE D == {U \in SUBSET T : ~ \E a : IsSum(a, g, U)}
<1> SUFFICES ASSUME D # {} PROVE FALSE
  OBVIOUS
<1>1. PICK U \in D : \A r \in D : ~(r \subseteq U /\ r # U)
  <2>1. D \subseteq SUBSET T
    OBVIOUS
  <2> HIDE DEF D
  <2> QED BY <2>1, MinimalSet
<1>2. U \subseteq T /\ ~ \E a : IsSum(a, g, U)
  OBVIOUS
<1>3. ASSUME NEW V, V \subseteq U, V # U PROVE \E a : IsSum(a, g, V)
  BY <1>1, <1>2, <1>3
<1>4. ASSUME NEW V, V \subseteq U, V # U
      PROVE  SumOf(g, V) = IF V = {} THEN 0 ELSE g[Pick(V)] + SumOf(g, V \ {Pick(V)})
  <2>1. IsFiniteSet(V)
    BY <1>2, <1>4, FS_Subset
  <2>2. \A W \in SUBSET V : \E a : IsSum(a, g, W)
    BY <1>3, <1>4
  <2> QED BY <2>1, <2>2, SumOfStep
<1> DEFINE c == [s \in SUBSET U |->
                  IF s = {} THEN 0 ELSE g[Pick(s)] + SumOf(g, s \ {Pick(s)})]
<1>5. ASSUME NEW s \in SUBSET U, s # {}
      PROVE  c[s \ {Pick(s)}] = SumOf(g, s \ {Pick(s)})
  <2> DEFINE V == s \ {Pick(s)}
  <2>1. V \subseteq U /\ V # U
    BY <1>5, PickFacts
  <2>2. c[V] = IF V = {} THEN 0 ELSE g[Pick(V)] + SumOf(g, V \ {Pick(V)})
    BY <2>1
  <2> QED BY <1>4, <2>1, <2>2
<1>6. c = [s \in SUBSET U |-> IF s = {} THEN 0 ELSE g[Pick(s)] + c[s \ {Pick(s)}]]
  <2> DEFINE d == [s \in SUBSET U |->
                    IF s = {} THEN 0 ELSE g[Pick(s)] + c[s \ {Pick(s)}]]
  <2>1. ASSUME NEW s \in SUBSET U PROVE c[s] = d[s]
    BY <1>5
  <2> HIDE DEF c, d
  <2>2. DOMAIN c = SUBSET U /\ DOMAIN d = SUBSET U /\ c = [s \in SUBSET U |-> c[s]]
        /\ d = [s \in SUBSET U |-> d[s]]
    BY DEF c, d
  <2>3. c = d
    BY <2>1, <2>2
  <2> QED BY <2>3 DEF d
<1>7. IsSum(c, g, U)
  BY <1>6 DEF IsSum
<1> QED BY <1>2, <1>7

-----------------------------------------------------------------------------
\* Whatever satisfies the recursion is the sum.
LEMMA SumIsSumOf ==
  ASSUME NEW T, IsFiniteSet(T), NEW g, NEW a, IsSum(a, g, T)
  PROVE  a[T] = SumOf(g, T)
<1>1. PICK b : IsSum(b, g, T) /\ SumOf(g, T) = b[T]
  BY SumExists DEF SumOf
<1> QED BY <1>1, SumsAgree

\* What a sum over a finite set of integers is made of.
LEMMA SumOfParts ==
  ASSUME NEW T, IsFiniteSet(T), NEW g
  PROVE  SumOf(g, T) = IF T = {} THEN 0 ELSE g[Pick(T)] + SumOf(g, T \ {Pick(T)})
<1>1. \A V \in SUBSET T : \E a : IsSum(a, g, V)
  BY FS_Subset, SumExists
<1> QED BY <1>1, SumOfStep

\* Sums of integers are integers, sums of natural numbers natural.
LEMMA SumOfType ==
  ASSUME NEW T, IsFiniteSet(T), NEW g, NEW S \in {Int, Nat}, \A x \in T : g[x] \in S
  PROVE  SumOf(g, T) \in S
<1> DEFINE D == {s \in SUBSET T : SumOf(g, s) \notin S}
<1> SUFFICES ASSUME SumOf(g, T) \notin S PROVE FALSE
  OBVIOUS
<1>1. D \subseteq SUBSET T /\ D # {}
  OBVIOUS
<1>2. PICK s \in D : \A r \in D : ~(r \subseteq s /\ r # s)
  <2> HIDE DEF D
  <2> QED BY <1>1, MinimalSet
<1>3. s \subseteq T /\ SumOf(g, s) \notin S
  OBVIOUS
<1>4. SumOf(g, s) = IF s = {} THEN 0 ELSE g[Pick(s)] + SumOf(g, s \ {Pick(s)})
  BY <1>3, FS_Subset, SumOfParts
<1>5. s # {}
  BY <1>3, <1>4
<1>6. Pick(s) \in s /\ s \ {Pick(s)} \subseteq s /\ s \ {Pick(s)} # s
  BY <1>5, PickFacts
<1>7. SumOf(g, s \ {Pick(s)}) \in S
  BY <1>2, <1>3, <1>6
<1>8. g[Pick(s)] \in S
  BY <1>3, <1>6
<1>9. \A m, n \in S : m + n \in S
  OBVIOUS
<1> QED BY <1>3, <1>4, <1>5, <1>7, <1>8, <1>9

\* Any element of the set may be taken first.
LEMMA SumOfRemove ==
  ASSUME NEW T, IsFiniteSet(T), NEW g, \A x \in T : g[x] \in Int, NEW y \in T
  PROVE  SumOf(g, T) = g[y] + SumOf(g, T \ {y})
<1> DEFINE D == {s \in SUBSET T : \E x \in s : SumOf(g, s) # g[x] + SumOf(g, s \ {x})}
<1> SUFFICES ASSUME D # {} PROVE FALSE
  OBVIOUS
<1>1. D \subseteq SUBSET T
  OBVIOUS
<1>2. PICK s \in D : \A r \in D : ~(r \subseteq s /\ r # s)
  <2> HIDE DEF D
  <2> QED BY <1>1, MinimalSet
<1>3. s \subseteq T /\ \E x \in s : SumOf(g, s) # g[x] + SumOf(g, s \ {x})
  OBVIOUS
<1>4. PICK x \in s : SumOf(g, s) # g[x] + SumOf(g, s \ {x})
  BY <1>3
<1> DEFINE z == Pick(s)
           r == s \ {z}
           q == s \ {x}
           p == r \ {x}
<1>5. SumOf(g, s) = g[z] + SumOf(g, r) /\ z \in s
  <2>1. SumOf(g, s) = IF s = {} THEN 0 ELSE g[Pick(s)] + SumOf(g, s \ {Pick(s)})
    BY <1>3, FS_Subset, SumOfParts
  <2> QED BY <2>1, <1>4, PickFacts
<1> HIDE DEF z
<1>6. x # z
  BY <1>4, <1>5
<1>7. r \notin D /\ q \notin D
  <2>1. r \subseteq s /\ r # s /\ q \subseteq s /\ q # s
    BY <1>4, <1>5
  <2> HIDE DEF D, r, q
  <2> QED BY <1>2, <2>1
<1>8. SumOf(g, r) = g[x] + SumOf(g, p)
  <2>1. r \in SUBSET T /\ x \in r
    BY <1>3, <1>4, <1>6
  <2> HIDE DEF r
  <2> QED BY <1>7, <2>1
<1>9. SumOf(g, q) = g[z] + SumOf(g, p)
  <2>1. q \in SUBSET T /\ z \in q /\ p = q \ {z}
    BY <1>3, <1>5, <1>6
  <2> HIDE DEF q, p
  <2> QED BY <1>7, <2>1
<1>10. g[x] \in Int /\ g[z] \in Int
  BY <1>3, <1>4, <1>5
<1>11. SumOf(g, p) \in Int
  <2>1. p \subseteq T
    BY <1>3
  <2>2. IsFiniteSet(p) /\ \A e \in p : g[e] \in Int
    BY <2>1, FS_Subset
  <2> HIDE DEF p
  <2> QED BY <2>2, SumOfType
<1> HIDE DEF p, q, r
<1>12. SumOf(g, s) = g[x] + SumOf(g, q)
  BY <1>5, <1>8, <1>9, <1>10, <1>11
<1> QED BY <1>4, <1>12 DEF q

\* Sums with the same terms are equal.
LEMMA SumOfSame ==
  ASSUME NEW T, IsFiniteSet(T), NEW g, NEW h, \A x \in T : g[x] = h[x]
  PROVE  SumOf(g, T) = SumOf(h, T)
<1>1. PICK a : IsSum(a, g, T) /\ a[T] = SumOf(g, T)
  BY SumExists DEF SumOf
<1>2. PICK b : IsSum(b, h, T) /\ b[T] = SumOf(h, T)
  BY SumExists DEF SumOf
<1> QED BY <1>1, <1>2, SumsAgree

\* A part of a sum of natural numbers is no more than the whole.
LEMMA SumOfSubset ==
  ASSUME NEW T, IsFiniteSet(T), NEW g, \A x \in T : g[x] \in Nat, NEW S, S \subseteq T
  PROVE  SumOf(g, S) <= SumOf(g, T)
<1> DEFINE D == {U \in SUBSET T : S \subseteq U /\ ~(SumOf(g, S) <= SumOf(g, U))}
<1> SUFFICES ASSUME D # {} PROVE FALSE
  OBVIOUS
<1>1. D \subseteq SUBSET T
  OBVIOUS
<1>2. PICK U \in D : \A r \in D : ~(r \subseteq U /\ r # U)
  <2> HIDE DEF D
  <2> QED BY <1>1, MinimalSet
<1>3. /\ U \subseteq T /\ S \subseteq U /\ ~(SumOf(g, S) <= SumOf(g, U))
      /\ IsFiniteSet(S) /\ IsFiniteSet(U)
  <2>1. U \subseteq T /\ S \subseteq U /\ ~(SumOf(g, S) <= SumOf(g, U))
    OBVIOUS
  <2> QED BY <2>1, FS_Subset
<1>4. SumOf(g, S) \in Nat
  BY <1>3, SumOfType
<1>5. PICK y \in U : y \notin S
  BY <1>3, <1>4
<1>6. U \ {y} \notin D
  BY <1>2, <1>5
<1>7. SumOf(g, S) <= SumOf(g, U \ {y})
  BY <1>3, <1>5, <1>6
<1>8. SumOf(g, U) = g[y] + SumOf(g, U \ {y})
  BY <1>3, <1>5, SumOfRemove
<1>9. g[y] \in Nat /\ SumOf(g, U \ {y}) \in Nat
  <2>1. \A x \in U \ {y} : g[x] \in Nat
    BY <1>3
  <2>2. IsFiniteSet(U \ {y})
    BY <1>3, FS_Subset
  <2> QED BY <1>3, <2>1, <2>2, SumOfType
<1> QED BY <1>3, <1>4, <1>7, <1>8, <1>9
=============================================================================
