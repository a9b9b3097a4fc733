---------------------------- MODULE FlagProofs ----------------------------
(***************************************************************************)
(* When a flag may be raised and when it may go: use that never falls is   *)
(* not called declining, use that always falls is, and from one report of  *)
(* a customer to the next a flag stays unless a row came that can clear it.*)
(*                                                                         *)
(* All are about sums over sets of rows, which are recursive functions.   *)
(* Induction over a set is an argument about the smallest set of a family, *)
(* which is there because the natural numbers are well-founded.            *)
(***************************************************************************)
EXTENDS ExcerptProofs

-----------------------------------------------------------------------------
(* A family of finite sets has a smallest one: what induction on the size  *)
(* of a set comes to here.                                                 *)
LEMMA SmallestSet ==
    ASSUME NEW F, F # {}, \A s \in F : IsFiniteSet(s)
    PROVE  \E s \in F : \A t \in F : Cardinality(s) <= Cardinality(t)
<1> DEFINE sizes == {Cardinality(s) : s \in F}
<1>1. sizes \subseteq Nat /\ sizes # {}
  BY FS_CardinalityType
<1>2. PICK n \in sizes : \A m \in sizes : <<m, n>> \notin OpToRel(<, Nat)
  BY <1>1, NatLessThanWellFounded, WFMin
<1>3. PICK s \in F : Cardinality(s) = n
  OBVIOUS
<1>4. ASSUME NEW t \in F PROVE n <= Cardinality(t)
  <2>1. Cardinality(t) \in Nat /\ n \in Nat
    BY <1>1
  <2>2. ~(Cardinality(t) < n)
    BY <1>2, <2>1 DEF OpToRel
  <2> QED BY <2>1, <2>2
<1> QED BY <1>3, <1>4

-----------------------------------------------------------------------------
(* Sums.  MapThenSumSet adds a value per element in an order nobody knows; *)
(* the values are a function here.                                         *)

SumOf(g, S) == MapThenSumSet(LAMBDA x : g[x], S)

Pick(s)        == CHOOSE x \in s : TRUE
Rest(s)        == s \ {Pick(s)}
IsSum(g, S, h) == h = [s \in SUBSET S |-> IF s = {} THEN 0 ELSE g[Pick(s)] + h[Rest(s)]]

LEMMA PickIsElement ==
    ASSUME NEW s, s # {}
    PROVE  Pick(s) \in s /\ Rest(s) \subseteq s
BY DEF Pick, Rest

LEMMA SumIsChosen ==
    ASSUME NEW g, NEW S
    PROVE  SumOf(g, S) = (CHOOSE h : IsSum(g, S, h))[S]
<1> DEFINE h == CHOOSE f : IsSum(g, S, f)
<1>1. SumOf(g, S) = h[S]
  BY DEF SumOf, MapThenSumSet, MapThenFoldSet, IsSum, Pick, Rest
<1> QED BY <1>1

(* Two recursions that add the same values agree where both are defined.   *)
LEMMA SumsAgree ==
    ASSUME NEW S, NEW T, NEW g, NEW k, NEW h, NEW f, IsSum(g, S, h), IsSum(k, T, f),
           NEW U \in SUBSET (S \cap T), IsFiniteSet(U), \A x \in U : g[x] = k[x]
    PROVE  h[U] = f[U]
<1> DEFINE F == {s \in SUBSET U : h[s] # f[s]}
<1> SUFFICES ASSUME F # {} PROVE FALSE
  OBVIOUS
<1>1. \A s \in F : IsFiniteSet(s)
  BY FS_Subset
<1>2. PICK s \in F : \A t \in F : Cardinality(s) <= Cardinality(t)
  BY <1>1, SmallestSet
<1>3. s \in SUBSET S /\ s \in SUBSET T
  OBVIOUS
<1>4. s # {}
  BY <1>3 DEF IsSum
<1>5. h[s] = g[Pick(s)] + h[Rest(s)] /\ f[s] = k[Pick(s)] + f[Rest(s)]
  BY <1>3, <1>4 DEF IsSum
<1>6. Rest(s) \in F
  BY <1>3, <1>4, <1>5, PickIsElement
<1>7. Pick(s) \in s /\ IsFiniteSet(s)
  BY <1>1, <1>4, PickIsElement
<1>8. Cardinality(s) \in Nat /\ Cardinality(Rest(s)) = Cardinality(s) - 1
  BY <1>7, FS_RemoveElement, FS_CardinalityType DEF Rest
<1> QED BY <1>2, <1>6, <1>8

LEMMA SumIsOfAnyRecursion ==
    ASSUME NEW S, NEW g, NEW h, IsSum(g, S, h), NEW U \in SUBSET S, IsFiniteSet(U)
    PROVE  SumOf(g, U) = h[U]
<1> DEFINE f == [s \in SUBSET U |-> h[s]]
           e == CHOOSE d : IsSum(g, U, d)
<1>1. \A s \in SUBSET U : s # {} => Rest(s) \in SUBSET U
  BY PickIsElement
<1>2. \A s \in SUBSET U : h[s] = IF s = {} THEN 0 ELSE g[Pick(s)] + h[Rest(s)]
  BY DEF IsSum
<1>3. f = [s \in SUBSET U |-> IF s = {} THEN 0 ELSE g[Pick(s)] + f[Rest(s)]]
  BY <1>1, <1>2
<1>4. IsSum(g, U, f)
  BY <1>3 DEF IsSum
<1>5. IsSum(g, U, e)
  BY <1>4
<1>6. SumOf(g, U) = e[U]
  BY SumIsChosen
<1> HIDE DEF e
<1>7. U \in SUBSET (S \cap U)
  OBVIOUS
<1>8. h[U] = e[U]
  BY <1>5, <1>7, SumsAgree
<1> QED BY <1>6, <1>8

LEMMA SumExists ==
    ASSUME NEW S, IsFiniteSet(S), NEW g
    PROVE  \E h : IsSum(g, S, h)
<1> DEFINE F == {s \in SUBSET S : ~ \E h : IsSum(g, s, h)}
<1> SUFFICES ASSUME F # {} PROVE FALSE
  OBVIOUS
<1>1. \A s \in F : IsFiniteSet(s)
  BY FS_Subset
<1>2. PICK s \in F : \A t \in F : Cardinality(s) <= Cardinality(t)
  BY <1>1, SmallestSet
<1> DEFINE h == [t \in SUBSET s |-> IF t = {} THEN 0 ELSE g[Pick(t)] + SumOf(g, Rest(t))]
<1>3. ASSUME NEW t \in SUBSET s, t # {} PROVE h[Rest(t)] = SumOf(g, Rest(t))
  <2> DEFINE u == Rest(t)
  <2>1. IsFiniteSet(t) /\ IsFiniteSet(s)
    BY <1>1, FS_Subset
  <2>2. Pick(t) \in t /\ u \subseteq t /\ u \in SUBSET S
    BY <1>3, PickIsElement
  <2>3. IsFiniteSet(u) /\ Cardinality(u) = Cardinality(t) - 1
    BY <2>1, <2>2, FS_RemoveElement DEF Rest
  <2>4. Cardinality(u) \in Nat /\ Cardinality(t) <= Cardinality(s) /\ Cardinality(t) \in Nat
        /\ Cardinality(s) \in Nat
    BY <2>1, <2>3, FS_Subset, FS_CardinalityType
  <2>5. u \notin F
    BY <1>2, <2>3, <2>4
  <2>6. PICK f : IsSum(g, u, f)
    BY <2>2, <2>5
  <2> HIDE DEF u
  <2>7. f[u] = IF u = {} THEN 0 ELSE g[Pick(u)] + f[Rest(u)]
    BY <2>6 DEF IsSum
  <2>8. SumOf(g, u) = f[u]
    BY <2>3, <2>6, SumIsOfAnyRecursion
  <2>9. u # {} => SumOf(g, Rest(u)) = f[Rest(u)]
    <3> SUFFICES ASSUME u # {} PROVE SumOf(g, Rest(u)) = f[Rest(u)]
      OBVIOUS
    <3>1. Rest(u) \in SUBSET u /\ IsFiniteSet(Rest(u))
      BY <2>3, PickIsElement, FS_Subset
    <3> QED BY <2>6, <3>1, SumIsOfAnyRecursion
  <2>10. h[u] = IF u = {} THEN 0 ELSE g[Pick(u)] + SumOf(g, Rest(u))
    BY <2>2
  <2> HIDE DEF h
  <2>11. h[u] = SumOf(g, u)
    BY <2>7, <2>8, <2>9, <2>10
  <2> QED BY <2>11 DEF u
<1>4. h = [t \in SUBSET s |-> IF t = {} THEN 0 ELSE g[Pick(t)] + h[Rest(t)]]
  BY <1>3
<1> HIDE DEF h
<1>5. IsSum(g, s, h)
  BY <1>4 DEF IsSum
<1> QED BY <1>5

(* What the rest of the proofs know of a sum.                              *)
LEMMA SumSteps ==
    ASSUME NEW S, IsFiniteSet(S), NEW g
    PROVE  /\ S = {} => SumOf(g, S) = 0
           /\ S # {} => SumOf(g, S) = g[Pick(S)] + SumOf(g, Rest(S))
<1>1. PICK h : IsSum(g, S, h)
  BY SumExists
<1>2. SumOf(g, S) = h[S]
  BY <1>1, SumIsOfAnyRecursion
<1>3. h[S] = IF S = {} THEN 0 ELSE g[Pick(S)] + h[Rest(S)]
  BY <1>1 DEF IsSum
<1>4. ASSUME S # {} PROVE SumOf(g, Rest(S)) = h[Rest(S)]
  <2>1. Rest(S) \in SUBSET S /\ IsFiniteSet(Rest(S))
    BY <1>4, PickIsElement, FS_Subset
  <2> QED BY <1>1, <2>1, SumIsOfAnyRecursion
<1> QED BY <1>2, <1>3, <1>4

(* Induction over the subsets of a finite set: the smallest that fails.    *)
LEMMA SumIsInteger ==
    ASSUME NEW S, IsFiniteSet(S), NEW g, \A x \in S : g[x] \in Int
    PROVE  SumOf(g, S) \in Int
<1> DEFINE F == {s \in SUBSET S : SumOf(g, s) \notin Int}
<1> SUFFICES ASSUME F # {} PROVE FALSE
  OBVIOUS
<1>1. \A s \in F : IsFiniteSet(s)
  BY FS_Subset
<1>2. PICK s \in F : \A t \in F : Cardinality(s) <= Cardinality(t)
  BY <1>1, SmallestSet
<1>3. s # {} /\ SumOf(g, s) = g[Pick(s)] + SumOf(g, Rest(s))
  BY <1>1, SumSteps
<1>4. Pick(s) \in s /\ Rest(s) \in SUBSET S /\ g[Pick(s)] \in Int
  BY <1>3, PickIsElement
<1>5. Rest(s) \in F
  BY <1>3, <1>4
<1>6. Cardinality(s) \in Nat /\ Cardinality(Rest(s)) = Cardinality(s) - 1
  BY <1>1, <1>4, FS_RemoveElement, FS_CardinalityType DEF Rest
<1> QED BY <1>2, <1>5, <1>6

(* The order does not matter: any element may be the one added last.       *)
LEMMA SumTakesOut ==
    ASSUME NEW S, IsFiniteSet(S), NEW g, \A x \in S : g[x] \in Int, NEW e \in S
    PROVE  SumOf(g, S) = g[e] + SumOf(g, S \ {e})
<1> DEFINE F == {s \in SUBSET S : \E x \in s : SumOf(g, s) # g[x] + SumOf(g, s \ {x})}
<1> SUFFICES ASSUME F # {} PROVE FALSE
  OBVIOUS
<1>1. \A s \in F : IsFiniteSet(s)
  BY FS_Subset
<1>2. PICK s \in F : \A t \in F : Cardinality(s) <= Cardinality(t)
  BY <1>1, SmallestSet
<1>3. PICK x \in s : SumOf(g, s) # g[x] + SumOf(g, s \ {x})
  OBVIOUS
<1> DEFINE p == Pick(s)
<1>4. s \in SUBSET S /\ IsFiniteSet(s) /\ p \in s /\ Rest(s) = s \ {p}
  BY <1>1, <1>3, PickIsElement DEF Rest
<1>5. SumOf(g, s) = g[p] + SumOf(g, s \ {p})
  BY <1>4, SumSteps
<1> HIDE DEF p
<1>6. x # p
  BY <1>3, <1>5
<1>7. \A y \in s : /\ s \ {y} \in SUBSET S /\ IsFiniteSet(s \ {y})
                   /\ Cardinality(s \ {y}) = Cardinality(s) - 1
  BY <1>4, FS_RemoveElement
<1>8. Cardinality(s) \in Nat
  BY <1>4, FS_CardinalityType
<1>9. ASSUME NEW y \in s PROVE s \ {y} \notin F
  <2> HIDE DEF F
  <2>1. Cardinality(s \ {y}) = Cardinality(s) - 1
    BY <1>7
  <2>2. ~(Cardinality(s) <= Cardinality(s \ {y}))
    BY <1>8, <2>1
  <2> QED BY <1>2, <2>2
<1>10. /\ SumOf(g, s \ {p}) = g[x] + SumOf(g, (s \ {p}) \ {x})
       /\ SumOf(g, s \ {x}) = g[p] + SumOf(g, (s \ {x}) \ {p})
  BY <1>4, <1>6, <1>7, <1>9
<1>11. (s \ {p}) \ {x} = (s \ {x}) \ {p}
  OBVIOUS
<1>12. SumOf(g, (s \ {x}) \ {p}) \in Int /\ g[x] \in Int /\ g[p] \in Int
  <2>1. IsFiniteSet((s \ {x}) \ {p})
    BY <1>4, FS_Subset
  <2> QED BY <1>4, <2>1, SumIsInteger
<1>13. SumOf(g, (s \ {p}) \ {x}) = SumOf(g, (s \ {x}) \ {p})
  BY <1>11
<1> HIDE DEF F
<1>14. SumOf(g, s) = g[x] + SumOf(g, s \ {x})
  BY <1>5, <1>10, <1>12, <1>13
<1> QED BY <1>3, <1>14

(* A sum is monotonic in its values.                                       *)
LEMMA SumIsMonotonic ==
    ASSUME NEW S, IsFiniteSet(S), NEW g, NEW k,
           \A x \in S : g[x] \in Int /\ k[x] \in Int /\ g[x] <= k[x]
    PROVE  SumOf(g, S) <= SumOf(k, S)
<1> DEFINE F == {s \in SUBSET S : ~(SumOf(g, s) <= SumOf(k, s))}
<1> SUFFICES ASSUME F # {} PROVE FALSE
  OBVIOUS
<1>1. \A s \in F : IsFiniteSet(s)
  BY FS_Subset
<1>2. PICK s \in F : \A t \in F : Cardinality(s) <= Cardinality(t)
  BY <1>1, SmallestSet
<1>3. IsFiniteSet(s) /\ s # {} /\ ~(SumOf(g, s) <= SumOf(k, s))
  BY <1>1, SumSteps
<1> DEFINE p == Pick(s)
<1>4. p \in s /\ Rest(s) \in SUBSET S /\ IsFiniteSet(Rest(s))
      /\ SumOf(g, s) = g[p] + SumOf(g, Rest(s)) /\ SumOf(k, s) = k[p] + SumOf(k, Rest(s))
  BY <1>3, PickIsElement, SumSteps, FS_Subset
<1>5. Cardinality(s) \in Nat /\ Cardinality(Rest(s)) = Cardinality(s) - 1
  BY <1>3, <1>4, FS_RemoveElement, FS_CardinalityType DEF Rest
<1>6. SumOf(g, Rest(s)) <= SumOf(k, Rest(s))
  BY <1>2, <1>4, <1>5
<1>7. SumOf(g, Rest(s)) \in Int /\ SumOf(k, Rest(s)) \in Int
  BY <1>4, SumIsInteger
<1>8. g[p] \in Int /\ k[p] \in Int /\ g[p] <= k[p]
  BY <1>4
<1> HIDE DEF F, p
<1> QED BY <1>3, <1>4, <1>6, <1>7, <1>8

LEMMA SumOfEqualValues ==
    ASSUME NEW S, IsFiniteSet(S), NEW g, NEW k, \A x \in S : g[x] \in Int /\ g[x] = k[x]
    PROVE  SumOf(g, S) = SumOf(k, S)
<1>1. SumOf(g, S) <= SumOf(k, S) /\ SumOf(k, S) <= SumOf(g, S)
  BY SumIsMonotonic
<1>2. SumOf(g, S) \in Int /\ SumOf(k, S) \in Int
  BY SumIsInteger
<1> QED BY <1>1, <1>2

LEMMA SumOfDifferences ==
    ASSUME NEW S, IsFiniteSet(S), NEW g, NEW k, NEW d,
           \A x \in S : g[x] \in Int /\ k[x] \in Int /\ d[x] = g[x] - k[x]
    PROVE  SumOf(d, S) = SumOf(g, S) - SumOf(k, S)
<1> DEFINE F == {s \in SUBSET S : SumOf(d, s) # SumOf(g, s) - SumOf(k, s)}
<1> SUFFICES ASSUME F # {} PROVE FALSE
  OBVIOUS
<1>1. \A s \in F : IsFiniteSet(s)
  BY FS_Subset
<1>2. PICK s \in F : \A t \in F : Cardinality(s) <= Cardinality(t)
  BY <1>1, SmallestSet
<1>3. IsFiniteSet(s) /\ s # {} /\ SumOf(d, s) # SumOf(g, s) - SumOf(k, s)
  BY <1>1, SumSteps
<1> DEFINE p == Pick(s)
<1>4. /\ p \in s /\ Rest(s) \in SUBSET S /\ IsFiniteSet(Rest(s))
      /\ SumOf(g, s) = g[p] + SumOf(g, Rest(s)) /\ SumOf(k, s) = k[p] + SumOf(k, Rest(s))
      /\ SumOf(d, s) = d[p] + SumOf(d, Rest(s))
  BY <1>3, PickIsElement, SumSteps, FS_Subset
<1>5. Cardinality(s) \in Nat /\ Cardinality(Rest(s)) = Cardinality(s) - 1
  BY <1>3, <1>4, FS_RemoveElement, FS_CardinalityType DEF Rest
<1>6. SumOf(d, Rest(s)) = SumOf(g, Rest(s)) - SumOf(k, Rest(s))
  BY <1>2, <1>4, <1>5
<1>7. SumOf(g, Rest(s)) \in Int /\ SumOf(k, Rest(s)) \in Int
  BY <1>4, SumIsInteger
<1>8. g[p] \in Int /\ k[p] \in Int /\ d[p] = g[p] - k[p]
  BY <1>4
<1> HIDE DEF F, p
<1> QED BY <1>3, <1>4, <1>6, <1>7, <1>8

LEMMA SumOfNegatives ==
    ASSUME NEW S, IsFiniteSet(S), NEW g, NEW d, \A x \in S : g[x] \in Int /\ d[x] = -g[x]
    PROVE  SumOf(d, S) = -SumOf(g, S)
<1> DEFINE z == [x \in S |-> 0]
<1>1. \A x \in S : g[x] \in Int /\ z[x] \in Int /\ d[x] = z[x] - g[x] /\ z[x] = g[x] - g[x]
  OBVIOUS
<1> HIDE DEF z
<1>2. SumOf(z, S) = SumOf(g, S) - SumOf(g, S)
  BY <1>1, SumOfDifferences
<1>3. SumOf(d, S) = SumOf(z, S) - SumOf(g, S)
  BY <1>1, SumOfDifferences
<1>4. SumOf(g, S) \in Int
  BY <1>1, SumIsInteger
<1> QED BY <1>2, <1>3, <1>4

(* At most so much each, at most so many times that.                       *)
LEMMA SumIsBounded ==
    ASSUME NEW S, IsFiniteSet(S), NEW g, NEW c \in Int,
           \A x \in S : g[x] \in Int /\ g[x] <= c
    PROVE  SumOf(g, S) <= c * Cardinality(S)
<1> DEFINE F == {s \in SUBSET S : ~(SumOf(g, s) <= c * Cardinality(s))}
<1> SUFFICES ASSUME F # {} PROVE FALSE
  OBVIOUS
<1>1. \A s \in F : IsFiniteSet(s)
  BY FS_Subset
<1>2. PICK s \in F : \A t \in F : Cardinality(s) <= Cardinality(t)
  BY <1>1, SmallestSet
<1>3. IsFiniteSet(s) /\ s # {} /\ ~(SumOf(g, s) <= c * Cardinality(s))
  <2>1. s = {} => SumOf(g, s) = 0 /\ Cardinality(s) = 0
    BY <1>1, SumSteps, FS_EmptySet
  <2>2. c * 0 = 0
    OBVIOUS
  <2> QED BY <1>1, <2>1, <2>2
<1> DEFINE p == Pick(s)
           n == Cardinality(s)
<1>4. p \in s /\ Rest(s) \in SUBSET S /\ IsFiniteSet(Rest(s))
      /\ SumOf(g, s) = g[p] + SumOf(g, Rest(s))
  BY <1>3, PickIsElement, SumSteps, FS_Subset
<1>5. n \in Nat /\ Cardinality(Rest(s)) = n - 1
  BY <1>3, <1>4, FS_RemoveElement, FS_CardinalityType DEF Rest
<1>6. SumOf(g, Rest(s)) <= c * (n - 1)
  BY <1>2, <1>4, <1>5
<1>7. SumOf(g, Rest(s)) \in Int
  BY <1>4, SumIsInteger
<1>8. g[p] \in Int /\ g[p] <= c
  BY <1>4
<1>9. c * (n - 1) = c * n - c
  BY <1>5
<1>10. ~(SumOf(g, s) <= c * n) /\ c * n \in Int
  BY <1>3, <1>5
<1> HIDE DEF F, p, n
<1> QED BY <1>4, <1>6, <1>7, <1>8, <1>9, <1>10

(* A larger set of values that are not negative has a larger sum.          *)
LEMMA SumGrows ==
    ASSUME NEW S, IsFiniteSet(S), NEW T \in SUBSET S, NEW g, \A x \in S : g[x] \in Nat
    PROVE  SumOf(g, T) <= SumOf(g, S)
<1> DEFINE F == {s \in SUBSET S : T \subseteq s /\ ~(SumOf(g, T) <= SumOf(g, s))}
<1> SUFFICES ASSUME F # {} PROVE FALSE
  OBVIOUS
<1>1. \A s \in F : IsFiniteSet(s)
  BY FS_Subset
<1>2. PICK s \in F : \A t \in F : Cardinality(s) <= Cardinality(t)
  BY <1>1, SmallestSet
<1>3. IsFiniteSet(s) /\ s \in SUBSET S /\ T \subseteq s /\ ~(SumOf(g, T) <= SumOf(g, s))
  BY <1>1
<1>4. IsFiniteSet(T) /\ SumOf(g, T) \in Int
  <2>1. IsFiniteSet(T) /\ \A x \in T : g[x] \in Int
    BY FS_Subset
  <2> QED BY <2>1, SumIsInteger
<1>5. PICK x \in s : x \notin T
  BY <1>3, <1>4
<1>6. /\ SumOf(g, s) = g[x] + SumOf(g, s \ {x})
      /\ g[x] \in Nat /\ IsFiniteSet(s \ {x}) /\ Cardinality(s \ {x}) = Cardinality(s) - 1
      /\ SumOf(g, s \ {x}) \in Int
  <2>1. IsFiniteSet(s \ {x}) /\ Cardinality(s \ {x}) = Cardinality(s) - 1
    BY <1>3, FS_RemoveElement
  <2>2. \A y \in s : g[y] \in Nat /\ g[y] \in Int
    BY <1>3
  <2>3. SumOf(g, s) = g[x] + SumOf(g, s \ {x})
    BY <1>3, <2>2, SumTakesOut
  <2>4. SumOf(g, s \ {x}) \in Int
    BY <2>1, <2>2, SumIsInteger
  <2> QED BY <2>1, <2>2, <2>3, <2>4
<1>7. SumOf(g, T) <= SumOf(g, s \ {x})
  <2>1. Cardinality(s) \in Nat
    BY <1>3, FS_CardinalityType
  <2>2. s \ {x} \notin F
    BY <1>2, <1>6, <2>1
  <2> QED BY <1>3, <1>5, <2>2
<1> HIDE DEF F
<1> QED BY <1>3, <1>4, <1>6, <1>7

-----------------------------------------------------------------------------
(* The sums of summary.py.                                                 *)

LEMMA AmountIsSum ==
    ASSUME NEW b, IsFiniteSet(b), NEW event, NEW g, \A r \in b : g[r] = r.cents
    PROVE  SumAmount(b, event) = SumOf(g, OfEvent(b, event))
<1> DEFINE S == OfEvent(b, event)
           P(h) == h = [s \in SUBSET S |-> IF s = {} THEN 0 ELSE Pick(s).cents + h[Rest(s)]]
<1>1. S \subseteq b /\ IsFiniteSet(S)
  BY FS_Subset DEF OfEvent
<1>2. SumAmount(b, event) = (CHOOSE h : P(h))[S]
  BY DEF SumAmount, MapThenSumSet, MapThenFoldSet, Pick, Rest
<1>3. \A s \in SUBSET S : s # {} => g[Pick(s)] = Pick(s).cents
  BY <1>1, PickIsElement
<1> HIDE DEF S
<1>4. \A h : P(h) <=> IsSum(g, S, h)
  BY <1>3 DEF IsSum
<1>5. P(CHOOSE h : P(h))
  <2>1. \E h : P(h)
    BY <1>1, <1>4, SumExists
  <2> QED BY <2>1
<1>6. IsSum(g, S, CHOOSE h : P(h))
  BY <1>4, <1>5
<1> QED BY <1>1, <1>2, <1>6, SumIsOfAnyRecursion DEF S

LEMMA WeekIsSum ==
    ASSUME NEW u, IsFiniteSet(u), NEW w, NEW g, \A r \in u : g[r] = r.sessions
    PROVE  WeekTotal(u, w) = SumOf(g, {r \in u : r.week = w})
<1> DEFINE S == {r \in u : r.week = w}
           P(h) == h = [s \in SUBSET S |-> IF s = {} THEN 0
                                           ELSE Pick(s).sessions + h[Rest(s)]]
<1>1. S \subseteq u /\ IsFiniteSet(S)
  BY FS_Subset
<1>2. WeekTotal(u, w) = (CHOOSE h : P(h))[S]
  BY DEF WeekTotal, MapThenSumSet, MapThenFoldSet, Pick, Rest
<1>3. \A s \in SUBSET S : s # {} => g[Pick(s)] = Pick(s).sessions
  BY <1>1, PickIsElement
<1> HIDE DEF S
<1>4. \A h : P(h) <=> IsSum(g, S, h)
  BY <1>3 DEF IsSum
<1>5. P(CHOOSE h : P(h))
  <2>1. \E h : P(h)
    BY <1>1, <1>4, SumExists
  <2> QED BY <2>1
<1>6. IsSum(g, S, CHOOSE h : P(h))
  BY <1>4, <1>5
<1> QED BY <1>1, <1>2, <1>6, SumIsOfAnyRecursion DEF S

(* The trend of the totals t of the weeks W.                               *)
Weighted(W, t) ==
    [w \in W |-> (2 * Cardinality({v \in W : v <= w}) - Cardinality(W) - 1) * t[w]]

LEMMA TrendIsSum ==
    ASSUME NEW u, IsFiniteSet(u), NEW t, \A w \in Weeks(u) : t[w] = WeekTotal(u, w)
    PROVE  Trend(u) = SumOf(Weighted(Weeks(u), t), Weeks(u)) /\ IsFiniteSet(Weeks(u))
<1> DEFINE S == Weeks(u)
           g == Weighted(S, t)
           V(w) == (2 * Place(u, w) - Cardinality(S) - 1) * WeekTotal(u, w)
           P(h) == h = [s \in SUBSET S |-> IF s = {} THEN 0 ELSE V(Pick(s)) + h[Rest(s)]]
<1>1. IsFiniteSet(S)
  <2> DEFINE f == [r \in u |-> r.week]
  <2>1. f \in Surjection(u, {r.week : r \in u})
    BY DEF Surjection
  <2>2. IsFiniteSet({r.week : r \in u})
    BY <2>1, FS_Surjection
  <2> QED BY <2>2, FS_Subset DEF Weeks
<1>2. Trend(u) = (CHOOSE h : P(h))[S]
  BY DEF Trend, MapThenSumSet, MapThenFoldSet, Pick, Rest
<1>3. \A w \in S : g[w] = V(w)
  BY DEF Weighted, Place
<1>4. \A s \in SUBSET S : s # {} => g[Pick(s)] = V(Pick(s))
  BY <1>3, PickIsElement
<1> HIDE DEF S, V, g
<1>5. \A h : P(h) <=> IsSum(g, S, h)
  BY <1>4 DEF IsSum
<1>6. P(CHOOSE h : P(h))
  <2>1. \E h : P(h)
    BY <1>1, <1>5, SumExists
  <2> QED BY <2>1
<1>7. IsSum(g, S, CHOOSE h : P(h))
  BY <1>5, <1>6
<1>8. SumOf(g, S) = (CHOOSE h : P(h))[S]
  BY <1>1, <1>7, SumIsOfAnyRecursion
<1> QED BY <1>1, <1>2, <1>8 DEF S, g

LEMMA LargestExists ==
    ASSUME NEW S, IsFiniteSet(S), S \subseteq Int, S # {}
    PROVE  \E m \in S : \A x \in S : x <= m
<1> DEFINE F == {s \in SUBSET S : s # {} /\ ~ \E m \in s : \A x \in s : x <= m}
<1> SUFFICES ASSUME F # {} PROVE FALSE
  OBVIOUS
<1>1. \A s \in F : IsFiniteSet(s)
  BY FS_Subset
<1>2. PICK s \in F : \A t \in F : Cardinality(s) <= Cardinality(t)
  BY <1>1, SmallestSet
<1>3. IsFiniteSet(s) /\ s \in SUBSET S /\ s # {} /\ ~ \E m \in s : \A x \in s : x <= m
  BY <1>1
<1>4. PICK e \in s : TRUE
  BY <1>3
<1> DEFINE r == s \ {e}
<1>5. /\ r \in SUBSET S /\ Cardinality(r) = Cardinality(s) - 1
      /\ Cardinality(s) \in Nat
  BY <1>3, FS_RemoveElement, FS_CardinalityType
<1>6. r \notin F
  <2> HIDE DEF F, r
  <2>1. ~(Cardinality(s) <= Cardinality(r))
    BY <1>5
  <2> QED BY <1>2, <2>1
<1>7. r # {}
  <2> SUFFICES ASSUME r = {} PROVE FALSE
    OBVIOUS
  <2>1. s = {e} /\ e <= e
    BY <1>3
  <2> QED BY <1>3, <2>1
<1>8. PICK m \in r : \A x \in r : x <= m
  BY <1>5, <1>6, <1>7
<1>9. \A x \in s : x \in Int
  BY <1>3
<1>10. CASE e <= m
  <2>1. \A x \in s : x <= m
    BY <1>8, <1>10
  <2> QED BY <1>3, <2>1
<1>11. CASE ~(e <= m)
  <2>1. \A x \in s : x <= e
    BY <1>8, <1>9, <1>11
  <2> QED BY <1>3, <2>1
<1> QED BY <1>10, <1>11

LEMMA WeightedIsInteger ==
    ASSUME NEW W, IsFiniteSet(W), NEW t, \A w \in W : t[w] \in Int
    PROVE  /\ \A w \in W : Weighted(W, t)[w] \in Int
           /\ SumOf(Weighted(W, t), W) \in Int
<1>1. ASSUME NEW w \in W PROVE Weighted(W, t)[w] \in Int
  <2>1. Cardinality({v \in W : v <= w}) \in Nat /\ Cardinality(W) \in Nat
    BY FS_Subset, FS_CardinalityType
  <2>2. 2 * Cardinality({v \in W : v <= w}) - Cardinality(W) - 1 \in Int /\ t[w] \in Int
    BY <2>1
  <2> QED BY <2>2 DEF Weighted
<1> QED BY <1>1, SumIsInteger

(* Without the last week, each place is one lower in a table of one fewer. *)
LEMMA TrendStep ==
    ASSUME NEW s, IsFiniteSet(s), s \subseteq Int, NEW t, \A w \in s : t[w] \in Int,
           NEW m \in s, \A w \in s : w <= m
    PROVE  LET r == s \ {m}
           IN  SumOf(Weighted(s, t), s) =
                  SumOf(Weighted(r, t), r) + (Cardinality(s) - 1) * t[m] - SumOf(t, r)
<1> DEFINE r == s \ {m}
           n == Cardinality(s)
           g == Weighted(s, t)
           k == Weighted(r, t)
<1>1. IsFiniteSet(r) /\ Cardinality(r) = n - 1 /\ n \in Nat /\ \A w \in r : t[w] \in Int
  BY FS_RemoveElement, FS_CardinalityType
<1>2. g[m] = (n - 1) * t[m]
  <2>1. {v \in s : v <= m} = s
    OBVIOUS
  <2>2. 2 * n - n - 1 = n - 1
    BY <1>1
  <2> QED BY <2>1, <2>2 DEF Weighted
<1>3. ASSUME NEW w \in r PROVE g[w] = k[w] - t[w]
  <2> DEFINE p == Cardinality({v \in r : v <= w})
  <2>1. {v \in s : v <= w} = {v \in r : v <= w}
    <3>1. w \in Int /\ m \in Int /\ w <= m /\ w # m
      OBVIOUS
    <3>2. ~(m <= w)
      BY <3>1
    <3> QED BY <3>2
  <2>2. p \in Nat /\ t[w] \in Int
    BY <1>1, FS_Subset, FS_CardinalityType
  <2>3. g[w] = (2 * p - n - 1) * t[w] /\ k[w] = (2 * p - (n - 1) - 1) * t[w]
    BY <1>1, <2>1 DEF Weighted
  <2> HIDE DEF p, n, g, k
  <2>4. 2 * p - n - 1 = (2 * p - (n - 1) - 1) - 1 /\ 2 * p - (n - 1) - 1 \in Int
    BY <1>1, <2>2
  <2>5. ((2 * p - (n - 1) - 1) - 1) * t[w] = (2 * p - (n - 1) - 1) * t[w] - t[w]
    BY <2>2, <2>4
  <2> QED BY <2>3, <2>4, <2>5
<1>4. SumOf(g, r) = SumOf(k, r) - SumOf(t, r)
  <2>1. \A w \in r : k[w] \in Int /\ t[w] \in Int /\ g[w] = k[w] - t[w]
    BY <1>1, <1>3, WeightedIsInteger
  <2> HIDE DEF r, g, k
  <2> QED BY <1>1, <2>1, SumOfDifferences
<1>5. SumOf(g, s) = g[m] + SumOf(g, r)
  BY WeightedIsInteger, SumTakesOut
<1>6. SumOf(k, r) \in Int /\ SumOf(t, r) \in Int /\ (n - 1) * t[m] \in Int
  <2>1. t[m] \in Int /\ n - 1 \in Int
    BY <1>1
  <2> HIDE DEF r, n
  <2>2. SumOf(k, r) \in Int /\ SumOf(t, r) \in Int
    BY <1>1, WeightedIsInteger, SumIsInteger
  <2> QED BY <2>1, <2>2
<1> HIDE DEF r, n, g, k
<1>7. SumOf(g, s) = SumOf(k, r) + (n - 1) * t[m] - SumOf(t, r)
  BY <1>2, <1>4, <1>5, <1>6
<1> QED BY <1>7 DEF r, n, g, k

(* Totals that never fall from a week to a later one have no falling line. *)
LEMMA SteadyTrend ==
    ASSUME NEW W, IsFiniteSet(W), W \subseteq Int, NEW t, \A w \in W : t[w] \in Int,
           \A v, w \in W : v <= w => t[v] <= t[w]
    PROVE  0 <= SumOf(Weighted(W, t), W)
<1> DEFINE F == {s \in SUBSET W : ~(0 <= SumOf(Weighted(s, t), s))}
<1> SUFFICES ASSUME F # {} PROVE FALSE
  OBVIOUS
<1>1. \A s \in F : IsFiniteSet(s)
  BY FS_Subset
<1>2. PICK s \in F : \A r \in F : Cardinality(s) <= Cardinality(r)
  BY <1>1, SmallestSet
<1>3. s \in SUBSET W /\ IsFiniteSet(s) /\ ~(0 <= SumOf(Weighted(s, t), s)) /\ s # {}
  BY <1>1, SumSteps
<1>4. PICK m \in s : \A w \in s : w <= m
  BY <1>3, LargestExists
<1> DEFINE r == s \ {m}
           n == Cardinality(s)
<1>5. r \in SUBSET W /\ IsFiniteSet(r) /\ Cardinality(r) = n - 1 /\ n \in Nat /\ m \in W
  BY <1>3, FS_RemoveElement, FS_CardinalityType
<1>6. 0 <= SumOf(Weighted(r, t), r)
  BY <1>2, <1>5
<1>7. SumOf(Weighted(s, t), s) = SumOf(Weighted(r, t), r) + (n - 1) * t[m] - SumOf(t, r)
  BY <1>3, <1>4, TrendStep
<1>8. SumOf(t, r) <= t[m] * (n - 1)
  <2>1. t[m] \in Int /\ \A w \in r : t[w] \in Int /\ t[w] <= t[m]
    BY <1>3, <1>4, <1>5
  <2> HIDE DEF r, n
  <2>2. SumOf(t, r) <= t[m] * Cardinality(r)
    BY <1>5, <2>1, SumIsBounded
  <2> QED BY <1>5, <2>2
<1>9. SumOf(Weighted(r, t), r) \in Int /\ SumOf(t, r) \in Int /\ t[m] \in Int
  BY <1>5, WeightedIsInteger, SumIsInteger
<1> HIDE DEF F, r, n
<1>10. t[m] * (n - 1) = (n - 1) * t[m] /\ t[m] * (n - 1) \in Int
  BY <1>5, <1>9
<1> QED BY <1>3, <1>6, <1>7, <1>8, <1>9, <1>10

(* The places of the weeks add up as 1, 2, ... n do.  By a smallest set of *)
(* weeks that does not, without its last week.                             *)
Ranks(W) == [w \in W |-> Cardinality({v \in W : v <= w})]

LEMMA RanksAreIntegers ==
    ASSUME NEW W, IsFiniteSet(W)
    PROVE  /\ \A w \in W : Ranks(W)[w] \in Nat
           /\ SumOf(Ranks(W), W) \in Int /\ SumOf(Weighted(W, Ranks(W)), W) \in Int
<1>1. ASSUME NEW w \in W PROVE Ranks(W)[w] \in Nat
  <2>1. Cardinality({v \in W : v <= w}) \in Nat
    BY FS_Subset, FS_CardinalityType
  <2> QED BY <2>1 DEF Ranks
<1>2. \A w \in W : Ranks(W)[w] \in Int
  BY <1>1
<1> QED BY <1>1, <1>2, SumIsInteger, WeightedIsInteger

LEMMA RankStep ==
    ASSUME NEW s, IsFiniteSet(s), s \subseteq Int, NEW m \in s, \A w \in s : w <= m
    PROVE  LET r == s \ {m}
               n == Cardinality(s)
           IN  /\ SumOf(Ranks(s), s) = n + SumOf(Ranks(r), r)
               /\ SumOf(Weighted(s, Ranks(s)), s) =
                     SumOf(Weighted(r, Ranks(r)), r) + (n - 1) * n - SumOf(Ranks(r), r)
<1> DEFINE r == s \ {m}
           n == Cardinality(s)
           p == Ranks(s)
           q == Ranks(r)
<1>1. IsFiniteSet(r) /\ n \in Nat /\ \A w \in s : p[w] \in Int
  BY FS_RemoveElement, FS_CardinalityType, RanksAreIntegers
<1>2. p[m] = n
  <2>1. {v \in s : v <= m} = s
    OBVIOUS
  <2> QED BY <2>1 DEF Ranks
<1>3. ASSUME NEW w \in r PROVE p[w] = q[w]
  <2>1. w \in Int /\ m \in Int /\ w <= m /\ w # m
    OBVIOUS
  <2>2. ~(m <= w)
    BY <2>1
  <2>3. {v \in s : v <= w} = {v \in r : v <= w}
    BY <2>2
  <2> QED BY <2>3 DEF Ranks
<1>4. \A w \in r : p[w] \in Int /\ p[w] = q[w]
  BY <1>1, <1>3
<1>5. \A w \in r : Weighted(r, p)[w] \in Int /\ Weighted(r, p)[w] = Weighted(r, q)[w]
  <2>1. \A w \in r : Weighted(r, p)[w] \in Int
    <3> HIDE DEF r, p
    <3> QED BY <1>1, <1>4, WeightedIsInteger
  <2>2. \A w \in r : Weighted(r, p)[w] = Weighted(r, q)[w]
    <3> HIDE DEF r, p, q
    <3> QED BY <1>4 DEF Weighted
  <2> QED BY <2>1, <2>2
<1>6. SumOf(p, s) = p[m] + SumOf(p, r)
  <2> HIDE DEF p
  <2> QED BY <1>1, SumTakesOut
<1>7. SumOf(Weighted(s, p), s) = SumOf(Weighted(r, p), r) + (n - 1) * p[m] - SumOf(p, r)
  <2> HIDE DEF p
  <2> QED BY <1>1, TrendStep
<1>8. /\ SumOf(p, r) = SumOf(q, r)
      /\ SumOf(Weighted(r, p), r) = SumOf(Weighted(r, q), r)
  <2> HIDE DEF r, p, q
  <2> QED BY <1>1, <1>4, <1>5, SumOfEqualValues
<1>9. SumOf(p, s) = n + SumOf(q, r)
  BY <1>2, <1>6, <1>8
<1>10. SumOf(Weighted(s, p), s) = SumOf(Weighted(r, q), r) + (n - 1) * n - SumOf(q, r)
  <2> HIDE DEF r, n, p, q
  <2> QED BY <1>2, <1>7, <1>8
<1> QED BY <1>9, <1>10

LEMMA RankSums ==
    ASSUME NEW W, IsFiniteSet(W), W \subseteq Int
    PROVE  LET n == Cardinality(W)
           IN  /\ 2 * SumOf(Ranks(W), W) = n * (n + 1)
               /\ 6 * SumOf(Weighted(W, Ranks(W)), W) = n * (n * n - 1)
<1> DEFINE A(s) == SumOf(Ranks(s), s)
           B(s) == SumOf(Weighted(s, Ranks(s)), s)
           C(s) == Cardinality(s)
           Holds(s) == /\ 2 * A(s) = C(s) * (C(s) + 1)
                       /\ 6 * B(s) = C(s) * (C(s) * C(s) - 1)
           F == {s \in SUBSET W : ~Holds(s)}
<1>1. SUFFICES ASSUME F # {} PROVE FALSE
  OBVIOUS
<1>2. \A s \in F : IsFiniteSet(s)
  BY FS_Subset
<1>3. PICK s \in F : \A r \in F : C(s) <= C(r)
  BY <1>1, <1>2, SmallestSet
<1>4. s \in SUBSET W /\ IsFiniteSet(s) /\ ~Holds(s)
  BY <1>2
<1>5. s # {}
  <2>1. ASSUME s = {} PROVE Holds(s)
    <3>1. A(s) = 0 /\ B(s) = 0 /\ C(s) = 0
      BY <1>4, <2>1, SumSteps, FS_EmptySet
    <3> HIDE DEF A, B, C
    <3> QED BY <3>1
  <2> QED BY <1>4, <2>1
<1>6. PICK m \in s : \A w \in s : w <= m
  BY <1>4, <1>5, LargestExists
<1> DEFINE r == s \ {m}
           n == C(s)
<1>7. r \in SUBSET W /\ IsFiniteSet(r) /\ C(r) = n - 1 /\ n \in Nat
  BY <1>4, FS_RemoveElement, FS_CardinalityType
<1>8. Holds(r)
  <2>1. ~(C(s) <= C(r))
    <3> HIDE DEF C, r
    <3> QED BY <1>7
  <2>2. r \notin F
    BY <1>3, <2>1
  <2> QED BY <1>7, <2>2
<1>9. A(s) = n + A(r) /\ B(s) = B(r) + (n - 1) * n - A(r)
  BY <1>4, <1>6, RankStep
<1>10. A(r) \in Int /\ B(r) \in Int
  BY <1>7, RanksAreIntegers
<1> HIDE DEF A, B, C, r, F
<1>11. /\ 2 * A(r) = (n - 1) * n
       /\ 6 * B(r) = (n - 1) * ((n - 1) * (n - 1) - 1)
  BY <1>7, <1>8
<1> HIDE DEF n
<1>12. 2 * A(s) = n * (n + 1)
  BY <1>7, <1>9, <1>10, <1>11
<1>13. 6 * B(s) = (n - 1) * ((n - 1) * (n - 1) - 1) + 6 * ((n - 1) * n) - 3 * ((n - 1) * n)
  BY <1>7, <1>9, <1>10, <1>11
<1>14. (n - 1) * ((n - 1) * (n - 1) - 1) + 6 * ((n - 1) * n) - 3 * ((n - 1) * n)
         = n * (n * n - 1)
  BY <1>7
<1> QED BY <1>4, <1>12, <1>13, <1>14 DEF n

(* Whole numbers that fall from each week to the next have fallen at least *)
(* as far as there are weeks between.                                      *)
LEMMA RanksAreNoFurther ==
    ASSUME NEW W, IsFiniteSet(W), W \subseteq Int, NEW t, \A w \in W : t[w] \in Int,
           \A v, w \in W : v < w => t[w] < t[v], NEW v \in W, NEW w \in W, v < w
    PROVE  Ranks(W)[w] - Ranks(W)[v] <= t[v] - t[w]
<1> DEFINE A == {x \in W : x <= v}
           B == {x \in W : x <= w}
           S == B \ A
           T == t[w] .. (t[v] - 1)
           f == [x \in S |-> t[x]]
<1>1. IsFiniteSet(A) /\ IsFiniteSet(B) /\ A \subseteq B
  <2>1. ASSUME NEW x \in W, x <= v PROVE x <= w
    <3>1. x \in Int /\ v \in Int /\ w \in Int
      OBVIOUS
    <3> QED BY <2>1, <3>1
  <2>2. A \subseteq B
    BY <2>1
  <2> QED BY <2>2, FS_Subset
<1>2. Cardinality(S) = Cardinality(B) - Cardinality(A)
  <2>1. B \cap A = A
    BY <1>1
  <2> HIDE DEF A, B
  <2>2. Cardinality(B \ A) = Cardinality(B) - Cardinality(B \cap A)
    BY <1>1, FS_Difference
  <2> QED BY <2>1, <2>2
<1>3. t[w] \in Int /\ t[v] \in Int /\ t[w] < t[v]
  OBVIOUS
<1>4. IsFiniteSet(T) /\ Cardinality(T) = t[v] - t[w]
  <2>1. t[v] - 1 \in Int /\ ~(t[w] > t[v] - 1) /\ (t[v] - 1) - t[w] + 1 = t[v] - t[w]
    BY <1>3
  <2> QED BY <1>3, <2>1, FS_Interval
<1>5. ASSUME NEW x \in S PROVE f[x] \in T
  <2>1. x \in W /\ x \in Int /\ v < x /\ (x = w \/ x < w)
    OBVIOUS
  <2>2. t[x] \in Int /\ t[x] < t[v] /\ t[w] <= t[x]
    BY <1>3, <2>1
  <2> QED BY <1>3, <2>2
<1>6. ASSUME NEW x \in S, NEW y \in S, f[x] = f[y] PROVE x = y
  <2>1. x \in W /\ y \in W /\ x \in Int /\ y \in Int /\ t[x] = t[y] /\ t[x] \in Int
    BY <1>6
  <2>2. ~(x < y) /\ ~(y < x)
    BY <2>1
  <2> QED BY <2>1, <2>2
<1>7. f \in Injection(S, T)
  <2> HIDE DEF S, T
  <2> QED BY <1>5, <1>6 DEF Injection, IsInjective
<1>8. Cardinality(S) <= Cardinality(T)
  BY <1>4, <1>7, FS_Injection
<1>9. Ranks(W)[w] = Cardinality(B) /\ Ranks(W)[v] = Cardinality(A)
  BY DEF Ranks
<1> HIDE DEF A, B, S, T
<1> QED BY <1>2, <1>4, <1>8, <1>9

(* Totals that fall from each week to the next have a line that falls by   *)
(* one a week at least: with the places added, they still do not rise.     *)
LEMMA FallingTrend ==
    ASSUME NEW W, IsFiniteSet(W), W \subseteq Int, NEW t, \A w \in W : t[w] \in Int,
           \A v, w \in W : v < w => t[w] < t[v]
    PROVE  LET n == Cardinality(W)
           IN  6 * SumOf(Weighted(W, t), W) <= -(n * (n * n - 1))
<1> DEFINE n == Cardinality(W)
           p == Ranks(W)
           k == [w \in W |-> -t[w] - p[w]]
           z == [w \in W |-> -Weighted(W, t)[w]]
           c(w) == 2 * Cardinality({v \in W : v <= w}) - n - 1
<1>1. n \in Nat /\ \A w \in W : p[w] \in Int
  BY FS_CardinalityType, RanksAreIntegers
<1>2. ASSUME NEW v \in W, NEW w \in W, v <= w PROVE k[v] <= k[w]
  <2>1. v = w \/ v < w
    BY <1>2
  <2>2. v < w => p[w] - p[v] <= t[v] - t[w]
    BY RanksAreNoFurther
  <2>3. p[v] \in Int /\ p[w] \in Int /\ t[v] \in Int /\ t[w] \in Int
    BY <1>1
  <2>4. k[v] = -t[v] - p[v] /\ k[w] = -t[w] - p[w]
    OBVIOUS
  <2> HIDE DEF k, p
  <2> QED BY <2>1, <2>2, <2>3, <2>4
<1>3. \A w \in W : k[w] \in Int
  BY <1>1
<1>4. 0 <= SumOf(Weighted(W, k), W)
  <2> HIDE DEF k
  <2> QED BY <1>2, <1>3, SteadyTrend
<1>5. /\ \A w \in W : Weighted(W, t)[w] \in Int /\ Weighted(W, p)[w] \in Int
      /\ SumOf(Weighted(W, t), W) \in Int /\ SumOf(Weighted(W, p), W) \in Int
  <2> HIDE DEF p
  <2> QED BY <1>1, WeightedIsInteger
<1>6. ASSUME NEW w \in W PROVE Weighted(W, k)[w] = z[w] - Weighted(W, p)[w]
  <2>1. c(w) \in Int
    <3>1. Cardinality({v \in W : v <= w}) \in Nat
      BY FS_Subset, FS_CardinalityType
    <3> QED BY <1>1, <3>1
  <2>2. /\ Weighted(W, k)[w] = c(w) * (-t[w] - p[w])
        /\ Weighted(W, p)[w] = c(w) * p[w]
        /\ z[w] = -(c(w) * t[w])
    BY DEF Weighted
  <2>3. t[w] \in Int /\ p[w] \in Int
    BY <1>1
  <2> HIDE DEF c, k, p, z
  <2>4. c(w) * (-t[w] - p[w]) = -(c(w) * t[w]) - c(w) * p[w]
    BY <2>1, <2>3
  <2> QED BY <2>2, <2>4
<1>7. SumOf(z, W) = -SumOf(Weighted(W, t), W)
  <2>1. \A w \in W : z[w] = -Weighted(W, t)[w]
    OBVIOUS
  <2> HIDE DEF z
  <2> QED BY <1>5, <2>1, SumOfNegatives
<1>8. SumOf(Weighted(W, k), W) = SumOf(z, W) - SumOf(Weighted(W, p), W)
  <2>1. \A w \in W : z[w] \in Int
    BY <1>5
  <2> HIDE DEF z, k, p
  <2> QED BY <1>5, <1>6, <2>1, SumOfDifferences
<1>9. 6 * SumOf(Weighted(W, p), W) = n * (n * n - 1)
  BY RankSums
<1> HIDE DEF k, p, z, n
<1>10. SumOf(Weighted(W, t), W) + SumOf(Weighted(W, p), W) <= 0
  BY <1>4, <1>5, <1>7, <1>8
<1>11. 6 * SumOf(Weighted(W, t), W) <= -(6 * SumOf(Weighted(W, p), W))
  BY <1>5, <1>10
<1> QED BY <1>9, <1>11 DEF n

LEMMA TotalsAreIntegers ==
    ASSUME NEW u, IsFiniteSet(u), \A r \in u : r.week \in Nat /\ r.sessions \in Int
    PROVE  /\ IsFiniteSet(Weeks(u)) /\ Weeks(u) \subseteq Int
           /\ \A w : WeekTotal(u, w) \in Int
           /\ Trend(u) = SumOf(Weighted(Weeks(u), [w \in Weeks(u) |-> WeekTotal(u, w)]), Weeks(u))
           /\ Trend(u) \in Int
<1> DEFINE t == [w \in Weeks(u) |-> WeekTotal(u, w)]
           g == [r \in u |-> r.sessions]
<1>1. Trend(u) = SumOf(Weighted(Weeks(u), t), Weeks(u)) /\ IsFiniteSet(Weeks(u))
  BY TrendIsSum
<1>2. ASSUME NEW w PROVE WeekTotal(u, w) \in Int
  <2>1. WeekTotal(u, w) = SumOf(g, {r \in u : r.week = w})
    BY WeekIsSum
  <2>2. IsFiniteSet({r \in u : r.week = w}) /\ \A r \in u : g[r] \in Int
    BY FS_Subset
  <2> HIDE DEF g
  <2> QED BY <2>1, <2>2, SumIsInteger
<1>3. \A w \in Weeks(u) : t[w] \in Int
  BY <1>2
<1>4. Trend(u) \in Int
  <2> HIDE DEF t
  <2> QED BY <1>1, <1>3, WeightedIsInteger
<1>5. Weeks(u) \subseteq Int
  BY DEF Weeks
<1> QED BY <1>1, <1>2, <1>4, <1>5

(* What Declining compares the trend with is not negative.                 *)
LEMMA ScaleIsPositive ==
    ASSUME NEW n \in Nat, n >= 2
    PROVE  n * (n * n - 1) \in Nat \ {0}
<1>1. n * n - 1 \in Nat \ {0}
  OBVIOUS
<1> QED BY <1>1

(* summary.py does not call steady use declining, and does call use that   *)
(* falls each week so.                                                     *)
LEMMA SteadyIsNotDeclining ==
    ASSUME NEW u, IsFiniteSet(u), \A r \in u : r.week \in Nat /\ r.sessions \in Int,
           \A v, w \in Weeks(u) : v <= w => WeekTotal(u, v) <= WeekTotal(u, w)
    PROVE  ~Declining(u)
<1> DEFINE t == [w \in Weeks(u) |-> WeekTotal(u, w)]
           n == Cardinality(Weeks(u))
<1>1. /\ IsFiniteSet(Weeks(u)) /\ Weeks(u) \subseteq Int
      /\ \A w \in Weeks(u) : t[w] \in Int
      /\ Trend(u) = SumOf(Weighted(Weeks(u), t), Weeks(u)) /\ Trend(u) \in Int
  BY TotalsAreIntegers
<1>2. \A v, w \in Weeks(u) : v <= w => t[v] <= t[w]
  OBVIOUS
<1>3. 0 <= Trend(u)
  <2> HIDE DEF t
  <2> QED BY <1>1, <1>2, SteadyTrend
<1>4. n \in Nat
  BY <1>1, FS_CardinalityType
<1> HIDE DEF n
<1>5. ASSUME n >= 2
      PROVE  /\ ~(1200 * Trend(u) < -(n * (n * n - 1)))
             /\ ~(1200 * Trend(u) = -(n * (n * n - 1)))
  BY <1>1, <1>3, <1>4, <1>5, ScaleIsPositive
<1> QED BY <1>5 DEF Declining, n

LEMMA FallingIsDeclining ==
    ASSUME NEW u, IsFiniteSet(u), \A r \in u : r.week \in Nat /\ r.sessions \in Int,
           Cardinality(Weeks(u)) >= 2,
           \A v, w \in Weeks(u) : v < w => WeekTotal(u, w) < WeekTotal(u, v)
    PROVE  Declining(u)
<1> DEFINE t == [w \in Weeks(u) |-> WeekTotal(u, w)]
           n == Cardinality(Weeks(u))
<1>1. /\ IsFiniteSet(Weeks(u)) /\ Weeks(u) \subseteq Int
      /\ \A w \in Weeks(u) : t[w] \in Int
      /\ Trend(u) = SumOf(Weighted(Weeks(u), t), Weeks(u)) /\ Trend(u) \in Int
  BY TotalsAreIntegers
<1>2. \A v, w \in Weeks(u) : v < w => t[w] < t[v]
  OBVIOUS
<1>3. 6 * Trend(u) <= -(n * (n * n - 1))
  <2> HIDE DEF t
  <2> QED BY <1>1, <1>2, FallingTrend
<1>4. n \in Nat /\ n >= 2
  BY <1>1, FS_CardinalityType
<1> HIDE DEF n
<1>5. 1200 * Trend(u) < -(n * (n * n - 1))
  BY <1>1, <1>3, <1>4, ScaleIsPositive
<1> QED BY <1>4, <1>5 DEF Declining, n

(* Nothing but a payment, a credit note or a refund lowers the outstanding *)
(* amount.                                                                 *)
LEMMA OutstandingGrows ==
    ASSUME NEW c, IsFiniteSet(c), \A r \in c : r.cents \in Int, Signed(c), NEW b \in SUBSET c,
           \A r \in c \ b : r.event \notin
              {"payment_received", "credit_note_issued", "refund_completed"}
    PROVE  /\ Outstanding(b) \in Int /\ Outstanding(c) \in Int
           /\ Outstanding(b) <= Outstanding(c)
<1> DEFINE g == [r \in c |-> r.cents]
           I(x) == SumOf(g, OfEvent(x, "invoice_issued"))
           P(x) == SumOf(g, OfEvent(x, "payment_received"))
           C(x) == SumOf(g, OfEvent(x, "credit_note_issued"))
           R(x) == SumOf(g, OfEvent(x, "refund_completed"))
<1>1. \A r \in c : g[r] = r.cents /\ g[r] \in Int
  OBVIOUS
<1>2. ASSUME NEW x \in SUBSET c, NEW event
      PROVE  /\ OfEvent(x, event) \subseteq OfEvent(c, event) /\ IsFiniteSet(OfEvent(x, event))
             /\ OfEvent(x, event) \subseteq c
             /\ SumAmount(x, event) = SumOf(g, OfEvent(x, event))
             /\ SumOf(g, OfEvent(x, event)) \in Int
  <2>1. IsFiniteSet(x) /\ OfEvent(x, event) \subseteq OfEvent(c, event)
    BY FS_Subset DEF OfEvent
  <2>2. OfEvent(x, event) \subseteq x /\ IsFiniteSet(OfEvent(x, event))
    BY <2>1, FS_Subset DEF OfEvent
  <2>3. SumAmount(x, event) = SumOf(g, OfEvent(x, event))
    BY <1>1, <2>1, AmountIsSum
  <2>4. SumOf(g, OfEvent(x, event)) \in Int
    BY <1>1, <2>2, SumIsInteger
  <2> QED BY <2>1, <2>2, <2>3, <2>4
<1>3. ASSUME NEW x \in SUBSET c
      PROVE  /\ Outstanding(x) = I(x) - P(x) - C(x) + R(x)
             /\ I(x) \in Int /\ P(x) \in Int /\ C(x) \in Int /\ R(x) \in Int
  BY <1>2 DEF Outstanding
<1>4. P(b) = P(c) /\ C(b) = C(c) /\ R(b) = R(c)
  <2>1. /\ OfEvent(b, "payment_received") = OfEvent(c, "payment_received")
        /\ OfEvent(b, "credit_note_issued") = OfEvent(c, "credit_note_issued")
        /\ OfEvent(b, "refund_completed") = OfEvent(c, "refund_completed")
    BY DEF OfEvent
  <2> QED BY <2>1
<1> HIDE DEF g
<1>5. I(b) <= I(c)
  <2>1. \A r \in OfEvent(c, "invoice_issued") : g[r] \in Nat
    BY <1>1 DEF OfEvent, Signed
  <2> QED BY <1>2, <2>1, SumGrows
<1> HIDE DEF I, P, C, R
<1> QED BY <1>3, <1>4, <1>5

-----------------------------------------------------------------------------
(* Flags.                                                                  *)

(* More rows keep a flag, and its severity, unless one of them can clear   *)
(* it.                                                                     *)
LEMMA FlagsStay ==
    ASSUME NEW c, IsFiniteSet(c), \A r \in c : r.cents \in Int, Signed(c), NEW b \in SUBSET c,
           NEW u, NEW v, NEW rt, IsFiniteSet(rt), NEW st \in SUBSET rt,
           NEW th, th.outstanding \in Int, th.reminders \in Int, th.breaches \in Int,
           NEW f \in RuleFlags(b, u, st, th),
           f.id = "outstanding-balance" =>
              \A r \in c \ b : r.event \notin
                 {"payment_received", "credit_note_issued", "refund_completed"},
           f.id = "open-disputes" => \A r \in c \ b : r.event # "dispute_resolved",
           f.id = "usage-declining" => v = u,
           f.id = "low-csat" => \A r \in rt \ st : r.kind # "survey"
    PROVE  \E g \in RuleFlags(c, v, rt, th) :
              g.id = f.id /\ (f.severity = "alert" => g.severity = "alert")
<1> DEFINE g == [id |-> f.id, severity |-> Severity(f.id, rt, th)]
<1>1. f.id \in FlagIds /\ Raised(f.id, b, u, st, th) /\ f.severity = Severity(f.id, st, th)
  BY DEF RuleFlags
<1>2. ASSUME NEW event
      PROVE  /\ Events(b, event) \in Nat /\ Events(c, event) \in Nat
             /\ Events(b, event) <= Events(c, event)
  <2>1. OfEvent(b, event) \subseteq OfEvent(c, event) /\ OfEvent(c, event) \subseteq c
    BY DEF OfEvent
  <2>2. IsFiniteSet(OfEvent(c, event)) /\ IsFiniteSet(OfEvent(b, event))
    BY <2>1, FS_Subset
  <2> QED BY <2>1, <2>2, FS_Subset, FS_CardinalityType DEF Events
<1>3. /\ SlaBreaches(st) \in Nat /\ SlaBreaches(rt) \in Nat
      /\ SlaBreaches(st) <= SlaBreaches(rt)
  <2> DEFINE S == {r \in st : r.breach}
             T == {r \in rt : r.breach}
  <2>1. IsFiniteSet(T) /\ S \subseteq T
    BY FS_Subset
  <2>2. IsFiniteSet(S) /\ Cardinality(S) <= Cardinality(T)
    BY <2>1, FS_Subset
  <2> HIDE DEF S, T
  <2>3. Cardinality(S) \in Nat /\ Cardinality(T) \in Nat
    BY <2>1, <2>2, FS_CardinalityType
  <2> QED BY <2>2, <2>3 DEF SlaBreaches, S, T
<1>4. Raised(f.id, c, v, rt, th)
  <2>1. CASE f.id = "outstanding-balance"
    <3>1. Outstanding(b) > th.outstanding
      BY <1>1, <2>1 DEF Raised
    <3>2. /\ Outstanding(b) \in Int /\ Outstanding(c) \in Int
          /\ Outstanding(b) <= Outstanding(c)
      BY <2>1, OutstandingGrows
    <3>3. Outstanding(c) > th.outstanding
      BY <3>1, <3>2
    <3> QED BY <2>1, <3>3 DEF Raised
  <2>2. CASE f.id = "late-payment-pattern"
    <3>1. RemindersSent(b) > th.reminders
      BY <1>1, <2>2 DEF Raised
    <3>2. RemindersSent(c) > th.reminders
      BY <1>2, <3>1 DEF RemindersSent
    <3> QED BY <2>2, <3>2 DEF Raised
  <2>3. CASE f.id = "open-disputes"
    <3>1. OpenDisputes(b) > 0
      BY <1>1, <2>3 DEF Raised
    <3>2. Events(b, "dispute_resolved") = Events(c, "dispute_resolved")
      <4>1. OfEvent(b, "dispute_resolved") = OfEvent(c, "dispute_resolved")
        BY <2>3 DEF OfEvent
      <4> QED BY <4>1 DEF Events
    <3>3. OpenDisputes(c) > 0
      BY <1>2, <3>1, <3>2 DEF OpenDisputes
    <3> QED BY <2>3, <3>3 DEF Raised
  <2>4. CASE f.id = "usage-declining"
    BY <1>1, <2>4 DEF Raised
  <2>5. CASE f.id = "sla-breaches"
    <3>1. SlaBreaches(st) > 0
      BY <1>1, <2>5 DEF Raised
    <3>2. SlaBreaches(rt) > 0
      BY <1>3, <3>1
    <3> QED BY <2>5, <3>2 DEF Raised
  <2>6. CASE f.id = "low-csat"
    <3>1. Scored(st) # {} /\ MeanCsat(st) < th.csat
      BY <1>1, <2>6 DEF Raised
    <3>2. Scored(rt) = Scored(st)
      BY <2>6 DEF Scored
    <3>3. MeanCsat(rt) = MeanCsat(st)
      BY <3>2 DEF MeanCsat
    <3> QED BY <2>6, <3>1, <3>2, <3>3 DEF Raised
  <2> QED BY <1>1, <2>1, <2>2, <2>3, <2>4, <2>5, <2>6 DEF FlagIds
<1>5. g \in RuleFlags(c, v, rt, th)
  BY <1>1, <1>4 DEF RuleFlags
<1>6. f.severity = "alert" => g.severity = "alert"
  BY <1>1, <1>3 DEF Severity
<1> QED BY <1>5, <1>6

-----------------------------------------------------------------------------
(* Reports.                                                                *)

FlagsOf(rows, a) ==
    LET of(src) == {r \in rows : r.source = src}
    IN  RuleFlags(of("billing"), of("product_usage"), of("support_tickets"), Thresholds[a])

(* The flags of a report are those of the rows of its run.                 *)
FlagsOfRows == report.ready => report.flags = FlagsOf(last.rows, last.account)

LEMMA FlagsOfRun ==
    ASSUME NEW a, RunEnriches(a)
    PROVE  report'.flags = FlagsOf(last'.rows, last'.account)
<1>1. last'.account = a
  BY ContextIsInFiles DEF RunEnriches
<1> QED BY <1>1 DEF RunEnriches, Enriched, FlagsOf

LEMMA StepKeepsFlagsOfRows ==
    ASSUME FlagsOfRows, [EnrichNext]_enrichVars
    PROVE  FlagsOfRows'
<1>1. ASSUME NEW a \in Accounts, RunEnriches(a) PROVE FlagsOfRows'
  BY <1>1, FlagsOfRun DEF FlagsOfRows
<1>2. CASE report' = report /\ last' = last
  BY <1>2 DEF FlagsOfRows
<1>3. CASE ~report'.ready
  BY <1>3 DEF FlagsOfRows
<1> QED BY <1>1, <1>2, <1>3, ReportStaysOrIsNew

(* What the rules of the flags ask of rows.                                *)
LEMMA CellsOfRows ==
    ASSUME NEW rows \in SUBSET (Rows \cup OtherRows)
    PROVE  /\ \A src : IsFiniteSet({r \in rows : r.source = src})
           /\ \A r \in rows : r.source = "billing" => r \in Rows /\ r.cents \in Int
           /\ \A r \in rows : r.source = "product_usage" => r.week \in Nat /\ r.sessions \in Int
<1>1. IsFiniteSet(Rows \cup OtherRows)
  BY EnrichAssumption, FS_Union
<1>2. \A src : {r \in rows : r.source = src} \subseteq Rows \cup OtherRows
  OBVIOUS
<1>3. \A src : IsFiniteSet({r \in rows : r.source = src})
  BY <1>1, <1>2, FS_Subset
<1>4. \A r \in OtherRows : r.source # "billing"
  BY EnrichAssumption DEF Sources, Policed
<1>5. \A r \in Rows : r.source = "billing"
  BY EnrichAssumption
<1> QED BY <1>3, <1>4, <1>5, CellsAssumption

(* Use that no week sees fall is not called declining, whatever the order  *)
(* of the export, how many weeks there are and how uneven the growth is.   *)
THEOREM SteadyUse == EnrichSpec => []SteadyUseIsNotDeclining
<1>1. EnrichInit => FlagsOfRows
  BY DEF EnrichInit, NoReport, FlagsOfRows
<1>2. EnrichTypeOK /\ FlagsOfRows => SteadyUseIsNotDeclining
  <2> SUFFICES ASSUME EnrichTypeOK, FlagsOfRows, report.ready, NEW u, u = Of("product_usage"),
                      \A v, w \in Weeks(u) : v <= w => WeekTotal(u, v) <= WeekTotal(u, w),
                      NEW f \in report.flags, f.id = "usage-declining"
               PROVE  FALSE
    BY DEF SteadyUseIsNotDeclining
  <2>1. IsFiniteSet(u) /\ \A r \in u : r.week \in Nat /\ r.sessions \in Int
    <3>1. last.rows \in SUBSET (Rows \cup OtherRows)
      BY DEF EnrichTypeOK, TypeOK
    <3> QED BY <3>1, CellsOfRows DEF Of
  <2>2. ~Declining(u)
    BY <2>1, SteadyIsNotDeclining
  <2>3. f \in RuleFlags(Of("billing"), u, Of("support_tickets"), Thresholds[last.account])
    BY DEF FlagsOfRows, FlagsOf, Of
  <2>4. Declining(u)
    BY <2>3 DEF RuleFlags, Raised
  <2> QED BY <2>2, <2>4
<1> QED BY <1>1, <1>2, StepKeepsFlagsOfRows, EnrichTypeCorrect, PTL DEF EnrichSpec

(* Use that each week sees fall is called declining, by the least fall and *)
(* in any number of weeks from two on.                                     *)
THEOREM FallingUse == EnrichSpec => []FallingUseIsDeclining
<1>1. EnrichInit => FlagsOfRows
  BY DEF EnrichInit, NoReport, FlagsOfRows
<1>2. EnrichTypeOK /\ FlagsOfRows => FallingUseIsDeclining
  <2> SUFFICES ASSUME EnrichTypeOK, FlagsOfRows, report.ready, NEW u, u = Of("product_usage"),
                      Cardinality(Weeks(u)) >= 2,
                      \A v, w \in Weeks(u) : v < w => WeekTotal(u, w) < WeekTotal(u, v)
               PROVE  \E f \in report.flags : f.id = "usage-declining"
    BY DEF FallingUseIsDeclining
  <2> DEFINE b  == Of("billing")
             st == Of("support_tickets")
             th == Thresholds[last.account]
             f  == [id |-> "usage-declining", severity |-> Severity("usage-declining", st, th)]
  <2>1. IsFiniteSet(u) /\ \A r \in u : r.week \in Nat /\ r.sessions \in Int
    <3>1. last.rows \in SUBSET (Rows \cup OtherRows)
      BY DEF EnrichTypeOK, TypeOK
    <3> QED BY <3>1, CellsOfRows DEF Of
  <2>2. Raised("usage-declining", b, u, st, th)
    BY <2>1, FallingIsDeclining DEF Raised
  <2>3. f \in RuleFlags(b, u, st, th)
    BY <2>2 DEF RuleFlags, FlagIds
  <2>4. report.flags = RuleFlags(b, u, st, th)
    BY DEF FlagsOfRows, FlagsOf, Of
  <2> QED BY <2>3, <2>4
<1> QED BY <1>1, <1>2, StepKeepsFlagsOfRows, EnrichTypeCorrect, PTL DEF EnrichSpec

(* From a report of a customer to the next a flag stays, as severe, unless *)
(* a row came that can clear it: the rows of a run are among those of the  *)
(* next, and no reminder, invoice, opened dispute, reply or breach works   *)
(* against a flag.  Signed says that no invoice has a negative amount.     *)
THEOREM FlagsAreKept ==
    ASSUME OneCode, Strict, Signed(Rows)
    PROVE  EnrichSpec => FlagsClearForAReason
<1> DEFINE Kept2 == report.ready /\ report'.ready /\ last'.account = last.account =>
         \A f \in report.flags :
            \/ \E g \in report'.flags :
                  g.id = f.id /\ (f.severity = "alert" => g.severity = "alert")
            \/ \E r \in last'.rows \ last.rows : Clears(f.id, r)
<1>1. EnrichInit => FlagsOfRows
  BY DEF EnrichInit, NoReport, FlagsOfRows
<1>2. EnrichTypeOK /\ EnrichTypeOK' /\ StillBuilds /\ FlagsOfRows /\ [EnrichNext]_enrichVars
        => [Kept2]_enrichVars
  <2> SUFFICES ASSUME EnrichTypeOK, EnrichTypeOK', StillBuilds, FlagsOfRows, EnrichNext,
                      report.ready, report'.ready, last'.account = last.account,
                      NEW f \in report.flags,
                      ~ \E r \in last'.rows \ last.rows : Clears(f.id, r)
               PROVE  \E g \in report'.flags :
                         g.id = f.id /\ (f.severity = "alert" => g.severity = "alert")
    OBVIOUS
  <2>1. CASE report' = report
    BY <2>1
  <2>2. ASSUME NEW a \in Accounts, RunEnriches(a)
        PROVE  \E g \in report'.flags :
                  g.id = f.id /\ (f.severity = "alert" => g.severity = "alert")
    <3> DEFINE old(src) == {r \in last.rows : r.source = src}
               new(src) == {r \in last'.rows : r.source = src}
               th == Thresholds[last.account]
    <3>1. last.rows \subseteq last'.rows
      BY <2>2, RunKeepsRows
    <3>2. /\ f \in RuleFlags(old("billing"), old("product_usage"), old("support_tickets"), th)
          /\ report'.flags = RuleFlags(new("billing"), new("product_usage"),
                                       new("support_tickets"), th)
      BY <2>2, FlagsOfRun DEF FlagsOfRows, FlagsOf
    <3>3. last.account \in Accounts
      BY DEF EnrichTypeOK, TypeOK
    <3>4. th.outstanding \in Int /\ th.reminders \in Int /\ th.breaches \in Int
      BY <3>3, CellsAssumption
    <3>5. IsFiniteSet(new("billing")) /\ IsFiniteSet(new("support_tickets"))
          /\ \A r \in new("billing") : r \in Rows /\ r.cents \in Int
      <4>1. last'.rows \in SUBSET (Rows \cup OtherRows)
        BY DEF EnrichTypeOK, TypeOK
      <4> QED BY <4>1, CellsOfRows
    <3>6. Signed(new("billing"))
      BY <3>5 DEF Signed
    <3>7. \A src : old(src) \subseteq new(src)
      BY <3>1
    <3>8. \A src : \A r \in new(src) \ old(src) : r.source = src /\ ~Clears(f.id, r)
      OBVIOUS
    <3>9. f.id = "outstanding-balance" => \A r \in new("billing") \ old("billing") :
             r.event \notin {"payment_received", "credit_note_issued", "refund_completed"}
      BY <3>8 DEF Clears
    <3>10. f.id = "open-disputes" => \A r \in new("billing") \ old("billing") :
              r.event # "dispute_resolved"
      BY <3>8 DEF Clears
    <3>11. f.id = "usage-declining" => new("product_usage") = old("product_usage")
      BY <3>7, <3>8 DEF Clears
    <3>12. f.id = "low-csat" => \A r \in new("support_tickets") \ old("support_tickets") :
              r.kind # "survey"
      BY <3>8 DEF Clears
    <3>13. old("billing") \in SUBSET new("billing")
           /\ old("support_tickets") \in SUBSET new("support_tickets")
      BY <3>7
    <3> HIDE DEF old, new, th
    <3> QED BY <3>2, <3>4, <3>5, <3>6, <3>9, <3>10, <3>11, <3>12, <3>13, FlagsStay
  <2> QED BY <2>1, <2>2, ReportStaysOrIsNew
<1>3. EnrichSpec => [](EnrichTypeOK /\ StillBuilds /\ Remembered /\ EmailsArriveBelow)
  BY ExcerptFacts
<1> QED BY <1>1, <1>2, <1>3, StepKeepsFlagsOfRows, PTL DEF EnrichSpec, FlagsClearForAReason
=============================================================================
