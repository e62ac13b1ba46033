------------------------------ MODULE FiniteSums ------------------------------
(***************************************************************************)
(* Lemmas about sums over finite sets.  MapThenSumSet adds up by recursion *)
(* over the subsets of a set; what it computes is proved here from the     *)
(* well-foundedness of strict inclusion, by a least counterexample.        *)
(***************************************************************************)
EXTENDS Integers, FiniteSets, FiniteSetsExt, FiniteSetTheorems, TLAPS

-----------------------------------------------------------------------------
(* The function that a sum defines over the subsets of a set *)

\* The element a fold takes next.
Pick(s) == CHOOSE x \in s : TRUE

\* f is the function over the subsets of S that the fold of w's values defines.
IsSum(f, w, S) ==
  f = [s \in SUBSET S |-> IF s = {} THEN 0 ELSE w[Pick(s)] + f[s \ {Pick(s)}]]

\* Among the subsets of a finite set there is a least one of any kind there is.
LEMMA LeastSubset ==
  ASSUME NEW S, IsFiniteSet(S), NEW T, T \subseteq SUBSET S, T # {}
  PROVE  \E x \in T : \A y \in T : y \subseteq x => y = x
<1>1. IsWellFoundedOn(StrictSubsetOrdering(S), SUBSET S)
  BY FS_StrictSubsetOrderingWellFounded, FS_FiniteSubsetsOfFinite
<1>2. PICK x \in T : \A y \in T : ~(<<y, x>> \in StrictSubsetOrdering(S))
  BY <1>1, WFMin
<1>3. ASSUME NEW y \in T, y \subseteq x, y # x
      PROVE  FALSE
  <2>1. <<y, x>> \in StrictSubsetOrdering(S)
    BY <1>3 DEF StrictSubsetOrdering
  <2> QED
    BY <1>2, <2>1
<1> QED
  BY <1>3

\* One step of the fold.
LEMMA SumUnfolds ==
  ASSUME NEW S, NEW w, NEW f, IsSum(f, w, S), NEW s \in SUBSET S
  PROVE  f[s] = IF s = {} THEN 0 ELSE w[Pick(s)] + f[s \ {Pick(s)}]
  BY DEF IsSum

\* What is picked is an element.
LEMMA PickIn ==
  ASSUME NEW s, s # {}
  PROVE  Pick(s) \in s
  BY DEF Pick

\* Two sums of the same values agree on every set both are defined for.
LEMMA SumUnique ==
  ASSUME NEW w, NEW S, IsFiniteSet(S), NEW R, NEW f, NEW g, IsSum(f, w, S), IsSum(g, w, R),
         NEW s, s \subseteq S, s \subseteq R
  PROVE  f[s] = g[s]
<1>1. PICK T : T = {t \in SUBSET s : f[t] # g[t]}
  OBVIOUS
<1>2. SUFFICES ASSUME T # {} PROVE FALSE
  BY <1>1
<1>3. T \subseteq SUBSET S
  BY <1>1
<1>4. PICK t \in T : \A y \in T : y \subseteq t => y = t
  BY <1>2, <1>3, LeastSubset
<1>5. t \in SUBSET S /\ t \in SUBSET R /\ t \subseteq s /\ f[t] # g[t]
  BY <1>1
<1>6. t # {}
  BY <1>5, SumUnfolds
<1>7. Pick(t) \in t
  BY <1>6, PickIn
<1>8. f[t \ {Pick(t)}] = g[t \ {Pick(t)}]
  BY <1>1, <1>4, <1>5, <1>7
<1>9. f[t] = w[Pick(t)] + f[t \ {Pick(t)}]
  BY <1>5, <1>6, SumUnfolds
<1>10. g[t] = w[Pick(t)] + g[t \ {Pick(t)}]
  BY <1>5, <1>6, SumUnfolds
<1> QED
  BY <1>5, <1>8, <1>9, <1>10

\* Every finite set has its sums.
LEMMA SumExists ==
  ASSUME NEW w, NEW S, IsFiniteSet(S)
  PROVE  \E f : IsSum(f, w, S)
<1>1. PICK T : T = {t \in SUBSET S : ~ \E f : IsSum(f, w, t)}
  OBVIOUS
<1>2. SUFFICES ASSUME T # {} PROVE FALSE
  BY <1>1
<1>3. PICK s \in T : \A y \in T : y \subseteq s => y = s
  <2>1. T \subseteq SUBSET S
    BY <1>1
  <2> QED
    BY <1>2, <2>1, LeastSubset
<1>4. s \in SUBSET S /\ ~ \E f : IsSum(f, w, s)
  BY <1>1
<1>5. \A u \in SUBSET s : u # s => \E f : IsSum(f, w, u)
  BY <1>1, <1>3, <1>4
<1> DEFINE G(u) == (CHOOSE g : IsSum(g, w, u))[u]
<1>6. PICK f : f = [t \in SUBSET s |-> IF t = {} THEN 0 ELSE w[Pick(t)] + G(t \ {Pick(t)})]
  OBVIOUS
<1>7. \A t \in SUBSET s : f[t] = IF t = {} THEN 0 ELSE w[Pick(t)] + G(t \ {Pick(t)})
  BY <1>6
<1>8. ASSUME NEW u \in SUBSET s, u # s
      PROVE  f[u] = G(u)
  <2>1. PICK g : g = CHOOSE h : IsSum(h, w, u)
    OBVIOUS
  <2>2. IsSum(g, w, u)
    BY <1>5, <1>8, <2>1
  <2>3. G(u) = g[u]
    BY <2>1
  <2>4. CASE u = {}
    <3>1. g[u] = 0
      BY <2>2, <2>4, SumUnfolds
    <3> QED
      BY <1>7, <2>3, <2>4, <3>1
  <2>5. CASE u # {}
    <3>1. PICK v : v = u \ {Pick(u)}
      OBVIOUS
    <3>2. v \in SUBSET s /\ v # s /\ v \subseteq u
      BY <1>8, <2>5, <3>1, PickIn
    <3>3. PICK k : k = CHOOSE h : IsSum(h, w, v)
      OBVIOUS
    <3>4. IsSum(k, w, v)
      BY <1>5, <3>2, <3>3
    <3>5. G(v) = k[v]
      BY <3>3
    <3>6. IsFiniteSet(v)
      BY <1>4, <3>2, FS_Subset
    <3>7. k[v] = g[v]
      BY <2>2, <3>2, <3>4, <3>6, SumUnique
    <3>8. g[u] = w[Pick(u)] + g[v]
      BY <2>2, <2>5, <3>1, SumUnfolds
    <3>9. f[u] = w[Pick(u)] + G(v)
      BY <1>7, <2>5, <3>1
    <3> QED
      BY <2>3, <3>5, <3>7, <3>8, <3>9
  <2> QED
    BY <2>4, <2>5
<1> HIDE DEF G
<1>9. ASSUME NEW t \in SUBSET s
      PROVE  f[t] = IF t = {} THEN 0 ELSE w[Pick(t)] + f[t \ {Pick(t)}]
  <2>1. CASE t = {}
    BY <1>7, <2>1
  <2>2. CASE t # {}
    <3>1. t \ {Pick(t)} \in SUBSET s /\ t \ {Pick(t)} # s
      BY <2>2, PickIn
    <3>2. f[t \ {Pick(t)}] = G(t \ {Pick(t)})
      BY <1>8, <3>1
    <3> QED
      BY <1>7, <2>2, <3>2
  <2> QED
    BY <2>1, <2>2
<1>10. f = [t \in SUBSET s |-> f[t]]
  BY <1>6
<1>11. IsSum(f, w, s)
  BY <1>9, <1>10 DEF IsSum
<1> QED
  BY <1>4, <1>11

\* f sums integers over the subsets of a finite set.
IsIntSum(f, w, S) == IsFiniteSet(S) /\ (\A x \in S : w[x] \in Int) /\ IsSum(f, w, S)

\* An element at a time, any first.
TakesAny(f, w, S) ==
  /\ f[{}] = 0
  /\ \A s \in SUBSET S : \A x \in s : f[s] = w[x] + f[s \ {x}]

\* A sum of integers is one.
LEMMA SumInt ==
  ASSUME NEW S, NEW w, NEW f, IsIntSum(f, w, S)
  PROVE  \A s \in SUBSET S : f[s] \in Int
<1>0. IsFiniteSet(S) /\ (\A x \in S : w[x] \in Int) /\ IsSum(f, w, S)
  BY DEF IsIntSum
<1>1. PICK T : T = {t \in SUBSET S : f[t] \notin Int}
  OBVIOUS
<1>2. SUFFICES ASSUME T # {} PROVE FALSE
  BY <1>1
<1>3. PICK t \in T : \A y \in T : y \subseteq t => y = t
  BY <1>0, <1>1, <1>2, LeastSubset
<1>4. t \in SUBSET S /\ f[t] \notin Int
  BY <1>1
<1>5. t # {}
  <2>1. t = {} => f[t] = 0
    BY <1>0, <1>4, SumUnfolds
  <2> QED
    BY <1>4, <2>1
<1>6. Pick(t) \in t
  BY <1>5, PickIn
<1>7. f[t \ {Pick(t)}] \in Int
  BY <1>1, <1>3, <1>4, <1>6
<1>8. f[t] = w[Pick(t)] + f[t \ {Pick(t)}]
  BY <1>0, <1>4, <1>5 DEF IsSum
<1> QED
  BY <1>0, <1>4, <1>6, <1>7, <1>8

\* The order in which a sum is taken does not matter.
LEMMA SumTakes ==
  ASSUME NEW S, NEW w, NEW f, IsIntSum(f, w, S)
  PROVE  TakesAny(f, w, S)
<1>0. IsFiniteSet(S) /\ (\A x \in S : w[x] \in Int) /\ IsSum(f, w, S)
  BY DEF IsIntSum
<1>1. PICK T : T = {t \in SUBSET S : \E y \in t : f[t] # w[y] + f[t \ {y}]}
  OBVIOUS
<1>2. SUFFICES ASSUME T # {} PROVE FALSE
  <2>1. f[{}] = 0
    BY <1>0 DEF IsSum
  <2> QED
    BY <1>1, <2>1 DEF TakesAny
<1>3. PICK t \in T : \A u \in T : u \subseteq t => u = t
  <2>1. T \subseteq SUBSET S
    BY <1>1
  <2> QED
    BY <1>0, <1>2, <2>1, LeastSubset
<1>4. t \in SUBSET S /\ \E y \in t : f[t] # w[y] + f[t \ {y}]
  BY <1>1
<1>5. PICK y \in t : f[t] # w[y] + f[t \ {y}]
  BY <1>4
<1>6. \A u \in SUBSET t : u # t => \A z \in u : f[u] = w[z] + f[u \ {z}]
  BY <1>1, <1>3, <1>4
<1>7. PICK c : c = Pick(t)
  OBVIOUS
<1>8. c \in t
  BY <1>5, <1>7, PickIn
<1>9. f[t] = w[c] + f[t \ {c}]
  BY <1>0, <1>4, <1>5, <1>7, SumUnfolds
<1>10. c # y
  BY <1>5, <1>9
<1>11. f[t \ {c}] = w[y] + f[(t \ {c}) \ {y}]
  <2>1. t \ {c} \in SUBSET t /\ t \ {c} # t /\ y \in t \ {c}
    BY <1>8, <1>10
  <2> QED
    BY <1>6, <2>1
<1>12. f[t \ {y}] = w[c] + f[(t \ {y}) \ {c}]
  <2>1. t \ {y} \in SUBSET t /\ t \ {y} # t /\ c \in t \ {y}
    BY <1>8, <1>10
  <2> QED
    BY <1>6, <2>1
<1>13. (t \ {c}) \ {y} = (t \ {y}) \ {c}
  OBVIOUS
<1>14. w[c] \in Int /\ w[y] \in Int
  BY <1>0, <1>4, <1>8
<1>15. f[(t \ {y}) \ {c}] \in Int
  <2>1. (t \ {y}) \ {c} \in SUBSET S
    BY <1>4
  <2> QED
    BY <2>1, SumInt
<1>16. f[t] = w[c] + (w[y] + f[(t \ {y}) \ {c}])
  BY <1>9, <1>11, <1>13
<1> QED
  BY <1>5, <1>12, <1>14, <1>15, <1>16

-----------------------------------------------------------------------------
(* The sum over a set *)

\* The values of w added up over S.  (MapThenSumSet takes an operator for w.)
SumOver(w, S) == (CHOOSE f : IsSum(f, w, S))[S]

\* w gives an integer to each member of the finite set S.
Summable(w, S) == IsFiniteSet(S) /\ \A x \in S : w[x] \in Int

\* A sum is a value of any of the functions that define it.
LEMMA SumIsValue ==
  ASSUME NEW S, IsFiniteSet(S), NEW w, NEW f, IsSum(f, w, S), NEW s \in SUBSET S
  PROVE  SumOver(w, s) = f[s]
<1>1. PICK g : g = CHOOSE h : IsSum(h, w, s)
  OBVIOUS
<1>2. IsFiniteSet(s)
  BY FS_Subset
<1>3. IsSum(g, w, s)
  BY <1>1, <1>2, SumExists
<1>4. g[s] = f[s]
  BY <1>2, <1>3, SumUnique
<1> QED
  BY <1>1, <1>4 DEF SumOver

\* Nothing adds up to zero.
LEMMA SumEmpty == \A w : SumOver(w, {}) = 0
<1> SUFFICES ASSUME NEW w PROVE SumOver(w, {}) = 0
  OBVIOUS
<1>1. IsFiniteSet({})
  BY FS_EmptySet
<1>2. PICK f : IsSum(f, w, {})
  BY <1>1, SumExists
<1>3. SumOver(w, {}) = f[{}]
  BY <1>1, <1>2, SumIsValue
<1> QED
  BY <1>2, <1>3, SumUnfolds

\* A sum of integers is one.
LEMMA SumOverInt ==
  ASSUME NEW S, NEW w, Summable(w, S)
  PROVE  SumOver(w, S) \in Int
<1>1. IsFiniteSet(S) /\ \A x \in S : w[x] \in Int
  BY DEF Summable
<1>2. PICK f : IsSum(f, w, S)
  BY <1>1, SumExists
<1>3. IsIntSum(f, w, S)
  BY <1>1, <1>2 DEF IsIntSum
<1> QED
  BY <1>1, <1>2, <1>3, SumInt, SumIsValue

\* Any member may be added first.
LEMMA SumRemove ==
  ASSUME NEW S, NEW w, Summable(w, S), NEW x \in S
  PROVE  SumOver(w, S) = w[x] + SumOver(w, S \ {x})
<1>1. IsFiniteSet(S) /\ \A y \in S : w[y] \in Int
  BY DEF Summable
<1>2. PICK f : IsSum(f, w, S)
  BY <1>1, SumExists
<1>3. TakesAny(f, w, S)
  BY <1>1, <1>2, SumTakes DEF IsIntSum
<1>4. SumOver(w, S) = f[S] /\ SumOver(w, S \ {x}) = f[S \ {x}]
  BY <1>1, <1>2, SumIsValue
<1> QED
  BY <1>3, <1>4 DEF TakesAny

-----------------------------------------------------------------------------
(* Induction over the size of a finite set *)

\* What holds of the empty set and survives one more member holds of the set.
\* (Good is the set of the subsets for which it holds.)
LEMMA GrowingSets ==
  ASSUME NEW S, IsFiniteSet(S), NEW Good, {} \in Good,
         ASSUME NEW s \in SUBSET S, NEW x \in S \ s, s \in Good PROVE s \cup {x} \in Good
  PROVE  S \in Good
<1>1. PICK Bad : Bad = (SUBSET S) \ Good
  OBVIOUS
<1>2. SUFFICES ASSUME Bad # {} PROVE FALSE
  BY <1>1
<1>3. Bad \subseteq SUBSET S
  BY <1>1
<1>4. PICK t \in Bad : \A u \in Bad : u \subseteq t => u = t
  BY <1>2, <1>3, LeastSubset
<1>5. PICK x \in t : TRUE
  BY <1>1
<1>6. PICK s : s = t \ {x}
  OBVIOUS
<1>7. s \in SUBSET S /\ x \in S \ s /\ s \cup {x} = t
  BY <1>1, <1>5, <1>6
<1>8. s \in Good
  BY <1>1, <1>4, <1>5, <1>6, <1>7
<1>9. s \cup {x} \in Good
  BY <1>7, <1>8
<1> QED
  BY <1>1, <1>7, <1>9

\* The sum over one member more.
LEMMA SumAdd ==
  ASSUME NEW S, NEW w, NEW s \in SUBSET S, NEW x \in S \ s, Summable(w, S)
  PROVE  /\ SumOver(w, s \cup {x}) = w[x] + SumOver(w, s)
         /\ Summable(w, s) /\ w[x] \in Int /\ SumOver(w, s) \in Int
<1>1. Summable(w, s) /\ Summable(w, s \cup {x}) /\ w[x] \in Int
  <2>1. s \cup {x} \in SUBSET S
    OBVIOUS
  <2>2. IsFiniteSet(s) /\ IsFiniteSet(s \cup {x})
    BY <2>1, FS_Subset DEF Summable
  <2> QED
    BY <2>2 DEF Summable
<1>2. (s \cup {x}) \ {x} = s /\ x \in s \cup {x}
  OBVIOUS
<1>3. SumOver(w, s \cup {x}) = w[x] + SumOver(w, (s \cup {x}) \ {x})
  BY <1>1, <1>2, SumRemove
<1> QED
  BY <1>1, <1>2, <1>3, SumOverInt

\* A multiple of the values gives the multiple of the sum.
LEMMA SumScale ==
  ASSUME NEW S, NEW w, Summable(w, S), NEW m \in Int, NEW v, \A x \in S : v[x] = m * w[x]
  PROVE  SumOver(v, S) = m * SumOver(w, S)
<1>1. PICK Good : Good = {s \in SUBSET S : SumOver(v, s) = m * SumOver(w, s)}
  OBVIOUS
<1>2. IsFiniteSet(S) /\ Summable(v, S)
  BY DEF Summable
<1>3. {} \in Good
  BY <1>1, SumEmpty
<1>4. ASSUME NEW s \in SUBSET S, NEW x \in S \ s, s \in Good PROVE s \cup {x} \in Good
  <2>1. /\ SumOver(w, s \cup {x}) = w[x] + SumOver(w, s)
        /\ w[x] \in Int /\ SumOver(w, s) \in Int
    BY <1>4, SumAdd
  <2>2. SumOver(v, s \cup {x}) = v[x] + SumOver(v, s)
    BY <1>2, <1>4, SumAdd
  <2>3. v[x] = m * w[x] /\ SumOver(v, s) = m * SumOver(w, s)
    BY <1>1, <1>4
  <2>4. m * w[x] + m * SumOver(w, s) = m * (w[x] + SumOver(w, s))
    BY <2>1
  <2> QED
    BY <1>1, <1>4, <2>1, <2>2, <2>3, <2>4
<1>5. S \in Good
  BY <1>2, <1>3, <1>4, GrowingSets
<1> QED
  BY <1>1, <1>5

\* Only the values of the members matter.
LEMMA SumSame ==
  ASSUME NEW S, NEW w, Summable(w, S), NEW v, \A x \in S : v[x] = w[x]
  PROVE  SumOver(v, S) = SumOver(w, S)
<1>1. \A x \in S : v[x] = 1 * w[x]
  BY DEF Summable
<1>2. SumOver(v, S) = 1 * SumOver(w, S)
  BY <1>1, SumScale
<1> QED
  BY <1>2, SumOverInt

\* Zeros add up to zero.
LEMMA SumZero ==
  ASSUME NEW S, IsFiniteSet(S), NEW w, \A x \in S : w[x] = 0
  PROVE  SumOver(w, S) = 0
<1>1. Summable(w, S) /\ \A x \in S : w[x] = 0 * w[x]
  BY DEF Summable
<1>2. SumOver(w, S) = 0 * SumOver(w, S)
  BY <1>1, SumScale
<1> QED
  BY <1>1, <1>2, SumOverInt

\* Ones count the members.
LEMMA SumOnes ==
  ASSUME NEW S, IsFiniteSet(S), NEW w, \A x \in S : w[x] = 1
  PROVE  SumOver(w, S) = Cardinality(S)
<1>1. PICK Good : Good = {s \in SUBSET S : SumOver(w, s) = Cardinality(s)}
  OBVIOUS
<1>2. Summable(w, S)
  BY DEF Summable
<1>3. {} \in Good
  BY <1>1, SumEmpty, FS_EmptySet
<1>4. ASSUME NEW s \in SUBSET S, NEW x \in S \ s, s \in Good PROVE s \cup {x} \in Good
  <2>1. SumOver(w, s \cup {x}) = w[x] + SumOver(w, s) /\ SumOver(w, s) = Cardinality(s)
    BY <1>1, <1>2, <1>4, SumAdd
  <2>2. IsFiniteSet(s)
    BY FS_Subset
  <2>3. Cardinality(s \cup {x}) = Cardinality(s) + 1 /\ Cardinality(s) \in Nat
    BY <2>2, FS_AddElement, FS_CardinalityType
  <2> QED
    BY <1>1, <2>1, <2>3
<1>5. S \in Good
  BY <1>3, <1>4, GrowingSets
<1> QED
  BY <1>1, <1>5

\* Values that are not negative have no negative sum, and one above zero if one
\* of them is.
LEMMA SumPositive ==
  ASSUME NEW S, IsFiniteSet(S), NEW w, \A x \in S : w[x] \in Nat
  PROVE  /\ SumOver(w, S) \in Nat
         /\ \A x \in S : w[x] > 0 => SumOver(w, S) > 0
<1>0. Summable(w, S)
  BY DEF Summable
<1>1. PICK Good : Good = {s \in SUBSET S : SumOver(w, s) \in Nat}
  OBVIOUS
<1>2. {} \in Good
  BY <1>1, SumEmpty
<1>3. ASSUME NEW s \in SUBSET S, NEW x \in S \ s, s \in Good PROVE s \cup {x} \in Good
  <2>1. SumOver(w, s \cup {x}) = w[x] + SumOver(w, s) /\ SumOver(w, s) \in Nat /\ w[x] \in Nat
    BY <1>0, <1>1, <1>3, SumAdd
  <2> QED
    BY <1>1, <2>1
<1>4. S \in Good
  BY <1>2, <1>3, GrowingSets
<1>5. ASSUME NEW x \in S, w[x] > 0 PROVE SumOver(w, S) > 0
  <2>1. SumOver(w, S) = w[x] + SumOver(w, S \ {x})
    BY <1>0, SumRemove
  <2>2. PICK GoodToo : GoodToo = {s \in SUBSET (S \ {x}) : SumOver(w, s) \in Nat}
    OBVIOUS
  <2>3. IsFiniteSet(S \ {x})
    BY FS_RemoveElement
  <2>4. {} \in GoodToo
    BY <2>2, SumEmpty
  <2>5. ASSUME NEW s \in SUBSET (S \ {x}), NEW y \in (S \ {x}) \ s, s \in GoodToo
        PROVE  s \cup {y} \in GoodToo
    <3>1. /\ SumOver(w, s \cup {y}) = w[y] + SumOver(w, s)
          /\ SumOver(w, s) \in Nat /\ w[y] \in Nat
      BY <1>0, <2>2, <2>5, SumAdd
    <3> QED
      BY <2>2, <2>5, <3>1
  <2>6. S \ {x} \in GoodToo
    BY <2>3, <2>4, <2>5, GrowingSets
  <2> QED
    BY <1>5, <2>1, <2>2, <2>6
<1> QED
  BY <1>1, <1>4, <1>5

-----------------------------------------------------------------------------
(* Sums over parts *)

\* One value that changes changes the sum by as much.
LEMMA SumChange ==
  ASSUME NEW S, NEW w, Summable(w, S), NEW k \in S, NEW d \in Int, NEW v,
         v[k] = w[k] + d, \A x \in S \ {k} : v[x] = w[x]
  PROVE  SumOver(v, S) = SumOver(w, S) + d
<1>1. w[k] \in Int /\ Summable(w, S \ {k}) /\ Summable(v, S)
  <2>1. IsFiniteSet(S \ {k})
    BY FS_RemoveElement DEF Summable
  <2> QED
    BY <2>1 DEF Summable
<1>2. SumOver(v, S \ {k}) = SumOver(w, S \ {k}) /\ SumOver(w, S \ {k}) \in Int
  BY <1>1, SumSame, SumOverInt
<1>3. SumOver(v, S) = v[k] + SumOver(v, S \ {k}) /\ SumOver(w, S) = w[k] + SumOver(w, S \ {k})
  BY <1>1, SumRemove
<1> QED
  BY <1>1, <1>2, <1>3

\* key tells for each member of S which part, of K, it belongs to; and v has
\* the sum of every part.
SumsOfParts(v, K, key, w, S) ==
  /\ \A x \in S : key[x] \in K
  /\ \A k \in K : v[k] = SumOver(w, {x \in S : key[x] = k})

\* The sums of the parts add up to the sum of the whole.
LEMMA SumPartition ==
  ASSUME NEW S, NEW w, Summable(w, S), NEW K, IsFiniteSet(K), NEW key, NEW v,
         SumsOfParts(v, K, key, w, S)
  PROVE  SumOver(v, K) = SumOver(w, S) /\ Summable(v, K)
<1>0. /\ \A x \in S : key[x] \in K
      /\ \A k \in K : v[k] = SumOver(w, {x \in S : key[x] = k})
  BY DEF SumsOfParts
<1>a. \A s \in SUBSET S : \A x \in S \ s :
        /\ SumOver(w, s \cup {x}) = w[x] + SumOver(w, s)
        /\ w[x] \in Int /\ SumOver(w, s) \in Int
  BY SumAdd, ZenonT(40)
<1> DEFINE Part(s, k) == {x \in s : key[x] = k}
           Parts(s) == [k \in K |-> SumOver(w, Part(s, k))]
<1>1. ASSUME NEW s \in SUBSET S
      PROVE  Summable(Parts(s), K)
  <2>1. ASSUME NEW k \in K PROVE SumOver(w, Part(s, k)) \in Int
    <3>1. Part(s, k) \subseteq S
      OBVIOUS
    <3>2. IsFiniteSet(Part(s, k))
      BY <3>1, FS_Subset DEF Summable
    <3>3. Summable(w, Part(s, k))
      BY <3>1, <3>2 DEF Summable
    <3> QED
      BY <3>3, SumOverInt
  <2> QED
    BY <2>1 DEF Summable
<1>2. PICK Good : Good = {s \in SUBSET S : SumOver(Parts(s), K) = SumOver(w, s)}
  OBVIOUS
<1>3. {} \in Good
  <2>1. \A k \in K : Part({}, k) = {}
    OBVIOUS
  <2>2. \A k \in K : Parts({})[k] = 0
    BY <2>1, SumEmpty
  <2>3. SumOver(Parts({}), K) = 0
    BY <2>2, SumZero
  <2> QED
    BY <1>2, <2>3, SumEmpty
<1>4. ASSUME NEW s \in SUBSET S, NEW x \in S \ s, s \in Good
      PROVE  s \cup {x} \in Good
  <2>1. /\ SumOver(w, s \cup {x}) = w[x] + SumOver(w, s)
        /\ w[x] \in Int /\ SumOver(w, s) \in Int
    BY <1>a, <1>4
  <2>2. PICK h \in K : h = key[x]
    BY <1>0
  <2>3. Part(s \cup {x}, h) = Part(s, h) \cup {x} /\ x \in S \ Part(s, h)
    BY <2>2
  <2>4. \A k \in K \ {h} : Part(s \cup {x}, k) = Part(s, k)
    BY <2>2
  <2>5. SumOver(w, Part(s, h) \cup {x}) = w[x] + SumOver(w, Part(s, h))
    <3>1. Part(s, h) \in SUBSET S
      OBVIOUS
    <3> HIDE DEF Part
    <3> QED
      BY <1>a, <2>3, <3>1
  <2> HIDE DEF Part
  <2>6. SumOver(w, Part(s, h)) \in Int
    BY <1>1 DEF Summable
  <2>7. Parts(s \cup {x})[h] = Parts(s)[h] + w[x]
    <3>1. SumOver(w, Part(s \cup {x}, h)) = SumOver(w, Part(s, h)) + w[x]
      <4>1. SumOver(w, Part(s \cup {x}, h)) = w[x] + SumOver(w, Part(s, h))
        BY <2>3, <2>5
      <4>2. \A a, b \in Int : a + b = b + a
        OBVIOUS
      <4> QED
        BY <2>1, <2>6, <4>1, <4>2
    <3> QED
      BY <3>1
  <2>8. \A k \in K \ {h} : Parts(s \cup {x})[k] = Parts(s)[k]
    BY <2>4
  <2>9. PICK p, q : p = Parts(s) /\ q = Parts(s \cup {x})
    OBVIOUS
  <2> HIDE DEF Parts
  <2>10. SumOver(q, K) = SumOver(p, K) + w[x]
    <3>1. Summable(p, K) /\ h \in K /\ w[x] \in Int
      BY <1>1, <1>4, <2>1, <2>9
    <3>2. q[h] = p[h] + w[x] /\ \A k \in K \ {h} : q[k] = p[k]
      BY <2>7, <2>8, <2>9
    <3> QED
      BY <3>1, <3>2, SumChange
  <2>11. SumOver(p, K) = SumOver(w, s)
    BY <1>2, <1>4, <2>9
  <2>12. SumOver(Parts(s \cup {x}), K) = SumOver(w, s \cup {x})
    BY <2>1, <2>9, <2>10, <2>11
  <2> QED
    BY <1>2, <1>4, <2>12
<1>5. S \in Good
  <2> HIDE DEF Parts, Part
  <2> QED
    BY <1>3, <1>4, GrowingSets DEF Summable
<1>6. \A k \in K : v[k] = Parts(S)[k]
  BY <1>0
<1> HIDE DEF Parts, Part
<1>7. SumOver(v, K) = SumOver(Parts(S), K)
  BY <1>1, <1>6, SumSame
<1>8. Summable(v, K)
  BY <1>1, <1>6 DEF Summable
<1> QED
  BY <1>2, <1>5, <1>7, <1>8

-----------------------------------------------------------------------------
(* Small and finite sets *)

\* Two elements are finitely many.
LEMMA PairFinite == \A a, b : IsFiniteSet({a, b})
<1> SUFFICES ASSUME NEW a, NEW b PROVE IsFiniteSet({a, b})
  OBVIOUS
<1>1. IsFiniteSet({a} \cup {b})
  BY FS_Singleton, FS_AddElement
<1>2. {a, b} = {a} \cup {b}
  OBVIOUS
<1> QED
  BY <1>1, <1>2

\* A function takes finitely many values on a finite set.
LEMMA FiniteRange ==
  ASSUME NEW S, IsFiniteSet(S), NEW f
  PROVE  IsFiniteSet({f[x] : x \in S})
<1>1. PICK T : T = {f[x] : x \in S}
  OBVIOUS
<1>2. [x \in S |-> f[x]] \in Surjection(S, T)
  BY <1>1 DEF Surjection
<1> QED
  BY <1>1, <1>2, FS_Surjection

-----------------------------------------------------------------------------
(* Extremes *)

\* A finite set of integers that is not empty has a least and a greatest member.
LEMMA Extremes ==
  ASSUME NEW S \in SUBSET Int, IsFiniteSet(S), S # {}
  PROVE  /\ Min(S) \in S /\ \A x \in S : Min(S) <= x
         /\ Max(S) \in S /\ \A x \in S : x <= Max(S)
<1>1. PICK Good : Good = {s \in SUBSET S : s # {} =>
                            /\ \E m \in s : \A x \in s : m <= x
                            /\ \E m \in s : \A x \in s : x <= m}
  OBVIOUS
<1>2. {} \in Good
  BY <1>1
<1>3. ASSUME NEW s \in SUBSET S, NEW y \in S \ s, s \in Good
      PROVE  s \cup {y} \in Good
  <2>1. CASE s = {}
    <3>1. s \cup {y} = {y} /\ y \in Int /\ y <= y
      BY <2>1
    <3> QED
      BY <1>1, <3>1
  <2>2. CASE s # {}
    <3>1. PICK m \in s, n \in s : \A x \in s : m <= x /\ x <= n
      BY <1>1, <1>3, <2>2
    <3>2. \E p \in s \cup {y} : \A x \in s \cup {y} : p <= x
      <4>1. CASE m <= y
        BY <3>1, <4>1
      <4>2. CASE ~(m <= y)
        BY <3>1, <4>2
      <4> QED
        BY <4>1, <4>2
    <3>3. \E p \in s \cup {y} : \A x \in s \cup {y} : x <= p
      <4>1. CASE y <= n
        BY <3>1, <4>1
      <4>2. CASE ~(y <= n)
        BY <3>1, <4>2
      <4> QED
        BY <4>1, <4>2
    <3> QED
      BY <1>1, <1>3, <3>2, <3>3
  <2> QED
    BY <2>1, <2>2
<1>4. S \in Good
  BY <1>2, <1>3, GrowingSets
<1>5. /\ \E m \in S : \A x \in S : m <= x
      /\ \E m \in S : \A x \in S : x <= m
  BY <1>1, <1>4
<1>6. /\ Min(S) \in S /\ \A x \in S : Min(S) <= x
  BY <1>5 DEF Min
<1>7. /\ Max(S) \in S /\ \A x \in S : x <= Max(S)
  <2>1. \E m \in S : \A x \in S : m >= x
    BY <1>5
  <2>2. Max(S) \in S /\ \A x \in S : Max(S) >= x
    BY <2>1 DEF Max
  <2> QED
    BY <2>2
<1> QED
  BY <1>6, <1>7

\* Members whose value is zero may be left out.
LEMMA SumRestrict ==
  ASSUME NEW S, NEW w, Summable(w, S), NEW T \in SUBSET S, \A x \in S \ T : w[x] = 0
  PROVE  SumOver(w, S) = SumOver(w, T)
<1>1. PICK R : R = S \ T
  OBVIOUS
<1>2. IsFiniteSet(R) /\ IsFiniteSet(T)
  BY <1>1, FS_Subset DEF Summable
<1>3. Summable(w, T)
  BY <1>2 DEF Summable
<1>4. PICK Good : Good = {u \in SUBSET R : SumOver(w, T \cup u) = SumOver(w, T)}
  OBVIOUS
<1>5. {} \in Good
  <2>1. T \cup {} = T
    OBVIOUS
  <2> QED
    BY <1>4, <2>1
<1>6. ASSUME NEW u \in SUBSET R, NEW x \in R \ u, u \in Good
      PROVE  u \cup {x} \in Good
  <2>1. PICK t \in SUBSET S : t = T \cup u
    BY <1>1
  <2>2. x \in S \ t /\ w[x] = 0 /\ T \cup (u \cup {x}) = t \cup {x}
    BY <1>1, <1>6, <2>1
  <2>3. SumOver(w, t \cup {x}) = w[x] + SumOver(w, t)
    BY <2>2, SumAdd
  <2>4. SumOver(w, t) = SumOver(w, T) /\ SumOver(w, T) \in Int
    BY <1>3, <1>4, <1>6, <2>1, SumOverInt
  <2>5. SumOver(w, t \cup {x}) = SumOver(w, T)
    BY <2>2, <2>3, <2>4
  <2> QED
    BY <1>4, <1>6, <2>2, <2>5
<1>7. R \in Good
  BY <1>2, <1>5, <1>6, GrowingSets
<1>8. T \cup R = S
  BY <1>1
<1> QED
  BY <1>4, <1>7, <1>8

=============================================================================
