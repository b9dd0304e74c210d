------------------------------ MODULE FoldSums ------------------------------
(***************************************************************************)
(* What the sum of a function's values over a finite set is.  The folds of *)
(* the community modules are recursive functions on the subsets of a set;  *)
(* the facts proved here are the ones a proof about a growing ledger needs,*)
(* each by descent to a smallest counterexample.                           *)
(***************************************************************************)
EXTENDS Integers, Functions, FiniteSetTheorems, WellFoundedInduction, TLAPS

\* The sum of f over S.
Total(f, S) == FoldFunctionOnSet(+, 0, f, S)

Pick(s) == CHOOSE x \in s : TRUE

Less(s) == s \ {Pick(s)}

\* g is the function the fold over S calls itself by.
IsSum(f, S, g) ==
  g = [s \in SUBSET S |-> IF s = {} THEN 0 ELSE f[Pick(s)] + g[Less(s)]]

Sums(f, S) == CHOOSE g : IsSum(f, S, g)

\* A family of subsets of a finite set has a smallest member.
LEMMA SmallestSubset ==
  ASSUME NEW S, IsFiniteSet(S), NEW F, F \subseteq SUBSET S, F # {}
  PROVE  \E s \in F : \A t \in F : t \subseteq s => t = s
<1> DEFINE R == StrictSubsetOrdering(S)
<1>1. IsWellFoundedOn(R, FiniteSubsetsOf(S))
  BY FS_StrictSubsetOrderingWellFounded
<1>2. F \subseteq FiniteSubsetsOf(S)
  BY FS_Subset DEF FiniteSubsetsOf
<1>3. PICK s \in F : \A t \in F : ~(<<t, s>> \in R)
  <2> HIDE DEF R
  <2> QED BY <1>1, <1>2, WFMin
<1> QED BY <1>3 DEF StrictSubsetOrdering

LEMMA Picked ==
  ASSUME NEW s, s # {}
  PROVE  Pick(s) \in s /\ Less(s) \subseteq s /\ Less(s) # s
BY DEF Pick, Less

\* The values of such a function do not depend on the set it is defined over.
LEMMA SumsAgree ==
  ASSUME NEW f, NEW S, IsFiniteSet(S), NEW U, NEW g, NEW h,
         IsSum(f, S, g), IsSum(f, U, h)
  PROVE  \A s \in SUBSET S : s \subseteq U => g[s] = h[s]
<1> DEFINE F == {s \in SUBSET S : s \subseteq U /\ g[s] # h[s]}
<1> SUFFICES ASSUME F # {} PROVE FALSE
  OBVIOUS
<1>1. PICK s \in F : \A t \in F : t \subseteq s => t = s
  <2> HIDE DEF F
  <2>1. F \subseteq SUBSET S
    BY DEF F
  <2> QED BY <2>1, SmallestSubset
<1>2. g[s] = IF s = {} THEN 0 ELSE f[Pick(s)] + g[Less(s)]
  BY DEF IsSum
<1>3. h[s] = IF s = {} THEN 0 ELSE f[Pick(s)] + h[Less(s)]
  BY DEF IsSum
<1>4. s # {}
  BY <1>2, <1>3
<1>5. Less(s) \notin F
  BY <1>1, <1>4, Picked
<1>6. g[Less(s)] = h[Less(s)]
  BY <1>4, <1>5, Picked
<1> QED BY <1>2, <1>3, <1>4, <1>6

LEMMA SumExists ==
  ASSUME NEW f, NEW S, IsFiniteSet(S)
  PROVE  IsSum(f, S, Sums(f, S))
<1> DEFINE F == {s \in SUBSET S : ~ \E g : IsSum(f, s, g)}
<1>1. CASE F = {}
  <2>1. \E g : IsSum(f, S, g)
    BY <1>1
  <2> QED BY <2>1 DEF Sums
<1>2. CASE F # {}
  <2>1. PICK s \in F : \A t \in F : t \subseteq s => t = s
    <3> HIDE DEF F
    <3>1. F \subseteq SUBSET S
      BY DEF F
    <3> QED BY <1>2, <3>1, SmallestSubset
  <2>2. ASSUME NEW t, t \subseteq s, t # s PROVE IsSum(f, t, Sums(f, t))
    <3>1. \E g : IsSum(f, t, g)
      BY <2>1, <2>2
    <3> QED BY <3>1 DEF Sums
  <2> DEFINE At(t) == Sums(f, t)[t]
             g == [t \in SUBSET s |-> IF t = {} THEN 0 ELSE f[Pick(t)] + At(Less(t))]
  <2>3. ASSUME NEW u, u \subseteq s, u # s PROVE g[u] = At(u)
    <3>1. At(u) = IF u = {} THEN 0 ELSE f[Pick(u)] + Sums(f, u)[Less(u)]
      BY <2>2, <2>3 DEF IsSum
    <3>2. CASE u = {}
      BY <3>1, <3>2
    <3>3. CASE u # {}
      <4>1. Less(u) \subseteq s /\ Less(u) # s /\ Less(u) \subseteq u
        BY <3>3, <2>3, Picked
      <4>2. IsSum(f, u, Sums(f, u)) /\ IsSum(f, Less(u), Sums(f, Less(u)))
        BY <4>1, <2>2, <2>3
      <4>3. IsFiniteSet(u)
        BY <2>3, FS_Subset
      <4>4. Sums(f, u)[Less(u)] = At(Less(u))
        BY <4>1, <4>2, <4>3, SumsAgree
      <4>5. g[u] = f[Pick(u)] + At(Less(u))
        BY <2>3, <3>3
      <4> QED BY <3>1, <3>3, <4>4, <4>5
    <3> QED BY <3>2, <3>3
  <2>4. IsSum(f, s, g)
    <3>1. ASSUME NEW t \in SUBSET s, t # {} PROVE At(Less(t)) = g[Less(t)]
      <4>1. Less(t) \subseteq s /\ Less(t) # s
        BY <3>1, Picked
      <4> QED BY <4>1, <2>3
    <3>2. ASSUME NEW t \in SUBSET s
          PROVE  g[t] = IF t = {} THEN 0 ELSE f[Pick(t)] + g[Less(t)]
      <4>1. g[t] = IF t = {} THEN 0 ELSE f[Pick(t)] + At(Less(t))
        OBVIOUS
      <4> HIDE DEF g, At
      <4> QED BY <4>1, <3>1
    <3>3. g = [t \in SUBSET s |-> g[t]]
      OBVIOUS
    <3> HIDE DEF g
    <3> QED BY <3>2, <3>3 DEF IsSum
  <2> QED BY <2>4, <2>1
<1> QED BY <1>1, <1>2

-----------------------------------------------------------------------------
\* The recursion a sum is computed by.
LEMMA TotalStep ==
  ASSUME NEW f, NEW S, IsFiniteSet(S)
  PROVE  Total(f, S) = IF S = {} THEN 0 ELSE f[Pick(S)] + Total(f, Less(S))
<1>1. \A U : Total(f, U) = Sums(f, U)[U]
  BY DEF Total, FoldFunctionOnSet, MapThenFoldSet, Sums, IsSum, Pick, Less
<1>2. Sums(f, S)[S] = IF S = {} THEN 0 ELSE f[Pick(S)] + Sums(f, S)[Less(S)]
  <2> DEFINE g == Sums(f, S)
  <2>1. IsSum(f, S, g) /\ S \in SUBSET S
    BY SumExists
  <2> HIDE DEF g
  <2>2. g[S] = IF S = {} THEN 0 ELSE f[Pick(S)] + g[Less(S)]
    BY <2>1 DEF IsSum
  <2> QED BY <2>2 DEF g
<1>3. CASE S # {}
  <2>1. Less(S) \subseteq S /\ IsFiniteSet(Less(S))
    BY <1>3, Picked, FS_Subset
  <2>2. IsSum(f, S, Sums(f, S)) /\ IsSum(f, Less(S), Sums(f, Less(S)))
    BY <2>1, SumExists
  <2>3. Sums(f, S)[Less(S)] = Sums(f, Less(S))[Less(S)]
    BY <2>1, <2>2, SumsAgree
  <2> QED BY <1>1, <1>2, <2>3
<1> QED BY <1>1, <1>2, <1>3

\* The sum of nothing.
THEOREM TotalOfNone == \A f : Total(f, {}) = 0
BY TotalStep, FS_EmptySet

\* A sum of integers is one.
THEOREM TotalIsInt ==
  ASSUME NEW f, NEW S, IsFiniteSet(S), \A x \in S : f[x] \in Int
  PROVE  Total(f, S) \in Int
<1> DEFINE F == {s \in SUBSET S : Total(f, s) \notin Int}
<1> SUFFICES ASSUME F # {} PROVE FALSE
  OBVIOUS
<1>1. PICK s \in F : \A t \in F : t \subseteq s => t = s
  <2> HIDE DEF F
  <2>1. F \subseteq SUBSET S
    BY DEF F
  <2> QED BY <2>1, SmallestSubset
<1>2. IsFiniteSet(s)
  BY FS_Subset
<1>3. s # {} /\ Total(f, s) = f[Pick(s)] + Total(f, Less(s))
  BY <1>2, TotalStep
<1>4. Less(s) \notin F
  BY <1>1, <1>3, Picked
<1>5. f[Pick(s)] \in Int /\ Total(f, Less(s)) \in Int
  BY <1>3, <1>4, Picked
<1> QED BY <1>3, <1>5

\* Any element may be counted first.
THEOREM TotalWithout ==
  ASSUME NEW f, NEW S, IsFiniteSet(S), \A x \in S : f[x] \in Int
  PROVE  \A x \in S : Total(f, S) = f[x] + Total(f, S \ {x})
<1> DEFINE F == {s \in SUBSET S : \E x \in s : Total(f, s) # f[x] + Total(f, s \ {x})}
<1> SUFFICES ASSUME F # {} PROVE FALSE
  OBVIOUS
<1>1. PICK s \in F : \A t \in F : t \subseteq s => t = s
  <2> HIDE DEF F
  <2>1. F \subseteq SUBSET S
    BY DEF F
  <2> QED BY <2>1, SmallestSubset
<1>2. PICK x \in s : Total(f, s) # f[x] + Total(f, s \ {x})
  OBVIOUS
<1> DEFINE c == Pick(s)
           t == Less(s)
           u == s \ {x}
           w == s \ {x, c}
<1>3. \A v \in SUBSET s : v \in SUBSET S /\ IsFiniteSet(v) /\ Total(f, v) \in Int
  BY FS_Subset, TotalIsInt
<1>4. Total(f, s) = f[c] + Total(f, t)
  BY <1>3, TotalStep
<1>5. c \in s /\ c # x /\ t \subseteq s /\ t # s /\ x \in t
  BY <1>2, <1>4, Picked DEF Less
<1>6. Total(f, t) = f[x] + Total(f, w)
  <2>1. t \notin F
    BY <1>1, <1>5
  <2>2. t \ {x} = w
    BY DEF Less
  <2>3. t \in SUBSET S
    BY <1>3, <1>5
  <2> QED BY <2>1, <2>2, <2>3, <1>5
<1>7. Total(f, u) = f[c] + Total(f, w)
  <2>1. u \notin F
    BY <1>1
  <2>2. u \ {c} = w /\ c \in u
    BY <1>5
  <2> QED BY <2>1, <2>2
<1>8. f[x] \in Int /\ f[c] \in Int /\ Total(f, w) \in Int
  BY <1>3, <1>5
<1> QED BY <1>2, <1>4, <1>6, <1>7, <1>8

\* The sum depends on the values over the set alone.
THEOREM TotalOfSame ==
  ASSUME NEW f, NEW h, NEW S, IsFiniteSet(S), \A x \in S : f[x] = h[x]
  PROVE  Total(f, S) = Total(h, S)
<1> DEFINE F == {s \in SUBSET S : Total(f, s) # Total(h, s)}
<1> SUFFICES ASSUME F # {} PROVE FALSE
  OBVIOUS
<1>1. PICK s \in F : \A t \in F : t \subseteq s => t = s
  <2> HIDE DEF F
  <2>1. F \subseteq SUBSET S
    BY DEF F
  <2> QED BY <2>1, SmallestSubset
<1>2. IsFiniteSet(s)
  BY FS_Subset
<1>3. /\ s # {}
      /\ Total(f, s) = f[Pick(s)] + Total(f, Less(s))
      /\ Total(h, s) = h[Pick(s)] + Total(h, Less(s))
  BY <1>2, TotalStep
<1>4. Less(s) \notin F /\ Pick(s) \in S
  BY <1>1, <1>3, Picked
<1> QED BY <1>3, <1>4, Picked

\* One more element adds its value.
THEOREM TotalWith ==
  ASSUME NEW f, NEW S, IsFiniteSet(S), NEW x, x \notin S,
         \A y \in S \cup {x} : f[y] \in Int
  PROVE  Total(f, S \cup {x}) = Total(f, S) + f[x]
<1>1. IsFiniteSet(S \cup {x}) /\ (S \cup {x}) \ {x} = S
  BY FS_AddElement
<1>2. Total(f, S \cup {x}) = f[x] + Total(f, S)
  BY <1>1, TotalWithout
<1>3. Total(f, S) \in Int
  BY TotalIsInt
<1> QED BY <1>2, <1>3

\* The sum of one.
THEOREM TotalOfOne ==
  ASSUME NEW f, NEW x, f[x] \in Int
  PROVE  Total(f, {x}) = f[x]
<1>1. IsFiniteSet({x}) /\ {x} \ {x} = {}
  BY FS_Singleton
<1>2. Total(f, {x}) = f[x] + Total(f, {x} \ {x})
  BY <1>1, TotalWithout
<1> QED BY <1>1, <1>2, TotalOfNone

-----------------------------------------------------------------------------
\* Sums over sets without a common element add up.
THEOREM TotalOfUnion ==
  ASSUME NEW f, NEW A, NEW B, IsFiniteSet(A), IsFiniteSet(B), A \cap B = {},
         \A x \in A \cup B : f[x] \in Int
  PROVE  Total(f, A \cup B) = Total(f, A) + Total(f, B)
<1> DEFINE F == {b \in SUBSET B : Total(f, A \cup b) # Total(f, A) + Total(f, b)}
<1> SUFFICES ASSUME F # {} PROVE FALSE
  OBVIOUS
<1>1. PICK s \in F : \A t \in F : t \subseteq s => t = s
  <2> HIDE DEF F
  <2>1. F \subseteq SUBSET B
    BY DEF F
  <2> QED BY <2>1, SmallestSubset
<1>2. \A b \in SUBSET B : IsFiniteSet(b) /\ Total(f, b) \in Int /\ Total(f, A) \in Int
  BY FS_Subset, TotalIsInt
<1>3. s # {}
  <2>1. A \cup {} = A /\ {} \in SUBSET B
    OBVIOUS
  <2>2. Total(f, A \cup {}) = Total(f, A) + Total(f, {})
    BY <1>2, <2>1, TotalOfNone
  <2> QED BY <2>2
<1>4. PICK x : x \in s
  BY <1>3
<1> DEFINE t == s \ {x}
<1>5. Total(f, A \cup t) = Total(f, A) + Total(f, t)
  BY <1>1, <1>4
<1>6. Total(f, s) = f[x] + Total(f, t)
  BY <1>2, <1>4, TotalWithout
<1>7. Total(f, A \cup s) = f[x] + Total(f, A \cup t)
  <2>1. IsFiniteSet(A \cup s) /\ x \in A \cup s /\ (A \cup s) \ {x} = A \cup t
    BY <1>2, <1>4, FS_Union
  <2>2. \A y \in A \cup s : f[y] \in Int
    OBVIOUS
  <2> QED BY <2>1, <2>2, TotalWithout
<1>8. f[x] \in Int /\ Total(f, t) \in Int /\ Total(f, A) \in Int
  BY <1>2, <1>4
<1> QED BY <1>5, <1>6, <1>7, <1>8

\* A sum may be taken class by class.
THEOREM TotalByClasses ==
  ASSUME NEW f, NEW S, IsFiniteSet(S), \A x \in S : f[x] \in Int,
         NEW P, IsFiniteSet(P), NEW key \in [S -> P],
         NEW Of \in [P -> SUBSET S], \A p \in P : Of[p] = {x \in S : key[x] = p},
         NEW g, \A p \in P : g[p] = Total(f, Of[p])
  PROVE  Total(g, P) = Total(f, S)
<1> DEFINE In(q) == {x \in S : key[x] \in q}
           F == {q \in SUBSET P : Total(g, q) # Total(f, In(q))}
<1>1. F = {}
  <2> SUFFICES ASSUME F # {} PROVE FALSE
    OBVIOUS
  <2>1. PICK q \in F : \A r \in F : r \subseteq q => r = q
    <3> HIDE DEF F
    <3>1. F \subseteq SUBSET P
      BY DEF F
    <3> QED BY <3>1, SmallestSubset
  <2>2. q # {}
    <3>1. In({}) = {}
      OBVIOUS
    <3> HIDE DEF In
    <3> QED BY <3>1, TotalOfNone
  <2>3. PICK p : p \in q
    BY <2>2
  <2> DEFINE r == q \ {p}
             C == Of[p]
  <2>4. Total(g, r) = Total(f, In(r))
    <3> HIDE DEF In
    <3> QED BY <2>1, <2>3
  <2>5. IsFiniteSet(C) /\ IsFiniteSet(In(r)) /\ C \cap In(r) = {} /\ C \cup In(r) = In(q)
    BY <2>3, FS_Subset
  <2>6. Total(f, In(q)) = Total(f, C) + Total(f, In(r))
    <3>1. \A x \in C \cup In(r) : f[x] \in Int
      <4>1. C \subseteq S /\ In(r) \subseteq S
        BY <2>3
      <4> QED BY <4>1
    <3> HIDE DEF In, C, r
    <3> QED BY <2>5, <3>1, TotalOfUnion
  <2>7. g[p] = Total(f, C)
    BY <2>3
  <2>8. Total(g, q) = g[p] + Total(g, r)
    <3>1. \A y \in q : g[y] \in Int
      <4>1. \A y \in P : Of[y] \subseteq S /\ IsFiniteSet(Of[y])
        BY FS_Subset
      <4>2. \A y \in P : Total(f, Of[y]) \in Int
        BY <4>1, TotalIsInt
      <4> QED BY <4>2
    <3>2. IsFiniteSet(q)
      BY FS_Subset
    <3> HIDE DEF F, In
    <3> QED BY <2>3, <3>1, <3>2, TotalWithout
  <2> HIDE DEF In, C, r
  <2> QED BY <2>4, <2>6, <2>7, <2>8
<1>2. In(P) = S
  OBVIOUS
<1> HIDE DEF In
<1> QED BY <1>1, <1>2

\* A sum over what the elements of a set are paired with.
THEOREM TotalOfImage ==
  ASSUME NEW f, NEW S, IsFiniteSet(S), \A x \in S : f[x] \in Int,
         NEW T, NEW e \in Bijection(S, T),
         NEW h, \A x \in S : h[e[x]] = f[x]
  PROVE  Total(h, T) = Total(f, S)
<1>0. /\ \A x \in S : e[x] \in T
      /\ \A t \in T : \E x \in S : t = e[x]
      /\ \A x \in S : \A y \in S : e[x] = e[y] => x = y
  BY DEF Bijection, Injection, IsInjective, Surjection
<1>1. IsFiniteSet(T)
  BY FS_Surjection DEF Bijection
<1> DEFINE Of == [p \in T |-> {x \in S : e[x] = p}]
<1>2. ASSUME NEW p \in T PROVE h[p] = Total(f, Of[p])
  <2>1. PICK y \in S : p = e[y]
    BY <1>0
  <2>2. Of[p] = {y}
    BY <1>0, <2>1
  <2>3. h[p] = f[y] /\ f[y] \in Int
    BY <2>1
  <2>4. Total(f, {y}) = f[y]
    BY <2>3, TotalOfOne
  <2> HIDE DEF Of
  <2> QED BY <2>2, <2>3, <2>4
<1>3. \A p \in T : Of[p] = {x \in S : e[x] = p}
  OBVIOUS
<1> HIDE DEF Of
<1>4. Of \in [T -> SUBSET S] /\ e \in [S -> T]
  BY DEF Bijection, Injection, Of
<1> QED BY <1>1, <1>2, <1>3, <1>4, TotalByClasses

LEMMA Distributes ==
  ASSUME NEW a \in Int, NEW b \in Int, NEW c \in Int
  PROVE  c * (a + b) = c * a + c * b
OBVIOUS

\* A factor may be taken out of a sum.
THEOREM TotalOfMultiple ==
  ASSUME NEW f, NEW S, IsFiniteSet(S), \A x \in S : f[x] \in Int,
         NEW c \in Int, NEW h, \A x \in S : h[x] = c * f[x]
  PROVE  Total(h, S) = c * Total(f, S)
<1> DEFINE F == {s \in SUBSET S : Total(h, s) # c * Total(f, s)}
<1> SUFFICES ASSUME F # {} PROVE FALSE
  OBVIOUS
<1>1. PICK s \in F : \A t \in F : t \subseteq s => t = s
  <2> HIDE DEF F
  <2>1. F \subseteq SUBSET S
    BY DEF F
  <2> QED BY <2>1, SmallestSubset
<1>2. IsFiniteSet(s)
  BY FS_Subset
<1>3. s # {}
  <2>1. Total(f, {}) = 0 /\ Total(h, {}) = 0 /\ c * 0 = 0
    BY TotalOfNone
  <2> QED BY <2>1
<1>4. /\ Total(f, s) = f[Pick(s)] + Total(f, Less(s))
      /\ Total(h, s) = h[Pick(s)] + Total(h, Less(s))
  BY <1>2, <1>3, TotalStep
<1>5. Less(s) \notin F /\ Pick(s) \in S /\ Less(s) \subseteq S
  BY <1>1, <1>3, Picked
<1>6. f[Pick(s)] \in Int /\ Total(f, Less(s)) \in Int
  BY <1>5, FS_Subset, TotalIsInt
<1>7. c * Total(f, s) = c * f[Pick(s)] + c * Total(f, Less(s))
  BY <1>4, <1>6, Distributes
<1>8. Total(h, Less(s)) = c * Total(f, Less(s)) /\ h[Pick(s)] = c * f[Pick(s)]
  BY <1>5
<1> QED BY <1>4, <1>7, <1>8

\* Greater values have a greater sum.
THEOREM TotalIsMonotonic ==
  ASSUME NEW f, NEW h, NEW S, IsFiniteSet(S),
         \A x \in S : f[x] \in Int /\ h[x] \in Int /\ f[x] <= h[x]
  PROVE  Total(f, S) <= Total(h, S)
<1> DEFINE F == {s \in SUBSET S : ~(Total(f, s) <= Total(h, s))}
<1> SUFFICES ASSUME F # {} PROVE FALSE
  OBVIOUS
<1>1. PICK s \in F : \A t \in F : t \subseteq s => t = s
  <2> HIDE DEF F
  <2>1. F \subseteq SUBSET S
    BY DEF F
  <2> QED BY <2>1, SmallestSubset
<1>2. IsFiniteSet(s)
  BY FS_Subset
<1>3. s # {}
  BY TotalOfNone
<1>4. /\ Total(f, s) = f[Pick(s)] + Total(f, Less(s))
      /\ Total(h, s) = h[Pick(s)] + Total(h, Less(s))
  BY <1>2, <1>3, TotalStep
<1>5. Less(s) \notin F /\ Pick(s) \in S /\ Less(s) \subseteq S
  BY <1>1, <1>3, Picked
<1>6. /\ Total(f, Less(s)) \in Int /\ Total(h, Less(s)) \in Int
      /\ f[Pick(s)] \in Int /\ h[Pick(s)] \in Int /\ f[Pick(s)] <= h[Pick(s)]
  <2>1. IsFiniteSet(Less(s)) /\ \A x \in Less(s) : f[x] \in Int /\ h[x] \in Int
    BY <1>2, <1>5, FS_Subset
  <2> QED BY <1>5, <2>1, TotalIsInt
<1>7. Total(f, Less(s)) <= Total(h, Less(s))
  BY <1>5
<1> HIDE DEF F
<1>8. ~(Total(f, s) <= Total(h, s))
  BY DEF F
<1> QED BY <1>4, <1>6, <1>7, <1>8

\* Of values that are not negative, a part sums to no more than the whole.
THEOREM TotalOfPart ==
  ASSUME NEW f, NEW S, IsFiniteSet(S), \A x \in S : f[x] \in Nat,
         NEW T, T \subseteq S
  PROVE  Total(f, T) \in 0..Total(f, S)
<1>1. \A U \in SUBSET S : IsFiniteSet(U) /\ Total(f, U) \in Int /\ 0 <= Total(f, U)
  <2> TAKE U \in SUBSET S
  <2>1. PICK z : z = [x \in U |-> 0]
    OBVIOUS
  <2>2. IsFiniteSet(U) /\ Total(f, U) \in Int
    BY FS_Subset, TotalIsInt
  <2>3. Total(z, U) = 0 * Total(f, U)
    BY <2>1, <2>2, TotalOfMultiple
  <2>4. Total(z, U) <= Total(f, U)
    BY <2>1, <2>2, TotalIsMonotonic
  <2> QED BY <2>2, <2>3, <2>4
<1>2. T \cup (S \ T) = S /\ T \cap (S \ T) = {}
  OBVIOUS
<1>3. Total(f, S) = Total(f, T) + Total(f, S \ T)
  BY <1>1, <1>2, TotalOfUnion
<1> QED BY <1>1, <1>3

\* A finite set of integers has a least and a greatest element.
THEOREM FiniteSetHasEnds ==
  ASSUME NEW S, IsFiniteSet(S)
  PROVE  S # {} /\ S \subseteq Int =>
           /\ \E x \in S : \A y \in S : x <= y
           /\ \E x \in S : \A y \in S : x >= y
<1> DEFINE Ends(s) == /\ \E x \in s : \A y \in s : x <= y
                      /\ \E x \in s : \A y \in s : x >= y
           F == {s \in SUBSET S : s # {} /\ s \subseteq Int /\ ~Ends(s)}
<1> SUFFICES ASSUME F # {} PROVE FALSE
  OBVIOUS
<1>1. PICK s \in F : \A t \in F : t \subseteq s => t = s
  <2> HIDE DEF F
  <2>1. F \subseteq SUBSET S
    BY DEF F
  <2> QED BY <2>1, SmallestSubset
<1>2. PICK a : a \in s
  OBVIOUS
<1>3. s \ {a} # {}
  BY <1>1, <1>2
<1>4. Ends(s \ {a})
  <2> HIDE DEF Ends
  <2> QED BY <1>1, <1>2, <1>3
<1>5. PICK lo \in s \ {a}, hi \in s \ {a} :
        \A y \in s \ {a} : lo <= y /\ y <= hi
  BY <1>4
<1>6. a \in Int /\ lo \in Int /\ hi \in Int /\ s \subseteq Int
  BY <1>2
<1>7. \E x \in s : \A y \in s : x <= y
  <2>1. CASE a <= lo
    BY <1>2, <1>5, <1>6, <2>1
  <2>2. CASE lo <= a
    BY <1>2, <1>5, <1>6, <2>2
  <2> QED BY <1>6, <2>1, <2>2
<1>8. \E x \in s : \A y \in s : x >= y
  <2>1. CASE a >= hi
    BY <1>2, <1>5, <1>6, <2>1
  <2>2. CASE hi >= a
    BY <1>2, <1>5, <1>6, <2>2
  <2> QED BY <1>6, <2>1, <2>2
<1> QED BY <1>1, <1>7, <1>8
=============================================================================
