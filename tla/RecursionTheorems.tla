------------------------- MODULE RecursionTheorems --------------------------
(***************************************************************************)
(* Sums over finite sets, as MapThenSumSet of FiniteSetsExt computes them: *)
(* the sum of nothing, of one element more or less, of other values, of    *)
(* renamed elements; and functions that are defined by recursion on the    *)
(* natural numbers.  A recursive definition chooses a function that equals *)
(* its own unfolding; that there is one, and each fact about its values,   *)
(* is proved without induction: of the subsets or numbers for which it     *)
(* fails there would be a smallest one, and the one before contradicts     *)
(* that.                                                                   *)
(***************************************************************************)
EXTENDS FiniteSetsExt, FiniteSetTheorems, WellFoundedInduction, TLAPS

\* The element that a fold takes out of a set first.
Pick(s) == CHOOSE x \in s : TRUE

\* g has the sums of v over the subsets of T.
IsSum(g, v, T) == g = [s \in SUBSET T |-> IF s = {} THEN 0 ELSE v[Pick(s)] + g[s \ {Pick(s)}]]

\* The sum of v over S.
Sum(v, S) == MapThenSumSet(LAMBDA x : v[x], S)

\* The fold of FiniteSetsExt is the function that has the sums.
LEMMA SumIsFold == ASSUME NEW v, NEW S PROVE Sum(v, S) = (CHOOSE g : IsSum(g, v, S))[S]
  BY DEF Sum, MapThenSumSet, MapThenFoldSet, IsSum, Pick

\* What is picked is in the set.
LEMMA PickIn == ASSUME NEW s, s # {} PROVE Pick(s) \in s
  BY DEF Pick

\* Among subsets of a finite set there is one that contains no other.
LEMMA Smallest ==
    ASSUME NEW S, IsFiniteSet(S), NEW C, C \subseteq SUBSET S, C # {}
    PROVE  \E T \in C : \A U \in C : U \subseteq T => U = T
<1> DEFINE R == StrictSubsetOrdering(S)
<1>1. IsWellFoundedOn(R, FiniteSubsetsOf(S))
  BY FS_StrictSubsetOrderingWellFounded
<1>2. C \subseteq FiniteSubsetsOf(S)
  BY FS_Subset DEF FiniteSubsetsOf
<1> HIDE DEF R
<1>3. PICK T \in C : \A U \in C : ~ (<<U, T>> \in R)
  BY <1>1, <1>2, WFMin
<1>4. \A U \in C : U \subseteq T => U = T
  <2> SUFFICES ASSUME NEW U \in C, U \subseteq T, U # T PROVE <<U, T>> \in R
    BY <1>3
  <2> QED
    BY DEF R, StrictSubsetOrdering
<1> QED
  BY <1>4

\* A set of positions that is not empty has a first one.
LEMMA FirstIn ==
    ASSUME NEW n \in Nat, NEW S, S \subseteq 1..n, S # {}
    PROVE  \E i \in S : \A j \in S : i <= j
<1> DEFINE C == {1..i : i \in S}
<1>0. PICK N : N = 1..n
  OBVIOUS
<1>1. C # {} /\ C \subseteq SUBSET N /\ IsFiniteSet(N)
  <2>1. \A i \in S : 1..i \subseteq N
    BY <1>0
  <2>2. C # {}
    OBVIOUS
  <2>3. C \subseteq SUBSET N
    BY <2>1
  <2> QED BY <1>0, <2>2, <2>3, FS_Interval
<1> HIDE DEF C
<1>2. PICK T \in C : \A U \in C : U \subseteq T => U = T
  BY <1>1, Smallest
<1>3. PICK i \in S : T = 1..i
  BY <1>2 DEF C
<1>4. ASSUME NEW j \in S PROVE i <= j
  <2>1. i \in Nat /\ j \in Nat /\ i > 0 /\ j > 0 /\ 1..j \in C
    BY DEF C
  <2>2. CASE j < i
    <3>1. 1..j \subseteq T /\ 1..j # T
      <4>1. i \in T /\ i \notin 1..j
        BY <1>3, <2>1, <2>2
      <4> QED BY <1>3, <2>1, <2>2, <4>1
    <3> QED BY <1>2, <2>1, <3>1
  <2> QED BY <2>1, <2>2
<1> QED BY <1>4

\* Two functions that have the sums agree.
LEMMA SumUnique ==
    ASSUME NEW v, NEW T, NEW U, NEW g, NEW h, NEW t, IsFiniteSet(T), U \subseteq T, IsSum(g, v, T), IsSum(h, v, U), t \subseteq U
    PROVE  g[t] = h[t]
<1> DEFINE Bad == {s \in SUBSET U : g[s] # h[s]}
<1> SUFFICES ASSUME Bad # {} PROVE FALSE
  OBVIOUS
<1>1. IsFiniteSet(U)
  BY FS_Subset
<1>2. PICK s \in Bad : \A u \in Bad : u \subseteq s => u = s
  <2> HIDE DEF Bad
  <2>1. Bad \subseteq SUBSET U
    BY DEF Bad
  <2> QED
    BY <1>1, <2>1, Smallest
<1>3. s \in SUBSET U /\ s \in SUBSET T /\ g[s] # h[s]
  OBVIOUS
<1>4. s # {}
  BY <1>3 DEF IsSum
<1> DEFINE r == s \ {Pick(s)}
<1>5. r \in SUBSET U /\ r \subseteq s /\ r # s
  BY <1>3, <1>4, PickIn
<1>6. g[r] = h[r]
  BY <1>2, <1>5
<1>7. g[s] = v[Pick(s)] + g[r]
  BY <1>3, <1>4 DEF IsSum
<1>8. h[s] = v[Pick(s)] + h[r]
  BY <1>3, <1>4 DEF IsSum
<1> QED
  BY <1>3, <1>6, <1>7, <1>8

\* There is a function that has the sums over the subsets of a set.
LEMMA SumExists ==
    ASSUME NEW v, NEW S, IsFiniteSet(S)
    PROVE  \A T \in SUBSET S : \E g : IsSum(g, v, T)
<1> DEFINE Bad == {T \in SUBSET S : ~ \E g : IsSum(g, v, T)}
<1> SUFFICES ASSUME Bad # {} PROVE FALSE
  OBVIOUS
<1>1. PICK T \in Bad : \A U \in Bad : U \subseteq T => U = T
  <2> HIDE DEF Bad
  <2>1. Bad \subseteq SUBSET S
    BY DEF Bad
  <2> QED
    BY <2>1, Smallest
<1>2. T \in SUBSET S /\ ~ \E g : IsSum(g, v, T)
  OBVIOUS
<1>3. \A U \in SUBSET T : U # T => \E g : IsSum(g, v, U)
  BY <1>1, <1>2
<1> DEFINE G == [U \in SUBSET T |-> CHOOSE g : IsSum(g, v, U)]
           h == [s \in SUBSET T |-> IF s = {} THEN 0 ELSE v[Pick(s)] + G[s \ {Pick(s)}][s \ {Pick(s)}]]
<1>4. \A U \in SUBSET T : U # T => IsSum(G[U], v, U)
  <2> SUFFICES ASSUME NEW U \in SUBSET T, U # T PROVE IsSum(G[U], v, U)
    OBVIOUS
  <2>1. G[U] = CHOOSE g : IsSum(g, v, U)
    OBVIOUS
  <2> HIDE DEF G
  <2> QED
    BY <1>3, <2>1
<1> HIDE DEF G
<1>5. ASSUME NEW s \in SUBSET T, s # {} PROVE h[s] = v[Pick(s)] + h[s \ {Pick(s)}]
  <2> DEFINE r == s \ {Pick(s)}
  <2>1. r \in SUBSET T /\ r # T /\ IsFiniteSet(r) /\ IsFiniteSet(T)
    BY <1>2, <1>5, PickIn, FS_Subset
  <2>2. h[s] = v[Pick(s)] + G[r][r]
    BY <1>5
  <2>3. h[r] = G[r][r]
    <3>0. IsSum(G[r], v, r)
      BY <1>4, <2>1
    <3>1. CASE r = {}
      <4>1. h[r] = 0
        BY <2>1, <3>1
      <4>2. G[r][r] = 0
        <5> HIDE DEF r
        <5> QED
          BY <3>0, <3>1 DEF IsSum
      <4> QED
        BY <4>1, <4>2
    <3>2. CASE r # {}
      <4> DEFINE q == r \ {Pick(r)}
      <4>1. q \in SUBSET r /\ q \in SUBSET T /\ q # T
        BY <2>1
      <4>2. h[r] = v[Pick(r)] + G[q][q]
        BY <2>1, <3>2
      <4>3. G[r][r] = v[Pick(r)] + G[r][q]
        <5> HIDE DEF r
        <5> QED
          BY <3>0, <3>2 DEF IsSum
      <4>4. G[r][q] = G[q][q]
        <5>1. IsSum(G[q], v, q)
          BY <1>4, <4>1
        <5>2. q \subseteq r /\ q \subseteq q
          OBVIOUS
        <5>3. IsFiniteSet(r)
          BY <2>1
        <5> HIDE DEF q, r, h, Bad
        <5>4. PICK g, k : g = G[r] /\ k = G[q]
          OBVIOUS
        <5>5. IsSum(g, v, r) /\ IsSum(k, v, q)
          BY <3>0, <5>1, <5>4
        <5>6. g[q] = k[q]
          BY <5>2, <5>3, <5>5, SumUnique
        <5> QED
          BY <5>4, <5>6
      <4> QED
        BY <4>2, <4>3, <4>4
    <3> QED
      BY <3>1, <3>2
  <2> QED
    BY <2>2, <2>3
<1>6. h = [s \in SUBSET T |-> IF s = {} THEN 0 ELSE v[Pick(s)] + h[s \ {Pick(s)}]]
  BY <1>5
<1> HIDE DEF h
<1>7. IsSum(h, v, T)
  BY <1>6 DEF IsSum
<1> QED
  BY <1>2, <1>7

\* The sums over subsets are what the fold over the whole set has for them.
LEMMA SumsAre ==
    ASSUME NEW v, NEW S, IsFiniteSet(S)
    PROVE  /\ IsSum([T \in SUBSET S |-> Sum(v, T)], v, S)
<1> DEFINE F(T) == CHOOSE g : IsSum(g, v, T)
           G == F(S)
<1>1. ASSUME NEW T \in SUBSET S PROVE IsSum(F(T), v, T)
  BY SumExists
<1>2. IsSum(G, v, S)
  BY <1>1
<1> HIDE DEF G
<1>3. ASSUME NEW T \in SUBSET S PROVE Sum(v, T) = G[T]
  <2> DEFINE H == F(T)
  <2>1. IsSum(H, v, T)
    BY <1>1
  <2>2. Sum(v, T) = H[T]
    BY SumIsFold
  <2> HIDE DEF H, F
  <2>3. G[T] = H[T]
    BY <1>2, <2>1, SumUnique
  <2> QED
    BY <2>2, <2>3
<1>4. G = [T \in SUBSET S |-> G[T]]
  BY <1>2 DEF IsSum
<1>5. G = [T \in SUBSET S |-> Sum(v, T)]
  BY <1>3, <1>4
<1> QED
  BY <1>2, <1>5

\* The sum of nothing.
LEMMA SumEmpty == ASSUME NEW v PROVE Sum(v, {}) = 0
<1> DEFINE G == [T \in SUBSET {} |-> Sum(v, T)]
<1>1. IsSum(G, v, {})
  BY SumsAre, FS_EmptySet
<1>2. G[{}] = Sum(v, {})
  OBVIOUS
<1> HIDE DEF G
<1> QED
  BY <1>1, <1>2 DEF IsSum

\* A sum unfolds at the element that is picked.
LEMMA SumPick ==
    ASSUME NEW v, NEW S, IsFiniteSet(S), S # {}
    PROVE  Sum(v, S) = v[Pick(S)] + Sum(v, S \ {Pick(S)})
<1> DEFINE G == [T \in SUBSET S |-> Sum(v, T)]
<1>1. IsSum(G, v, S)
  BY SumsAre
<1>2. G[S] = Sum(v, S) /\ G[S \ {Pick(S)}] = Sum(v, S \ {Pick(S)})
  OBVIOUS
<1> HIDE DEF G
<1> QED
  BY <1>1, <1>2 DEF IsSum
\* The sum of integers is an integer.
LEMMA SumIsInt ==
    ASSUME NEW v, NEW S, IsFiniteSet(S), \A y \in S : v[y] \in Int
    PROVE  \A T : T \subseteq S => Sum(v, T) \in Int
<1> DEFINE Bad == {T \in SUBSET S : Sum(v, T) \notin Int}
<1> SUFFICES ASSUME Bad # {} PROVE FALSE
  OBVIOUS
<1>1. Bad \subseteq SUBSET S
  OBVIOUS
<1>2. PICK T \in Bad : \A U \in Bad : U \subseteq T => U = T
  <2> HIDE DEF Bad
  <2> QED
    BY <1>1, Smallest
<1>3. T \subseteq S /\ Sum(v, T) \notin Int /\ IsFiniteSet(T)
  BY FS_Subset
<1>4. T # {}
  BY <1>3, SumEmpty
<1>5. Pick(T) \in T /\ v[Pick(T)] \in Int
  BY <1>3, <1>4, PickIn
<1> DEFINE r == T \ {Pick(T)}
<1>6. r \subseteq S /\ r \subseteq T /\ r # T
  BY <1>3, <1>5
<1>7. Sum(v, r) \in Int
  BY <1>2, <1>6
<1>8. Sum(v, T) = v[Pick(T)] + Sum(v, r)
  BY <1>3, <1>4, SumPick
<1> QED
  BY <1>3, <1>5, <1>7, <1>8

\* The sum of naturals is a natural.
LEMMA SumIsNat ==
    ASSUME NEW v, NEW S, IsFiniteSet(S), \A y \in S : v[y] \in Nat
    PROVE  Sum(v, S) \in Nat
<1> DEFINE Bad == {T \in SUBSET S : Sum(v, T) \notin Nat}
<1> SUFFICES ASSUME Bad # {} PROVE FALSE
  OBVIOUS
<1>1. Bad \subseteq SUBSET S
  OBVIOUS
<1>2. PICK T \in Bad : \A U \in Bad : U \subseteq T => U = T
  <2> HIDE DEF Bad
  <2> QED
    BY <1>1, Smallest
<1>3. T \subseteq S /\ Sum(v, T) \notin Nat /\ IsFiniteSet(T)
  BY FS_Subset
<1>4. T # {}
  BY <1>3, SumEmpty
<1>5. Pick(T) \in T /\ v[Pick(T)] \in Nat
  BY <1>3, <1>4, PickIn
<1> DEFINE r == T \ {Pick(T)}
<1>6. r \subseteq S /\ r \subseteq T /\ r # T
  BY <1>3, <1>5
<1>7. Sum(v, r) \in Nat
  BY <1>2, <1>6
<1>8. Sum(v, T) = v[Pick(T)] + Sum(v, r)
  BY <1>3, <1>4, SumPick
<1> QED
  BY <1>3, <1>5, <1>7, <1>8

\* In whatever order they are taken out: x can be the first.
LEMMA SumRemove ==
    ASSUME NEW v, NEW S, IsFiniteSet(S), \A y \in S : v[y] \in Int, NEW x \in S
    PROVE  Sum(v, S) = v[x] + Sum(v, S \ {x})
<1> DEFINE Bad == {T \in SUBSET S : \E y \in T : Sum(v, T) # v[y] + Sum(v, T \ {y})}
<1> SUFFICES ASSUME Bad # {} PROVE FALSE
  OBVIOUS
<1>1. Bad \subseteq SUBSET S
  OBVIOUS
<1>2. PICK T \in Bad : \A U \in Bad : U \subseteq T => U = T
  <2> HIDE DEF Bad
  <2> QED
    BY <1>1, Smallest
<1>3. T \subseteq S /\ IsFiniteSet(T) /\ T # {}
  BY FS_Subset
<1>4. PICK y \in T : Sum(v, T) # v[y] + Sum(v, T \ {y})
  OBVIOUS
<1>5. PICK c : c = Pick(T)
  OBVIOUS
<1>6. c \in T /\ c # y
  BY <1>3, <1>4, <1>5, PickIn, SumPick
<1>7. Sum(v, T) = v[c] + Sum(v, T \ {c})
  BY <1>3, <1>5, SumPick
<1>8. /\ T \ {c} \in SUBSET S /\ T \ {c} \subseteq T /\ T \ {c} # T /\ y \in T \ {c}
      /\ T \ {y} \in SUBSET S /\ T \ {y} \subseteq T /\ T \ {y} # T /\ c \in T \ {y}
  BY <1>3, <1>4, <1>6
<1>9. \A U \in SUBSET S : U \subseteq T /\ U # T => \A z \in U : Sum(v, U) = v[z] + Sum(v, U \ {z})
  BY <1>2
<1>10. Sum(v, T \ {c}) = v[y] + Sum(v, (T \ {c}) \ {y}) /\ Sum(v, T \ {y}) = v[c] + Sum(v, (T \ {y}) \ {c})
  <2> HIDE DEF Bad
  <2> QED
    BY <1>8, <1>9
<1>11. (T \ {c}) \ {y} = (T \ {y}) \ {c}
  OBVIOUS
<1>12. v[c] \in Int /\ v[y] \in Int /\ Sum(v, (T \ {y}) \ {c}) \in Int
  <2>1. (T \ {y}) \ {c} \subseteq S
    BY <1>3
  <2> QED
    BY <1>3, <1>4, <1>6, <2>1, SumIsInt
<1> HIDE DEF Bad
<1>13. PICK m, a, b : m = Sum(v, (T \ {c}) \ {y}) /\ a = v[c] /\ b = v[y]
  OBVIOUS
<1>14. Sum(v, T) = a + (b + m) /\ Sum(v, T \ {y}) = a + m
  BY <1>7, <1>10, <1>11, <1>13
<1>15. a \in Int /\ b \in Int /\ m \in Int
  BY <1>11, <1>12, <1>13
<1>16. a + (b + m) = b + (a + m)
  BY <1>15
<1> QED
  BY <1>4, <1>13, <1>14, <1>16

\* One element more.
LEMMA SumAdd ==
    ASSUME NEW v, NEW S, IsFiniteSet(S), NEW x, x \notin S, \A y \in S \cup {x} : v[y] \in Int
    PROVE  Sum(v, S \cup {x}) = v[x] + Sum(v, S)
<1>1. (S \cup {x}) \ {x} = S /\ IsFiniteSet(S \cup {x}) /\ x \in S \cup {x}
  BY FS_AddElement
<1> QED
  BY <1>1, SumRemove

\* Only the summands count.
LEMMA SumSame ==
    ASSUME NEW v, NEW w, NEW S, IsFiniteSet(S), \A y \in S : v[y] = w[y]
    PROVE  Sum(v, S) = Sum(w, S)
<1> DEFINE Bad == {T \in SUBSET S : Sum(v, T) # Sum(w, T)}
<1> SUFFICES ASSUME Bad # {} PROVE FALSE
  OBVIOUS
<1>1. Bad \subseteq SUBSET S
  OBVIOUS
<1>2. PICK T \in Bad : \A U \in Bad : U \subseteq T => U = T
  <2> HIDE DEF Bad
  <2> QED
    BY <1>1, Smallest
<1>3. T \subseteq S /\ Sum(v, T) # Sum(w, T) /\ IsFiniteSet(T)
  BY FS_Subset
<1>4. T # {}
  BY <1>3, SumEmpty
<1>5. Pick(T) \in T /\ v[Pick(T)] = w[Pick(T)]
  BY <1>3, <1>4, PickIn
<1> DEFINE r == T \ {Pick(T)}
<1>6. r \subseteq S /\ r \subseteq T /\ r # T
  BY <1>3, <1>5
<1>7. Sum(v, r) = Sum(w, r)
  BY <1>2, <1>6
<1>8. Sum(v, T) = v[Pick(T)] + Sum(v, r) /\ Sum(w, T) = w[Pick(T)] + Sum(w, r)
  BY <1>3, <1>4, SumPick
<1> QED
  BY <1>3, <1>5, <1>7, <1>8

\* One summand changes.
LEMMA SumChange ==
    ASSUME NEW v, NEW w, NEW S, IsFiniteSet(S), NEW x \in S,
           \A y \in S : v[y] \in Int /\ w[y] \in Int, \A y \in S \ {x} : w[y] = v[y]
    PROVE  Sum(w, S) = Sum(v, S) + (w[x] - v[x])
<1>1. Sum(v, S) = v[x] + Sum(v, S \ {x}) /\ Sum(w, S) = w[x] + Sum(w, S \ {x})
  BY SumRemove
<1>2. IsFiniteSet(S \ {x})
  BY FS_Subset
<1>3. Sum(w, S \ {x}) = Sum(v, S \ {x})
  BY <1>2, SumSame
<1>4. Sum(v, S \ {x}) \in Int
  BY SumIsInt
<1> QED
  BY <1>1, <1>3, <1>4

\* f renames the summands of v over S to those of w over T.
Renames(f, v, S, w, T) ==
    /\ \A x, y \in S : f[x] = f[y] => x = y
    /\ \A x \in S : v[x] \in Int /\ w[f[x]] = v[x]
    /\ T = {f[x] : x \in S}

\* Elements with other names and the same values have the same sum.
LEMMA SumRenamed ==
    ASSUME NEW f, NEW v, NEW S, IsFiniteSet(S), NEW w, NEW T, Renames(f, v, S, w, T)
    PROVE  Sum(w, T) = Sum(v, S)
<1> USE DEF Renames
<1> DEFINE I(U) == {f[x] : x \in U}
           Bad == {U \in SUBSET S : Sum(w, I(U)) # Sum(v, U)}
<1> SUFFICES ASSUME Bad # {} PROVE FALSE
  OBVIOUS
<1>1. Bad \subseteq SUBSET S
  OBVIOUS
<1>2. PICK V \in Bad : \A U \in Bad : U \subseteq V => U = V
  <2> HIDE DEF Bad
  <2> QED
    BY <1>1, Smallest
<1>3. V \subseteq S /\ Sum(w, I(V)) # Sum(v, V) /\ IsFiniteSet(V)
  BY FS_Subset
<1>4. V # {}
  <2>1. I({}) = {}
    OBVIOUS
  <2> HIDE DEF I
  <2> QED
    BY <1>3, <2>1, SumEmpty
<1>5. PICK x \in V : TRUE
  BY <1>4
<1>6. PICK U, J, K : U = V \ {x} /\ J = I(U) /\ K = I(V)
  OBVIOUS
<1>7. Sum(w, J) = Sum(v, U)
  <2>1. U \subseteq S /\ U \subseteq V /\ U # V
    BY <1>3, <1>5, <1>6
  <2>2. U \notin Bad
    BY <1>2, <2>1
  <2> QED
    BY <1>6, <2>1, <2>2
<1>8. f[x] \notin J /\ K = J \cup {f[x]} /\ IsFiniteSet(J)
  <2>1. IsFiniteSet(U)
    BY <1>3, <1>6, FS_Subset
  <2>2. IsFiniteSet(J)
    <3> DEFINE g == [y \in U |-> f[y]]
    <3>1. g \in Surjection(U, J)
      BY <1>6 DEF Surjection
    <3> HIDE DEF g
    <3> QED
      BY <2>1, <3>1, FS_Surjection
  <2> QED
    BY <1>3, <1>5, <1>6, <2>2
<1>9. \A y \in J \cup {f[x]} : w[y] \in Int
  BY <1>3, <1>5, <1>6
<1> HIDE DEF I, Bad
<1>10. Sum(w, J \cup {f[x]}) = w[f[x]] + Sum(w, J)
  BY <1>8, <1>9, SumAdd
<1>11. Sum(v, V) = v[x] + Sum(v, V \ {x})
  BY <1>3, <1>5, SumRemove
<1> QED
  BY <1>3, <1>5, <1>6, <1>7, <1>8, <1>10, <1>11

\* What holds of 0, and of i + 1 if it holds of i, holds up to n.
LEMMA UpTo ==
    ASSUME NEW n \in Nat, NEW S, 0 \in S, \A i \in Nat : i < n /\ i \in S => i + 1 \in S
    PROVE  \A i \in 0..n : i \in S
<1> DEFINE Bad == {i \in 1..n : i \notin S}
<1> SUFFICES ASSUME Bad # {} PROVE FALSE
  OBVIOUS
<1>1. PICK i \in Bad : \A j \in Bad : i <= j
  <2>1. Bad \subseteq 1..n
    OBVIOUS
  <2> HIDE DEF Bad
  <2> QED
    BY <2>1, FirstIn
<1>2. i - 1 \in Nat /\ i - 1 < n /\ i - 1 \notin Bad /\ i \notin S
  BY <1>1
<1>3. i - 1 \in S
  BY <1>2
<1> QED
  BY <1>2, <1>3

\* f begins with a and goes on by st.
Recurs(f, a, st, n) == f[0] = a /\ \A i \in 1..n : f[i] = st[<<i, f[i - 1]>>]

\* A function that goes on by st exists.
LEMMA RecursionExists ==
    ASSUME NEW n \in Nat, NEW V, NEW a \in V, NEW st \in [(1..n) \X V -> V]
    PROVE  \E f \in [0..n -> V] : Recurs(f, a, st, n)
<1> DEFINE S == {k \in 0..n : \E f \in [0..k -> V] : Recurs(f, a, st, k)}
<1>1. 0 \in S
  <2>1. [i \in 0..0 |-> a] \in [0..0 -> V] /\ Recurs([i \in 0..0 |-> a], a, st, 0)
    BY DEF Recurs
  <2> QED
    BY <2>1
<1>2. ASSUME NEW i \in Nat, i < n, i \in S PROVE i + 1 \in S
  <2>1. PICK f \in [0..i -> V] : Recurs(f, a, st, i)
    BY <1>2
  <2>2. f[i] \in V /\ <<i + 1, f[i]>> \in (1..n) \X V
    BY <1>2
  <2>3. PICK v \in V : v = st[<<i + 1, f[i]>>]
    BY <2>2
  <2> DEFINE h == [j \in 0..(i + 1) |-> IF j = i + 1 THEN v ELSE f[j]]
  <2>4. h \in [0..(i + 1) -> V]
    BY <2>3
  <2>5. h[0] = a
    BY <2>1 DEF Recurs
  <2>6. ASSUME NEW j \in 1..(i + 1) PROVE h[j] = st[<<j, h[j - 1]>>]
    <3>1. h[j] = (IF j = i + 1 THEN v ELSE f[j]) /\ h[j - 1] = f[j - 1]
      OBVIOUS
    <3> HIDE DEF h
    <3>2. CASE j = i + 1
      BY <2>3, <3>1, <3>2
    <3>3. CASE j # i + 1
      <4>1. j \in 1..i
        BY <3>3
      <4>2. f[j] = st[<<j, f[j - 1]>>]
        BY <2>1, <4>1 DEF Recurs
      <4> QED
        BY <3>1, <3>3, <4>2
    <3> QED
      BY <3>2, <3>3
  <2>7. Recurs(h, a, st, i + 1)
    BY <2>5, <2>6 DEF Recurs
  <2> HIDE DEF h
  <2> QED
    BY <1>2, <2>4, <2>7
<1>3. n \in S
  <2> HIDE DEF S
  <2> QED
    BY <1>1, <1>2, UpTo
<1> QED
  BY <1>3
=============================================================================
