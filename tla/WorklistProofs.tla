--------------------------- MODULE WorklistProofs ---------------------------
(***************************************************************************)
(* Theorems about the inter-procedural worklist, for every program whose   *)
(* values are finitely many: the types, and that an analysis which has not *)
(* given up left nothing out of what it counts as analysed                 *)
(* (NothingLeftOut), whatever order its sets of pointers are visited in.   *)
(***************************************************************************)
EXTENDS Worklist, TLAPS, FiniteSetTheorems, WellFoundedInduction

-----------------------------------------------------------------------------
(* Induction for the lemmas about the recursive functions; a property is the *)
(* set of the numbers that have it.                                          *)

\* A set of numbers with zero and the successor of each of its numbers has them all.
LEMMA SetInduction ==
  ASSUME NEW P \in SUBSET Nat, 0 \in P, \A n \in P : n + 1 \in P
  PROVE  P = Nat
<1> DEFINE T == {1..n : n \in Nat \ P}
<1> SUFFICES ASSUME NEW bad \in Nat, bad \notin P PROVE FALSE
  OBVIOUS
<1>1. IsWellFoundedOn(StrictSubsetOrdering(Nat), FiniteSubsetsOf(Nat))
  BY FS_StrictSubsetOrderingWellFounded
<1>2. T \subseteq FiniteSubsetsOf(Nat) /\ T # {}
  <2>1. \A n \in Nat : IsFiniteSet(1..n)
    BY FS_Interval
  <2> QED BY <2>1 DEF FiniteSubsetsOf
<1> HIDE DEF T
<1>3. PICK x \in T : \A y \in T : ~(<<y, x>> \in StrictSubsetOrdering(Nat))
  BY <1>1, <1>2, WFMin
<1>4. PICK n \in Nat \ P : x = 1..n
  BY DEF T
<1>5. n # 0 /\ n - 1 \in Nat /\ n - 1 \notin P
  OBVIOUS
<1>6. 1..(n - 1) \in T
  BY <1>5 DEF T
<1>7. <<1..(n - 1), x>> \in StrictSubsetOrdering(Nat)
  <2>1. 1..(n - 1) \in SUBSET Nat /\ x \in SUBSET Nat
    BY <1>4
  <2>2. 1..(n - 1) \subseteq x /\ n \in x /\ n \notin 1..(n - 1)
    BY <1>4, <1>5
  <2> QED BY <2>1, <2>2 DEF StrictSubsetOrdering
<1> QED BY <1>3, <1>6, <1>7

\* The first n values of what step yields from base.
Begins(f, n, base, step) == f[0] = base /\ \A i \in 1..n : f[i] = step[f[i - 1]]

\* A function on the numbers that repeats step exists.
LEMMA IterationExists ==
  ASSUME NEW V, NEW base \in V, NEW step \in [V -> V]
  PROVE  \E f \in [Nat -> V] : \A n \in Nat : f[n] = IF n = 0 THEN base ELSE step[f[n - 1]]
<1> DEFINE Some(n) == \E f \in [Nat -> V] : Begins(f, n, base, step)
           P == {n \in Nat : Some(n)}
           Q == {i \in Nat : \A f, g \in [Nat -> V], n, m \in Nat :
                   i <= n /\ i <= m /\ Begins(f, n, base, step) /\ Begins(g, m, base, step) => f[i] = g[i]}
           h == [n \in Nat |-> CHOOSE f \in [Nat -> V] : Begins(f, n, base, step)]
           F == [n \in Nat |-> h[n][n]]
<1>1. \A n \in Nat : Some(n)
  <2>1. 0 \in P
    <3>1. Begins([i \in Nat |-> base], 0, base, step)
      BY DEF Begins
    <3> QED BY <3>1
  <2>2. ASSUME NEW n \in P PROVE n + 1 \in P
    <3>1. PICK f \in [Nat -> V] : Begins(f, n, base, step)
      BY <2>2
    <3> DEFINE g == [f EXCEPT ![n + 1] = step[f[n]]]
    <3>2. g \in [Nat -> V]
      OBVIOUS
    <3>3. Begins(g, n + 1, base, step)
      <4> SUFFICES ASSUME NEW i \in 1..(n + 1) PROVE g[i] = step[g[i - 1]]
        BY <3>1 DEF Begins
      <4>1. CASE i = n + 1
        BY <4>1
      <4>2. CASE i \in 1..n
        BY <3>1, <4>2 DEF Begins
      <4> QED BY <4>1, <4>2
    <3> HIDE DEF g
    <3> QED BY <2>2, <3>2, <3>3
  <2> HIDE DEF Some
  <2>3. P \in SUBSET Nat
    OBVIOUS
  <2> HIDE DEF P
  <2>4. P = Nat
    BY <2>1, <2>2, <2>3, SetInduction
  <2> QED BY <2>4 DEF P
<1>2. \A i \in Nat : i \in Q
  <2>1. 0 \in Q
    BY DEF Begins
  <2>2. ASSUME NEW i \in Q PROVE i + 1 \in Q
    <3> SUFFICES ASSUME NEW f \in [Nat -> V], NEW g \in [Nat -> V], NEW n \in Nat, NEW m \in Nat,
                        i + 1 <= n, i + 1 <= m, Begins(f, n, base, step), Begins(g, m, base, step)
                 PROVE  f[i + 1] = g[i + 1]
      BY <2>2
    <3>1. f[i] = g[i]
      BY <2>2
    <3>2. i + 1 \in 1..n /\ i + 1 \in 1..m /\ i + 1 - 1 = i
      BY <2>2
    <3> QED BY <3>1, <3>2 DEF Begins
  <2>3. Q \in SUBSET Nat
    OBVIOUS
  <2> HIDE DEF Q
  <2>4. Q = Nat
    BY <2>1, <2>2, <2>3, SetInduction
  <2> QED BY <2>4
<1>3. \A n \in Nat : h[n] \in [Nat -> V] /\ Begins(h[n], n, base, step)
  <2> HIDE DEF P, Q
  <2> QED BY <1>1
<1>4. \A n, i \in Nat : i <= n => h[n][i] = F[i]
  <2> HIDE DEF h
  <2>1. ASSUME NEW n \in Nat, NEW i \in Nat, i <= n PROVE h[n][i] = h[i][i]
    <3>1. i \in Q /\ i <= i
      BY <1>2
    <3> QED BY <1>3, <2>1, <3>1
  <2> HIDE DEF Q
  <2> QED BY <2>1
<1>5. F \in [Nat -> V]
  <2> HIDE DEF h
  <2> QED BY <1>3
<1>6. ASSUME NEW n \in Nat PROVE F[n] = IF n = 0 THEN base ELSE step[F[n - 1]]
  <2> HIDE DEF h
  <2>1. CASE n = 0
    BY <1>3, <2>1 DEF Begins
  <2>2. CASE n # 0
    <3>1. n \in 1..n /\ n - 1 \in Nat /\ n - 1 <= n
      BY <2>2
    <3>2. h[n][n] = step[h[n][n - 1]]
      BY <1>3, <3>1 DEF Begins
    <3>3. h[n][n - 1] = F[n - 1]
      BY <1>4, <3>1
    <3> QED BY <2>2, <3>2, <3>3
  <2> QED BY <2>1, <2>2
<1> HIDE DEF F
<1> QED BY <1>5, <1>6

\* Reached is closed under next, and within every set with S that is.
LEMMA ReachedClosed ==
  ASSUME NEW S \in SUBSET Value, NEW next \in [Value -> SUBSET Value]
  PROVE  LET C == Reached(S, next) IN
         /\ C \in SUBSET Value /\ S \subseteq C
         /\ \A u \in C : next[u] \subseteq C
         /\ \A G : S \subseteq G /\ (\A u \in G \cap Value : next[u] \subseteq G) => C \subseteq G
<1> DEFINE step == [X \in SUBSET Value |-> UNION {{u} \cup next[u] : u \in X}]
           N == Cardinality(Value)
           R == CHOOSE r : r = [n \in Nat |-> IF n = 0 THEN S ELSE UNION {{u} \cup next[u] : u \in r[n - 1]}]
           Closed(X) == \A u \in X : next[u] \subseteq X
<1>1. step \in [SUBSET Value -> SUBSET Value]
  <2>1. \A X \in SUBSET Value : UNION {{u} \cup next[u] : u \in X} \in SUBSET Value
    OBVIOUS
  <2> QED BY <2>1
<1>2. \E r \in [Nat -> SUBSET Value] :
        r = [n \in Nat |-> IF n = 0 THEN S ELSE UNION {{u} \cup next[u] : u \in r[n - 1]}]
  <2>1. PICK r \in [Nat -> SUBSET Value] : \A n \in Nat : r[n] = IF n = 0 THEN S ELSE step[r[n - 1]]
    <3> DEFINE V == SUBSET Value
    <3>2. S \in V /\ step \in [V -> V]
      BY <1>1
    <3> HIDE DEF step, V
    <3>3. \E r \in [Nat -> V] : \A n \in Nat : r[n] = IF n = 0 THEN S ELSE step[r[n - 1]]
      BY <3>2, IterationExists
    <3> QED BY <3>3 DEF V
  <2>2. \A n \in Nat : n # 0 => step[r[n - 1]] = UNION {{u} \cup next[u] : u \in r[n - 1]}
    OBVIOUS
  <2>3. \A n \in Nat : r[n] = IF n = 0 THEN S ELSE UNION {{u} \cup next[u] : u \in r[n - 1]}
    <3> HIDE DEF step
    <3> QED BY <2>1, <2>2
  <2>4. r = [n \in Nat |-> r[n]]
    BY <2>1
  <2>5. [n \in Nat |-> r[n]] = [n \in Nat |-> IF n = 0 THEN S ELSE UNION {{u} \cup next[u] : u \in r[n - 1]}]
    BY <2>3, Zenon
  <2> QED BY <2>4, <2>5, Zenon
<1>3. R = [n \in Nat |-> IF n = 0 THEN S ELSE UNION {{u} \cup next[u] : u \in R[n - 1]}]
  BY <1>2, Zenon
<1>4. Reached(S, next) = R[N]
  BY Zenon DEF Reached
<1> HIDE DEF R
<1>5. R[0] = S /\ \A n \in Nat : R[n + 1] = UNION {{u} \cup next[u] : u \in R[n]}
  <2>1. R[0] = S
    BY <1>3
  <2>2. ASSUME NEW n \in Nat PROVE R[n + 1] = UNION {{u} \cup next[u] : u \in R[n]}
    <3>1. n + 1 \in Nat /\ n + 1 # 0 /\ n + 1 - 1 = n
      OBVIOUS
    <3>2. \A m \in Nat : m # 0 => R[m] = UNION {{u} \cup next[u] : u \in R[m - 1]}
      BY <1>3
    <3> QED BY <3>1, <3>2
  <2> QED BY <2>1, <2>2
<1>6. N \in Nat /\ IsFiniteSet(Value)
  BY ProgramAssumption, FS_CardinalityType
<1>7. \A n \in Nat : R[n] \in SUBSET Value /\ S \subseteq R[n]
  <2> DEFINE P == {n \in Nat : R[n] \in SUBSET Value /\ S \subseteq R[n]}
  <2>1. 0 \in P
    BY <1>5
  <2>2. ASSUME NEW n \in P PROVE n + 1 \in P
    <3>1. R[n + 1] = UNION {{u} \cup next[u] : u \in R[n]}
      BY <1>5, <2>2
    <3>2. R[n + 1] \in SUBSET Value /\ R[n] \subseteq R[n + 1]
      BY <2>2, <3>1
    <3> QED BY <2>2, <3>2
  <2>3. P \in SUBSET Nat
    OBVIOUS
  <2> HIDE DEF P
  <2>4. P = Nat
    BY <2>1, <2>2, <2>3, SetInduction
  <2> QED BY <2>4 DEF P
<1>8. \A n \in Nat : Closed(R[n]) \/ Cardinality(R[n]) >= n
  <2> DEFINE P == {n \in Nat : Closed(R[n]) \/ Cardinality(R[n]) >= n}
  <2>0. \A n \in Nat : IsFiniteSet(R[n]) /\ Cardinality(R[n]) \in Nat
    BY <1>6, <1>7, FS_Subset, FS_CardinalityType
  <2>1. 0 \in P
    BY <2>0
  <2>2. ASSUME NEW n \in P PROVE n + 1 \in P
    <3>1. R[n + 1] = UNION {{u} \cup next[u] : u \in R[n]}
      BY <1>5, <2>2
    <3>2. CASE Closed(R[n])
      <4>1. R[n + 1] = R[n]
        BY <3>1, <3>2
      <4> QED BY <2>2, <3>2, <4>1
    <3>3. CASE ~Closed(R[n])
      <4>1. PICK u \in R[n] : ~(next[u] \subseteq R[n])
        BY <3>3
      <4>6. PICK w \in next[u] : w \notin R[n]
        BY <4>1
      <4>2. R[n] \subseteq R[n + 1] /\ w \in R[n + 1]
        BY <3>1, <4>6
      <4>3. Cardinality(R[n]) <= Cardinality(R[n + 1]) /\ Cardinality(R[n]) # Cardinality(R[n + 1])
        BY <2>0, <2>2, <4>2, <4>6, FS_Subset
      <4>4. Cardinality(R[n]) >= n
        BY <2>2, <3>3
      <4>5. Cardinality(R[n + 1]) >= n + 1
        <5>1. n \in Nat /\ Cardinality(R[n]) \in Nat /\ Cardinality(R[n + 1]) \in Nat
          BY <2>0, <2>2
        <5> QED BY <4>3, <4>4, <5>1
      <4> HIDE DEF Closed
      <4> QED BY <2>2, <4>5
    <3> QED BY <3>2, <3>3
  <2> HIDE DEF Closed
  <2>3. P \in SUBSET Nat
    OBVIOUS
  <2> HIDE DEF P
  <2>4. P = Nat
    BY <2>1, <2>2, <2>3, SetInduction
  <2> QED BY <2>4 DEF P
<1>9. Closed(R[N])
  <2>1. CASE Cardinality(R[N]) >= N
    <3>1. R[N] = Value
      <4>1. Cardinality(R[N]) <= N
        BY <1>6, <1>7, FS_Subset
      <4>2. Cardinality(R[N]) \in Nat
        BY <1>6, <1>7, FS_Subset, FS_CardinalityType
      <4>3. Cardinality(R[N]) = N
        BY <1>6, <2>1, <4>1, <4>2
      <4> QED BY <1>6, <1>7, <4>3, FS_Subset
    <3> QED BY <3>1
  <2> QED BY <1>6, <1>8, <2>1
<1>10. ASSUME NEW G, S \subseteq G, \A u \in G \cap Value : next[u] \subseteq G
       PROVE  R[N] \subseteq G
  <2> DEFINE P == {n \in Nat : R[n] \subseteq G}
  <2>1. 0 \in P
    BY <1>5, <1>10
  <2>2. ASSUME NEW n \in P PROVE n + 1 \in P
    <3>1. R[n + 1] = UNION {{u} \cup next[u] : u \in R[n]} /\ R[n] \in SUBSET Value
      BY <1>5, <1>7, <2>2
    <3> QED BY <1>10, <2>2, <3>1
  <2>3. P \in SUBSET Nat
    OBVIOUS
  <2> HIDE DEF P
  <2>4. P = Nat
    BY <2>1, <2>2, <2>3, SetInduction
  <2> QED BY <1>6, <2>4 DEF P
<1> QED BY <1>4, <1>6, <1>7, <1>9, <1>10

\* c takes one element of each set that has one.
Chooses(c, S) == \A s \in SUBSET S : s # {} => c[s] \in s

\* f[s] combines the elements of s with G, the one c takes last.
FoldOf(f, S, base, G, c) ==
  \A s \in SUBSET S : f[s] = IF s = {} THEN base ELSE G[<<c[s], f[s \ {c[s]}]>>]

\* The recursive function MapThenFoldSet is defined with exists.
LEMMA FoldExists ==
  ASSUME NEW S, IsFiniteSet(S), NEW T, NEW base \in T, NEW G \in [S \X T -> T],
         NEW c, Chooses(c, S)
  PROVE  \E f \in [SUBSET S -> T] : FoldOf(f, S, base, G, c)
<1> DEFINE Step(f, s) == IF s = {} THEN base ELSE G[<<c[s], f[s \ {c[s]}]>>]
           Upto(f, n) == \A s \in SUBSET S : Cardinality(s) <= n => f[s] = Step(f, s)
           P == {n \in Nat : \E f \in [SUBSET S -> T] : Upto(f, n)}
<1>1. \A s \in SUBSET S : IsFiniteSet(s) /\ Cardinality(s) \in Nat /\ Cardinality(s) <= Cardinality(S)
  BY FS_Subset, FS_CardinalityType
<1>2. \A s \in SUBSET S : s # {} => /\ s \ {c[s]} \in SUBSET S
                                    /\ Cardinality(s \ {c[s]}) = Cardinality(s) - 1
  BY <1>1, FS_RemoveElement DEF Chooses
<1>3. \A s \in SUBSET S, f \in [SUBSET S -> T] : Step(f, s) \in T
  BY <1>2 DEF Chooses
<1>4. 0 \in P
  <2>1. Upto([s \in SUBSET S |-> base], 0)
    <3>1. \A s \in SUBSET S : Cardinality(s) <= 0 => s = {}
      BY <1>1, FS_EmptySet
    <3> QED BY <3>1
  <2> QED BY <2>1
<1>5. ASSUME NEW n \in P PROVE n + 1 \in P
  <2>1. PICK f \in [SUBSET S -> T] : Upto(f, n)
    BY <1>5
  <2> DEFINE g == [s \in SUBSET S |-> Step(f, s)]
  <2>2. g \in [SUBSET S -> T]
    BY <1>3
  <2>3. ASSUME NEW s \in SUBSET S, Cardinality(s) <= n + 1 PROVE g[s] = Step(g, s)
    <3>1. CASE s = {}
      BY <3>1
    <3>2. CASE s # {}
      <4>1. s \ {c[s]} \in SUBSET S /\ Cardinality(s \ {c[s]}) <= n
        BY <1>1, <1>2, <2>3, <3>2
      <4>2. f[s \ {c[s]}] = Step(f, s \ {c[s]})
        BY <2>1, <4>1
      <4>3. g[s \ {c[s]}] = f[s \ {c[s]}]
        BY <4>1, <4>2
      <4> QED BY <3>2, <4>3
    <3> QED BY <3>1, <3>2
  <2> HIDE DEF Step, g
  <2>4. Upto(g, n + 1)
    BY <2>3
  <2> HIDE DEF Upto
  <2> QED BY <2>2, <2>4
<1> HIDE DEF P
<1>6. P \subseteq Nat /\ Cardinality(S) \in P
  <2>1. P \in SUBSET Nat
    BY DEF P
  <2>2. P = Nat
    BY <1>4, <1>5, <2>1, SetInduction
  <2> QED BY <2>1, <2>2, FS_CardinalityType
<1>7. PICK f \in [SUBSET S -> T] : Upto(f, Cardinality(S))
  BY <1>6 DEF P
<1>8. \A s \in SUBSET S : f[s] = Step(f, s)
  BY <1>1, <1>7
<1> QED BY <1>8 DEF FoldOf

-----------------------------------------------------------------------------
(* The clusters: connecting pairs only merges and adds clusters.             *)

\* Every set of A is within one of B.
Within(A, B) == \A c \in A : \E d \in B : c \subseteq d

LEMMA WithinTransitive ==
  ASSUME NEW A, NEW B, NEW C, Within(A, B), Within(B, C) PROVE Within(A, C)
<1> SUFFICES ASSUME NEW c \in A PROVE \E e \in C : c \subseteq e
  BY DEF Within
<1>1. PICK d \in B : c \subseteq d
  BY DEF Within
<1>2. PICK e \in C : d \subseteq e
  BY DEF Within
<1> QED BY <1>1, <1>2

\* Joining a pair loses no cluster, and puts the pair in one.
LEMMA JoinedFacts ==
  ASSUME NEW gc \in SUBSET SUBSET Value, NEW pair \in SUBSET Value
  PROVE  /\ Joined(pair, gc) \in SUBSET SUBSET Value
         /\ Within(gc \cup {pair}, Joined(pair, gc))
<1> DEFINE touched == {c \in gc : c \cap pair # {}}
<1>1. Joined(pair, gc) = (gc \ touched) \cup {pair \cup UNION touched}
  BY DEF Joined
<1>2. \A c \in gc \cup {pair} : c \in gc \ touched \/ c \subseteq pair \cup UNION touched
  OBVIOUS
<1>3. pair \cup UNION touched \in SUBSET Value
  OBVIOUS
<1> HIDE DEF touched
<1> QED BY <1>1, <1>2, <1>3 DEF Within

LEMMA PairsFinite == ASSUME NEW pairs \in SUBSET SUBSET Value PROVE IsFiniteSet(pairs)
BY ProgramAssumption, FS_SUBSET, FS_Subset

\* Connecting pairs loses no cluster, and puts each pair in one.
LEMMA ConnectedFacts ==
  ASSUME NEW gc \in SUBSET SUBSET Value, NEW pairs \in SUBSET SUBSET Value
  PROVE  /\ Connected(gc, pairs) \in SUBSET SUBSET Value
         /\ Within(gc, Connected(gc, pairs)) /\ Within(pairs, Connected(gc, pairs))
<1> DEFINE T == SUBSET SUBSET Value
           iter == CHOOSE f : f = [s \in SUBSET pairs |->
                     IF s = {} THEN gc ELSE Joined(CHOOSE x \in s : TRUE, f[s \ {CHOOSE x \in s : TRUE}])]
           G == [p \in pairs \X T |-> Joined(p[1], p[2])]
           c == [s \in SUBSET pairs |-> CHOOSE x \in s : TRUE]
<1>1. IsFiniteSet(pairs)
  BY PairsFinite
<1>2. Chooses(c, pairs) /\ \A s \in SUBSET pairs : c[s] = CHOOSE x \in s : TRUE
  BY DEF Chooses
<1>3. G \in [pairs \X T -> T]
  <2>1. \A p \in pairs \X T : p[1] \in SUBSET Value /\ p[2] \in SUBSET SUBSET Value
    OBVIOUS
  <2>2. \A p \in pairs \X T : Joined(p[1], p[2]) \in T
    <3> SUFFICES ASSUME NEW p \in pairs \X T PROVE Joined(p[1], p[2]) \in SUBSET SUBSET Value
      OBVIOUS
    <3> DEFINE e == p[1]
               h == p[2]
    <3>1. e \in SUBSET Value /\ h \in SUBSET SUBSET Value
      BY <2>1
    <3> HIDE DEF e, h
    <3>2. Joined(e, h) \in SUBSET SUBSET Value
      BY <3>1, JoinedFacts
    <3> QED BY <3>2 DEF e, h
  <2> QED BY <2>2
<1>4. PICK f \in [SUBSET pairs -> T] : FoldOf(f, pairs, gc, G, c)
  <2>1. gc \in T
    OBVIOUS
  <2> HIDE DEF T, G, c
  <2> QED BY <1>1, <1>2, <1>3, <2>1, FoldExists
<1>5. \A s \in SUBSET pairs : s # {} =>
        G[<<c[s], f[s \ {c[s]}]>>] = Joined(CHOOSE x \in s : TRUE, f[s \ {CHOOSE x \in s : TRUE}])
  <2> SUFFICES ASSUME NEW s \in SUBSET pairs, s # {}
               PROVE  G[<<c[s], f[s \ {c[s]}]>>] = Joined(CHOOSE x \in s : TRUE, f[s \ {CHOOSE x \in s : TRUE}])
    OBVIOUS
  <2> DEFINE e == c[s]
             rest == f[s \ {e}]
  <2>1. e \in pairs /\ rest \in T /\ e = CHOOSE x \in s : TRUE
    BY <1>2 DEF Chooses
  <2>2. \A a \in pairs, b \in T : G[<<a, b>>] = Joined(a, b)
    OBVIOUS
  <2> HIDE DEF G, c, e, rest, T
  <2>3. G[<<e, rest>>] = Joined(e, rest)
    BY <2>1, <2>2
  <2>4. G[<<e, rest>>] = Joined(e, f[s \ {e}])
    BY <2>3 DEF rest
  <2> QED BY <2>1, <2>4 DEF e, rest
<1>6. \E g : g = [s \in SUBSET pairs |->
              IF s = {} THEN gc ELSE Joined(CHOOSE x \in s : TRUE, g[s \ {CHOOSE x \in s : TRUE}])]
  <2>1. \A s \in SUBSET pairs :
          f[s] = IF s = {} THEN gc ELSE Joined(CHOOSE x \in s : TRUE, f[s \ {CHOOSE x \in s : TRUE}])
    <3> HIDE DEF G, c
    <3> QED BY <1>4, <1>5 DEF FoldOf
  <2>2. f = [s \in SUBSET pairs |-> f[s]]
    BY <1>4
  <2>3. [s \in SUBSET pairs |-> f[s]] = [s \in SUBSET pairs |->
           IF s = {} THEN gc ELSE Joined(CHOOSE x \in s : TRUE, f[s \ {CHOOSE x \in s : TRUE}])]
    BY <2>1, Zenon
  <2> QED BY <2>2, <2>3, Zenon
<1>7. iter = [s \in SUBSET pairs |->
              IF s = {} THEN gc ELSE Joined(CHOOSE x \in s : TRUE, iter[s \ {CHOOSE x \in s : TRUE}])]
  BY <1>6, Zenon
<1>8. Connected(gc, pairs) = iter[pairs]
  BY Zenon DEF Connected, FoldSet, MapThenFoldSet
<1> HIDE DEF iter, G, c
<1>9. /\ iter[{}] = gc
      /\ \A s \in SUBSET pairs : s # {} => \E x \in s : iter[s] = Joined(x, iter[s \ {x}])
  BY <1>7
<1> DEFINE Good(s) == iter[s] \in T /\ Within(gc, iter[s]) /\ Within(s, iter[s])
           P == {n \in Nat : \A s \in SUBSET pairs : Cardinality(s) = n => Good(s)}
<1>10. \A s \in SUBSET pairs : IsFiniteSet(s) /\ Cardinality(s) \in Nat
  BY <1>1, FS_Subset, FS_CardinalityType
<1>11. 0 \in P
  <2>1. \A s \in SUBSET pairs : Cardinality(s) = 0 => s = {}
    BY <1>10, FS_EmptySet
  <2>2. Good({})
    BY <1>9 DEF Within
  <2> HIDE DEF Good
  <2> QED BY <2>1, <2>2
<1>12. ASSUME NEW n \in P PROVE n + 1 \in P
  <2> SUFFICES ASSUME NEW s \in SUBSET pairs, Cardinality(s) = n + 1 PROVE Good(s)
    BY <1>12
  <2>1. s # {}
    BY <1>12, FS_EmptySet
  <2>2. PICK x \in s : iter[s] = Joined(x, iter[s \ {x}])
    BY <1>9, <2>1
  <2>3. s \ {x} \in SUBSET pairs /\ Cardinality(s \ {x}) = n
    BY <1>10, <1>12, FS_RemoveElement
  <2>4. Good(s \ {x})
    <3> HIDE DEF Good
    <3> QED BY <1>12, <2>3
  <2> DEFINE h == iter[s \ {x}]
  <2>5. h \in SUBSET SUBSET Value /\ x \in SUBSET Value /\ Within(gc, h) /\ Within(s \ {x}, h)
    BY <2>4
  <2> HIDE DEF h
  <2>6. Joined(x, h) \in SUBSET SUBSET Value /\ Within(h \cup {x}, Joined(x, h))
    BY <2>5, JoinedFacts
  <2>7. Within(h, Joined(x, h)) /\ \E d \in Joined(x, h) : x \subseteq d
    BY <2>6 DEF Within
  <2>8. Within(gc, Joined(x, h)) /\ Within(s \ {x}, Joined(x, h))
    BY <2>5, <2>7, WithinTransitive
  <2>9. Within(s, Joined(x, h))
    BY <2>7, <2>8 DEF Within
  <2>10. iter[s] = Joined(x, h)
    BY <2>2 DEF h
  <2> QED BY <2>6, <2>8, <2>9, <2>10
<1>13. Good(pairs)
  <2>1. P \in SUBSET Nat
    OBVIOUS
  <2> HIDE DEF P
  <2>2. P = Nat
    BY <1>11, <1>12, <2>1, SetInduction
  <2> HIDE DEF Good
  <2> QED BY <1>10, <2>2 DEF P
<1> QED BY <1>8, <1>13

-----------------------------------------------------------------------------
(* The types of what the handlers connect.                                   *)

\* Sets of what can be connected, and the lists AnalysisList can be.
Pairs == SUBSET SUBSET Value
List == Seq((SUBSET Value) \ {{}})

LEMMA OperandsType == \A v \in Value : Operands(v) \in SUBSET Value
<1> SUFFICES ASSUME NEW v \in Value PROVE Operands(v) \in SUBSET Value
  OBVIOUS
<1>1. args[v] \in Seq(Value) /\ (v \in Call => called[v] \in Value)
  BY ProgramAssumption
<1>2. Range(args[v]) \in SUBSET Value
  BY <1>1 DEF Range
<1> QED BY <1>1, <1>2 DEF Operands

LEMMA UsersType == users \in [Value -> SUBSET Value]
BY DEF users

LEMMA UnionPairs == \A P : (\A e \in P : e \in Pairs) => UNION P \in Pairs
BY DEF Pairs

LEMMA LinkedType == \A v \in Value : Linked(v) \in Pairs
BY OperandsType DEF Linked, Pairs

LEMMA OperatorType == \A v \in Value : HandleOperator(v) \in Pairs
<1> SUFFICES ASSUME NEW v \in Value PROVE HandleOperator(v) \in Pairs
  OBVIOUS
<1>1. InOperator \in [Value -> SUBSET Value]
  BY OperandsType DEF InOperator
<1>3. {v} \in SUBSET Value
  OBVIOUS
<1>2. Reached({v}, InOperator) \in SUBSET Value
  BY <1>1, <1>3, ReachedClosed
<1> DEFINE W == {w \in Reached({v}, InOperator) : op[w] = "operator"}
<1>4. HandleOperator(v) = UNION {Linked(u) : u \in W}
  BY DEF HandleOperator
<1>5. W \subseteq Value
  BY <1>2
<1> HIDE DEF W
<1> QED BY <1>4, <1>5, LinkedType, UnionPairs

\* A handler connects values of the program, whatever the instruction is.
LEMMA InstType == \A v \in Value : HandleInst(v) \in Pairs
<1> SUFFICES ASSUME NEW v \in Value PROVE HandleInst(v) \in Pairs
  OBVIOUS
<1> DEFINE First == UNION {HandleOperator(o) : o \in Operands(v)}
           Second == IF v \in Call THEN {{a} : a \in Operands(v) \cup {v}} \cup {{v, f} : f \in symbols[v]} ELSE {}
           Third == CASE op[v] \in {"load", "move", "gep"} -> Linked(v)
    [] op[v] = "copy" \/ (op[v] = "store" /\ op[args[v][1]] # "data") -> {{args[v][1], args[v][2]}}
    [] op[v] = "return" -> {e \in Linked(v) : \A w \in e : op[w] # "data"}
    [] op[v] = "alloca" -> {{v}}
    [] OTHER -> {}
<1>1. First \in Pairs
  BY OperandsType, OperatorType DEF Pairs
<1>2. Second \in Pairs
  <2>1. {{a} : a \in Operands(v) \cup {v}} \in Pairs
    BY OperandsType DEF Pairs
  <2>2. v \in Call => {{v, f} : f \in symbols[v]} \in Pairs
    <3>1. v \in Call => symbols[v] \subseteq Value
      BY ProgramAssumption DEF Function
    <3> QED BY <3>1 DEF Pairs
  <2>3. {} \in Pairs
    BY DEF Pairs
  <2> QED BY <2>1, <2>2, <2>3 DEF Pairs
<1>3. Third \in Pairs
  <2>1. op[v] \in {"store", "copy"} => {{args[v][1], args[v][2]}} \in Pairs
    <3>1. args[v] \in Seq(Value) /\ (op[v] \in {"store", "copy"} => Len(args[v]) >= 2)
      BY ProgramAssumption
    <3>2. op[v] \in {"store", "copy"} => args[v][1] \in Value /\ args[v][2] \in Value
      BY <3>1
    <3> QED BY <3>2 DEF Pairs
  <2>2. Linked(v) \in Pairs /\ {e \in Linked(v) : \A w \in e : op[w] # "data"} \in Pairs
        /\ {{v}} \in Pairs /\ {} \in Pairs
    BY LinkedType DEF Pairs
  <2> HIDE DEF Pairs
  <2>3. CASE op[v] \in {"load", "move", "gep"}
    BY <2>2, <2>3
  <2>4. CASE op[v] = "copy" \/ (op[v] = "store" /\ op[args[v][1]] # "data")
    BY <2>1, <2>4
  <2>5. CASE op[v] = "return"
    BY <2>2, <2>5
  <2>6. CASE op[v] = "alloca"
    BY <2>2, <2>6
  <2>7. CASE /\ op[v] \notin {"load", "move", "gep", "copy", "return", "alloca"}
             /\ ~(op[v] = "store" /\ op[args[v][1]] # "data")
    BY <2>2, <2>7
  <2> QED BY <2>3, <2>4, <2>5, <2>6, <2>7
<1>4. HandleInst(v) = First \cup Second \cup Third
  BY Zenon DEF HandleInst
<1> HIDE DEF First, Second, Third
<1> QED BY <1>1, <1>2, <1>3, <1>4 DEF Pairs

LEMMA FunctionType == analyzeFunction \in [Function \cup {None} -> Pairs]
BY InstType DEF analyzeFunction, InstsOf, Pairs

LEMMA BoundType ==
  \A f \in Function, c \in Value :
    /\ HandleReturn(f, c) \in Pairs /\ HandleArgs(f, c) \in Pairs /\ Bound(f, c) \in Pairs
    /\ Range(params[f]) \in SUBSET Value
<1> SUFFICES ASSUME NEW f \in Function, NEW c \in Value
             PROVE  /\ HandleReturn(f, c) \in Pairs /\ HandleArgs(f, c) \in Pairs /\ Bound(f, c) \in Pairs
                    /\ Range(params[f]) \in SUBSET Value
  OBVIOUS
<1>1. HandleReturn(f, c) \in Pairs
  BY OperandsType DEF HandleReturn, InstsOf, Pairs
<1>2. args[c] \in Seq(Value) /\ params[f] \in Seq(Value)
  BY ProgramAssumption
<1>3. HandleArgs(f, c) \in Pairs
  BY <1>2 DEF HandleArgs, getMin, Pairs
<1>4. analyzeFunction[f] \in Pairs
  BY FunctionType
<1>5. Range(params[f]) \in SUBSET Value
  BY <1>2 DEF Range
<1> QED BY <1>1, <1>3, <1>4, <1>5 DEF Bound, Pairs

LEMMA InitializerType ==
  \A g \in Value : Named(g) \in SUBSET Value /\ analyzeGlobalInitializer(g) \in Pairs
<1> SUFFICES ASSUME NEW g \in Value PROVE Named(g) \in SUBSET Value /\ analyzeGlobalInitializer(g) \in Pairs
  OBVIOUS
<1> DEFINE next == [u \in Value |-> {o \in Operands(u) : op[o] = "aggregate"}]
<1>1. next \in [Value -> SUBSET Value] /\ Operands(g) \in SUBSET Value
  BY OperandsType
<1> HIDE DEF next
<1> DEFINE S == Operands(g)
<1> HIDE DEF S
<1>2. Reached(S, next) \in SUBSET Value
  BY <1>1, ReachedClosed DEF S
<1>3. Parts(g) \in SUBSET Value
  BY <1>2 DEF Parts, next, S
<1>4. Named(g) \in SUBSET Value
  BY <1>3, OperandsType DEF Named
<1>5. /\ UNION {HandleOperator(o) : o \in Named(g)} \in Pairs
      /\ {e \in UNION {Linked(u) : u \in Parts(g)} : \A w \in e : op[w] # "data"} \in Pairs
      /\ Linked(g) \in Pairs
  BY <1>3, <1>4, OperatorType, LinkedType DEF Pairs
<1>6. \A A, B, C : A \in Pairs /\ B \in Pairs /\ C \in Pairs => A \cup B \cup C \in Pairs
  BY DEF Pairs
<1> QED BY <1>4, <1>5, <1>6 DEF analyzeGlobalInitializer

LEMMA ExchangedType ==
  \A v, c \in Value : op[v] \in {"argument", "return"} =>
    parent[v] \in Function /\ Exchanged(v, c) \in Pairs
<1> SUFFICES ASSUME NEW v \in Value, NEW c \in Value, op[v] \in {"argument", "return"}
             PROVE  parent[v] \in Function /\ Exchanged(v, c) \in Pairs
  OBVIOUS
<1>1. parent[v] \in Function
  BY ProgramAssumption DEF Insts
<1>2. {{r, c} : r \in Operands(v)} \in Pairs
  BY OperandsType DEF Pairs
<1> QED BY <1>1, <1>2, BoundType DEF Exchanged

LEMMA ClusterType == \A gc \in Pairs : \A v : getClusterValues(v, gc) \in SUBSET Value
BY DEF getClusterValues, Pairs

LEMMA ListValues ==
  \A list \in List : \A v : v \in UNION Range(list) <=> \E i \in 1..Len(list) : v \in list[i]
BY DEF List, Range

\* A push loses nothing of the list.
LEMMA PushFacts ==
  \A list \in List, values \in SUBSET Value :
    /\ Push(list, values) \in List
    /\ UNION Range(list) \subseteq UNION Range(Push(list, values))
    /\ values \subseteq UNION Range(Push(list, values))
<1> SUFFICES ASSUME NEW list \in List, NEW values \in SUBSET Value, values # {}
             PROVE  /\ Append(list, values) \in List
                    /\ UNION Range(list) \subseteq UNION Range(Append(list, values))
                    /\ values \subseteq UNION Range(Append(list, values))
  BY DEF Push
<1> DEFINE l == Append(list, values)
<1>1. /\ l \in List /\ Len(l) = Len(list) + 1 /\ Len(list) \in Nat
      /\ l[Len(list) + 1] = values /\ \A i \in 1..Len(list) : l[i] = list[i]
  <2> DEFINE T == (SUBSET Value) \ {{}}
  <2>1. values \in T /\ list \in Seq(T)
    BY DEF List
  <2> HIDE DEF T
  <2>2. /\ l \in Seq(T) /\ Len(l) = Len(list) + 1 /\ Len(list) \in Nat
        /\ l[Len(list) + 1] = values /\ \A i \in 1..Len(list) : l[i] = list[i]
    BY <2>1
  <2> QED BY <2>2 DEF List, T
<1> HIDE DEF l
<1>5. \A i \in 1..Len(list) : i \in 1..Len(l)
  BY <1>1
<1>6. Len(list) + 1 \in 1..Len(l)
  BY <1>1
<1>2. \A v : v \in UNION Range(list) => v \in UNION Range(l)
  BY <1>1, <1>5, ListValues
<1>3. \A v : v \in values => v \in UNION Range(l)
  BY <1>1, <1>6, ListValues
<1>4. l \in List /\ UNION Range(list) \subseteq UNION Range(l) /\ values \subseteq UNION Range(l)
  BY <1>1, <1>2, <1>3
<1> QED BY <1>4 DEF l

\* Taking a value loses no other.
LEMMA RestFacts ==
  ASSUME LV \in List, LV # <<>>, NEW v \in Head(LV)
  PROVE  Rest(v) \in List /\ UNION Range(LV) \subseteq (UNION Range(Rest(v))) \cup {v}
<1>1. Len(LV) \in Nat \ {0} /\ Head(LV) = LV[1] /\ LV[1] \in SUBSET Value
      /\ \A i \in 1..Len(LV) : LV[i] \in (SUBSET Value) \ {{}}
  BY DEF List
<1>2. CASE Head(LV) = {v}
  <2>1. /\ Tail(LV) \in List /\ Len(Tail(LV)) = Len(LV) - 1
        /\ \A i \in 2..Len(LV) : LV[i] = Tail(LV)[i - 1]
    BY DEF List
  <2>2. ASSUME NEW w, NEW i \in 1..Len(LV), w \in LV[i] PROVE w \in (UNION Range(Tail(LV))) \cup {v}
    <3>1. CASE i = 1
      <4>1. w \in Head(LV)
        BY <1>1, <2>2, <3>1
      <4> QED BY <1>2, <4>1
    <3>2. CASE i # 1
      <4>1. i \in 2..Len(LV) /\ i - 1 \in 1..Len(Tail(LV)) /\ w \in Tail(LV)[i - 1]
        BY <1>1, <2>1, <2>2, <3>2
      <4> QED BY <2>1, <4>1, ListValues
    <3> QED BY <3>1, <3>2
  <2>3. \A w \in UNION Range(LV) : w \in (UNION Range(Tail(LV))) \cup {v}
    BY <2>2, ListValues
  <2> QED BY <1>2, <2>1, <2>3 DEF Rest
<1>3. CASE Head(LV) # {v}
  <2> DEFINE l == [LV EXCEPT ![1] = @ \ {v}]
  <2>1. LV[1] \ {v} \in (SUBSET Value) \ {{}}
    BY <1>1, <1>3
  <2>2. /\ l \in List /\ Len(l) = Len(LV) /\ l[1] = LV[1] \ {v}
        /\ \A i \in 2..Len(LV) : l[i] = LV[i]
    BY <1>1, <2>1 DEF List
  <2> HIDE DEF l
  <2>3. ASSUME NEW w, NEW i \in 1..Len(LV), w \in LV[i] PROVE w \in (UNION Range(l)) \cup {v}
    <3>1. w = v \/ w \in l[i]
      BY <1>1, <2>2, <2>3
    <3>2. i \in 1..Len(l)
      BY <2>2, <2>3
    <3> QED BY <2>2, <3>1, <3>2, ListValues
  <2>4. \A w \in UNION Range(LV) : w \in (UNION Range(l)) \cup {v}
    BY <2>3, ListValues
  <2>5. Rest(v) = l
    BY <1>3 DEF Rest, l
  <2> QED BY <2>2, <2>4, <2>5
<1> QED BY <1>2, <1>3

-----------------------------------------------------------------------------
(* The inductive invariant.                                                  *)

\* HandleFunc is still at the uses of the function it began with.
AtStart == pc = "funcUses" \/ (pc = "bind" /\ back = "funcUses")

\* What the program counter says of the value, the call and the set a loop is about.
Shape ==
  /\ AtStart => start \in Function
  /\ pc = "bind" => call \in Call /\ todo \subseteq Function
  /\ pc \in {"users", "callers", "globals", "globalUses"} \/ (pc = "bind" /\ ~AtStart) => cv \in Value
  /\ pc = "callers" => op[cv] \in {"argument", "return"} /\ todo \subseteq Call
  /\ pc \in {"pop", "callers", "globals"} \/ (pc = "bind" /\ back = "pop") => GU = {}
  /\ pc = "globalUses" => call \in Value

\* The users of first are visited or waiting, through the constants of these kinds.
Visiting(first, kinds) ==
  /\ first \subseteq GU \cup LU
  /\ \A u \in GU : op[u] \in kinds => users[u] \subseteq GU \cup LU

\* HandleFunc, before it reads the cluster of f.
FollowingStart(f) ==
  /\ f = start /\ f \in Function
  /\ Analyzed = {} /\ skip \subseteq HandedDown(f)
  /\ GU \cup LU \subseteq startUses[f] /\ Visiting(users[f], {"operator", "aggregate", "alias"})
  /\ \A u \in GU : GlobalUseFollowed(u) /\ (u \in Call => CallFollowed(u) \/ (pc = "bind" /\ u = call))
  /\ pc = "bind" => call \in GU

\* interCaseHandler, before it asks what v is.
FollowingUsers(v) ==
  /\ v = cv /\ op[v] \notin {"data", "function", "binary"}
  /\ Visiting(users[v], Operators)
  /\ \A u \in GU \ {v} : /\ op[u] \notin {"binary", "asm"}
                         /\ u \in Call => CallFollowed(u) \/ (pc = "bind" /\ u = call)

\* The loop over the callees of c.
FollowingCall(c) ==
  /\ c = call /\ c \in Call /\ todo \subseteq Callees[c]
  /\ \A f \in Callees[c] \ todo : Connects(Bound(f, c))

\* A declaration of the global that is done with, and the one being followed.
DeclarationFollowed(g, v) == InitializerFollowed(g, v) /\ \A u \in globalUses[g] : GlobalUseFollowed(u)
FollowingDeclaration(g, v) ==
  /\ g = call /\ InitializerFollowed(g, v)
  /\ Visiting(users[g], {"operator", "aggregate"})
  /\ \A u \in GU : GlobalUseFollowed(u)

\* interCaseHandler, when the users of v are done.
FollowingCase(v) ==
  /\ v = cv /\ op[v] \notin {"data", "function", "binary", "asm", "strip"}
  /\ \A u \in valueUses[v] \ {v} : UserFollowed(u)
  /\ pc = "bind" => op[v] \in {"call", "copy"} /\ call = v
  /\ pc = "callers" =>
       /\ op[v] \in {"argument", "return"}
       /\ \A c \in Callers[parent[v]] \ todo : Connects(Exchanged(v, c) \cup analyzeFunction[parent[c]])
  /\ pc \in {"globals", "globalUses"} =>
       /\ op[v] = "global" /\ "safe_macro" \notin flags[v] /\ "llvm_used" \notin flags[v]
       /\ "external" \in flags[v] => Global_Unique_GV_Map(v) # {v}
       /\ \A g \in Global_Unique_GV_Map(v) \ todo : DeclarationFollowed(g, v) \/ (pc = "globalUses" /\ g = call)
  /\ pc = "globalUses" => \E g \in Value : FollowingDeclaration(g, v)

\* The value is followed, or was inserted by HandleFunc as an argument it bound.
Accounted(v) == Followed(v) \/ (start \in Function /\ v \in HandedDown(start))

\* interCaseHandler is at the users of the value, or at the case of what it is.
AtUsers == pc = "users" \/ (pc = "bind" /\ back = "users")
AtCase == pc \in {"callers", "globals", "globalUses"} \/ (pc = "bind" /\ back = "pop")

\* What has been followed so far, while the analysis has not given up.
Progress ==
  /\ AtStart => \E f \in Value : FollowingStart(f)
  /\ ~AtStart /\ start \in Function => \A u \in startUses[start] : StartUseFollowed(u)
  /\ \A v \in Analyzed : Accounted(v) \/ (v = cv /\ pc \notin {"pop", "done"})
  /\ AtUsers => \E v \in Value : FollowingUsers(v)
  /\ AtCase => \E v \in Value : FollowingCase(v)
  /\ pc = "bind" => \E c \in Value : FollowingCall(c)

Inv == TypeOK /\ Shape /\ (success => Progress)

-----------------------------------------------------------------------------
(* What is followed stays followed.                                          *)

\* Nothing that was connected or listed is lost.
Kept == Within(clusters, clusters') /\ \A v : Listed(v) => Listed(v)'

LEMMA StillConnected == ASSUME Kept PROVE \A P : Connects(P) => Connects(P)'
<1> SUFFICES ASSUME NEW P, Connects(P) PROVE Connects(P)'
  OBVIOUS
<1>1. Within(P, clusters) /\ Within(clusters, clusters')
  BY DEF Connects, Within, Kept
<1>2. Within(P, clusters')
  BY <1>1, WithinTransitive
<1> QED BY <1>2 DEF Connects, Within

\* A step that keeps what is connected and listed keeps what is followed.
LEMMA StillFollowed ==
  ASSUME Kept
  PROVE  /\ \A c : CallFollowed(c) => CallFollowed(c)'
         /\ \A u : GlobalUseFollowed(u) => GlobalUseFollowed(u)'
         /\ \A u : UserFollowed(u) => UserFollowed(u)'
         /\ \A u : StartUseFollowed(u) => StartUseFollowed(u)'
         /\ \A g, v : InitializerFollowed(g, v) => InitializerFollowed(g, v)'
         /\ \A g, v : DeclarationFollowed(g, v) => DeclarationFollowed(g, v)'
         /\ \A v : Followed(v) => Followed(v)'
<1>1. \A c : CallFollowed(c) => CallFollowed(c)'
  BY StillConnected DEF CallFollowed
<1>2. \A u : GlobalUseFollowed(u) => GlobalUseFollowed(u)'
  BY StillConnected DEF GlobalUseFollowed, Kept
<1>3. \A u : UserFollowed(u) => UserFollowed(u)'
  BY <1>1 DEF UserFollowed
<1>4. \A u : StartUseFollowed(u) => StartUseFollowed(u)'
  BY <1>1, <1>2 DEF StartUseFollowed
<1>5. \A g, v : InitializerFollowed(g, v) => InitializerFollowed(g, v)'
  <2> SUFFICES ASSUME NEW g, NEW v, InitializerFollowed(g, v) PROVE InitializerFollowed(g, v)'
    OBVIOUS
  <2> DEFINE P == {{g, v}} \cup IF args[g] = <<>> THEN {} ELSE analyzeGlobalInitializer(g)
  <2>1. Connects(P) /\ \A u \in Named(g) : op[u] = "global" => Listed(u)
    BY DEF InitializerFollowed
  <2> HIDE DEF P
  <2>2. Connects(P)'
    BY <2>1, StillConnected
  <2>3. \A u \in Named(g) : op[u] = "global" => Listed(u)'
    BY <2>1 DEF Kept
  <2> QED BY <2>2, <2>3 DEF InitializerFollowed, P
<1>6. \A g, v : DeclarationFollowed(g, v) => DeclarationFollowed(g, v)'
  BY <1>2, <1>5 DEF DeclarationFollowed
<1>7. \A v : GlobalFollowed(v) => GlobalFollowed(v)'
  BY <1>2, <1>5 DEF GlobalFollowed
<1>8. \A v : CallersFollowed(v) => CallersFollowed(v)'
  BY StillConnected DEF CallersFollowed
<1>9. \A v : CaseFollowed(v) => CaseFollowed(v)'
  BY <1>1, <1>7, <1>8 DEF CaseFollowed
<1>10. \A v : Followed(v) => Followed(v)'
  BY <1>3, <1>9 DEF Followed
<1> QED BY <1>1, <1>2, <1>3, <1>4, <1>5, <1>6, <1>10

\* Extending the graph connects the pairs, and loses nothing connected or listed.
LEMMA ExtendFacts ==
  ASSUME TypeOK
  PROVE  \A P \in Pairs : \A subject, covered : Extend(P, subject, covered) =>
           /\ clusters' \in Pairs /\ LV' \in List
           /\ Within(clusters, clusters') /\ Within(P, clusters')
           /\ UNION Range(LV) \subseteq UNION Range(LV')
<1> SUFFICES ASSUME NEW P \in Pairs, NEW subject, NEW covered, Extend(P, subject, covered)
             PROVE  /\ clusters' \in Pairs /\ LV' \in List
                    /\ Within(clusters, clusters') /\ Within(P, clusters')
                    /\ UNION Range(LV) \subseteq UNION Range(LV')
  OBVIOUS
<1>1. clusters' = Connected(clusters, P) /\ clusters \in SUBSET SUBSET Value /\ P \in SUBSET SUBSET Value
  BY DEF Extend, TypeOK, Pairs
<1>2. clusters' \in Pairs /\ Within(clusters, clusters') /\ Within(P, clusters')
  BY <1>1, ConnectedFacts DEF Pairs
<1> DEFINE values == getClusterValues(subject, clusters') \ (covered \cup UNION Range(LV))
<1>3. values \in SUBSET Value
  BY <1>2, ClusterType
<1>4. LV \in List /\ LV' = Push(LV, values)
  BY DEF Extend, TypeOK, List
<1> HIDE DEF values
<1> QED BY <1>2, <1>3, <1>4, PushFacts

\* The same of the places that connect pairs and push nothing.
LEMMA ConnectFacts ==
  ASSUME TypeOK
  PROVE  \A P \in Pairs : clusters' = Connected(clusters, P) =>
           /\ clusters' \in Pairs /\ Within(clusters, clusters') /\ Within(P, clusters')
<1> SUFFICES ASSUME NEW P \in Pairs, clusters' = Connected(clusters, P)
             PROVE  clusters' \in Pairs /\ Within(clusters, clusters') /\ Within(P, clusters')
  OBVIOUS
<1>1. clusters \in SUBSET SUBSET Value /\ P \in SUBSET SUBSET Value
  BY DEF TypeOK, Pairs
<1> QED BY <1>1, ConnectedFacts DEF Pairs

\* What UsesThrough follows is closed, and the least that is.
LEMMA UsesFacts ==
  \A kinds : \A v \in Value :
    /\ UsesThrough(kinds)[v] \in SUBSET Value /\ users[v] \subseteq UsesThrough(kinds)[v]
    /\ \A u \in UsesThrough(kinds)[v] : op[u] \in kinds => users[u] \subseteq UsesThrough(kinds)[v]
    /\ \A G : /\ users[v] \subseteq G
              /\ \A u \in G \cap Value : op[u] \in kinds => users[u] \subseteq G
              => UsesThrough(kinds)[v] \subseteq G
<1> SUFFICES ASSUME NEW kinds, NEW v \in Value
             PROVE  /\ UsesThrough(kinds)[v] \in SUBSET Value /\ users[v] \subseteq UsesThrough(kinds)[v]
                    /\ \A u \in UsesThrough(kinds)[v] : op[u] \in kinds => users[u] \subseteq UsesThrough(kinds)[v]
                    /\ \A G : /\ users[v] \subseteq G
                              /\ \A u \in G \cap Value : op[u] \in kinds => users[u] \subseteq G
                              => UsesThrough(kinds)[v] \subseteq G
  OBVIOUS
<1> DEFINE next == [u \in Value |-> IF op[u] \in kinds THEN users[u] ELSE {}]
           S == users[v]
<1>1. next \in [Value -> SUBSET Value] /\ S \in SUBSET Value
  BY UsersType
<1>2. \A u \in Value : next[u] = IF op[u] \in kinds THEN users[u] ELSE {}
  OBVIOUS
<1>3. UsesThrough(kinds)[v] = Reached(S, next)
  BY DEF UsesThrough
<1> HIDE DEF next, S
<1> DEFINE C == Reached(S, next)
<1>4. /\ C \in SUBSET Value /\ S \subseteq C
      /\ \A u \in C : next[u] \subseteq C
      /\ \A G : S \subseteq G /\ (\A u \in G \cap Value : next[u] \subseteq G) => C \subseteq G
  BY <1>1, ReachedClosed
<1> HIDE DEF C
<1>5. \A u \in C : op[u] \in kinds => users[u] \subseteq C
  BY <1>2, <1>4
<1>6. \A G : S \subseteq G /\ (\A u \in G \cap Value : op[u] \in kinds => users[u] \subseteq G) => C \subseteq G
  BY <1>2, <1>4
<1> QED BY <1>3, <1>4, <1>5, <1>6 DEF C, S

-----------------------------------------------------------------------------
(* The types, and what the program counter says.                             *)

TS == TypeOK /\ Shape

LEMMA TypeFacts ==
  ASSUME TypeOK
  PROVE  LV \in List /\ clusters \in Pairs
BY DEF TypeOK, List, Pairs

LEMMA CallSetsType ==
  /\ \A c \in Call : c \in Value /\ Callees[c] \in SUBSET Function
  /\ \A f \in Function : f \in Value /\ Callers[f] \in SUBSET Call
  /\ Function \subseteq Value /\ Call \subseteq Value /\ Call \cap Function = {}
BY ProgramAssumption DEF Call, Function, Calls

LEMMA InitTS == Init => TS
<1> SUFFICES ASSUME Init PROVE TypeOK /\ Shape
  BY DEF TS
<1> USE DEF Init, Unstarted
<1>1. start \in Starts /\ limit \in Limits
  BY DEF StartICall, StartFunc
<1>2. {} \in Pairs /\ <<>> \in List
  BY DEF Pairs, List
<1>3. CASE StartICall
  <2>1. start \in Call /\ parent[start] \in Function \cup {None}
    BY <1>3, ProgramAssumption DEF StartICall, Call
  <2>2. analyzeFunction[parent[start]] \in Pairs
    BY <2>1, FunctionType
  <2>3. clusters \in Pairs
    <3>1. {} \in SUBSET SUBSET Value /\ analyzeFunction[parent[start]] \in SUBSET SUBSET Value
      BY <2>2 DEF Pairs
    <3> QED BY <1>3, <3>1, ConnectedFacts DEF StartICall, Pairs
  <2>4. LV \in List
    BY <1>2, <1>3, <2>3, ClusterType, PushFacts DEF StartICall
  <2> QED BY <1>1, <1>3, <2>3, <2>4 DEF StartICall, TypeOK, Shape, Pairs, List, AtStart
<1>4. CASE StartFunc
  <2>1. start \in Function /\ start \in Value /\ users[start] \in SUBSET Value
    BY <1>4, UsersType DEF StartFunc, Function
  <2> QED BY <1>1, <1>2, <1>4, <2>1 DEF StartFunc, TypeOK, Shape, Pairs, List, AtStart
<1> QED BY <1>3, <1>4

LEMMA ThroughType == ASSUME TypeOK PROVE \A u : Through(u) => GU' \subseteq Value /\ LU' \subseteq Value
BY UsersType DEF Through, TypeOK
LEMMA VisitType == ASSUME TypeOK PROVE \A u : Visit(u) => GU' \subseteq Value /\ LU' \subseteq Value
BY DEF Visit, TypeOK

\* One lemma for each part of the next-state relation.
LEMMA HandleFuncTS == ASSUME TS, HandleFunc PROVE TS'
<1> USE DEF TS
<1>1. ASSUME NEW u \in LU, FuncCall(u) PROVE TypeOK' /\ Shape'
  <2>1. u \in Value /\ parent[u] \in Function \cup {None}
    BY ProgramAssumption DEF TypeOK
  <2>2. clusters' \in Pairs
    BY <1>1, <2>1, FunctionType, ConnectFacts DEF FuncCall
  <2>3. GU' \subseteq Value /\ LU' \subseteq Value
    BY <1>1, VisitType DEF FuncCall
  <2>4. u \in Call /\ Callees[u] \in SUBSET Function
    BY <1>1, CallSetsType DEF FuncCall
  <2>5. TypeOK'
    BY <1>1, <2>2, <2>3, <2>4, CallSetsType DEF TypeOK, FuncCall, InFunc, Pairs
  <2>6. Shape'
    BY <1>1, <2>4 DEF Shape, FuncCall, InFunc, AtStart
  <2> QED BY <2>5, <2>6
<1>2. ASSUME NEW u \in LU, FuncInst(u) PROVE TypeOK' /\ Shape'
  <2>1. u \in Value /\ parent[u] \in Function \cup {None}
    BY ProgramAssumption DEF TypeOK
  <2>2. clusters' \in Pairs
    BY <1>2, <2>1, FunctionType, ConnectFacts DEF FuncInst
  <2>3. GU' \subseteq Value /\ LU' \subseteq Value
    BY <1>2, VisitType DEF FuncInst
  <2>5. TypeOK'
    BY <1>2, <2>2, <2>3 DEF TypeOK, FuncInst, InFunc, Pairs
  <2>6. Shape'
    BY <1>2 DEF Shape, FuncInst, InFunc, AtStart
  <2> QED BY <2>5, <2>6
<1>3. ASSUME NEW u \in LU, FuncConstant(u) PROVE TypeOK' /\ Shape'
  <2>1. GU' \subseteq Value /\ LU' \subseteq Value
    BY <1>3, ThroughType DEF FuncConstant
  <2> QED BY <1>3, <2>1 DEF TypeOK, FuncConstant, InFunc, Shape, AtStart
<1>4. ASSUME NEW u \in LU, FuncGlobal(u) PROVE TypeOK' /\ Shape'
  <2>1. GU' \subseteq Value /\ LU' \subseteq Value
    BY <1>4, VisitType DEF FuncGlobal
  <2>2. LV' \in List
    <3>1. {u} \in SUBSET Value
      BY DEF TypeOK
    <3> QED BY <1>4, <3>1, TypeFacts, PushFacts DEF FuncGlobal
  <2> QED BY <1>4, <2>1, <2>2 DEF TypeOK, FuncGlobal, InFunc, Shape, AtStart, List
<1>5. ASSUME FuncUsesDone PROVE TypeOK' /\ Shape'
  <2>1. LV' \in List
    <3>1. getClusterValues(start, clusters) \ {start} \in SUBSET Value
      BY TypeFacts, ClusterType
    <3> QED BY <1>5, <3>1, TypeFacts, PushFacts DEF FuncUsesDone
  <2>2. /\ success' \in BOOLEAN
        /\ failreason' \in {"none", "binary_operation", "llvm_used", "exceed_max",
                            "inline_asm", "init_in_asm", "strip_invariant_group"}
        /\ pc' \in {"pop", "done"}
    BY <1>5, Zenon DEF FuncUsesDone, Fail, ExceedReason, TypeOK
  <2> QED BY <1>5, <2>1, <2>2 DEF TypeOK, FuncUsesDone, Shape, AtStart, List
<1> QED BY <1>1, <1>2, <1>3, <1>4, <1>5 DEF HandleFunc

\* The values of failreason.
Reasons == {"none", "binary_operation", "llvm_used", "exceed_max",
            "inline_asm", "init_in_asm", "strip_invariant_group"}

LEMMA PopValueTS == ASSUME TS, PopValue PROVE TS'
<1> USE DEF TS
<1>1. ASSUME NEW v \in Value, Pop(v) PROVE LV' \in List
  BY <1>1, TypeFacts, RestFacts DEF Pop
<1>2. ASSUME NEW v \in Value, PopAnalyzed(v) PROVE TypeOK' /\ Shape'
  <2>1. LV' \in List
    BY <1>1, <1>2 DEF PopAnalyzed
  <2> QED BY <1>2, <2>1 DEF PopAnalyzed, Pop, TypeOK, Shape, AtStart, List
<1>3. ASSUME NEW v \in Value, GiveUp(v) PROVE TypeOK' /\ Shape'
  <2>1. LV' \in List
    BY <1>1, <1>3 DEF GiveUp, Take
  <2>2. success' \in BOOLEAN /\ failreason' \in Reasons
    BY <1>3, Zenon DEF GiveUp, Fail, ExceedReason, TypeOK, Reasons
  <2> QED BY <1>3, <2>1, <2>2 DEF GiveUp, Take, Pop, TypeOK, Shape, AtStart, List, Reasons
<1>4. ASSUME NEW v \in Value, TakeLeaf(v) PROVE TypeOK' /\ Shape'
  <2>1. LV' \in List
    BY <1>1, <1>4 DEF TakeLeaf, Take
  <2> QED BY <1>4, <2>1 DEF TakeLeaf, Take, Pop, TypeOK, Shape, AtStart, List
<1>5. ASSUME NEW v \in Value, TakeBinary(v) PROVE TypeOK' /\ Shape'
  <2>1. LV' \in List
    BY <1>1, <1>5 DEF TakeBinary, Take
  <2> QED BY <1>5, <2>1 DEF TakeBinary, Take, Pop, Fail, TypeOK, Shape, AtStart, List
<1>6. ASSUME NEW v \in Value, TakeValue(v) PROVE TypeOK' /\ Shape'
  <2>1. LV' \in List
    BY <1>1, <1>6 DEF TakeValue, Take
  <2>2. LU' \subseteq Value
    BY <1>6, UsersType DEF TakeValue
  <2> QED BY <1>6, <2>1, <2>2 DEF TakeValue, Take, Pop, TypeOK, Shape, AtStart, List
<1>7. ASSUME Finish PROVE TypeOK' /\ Shape'
  BY <1>7 DEF Finish, TypeOK, Shape, AtStart, walk
<1> QED BY <1>2, <1>3, <1>4, <1>5, <1>6, <1>7 DEF PopValue

LEMMA UserTS == ASSUME TS, User PROVE TS'
<1> USE DEF TS
<1>1. ASSUME NEW u \in LU, UserStops(u) PROVE TypeOK' /\ Shape'
  <2>1. success' \in BOOLEAN /\ failreason' \in Reasons
    BY <1>1, Zenon DEF UserStops, Fail, TypeOK, Reasons
  <2> QED BY <1>1, <2>1 DEF UserStops, InUsers, TypeOK, Shape, AtStart, Reasons
<1>2. ASSUME NEW u \in LU, UserConstant(u) PROVE TypeOK' /\ Shape'
  <2>1. GU' \subseteq Value /\ LU' \subseteq Value
    BY <1>2, ThroughType DEF UserConstant
  <2> QED BY <1>2, <2>1 DEF UserConstant, InUsers, TypeOK, Shape, AtStart
<1>3. ASSUME NEW u \in LU, UserCall(u) PROVE TypeOK' /\ Shape'
  <2>1. GU' \subseteq Value /\ LU' \subseteq Value
    BY <1>3, VisitType DEF UserCall
  <2>2. u \in Call /\ Callees[u] \in SUBSET Function
    BY <1>3, CallSetsType DEF UserCall
  <2> QED BY <1>3, <2>1, <2>2, CallSetsType DEF UserCall, InUsers, TypeOK, Shape, AtStart
<1>4. ASSUME NEW u \in LU, UserOther(u) PROVE TypeOK' /\ Shape'
  <2>1. GU' \subseteq Value /\ LU' \subseteq Value
    BY <1>4, VisitType DEF UserOther
  <2> QED BY <1>4, <2>1 DEF UserOther, InUsers, TypeOK, Shape, AtStart
<1> QED BY <1>1, <1>2, <1>3, <1>4 DEF User

LEMMA CheckType ==
  ASSUME TypeOK
  PROVE  \A reason \in Reasons, rest \in SUBSET Value : CheckSize(reason, rest) =>
           /\ success' \in BOOLEAN /\ failreason' \in Reasons
           /\ todo' \subseteq rest
<1> SUFFICES ASSUME NEW reason \in Reasons, NEW rest \in SUBSET Value, CheckSize(reason, rest)
             PROVE  success' \in BOOLEAN /\ failreason' \in Reasons /\ todo' \subseteq rest
  OBVIOUS
<1>1. success' \in BOOLEAN /\ failreason' \in Reasons
  BY Zenon DEF CheckSize, Fail, TypeOK, Reasons
<1>2. todo' \subseteq rest
  BY DEF CheckSize
<1> QED BY <1>1, <1>2

LEMMA BindTS == ASSUME TS, BindCallees PROVE TS'
<1> USE DEF TS
<1>1. ASSUME NEW f \in todo, Bind(f) PROVE TypeOK' /\ Shape'
  <2>1. call \in Call /\ call \in Value /\ f \in Function
    BY <1>1, CallSetsType DEF Bind, Shape
  <2>2. Bound(f, call) \in Pairs /\ Range(params[f]) \in SUBSET Value
    BY <2>1, BoundType
  <2>3. clusters' \in Pairs /\ LV' \in List
    BY <1>1, <2>2, ExtendFacts DEF Bind
  <2>4. success' \in BOOLEAN /\ failreason' \in Reasons /\ todo' \subseteq todo
    <3>1. (IF back = "funcUses" THEN failreason ELSE "exceed_max") \in Reasons /\ todo \ {f} \in SUBSET Value
      BY DEF TypeOK, Reasons
    <3>2. todo' \subseteq todo \ {f} /\ success' \in BOOLEAN /\ failreason' \in Reasons
      BY <1>1, <3>1, CheckType DEF Bind
    <3> QED BY <3>2
  <2>5. TypeOK'
    BY <1>1, <2>2, <2>3, <2>4 DEF Bind, TypeOK, Pairs, List, Reasons
  <2>6. Shape'
    BY <1>1, <2>4 DEF Bind, Shape, AtStart
  <2> QED BY <2>5, <2>6
<1>2. ASSUME BindDone PROVE TypeOK' /\ Shape'
  BY <1>2, CallSetsType DEF BindDone, TypeOK, Shape, AtStart, walk
<1> QED BY <1>1, <1>2 DEF BindCallees

LEMMA CaseTS == ASSUME TS, Case PROVE TS'
<1> USE DEF TS
<1>1. ASSUME GlobalUntracked \/ CallFails PROVE TypeOK' /\ Shape'
  <2>1. success' \in BOOLEAN /\ failreason' \in Reasons
    BY <1>1, Zenon DEF GlobalUntracked, CallFails, Fail, TypeOK, Reasons
  <2> QED BY <1>1, <2>1 DEF GlobalUntracked, CallFails, UsersDone, TypeOK, Shape, AtStart, Reasons
<1>2. ASSUME GlobalCase PROVE TypeOK' /\ Shape'
  <2>1. todo' \subseteq Value
    BY <1>2 DEF GlobalCase, Global_Unique_GV_Map
  <2> QED BY <1>2, <2>1 DEF GlobalCase, UsersDone, TypeOK, Shape, AtStart
<1>3. ASSUME CallCase PROVE TypeOK' /\ Shape'
  <2>1. cv \in Value /\ cv \in Call
    BY <1>3 DEF CallCase, UsersDone, Shape, Call, Calls
  <2>2. Callees[cv] \in SUBSET Function
    BY <2>1, CallSetsType
  <2> QED BY <1>3, <2>1, <2>2, CallSetsType DEF CallCase, UsersDone, TypeOK, Shape, AtStart
<1>4. ASSUME CallersCase PROVE TypeOK' /\ Shape'
  <2>1. cv \in Value /\ op[cv] \in {"argument", "return"}
    BY <1>4 DEF CallersCase, UsersDone, Shape
  <2>2. Callers[parent[cv]] \in SUBSET Call
    BY <2>1, ExchangedType, CallSetsType
  <2> QED BY <1>4, <2>1, <2>2, CallSetsType DEF CallersCase, UsersDone, TypeOK, Shape, AtStart
<1>5. ASSUME NoCase PROVE TypeOK' /\ Shape'
  BY <1>5 DEF NoCase, UsersDone, TypeOK, Shape, AtStart
<1> QED BY <1>1, <1>2, <1>3, <1>4, <1>5 DEF Case

LEMMA CallersTS == ASSUME TS, CallersOrGlobals PROVE TS'
<1> USE DEF TS
<1>0. "exceed_max" \in Reasons
  BY DEF Reasons
<1>1. ASSUME NEW c \in todo, Caller(c) PROVE TypeOK' /\ Shape'
  <2>1. c \in Call /\ c \in Value /\ cv \in Value /\ op[cv] \in {"argument", "return"}
    BY <1>1, CallSetsType DEF Caller, Shape
  <2>2. Exchanged(cv, c) \cup analyzeFunction[parent[c]] \in Pairs
    <3>1. Exchanged(cv, c) \in Pairs /\ parent[c] \in Function \cup {None}
      BY <2>1, ExchangedType, ProgramAssumption
    <3>2. analyzeFunction[parent[c]] \in Pairs
      BY <3>1, FunctionType
    <3> QED BY <3>1, <3>2 DEF Pairs
  <2>3. clusters' \in Pairs /\ LV' \in List
    BY <1>1, <2>2, ExtendFacts DEF Caller
  <2>4. success' \in BOOLEAN /\ failreason' \in Reasons /\ todo' \subseteq todo
    <3>1. todo \ {c} \in SUBSET Value
      BY DEF TypeOK
    <3>2. todo' \subseteq todo \ {c} /\ success' \in BOOLEAN /\ failreason' \in Reasons
      BY <1>0, <1>1, <3>1, CheckType DEF Caller
    <3> QED BY <3>2
  <2>5. TypeOK'
    BY <1>1, <2>3, <2>4 DEF Caller, TypeOK, Pairs, List, Reasons
  <2>6. Shape'
    BY <1>1, <2>4 DEF Caller, Shape, AtStart
  <2> QED BY <2>5, <2>6
<1>2. ASSUME NEW g \in todo, Global(g) PROVE TypeOK' /\ Shape'
  <2>1. g \in Value /\ cv \in Value /\ users[g] \in SUBSET Value
    BY <1>2, UsersType DEF Global, Shape, TypeOK
  <2>2. /\ {{g, cv}} \cup (IF args[g] = <<>> THEN {} ELSE analyzeGlobalInitializer(g)) \in Pairs
        /\ {v \in Named(g) : op[v] = "global"} \in SUBSET Value
    <3>1. analyzeGlobalInitializer(g) \in Pairs /\ Named(g) \in SUBSET Value /\ {{g, cv}} \in Pairs
      BY <2>1, InitializerType DEF Pairs
    <3> QED BY <3>1 DEF Pairs
  <2>3. clusters' \in Pairs
    BY <1>2, <2>2, ConnectFacts DEF Global
  <2>4. LV' \in List
    BY <1>2, <2>2, TypeFacts, PushFacts DEF Global
  <2>5. TypeOK'
    BY <1>2, <2>1, <2>3, <2>4 DEF Global, TypeOK, Pairs, List
  <2>6. Shape'
    BY <1>2, <2>1 DEF Global, Shape, AtStart
  <2> QED BY <2>5, <2>6
<1>3. ASSUME NEW u \in LU, GlobalInst(u) PROVE TypeOK' /\ Shape'
  <2>1. u \in Value /\ parent[u] \in Function \cup {None}
    BY ProgramAssumption DEF TypeOK
  <2>2. analyzeFunction[parent[u]] \in Pairs
    BY <2>1, FunctionType
  <2>3. clusters' \in Pairs /\ LV' \in List
    BY <1>3, <2>2, ExtendFacts DEF GlobalInst
  <2>4. success' \in BOOLEAN /\ failreason' \in Reasons
    BY <1>3, Zenon DEF GlobalInst, Fail, TypeOK, Reasons
  <2>5. LU' \subseteq Value /\ GU' \subseteq Value
    BY <1>3, <2>1 DEF GlobalInst, TypeOK
  <2>6. TypeOK'
    BY <1>3, <2>3, <2>4, <2>5 DEF GlobalInst, TypeOK, Pairs, List, Reasons
  <2>7. Shape'
    BY <1>3 DEF GlobalInst, Shape, AtStart
  <2> QED BY <2>6, <2>7
<1>4. ASSUME NEW u \in LU, GlobalConstant(u) PROVE TypeOK' /\ Shape'
  <2>1. GU' \subseteq Value /\ LU' \subseteq Value
    BY <1>4, ThroughType DEF GlobalConstant
  <2> QED BY <1>4, <2>1 DEF GlobalConstant, TypeOK, Shape, AtStart
<1>5. ASSUME NEW u \in LU, GlobalOther(u) PROVE TypeOK' /\ Shape'
  <2>1. GU' \subseteq Value /\ LU' \subseteq Value
    BY <1>5, VisitType DEF GlobalOther
  <2>2. LV' \in List
    <3>1. {u} \in SUBSET Value
      BY DEF TypeOK
    <3> QED BY <1>5, <3>1, TypeFacts, PushFacts DEF GlobalOther
  <2> QED BY <1>5, <2>1, <2>2 DEF GlobalOther, TypeOK, Shape, AtStart, List
<1>6. ASSUME GlobalDone PROVE TypeOK' /\ Shape'
  <2>1. clusters' \in Pairs /\ LV' \in List
    <3>1. {} \in Pairs
      BY DEF Pairs
    <3> QED BY <1>6, <3>1, ExtendFacts DEF GlobalDone
  <2>2. success' \in BOOLEAN /\ failreason' \in Reasons /\ todo' \subseteq todo
    <3>1. todo \in SUBSET Value
      BY DEF TypeOK
    <3> QED BY <1>0, <1>6, <3>1, CheckType DEF GlobalDone
  <2>3. skip' \subseteq Value
    BY <1>6 DEF GlobalDone, TypeOK, Shape
  <2>4. TypeOK'
    BY <1>6, <2>1, <2>2, <2>3 DEF GlobalDone, TypeOK, Pairs, List, Reasons
  <2>5. Shape'
    BY <1>6 DEF GlobalDone, Shape, AtStart
  <2> QED BY <2>4, <2>5
<1>7. ASSUME LoopDone PROVE TypeOK' /\ Shape'
  BY <1>7 DEF LoopDone, TypeOK, Shape, AtStart, walk
<1> QED BY <1>1, <1>2, <1>3, <1>4, <1>5, <1>6, <1>7 DEF CallersOrGlobals

LEMMA StutterTS == ASSUME TS, UNCHANGED vars PROVE TS'
BY DEF TS, TypeOK, Shape, AtStart, vars, walk

LEMMA NextTS == ASSUME TS, [Next]_vars PROVE TS'
BY HandleFuncTS, PopValueTS, UserTS, BindTS, CaseTS, CallersTS, StutterTS DEF Next, interCaseHandler

\* The worklist's variables keep their types in every program (HandleFunc, HandleICall,
\* interCaseHandler).
THEOREM TypeCorrect == Spec => []TypeOK
<1>1. TS => TypeOK
  BY DEF TS
<1> QED BY <1>1, InitTS, NextTS, PTL DEF Spec

-----------------------------------------------------------------------------
(* What a step leaves of the progress made before it.                        *)

\* What is accounted for stays so while the analysis of one start goes on.
LEMMA FrameFacts ==
  ASSUME Kept, start' = start
  PROVE  /\ \A v : Accounted(v) => Accounted(v)'
         /\ (start \in Function => \A u \in startUses[start] : StartUseFollowed(u))
              => (start \in Function => \A u \in startUses[start] : StartUseFollowed(u))'
<1>1. \A v : Accounted(v) => Accounted(v)'
  BY StillFollowed DEF Accounted
<1>2. ASSUME start \in Function => \A u \in startUses[start] : StartUseFollowed(u), start' \in Function,
             NEW u \in startUses[start']
      PROVE  StartUseFollowed(u)'
  <2>1. StartUseFollowed(u)
    BY <1>2
  <2> QED BY <2>1, StillFollowed
<1> QED BY <1>1, <1>2

\* A step of a loop over users keeps them visited or waiting.
LEMMA VisitingFacts ==
  \A first, kinds : Visiting(first, kinds) =>
    /\ \A u : Through(u) => Visiting(first, kinds)'
    /\ \A u : Visit(u) /\ (op[u] \in kinds => users[u] \subseteq first) => Visiting(first, kinds)'
<1> SUFFICES ASSUME NEW first, NEW kinds, Visiting(first, kinds)
             PROVE  /\ \A u : Through(u) => Visiting(first, kinds)'
                    /\ \A u : Visit(u) /\ (op[u] \in kinds => users[u] \subseteq first) => Visiting(first, kinds)'
  OBVIOUS
<1>1. ASSUME NEW u, Through(u) PROVE Visiting(first, kinds)'
  <2>1. GU' \cup LU' = GU \cup LU \cup users[u] /\ GU' = GU \cup {u}
    BY <1>1 DEF Through
  <2> QED BY <2>1 DEF Visiting
<1>2. ASSUME NEW u, Visit(u), op[u] \in kinds => users[u] \subseteq first PROVE Visiting(first, kinds)'
  <2>1. GU' \cup LU' = GU \cup LU /\ GU' = GU \cup {u}
    BY <1>2 DEF Visit
  <2> QED BY <1>2, <2>1 DEF Visiting
<1> QED BY <1>1, <1>2

\* When none is waiting, every user through the constants has been visited.
LEMMA VisitedAll ==
  ASSUME LU = {}
  PROVE  \A v \in Value : \A kinds : Visiting(users[v], kinds) => UsesThrough(kinds)[v] \subseteq GU
<1> SUFFICES ASSUME NEW v \in Value, NEW kinds, Visiting(users[v], kinds)
             PROVE  UsesThrough(kinds)[v] \subseteq GU
  OBVIOUS
<1>1. users[v] \subseteq GU /\ \A u \in GU \cap Value : op[u] \in kinds => users[u] \subseteq GU
  BY DEF Visiting
<1> QED BY <1>1, UsesFacts

-----------------------------------------------------------------------------
\* What each stage has done is kept by a step that only connects and lists more.
LEMMA StartKept ==
  ASSUME Kept, start' = start, pc' = pc, call' = call, GU' = GU, LU' = LU, Analyzed' = Analyzed
  PROVE  \A f : FollowingStart(f) /\ skip' \subseteq HandedDown(f) => FollowingStart(f)'
<1> SUFFICES ASSUME NEW f, FollowingStart(f), skip' \subseteq HandedDown(f) PROVE FollowingStart(f)'
  OBVIOUS
<1>1. Visiting(users[f], {"operator", "aggregate", "alias"})'
  BY DEF FollowingStart, Visiting
<1>2. \A u \in GU : /\ GlobalUseFollowed(u)'
                    /\ u \in Call => CallFollowed(u)' \/ (pc = "bind" /\ u = call)
  BY StillFollowed DEF FollowingStart
<1> QED BY <1>1, <1>2 DEF FollowingStart

LEMMA UsersKept ==
  ASSUME Kept, cv' = cv, pc' = pc, call' = call, GU' = GU, LU' = LU
  PROVE  \A v : FollowingUsers(v) => FollowingUsers(v)'
<1> SUFFICES ASSUME NEW v, FollowingUsers(v) PROVE FollowingUsers(v)'
  OBVIOUS
<1>1. Visiting(users[v], Operators)'
  BY DEF FollowingUsers, Visiting
<1>2. \A u \in GU \ {v} : /\ op[u] \notin {"binary", "asm"}
                          /\ u \in Call => CallFollowed(u)' \/ (pc = "bind" /\ u = call)
  BY StillFollowed DEF FollowingUsers
<1> QED BY <1>1, <1>2 DEF FollowingUsers

LEMMA CaseKept ==
  ASSUME Kept, cv' = cv, pc' = pc, call' = call, pc = "bind" \/ todo' = todo
  PROVE  \A v : FollowingCase(v) /\ (pc = "globalUses" => \E g \in Value : FollowingDeclaration(g, v)')
                  => FollowingCase(v)'
<1> SUFFICES ASSUME NEW v, FollowingCase(v), pc = "globalUses" => \E g \in Value : FollowingDeclaration(g, v)'
             PROVE  FollowingCase(v)'
  OBVIOUS
<1>1. \A u \in valueUses[v] \ {v} : UserFollowed(u)'
  BY StillFollowed DEF FollowingCase
<1>2. pc = "callers" => \A c \in Callers[parent[v]] \ todo : Connects(Exchanged(v, c) \cup analyzeFunction[parent[c]])'
  BY StillConnected DEF FollowingCase
<1>3. pc \in {"globals", "globalUses"} =>
        \A g \in Global_Unique_GV_Map(v) \ todo : DeclarationFollowed(g, v)' \/ (pc = "globalUses" /\ g = call)
  BY StillFollowed DEF FollowingCase
<1> QED BY <1>1, <1>2, <1>3 DEF FollowingCase

LEMMA DeclarationKept ==
  ASSUME Kept, call' = call, NEW g, NEW v, FollowingDeclaration(g, v),
         Visiting(users[g], {"operator", "aggregate"})', \A u \in GU' \ GU : GlobalUseFollowed(u)'
  PROVE  FollowingDeclaration(g, v)'
<1>1. InitializerFollowed(g, v)' /\ \A u \in GU : GlobalUseFollowed(u)'
  BY StillFollowed DEF FollowingDeclaration
<1> QED BY <1>1 DEF FollowingDeclaration

LEMMA CallKept ==
  ASSUME Kept, call' = call, todo' \subseteq todo
  PROVE  \A c : FollowingCall(c) /\ (\A f \in todo \ todo' : Connects(Bound(f, c))') => FollowingCall(c)'
<1> SUFFICES ASSUME NEW c, FollowingCall(c), \A f \in todo \ todo' : Connects(Bound(f, c))' PROVE FollowingCall(c)'
  OBVIOUS
<1>1. \A f \in Callees[c] \ todo : Connects(Bound(f, c))'
  BY StillConnected DEF FollowingCall
<1>2. \A f \in Callees[c] \ todo' : Connects(Bound(f, c))'
  BY <1>1
<1> QED BY <1>2 DEF FollowingCall

-----------------------------------------------------------------------------
(* The steps of HandleFunc and of the loop over AnalysisList.                *)

LEMMA InitProgress == ASSUME Init PROVE Progress
<1> USE DEF Init, Unstarted
<1>1. CASE StartICall
  <2>1. start \in Call /\ start \notin Function
    BY <1>1, CallSetsType DEF StartICall
  <2> QED BY <1>1, <2>1 DEF StartICall, Progress, AtStart, AtUsers, AtCase
<1>2. CASE StartFunc
  <2>1. start \in Function /\ start \in Value
    BY <1>2, CallSetsType DEF StartFunc
  <2>2. LU = users[start] /\ GU = {} /\ pc = "funcUses"
    BY <1>2 DEF StartFunc
  <2>3. Visiting(users[start], {"operator", "aggregate", "alias"})
    BY <2>2 DEF Visiting
  <2>4. GU \cup LU \subseteq startUses[start]
    BY <2>1, <2>2, UsesFacts DEF startUses
  <2>5. FollowingStart(start)
    BY <2>1, <2>2, <2>3, <2>4 DEF FollowingStart
  <2> QED BY <2>1, <2>2, <2>5 DEF Progress, AtStart, AtUsers, AtCase
<1> QED BY <1>1, <1>2

\* A step that HandleFunc takes at the uses of the function.
LEMMA AtStartStep ==
  ASSUME Progress, AtStart, AtStart', start' = start, Analyzed' = Analyzed,
         NEW f \in Value, FollowingStart(f), FollowingStart(f)',
         pc' = "bind" => \E c \in Value : FollowingCall(c)'
  PROVE  Progress'
<1>1. Analyzed' = {}
  BY DEF FollowingStart
<1>2. ~AtUsers' /\ ~AtCase'
  BY DEF AtStart, AtUsers, AtCase
<1> QED BY <1>1, <1>2 DEF Progress

\* The invariant of HandleFunc's uses after a step over one of them.
LEMMA StartVisits ==
  ASSUME TS, pc = "funcUses", NEW f \in Value, FollowingStart(f), Kept, start' = start, Analyzed' = Analyzed, skip' = skip,
         NEW u \in LU,
         \/ Through(u) /\ op[u] \in {"operator", "aggregate", "alias"}
         \/ Visit(u) /\ op[u] \notin {"operator", "aggregate", "alias"},
         GlobalUseFollowed(u)',
         u \in Call => CallFollowed(u)' \/ (pc' = "bind" /\ u = call'),
         pc' = "bind" => call' = u
  PROVE  FollowingStart(f)'
<1>1. Visiting(users[f], {"operator", "aggregate", "alias"})'
  BY VisitingFacts DEF FollowingStart
<1>2. GU' = GU \cup {u}
  BY DEF Through, Visit
<1>3. GU' \cup LU' \subseteq startUses[f]
  <2>1. GU \cup LU \subseteq startUses[f] /\ u \in startUses[f]
    BY DEF FollowingStart
  <2>2. CASE Visit(u) /\ op[u] \notin {"operator", "aggregate", "alias"}
    BY <2>1, <2>2 DEF Visit
  <2>3. CASE Through(u) /\ op[u] \in {"operator", "aggregate", "alias"}
    <3>1. users[u] \subseteq startUses[f]
      BY <2>1, <2>3, UsesFacts DEF startUses
    <3> QED BY <2>1, <2>3, <3>1 DEF Through
  <2> QED BY <2>2, <2>3
<1>4. \A w \in GU : GlobalUseFollowed(w)' /\ (w \in Call => CallFollowed(w)')
  BY StillFollowed DEF FollowingStart
<1>5. \A w \in GU' : GlobalUseFollowed(w)' /\ (w \in Call => CallFollowed(w)' \/ (pc' = "bind" /\ w = call'))
  BY <1>2, <1>4
<1> QED BY <1>1, <1>2, <1>3, <1>5 DEF FollowingStart

\* HandleFunc's steps connect and list more.
LEMMA HandleFuncProgress == ASSUME TS, Progress, HandleFunc, success' PROVE Progress'
<1> USE DEF TS
<1>0. pc = "funcUses" /\ AtStart
  BY DEF HandleFunc, FuncCall, FuncInst, FuncConstant, FuncGlobal, InFunc, FuncUsesDone, AtStart
<1>1. PICK f \in Value : FollowingStart(f)
  BY <1>0 DEF Progress
<1>2. ASSUME NEW u \in LU, FuncCall(u) \/ FuncInst(u) PROVE Progress'
  <2>1. u \in Value /\ parent[u] \in Function \cup {None}
    BY ProgramAssumption DEF TypeOK
  <2>2. clusters' = Connected(clusters, analyzeFunction[parent[u]]) /\ Visit(u) /\ LV' = LV
        /\ start' = start /\ Analyzed' = Analyzed /\ skip' = skip
    BY <1>2 DEF FuncCall, FuncInst
  <2>3. analyzeFunction[parent[u]] \in Pairs
    BY <2>1, FunctionType
  <2>4. Within(clusters, clusters') /\ Within(analyzeFunction[parent[u]], clusters')
    BY <2>2, <2>3, ConnectFacts
  <2>5. Kept
    BY <2>2, <2>4 DEF Kept, Listed
  <2>6. op[u] \in Insts /\ op[u] \notin {"operator", "aggregate", "alias", "global"}
    BY <1>2, <2>1 DEF FuncCall, FuncInst, Call, Insts, Calls
  <2>7. GlobalUseFollowed(u)'
    BY <2>4, <2>6 DEF GlobalUseFollowed, Connects, Within
  <2>8. u \in Call => CallFollowed(u)' \/ (pc' = "bind" /\ u = call' /\ todo' = Callees[u])
    <3>1. CASE FuncCall(u)
      BY <3>1 DEF FuncCall, CallFollowed
    <3>2. CASE FuncInst(u)
      BY <3>2 DEF FuncInst, Call
    <3> QED BY <1>2, <3>1, <3>2
  <2>9. /\ pc' = "bind" => call' = u /\ u \in Call /\ todo' = Callees[u]
        /\ AtStart'
    BY <1>2, <1>0 DEF FuncCall, FuncInst, AtStart
  <2>10. FollowingStart(f)'
    BY <1>0, <1>1, <2>2, <2>5, <2>6, <2>7, <2>8, <2>9, StartVisits
  <2>11. pc' = "bind" => FollowingCall(u)'
    BY <2>9 DEF FollowingCall
  <2> QED BY <1>0, <1>1, <2>1, <2>2, <2>9, <2>10, <2>11, AtStartStep
<1>3. ASSUME NEW u \in LU, FuncConstant(u) \/ FuncGlobal(u) PROVE Progress'
  <2>1. u \in Value
    BY DEF TypeOK
  <2>2. /\ clusters' = clusters /\ start' = start /\ Analyzed' = Analyzed /\ skip' = skip /\ pc' = "funcUses"
        /\ \/ Through(u) /\ op[u] \in {"operator", "aggregate", "alias"}
           \/ Visit(u) /\ op[u] \notin {"operator", "aggregate", "alias"}
        /\ op[u] \in {"operator", "aggregate", "alias", "global"}
    BY <1>0, <1>3 DEF FuncConstant, FuncGlobal
  <2>3. UNION Range(LV) \subseteq UNION Range(LV') /\ (op[u] = "global" => u \in UNION Range(LV'))
    <3>1. CASE FuncConstant(u)
      BY <3>1 DEF FuncConstant
    <3>2. CASE FuncGlobal(u)
      <4>1. {u} \in SUBSET Value /\ LV \in List /\ LV' = Push(LV, {u})
        BY <2>1, <3>2, TypeFacts DEF FuncGlobal
      <4> QED BY <4>1, PushFacts
    <3> QED BY <1>3, <3>1, <3>2
  <2>4. Kept
    BY <2>2, <2>3 DEF Kept, Listed, Within
  <2>5. GlobalUseFollowed(u)' /\ u \notin Call
    BY <2>2, <2>3 DEF GlobalUseFollowed, Listed, Insts, Calls, Call
  <2>6. FollowingStart(f)'
    BY <1>0, <1>1, <2>2, <2>4, <2>5, StartVisits
  <2>7. AtStart' /\ pc' # "bind"
    BY <2>2 DEF AtStart
  <2> QED BY <1>0, <1>1, <2>2, <2>6, <2>7, AtStartStep
<1>4. ASSUME FuncUsesDone PROVE Progress'
  <2>1. pc' = "pop" /\ start' = start /\ clusters' = clusters /\ Analyzed' = skip /\ LU = {}
    BY <1>4 DEF FuncUsesDone, Fail
  <2>2. UNION Range(LV) \subseteq UNION Range(LV')
    <3> DEFINE values == getClusterValues(start, clusters) \ {start}
    <3>1. values \in SUBSET Value /\ LV \in List /\ LV' = Push(LV, values)
      BY <1>4, TypeFacts, ClusterType DEF FuncUsesDone
    <3> HIDE DEF values
    <3> QED BY <3>1, PushFacts
  <2>3. Analyzed = {} /\ skip \subseteq HandedDown(f) /\ f = start /\ f \in Function
        /\ Visiting(users[f], {"operator", "aggregate", "alias"})
        /\ \A u \in GU : StartUseFollowed(u)
    BY <1>0, <1>1 DEF FollowingStart, StartUseFollowed
  <2>4. Kept
    BY <2>1, <2>2, <2>3 DEF Kept, Listed, Within
  <2>5. startUses[f] \subseteq GU
    BY <2>1, <2>3, VisitedAll DEF startUses
  <2>6. \A u \in startUses[f] : StartUseFollowed(u)'
    BY <2>3, <2>4, <2>5, StillFollowed
  <2>7. \A v \in Analyzed' : Accounted(v)'
    BY <2>1, <2>3 DEF Accounted
  <2>8. ~AtStart' /\ ~AtUsers' /\ ~AtCase' /\ pc' # "bind"
    BY <2>1 DEF AtStart, AtUsers, AtCase
  <2> QED BY <2>1, <2>3, <2>6, <2>7, <2>8 DEF Progress
<1> QED BY <1>2, <1>3, <1>4 DEF HandleFunc

-----------------------------------------------------------------------------
\* A value taken is a leaf, ends the analysis, or is followed from here on.
LEMMA PopValueProgress == ASSUME TS, Progress, PopValue, success' PROVE Progress'
<1> USE DEF TS
<1>0. pc = "pop" /\ GU = {} /\ start' = start /\ ~AtStart
  BY DEF PopValue, PopAnalyzed, GiveUp, TakeLeaf, TakeBinary, TakeValue, Take, Pop, Finish, Shape, AtStart
<1>1. \A v \in Analyzed : Accounted(v)
  BY <1>0 DEF Progress
<1>2. ASSUME NEW v \in Value, Pop(v), v \in Analyzed', Analyzed \subseteq Analyzed' PROVE Kept
  <2>1. LV \in List /\ LV # <<>> /\ v \in Head(LV) /\ LV' = Rest(v) /\ clusters' = clusters
    BY <1>2, TypeFacts DEF Pop
  <2>2. UNION Range(LV) \subseteq (UNION Range(LV')) \cup {v}
    BY <2>1, RestFacts
  <2> QED BY <1>2, <2>1, <2>2 DEF Kept, Listed, Within
<1>3. ASSUME Kept, NEW v \in Value, Analyzed' \subseteq Analyzed \cup {v},
             v \in Analyzed' => Accounted(v)' \/ (v = cv' /\ pc' \notin {"pop", "done"}),
             pc' \in {"pop", "done", "users"},
             pc' = "users" => FollowingUsers(v)'
      PROVE  Progress'
  <2>1. \A w \in Analyzed' : Accounted(w)' \/ (w = cv' /\ pc' \notin {"pop", "done"})
    BY <1>0, <1>1, <1>3, FrameFacts
  <2>2. ~AtStart' /\ ~AtCase' /\ pc' # "bind" /\ (AtUsers' => pc' = "users")
    BY <1>3 DEF AtStart, AtCase, AtUsers
  <2>3. start \in Function => \A u \in startUses[start] : StartUseFollowed(u)
    BY <1>0 DEF Progress
  <2>4. start' \in Function => \A u \in startUses[start'] : StartUseFollowed(u)'
    BY <1>0, <1>3, <2>3, StillFollowed
  <2> QED BY <1>3, <2>1, <2>2, <2>4 DEF Progress
<1>4. ASSUME NEW v \in Value, PopAnalyzed(v) PROVE Progress'
  <2>1. Pop(v) /\ v \in Analyzed /\ Analyzed' = Analyzed /\ pc' = "pop"
    BY <1>0, <1>4 DEF PopAnalyzed
  <2>2. Kept
    BY <1>2, <2>1
  <2> QED BY <1>0, <1>1, <1>3, <2>1, <2>2, FrameFacts
<1>5. ASSUME NEW v \in Value, GiveUp(v) PROVE Progress'
  BY <1>5 DEF GiveUp, Fail
<1>6. ASSUME NEW v \in Value, TakeLeaf(v) PROVE Progress'
  <2>1. Pop(v) /\ Analyzed' = Analyzed \cup {v} /\ pc' = "pop" /\ op[v] \in {"data", "function"}
    BY <1>0, <1>6 DEF TakeLeaf, Take
  <2>2. Kept
    BY <1>2, <2>1
  <2>3. Accounted(v)'
    BY <2>1 DEF Accounted, Followed
  <2> QED BY <1>3, <2>1, <2>2, <2>3
<1>7. ASSUME NEW v \in Value, TakeBinary(v) PROVE Progress'
  BY <1>7 DEF TakeBinary, Fail
<1>8. ASSUME NEW v \in Value, TakeValue(v) PROVE Progress'
  <2>1. /\ Pop(v) /\ Analyzed' = Analyzed \cup {v} /\ pc' = "users" /\ cv' = v /\ LU' = users[v]
        /\ GU' = {} /\ op[v] \notin {"data", "function", "binary"}
    BY <1>0, <1>8 DEF TakeValue, Take, Pop
  <2>2. Kept
    BY <1>2, <2>1
  <2>3. FollowingUsers(v)'
    BY <2>1 DEF FollowingUsers, Visiting
  <2> QED BY <1>3, <2>1, <2>2, <2>3
<1>9. ASSUME Finish PROVE Progress'
  <2>1. pc' = "done" /\ clusters' = clusters /\ LV' = LV /\ Analyzed' = Analyzed
    BY <1>9 DEF Finish
  <2>2. Kept
    BY <2>1 DEF Kept, Listed, Within
  <2>3. \A v \in Analyzed' : Accounted(v)'
    BY <1>0, <1>1, <2>1, <2>2, FrameFacts
  <2>4. ~AtStart' /\ ~AtCase' /\ ~AtUsers' /\ pc' # "bind"
    BY <2>1 DEF AtStart, AtCase, AtUsers
  <2>5. start \in Function => \A u \in startUses[start] : StartUseFollowed(u)
    BY <1>0 DEF Progress
  <2>6. start' \in Function => \A u \in startUses[start'] : StartUseFollowed(u)'
    BY <1>0, <2>2, <2>5, StillFollowed
  <2> QED BY <2>1, <2>3, <2>4, <2>6 DEF Progress
<1> QED BY <1>4, <1>5, <1>6, <1>7, <1>8, <1>9 DEF PopValue

-----------------------------------------------------------------------------
(* The steps of interCaseHandler.                                            *)

\* A step of interCaseHandler about the value taken.
LEMMA HandlerStep ==
  ASSUME Progress, ~AtStart, Kept, start' = start, Analyzed' = Analyzed, cv' = cv,
         ~AtStart',
         pc' \in {"pop", "done"} => Accounted(cv)',
         AtUsers' => \E v \in Value : FollowingUsers(v)',
         AtCase' => \E v \in Value : FollowingCase(v)',
         pc' = "bind" => \E c \in Value : FollowingCall(c)'
  PROVE  Progress'
<1>1. \A v \in Analyzed : Accounted(v) \/ v = cv
  BY DEF Progress
<1>2. \A v \in Analyzed' : Accounted(v)' \/ (v = cv' /\ pc' \notin {"pop", "done"})
  BY <1>1, FrameFacts
<1>3. start \in Function => \A u \in startUses[start] : StartUseFollowed(u)
  BY DEF Progress
<1>4. start' \in Function => \A u \in startUses[start'] : StartUseFollowed(u)'
  BY <1>3, StillFollowed
<1> QED BY <1>2, <1>4 DEF Progress

\* What interCaseHandler does with the users.
LEMMA UserProgress == ASSUME TS, Progress, User, success' PROVE Progress'
<1> USE DEF TS
<1>0. pc = "users" /\ ~AtStart /\ AtUsers
  BY DEF User, UserStops, UserConstant, UserCall, UserOther, InUsers, AtStart, AtUsers
<1>1. PICK v \in Value : FollowingUsers(v)
  BY <1>0 DEF Progress
<1>2. Visiting(users[v], Operators) /\ v = cv
  BY <1>1 DEF FollowingUsers
<1>3. ASSUME NEW u \in LU, UserStops(u) PROVE Progress'
  BY <1>3 DEF UserStops, Fail
<1>4. ASSUME NEW u \in LU, UserConstant(u) \/ UserCall(u) \/ UserOther(u) PROVE Progress'
  <2>1. /\ start' = start /\ clusters' = clusters /\ LV' = LV /\ Analyzed' = Analyzed /\ cv' = cv
        /\ GU' = GU \cup {u} /\ u \in Value
        /\ Through(u) \/ (Visit(u) /\ (op[u] \in Operators => u = v))
    BY <1>2, <1>4 DEF UserConstant, UserCall, UserOther, Through, Visit, TypeOK, Call, Calls, Operators
  <2>2. Kept
    BY <2>1 DEF Kept, Listed, Within
  <2>3. Visiting(users[v], Operators)'
    BY <1>2, <2>1, VisitingFacts
  <2>4. /\ pc' = "users" \/ (pc' = "bind" /\ back' = "users" /\ call' = u /\ todo' = Callees[u] /\ u \in Call)
        /\ u # v => op[u] \notin {"binary", "asm"} /\ (u \in Call => pc' = "bind" /\ call' = u)
    BY <1>0, <1>2, <1>4 DEF UserConstant, UserCall, UserOther, Call, Calls, Operators
  <2>5. \A w \in GU \ {v} : op[w] \notin {"binary", "asm"} /\ (w \in Call => CallFollowed(w)')
    BY <1>0, <1>1, <2>2, StillFollowed DEF FollowingUsers
  <2>6. \A w \in GU' \ {v} : /\ op[w] \notin {"binary", "asm"}
                             /\ w \in Call => CallFollowed(w)' \/ (pc' = "bind" /\ w = call')
    BY <2>1, <2>4, <2>5
  <2>7. FollowingUsers(v)'
    BY <1>1, <2>1, <2>3, <2>6 DEF FollowingUsers
  <2>8. pc' = "bind" => FollowingCall(u)'
    BY <2>4 DEF FollowingCall
  <2>9. ~AtStart' /\ ~AtCase' /\ pc' \notin {"pop", "done"}
    BY <2>4 DEF AtStart, AtCase
  <2> QED BY <1>0, <2>1, <2>2, <2>7, <2>8, <2>9, HandlerStep
<1> QED BY <1>3, <1>4 DEF User

\* A callee is bound, and after the last of them the call is followed.
LEMMA BindProgress == ASSUME TS, Progress, BindCallees, success' PROVE Progress'
<1> USE DEF TS
<1>0. pc = "bind" /\ call \in Call /\ start' = start /\ cv' = cv
  BY DEF BindCallees, Bind, BindDone, Shape, walk
<1>1. PICK c \in Value : FollowingCall(c)
  BY <1>0 DEF Progress
<1>2. c = call /\ c \in Call /\ todo \subseteq Callees[c]
  BY <1>1 DEF FollowingCall
<1>3. ASSUME NEW f \in todo, Bind(f) PROVE Progress'
  <2>1. f \in Function /\ f \in Callees[call] /\ call \in Value
    BY <1>0, <1>2, CallSetsType
  <2>2. Bound(f, call) \in Pairs
    BY <2>1, BoundType
  <2>3. /\ Within(clusters, clusters') /\ Within(Bound(f, call), clusters')
        /\ UNION Range(LV) \subseteq UNION Range(LV')
    BY <1>3, <2>2, ExtendFacts DEF Bind
  <2>4. Analyzed' = Analyzed /\ pc' = pc /\ call' = call /\ GU' = GU /\ LU' = LU /\ back' = back
        /\ skip' = skip \cup Range(params[f])
    BY <1>3 DEF Bind
  <2>5. Kept
    BY <2>3, <2>4 DEF Kept, Listed
  <2>6. todo' = todo \ {f}
    BY <1>3 DEF Bind, CheckSize, Fail
  <2>7. Connects(Bound(f, c))'
    BY <1>2, <2>3 DEF Connects, Within
  <2>8. FollowingCall(c)'
    BY <1>1, <2>4, <2>5, <2>6, <2>7, CallKept
  <2>9. CASE AtStart
    <3>1. PICK s \in Value : FollowingStart(s)
      BY <2>9 DEF Progress
    <3>2. call \in startUses[s] /\ s = start /\ skip \subseteq HandedDown(s)
      BY <1>0, <3>1 DEF FollowingStart
    <3>3. skip' \subseteq HandedDown(s)
      BY <1>0, <2>1, <2>4, <3>2 DEF HandedDown
    <3>4. FollowingStart(s)'
      BY <1>0, <2>4, <2>5, <3>1, <3>3, StartKept
    <3>5. AtStart'
      BY <2>4, <2>9 DEF AtStart
    <3> QED BY <1>0, <2>4, <2>8, <2>9, <3>1, <3>4, <3>5, AtStartStep
  <2>10. CASE ~AtStart
    <3>1. ~AtStart' /\ AtUsers' = AtUsers /\ AtCase' = AtCase /\ pc' \notin {"pop", "done"}
      BY <1>0, <2>4, <2>10 DEF AtStart, AtUsers, AtCase
    <3>2. AtUsers' => \E v \in Value : FollowingUsers(v)'
      BY <1>0, <2>4, <2>5, <3>1, UsersKept DEF Progress
    <3>3. AtCase' => \E v \in Value : FollowingCase(v)'
      BY <1>0, <2>4, <2>5, <3>1, CaseKept DEF Progress
    <3> QED BY <1>0, <2>4, <2>5, <2>8, <2>10, <3>1, <3>2, <3>3, HandlerStep
  <2> QED BY <2>9, <2>10
<1>4. ASSUME BindDone PROVE Progress'
  <2>1. /\ todo = {} /\ pc' = back /\ clusters' = clusters /\ LV' = LV /\ Analyzed' = Analyzed
        /\ GU' = GU /\ LU' = LU /\ call' = call /\ back' = back
        /\ skip' = IF back = "users" THEN skip \cup {call} ELSE skip
    BY <1>4 DEF BindDone, walk
  <2>2. Kept
    BY <2>1 DEF Kept, Listed, Within
  <2>3. CallFollowed(call)
    BY <1>1, <1>2, <2>1 DEF FollowingCall, CallFollowed
  <2>4. CallFollowed(call)'
    <3>1. CallFollowed(c)'
      BY <1>2, <2>2, <2>3, StillFollowed
    <3>2. \A f \in Callees[c] : Connects(Bound(f, c))'
      BY <3>1 DEF CallFollowed
    <3> QED BY <1>2, <2>1, <3>1
  <2>5. CASE back = "funcUses"
    <3>1. AtStart /\ AtStart' /\ pc' # "bind"
      BY <1>0, <2>1, <2>5 DEF AtStart
    <3>2. PICK s \in Value : FollowingStart(s)
      BY <3>1 DEF Progress
    <3>3. Visiting(users[s], {"operator", "aggregate", "alias"})'
      BY <2>1, <3>2 DEF FollowingStart, Visiting
    <3>4. CallFollowed(c)'
      BY <1>2, <2>2, <2>3, StillFollowed
    <3>5. \A u \in GU : GlobalUseFollowed(u)' /\ (u \in Call => CallFollowed(u)')
      BY <1>2, <2>2, <3>2, <3>4, StillFollowed DEF FollowingStart
    <3>6. FollowingStart(s)'
      BY <1>0, <2>1, <2>5, <3>1, <3>2, <3>3, <3>5 DEF FollowingStart
    <3> QED BY <1>0, <2>1, <3>1, <3>2, <3>6, AtStartStep
  <2>6. CASE back = "users"
    <3>1. ~AtStart /\ ~AtStart' /\ AtUsers /\ ~AtCase' /\ pc' \notin {"bind", "pop", "done"}
      BY <1>0, <2>1, <2>6 DEF AtStart, AtUsers, AtCase
    <3>2. PICK v \in Value : FollowingUsers(v)
      BY <3>1 DEF Progress
    <3>3. Visiting(users[v], Operators)'
      BY <2>1, <3>2 DEF FollowingUsers, Visiting
    <3>4. CallFollowed(c)'
      BY <1>2, <2>2, <2>3, StillFollowed
    <3>5. \A u \in GU \ {v} : op[u] \notin {"binary", "asm"} /\ (u \in Call => CallFollowed(u)')
      BY <1>2, <2>2, <3>2, <3>4, StillFollowed DEF FollowingUsers
    <3>6. FollowingUsers(v)'
      BY <1>0, <2>1, <3>2, <3>3, <3>5 DEF FollowingUsers
    <3> QED BY <1>0, <2>1, <2>2, <3>1, <3>6, HandlerStep
  <2>7. CASE back = "pop"
    <3>1. ~AtStart /\ ~AtStart' /\ ~AtUsers' /\ AtCase /\ ~AtCase' /\ pc' = "pop"
      BY <1>0, <2>1, <2>7 DEF AtStart, AtUsers, AtCase
    <3>2. PICK v \in Value : FollowingCase(v)
      BY <3>1 DEF Progress
    <3>3. v = cv /\ v = call /\ op[v] \in {"call", "copy"} /\ \A u \in valueUses[v] \ {v} : UserFollowed(u)
      BY <1>0, <3>2 DEF FollowingCase
    <3>4. CallFollowed(v)
      BY <2>3, <3>3
    <3>5. Followed(v)
      BY <3>3, <3>4 DEF Followed, CaseFollowed
    <3>6. Accounted(v)'
      BY <1>0, <2>2, <3>5, FrameFacts DEF Accounted
    <3> QED BY <1>0, <2>1, <2>2, <3>1, <3>3, <3>6, HandlerStep
  <2> QED BY <2>5, <2>6, <2>7 DEF TypeOK
<1> QED BY <1>3, <1>4 DEF BindCallees

-----------------------------------------------------------------------------
\* What the value is, when its users have been visited.
LEMMA CaseProgress == ASSUME TS, Progress, Case, success' PROVE Progress'
<1> USE DEF TS
<1>0. /\ pc = "users" /\ LU = {} /\ GU' = {} /\ ~AtStart /\ AtUsers /\ cv \in Value
      /\ start' = start /\ clusters' = clusters /\ LV' = LV /\ Analyzed' = Analyzed /\ cv' = cv
  BY DEF Case, GlobalUntracked, GlobalCase, CallFails, CallCase, CallersCase, NoCase, UsersDone,
         AtStart, AtUsers, Shape
<1>1. Kept
  BY <1>0 DEF Kept, Listed, Within
<1>2. PICK v \in Value : FollowingUsers(v)
  BY <1>0 DEF Progress
<1>3. /\ v = cv /\ op[v] \notin {"data", "function", "binary"} /\ Visiting(users[v], Operators)
      /\ \A u \in GU \ {v} : op[u] \notin {"binary", "asm"} /\ (u \in Call => CallFollowed(u))
  BY <1>0, <1>2 DEF FollowingUsers
<1>4. valueUses[v] \subseteq GU
  BY <1>0, <1>3, VisitedAll DEF valueUses
<1>5. \A u \in valueUses[v] \ {v} : UserFollowed(u)
  BY <1>3, <1>4 DEF UserFollowed
<1>6. \A u \in valueUses[v] \ {v} : UserFollowed(u)'
  BY <1>1, <1>5, StillFollowed
<1>7. ASSUME GlobalUntracked \/ CallFails PROVE Progress'
  BY <1>7 DEF GlobalUntracked, CallFails, Fail
<1>8. ASSUME GlobalCase PROVE Progress'
  <2>1. /\ op[v] = "global" /\ "safe_macro" \notin flags[v] /\ "llvm_used" \notin flags[v]
        /\ "external" \in flags[v] => Global_Unique_GV_Map(v) # {v}
        /\ pc' = "globals" /\ todo' = Global_Unique_GV_Map(v)
    BY <1>3, <1>8 DEF GlobalCase, GlobalFails
  <2>2. FollowingCase(v)'
    BY <1>0, <1>3, <1>6, <2>1 DEF FollowingCase
  <2>3. ~AtStart' /\ ~AtUsers'
    BY <2>1 DEF AtStart, AtUsers
  <2> QED BY <1>0, <1>1, <2>1, <2>2, <2>3, HandlerStep
<1>9. ASSUME CallCase PROVE Progress'
  <2>1. op[v] \in {"call", "copy"} /\ pc' = "bind" /\ call' = v /\ todo' = Callees[v] /\ back' = "pop"
    BY <1>3, <1>9 DEF CallCase
  <2>2. FollowingCase(v)'
    BY <1>0, <1>3, <1>6, <2>1 DEF FollowingCase
  <2>3. FollowingCall(v)'
    BY <2>1 DEF FollowingCall, Call, Calls
  <2>4. ~AtStart' /\ ~AtUsers'
    BY <2>1 DEF AtStart, AtUsers
  <2> QED BY <1>0, <1>1, <2>1, <2>2, <2>3, <2>4, HandlerStep
<1>10. ASSUME CallersCase PROVE Progress'
  <2>1. op[v] \in {"argument", "return"} /\ pc' = "callers" /\ todo' = Callers[parent[v]]
    BY <1>3, <1>10 DEF CallersCase
  <2>2. FollowingCase(v)'
    BY <1>0, <1>3, <1>6, <2>1 DEF FollowingCase
  <2>3. ~AtStart' /\ ~AtUsers'
    BY <2>1 DEF AtStart, AtUsers
  <2> QED BY <1>0, <1>1, <2>1, <2>2, <2>3, HandlerStep
<1>11. ASSUME NoCase PROVE Progress'
  <2>1. /\ pc' = "pop" /\ op[v] \notin {"asm", "strip", "call", "copy", "argument", "return"}
        /\ op[v] = "global" => "safe_macro" \in flags[v]
    BY <1>3, <1>11 DEF NoCase, Calls
  <2>2. Followed(v)
    BY <1>3, <1>5, <2>1 DEF Followed, CaseFollowed
  <2>3. Accounted(v)'
    BY <1>1, <1>0, <2>2, FrameFacts DEF Accounted
  <2>4. ~AtStart' /\ ~AtUsers' /\ ~AtCase' /\ pc' # "bind"
    BY <2>1 DEF AtStart, AtUsers, AtCase
  <2> QED BY <1>0, <1>1, <1>3, <2>1, <2>3, <2>4, HandlerStep
<1> QED BY <1>7, <1>8, <1>9, <1>10, <1>11 DEF Case

\* The loops over callers, declarations and their users.
LEMMA CallersProgress == ASSUME TS, Progress, CallersOrGlobals, success' PROVE Progress'
<1> USE DEF TS
<1>0. /\ pc \in {"callers", "globals", "globalUses"} /\ ~AtStart /\ ~AtUsers /\ AtCase /\ cv \in Value
      /\ start' = start /\ Analyzed' = Analyzed /\ cv' = cv
  BY DEF CallersOrGlobals, Caller, Global, GlobalInst, GlobalConstant, GlobalOther, GlobalDone, LoopDone,
         walk, AtStart, AtUsers, AtCase, Shape
<1>1. PICK v \in Value : FollowingCase(v)
  BY <1>0 DEF Progress
<1>2. v = cv /\ op[v] \notin {"data", "function", "binary", "asm", "strip"}
      /\ \A u \in valueUses[v] \ {v} : UserFollowed(u)
  BY <1>1 DEF FollowingCase
<1>3. ASSUME Kept PROVE \A u \in valueUses[v] \ {v} : UserFollowed(u)'
  BY <1>2, <1>3, StillFollowed
<1>4. ASSUME Kept, pc' \in {"callers", "globals", "globalUses"}, FollowingCase(v)' PROVE Progress'
  <2>1. ~AtStart' /\ ~AtUsers' /\ pc' \notin {"pop", "done", "bind"}
    BY <1>4 DEF AtStart, AtUsers
  <2> QED BY <1>0, <1>4, <2>1, HandlerStep
<1>5. ASSUME pc = "globalUses" PROVE \E g \in Value : FollowingDeclaration(g, v)
  BY <1>1, <1>5 DEF FollowingCase
<1>6. ASSUME pc = "globalUses", pc' = "globalUses", Kept, call' = call, todo' = todo,
             \A g \in Value : FollowingDeclaration(g, v) => FollowingDeclaration(g, v)'
      PROVE  Progress'
  <2>1. \E g \in Value : FollowingDeclaration(g, v)'
    BY <1>5, <1>6
  <2>2. FollowingCase(v)'
    BY <1>0, <1>1, <1>6, <2>1, CaseKept
  <2> QED BY <1>4, <1>6, <2>2
<1>7. ASSUME NEW c \in todo, Caller(c) PROVE Progress'
  <2>1. /\ pc = "callers" /\ pc' = "callers" /\ op[v] \in {"argument", "return"}
        /\ \A d \in Callers[parent[v]] \ todo : Connects(Exchanged(v, d) \cup analyzeFunction[parent[d]])
        /\ c \in Call /\ c \in Value
    BY <1>1, <1>7, CallSetsType DEF Caller, FollowingCase, Shape
  <2>0. v \in Value /\ c \in Value /\ op[v] \in {"argument", "return"}
    BY <2>1
  <2> DEFINE E(d) == Exchanged(v, d) \cup analyzeFunction[parent[d]]
  <2>2. E(c) \in Pairs
    <3>1. Exchanged(v, c) \in Pairs
      BY <2>0, ExchangedType
    <3>0. parent[c] \in Function \cup {None}
      BY <2>0, ProgramAssumption
    <3>2. analyzeFunction[parent[c]] \in Pairs
      BY <3>0, FunctionType
    <3> QED BY <3>1, <3>2 DEF Pairs
  <2>3. Extend(E(c), cv, skip)
    BY <1>2, <1>7 DEF Caller
  <2>4. \A d \in Callers[parent[v]] \ todo : Connects(E(d))
    BY <2>1
  <2> HIDE DEF E
  <2>5. /\ Within(clusters, clusters') /\ Within(E(c), clusters')
        /\ UNION Range(LV) \subseteq UNION Range(LV')
    BY <2>2, <2>3, ExtendFacts
  <2>6. Kept
    BY <1>0, <2>5 DEF Kept, Listed
  <2>7. todo' = todo \ {c}
    BY <1>7 DEF Caller, CheckSize, Fail
  <2>8. \A d \in Callers[parent[v]] \ todo : Connects(E(d))'
    BY <2>4, <2>6, StillConnected DEF E
  <2>9. Connects(E(c))'
    BY <2>5 DEF Connects, Within, E
  <2>10. \A d \in Callers[parent[v]] \ todo' : Connects(E(d))'
    BY <2>7, <2>8, <2>9
  <2>11. FollowingCase(v)'
    BY <1>0, <1>2, <1>3, <2>1, <2>6, <2>10 DEF FollowingCase, E
  <2> QED BY <1>4, <2>1, <2>6, <2>11
<1>8. ASSUME NEW g \in todo, Global(g) PROVE Progress'
  <2> DEFINE P == {{g, v}} \cup (IF args[g] = <<>> THEN {} ELSE analyzeGlobalInitializer(g))
             N == {u \in Named(g) : op[u] = "global"}
  <2>1. /\ g \in Value /\ pc = "globals" /\ pc' = "globalUses" /\ call' = g /\ LU' = users[g] /\ GU' = {}
        /\ todo' = todo \ {g} /\ clusters' = Connected(clusters, P) /\ LV' = Push(LV, N)
    BY <1>2, <1>8 DEF Global, TypeOK
  <2>2. P \in Pairs /\ N \in SUBSET Value
    <3>1. analyzeGlobalInitializer(g) \in Pairs /\ Named(g) \in SUBSET Value /\ {{g, v}} \in Pairs
      BY <2>1, InitializerType DEF Pairs
    <3> QED BY <3>1 DEF Pairs
  <2>3. \A u \in Named(g) : op[u] = "global" => u \in N
    OBVIOUS
  <2>4. Connects(P)' => Connects({{g, v}} \cup IF args[g] = <<>> THEN {} ELSE analyzeGlobalInitializer(g))'
    OBVIOUS
  <2> HIDE DEF P, N
  <2>5. Within(clusters, clusters') /\ Within(P, clusters')
    BY <2>1, <2>2, ConnectFacts
  <2>6. UNION Range(LV) \subseteq UNION Range(LV') /\ N \subseteq UNION Range(LV')
    BY <2>1, <2>2, TypeFacts, PushFacts
  <2>7. Kept
    BY <1>0, <2>5, <2>6 DEF Kept, Listed
  <2>8. InitializerFollowed(g, v)'
    <3>1. Connects(P)'
      BY <2>5 DEF Connects, Within, P
    <3>2. \A u \in Named(g) : op[u] = "global" => Listed(u)'
      BY <2>3, <2>6 DEF Listed
    <3> QED BY <2>4, <3>1, <3>2 DEF InitializerFollowed
  <2>9. Visiting(users[g], {"operator", "aggregate"})'
    BY <2>1 DEF Visiting
  <2>10. FollowingDeclaration(g, v)'
    BY <2>1, <2>8, <2>9 DEF FollowingDeclaration
  <2>11. \A h \in Global_Unique_GV_Map(v) \ todo : DeclarationFollowed(h, v)'
    BY <1>1, <2>1, <2>7, StillFollowed DEF FollowingCase
  <2>12. /\ op[v] = "global" /\ "safe_macro" \notin flags[v] /\ "llvm_used" \notin flags[v]
         /\ "external" \in flags[v] => Global_Unique_GV_Map(v) # {v}
    BY <1>1, <2>1 DEF FollowingCase
  <2>13. FollowingCase(v)'
    BY <1>0, <1>2, <1>3, <2>1, <2>7, <2>10, <2>11, <2>12 DEF FollowingCase
  <2> QED BY <1>4, <2>1, <2>7, <2>13
<1>9. ASSUME NEW u \in LU, GlobalInst(u) PROVE Progress'
  <2>1. u \in Value /\ parent[u] \in Function \cup {None} /\ op[u] \in Insts /\ pc = "globalUses" /\ pc' = pc
        /\ call' = call /\ todo' = todo /\ GU' = GU \cup {u} /\ LU' = LU \ {u}
    BY <1>9, ProgramAssumption DEF GlobalInst, TypeOK, Fail
  <2>2. analyzeFunction[parent[u]] \in Pairs
    BY <2>1, FunctionType
  <2>3. /\ Within(clusters, clusters') /\ Within(analyzeFunction[parent[u]], clusters')
        /\ UNION Range(LV) \subseteq UNION Range(LV')
    BY <1>9, <2>2, ExtendFacts DEF GlobalInst
  <2>4. Kept
    BY <1>0, <2>3 DEF Kept, Listed
  <2>5. GlobalUseFollowed(u)'
    BY <2>1, <2>3 DEF GlobalUseFollowed, Connects, Within, Insts, Calls
  <2>6. ASSUME NEW g \in Value, FollowingDeclaration(g, v) PROVE FollowingDeclaration(g, v)'
    <3>1. Visit(u) /\ op[u] \notin {"operator", "aggregate"}
      BY <2>1 DEF Visit, Insts, Calls
    <3>2. Visiting(users[g], {"operator", "aggregate"})'
      BY <2>6, <3>1, VisitingFacts DEF FollowingDeclaration
    <3> QED BY <2>1, <2>4, <2>5, <2>6, <3>2, DeclarationKept
  <2> QED BY <1>6, <2>1, <2>4, <2>6
<1>10. ASSUME NEW u \in LU, GlobalConstant(u) \/ GlobalOther(u) PROVE Progress'
  <2>1. /\ u \in Value /\ pc = "globalUses" /\ pc' = pc /\ clusters' = clusters
        /\ call' = call /\ todo' = todo /\ GU' = GU \cup {u}
        /\ Through(u) \/ (Visit(u) /\ op[u] \notin {"operator", "aggregate"})
        /\ op[u] \in {"operator", "aggregate", "global", "alias"}
    BY <1>10 DEF GlobalConstant, GlobalOther, TypeOK, Through, Visit
  <2>2. UNION Range(LV) \subseteq UNION Range(LV') /\ (op[u] = "global" => u \in UNION Range(LV'))
    <3>1. CASE op[u] = "global"
      <4>1. {u} \in SUBSET Value /\ LV \in List /\ LV' = Push(LV, {u})
        BY <1>10, <2>1, <3>1, TypeFacts DEF GlobalOther, GlobalConstant
      <4> QED BY <4>1, PushFacts
    <3>2. CASE op[u] # "global"
      BY <1>10, <3>2 DEF GlobalOther, GlobalConstant
    <3> QED BY <3>1, <3>2
  <2>3. Kept
    BY <1>0, <2>1, <2>2 DEF Kept, Listed, Within
  <2>4. GlobalUseFollowed(u)'
    BY <2>1, <2>2 DEF GlobalUseFollowed, Listed, Insts, Calls
  <2>5. ASSUME NEW g \in Value, FollowingDeclaration(g, v) PROVE FollowingDeclaration(g, v)'
    <3>1. Visiting(users[g], {"operator", "aggregate"})'
      BY <2>1, <2>5, VisitingFacts DEF FollowingDeclaration
    <3> QED BY <2>1, <2>3, <2>4, <2>5, <3>1, DeclarationKept
  <2> QED BY <1>6, <2>1, <2>3, <2>5
<1>11. ASSUME GlobalDone PROVE Progress'
  <2>1. pc = "globalUses" /\ pc' = "globals" /\ LU = {} /\ call' = call /\ todo' = todo
    BY <1>11 DEF GlobalDone, CheckSize, Fail
  <2>2. Within(clusters, clusters') /\ UNION Range(LV) \subseteq UNION Range(LV')
    <3>1. {} \in Pairs
      BY DEF Pairs
    <3> QED BY <1>11, <3>1, ExtendFacts DEF GlobalDone
  <2>3. Kept
    BY <1>0, <2>2 DEF Kept, Listed
  <2>4. PICK g \in Value : FollowingDeclaration(g, v)
    BY <1>5, <2>1
  <2>5. /\ g = call /\ InitializerFollowed(g, v) /\ \A u \in GU : GlobalUseFollowed(u)
        /\ Visiting(users[g], {"operator", "aggregate"})
    BY <2>4 DEF FollowingDeclaration
  <2>6. globalUses[g] \subseteq GU
    BY <2>1, <2>5, VisitedAll DEF globalUses
  <2>7. DeclarationFollowed(g, v)
    BY <2>5, <2>6 DEF DeclarationFollowed
  <2>8. \A h \in Global_Unique_GV_Map(v) \ todo : DeclarationFollowed(h, v)
    BY <1>1, <2>1, <2>5, <2>7 DEF FollowingCase
  <2>9. \A h \in Global_Unique_GV_Map(v) \ todo : DeclarationFollowed(h, v)'
    BY <2>3, <2>8, StillFollowed
  <2>10. /\ op[v] = "global" /\ "safe_macro" \notin flags[v] /\ "llvm_used" \notin flags[v]
         /\ "external" \in flags[v] => Global_Unique_GV_Map(v) # {v}
    BY <1>1, <2>1 DEF FollowingCase
  <2>11. FollowingCase(v)'
    BY <1>0, <1>2, <1>3, <2>1, <2>3, <2>9, <2>10 DEF FollowingCase
  <2> QED BY <1>4, <2>1, <2>3, <2>11
<1>12. ASSUME LoopDone PROVE Progress'
  <2>1. pc \in {"callers", "globals"} /\ todo = {} /\ pc' = "pop" /\ clusters' = clusters /\ LV' = LV
    BY <1>12 DEF LoopDone
  <2>2. Kept
    BY <1>0, <2>1 DEF Kept, Listed, Within
  <2>3. CaseFollowed(v)
    <3>1. CASE pc = "callers"
      <4>1. CallersFollowed(v) /\ op[v] \in {"argument", "return"}
        BY <1>1, <2>1, <3>1 DEF FollowingCase, CallersFollowed
      <4> QED BY <4>1 DEF CaseFollowed
    <3>2. CASE pc = "globals"
      <4>1. /\ op[v] = "global" /\ "llvm_used" \notin flags[v]
            /\ "external" \in flags[v] => Global_Unique_GV_Map(v) # {v}
            /\ \A g \in Global_Unique_GV_Map(v) : DeclarationFollowed(g, v)
        BY <1>1, <2>1, <3>2 DEF FollowingCase
      <4>2. GlobalFollowed(v)
        BY <4>1 DEF GlobalFollowed, DeclarationFollowed
      <4> QED BY <4>1, <4>2 DEF CaseFollowed
    <3> QED BY <2>1, <3>1, <3>2
  <2>4. Followed(v)
    BY <1>2, <2>3 DEF Followed
  <2>5. Accounted(v)'
    BY <1>0, <2>2, <2>4, FrameFacts DEF Accounted
  <2>6. ~AtStart' /\ ~AtUsers' /\ ~AtCase' /\ pc' # "bind"
    BY <2>1 DEF AtStart, AtUsers, AtCase
  <2> QED BY <1>0, <1>2, <2>1, <2>2, <2>5, <2>6, HandlerStep
<1> QED BY <1>7, <1>8, <1>9, <1>10, <1>11, <1>12 DEF CallersOrGlobals

-----------------------------------------------------------------------------
(* All of them together.                                                     *)

LEMMA StutterProgress == ASSUME Progress, UNCHANGED vars PROVE Progress'
<1>0. /\ pc' = pc /\ start' = start /\ Analyzed' = Analyzed /\ cv' = cv /\ call' = call /\ todo' = todo
      /\ back' = back /\ GU' = GU /\ LU' = LU /\ skip' = skip /\ clusters' = clusters /\ LV' = LV
  BY DEF vars, walk
<1>1. Kept
  BY <1>0 DEF Kept, Listed, Within
<1>2. AtStart' = AtStart /\ AtUsers' = AtUsers /\ AtCase' = AtCase
  BY <1>0 DEF AtStart, AtUsers, AtCase
<1>3. AtStart' => \E f \in Value : FollowingStart(f)'
  <2>1. \A f : FollowingStart(f) => skip' \subseteq HandedDown(f)
    BY <1>0 DEF FollowingStart
  <2> QED BY <1>0, <1>1, <1>2, <2>1, StartKept DEF Progress
<1>4. ~AtStart' /\ start' \in Function => \A u \in startUses[start'] : StartUseFollowed(u)'
  BY <1>0, <1>1, <1>2, StillFollowed DEF Progress
<1>5. \A v \in Analyzed' : Accounted(v)' \/ (v = cv' /\ pc' \notin {"pop", "done"})
  BY <1>0, <1>1, FrameFacts DEF Progress
<1>6. AtUsers' => \E v \in Value : FollowingUsers(v)'
  BY <1>0, <1>1, <1>2, UsersKept DEF Progress
<1>7. AtCase' => \E v \in Value : FollowingCase(v)'
  <2>1. ASSUME NEW v, FollowingCase(v), pc = "globalUses" PROVE \E g \in Value : FollowingDeclaration(g, v)'
    <3>1. PICK g \in Value : FollowingDeclaration(g, v)
      BY <2>1 DEF FollowingCase
    <3>2. Visiting(users[g], {"operator", "aggregate"})'
      BY <1>0, <3>1 DEF FollowingDeclaration, Visiting
    <3>3. FollowingDeclaration(g, v)'
      BY <1>0, <1>1, <3>1, <3>2, DeclarationKept
    <3> QED BY <3>3
  <2> QED BY <1>0, <1>1, <1>2, <2>1, CaseKept DEF Progress
<1>8. pc' = "bind" => \E c \in Value : FollowingCall(c)'
  BY <1>0, <1>1, CallKept DEF Progress
<1> QED BY <1>3, <1>4, <1>5, <1>6, <1>7, <1>8 DEF Progress

\* An analysis that gave up does not change its mind.
LEMMA StaysFailed == ASSUME TS, [Next]_vars, success' PROVE success
<1>1. ASSUME NEW reason, NEW rest, CheckSize(reason, rest) PROVE success
  BY <1>1 DEF CheckSize, Fail
<1>2. CASE HandleFunc
  BY <1>2 DEF HandleFunc, FuncCall, FuncInst, FuncConstant, FuncGlobal, FuncUsesDone, Fail
<1>3. CASE PopValue
  BY <1>3 DEF PopValue, PopAnalyzed, GiveUp, TakeLeaf, TakeBinary, TakeValue, Take, Pop, Finish, Fail
<1>4. CASE User
  BY <1>4 DEF User, UserStops, UserConstant, UserCall, UserOther, Fail
<1>5. CASE BindCallees
  BY <1>1, <1>5 DEF BindCallees, Bind, BindDone
<1>6. CASE Case
  BY <1>6 DEF Case, GlobalUntracked, GlobalCase, CallFails, CallCase, CallersCase, NoCase, Fail
<1>7. CASE CallersOrGlobals
  BY <1>1, <1>7 DEF CallersOrGlobals, Caller, Global, GlobalInst, GlobalConstant, GlobalOther, GlobalDone, LoopDone, Fail
<1>8. CASE UNCHANGED vars
  BY <1>8 DEF vars
<1> QED BY <1>2, <1>3, <1>4, <1>5, <1>6, <1>7, <1>8 DEF Next, interCaseHandler

LEMMA NextInv == ASSUME Inv, [Next]_vars PROVE Inv'
<1>1. TS /\ (success => Progress)
  BY DEF Inv, TS
<1>2. TS'
  BY <1>1, NextTS
<1>3. ASSUME success' PROVE Progress'
  <2>1. Progress
    BY <1>1, <1>3, StaysFailed
  <2> QED BY <1>1, <1>3, <2>1, HandleFuncProgress, PopValueProgress, UserProgress, BindProgress,
             CaseProgress, CallersProgress, StutterProgress DEF Next, interCaseHandler
<1> QED BY <1>2, <1>3 DEF Inv, TS

\* In every program, an analysis that has not given up followed the users, the callees,
\* the callers and the initializers of every value it counts as analysed by the time it
\* takes the next one: no break of interCaseHandler's loops passes unnoticed.
THEOREM NothingLeftOutAlways == Spec => []NothingLeftOut
<1>1. Init => Inv
  BY InitTS, InitProgress DEF Inv, TS
<1>2. Inv => NothingLeftOut
  <2> SUFFICES ASSUME Inv, pc \in {"pop", "done"}, success PROVE NothingLeftOut
    BY DEF NothingLeftOut
  <2>1. Progress /\ ~AtStart
    BY DEF Inv, AtStart
  <2> QED BY <2>1 DEF Progress, NothingLeftOut, Accounted
<1> QED BY <1>1, <1>2, NextInv, PTL DEF Spec
=============================================================================
