---------------------------- MODULE TracesProofs ----------------------------
(***************************************************************************)
(* Theorems about the type analysis, for every program and any order of    *)
(* its modules: the types of all that TypeMaps and Traces keep, that calls *)
(* are resolved with the maps of the whole program, and that a function    *)
(* which may be called is a target (CallsCovered), after every round of    *)
(* the traces too (TracesCover).                                           *)
(***************************************************************************)
EXTENDS Traces, TLAPS, FiniteSetTheorems, SequenceTheorems, WellFoundedInduction

-----------------------------------------------------------------------------
(* Induction for the lemmas about the recursive functions; a property is the *)
(* set of the numbers that have it.                                          *)

\* A set of numbers with zero and the successor of each of its numbers has them all.
LEMMA SetInduction ==
  ASSUME NEW P \in SUBSET Nat, 0 \in P, \A n \in P : n + 1 \in P
  PROVE  P = Nat
<1> DEFINE T == {1..n : n \in Nat \ P}
<1> SUFFICES ASSUME NEW bad \in Nat, bad \notin P PROVE FALSE
  OBVIOUS
<1>1. IsWellFoundedOn(StrictSubsetOrdering(Nat), FiniteSubsetsOf(Nat))
  BY FS_StrictSubsetOrderingWellFounded
<1>2. T \subseteq FiniteSubsetsOf(Nat) /\ T # {}
  <2>1. \A n \in Nat : IsFiniteSet(1..n)
    BY FS_Interval
  <2> QED BY <2>1 DEF FiniteSubsetsOf
<1> HIDE DEF T
<1>3. PICK x \in T : \A y \in T : ~(<<y, x>> \in StrictSubsetOrdering(Nat))
  BY <1>1, <1>2, WFMin
<1>4. PICK n \in Nat \ P : x = 1..n
  BY DEF T
<1>5. n # 0 /\ n - 1 \in Nat /\ n - 1 \notin P
  OBVIOUS
<1>6. 1..(n - 1) \in T
  BY <1>5 DEF T
<1>7. <<1..(n - 1), x>> \in StrictSubsetOrdering(Nat)
  <2>1. 1..(n - 1) \in SUBSET Nat /\ x \in SUBSET Nat
    BY <1>4
  <2>2. 1..(n - 1) \subseteq x /\ n \in x /\ n \notin 1..(n - 1)
    BY <1>4, <1>5
  <2> QED BY <2>1, <2>2 DEF StrictSubsetOrdering
<1> QED BY <1>3, <1>6, <1>7

\* The first n values of what step yields from base.
Begins(f, n, base, step) == f[0] = base /\ \A i \in 1..n : f[i] = step[f[i - 1]]

\* A function on the numbers that repeats step exists.
LEMMA IterationExists ==
  ASSUME NEW V, NEW base \in V, NEW step \in [V -> V]
  PROVE  \E f \in [Nat -> V] : \A n \in Nat : f[n] = IF n = 0 THEN base ELSE step[f[n - 1]]
<1> DEFINE Some(n) == \E f \in [Nat -> V] : Begins(f, n, base, step)
           P == {n \in Nat : Some(n)}
           Q == {i \in Nat : \A f, g \in [Nat -> V], n, m \in Nat :
                   i <= n /\ i <= m /\ Begins(f, n, base, step) /\ Begins(g, m, base, step) => f[i] = g[i]}
           h == [n \in Nat |-> CHOOSE f \in [Nat -> V] : Begins(f, n, base, step)]
           F == [n \in Nat |-> h[n][n]]
<1>1. \A n \in Nat : Some(n)
  <2>1. 0 \in P
    <3>1. Begins([i \in Nat |-> base], 0, base, step)
      BY DEF Begins
    <3> QED BY <3>1
  <2>2. ASSUME NEW n \in P PROVE n + 1 \in P
    <3>1. PICK f \in [Nat -> V] : Begins(f, n, base, step)
      BY <2>2
    <3> DEFINE g == [f EXCEPT ![n + 1] = step[f[n]]]
    <3>2. g \in [Nat -> V]
      OBVIOUS
    <3>3. Begins(g, n + 1, base, step)
      <4> SUFFICES ASSUME NEW i \in 1..(n + 1) PROVE g[i] = step[g[i - 1]]
        BY <3>1 DEF Begins
      <4>1. CASE i = n + 1
        BY <4>1
      <4>2. CASE i \in 1..n
        BY <3>1, <4>2 DEF Begins
      <4> QED BY <4>1, <4>2
    <3> HIDE DEF g
    <3> QED BY <2>2, <3>2, <3>3
  <2> HIDE DEF Some
  <2>3. P \in SUBSET Nat
    OBVIOUS
  <2> HIDE DEF P
  <2>4. P = Nat
    BY <2>1, <2>2, <2>3, SetInduction
  <2> QED BY <2>4 DEF P
<1>2. \A i \in Nat : i \in Q
  <2>1. 0 \in Q
    BY DEF Begins
  <2>2. ASSUME NEW i \in Q PROVE i + 1 \in Q
    <3> SUFFICES ASSUME NEW f \in [Nat -> V], NEW g \in [Nat -> V], NEW n \in Nat, NEW m \in Nat,
                        i + 1 <= n, i + 1 <= m, Begins(f, n, base, step), Begins(g, m, base, step)
                 PROVE  f[i + 1] = g[i + 1]
      BY <2>2
    <3>1. f[i] = g[i]
      BY <2>2
    <3>2. i + 1 \in 1..n /\ i + 1 \in 1..m /\ i + 1 - 1 = i
      BY <2>2
    <3> QED BY <3>1, <3>2 DEF Begins
  <2>3. Q \in SUBSET Nat
    OBVIOUS
  <2> HIDE DEF Q
  <2>4. Q = Nat
    BY <2>1, <2>2, <2>3, SetInduction
  <2> QED BY <2>4
<1>3. \A n \in Nat : h[n] \in [Nat -> V] /\ Begins(h[n], n, base, step)
  <2> HIDE DEF P, Q
  <2> QED BY <1>1
<1>4. \A n, i \in Nat : i <= n => h[n][i] = F[i]
  <2> HIDE DEF h
  <2>1. ASSUME NEW n \in Nat, NEW i \in Nat, i <= n PROVE h[n][i] = h[i][i]
    <3>1. i \in Q /\ i <= i
      BY <1>2
    <3> QED BY <1>3, <2>1, <3>1
  <2> HIDE DEF Q
  <2> QED BY <2>1
<1>5. F \in [Nat -> V]
  <2> HIDE DEF h
  <2> QED BY <1>3
<1>6. ASSUME NEW n \in Nat PROVE F[n] = IF n = 0 THEN base ELSE step[F[n - 1]]
  <2> HIDE DEF h
  <2>1. CASE n = 0
    BY <1>3, <2>1 DEF Begins
  <2>2. CASE n # 0
    <3>1. n \in 1..n /\ n - 1 \in Nat /\ n - 1 <= n
      BY <2>2
    <3>2. h[n][n] = step[h[n][n - 1]]
      BY <1>3, <3>1 DEF Begins
    <3>3. h[n][n - 1] = F[n - 1]
      BY <1>4, <3>1
    <3> QED BY <2>2, <3>2, <3>3
  <2> QED BY <2>1, <2>2
<1> HIDE DEF F
<1> QED BY <1>5, <1>6

\* c takes one element of each set that has one.
Chooses(c, S) == \A s \in SUBSET S : s # {} => c[s] \in s

\* f[s] combines the elements of s with G, the one c takes last.
FoldOf(f, S, base, G, c) ==
  \A s \in SUBSET S : f[s] = IF s = {} THEN base ELSE G[<<c[s], f[s \ {c[s]}]>>]

\* The recursive function MapThenFoldSet is defined with exists.
LEMMA FoldExists ==
  ASSUME NEW S, IsFiniteSet(S), NEW T, NEW base \in T, NEW G \in [S \X T -> T],
         NEW c, Chooses(c, S)
  PROVE  \E f \in [SUBSET S -> T] : FoldOf(f, S, base, G, c)
<1> DEFINE Combined(f, s) == IF s = {} THEN base ELSE G[<<c[s], f[s \ {c[s]}]>>]
           Upto(f, n) == \A s \in SUBSET S : Cardinality(s) <= n => f[s] = Combined(f, s)
           P == {n \in Nat : \E f \in [SUBSET S -> T] : Upto(f, n)}
<1>1. \A s \in SUBSET S : IsFiniteSet(s) /\ Cardinality(s) \in Nat /\ Cardinality(s) <= Cardinality(S)
  BY FS_Subset, FS_CardinalityType
<1>2. \A s \in SUBSET S : s # {} => /\ s \ {c[s]} \in SUBSET S
                                    /\ Cardinality(s \ {c[s]}) = Cardinality(s) - 1
  BY <1>1, FS_RemoveElement DEF Chooses
<1>3. \A s \in SUBSET S, f \in [SUBSET S -> T] : Combined(f, s) \in T
  BY <1>2 DEF Chooses
<1>4. 0 \in P
  <2>1. Upto([s \in SUBSET S |-> base], 0)
    <3>1. \A s \in SUBSET S : Cardinality(s) <= 0 => s = {}
      BY <1>1, FS_EmptySet
    <3> QED BY <3>1
  <2> QED BY <2>1
<1>5. ASSUME NEW n \in P PROVE n + 1 \in P
  <2>1. PICK f \in [SUBSET S -> T] : Upto(f, n)
    BY <1>5
  <2> DEFINE g == [s \in SUBSET S |-> Combined(f, s)]
  <2>2. g \in [SUBSET S -> T]
    BY <1>3
  <2>3. ASSUME NEW s \in SUBSET S, Cardinality(s) <= n + 1 PROVE g[s] = Combined(g, s)
    <3>1. CASE s = {}
      BY <3>1
    <3>2. CASE s # {}
      <4>1. s \ {c[s]} \in SUBSET S /\ Cardinality(s \ {c[s]}) <= n
        BY <1>1, <1>2, <2>3, <3>2
      <4>2. f[s \ {c[s]}] = Combined(f, s \ {c[s]})
        BY <2>1, <4>1
      <4>3. g[s \ {c[s]}] = f[s \ {c[s]}]
        BY <4>1, <4>2
      <4> QED BY <3>2, <4>3
    <3> QED BY <3>1, <3>2
  <2> HIDE DEF Combined, g
  <2>4. Upto(g, n + 1)
    BY <2>3
  <2> HIDE DEF Upto
  <2> QED BY <2>2, <2>4
<1> HIDE DEF P
<1>6. P \subseteq Nat /\ Cardinality(S) \in P
  <2>1. P \in SUBSET Nat
    BY DEF P
  <2>2. P = Nat
    BY <1>4, <1>5, <2>1, SetInduction
  <2> QED BY <2>1, <2>2, FS_CardinalityType
<1>7. PICK f \in [SUBSET S -> T] : Upto(f, Cardinality(S))
  BY <1>6 DEF P
<1>8. \A s \in SUBSET S : f[s] = Combined(f, s)
  BY <1>1, <1>7
<1> QED BY <1>8 DEF FoldOf

\* SetToSeq lists every element of a finite set once.
LEMMA SetToSeqLists ==
  ASSUME NEW S, IsFiniteSet(S)
  PROVE  /\ Cardinality(S) \in Nat
         /\ SetToSeq(S) \in Seq(S) /\ Len(SetToSeq(S)) = Cardinality(S)
         /\ \A i, j \in 1..Cardinality(S) : SetToSeq(S)[i] = SetToSeq(S)[j] => i = j
         /\ \A x \in S : \E i \in 1..Cardinality(S) : SetToSeq(S)[i] = x
<1> DEFINE n == Cardinality(S)
           s == SetToSeq(S)
<1>1. n \in Nat /\ ExistsBijection(1..n, S)
  BY FS_CardinalityType
<1>2. s \in [1..n -> S] /\ IsInjective(s)
  <2>1. \E f \in [1..n -> S] : IsInjective(f)
    BY <1>1 DEF ExistsBijection, Bijection, Injection
  <2> QED BY <2>1 DEF SetToSeq
<1> HIDE DEF s
<1>3. s \in Surjection(1..n, S)
  <2>1. Cardinality(1..n) = n
    BY <1>1, FS_Interval
  <2> QED BY <1>2, <2>1, FS_Injection DEF Injection
<1> HIDE DEF n
<1>4. s \in Seq(S) /\ Len(s) = n
  BY <1>1, <1>2
<1> QED BY <1>1, <1>2, <1>3, <1>4 DEF IsInjective, Surjection, n, s

-----------------------------------------------------------------------------
(* Sequences. *)

\* The elements of a sequence.
LEMMA Elements ==
  ASSUME NEW S, NEW s \in Seq(S)
  PROVE  /\ Len(s) \in Nat /\ DOMAIN s = 1..Len(s)
         /\ \A i \in DOMAIN s : s[i] \in S
         /\ ToSet(s) \subseteq S /\ (ToSet(s) = {} <=> s = <<>>)
<1>1. Len(s) \in Nat /\ DOMAIN s = 1..Len(s) /\ \A i \in DOMAIN s : s[i] \in S
  OBVIOUS
<1>2. s = <<>> <=> Len(s) = 0
  OBVIOUS
<1> QED BY <1>1, <1>2 DEF ToSet

LEMMA Joined ==
  ASSUME NEW S, NEW s \in Seq(S), NEW t \in Seq(S)
  PROVE  /\ s \o t \in Seq(S)
         /\ ToSet(s \o t) = ToSet(s) \cup ToSet(t)
         /\ \A i \in DOMAIN s : (s \o t)[i] = s[i]
         /\ \A i \in DOMAIN t : Len(s) + i \in DOMAIN (s \o t) /\ (s \o t)[Len(s) + i] = t[i]
         /\ \A k \in DOMAIN (s \o t) : k \in DOMAIN s \/ (k - Len(s) \in DOMAIN t /\ k > Len(s))
<1>1. /\ s \o t \in Seq(S) /\ Len(s \o t) = Len(s) + Len(t)
      /\ \A i \in 1..(Len(s) + Len(t)) : (s \o t)[i] = IF i <= Len(s) THEN s[i] ELSE t[i - Len(s)]
  BY ConcatProperties
<1>2. Len(s) \in Nat /\ Len(t) \in Nat /\ DOMAIN s = 1..Len(s) /\ DOMAIN t = 1..Len(t)
      /\ DOMAIN (s \o t) = 1..(Len(s) + Len(t))
  BY <1>1
<1> DEFINE st == s \o t
<1> HIDE DEF st
<1>3. \A i \in DOMAIN s : i \in DOMAIN st /\ st[i] = s[i]
  BY <1>1, <1>2 DEF st
<1>4. \A i \in DOMAIN t : Len(s) + i \in DOMAIN st /\ st[Len(s) + i] = t[i]
  BY <1>1, <1>2 DEF st
<1>5. \A k \in DOMAIN st : k \in DOMAIN s \/ (k - Len(s) \in DOMAIN t /\ k > Len(s))
  BY <1>1, <1>2 DEF st
<1>6. \A k \in DOMAIN st : st[k] \in ToSet(s) \cup ToSet(t)
  BY <1>1, <1>2, <1>5 DEF st, ToSet
<1>7. ToSet(st) = ToSet(s) \cup ToSet(t)
  BY <1>3, <1>4, <1>6 DEF ToSet
<1> QED BY <1>1, <1>3, <1>4, <1>5, <1>7 DEF st

\* What is left of a sequence after its first i elements.
LEMMA Rest ==
  ASSUME NEW S, NEW s \in Seq(S), NEW i \in DOMAIN s
  PROVE  /\ SubSeq(s, i + 1, Len(s)) \in Seq(S)
         /\ ToSet(SubSeq(s, i + 1, Len(s))) = {s[j] : j \in (i + 1)..Len(s)}
<1> DEFINE n == Len(s)
           r == SubSeq(s, i + 1, n)
<1>1. n \in Nat /\ i \in 1..n /\ \A j \in (i + 1)..n : s[j] \in S
  OBVIOUS
<1> HIDE DEF n
<1>2. /\ r \in Seq(S) /\ Len(r) = IF i + 1 <= n THEN n - (i + 1) + 1 ELSE 0
      /\ \A j \in 1..(n - (i + 1) + 1) : r[j] = s[(i + 1) + j - 1]
  <2>1. i + 1 \in Int /\ n \in Int
    BY <1>1
  <2> DEFINE m == i + 1
  <2> HIDE DEF m
  <2>2. \A j \in m..n : s[j] \in S
    BY <1>1 DEF m
  <2>3. m \in Int
    BY <2>1 DEF m
  <2>4. /\ SubSeq(s, m, n) \in Seq(S) /\ Len(SubSeq(s, m, n)) = IF m <= n THEN n - m + 1 ELSE 0
        /\ \A j \in 1..(n - m + 1) : SubSeq(s, m, n)[j] = s[m + j - 1]
    BY <2>1, <2>2, <2>3, SubSeqProperties
  <2> QED BY <2>4 DEF m
<1> HIDE DEF r
<1>3. DOMAIN r = 1..(n - i)
  BY <1>1, <1>2
<1>4. ASSUME NEW j \in DOMAIN r PROVE r[j] \in {s[k] : k \in (i + 1)..n}
  <2>1. j \in 1..(n - (i + 1) + 1) /\ (i + 1) + j - 1 \in (i + 1)..n
    BY <1>1, <1>3
  <2> QED BY <1>2, <2>1
<1>5. ASSUME NEW k \in (i + 1)..n PROVE \E j \in DOMAIN r : r[j] = s[k]
  <2>1. PICK a \in Nat : a = i
    BY <1>1
  <2>2. k \in (a + 1)..n /\ DOMAIN r = 1..(n - a)
    BY <1>3, <2>1
  <2>3. k - a \in 1..(n - a) /\ k - a \in 1..(n - (a + 1) + 1) /\ (a + 1) + (k - a) - 1 = k
    BY <1>1, <2>2
  <2> QED BY <1>2, <2>1, <2>2, <2>3
<1>6. ToSet(r) = {s[k] : k \in (i + 1)..n}
  BY <1>4, <1>5 DEF ToSet
<1> QED BY <1>2, <1>6 DEF r, n

\* A set of numbers has a least one.
LEMMA LeastExists ==
  ASSUME NEW S \in SUBSET Nat, S # {}
  PROVE  Min(S) \in S /\ \A x \in S : Min(S) <= x
<1> DEFINE P == {n \in Nat : (\E x \in S : x <= n) => \E x \in S : \A y \in S : x <= y}
<1>1. 0 \in P
  OBVIOUS
<1>2. ASSUME NEW n \in P PROVE n + 1 \in P
  <2> SUFFICES ASSUME NEW z \in S, z <= n + 1 PROVE \E x \in S : \A y \in S : x <= y
    OBVIOUS
  <2>1. CASE \E x \in S : x <= n
    BY <1>2, <2>1
  <2>2. CASE \A x \in S : ~(x <= n)
    <3>1. \A y \in S : z <= y
      BY <1>2, <2>2
    <3> QED BY <3>1
  <2> QED BY <2>1, <2>2
<1>3. P = Nat
  <2>1. P \in SUBSET Nat
    OBVIOUS
  <2> HIDE DEF P
  <2> QED BY <1>1, <1>2, <2>1, SetInduction
<1>4. PICK z \in S : z \in Nat
  OBVIOUS
<1>5. \E x \in S : \A y \in S : x <= y
  <2>1. z \in P /\ z <= z
    BY <1>3, <1>4
  <2> QED BY <2>1
<1> QED BY <1>5 DEF Min

-----------------------------------------------------------------------------
(* What the walk follows. *)

LEMMA ValueSets == \A S \in SUBSET Value : IsFiniteSet(S)
BY CodeAssumption, FS_Subset

LEMMA ItemType ==
  ASSUME NEW i \in Items
  PROVE  /\ i.in \in Module /\ i.what \in {"store", "field", "scalar", "mangled"}
         /\ i.value \in Value /\ i.at \in Value \cup Cell
BY DEF Items

LEMMA OperandsType ==
  ASSUME NEW v \in Value
  PROVE  /\ kind[v] \in Kinds /\ operands[v] \in Seq(Value) /\ ToSet(operands[v]) \subseteq Value
         /\ kind[v] \in {"load", "alloca", "select"} =>
              1 \in DOMAIN operands[v] /\ operands[v][1] \in Value /\ operands[v][1] \in ToSet(operands[v])
<1>1. kind[v] \in Kinds /\ operands[v] \in Seq(Value)
  BY CodeAssumption
<1>2. ASSUME kind[v] \in {"load", "alloca", "select"} PROVE 1 \in DOMAIN operands[v]
  <2>1. operands[v] # <<>>
    BY <1>2, CodeAssumption
  <2> QED BY <1>1, <2>1
<1>3. ToSet(operands[v]) \subseteq Value /\ \A i \in DOMAIN operands[v] : operands[v][i] \in Value
  BY <1>1, Elements
<1> QED BY <1>1, <1>2, <1>3 DEF ToSet

LEMMA OneOfType ==
  ASSUME NEW v \in Value, NEW program \in SUBSET Items
  PROVE  /\ \A p : StoredTo(p, program) \subseteq Value
         /\ OneOf(v, program) \in SUBSET Value
<1>1. \A p : StoredTo(p, program) \subseteq Value
  BY ItemType DEF StoredTo
<1>2. kind[v] \in Kinds /\ ToSet(operands[v]) \subseteq Value
  BY OperandsType
<1>3. CASE kind[v] \in {"cast", "phi", "select"}
  <2>1. OneOf(v, program) = ToSet(operands[v])
    BY <1>3 DEF OneOf
  <2> QED BY <1>1, <1>2, <2>1
<1>4. CASE kind[v] = "load"
  <2>1. OneOf(v, program) = {s \in StoredTo(operands[v][1], program) : kind[s] # "data"}
    BY <1>4 DEF OneOf
  <2> QED BY <1>1, <2>1
<1>5. CASE kind[v] \notin {"cast", "phi", "select", "load"}
  <2>1. OneOf(v, program) = {}
    BY <1>5 DEF OneOf
  <2> QED BY <1>1, <2>1
<1> QED BY <1>1, <1>3, <1>4, <1>5

\* A walk goes on with all a value is one of, with the pointer of a load, which comes
\* first, and with the size of an alloca.
LEMMA FollowFacts ==
  ASSUME NEW v \in Value, NEW program \in SUBSET Items
  PROVE  LET list == Follow(v, program) IN
         /\ list \in Seq(Value)
         /\ kind[v] \in {"cast", "phi", "select"} => ToSet(list) = OneOf(v, program)
         /\ kind[v] = "alloca" => ToSet(list) = ToSet(operands[v])
         /\ kind[v] = "load" => /\ 1 \in DOMAIN list /\ list[1] = operands[v][1]
                                /\ \A j \in DOMAIN list : j # 1 => list[j] \in OneOf(v, program)
                                /\ \A o \in OneOf(v, program) : \E j \in DOMAIN list : j # 1 /\ list[j] = o
         /\ kind[v] \notin {"cast", "phi", "select", "alloca", "load"} => list = <<>>
<1> DEFINE list == Follow(v, program)
<1>1. kind[v] \in Kinds /\ operands[v] \in Seq(Value) /\ OneOf(v, program) \in SUBSET Value
  BY OperandsType, OneOfType
<1>2. CASE kind[v] \in {"cast", "phi", "select"}
  <2>1. list = operands[v] /\ OneOf(v, program) = ToSet(operands[v])
    BY <1>2 DEF Follow, OneOf
  <2> QED BY <1>1, <1>2, <2>1
<1>3. CASE kind[v] = "alloca"
  <2>1. list = operands[v]
    BY <1>3 DEF Follow
  <2> QED BY <1>1, <1>3, <2>1
<1>4. CASE kind[v] = "load"
  <2> DEFINE first == operands[v][1]
             rest == SetToSeq(OneOf(v, program))
             n == Cardinality(OneOf(v, program))
  <2>1. list = <<first>> \o rest
    BY <1>4 DEF Follow
  <2>2. first \in Value
    BY <1>4, OperandsType
  <2>3. /\ n \in Nat /\ rest \in Seq(OneOf(v, program)) /\ Len(rest) = n
        /\ \A x \in OneOf(v, program) : \E i \in 1..n : rest[i] = x
    <3>1. IsFiniteSet(OneOf(v, program))
      BY <1>1, ValueSets
    <3> QED BY <3>1, SetToSeqLists
  <2> HIDE DEF list, first, rest, n
  <2>4. rest \in Seq(Value) /\ <<first>> \in Seq(Value) /\ DOMAIN rest = 1..n /\ DOMAIN <<first>> = {1}
        /\ Len(<<first>>) = 1 /\ <<first>>[1] = first
    BY <1>1, <2>2, <2>3
  <2> DEFINE one == <<first>>
  <2> HIDE DEF one
  <2>5. /\ list \in Seq(Value) /\ list[1] = first /\ 1 \in DOMAIN list
        /\ \A i \in DOMAIN rest : 1 + i \in DOMAIN list /\ list[1 + i] = rest[i]
        /\ \A k \in DOMAIN list : k = 1 \/ (k - 1 \in DOMAIN rest /\ k > 1)
    <3>1. one \in Seq(Value) /\ rest \in Seq(Value) /\ DOMAIN one = {1} /\ Len(one) = 1 /\ one[1] = first
      BY <2>4 DEF one
    <3>2. /\ one \o rest \in Seq(Value)
          /\ \A i \in DOMAIN one : (one \o rest)[i] = one[i]
          /\ \A i \in DOMAIN rest : Len(one) + i \in DOMAIN (one \o rest) /\ (one \o rest)[Len(one) + i] = rest[i]
          /\ \A k \in DOMAIN (one \o rest) : k \in DOMAIN one \/ (k - Len(one) \in DOMAIN rest /\ k > Len(one))
      <4>1. one \in Seq(Value) /\ rest \in Seq(Value)
        BY <3>1
      <4> QED BY ONLY <4>1, Joined
    <3>3. list = one \o rest
      BY <2>1 DEF one
    <3>4. list # <<>>
      <4>1. Len(one \o rest) = Len(one) + Len(rest)
        BY <3>1, ConcatProperties
      <4> QED BY <2>3, <3>1, <3>3, <4>1
    <3>5. 1 \in DOMAIN list
      BY <3>2, <3>3, <3>4
    <3> QED BY <3>1, <3>2, <3>3, <3>5
  <2>6. ASSUME NEW j \in DOMAIN list, j # 1 PROVE list[j] \in OneOf(v, program)
    <3>1. j - 1 \in DOMAIN rest /\ j \in Nat /\ 1 + (j - 1) = j
      BY <2>5, <2>6
    <3>2. list[j] = rest[j - 1]
      BY <2>5, <3>1
    <3> QED BY <2>3, <3>1, <3>2
  <2>7. ASSUME NEW o \in OneOf(v, program) PROVE \E j \in DOMAIN list : j # 1 /\ list[j] = o
    <3>1. PICK i \in 1..n : rest[i] = o
      BY <2>3
    <3>2. i \in DOMAIN rest /\ 1 + i # 1
      BY <2>3, <2>4
    <3>3. 1 + i \in DOMAIN list /\ list[1 + i] = o
      BY <2>5, <3>1, <3>2
    <3> QED BY <3>2, <3>3
  <2> QED BY <1>4, <2>5, <2>6, <2>7 DEF list, first
<1>5. CASE kind[v] \notin {"cast", "phi", "select", "alloca", "load"}
  <2>1. list = <<>>
    BY <1>5 DEF Follow
  <2> QED BY <1>5, <2>1
<1> QED BY <1>2, <1>3, <1>4, <1>5

-----------------------------------------------------------------------------
(* One value of a walk. *)

\* The layers the value v names.
Named1(v) == IF kind[v] = "gep" THEN {cell[v]} \cap Layer ELSE {}

\* walk2 is walk after the value of from.
Visits(walk, walk2, from, mode, program) ==
  LET v == from.value
      list == Follow(v, program) IN
  /\ from \in ToSet(walk.todo) /\ v \in Value /\ v \notin Unvisited \cup walk.visited
  /\ walk2 \in Walks /\ walk2.visited = walk.visited \cup {v}
  /\ ToSet(walk2.TyList) = ToSet(walk.TyList) \cup Named1(v)
  /\ walk2.ok => /\ walk.ok
                 /\ from.counts => kind[v] # "data" /\ (kind[v] = "gep" => cell[v] \in Layer)
                 /\ \A j \in DOMAIN list : Counts(from, j, mode) => list[j] \notin Unvisited
  /\ \A j \in DOMAIN list :
       \E e \in ToSet(walk2.todo) : e.value = list[j] /\ (Counts(from, j, mode) => e.counts)
  /\ \A e \in ToSet(walk2.todo) : \/ e \in ToSet(walk.todo)
                                  \/ \E j \in DOMAIN list : e.value = list[j] /\ (Counts(from, j, mode) => e.counts)
                                                                           /\ (e.counts => Counts(from, j, mode))
  /\ \A e \in ToSet(walk.todo) : e \in ToSet(walk2.todo) \/ e.value \in Unvisited \cup walk2.visited

LEMMA WalkType ==
  ASSUME NEW walk \in Walks
  PROVE  /\ walk.ok \in BOOLEAN /\ walk.TyList \in Seq(Cell) /\ walk.visited \in SUBSET Value
         /\ walk.todo \in Seq(Waiting) /\ ToSet(walk.todo) \subseteq Waiting
         /\ \A e \in ToSet(walk.todo) : e.value \in Value /\ e.counts \in BOOLEAN
<1>1. walk.ok \in BOOLEAN /\ walk.TyList \in Seq(Cell) /\ walk.visited \in SUBSET Value /\ walk.todo \in Seq(Waiting)
  BY DEF Walks
<1>2. ToSet(walk.todo) \subseteq Waiting
  BY <1>1, Elements
<1>3. \A e \in Waiting : e.value \in Value /\ e.counts \in BOOLEAN
  BY DEF Waiting
<1> QED BY <1>1, <1>2, <1>3

LEMMA GEPLayer ==
  ASSUME NEW v \in Value, kind[v] = "gep"
  PROVE  /\ cell[v] \in Cell /\ getGEPLayerTypes(v) = Named1(v)
         /\ SetToSeq(getGEPLayerTypes(v)) \in Seq(Cell)
         /\ ToSet(SetToSeq(getGEPLayerTypes(v))) = Named1(v)
<1>1. cell[v] \in Cell
  BY CodeAssumption
<1> DEFINE S == getGEPLayerTypes(v)
<1>2. S = Named1(v) /\ S \subseteq Cell
  BY <1>1 DEF getGEPLayerTypes, Named1
<1>3. IsFiniteSet(S)
  <2>1. IsFiniteSet({cell[v]}) /\ S \in SUBSET {cell[v]}
    BY FS_Singleton DEF getGEPLayerTypes
  <2> QED BY <2>1, FS_Subset
<1> DEFINE t == SetToSeq(S)
<1> HIDE DEF S
<1>4. /\ Cardinality(S) \in Nat /\ t \in Seq(S) /\ Len(t) = Cardinality(S)
      /\ \A x \in S : \E i \in 1..Cardinality(S) : t[i] = x
  BY <1>3, SetToSeqLists
<1> HIDE DEF t
<1>5. t \in Seq(Cell) /\ \A i \in DOMAIN t : t[i] \in S
  BY <1>2, <1>4
<1>6. ToSet(t) = S
  BY <1>4, <1>5 DEF ToSet
<1> QED BY <1>1, <1>2, <1>5, <1>6 DEF S, t

LEMMA VisitFacts ==
  ASSUME NEW walk \in Walks, NEW mode \in Modes, NEW program \in SUBSET Items, Open(walk) # {}
  PROVE  \E from \in Waiting : Visits(walk, Visit(walk, mode, program), from, mode, program)
<1> DEFINE i == Min(Open(walk))
           from == walk.todo[i]
           v == from.value
           list == Follow(v, program)
           layers == IF kind[v] = "gep" THEN getGEPLayerTypes(v) ELSE {}
           fails == \/ from.counts /\ (kind[v] = "data" \/ (kind[v] = "gep" /\ layers = {}))
                    \/ \E j \in DOMAIN list : Counts(from, j, mode) /\ list[j] \in Unvisited
           new == [j \in DOMAIN list |-> [value |-> list[j], counts |-> Counts(from, j, mode)]]
           rest == SubSeq(walk.todo, i + 1, Len(walk.todo))
           walk2 == Visit(walk, mode, program)
<1>1. /\ walk.ok \in BOOLEAN /\ walk.TyList \in Seq(Cell) /\ walk.visited \in SUBSET Value
      /\ walk.todo \in Seq(Waiting)
  BY WalkType
<1>2. /\ i \in Open(walk) /\ i \in DOMAIN walk.todo /\ i \in 1..Len(walk.todo)
      /\ \A j \in Open(walk) : i <= j
  <2>1. Open(walk) \in SUBSET Nat
    BY <1>1 DEF Open
  <2>2. i \in Open(walk) /\ \A j \in Open(walk) : i <= j
    BY <2>1, LeastExists
  <2> QED BY <1>1, <2>2 DEF Open
<1>3. from \in Waiting /\ from \in ToSet(walk.todo) /\ v \in Value /\ from.counts \in BOOLEAN /\ v \notin Unvisited \cup walk.visited
  <2>1. from \in Waiting /\ from \in ToSet(walk.todo)
    BY <1>1, <1>2 DEF ToSet
  <2> QED BY <1>2, <2>1 DEF Waiting, Open
<1>4. walk2 = [ok |-> walk.ok /\ ~fails, TyList |-> walk.TyList \o SetToSeq(layers),
               visited |-> walk.visited \cup {v}, todo |-> new \o rest]
  BY DEF Visit, After, Fails, Counts
<1> HIDE DEF walk2
<1>5. list \in Seq(Value)
  BY <1>3, FollowFacts
<1>6. /\ rest \in Seq(Waiting) /\ ToSet(rest) = {walk.todo[j] : j \in (i + 1)..Len(walk.todo)}
  BY <1>1, <1>2, Rest
<1>7. /\ new \in Seq(Waiting) /\ DOMAIN new = DOMAIN list
      /\ \A j \in DOMAIN list : new[j].value = list[j] /\ (Counts(from, j, mode) => new[j].counts)
                                                       /\ (new[j].counts => Counts(from, j, mode))
  <2> HIDE DEF from, list
  <2>1. \A j \in DOMAIN list : list[j] \in Value /\ Counts(from, j, mode) \in BOOLEAN
    BY <1>3, <1>5 DEF Counts
  <2>2. \A j \in DOMAIN list : [value |-> list[j], counts |-> Counts(from, j, mode)] \in Waiting
    BY <2>1, Zenon DEF Waiting
  <2>3. PICK n \in Nat : DOMAIN list = 1..n
    BY <1>5
  <2>4. new \in [1..n -> Waiting]
    BY <2>2, <2>3
  <2>5. new \in Seq(Waiting) /\ DOMAIN new = DOMAIN list
    BY <2>3, <2>4
  <2>6. \A j \in DOMAIN list : new[j] = [value |-> list[j], counts |-> Counts(from, j, mode)]
    OBVIOUS
  <2> HIDE DEF new
  <2> QED BY <2>5, <2>6
<1>8. SetToSeq(layers) \in Seq(Cell) /\ ToSet(SetToSeq(layers)) = Named1(v)
  <2>1. CASE kind[v] = "gep"
    BY <1>3, <2>1, GEPLayer
  <2>2. CASE kind[v] # "gep"
    <3>1. layers = {} /\ Named1(v) = {}
      BY <2>2 DEF Named1
    <3>2. SetToSeq({}) = <<>>
      <4>1. /\ Cardinality({}) = 0 /\ SetToSeq({}) \in Seq({}) /\ Len(SetToSeq({})) = Cardinality({})
        BY FS_EmptySet, SetToSeqLists
      <4> QED BY <4>1
    <3>3. <<>> \in Seq(Cell) /\ ToSet(<<>>) = {}
      BY DEF ToSet
    <3> HIDE DEF layers
    <3> QED BY <3>1, <3>2, <3>3
  <2> QED BY <2>1, <2>2
<1>9. (walk.ok /\ ~fails) \in BOOLEAN
  OBVIOUS
<1>10. /\ new \o rest \in Seq(Waiting) /\ ToSet(new \o rest) = ToSet(new) \cup ToSet(rest)
  <2> HIDE DEF new, rest
  <2> QED BY <1>6, <1>7, Joined
<1>11. /\ walk.TyList \o SetToSeq(layers) \in Seq(Cell)
       /\ ToSet(walk.TyList \o SetToSeq(layers)) = ToSet(walk.TyList) \cup Named1(v)
  <2> DEFINE more == SetToSeq(layers)
  <2>1. more \in Seq(Cell) /\ ToSet(more) = Named1(v)
    BY <1>8
  <2> HIDE DEF more
  <2>2. walk.TyList \o more \in Seq(Cell) /\ ToSet(walk.TyList \o more) = ToSet(walk.TyList) \cup ToSet(more)
    BY <1>1, <2>1, Joined
  <2> QED BY <2>1, <2>2 DEF more
<1>12. walk2 \in Walks
  <2> HIDE DEF fails, layers, new, rest, from, i, list
  <2>1. walk.visited \cup {v} \in SUBSET Value
    BY <1>1, <1>3
  <2> HIDE DEF v
  <2> QED BY <1>4, <1>9, <1>10, <1>11, <2>1, Zenon DEF Walks
<1>13. /\ walk2.visited = walk.visited \cup {v} /\ walk2.TyList = walk.TyList \o SetToSeq(layers)
       /\ walk2.todo = new \o rest /\ (walk2.ok => walk.ok /\ ~fails)
  <2> HIDE DEF fails, layers, new, rest, v
  <2> QED BY <1>4
<1>14. walk2.ok => /\ walk.ok
                   /\ from.counts => kind[v] # "data" /\ (kind[v] = "gep" => cell[v] \in Layer)
                   /\ \A j \in DOMAIN list : Counts(from, j, mode) => list[j] \notin Unvisited
  <2>1. kind[v] = "gep" /\ cell[v] \notin Layer => layers = {}
    BY DEF getGEPLayerTypes
  <2> HIDE DEF layers, v, list, from
  <2> QED BY <1>13, <2>1
<1>15. ASSUME NEW j \in DOMAIN list
       PROVE  \E e \in ToSet(walk2.todo) : e.value = list[j] /\ (Counts(from, j, mode) => e.counts)
  <2> HIDE DEF new, list, from, rest
  <2>1. new[j] \in ToSet(walk2.todo)
    <3>1. new[j] \in ToSet(new)
      BY <1>7, <1>15 DEF ToSet
    <3> QED BY <1>10, <1>13, <3>1
  <2> QED BY <1>7, <1>15, <2>1
<1>16. ASSUME NEW e \in ToSet(walk2.todo)
       PROVE  \/ e \in ToSet(walk.todo)
              \/ \E j \in DOMAIN list : e.value = list[j] /\ (Counts(from, j, mode) => e.counts)
                                                        /\ (e.counts => Counts(from, j, mode))
  <2>1. CASE e \in ToSet(rest)
    <3>1. PICK j \in (i + 1)..Len(walk.todo) : e = walk.todo[j]
      BY <1>6, <2>1
    <3>2. j \in DOMAIN walk.todo
      BY <1>1, <1>2
    <3> QED BY <3>1, <3>2 DEF ToSet
  <2>2. CASE e \in ToSet(new)
    <3> HIDE DEF new, list, from
    <3>1. PICK j \in DOMAIN new : e = new[j]
      BY <2>2 DEF ToSet
    <3> QED BY <1>7, <3>1
  <2> HIDE DEF new, rest, list, from, i
  <2> QED BY <1>10, <1>13, <1>16, <2>1, <2>2
<1>17. ASSUME NEW e \in ToSet(walk.todo)
       PROVE  e \in ToSet(walk2.todo) \/ e.value \in Unvisited \cup walk2.visited
  <2>1. PICK j \in DOMAIN walk.todo : e = walk.todo[j]
    BY <1>17 DEF ToSet
  <2>2. CASE j \in Open(walk) /\ j # i
    <3> HIDE DEF i
    <3>0. Len(walk.todo) \in Nat /\ j \in 1..Len(walk.todo) /\ i \in 1..Len(walk.todo) /\ i <= j
      BY <1>1, <1>2, <2>2
    <3>1. j \in (i + 1)..Len(walk.todo)
      BY <2>2, <3>0
    <3>2. e \in ToSet(rest)
      <4> HIDE DEF rest
      <4> QED BY <1>6, <2>1, <3>1
    <3> HIDE DEF new, rest
    <3> QED BY <1>10, <1>13, <3>2
  <2>3. CASE j = i
    <3>1. e.value = v
      BY <2>1, <2>3
    <3> HIDE DEF v
    <3> QED BY <1>13, <3>1
  <2>4. CASE j \notin Open(walk)
    <3>1. e.value \in Unvisited \cup walk.visited
      BY <2>1, <2>4 DEF Open
    <3> HIDE DEF v
    <3> QED BY <1>13, <3>1
  <2> QED BY <2>2, <2>3, <2>4
<1>18. ToSet(walk2.TyList) = ToSet(walk.TyList) \cup Named1(v)
  <2> HIDE DEF layers, v
  <2> QED BY <1>11, <1>13
<1> HIDE DEF i, fails, layers, new, rest
<1>19. Visits(walk, walk2, from, mode, program)
  <2> HIDE DEF from
  <2> QED BY <1>3, <1>12, <1>13, <1>14, <1>15, <1>16, <1>17, <1>18 DEF Visits
<1> QED BY <1>3, <1>19 DEF walk2

-----------------------------------------------------------------------------
(* Whole walks. *)

LEMMA VisitType ==
  ASSUME NEW mode \in Modes, NEW program \in SUBSET Items, NEW walk \in Walks, Open(walk) # {}
  PROVE  Visit(walk, mode, program) \in Walks
BY VisitFacts DEF Visits

\* The recursive function nextLayerBaseType_new is defined with exists.
LEMMA VisitsExist ==
  ASSUME NEW mode \in Modes, NEW program \in SUBSET Items
  PROVE  \E r \in [Nat -> [Walks -> Walks]] :
           /\ nextLayerBaseType_new(mode, program) = r[Cardinality(Value)]
           /\ \A walk \in Walks : r[0][walk] = walk
           /\ \A n \in Nat, walk \in Walks :
                r[n + 1][walk] = IF Open(walk) = {} THEN walk ELSE r[n][Visit(walk, mode, program)]
<1> DEFINE V == [Walks -> Walks]
           base == [walk \in Walks |-> walk]
           On(g, walk) == IF Open(walk) = {} THEN walk ELSE g[Visit(walk, mode, program)]
           step == [g \in V |-> [walk \in Walks |-> On(g, walk)]]
           All(n, g) == [walk \in Walks |-> IF n = 0 \/ Open(walk) = {} THEN walk ELSE g[Visit(walk, mode, program)]]
           R == CHOOSE r : r = [n \in Nat |-> All(n, r[n - 1])]
<1>1. base \in V /\ step \in [V -> V]
  <2>1. ASSUME NEW g \in V PROVE [walk \in Walks |-> On(g, walk)] \in V
    <3>1. \A walk \in Walks : On(g, walk) \in Walks
      BY VisitType
    <3> HIDE DEF On
    <3> QED BY <3>1
  <2> HIDE DEF On
  <2> QED BY <2>1
<1>2. PICK r \in [Nat -> V] : \A n \in Nat : r[n] = IF n = 0 THEN base ELSE step[r[n - 1]]
  <2> HIDE DEF V, base, step
  <2> QED BY <1>1, IterationExists
<1>3. \A n \in Nat : r[n] = All(n, r[n - 1])
  <2>1. r[0] = All(0, r[0 - 1])
    <3>1. r[0] = base
      BY <1>2
    <3>2. All(0, r[0 - 1]) = base
      OBVIOUS
    <3> QED BY <3>1, <3>2
  <2>2. ASSUME NEW n \in Nat, n # 0 PROVE r[n] = All(n, r[n - 1])
    <3>1. r[n] = step[r[n - 1]] /\ r[n - 1] \in V
      <4> HIDE DEF step, base, V
      <4> QED BY <1>2, <2>2
    <3>2. step[r[n - 1]] = [walk \in Walks |-> On(r[n - 1], walk)]
      <4> HIDE DEF On, V
      <4> QED BY <3>1
    <3>3. [walk \in Walks |-> On(r[n - 1], walk)] = All(n, r[n - 1])
      BY <2>2, Zenon
    <3> QED BY <3>1, <3>2, <3>3
  <2> HIDE DEF All
  <2> QED BY <2>1, <2>2
<1>4. r = [n \in Nat |-> All(n, r[n - 1])]
  <2> HIDE DEF All
  <2>1. r = [n \in Nat |-> r[n]]
    BY <1>2
  <2>2. [n \in Nat |-> r[n]] = [n \in Nat |-> All(n, r[n - 1])]
    BY <1>3, Zenon
  <2> QED BY <2>1, <2>2, Zenon
<1>5. R = [n \in Nat |-> All(n, R[n - 1])]
  <2> HIDE DEF All
  <2> QED BY <1>4, Zenon
<1>6. nextLayerBaseType_new(mode, program) = R[Cardinality(Value)]
  BY Zenon DEF nextLayerBaseType_new
<1> HIDE DEF R
<1>7. \A n \in Nat : R[n] = All(n, R[n - 1])
  <2> HIDE DEF All
  <2> QED BY <1>5
<1> DEFINE P == {n \in Nat : R[n] \in V}
<1>8. \A n \in Nat : R[n] \in V
  <2>1. 0 \in P
    <3>1. R[0] = All(0, R[0 - 1])
      BY <1>7
    <3>2. All(0, R[0 - 1]) = base
      OBVIOUS
    <3> QED BY <1>1, <3>1, <3>2
  <2>2. ASSUME NEW n \in P PROVE n + 1 \in P
    <3>1. n + 1 \in Nat /\ n + 1 # 0 /\ n + 1 - 1 = n
      BY <2>2
    <3>2. R[n + 1] = All(n + 1, R[n])
      <4> HIDE DEF All
      <4>1. R[n + 1] = All(n + 1, R[n + 1 - 1])
        BY <1>7, <3>1
      <4> QED BY <3>1, <4>1
    <3>3. \A walk \in Walks : Open(walk) # {} => Visit(walk, mode, program) \in Walks
      BY VisitType
    <3>4. All(n + 1, R[n]) \in V
      BY <2>2, <3>1, <3>3
    <3> HIDE DEF All, V
    <3> QED BY <3>1, <3>2, <3>4
  <2>3. P \in SUBSET Nat
    OBVIOUS
  <2> HIDE DEF P
  <2>4. P = Nat
    BY <2>1, <2>2, <2>3, SetInduction
  <2> QED BY <2>4 DEF P
<1>9. R \in [Nat -> V]
  <2> HIDE DEF All, V
  <2> QED BY <1>5, <1>8
<1>10. \A walk \in Walks : R[0][walk] = walk
  <2>1. R[0] = All(0, R[0 - 1])
    BY <1>7
  <2> QED BY <2>1
<1>11. ASSUME NEW n \in Nat, NEW walk \in Walks
       PROVE  R[n + 1][walk] = IF Open(walk) = {} THEN walk ELSE R[n][Visit(walk, mode, program)]
  <2>1. n + 1 \in Nat /\ n + 1 # 0 /\ n + 1 - 1 = n
    OBVIOUS
  <2>2. R[n + 1] = All(n + 1, R[n])
    <3> HIDE DEF All
    <3>1. R[n + 1] = All(n + 1, R[n + 1 - 1])
      BY <1>7, <2>1
    <3> QED BY <2>1, <3>1
  <2> QED BY <2>1, <2>2
<1> QED BY <1>6, <1>9, <1>10, <1>11

\* A walk keeps what each visit keeps, and ends when nothing is open.
LEMMA WalkKeeps ==
  ASSUME NEW mode \in Modes, NEW program \in SUBSET Items, NEW I \in SUBSET Walks,
         \A walk \in I : Open(walk) # {} => Visit(walk, mode, program) \in I,
         NEW start \in I
  PROVE  LET walk == nextLayerBaseType_new(mode, program)[start] IN walk \in I /\ Open(walk) = {}
<1> DEFINE next(walk) == Visit(walk, mode, program)
           left(walk) == Cardinality(Value \ walk.visited)
<1>1. PICK r \in [Nat -> [Walks -> Walks]] :
           /\ nextLayerBaseType_new(mode, program) = r[Cardinality(Value)]
           /\ \A walk \in Walks : r[0][walk] = walk
           /\ \A n \in Nat, walk \in Walks : r[n + 1][walk] = IF Open(walk) = {} THEN walk ELSE r[n][next(walk)]
  BY VisitsExist
<1>2. \A walk \in I : Open(walk) # {} => next(walk) \in I
  OBVIOUS
<1>3. \A walk \in Walks : left(walk) \in Nat /\ left(walk) <= Cardinality(Value)
  <2> SUFFICES ASSUME NEW walk \in Walks PROVE left(walk) \in Nat /\ left(walk) <= Cardinality(Value)
    OBVIOUS
  <2>1. Value \ walk.visited \in SUBSET Value /\ IsFiniteSet(Value) /\ IsFiniteSet(Value \ walk.visited)
    BY CodeAssumption, ValueSets
  <2> QED BY <2>1, FS_CardinalityType, FS_Subset
<1>4. ASSUME NEW walk \in Walks, Open(walk) # {} PROVE left(walk) # 0 /\ left(next(walk)) = left(walk) - 1
  <2>1. PICK from \in Waiting : Visits(walk, next(walk), from, mode, program)
    BY <1>4, VisitFacts
  <2> DEFINE v == from.value
             w2 == next(walk)
  <2>2. v \in Value \ walk.visited /\ w2.visited = walk.visited \cup {v}
    <3> HIDE DEF next
    <3> QED BY <2>1 DEF Visits
  <2> HIDE DEF v, w2
  <2>3. Value \ w2.visited = (Value \ walk.visited) \ {v}
    BY <2>2
  <2>4. IsFiniteSet(Value \ walk.visited)
    BY ValueSets
  <2>5. Cardinality((Value \ walk.visited) \ {v}) = Cardinality(Value \ walk.visited) - 1
    BY <2>2, <2>4, FS_RemoveElement
  <2>6. Cardinality(Value \ walk.visited) # 0
    BY <2>2, <2>4, FS_EmptySet
  <2> QED BY <2>3, <2>5, <2>6 DEF w2
<1> DEFINE P == {n \in Nat : \A walk \in I : left(walk) <= n => r[n][walk] \in I /\ Open(r[n][walk]) = {}}
<1> HIDE DEF left, next
<1>5. 0 \in P
  <2> SUFFICES ASSUME NEW walk \in I, left(walk) <= 0 PROVE r[0][walk] \in I /\ Open(r[0][walk]) = {}
    BY DEF P
  <2>1. walk \in Walks /\ r[0][walk] = walk
    BY <1>1
  <2>2. left(walk) = 0
    BY <1>3, <2>1
  <2> QED BY <1>4, <2>1, <2>2
<1>6. ASSUME NEW n \in P PROVE n + 1 \in P
  <2>0. n \in Nat /\ n + 1 \in Nat
    BY <1>6
  <2> DEFINE Done(walk) == r[n + 1][walk] \in I /\ Open(r[n + 1][walk]) = {}
  <2> SUFFICES ASSUME NEW walk \in I, left(walk) <= n + 1 PROVE Done(walk)
    <3>1. (\A walk \in I : left(walk) <= n + 1 => Done(walk)) => n + 1 \in P
      BY <2>0
    <3> HIDE DEF P, Done
    <3> QED BY <3>1
  <2>1. walk \in Walks /\ r[n + 1][walk] = IF Open(walk) = {} THEN walk ELSE r[n][next(walk)]
    BY <1>1, <1>6
  <2>2. CASE Open(walk) = {}
    BY <2>1, <2>2
  <2>3. CASE Open(walk) # {}
    <3>1. next(walk) \in I /\ left(next(walk)) <= n
      BY <1>2, <1>3, <1>4, <1>6, <2>1, <2>3
    <3> QED BY <1>6, <2>1, <2>3, <3>1
  <2> QED BY <2>2, <2>3
<1>7. P = Nat
  <2>1. P \in SUBSET Nat
    OBVIOUS
  <2> HIDE DEF P
  <2> QED BY <1>5, <1>6, <2>1, SetInduction
<1>8. Cardinality(Value) \in Nat
  BY CodeAssumption, FS_CardinalityType
<1>9. Cardinality(Value) \in P /\ left(start) <= Cardinality(Value)
  BY <1>3, <1>7, <1>8
<1> QED BY <1>1, <1>9

WalkIn(v, mode, program) == nextLayerBaseType_new(mode, program)[Start(v)]

\* What is visited, or not to be, or will be.
Pending(walk) == Unvisited \cup walk.visited \cup {e.value : e \in ToSet(walk.todo)}
Data == {v \in Value : kind[v] = "data"}

LEMMA StartFacts ==
  ASSUME NEW v \in Value
  PROVE  /\ Start(v) \in Walks /\ Start(v).visited = {} /\ Start(v).TyList = <<>> /\ ToSet(Start(v).TyList) = {}
         /\ ToSet(Start(v).todo) = {[value |-> v, counts |-> TRUE]}
         /\ v \in Pending(Start(v)) /\ (v \in Unvisited => ~Start(v).ok /\ Open(Start(v)) = {})
<1> DEFINE e == [value |-> v, counts |-> TRUE]
           todo1 == <<e>>
<1>1. e \in Waiting
  BY DEF Waiting
<1>2. todo1 \in Seq(Waiting) /\ DOMAIN todo1 = {1} /\ todo1[1] = e /\ ToSet(todo1) = {e}
  <2> HIDE DEF e
  <2>1. todo1 \in Seq(Waiting) /\ DOMAIN todo1 = {1} /\ todo1[1] = e
    BY <1>1
  <2> HIDE DEF todo1
  <2> QED BY <2>1 DEF ToSet
<1>3. ToSet(<<>>) = {} /\ <<>> \in Seq(Cell) /\ {} \in SUBSET Value /\ (v \notin Unvisited) \in BOOLEAN
  BY DEF ToSet
<1> DEFINE s == [ok |-> v \notin Unvisited, TyList |-> <<>>, visited |-> {}, todo |-> todo1]
<1>4. Start(v) = s
  BY DEF Start
<1>5. s \in Walks
  <2> HIDE DEF todo1
  <2> QED BY <1>2, <1>3, Zenon DEF Walks
<1>6. /\ Start(v).visited = {} /\ Start(v).TyList = <<>> /\ Start(v).todo = todo1
      /\ v \in Unvisited => ~Start(v).ok
  <2>1. s.visited = {} /\ s.TyList = <<>> /\ s.todo = todo1
    BY Zenon
  <2>2. v \in Unvisited => ~s.ok
    BY Zenon
  <2> HIDE DEF s
  <2> QED BY <1>4, <2>1, <2>2
<1> HIDE DEF todo1, s
<1>7. v \in Pending(Start(v))
  <2>1. e.value = v
    OBVIOUS
  <2> HIDE DEF e
  <2> QED BY <1>2, <1>6, <2>1 DEF Pending
<1>8. v \in Unvisited => Open(Start(v)) = {}
  BY <1>2, <1>6 DEF Open
<1> QED BY <1>2, <1>3, <1>4, <1>5, <1>6, <1>7, <1>8

\* What waits, waits until it is visited.
LEMMA PendingStays ==
  ASSUME NEW walk, NEW walk2, NEW from, NEW mode, NEW program, Visits(walk, walk2, from, mode, program)
  PROVE  Pending(walk) \subseteq Pending(walk2) /\ ToSet(Follow(from.value, program)) \subseteq Pending(walk2)
<1>1. Pending(walk) \subseteq Pending(walk2)
  <2>1. walk.visited \subseteq walk2.visited
    BY DEF Visits
  <2>2. \A e \in ToSet(walk.todo) : e.value \in Pending(walk2)
    BY DEF Visits, Pending
  <2> QED BY <2>1, <2>2 DEF Pending
<1>2. \A j \in DOMAIN Follow(from.value, program) : Follow(from.value, program)[j] \in Pending(walk2)
  BY DEF Visits, Pending
<1> QED BY <1>1, <1>2 DEF ToSet

LEMMA NothingPending ==
  ASSUME NEW walk, Open(walk) = {} PROVE Pending(walk) = Unvisited \cup walk.visited
BY DEF Open, Pending, ToSet

\* A walk visits all that follows on what it visits, and TyList has the layers it visits.
LEMMA WalkCloses ==
  ASSUME NEW v \in Value, NEW mode \in Modes, NEW program \in SUBSET Items
  PROVE  LET walk == WalkIn(v, mode, program) IN
         /\ walk \in Walks /\ walk.visited \in SUBSET Value /\ walk.visited \cap Unvisited = {}
         /\ v \in Unvisited \cup walk.visited
         /\ \A u \in walk.visited : ToSet(Follow(u, program)) \subseteq Unvisited \cup walk.visited
         /\ ToSet(walk.TyList) = UNION {Named1(u) : u \in walk.visited}
         /\ ToSet(walk.TyList) \subseteq Layer /\ walk.TyList \in Seq(Cell)
<1> DEFINE I == {walk \in Walks :
                   /\ walk.visited \cap Unvisited = {} /\ v \in Pending(walk)
                   /\ \A u \in walk.visited : ToSet(Follow(u, program)) \subseteq Pending(walk)
                   /\ ToSet(walk.TyList) = UNION {Named1(u) : u \in walk.visited}}
           walk == WalkIn(v, mode, program)
<1>1. ASSUME NEW w \in I, Open(w) # {} PROVE Visit(w, mode, program) \in I
  <2> DEFINE w2 == Visit(w, mode, program)
  <2>1. PICK from \in Waiting : Visits(w, w2, from, mode, program)
    BY <1>1, VisitFacts
  <2> HIDE DEF w2
  <2>2. /\ w2 \in Walks /\ w2.visited = w.visited \cup {from.value} /\ from.value \notin Unvisited
        /\ ToSet(w2.TyList) = ToSet(w.TyList) \cup Named1(from.value)
    BY <2>1 DEF Visits
  <2>3. Pending(w) \subseteq Pending(w2) /\ ToSet(Follow(from.value, program)) \subseteq Pending(w2)
    BY <2>1, PendingStays
  <2>4. ToSet(w2.TyList) = UNION {Named1(u) : u \in w2.visited}
    BY <1>1, <2>2
  <2>5. \A u \in w2.visited : ToSet(Follow(u, program)) \subseteq Pending(w2)
    BY <1>1, <2>2, <2>3
  <2>6. w2.visited \cap Unvisited = {} /\ v \in Pending(w2)
    BY <1>1, <2>2, <2>3
  <2> QED BY <2>2, <2>4, <2>5, <2>6 DEF w2
<1>2. Start(v) \in I
  <2>1. UNION {Named1(u) : u \in {}} = {}
    OBVIOUS
  <2> QED BY <2>1, StartFacts
<1>3. I \in SUBSET Walks
  OBVIOUS
<1> HIDE DEF I
<1>4. walk \in I /\ Open(walk) = {}
  BY <1>1, <1>2, <1>3, WalkKeeps DEF WalkIn
<1> HIDE DEF walk
<1>5. Pending(walk) = Unvisited \cup walk.visited
  BY <1>4, NothingPending
<1>6. /\ walk \in Walks /\ walk.visited \cap Unvisited = {} /\ v \in Pending(walk)
      /\ \A u \in walk.visited : ToSet(Follow(u, program)) \subseteq Pending(walk)
      /\ ToSet(walk.TyList) = UNION {Named1(u) : u \in walk.visited}
  BY <1>4 DEF I
<1>7. UNION {Named1(u) : u \in walk.visited} \subseteq Layer
  BY DEF Named1
<1>8. walk.visited \in SUBSET Value /\ walk.TyList \in Seq(Cell)
  BY <1>6, WalkType
<1> QED BY <1>5, <1>6, <1>7, <1>8 DEF walk

\* The walk from an argument, a call, a global or a function ends where it starts.
LEMMA UnvisitedFails ==
  ASSUME NEW v \in Value, v \in Unvisited, NEW mode \in Modes, NEW program \in SUBSET Items
  PROVE  ~WalkIn(v, mode, program).ok /\ WalkIn(v, mode, program).TyList = <<>>
<1>1. Start(v) \in {Start(v)} /\ {Start(v)} \in SUBSET Walks /\ \A w \in {Start(v)} : Open(w) = {}
  BY StartFacts
<1>2. WalkIn(v, mode, program) \in {Start(v)}
  <2> DEFINE I == {Start(v)}
             s == Start(v)
  <2>1. s \in I /\ I \in SUBSET Walks /\ \A w \in I : Open(w) # {} => Visit(w, mode, program) \in I
    BY <1>1
  <2> HIDE DEF I, s
  <2>2. nextLayerBaseType_new(mode, program)[s] \in I
    BY <2>1, WalkKeeps
  <2> QED BY <2>2 DEF WalkIn, s, I
<1> QED BY <1>2, StartFacts


-----------------------------------------------------------------------------
(* The layers confined to a layer. *)

\* The recursive function within is defined with exists.
LEMMA WithinExists ==
  ASSUME NEW confine \in [Layer -> SUBSET Layer]
  PROVE  /\ Within(confine) \in [Nat -> [Layer -> SUBSET Layer]]
         /\ \A l \in Layer : Within(confine)[0][l] = {l}
         /\ \A n \in Nat, l \in Layer :
              Within(confine)[n + 1][l] = UNION {{k} \cup confine[k] : k \in Within(confine)[n][l]}
<1> DEFINE V == [Layer -> SUBSET Layer]
           base == [l \in Layer |-> {l}]
           On(g, l) == UNION {{k} \cup confine[k] : k \in g[l]}
           step == [g \in V |-> [l \in Layer |-> On(g, l)]]
           All(n, g) == [l \in Layer |-> IF n = 0 THEN {l} ELSE UNION {{k} \cup confine[k] : k \in g[l]}]
           R == CHOOSE r : r = [n \in Nat |-> All(n, r[n - 1])]
<1>1. base \in V /\ step \in [V -> V]
  <2>1. ASSUME NEW g \in V PROVE [l \in Layer |-> On(g, l)] \in V
    <3>1. \A l \in Layer : On(g, l) \in SUBSET Layer
      OBVIOUS
    <3> HIDE DEF On
    <3> QED BY <3>1
  <2> HIDE DEF On
  <2> QED BY <2>1
<1>2. PICK r \in [Nat -> V] : \A n \in Nat : r[n] = IF n = 0 THEN base ELSE step[r[n - 1]]
  <2> HIDE DEF V, base, step
  <2> QED BY <1>1, IterationExists
<1>3. \A n \in Nat : r[n] = All(n, r[n - 1])
  <2>1. r[0] = All(0, r[0 - 1])
    <3>1. r[0] = base
      BY <1>2
    <3>2. All(0, r[0 - 1]) = base
      OBVIOUS
    <3> QED BY <3>1, <3>2
  <2>2. ASSUME NEW n \in Nat, n # 0 PROVE r[n] = All(n, r[n - 1])
    <3>1. r[n] = step[r[n - 1]] /\ r[n - 1] \in V
      <4> HIDE DEF step, base, V
      <4> QED BY <1>2, <2>2
    <3>2. step[r[n - 1]] = [l \in Layer |-> On(r[n - 1], l)]
      <4> HIDE DEF On, V
      <4> QED BY <3>1
    <3>3. [l \in Layer |-> On(r[n - 1], l)] = All(n, r[n - 1])
      BY <2>2, Zenon
    <3> QED BY <3>1, <3>2, <3>3
  <2> HIDE DEF All
  <2> QED BY <2>1, <2>2
<1>4. r = [n \in Nat |-> All(n, r[n - 1])]
  <2> HIDE DEF All
  <2>1. r = [n \in Nat |-> r[n]]
    BY <1>2
  <2>2. [n \in Nat |-> r[n]] = [n \in Nat |-> All(n, r[n - 1])]
    BY <1>3, Zenon
  <2> QED BY <2>1, <2>2, Zenon
<1>5. R = [n \in Nat |-> All(n, R[n - 1])]
  <2> HIDE DEF All
  <2> QED BY <1>4, Zenon
<1>6. Within(confine) = R
  BY Zenon DEF Within
<1> HIDE DEF R
<1>7. \A n \in Nat : R[n] = All(n, R[n - 1])
  <2> HIDE DEF All
  <2> QED BY <1>5
<1> DEFINE P == {n \in Nat : R[n] \in V}
<1>8. \A l \in Layer : R[0][l] = {l}
  <2>1. R[0] = All(0, R[0 - 1])
    BY <1>7
  <2> QED BY <2>1
<1>9. ASSUME NEW n \in Nat PROVE R[n + 1] = [l \in Layer |-> On(R[n], l)]
  <2>1. n + 1 \in Nat /\ n + 1 # 0 /\ n + 1 - 1 = n
    OBVIOUS
  <2>2. R[n + 1] = All(n + 1, R[n])
    <3> HIDE DEF All
    <3>1. R[n + 1] = All(n + 1, R[n + 1 - 1])
      BY <1>7, <2>1
    <3> QED BY <2>1, <3>1
  <2>3. All(n + 1, R[n]) = [l \in Layer |-> On(R[n], l)]
    BY <2>1, Zenon
  <2> QED BY <2>2, <2>3
<1>10. \A n \in Nat : R[n] \in V
  <2>1. 0 \in P
    <3>1. R[0] = All(0, R[0 - 1])
      BY <1>7
    <3>2. All(0, R[0 - 1]) = base
      OBVIOUS
    <3> QED BY <1>1, <3>1, <3>2
  <2>2. ASSUME NEW n \in P PROVE n + 1 \in P
    <3>1. n \in Nat /\ n + 1 \in Nat /\ R[n] \in V
      BY <2>2
    <3>2. R[n + 1] = [l \in Layer |-> On(R[n], l)]
      BY <1>9, <3>1
    <3>3. \A l \in Layer : On(R[n], l) \in SUBSET Layer
      BY <3>1
    <3>4. [l \in Layer |-> On(R[n], l)] \in V
      <4> HIDE DEF On
      <4> QED BY <3>3
    <3> HIDE DEF V, On
    <3> QED BY <3>1, <3>2, <3>4
  <2>3. P \in SUBSET Nat
    OBVIOUS
  <2> HIDE DEF P
  <2>4. P = Nat
    BY <2>1, <2>2, <2>3, SetInduction
  <2> QED BY <2>4 DEF P
<1>11. R \in [Nat -> V]
  <2> HIDE DEF All, V
  <2> QED BY <1>5, <1>10
<1>12. \A n \in Nat, l \in Layer : R[n + 1][l] = UNION {{k} \cup confine[k] : k \in R[n][l]}
  <2> SUFFICES ASSUME NEW n \in Nat, NEW l \in Layer PROVE R[n + 1][l] = On(R[n], l)
    OBVIOUS
  <2>1. R[n + 1] = [k \in Layer |-> On(R[n], k)]
    BY <1>9
  <2> HIDE DEF On
  <2> QED BY <2>1
<1> QED BY <1>6, <1>8, <1>11, <1>12

\* What is confined to a layer, its closure.
Closure(confine, l) == Within(confine)[Cardinality(Layer)][l]

LEMMA LayersFinite == IsFiniteSet(Layer) /\ Cardinality(Layer) \in Nat /\ Layer \subseteq Cell
<1>1. IsFiniteSet(Layer) /\ Layer \subseteq Cell
  BY CodeAssumption, FS_Subset
<1> QED BY <1>1, FS_CardinalityType

LEMMA ClosureClosed ==
  ASSUME NEW confine \in [Layer -> SUBSET Layer], NEW l \in Layer
  PROVE  LET C == Closure(confine, l) IN
         /\ C \in SUBSET Layer /\ l \in C
         /\ \A k \in C : confine[k] \subseteq C
         /\ \A G \in SUBSET Layer : l \in G /\ (\A k \in G : confine[k] \subseteq G) => C \subseteq G
<1> DEFINE R == [n \in Nat |-> Within(confine)[n][l]]
           N == Cardinality(Layer)
           Closed(X) == \A k \in X : confine[k] \subseteq X
<1>1. /\ Within(confine) \in [Nat -> [Layer -> SUBSET Layer]]
      /\ \A k \in Layer : Within(confine)[0][k] = {k}
      /\ \A n \in Nat, k \in Layer :
           Within(confine)[n + 1][k] = UNION {{j} \cup confine[j] : j \in Within(confine)[n][k]}
  BY WithinExists
<1>2. R[0] = {l} /\ \A n \in Nat : R[n + 1] = UNION {{u} \cup confine[u] : u \in R[n]}
  BY <1>1
<1>3. \A n \in Nat : R[n] \in SUBSET Layer
  BY <1>1
<1>4. N \in Nat /\ IsFiniteSet(Layer) /\ Closure(confine, l) = R[N]
  BY LayersFinite DEF Closure
<1> HIDE DEF R
<1>5. \A n \in Nat : l \in R[n]
  <2> DEFINE P == {n \in Nat : l \in R[n]}
  <2>1. 0 \in P
    BY <1>2
  <2>2. ASSUME NEW n \in P PROVE n + 1 \in P
    <3>1. R[n + 1] = UNION {{u} \cup confine[u] : u \in R[n]} /\ l \in R[n] /\ n + 1 \in Nat
      BY <1>2, <2>2
    <3>2. l \in UNION {{u} \cup confine[u] : u \in R[n]}
      BY <3>1
    <3> QED BY <3>1, <3>2
  <2>3. P \in SUBSET Nat
    OBVIOUS
  <2> HIDE DEF P
  <2>4. P = Nat
    BY <2>1, <2>2, <2>3, SetInduction
  <2> QED BY <2>4 DEF P
<1>6. \A n \in Nat : Closed(R[n]) \/ Cardinality(R[n]) >= n
  <2> DEFINE P == {n \in Nat : Closed(R[n]) \/ Cardinality(R[n]) >= n}
  <2>0. \A n \in Nat : IsFiniteSet(R[n]) /\ Cardinality(R[n]) \in Nat
    BY <1>3, <1>4, FS_Subset, FS_CardinalityType
  <2>1. 0 \in P
    BY <2>0
  <2>2. ASSUME NEW n \in P PROVE n + 1 \in P
    <3>1. R[n + 1] = UNION {{u} \cup confine[u] : u \in R[n]}
      BY <1>2, <2>2
    <3>2. CASE Closed(R[n])
      <4>1. R[n + 1] = R[n]
        BY <3>1, <3>2
      <4> QED BY <2>2, <3>2, <4>1
    <3>3. CASE ~Closed(R[n])
      <4>1. PICK u \in R[n] : ~(confine[u] \subseteq R[n])
        BY <3>3
      <4>2. PICK w \in confine[u] : w \notin R[n]
        BY <4>1
      <4>3. R[n] \subseteq R[n + 1] /\ w \in R[n + 1]
        BY <3>1, <4>2
      <4>4. Cardinality(R[n]) <= Cardinality(R[n + 1]) /\ Cardinality(R[n]) # Cardinality(R[n + 1])
        BY <2>0, <2>2, <4>2, <4>3, FS_Subset
      <4>5. Cardinality(R[n]) >= n
        BY <2>2, <3>3
      <4>6. Cardinality(R[n + 1]) >= n + 1
        <5>1. n \in Nat /\ Cardinality(R[n]) \in Nat /\ Cardinality(R[n + 1]) \in Nat
          BY <2>0, <2>2
        <5> QED BY <4>4, <4>5, <5>1
      <4> HIDE DEF Closed
      <4> QED BY <2>2, <4>6
    <3> QED BY <3>2, <3>3
  <2> HIDE DEF Closed
  <2>3. P \in SUBSET Nat
    OBVIOUS
  <2> HIDE DEF P
  <2>4. P = Nat
    BY <2>1, <2>2, <2>3, SetInduction
  <2> QED BY <2>4 DEF P
<1>7. Closed(R[N])
  <2>1. CASE Cardinality(R[N]) >= N
    <3>1. R[N] = Layer
      <4>1. Cardinality(R[N]) <= N
        BY <1>3, <1>4, FS_Subset
      <4>2. Cardinality(R[N]) \in Nat
        BY <1>3, <1>4, FS_Subset, FS_CardinalityType
      <4>3. Cardinality(R[N]) = N
        BY <1>4, <2>1, <4>1, <4>2
      <4> QED BY <1>3, <1>4, <4>3, FS_Subset
    <3> QED BY <3>1
  <2> QED BY <1>4, <1>6, <2>1
<1>8. ASSUME NEW G \in SUBSET Layer, l \in G, \A k \in G : confine[k] \subseteq G
      PROVE  R[N] \subseteq G
  <2> DEFINE P == {n \in Nat : R[n] \subseteq G}
  <2>1. 0 \in P
    BY <1>2, <1>8
  <2>2. ASSUME NEW n \in P PROVE n + 1 \in P
    <3>1. R[n + 1] = UNION {{u} \cup confine[u] : u \in R[n]}
      BY <1>2, <2>2
    <3> QED BY <1>8, <2>2, <3>1
  <2>3. P \in SUBSET Nat
    OBVIOUS
  <2> HIDE DEF P
  <2>4. P = Nat
    BY <2>1, <2>2, <2>3, SetInduction
  <2> QED BY <1>4, <2>4 DEF P
<1> QED BY <1>3, <1>4, <1>5, <1>7, <1>8

\* A set of the first numbers has a greatest one.
LEMMA GreatestExists ==
  ASSUME NEW n \in Nat, NEW s \in SUBSET (1..n), s # {}
  PROVE  Max(s) \in s /\ \A y \in s : Max(s) >= y
<1> DEFINE Greatest(S) == \E x \in S : \A y \in S : x >= y
           P == {m \in Nat : \A S \in SUBSET (1..m) : S # {} => Greatest(S)}
<1>1. 0 \in P
  <2>1. 1..0 = {}
    OBVIOUS
  <2> QED BY <2>1
<1>2. ASSUME NEW m \in P PROVE m + 1 \in P
  <2> SUFFICES ASSUME NEW S \in SUBSET (1..(m + 1)), S # {} PROVE Greatest(S)
    OBVIOUS
  <2>1. CASE m + 1 \in S
    BY <2>1
  <2>2. CASE m + 1 \notin S
    <3>1. S \in SUBSET (1..m)
      BY <2>2
    <3> QED BY <1>2, <3>1
  <2> QED BY <2>1, <2>2
<1>3. P = Nat
  <2>1. P \in SUBSET Nat
    OBVIOUS
  <2> HIDE DEF P
  <2> QED BY <1>1, <1>2, <2>1, SetInduction
<1>4. Greatest(s)
  BY <1>3
<1> QED BY <1>4 DEF Max

-----------------------------------------------------------------------------
(* The targets of a call, from the maps. *)

\* What a layer leads to.
LEMMA LayerFacts ==
  MapsTypeOK =>
    \A l \in Layer :
      /\ Confined(l) \in SUBSET Layer /\ l \in Confined(l)
      /\ \A k \in Confined(l) : typeConfineMap[k] \subseteq Confined(l) /\ Confined(k) \subseteq Confined(l)
      /\ merge_set(l) \in SUBSET Function
      /\ \A c \in ICall, F \in SUBSET Function : FST(c, F, l) \in SUBSET Function
      /\ isEscape(l) => FirstEscape(l) \in Layer
<1> SUFFICES ASSUME MapsTypeOK, NEW l \in Layer
             PROVE  /\ Confined(l) \in SUBSET Layer /\ l \in Confined(l)
                    /\ \A k \in Confined(l) : typeConfineMap[k] \subseteq Confined(l) /\ Confined(k) \subseteq Confined(l)
                    /\ merge_set(l) \in SUBSET Function
                    /\ \A c \in ICall, F \in SUBSET Function : FST(c, F, l) \in SUBSET Function
                    /\ isEscape(l) => FirstEscape(l) \in Layer
  OBVIOUS
<1>1. typeConfineMap \in [Layer -> SUBSET Layer] /\ typeFuncsMap \in [Cell -> SUBSET Function]
      /\ Global_EmptyTy_Funcs \in [Sigs -> SUBSET Function]
  BY DEF MapsTypeOK
<1>2. \A k \in Layer : Confined(k) = Closure(typeConfineMap, k)
  BY DEF Confined, ConfinedIn, Closure
<1>3. /\ Confined(l) \in SUBSET Layer /\ l \in Confined(l)
      /\ \A k \in Confined(l) : typeConfineMap[k] \subseteq Confined(l)
  BY <1>1, <1>2, ClosureClosed
<1>4. ASSUME NEW k \in Confined(l) PROVE Confined(k) \subseteq Confined(l)
  <2> DEFINE G == Confined(l)
  <2>1. k \in Layer /\ G \in SUBSET Layer /\ k \in G /\ \A j \in G : typeConfineMap[j] \subseteq G
    BY <1>3, <1>4
  <2> HIDE DEF G
  <2>2. Closure(typeConfineMap, k) \subseteq G
    BY <1>1, <2>1, ClosureClosed
  <2> QED BY <1>2, <2>1, <2>2 DEF G
<1>5. merge_set(l) \in SUBSET Function
  BY <1>1, <1>3, LayersFinite DEF merge_set
<1>6. ASSUME NEW c \in ICall, NEW F \in SUBSET Function PROVE FST(c, F, l) \in SUBSET Function
  <2>1. sig[c] \in Sigs
    BY DEF Sigs
  <2> QED BY <1>1, <2>1 DEF FST
<1>7. ASSUME isEscape(l) PROVE FirstEscape(l) \in Layer
  <2> DEFINE N == Cardinality(Layer)
             In(n) == ConfinedIn(l, n) \cap typeEscapeSet
             S == {n \in 0..N : In(n) # {}}
             least(n) == In(n) # {} /\ \A m \in 0..(n - 1) : In(m) = {}
             steps == CHOOSE n \in 0..N : least(n)
  <2>1. N \in Nat /\ S \in SUBSET Nat
    BY LayersFinite
  <2>2. N \in S
    BY <1>7, <2>1 DEF isEscape, Confined
  <2>3. Min(S) \in S /\ \A n \in S : Min(S) <= n
    BY <2>1, <2>2, LeastExists
  <2>4. Min(S) \in 0..N /\ In(Min(S)) # {}
    BY <2>3
  <2>5. ASSUME NEW m \in 0..(Min(S) - 1) PROVE In(m) = {}
    <3>1. m \in Nat /\ Min(S) \in Nat /\ m < Min(S) /\ m \in 0..N
      BY <2>1, <2>4
    <3>2. m \notin S
      BY <2>3, <3>1
    <3> HIDE DEF In
    <3> QED BY <3>1, <3>2
  <2> HIDE DEF In, S
  <2>6. steps \in 0..N /\ least(steps)
    BY <2>4, <2>5
  <2>7. FirstEscape(l) = CHOOSE k \in In(steps) : TRUE
    BY DEF FirstEscape, In
  <2> HIDE DEF steps
  <2>8. FirstEscape(l) \in In(steps)
    BY <2>6, <2>7
  <2>9. In(steps) \subseteq Layer
    <3>1. typeEscapeSet \subseteq Layer
      BY DEF MapsTypeOK
    <3> QED BY <3>1 DEF In
  <2> QED BY <2>8, <2>9
<1> QED BY <1>3, <1>4, <1>5, <1>6, <1>7

Accumulators == [FS1 : SUBSET Function, FS2 : SUBSET Function,
                 results : SUBSET {"TwoLayer", "TypeEscape", "NoTwoLayerInfo"}]

LEMMA StepType ==
  MapsTypeOK =>
    \A c \in ICall, l \in Layer, acc \in Accumulators : Step(c, acc, l) \in Accumulators
<1> SUFFICES ASSUME MapsTypeOK, NEW c \in ICall, NEW l \in Layer, NEW acc \in Accumulators
             PROVE  Step(c, acc, l) \in Accumulators
  OBVIOUS
<1> DEFINE found == FST(c, acc.FS1, l)
<1>1. acc.FS1 \in SUBSET Function /\ acc.FS2 \in SUBSET Function
      /\ acc.results \in SUBSET {"TwoLayer", "TypeEscape", "NoTwoLayerInfo"}
  BY DEF Accumulators
<1>2. found \in SUBSET Function
  BY <1>1, LayerFacts
<1>3. Step(c, acc, l) = IF found # {} THEN [acc EXCEPT !.results = @ \cup {"TwoLayer"}, !.FS2 = @ \cup found]
                        ELSE IF isEscape(l) THEN [acc EXCEPT !.results = @ \cup {"TypeEscape"}]
                        ELSE [acc EXCEPT !.results = @ \cup {"NoTwoLayerInfo"}, !.FS1 = {}]
  BY DEF Step
<1> HIDE DEF found
<1>4. [acc EXCEPT !.results = @ \cup {"TwoLayer"}, !.FS2 = @ \cup found] \in Accumulators
  BY <1>1, <1>2 DEF Accumulators
<1>5. [acc EXCEPT !.results = @ \cup {"TypeEscape"}] \in Accumulators
  BY <1>1 DEF Accumulators
<1>6. [acc EXCEPT !.results = @ \cup {"NoTwoLayerInfo"}, !.FS1 = {}] \in Accumulators
  BY <1>1 DEF Accumulators
<1> QED BY <1>3, <1>4, <1>5, <1>6

\* A walk from what is called names layers.
LEMMA CalledWalk ==
  MapsTypeOK =>
    \A v \in Value, mode \in Modes :
      /\ Walk(v, mode) = WalkIn(v, mode, code)
      /\ Walk(v, mode).TyList \in Seq(Layer) /\ ToSet(Walk(v, mode).TyList) = TyList(v, mode)
      /\ TyList(v, mode) \subseteq Layer
<1> SUFFICES ASSUME MapsTypeOK, NEW v \in Value, NEW mode \in Modes
             PROVE  /\ Walk(v, mode) = WalkIn(v, mode, code)
                    /\ Walk(v, mode).TyList \in Seq(Layer) /\ ToSet(Walk(v, mode).TyList) = TyList(v, mode)
                    /\ TyList(v, mode) \subseteq Layer
  OBVIOUS
<1>1. Walk(v, mode) = WalkIn(v, mode, code)
  BY DEF Walk, WalkIn
<1>2. code \in SUBSET Items
  BY DEF MapsTypeOK
<1> DEFINE list == Walk(v, mode).TyList
<1>3. list \in Seq(Cell) /\ ToSet(list) \subseteq Layer
  BY <1>1, <1>2, WalkCloses
<1> HIDE DEF list
<1>4. list \in Seq(Layer)
  <2>1. \A i \in DOMAIN list : list[i] \in Layer
    BY <1>3 DEF ToSet
  <2>2. PICK n \in Nat : DOMAIN list = 1..n /\ list \in [1..n -> Cell]
    BY <1>3
  <2>3. list \in [1..n -> Layer]
    BY <2>1, <2>2
  <2> QED BY <2>3
<1> QED BY <1>1, <1>3, <1>4 DEF list, TyList

\* The loop over TyList, and what findCalleesWithMLTA makes of it.
First(c) == [FS1 |-> sigFuncsMap[sig[c]], FS2 |-> {}, results |-> {}]
Outcome(c, all) ==
  CASE sigFuncsMap[sig[c]] = {} -> <<"MissingBaseType", {}>>
    [] sigFuncsMap[sig[c]] # {} /\ ~Walk(called[c], "Precise_Mode").ok -> <<"OneLayer", sigFuncsMap[sig[c]]>>
    [] sigFuncsMap[sig[c]] # {} /\ Walk(called[c], "Precise_Mode").ok ->
         IF Cardinality(all.results) = 1
         THEN <<CHOOSE r \in all.results : TRUE, IF all.results = {"TwoLayer"} THEN all.FS2 ELSE all.FS1>>
         ELSE IF "TypeEscape" \in all.results THEN <<"TypeEscape", all.FS1>>
         ELSE <<"MixedLayer", all.FS2>>
Loop(c, A, list) == A[0] = First(c) /\ \A i \in 1..Len(list) : A[i] = Step(c, A[i - 1], list[i])
FoundBy(c, A, list) ==
  /\ list = Walk(called[c], "Precise_Mode").TyList
  /\ Loop(c, A, list) /\ findCalleesWithMLTA(c) = Outcome(c, A[Len(list)])

LEMMA FindFacts ==
  MapsTypeOK => \A c \in ICall : \E A \in [Nat -> Accumulators], list \in Seq(Layer) : FoundBy(c, A, list)
<1> SUFFICES ASSUME MapsTypeOK, NEW c \in ICall
             PROVE  \E A \in [Nat -> Accumulators], list \in Seq(Layer) : FoundBy(c, A, list)
  OBVIOUS
<1> DEFINE list == Walk(called[c], "Precise_Mode").TyList
           n == Len(list)
           D == 1..n
           base == First(c)
           iter == CHOOSE f : f = [s \in SUBSET (DOMAIN list) |->
                     IF s = {} THEN base ELSE Step(c, f[s \ {Max(s)}], list[Max(s)])]
           G == [p \in D \X Accumulators |-> Step(c, p[2], list[p[1]])]
           t == [s \in SUBSET D |-> Max(s)]
           all == FoldLeft(LAMBDA acc, l : Step(c, acc, l), base, list)
<1>1. called[c] \in Value /\ "Precise_Mode" \in Modes
  BY CodeAssumption DEF Modes
<1>2. list \in Seq(Layer)
  BY <1>1, CalledWalk
<1>3. findCalleesWithMLTA(c) = Outcome(c, all)
  BY DEF findCalleesWithMLTA, Outcome, First
<1> HIDE DEF list
<1>4. n \in Nat /\ DOMAIN list = D /\ IsFiniteSet(D) /\ \A i \in D : list[i] \in Layer
  BY <1>2, FS_Interval
<1>5. base \in Accumulators
  <2>1. sig[c] \in Sigs /\ sigFuncsMap \in [Sigs -> SUBSET Function]
    BY DEF Sigs, MapsTypeOK
  <2>2. sigFuncsMap[sig[c]] \in SUBSET Function
    BY <2>1
  <2> QED BY <2>2 DEF First, Accumulators
<1> HIDE DEF base
<1>6. ASSUME NEW acc \in Accumulators, NEW i \in D PROVE Step(c, acc, list[i]) \in Accumulators
  BY <1>4, StepType
<1>7. \A s \in SUBSET D : s # {} => t[s] \in s /\ t[s] = Max(s)
  BY <1>4, GreatestExists
<1>8. G \in [D \X Accumulators -> Accumulators]
  BY <1>6
<1>9. \E f : f = [s \in SUBSET D |-> IF s = {} THEN base ELSE Step(c, f[s \ {Max(s)}], list[Max(s)])]
  <2>1. PICK f \in [SUBSET D -> Accumulators] : FoldOf(f, D, base, G, t)
    <3>1. Chooses(t, D)
      BY <1>7 DEF Chooses
    <3> HIDE DEF D, G, t
    <3> QED BY <1>4, <1>5, <1>8, <3>1, FoldExists
  <2>2. ASSUME NEW s \in SUBSET D, s # {}
        PROVE  G[<<t[s], f[s \ {t[s]}]>>] = Step(c, f[s \ {Max(s)}], list[Max(s)])
    <3>1. t[s] = Max(s) /\ Max(s) \in D /\ f[s \ {Max(s)}] \in Accumulators
      BY <1>7, <2>1, <2>2
    <3> HIDE DEF t, D
    <3> DEFINE rest == f[s \ {Max(s)}]
    <3>2. f[s \ {t[s]}] = rest
      BY <3>1
    <3>3. G[<<Max(s), rest>>] = Step(c, rest, list[Max(s)])
      <4> HIDE DEF rest
      <4> SUFFICES ASSUME NEW x \in D, NEW acc \in Accumulators PROVE G[<<x, acc>>] = Step(c, acc, list[x])
        BY <3>1 DEF rest
      <4> QED OBVIOUS
    <3> HIDE DEF G, rest
    <3> QED BY <3>1, <3>2, <3>3 DEF rest
  <2>3. \A s \in SUBSET D : f[s] = IF s = {} THEN base ELSE Step(c, f[s \ {Max(s)}], list[Max(s)])
    <3> HIDE DEF G, t, D
    <3> QED BY <2>1, <2>2 DEF FoldOf
  <2>4. f = [s \in SUBSET D |-> f[s]]
    BY <2>1
  <2>5. [s \in SUBSET D |-> f[s]]
          = [s \in SUBSET D |-> IF s = {} THEN base ELSE Step(c, f[s \ {Max(s)}], list[Max(s)])]
    BY <2>3, Zenon
  <2> QED BY <2>4, <2>5, Zenon
<1>10. iter = [s \in SUBSET D |-> IF s = {} THEN base ELSE Step(c, iter[s \ {Max(s)}], list[Max(s)])]
  BY <1>4, <1>9
<1>11. all = iter[D]
  BY <1>4, Zenon DEF FoldLeft, MapThenFoldSet
<1> HIDE DEF iter, all
<1>12. iter[{}] = base /\ \A i \in D : iter[1..i] = Step(c, iter[1..(i - 1)], list[i])
  <2>1. iter[{}] = base
    BY <1>10
  <2>2. ASSUME NEW i \in D PROVE iter[1..i] = Step(c, iter[1..(i - 1)], list[i])
    <3>1. 1..i \in SUBSET D /\ 1..i # {} /\ i \in Nat /\ i \in 1..i
      BY <1>4
    <3>2. Max(1..i) = i
      <4>1. Max(1..i) \in 1..i /\ Max(1..i) >= i
        <5>1. 1..i \in SUBSET (1..i)
          OBVIOUS
        <5> QED BY <3>1, <5>1, GreatestExists
      <4> QED BY <3>1, <4>1
    <3>3. (1..i) \ {i} = 1..(i - 1)
      BY <3>1
    <3>4. iter[1..i] = Step(c, iter[(1..i) \ {Max(1..i)}], list[Max(1..i)])
      <4> HIDE DEF D
      <4> QED BY <1>10, <3>1
    <3> QED BY <3>2, <3>3, <3>4
  <2> QED BY <2>1, <2>2
<1> DEFINE A == [i \in Nat |-> IF i <= n THEN iter[1..i] ELSE base]
<1>13. A[0] = base
  <2>1. 1..0 = {} /\ 0 <= n
    BY <1>4
  <2> QED BY <1>12, <2>1
<1>14. ASSUME NEW i \in D PROVE A[i] = Step(c, A[i - 1], list[i])
  <2>1. i \in Nat /\ i - 1 \in Nat /\ i <= n /\ i - 1 <= n
    BY <1>4
  <2>2. A[i] = iter[1..i] /\ A[i - 1] = iter[1..(i - 1)]
    BY <2>1
  <2> HIDE DEF A
  <2> QED BY <1>12, <2>2
<1>15. A[n] = all
  BY <1>4, <1>11
<1>16. \A i \in Nat : A[i] \in Accumulators
  <2> DEFINE P == {i \in Nat : A[i] \in Accumulators}
  <2>1. 0 \in P
    BY <1>5, <1>13
  <2>2. ASSUME NEW i \in P PROVE i + 1 \in P
    <3>1. i \in Nat /\ i + 1 \in Nat /\ A[i] \in Accumulators /\ (i + 1) - 1 = i
      BY <2>2
    <3>2. CASE i + 1 \in D
      <4>1. A[i + 1] = Step(c, A[(i + 1) - 1], list[i + 1])
        BY <1>14, <3>2
      <4>2. Step(c, A[i], list[i + 1]) \in Accumulators
        BY <1>6, <3>1, <3>2
      <4> HIDE DEF A
      <4> QED BY <3>1, <4>1, <4>2
    <3>3. CASE i + 1 \notin D
      <4>1. ~(i + 1 <= n)
        BY <1>4, <3>1, <3>3
      <4>2. A[i + 1] = base
        BY <3>1, <4>1
      <4> HIDE DEF A
      <4> QED BY <1>5, <3>1, <4>2
    <3> HIDE DEF P
    <3> QED BY <3>2, <3>3
  <2>3. P \in SUBSET Nat
    OBVIOUS
  <2> HIDE DEF P
  <2>4. P = Nat
    BY <2>1, <2>2, <2>3, SetInduction
  <2> QED BY <2>4 DEF P
<1>17. A \in [Nat -> Accumulators]
  <2>1. A = [i \in Nat |-> A[i]]
    OBVIOUS
  <2> HIDE DEF A
  <2> QED BY <1>16, <2>1
<1> HIDE DEF A
<1>18. FoundBy(c, A, list)
  BY <1>3, <1>13, <1>14, <1>15 DEF FoundBy, Loop, list, base
<1> QED BY <1>2, <1>17, <1>18

LEMMA FindFactsNext ==
  (MapsTypeOK => \A c \in ICall : \E A \in [Nat -> Accumulators], list \in Seq(Layer) : FoundBy(c, A, list))'
BY FindFacts, PTL

\* The same maps give the same targets.
LEMMA StepStays ==
  ASSUME code' = code, UNCHANGED maps, NEW c, NEW acc, NEW l
  PROVE  Step(c, acc, l)' = Step(c, acc, l)
<1>1. isEscape(l)' = isEscape(l)
  BY DEF maps, isEscape, Confined, ConfinedIn
<1>2. \A F : FST(c, F, l)' = FST(c, F, l)
  BY <1>1 DEF FST, maps, merge_set, Confined, ConfinedIn
<1> QED BY <1>1, <1>2 DEF Step

LEMMA FindStays ==
  ASSUME MapsTypeOK, MapsTypeOK', code' = code, UNCHANGED maps
  PROVE  \A c \in ICall : findCalleesWithMLTA(c)' = findCalleesWithMLTA(c)
<1> SUFFICES ASSUME NEW c \in ICall PROVE findCalleesWithMLTA(c)' = findCalleesWithMLTA(c)
  OBVIOUS
<1>1. PICK A \in [Nat -> Accumulators], list \in Seq(Layer) : FoundBy(c, A, list)
  BY FindFacts
<1>2. PICK B \in [Nat -> Accumulators], list2 \in Seq(Layer) : FoundBy(c, B, list2)'
  BY FindFactsNext
<1> DEFINE walk == Walk(called[c], "Precise_Mode")
           n == Len(list)
<1>3. walk' = walk
  BY DEF Walk
<1>4. sigFuncsMap' = sigFuncsMap
  BY DEF maps
<1>5. /\ list = walk.TyList /\ A[0] = First(c) /\ \A i \in 1..n : A[i] = Step(c, A[i - 1], list[i])
      /\ findCalleesWithMLTA(c) = Outcome(c, A[n])
  BY <1>1 DEF FoundBy, Loop
<1>6. /\ B[0] = First(c)' /\ \A i \in 1..n : B[i] = Step(c, B[i - 1], list[i])
      /\ findCalleesWithMLTA(c)' = Outcome(c, B[n])'
  <2>1. /\ list2 = walk'.TyList /\ B[0] = First(c)' /\ \A i \in 1..Len(list2) : B[i] = Step(c, B[i - 1], list2[i])'
        /\ findCalleesWithMLTA(c)' = Outcome(c, B[Len(list2)])'
    BY <1>2 DEF FoundBy, Loop
  <2>2. list2 = list
    BY <1>3, <1>5, <2>1
  <2>3. \A i : Step(c, B[i - 1], list2[i])' = Step(c, B[i - 1], list2[i])
    BY StepStays
  <2> QED BY <2>1, <2>2, <2>3
<1>7. First(c)' = First(c)
  BY <1>4 DEF First
<1>8. Outcome(c, B[n])' = Outcome(c, B[n])
  BY <1>3, <1>4 DEF Outcome
<1>9. n \in Nat
  OBVIOUS
<1> HIDE DEF n
<1> DEFINE P == {i \in Nat : i <= n => A[i] = B[i]}
<1>10. P = Nat
  <2>1. 0 \in P
    BY <1>5, <1>6, <1>7
  <2>2. ASSUME NEW i \in P PROVE i + 1 \in P
    <3>1. i \in Nat /\ i + 1 \in Nat /\ (i + 1) - 1 = i
      BY <2>2
    <3> SUFFICES ASSUME i + 1 <= n PROVE A[i + 1] = B[i + 1]
      BY <3>1
    <3>2. A[i] = B[i] /\ i + 1 \in 1..n
      BY <1>9, <2>2, <3>1
    <3> QED BY <1>5, <1>6, <3>1, <3>2
  <2>3. P \in SUBSET Nat
    OBVIOUS
  <2> HIDE DEF P
  <2> QED BY <2>1, <2>2, <2>3, SetInduction
<1>11. A[n] = B[n]
  <2>1. n \in P /\ n <= n
    BY <1>9, <1>10
  <2> QED BY <2>1
<1> QED BY <1>5, <1>6, <1>8, <1>11

\* What a call gets is a result and functions.
Answers == {"MissingBaseType", "OneLayer", "TwoLayer", "NoTwoLayerInfo", "TypeEscape", "MixedLayer"}
LEMMA FindType ==
  MapsTypeOK =>
    \A c \in ICall : findCalleesWithMLTA(c) \in Answers \X SUBSET Function
<1> SUFFICES ASSUME MapsTypeOK, NEW c \in ICall PROVE findCalleesWithMLTA(c) \in Answers \X SUBSET Function
  OBVIOUS
<1>1. PICK A \in [Nat -> Accumulators], list \in Seq(Layer) : FoundBy(c, A, list)
  BY FindFacts
<1> DEFINE walk == Walk(called[c], "Precise_Mode")
           all == A[Len(list)]
           S == sigFuncsMap[sig[c]]
<1>2. findCalleesWithMLTA(c) = Outcome(c, all)
  BY <1>1 DEF FoundBy
<1>3. all \in Accumulators
  OBVIOUS
<1> HIDE DEF all
<1>4. all.FS1 \in SUBSET Function /\ all.FS2 \in SUBSET Function
      /\ all.results \in SUBSET {"TwoLayer", "TypeEscape", "NoTwoLayerInfo"}
  BY <1>3 DEF Accumulators
<1>5. S \in SUBSET Function
  <2>1. sig[c] \in Sigs /\ sigFuncsMap \in [Sigs -> SUBSET Function]
    BY DEF Sigs, MapsTypeOK
  <2> QED BY <2>1
<1>6. CASE S = {}
  <2>1. Outcome(c, all) = <<"MissingBaseType", {}>>
    BY <1>6 DEF Outcome
  <2> QED BY <1>2, <2>1 DEF Answers
<1>7. CASE S # {} /\ ~walk.ok
  <2>1. Outcome(c, all) = <<"OneLayer", S>>
    BY <1>7 DEF Outcome
  <2> QED BY <1>2, <1>5, <2>1 DEF Answers
<1>8. CASE S # {} /\ walk.ok
  <2>1. Outcome(c, all) = IF Cardinality(all.results) = 1
         THEN <<CHOOSE r \in all.results : TRUE, IF all.results = {"TwoLayer"} THEN all.FS2 ELSE all.FS1>>
         ELSE IF "TypeEscape" \in all.results THEN <<"TypeEscape", all.FS1>>
         ELSE <<"MixedLayer", all.FS2>>
    BY <1>8 DEF Outcome
  <2>2. CASE Cardinality(all.results) = 1
    <3>1. all.results # {}
      <4>1. Cardinality({}) # 1
        BY FS_EmptySet
      <4> QED BY <2>2, <4>1, Zenon
    <3> DEFINE r == CHOOSE r \in all.results : TRUE
               F == IF all.results = {"TwoLayer"} THEN all.FS2 ELSE all.FS1
    <3>2. r \in all.results
      BY <3>1
    <3>3. F \in SUBSET Function
      BY <1>4
    <3> HIDE DEF r, F
    <3>4. r \in Answers
      BY <1>4, <3>2 DEF Answers
    <3>5. Outcome(c, all) = <<r, F>>
      BY <2>1, <2>2 DEF r, F
    <3> QED BY <1>2, <3>3, <3>4, <3>5
  <2>3. CASE Cardinality(all.results) # 1
    BY <1>2, <1>4, <2>1, <2>3 DEF Answers
  <2> QED BY <2>2, <2>3
<1> QED BY <1>6, <1>7, <1>8

-----------------------------------------------------------------------------
(* What an item of a program adds to the maps. *)

Effects == [funcs : SUBSET (Cell \X Function), confined : SUBSET (Layer \X Layer), escaped : SUBSET Layer,
            empty : SUBSET Function]

LEMMA NothingType == Nothing \in Effects
BY DEF Nothing, Effects

LEMMA InfoType == \A l, F : updateStructInfo(l, F) = IF l \in Layer \ Union THEN {} ELSE F
BY DEF updateStructInfo

LEMMA DefsType == \A f \in Function : defs[f] \in SUBSET Function
BY CodeAssumption

LEMMA FunctionStoredType ==
  MapsTypeOK => \A i \in Items : i.value \in Function /\ i.at \in Value => FunctionStored(i) \in Effects
<1> SUFFICES ASSUME MapsTypeOK, NEW i \in Items, i.value \in Function, i.at \in Value
             PROVE  FunctionStored(i) \in Effects
  OBVIOUS
<1> DEFINE to == Walk(i.at, "Precise_Mode")
           F == defs[i.value]
           L == ToSet(to.TyList)
           E == UNION {updateStructInfo(l, F) : l \in L}
<1>1. F \in SUBSET Function
  BY DefsType
<1>2. L \subseteq Cell
  <2>1. "Precise_Mode" \in Modes
    BY DEF Modes
  <2> QED BY <2>1, CalledWalk, LayersFinite
<1>3. FunctionStored(i) = IF to.ok THEN [Nothing EXCEPT !.funcs = L \X F, !.empty = E]
                          ELSE [Nothing EXCEPT !.empty = F]
  BY DEF FunctionStored
<1>4. E \in SUBSET Function
  BY <1>1, InfoType
<1> HIDE DEF to, F, L, E
<1>5. L \X F \in SUBSET (Cell \X Function)
  BY <1>1, <1>2
<1>6. [Nothing EXCEPT !.funcs = L \X F, !.empty = E] \in Effects
  BY <1>4, <1>5, NothingType DEF Effects
<1>7. [Nothing EXCEPT !.empty = F] \in Effects
  BY <1>1, NothingType DEF Effects
<1> QED BY <1>3, <1>6, <1>7

LEMMA StoreType ==
  MapsTypeOK => \A i \in Items : i.what = "store" /\ i.at \in Value => typeConfineInStore_new(i) \in Effects
<1> SUFFICES ASSUME MapsTypeOK, NEW i \in Items, i.what = "store", i.at \in Value
             PROVE  typeConfineInStore_new(i) \in Effects
  OBVIOUS
<1> DEFINE from == Walk(i.value, "Recall_Mode")
           known == from.ok \/ from.TyList # <<>>
           L == ToSet(from.TyList)
           to == TyList(i.at, "Recall_Mode")
           confined == propagateType(i.at, L)
<1>0. i.value \in Value /\ "Recall_Mode" \in Modes
  BY ItemType DEF Modes
<1>1. L \subseteq Layer /\ to \subseteq Layer
  BY <1>0, CalledWalk
<1>2. confined \in SUBSET (Layer \X Layer)
  BY <1>1 DEF propagateType
<1>3. CASE kind[i.value] = "data"
  BY <1>3, NothingType DEF typeConfineInStore_new, StoreEffect
<1>4. CASE kind[i.value] # "data" /\ known
  <2> DEFINE e == IF from.ok THEN {} ELSE to
  <2>1. typeConfineInStore_new(i) = [Nothing EXCEPT !.confined = confined, !.escaped = e]
    BY <1>4 DEF typeConfineInStore_new, StoreEffect
  <2>2. e \in SUBSET Layer
    BY <1>1
  <2> HIDE DEF e, confined
  <2> QED BY <1>2, <2>1, <2>2, NothingType DEF Effects
<1>5. CASE kind[i.value] # "data" /\ ~known /\ getBaseType(i.value)
  <2>1. typeConfineInStore_new(i) = Nothing
    BY <1>5 DEF typeConfineInStore_new, StoreEffect
  <2> QED BY <2>1, NothingType
<1>6. CASE kind[i.value] = "function" /\ ~known /\ ~getBaseType(i.value)
  <2>1. typeConfineInStore_new(i) = FunctionStored(i)
    BY <1>6 DEF typeConfineInStore_new, StoreEffect
  <2>2. i.value \in Function
    BY <1>0, <1>6, CodeAssumption
  <2> QED BY <2>1, <2>2, FunctionStoredType
<1>7. CASE kind[i.value] \notin {"data", "function"} /\ ~known /\ ~getBaseType(i.value)
  <2>1. typeConfineInStore_new(i) = [Nothing EXCEPT !.escaped = to]
    BY <1>7 DEF typeConfineInStore_new, StoreEffect
  <2>2. to \in SUBSET Layer
    BY <1>1
  <2> HIDE DEF to
  <2> QED BY <2>1, <2>2, NothingType DEF Effects
<1> QED BY <1>3, <1>4, <1>5, <1>6, <1>7

LEMMA EffectType ==
  MapsTypeOK /\ code \in Programs => \A i \in code : Effect(i) \in Effects
<1> SUFFICES ASSUME MapsTypeOK, code \in Programs, NEW i \in code PROVE Effect(i) \in Effects
  OBVIOUS
<1>1. i \in Items /\ IF i.what = "store" THEN i.at \in Value ELSE i.value \in Function /\ i.at \in Cell
  BY CodeAssumption
<1>2. CASE i.what = "store"
  BY <1>1, <1>2, StoreType DEF Effect
<1>3. CASE i.what # "store"
  <2> DEFINE F == defs[i.value]
             E == updateStructInfo(i.at, F)
  <2>1. F \in SUBSET Function /\ i.at \in Cell
    BY <1>1, <1>3, DefsType
  <2>2. E \in SUBSET Function /\ {i.at} \X F \in SUBSET (Cell \X Function)
    BY <2>1, InfoType
  <2>3. Effect(i) = IF i.what = "field" THEN [Nothing EXCEPT !.funcs = {i.at} \X F, !.empty = E] ELSE Nothing
    BY <1>3 DEF Effect, typeConfineInInitializer
  <2> HIDE DEF F, E
  <2>4. [Nothing EXCEPT !.funcs = {i.at} \X F, !.empty = E] \in Effects
    BY <2>2, NothingType DEF Effects
  <2> QED BY <2>3, <2>4, NothingType
<1> QED BY <1>2, <1>3

\* It depends on the program alone.
LEMMA EffectStays ==
  ASSUME code' = code, NEW i
  PROVE  Effect(i)' = Effect(i)
<1>1. \A v, mode : Walk(v, mode)' = Walk(v, mode)
  BY DEF Walk
<1>2. \A v, mode : TyList(v, mode)' = TyList(v, mode)
  BY <1>1 DEF TyList
<1>3. FunctionStored(i)' = FunctionStored(i)
  BY <1>1 DEF FunctionStored
<1>4. \A at, from : propagateType(at, from)' = propagateType(at, from)
  BY <1>2 DEF propagateType
<1>5. typeConfineInStore_new(i)' = typeConfineInStore_new(i)
  BY <1>1, <1>2, <1>3, <1>4 DEF typeConfineInStore_new, StoreEffect
<1>6. typeConfineInInitializer(i)' = typeConfineInInitializer(i)
  BY DEF typeConfineInInitializer
<1> QED BY <1>5, <1>6 DEF Effect

-----------------------------------------------------------------------------
(* The inductive invariant. *)

\* What an initialized module has added is in the maps while calls are resolved, and a
\* resolved call has the targets of the maps.
Recorded(i) ==
  /\ \A d \in Effect(i).funcs : d[2] \in typeFuncsMap[d[1]]
  /\ \A d \in Effect(i).confined : d[2] \in typeConfineMap[d[1]]
  /\ Effect(i).escaped \subseteq typeEscapeSet
  /\ \A f \in Effect(i).empty : f \in Global_EmptyTy_Funcs[sig[f]]
ItemsRecorded == \A i \in code : i.in \notin fresh => Recorded(i)
FunctionsTaken == \A f \in Function : in[f] \notin fresh => \A g \in defs[f] : g \in sigFuncsMap[sig[g]]
CallsResolved ==
  \A c \in ICall : in[c] \notin unresolved => <<typeResult[c], ICallees[c]>> = findCalleesWithMLTA(c)

IInv ==
  /\ TypeOK /\ code \in Programs
  /\ pass = "escape" => todo \subseteq escapedTypesInTypeAnalysisSet
  /\ pass # "done" => round < MaxRounds
  /\ unresolved # Module => fresh = {}
  /\ pass = "resolve" => ItemsRecorded /\ FunctionsTaken /\ CallsResolved

LEMMA SigsType == \A x \in Function \cup ICall : sig[x] \in Sigs
BY DEF Sigs

LEMMA InitInvariant == Init => IInv
<1> SUFFICES ASSUME Init PROVE IInv
  OBVIOUS
<1> USE DEF Init, MapsInit
<1>1. MapsTypeOK
  <2>1. code \subseteq Items
    BY CodeAssumption
  <2>2. typeFuncsMap \in [Cell -> SUBSET Function] /\ typeConfineMap \in [Layer -> SUBSET Layer]
        /\ sigFuncsMap \in [Sigs -> SUBSET Function] /\ Global_EmptyTy_Funcs \in [Sigs -> SUBSET Function]
    OBVIOUS
  <2>3. /\ typeResult \in [ICall -> {"none", "MissingBaseType", "OneLayer", "TwoLayer",
                                     "NoTwoLayerInfo", "TypeEscape", "MixedLayer"}]
        /\ ICallees \in [ICall -> SUBSET Function]
    OBVIOUS
  <2> QED BY <2>1, <2>2, <2>3 DEF MapsTypeOK
<1>2. TypeOK
  BY <1>1, RoundsAssumption DEF TypeOK
<1>3. ItemsRecorded
  <2>1. \A i \in code : i.in \in Module
    BY CodeAssumption, ItemType
  <2> QED BY <2>1 DEF ItemsRecorded
<1>4. FunctionsTaken /\ CallsResolved
  BY CodeAssumption DEF FunctionsTaken, CallsResolved
<1>5. round = 0 /\ 0 < MaxRounds
  BY RoundsAssumption
<1> QED BY <1>2, <1>3, <1>4, <1>5 DEF IInv

\* A module adds what its items and functions add.
LEMMA InitializeStep ==
  ASSUME IInv, NEW m \in Module, Initialize(m)
  PROVE  IInv'
<1> USE DEF Initialize, doInitialization, Gathered
<1> DEFINE effects == {Effect(i) : i \in {j \in code : j.in = m}}
           stored == UNION {e.funcs : e \in effects}
           confined == UNION {e.confined : e \in effects}
           empty == UNION {e.empty : e \in effects}
           escaped == UNION {e.escaped : e \in effects}
           taken == UNION {defs[f] : f \in {g \in Function : in[g] = m}}
<1>1. /\ MapsTypeOK /\ TypeOK /\ code \in Programs /\ unresolved = Module
      /\ pass = "resolve" => ItemsRecorded /\ FunctionsTaken
  BY DEF IInv, TypeOK
<1>2. /\ typeFuncsMap' = [l \in Cell |-> typeFuncsMap[l] \cup {e[2] : e \in {d \in stored : d[1] = l}}]
      /\ typeConfineMap' = [l \in Layer |-> typeConfineMap[l] \cup {e[2] : e \in {d \in confined : d[1] = l}}]
      /\ typeEscapeSet' = typeEscapeSet \cup escaped
      /\ Global_EmptyTy_Funcs' = [s \in Sigs |-> Global_EmptyTy_Funcs[s] \cup OfSig(empty, s)]
      /\ sigFuncsMap' = [s \in Sigs |-> sigFuncsMap[s] \cup OfSig(taken, s)]
      /\ fresh' = fresh \ {m}
      /\ code' = code /\ unresolved' = unresolved /\ typeResult' = typeResult /\ ICallees' = ICallees
      /\ UNCHANGED <<Callers, escapedTypesInTypeAnalysisSet, lost, passVars>>
  OBVIOUS
<1>3. \A e \in effects : e \in Effects
  BY <1>1, EffectType
<1>4. stored \subseteq Cell \X Function /\ confined \subseteq Layer \X Layer /\ escaped \subseteq Layer
      /\ empty \subseteq Function
  <2> HIDE DEF effects
  <2> QED BY <1>3 DEF Effects
<1>5. taken \subseteq Function
  BY DefsType
<1>6. ASSUME NEW i \in code, i.in = m
      PROVE  /\ Effect(i).funcs \subseteq stored /\ Effect(i).confined \subseteq confined
             /\ Effect(i).escaped \subseteq escaped /\ Effect(i).empty \subseteq empty
  BY <1>6
<1> HIDE DEF stored, confined, empty, escaped, taken, effects, Initialize, doInitialization, Gathered
<1>7. MapsTypeOK'
  <2>0. /\ typeFuncsMap \in [Cell -> SUBSET Function] /\ typeConfineMap \in [Layer -> SUBSET Layer]
        /\ typeEscapeSet \subseteq Layer /\ fresh \subseteq Module
        /\ sigFuncsMap \in [Sigs -> SUBSET Function] /\ Global_EmptyTy_Funcs \in [Sigs -> SUBSET Function]
    BY <1>1 DEF MapsTypeOK
  <2>1. typeFuncsMap' \in [Cell -> SUBSET Function]
    <3>1. \A l \in Cell : typeFuncsMap[l] \cup {e[2] : e \in {d \in stored : d[1] = l}} \in SUBSET Function
      BY <1>4, <2>0
    <3> QED BY <1>2, <3>1
  <2>2. typeConfineMap' \in [Layer -> SUBSET Layer]
    <3>1. \A l \in Layer : typeConfineMap[l] \cup {e[2] : e \in {d \in confined : d[1] = l}} \in SUBSET Layer
      BY <1>4, <2>0
    <3> QED BY <1>2, <3>1
  <2>3. typeEscapeSet' \subseteq Layer /\ fresh' \subseteq Module
    BY <1>2, <1>4, <2>0
  <2>4. sigFuncsMap' \in [Sigs -> SUBSET Function]
    BY <1>2, <1>5, <2>0 DEF OfSig
  <2>5. Global_EmptyTy_Funcs' \in [Sigs -> SUBSET Function]
    BY <1>2, <1>4, <2>0 DEF OfSig
  <2> QED BY <1>1, <1>2, <2>1, <2>2, <2>3, <2>4, <2>5 DEF MapsTypeOK
<1>8. TypeOK'
  BY <1>1, <1>2, <1>7 DEF TypeOK, passVars
<1>9. \A i : Effect(i)' = Effect(i)
  BY <1>2, EffectStays
<1>10. ASSUME pass = "resolve" PROVE ItemsRecorded'
  <2> SUFFICES ASSUME NEW i \in code, i.in \notin fresh' PROVE Recorded(i)'
    BY <1>2 DEF ItemsRecorded
  <2> DEFINE e == Effect(i)
  <2>1. e \in Effects
    BY <1>1, EffectType
  <2>2. e.funcs \subseteq Cell \X Function /\ e.confined \subseteq Layer \X Layer /\ e.empty \subseteq Function
    BY <2>1 DEF Effects
  <2>3. i.in = m \/ Recorded(i)
    BY <1>1, <1>2, <1>10 DEF ItemsRecorded
  <2>4. Effect(i)' = e
    BY <1>9
  <2> HIDE DEF e
  <2>5. i.in = m => e.funcs \subseteq stored /\ e.confined \subseteq confined /\ e.escaped \subseteq escaped /\ e.empty \subseteq empty
    BY <1>6 DEF e
  <2>6. Recorded(i) => /\ \A d \in e.funcs : d[2] \in typeFuncsMap[d[1]]
                       /\ \A d \in e.confined : d[2] \in typeConfineMap[d[1]]
                       /\ e.escaped \subseteq typeEscapeSet
                       /\ \A f \in e.empty : f \in Global_EmptyTy_Funcs[sig[f]]
    BY DEF Recorded, e
  <2>7. \A d \in e.funcs : d[2] \in typeFuncsMap'[d[1]]
    BY <1>2, <2>2, <2>3, <2>5, <2>6
  <2>8. \A d \in e.confined : d[2] \in typeConfineMap'[d[1]]
    BY <1>2, <2>2, <2>3, <2>5, <2>6
  <2>9. e.escaped \subseteq typeEscapeSet'
    BY <1>2, <2>3, <2>5, <2>6
  <2>10. \A f \in e.empty : f \in Global_EmptyTy_Funcs'[sig[f]]
    BY <1>2, <2>2, <2>3, <2>5, <2>6, SigsType DEF OfSig
  <2> QED BY <2>4, <2>7, <2>8, <2>9, <2>10 DEF Recorded
<1>11. ASSUME pass = "resolve" PROVE FunctionsTaken'
  <2> SUFFICES ASSUME NEW f \in Function, in[f] \notin fresh', NEW g \in defs[f] PROVE g \in sigFuncsMap'[sig[g]]
    BY DEF FunctionsTaken
  <2>1. g \in Function /\ sig[g] \in Sigs
    BY DefsType, SigsType
  <2>2. in[f] = m \/ g \in sigFuncsMap[sig[g]]
    BY <1>1, <1>2, <1>11 DEF FunctionsTaken
  <2>3. in[f] = m => g \in OfSig(taken, sig[g])
    BY <2>1 DEF taken, OfSig
  <2> QED BY <1>2, <2>1, <2>2, <2>3
<1>12. CallsResolved'
  BY <1>1, <1>2, CodeAssumption DEF CallsResolved
<1>13. (pass' = pass /\ todo' = todo /\ round' = round) /\ escapedTypesInTypeAnalysisSet' = escapedTypesInTypeAnalysisSet
  BY <1>2 DEF passVars
<1>14. code' \in Programs /\ (pass' = "escape" => todo' \subseteq escapedTypesInTypeAnalysisSet')
       /\ (pass' # "done" => round' < MaxRounds) /\ (unresolved' # Module => fresh' = {})
  BY <1>1, <1>2, <1>13 DEF IInv
<1> QED BY <1>8, <1>10, <1>11, <1>12, <1>13, <1>14 DEF IInv

\* The maps stay while calls are resolved.
LEMMA EscapesType ==
  MapsTypeOK =>
    /\ \A layers \in SUBSET Layer : EscapesMet(layers) \subseteq Layer
    /\ \A c \in ICall : EscapesOf(c) \subseteq Layer
<1> SUFFICES ASSUME MapsTypeOK
             PROVE  /\ \A layers \in SUBSET Layer : EscapesMet(layers) \subseteq Layer
                    /\ \A c \in ICall : EscapesOf(c) \subseteq Layer
  OBVIOUS
<1>1. \A layers \in SUBSET Layer : EscapesMet(layers) \subseteq Layer
  BY LayerFacts DEF EscapesMet
<1>2. \A c \in ICall : TyList(called[c], "Precise_Mode") \subseteq Layer
  <2>1. \A c \in ICall : called[c] \in Value /\ "Precise_Mode" \in Modes
    BY CodeAssumption DEF Modes
  <2> QED BY <2>1, CalledWalk
<1> QED BY <1>1, <1>2 DEF EscapesOf

LEMMA ResolveStep ==
  ASSUME IInv, NEW m \in Module, Resolve(m)
  PROVE  IInv'
<1> DEFINE resolved == {c \in ICall : in[c] = m}
           find(c) == findCalleesWithMLTA(c)
<1>1. MapsTypeOK /\ TypeOK /\ code \in Programs
  BY DEF IInv, TypeOK
<1>2. /\ fresh = {} /\ unresolved' = unresolved \ {m}
      /\ typeResult' = [c \in ICall |-> IF c \in resolved THEN find(c)[1] ELSE typeResult[c]]
      /\ ICallees' = [c \in ICall |-> IF c \in resolved THEN find(c)[2] ELSE ICallees[c]]
      /\ code' = code /\ fresh' = fresh /\ UNCHANGED maps
  BY DEF Resolve, doModulePass, AllInitialized
<1>3. /\ Callers' = Callers \cup UNION {{c} \X ICallees'[c] : c \in resolved}
      /\ escapedTypesInTypeAnalysisSet' = escapedTypesInTypeAnalysisSet \cup UNION {EscapesOf(c) : c \in resolved}
      /\ lost' = lost \cup {c \in resolved : Loses(c)}
      /\ UNCHANGED passVars
  BY DEF Resolve
<1>4. \A c \in ICall : find(c) \in Answers \X SUBSET Function
  BY <1>1, FindType
<1>5. MapsTypeOK'
  <2> DEFINE Results == {"none", "MissingBaseType", "OneLayer", "TwoLayer", "NoTwoLayerInfo", "TypeEscape", "MixedLayer"}
  <2>1. typeResult \in [ICall -> Results] /\ ICallees \in [ICall -> SUBSET Function]
    BY <1>1 DEF MapsTypeOK
  <2>2. \A c \in ICall : find(c)[1] \in Results /\ find(c)[2] \in SUBSET Function
    <3> HIDE DEF find
    <3> QED BY <1>4 DEF Answers
  <2>3. typeResult' \in [ICall -> Results] /\ ICallees' \in [ICall -> SUBSET Function]
    <3> HIDE DEF find, resolved, Results
    <3> QED BY <1>2, <2>1, <2>2
  <2>4. unresolved' \subseteq Module
    BY <1>1, <1>2 DEF MapsTypeOK
  <2> QED BY <1>1, <1>2, <2>3, <2>4 DEF MapsTypeOK, maps
<1>6. TypeOK'
  <2>1. Callers' \subseteq ICall \X Function
    <3>1. \A c \in ICall : ICallees'[c] \subseteq Function
      BY <1>5 DEF MapsTypeOK
    <3>2. Callers \subseteq ICall \X Function
      BY <1>1 DEF TypeOK
    <3> QED BY <1>3, <3>1, <3>2
  <2>2. UNION {EscapesOf(c) : c \in resolved} \subseteq Layer
    BY <1>1, EscapesType
  <2>3. lost' \subseteq ICall
    BY <1>1, <1>3 DEF TypeOK
  <2> HIDE DEF resolved
  <2> QED BY <1>1, <1>3, <1>5, <2>1, <2>2, <2>3 DEF TypeOK, passVars
<1>7. ASSUME pass = "resolve" PROVE ItemsRecorded' /\ FunctionsTaken'
  <2>1. ItemsRecorded /\ FunctionsTaken
    BY <1>7 DEF IInv
  <2>2. \A i : Effect(i)' = Effect(i)
    BY <1>2, EffectStays
  <2>3. ItemsRecorded'
    <3>1. \A i \in code : Recorded(i) => Recorded(i)'
      BY <1>2, <2>2 DEF Recorded, maps
    <3> QED BY <1>2, <2>1, <3>1 DEF ItemsRecorded
  <2>4. FunctionsTaken'
    BY <1>2, <2>1 DEF FunctionsTaken, maps
  <2> QED BY <2>3, <2>4
<1>8. ASSUME pass = "resolve" PROVE CallsResolved'
  <2>1. \A c \in ICall : find(c)' = find(c)
    BY <1>1, <1>2, <1>5, FindStays
  <2> SUFFICES ASSUME NEW c \in ICall, in[c] \notin unresolved' PROVE <<typeResult'[c], ICallees'[c]>> = find(c)'
    BY DEF CallsResolved
  <2>2. find(c)' = find(c) /\ find(c) \in Answers \X SUBSET Function
    BY <1>4, <2>1
  <2>3. find(c) = <<find(c)[1], find(c)[2]>>
    <3> HIDE DEF find
    <3> QED BY <2>2
  <2>4. CASE in[c] = m
    <3>1. c \in resolved
      BY <2>4
    <3> HIDE DEF find, resolved
    <3>2. typeResult'[c] = find(c)[1] /\ ICallees'[c] = find(c)[2]
      BY <1>2, <3>1
    <3> QED BY <2>2, <2>3, <3>2
  <2>5. CASE in[c] # m
    <3>1. c \notin resolved /\ in[c] \notin unresolved
      BY <1>2, <2>5
    <3> HIDE DEF resolved
    <3>2. typeResult'[c] = typeResult[c] /\ ICallees'[c] = ICallees[c]
      BY <1>2, <3>1
    <3>3. <<typeResult[c], ICallees[c]>> = find(c)
      BY <1>8, <3>1 DEF IInv, CallsResolved
    <3> HIDE DEF find
    <3> QED BY <2>2, <3>2, <3>3
  <2> QED BY <2>4, <2>5
<1>9. /\ code' \in Programs /\ (pass' = "escape" => todo' \subseteq escapedTypesInTypeAnalysisSet')
      /\ (pass' # "done" => round' < MaxRounds) /\ (unresolved' # Module => fresh' = {})
  BY <1>2, <1>3 DEF IInv, passVars
<1>10. pass' = pass
  BY <1>3 DEF passVars
<1> QED BY <1>6, <1>7, <1>8, <1>9, <1>10 DEF IInv

\* In the rounds, only the types and the bound of the rounds are kept.
LEMMA RoundStep ==
  ASSUME pass' # "resolve", TypeOK', code' \in Programs, pass' = "escape" => todo' \subseteq escapedTypesInTypeAnalysisSet',
         pass' # "done" => round' < MaxRounds, unresolved' # Module => fresh' = {}
  PROVE  IInv'
BY DEF IInv

LEMMA StartRoundsStep ==
  ASSUME IInv, StartRounds
  PROVE  IInv'
<1>1. TypeOK /\ code \in Programs /\ (unresolved # Module => fresh = {}) /\ (pass # "done" => round < MaxRounds)
  BY DEF IInv
<1>2. /\ pass' = "oneLayer" /\ todo' = OneLayerCalls(typeResult) /\ round' = round /\ pass = "resolve"
      /\ UNCHANGED <<mapVars, Callers, escapedTypesInTypeAnalysisSet, succeed_type_set, round, lost>>
  BY DEF StartRounds
<1>3. MapsTypeOK'
  BY <1>1, <1>2 DEF TypeOK, MapsTypeOK, mapVars, maps
<1>4. TypeOK'
  BY <1>1, <1>2, <1>3 DEF TypeOK, OneLayerCalls
<1> QED BY <1>1, <1>2, <1>4, RoundStep DEF mapVars

LEMMA EndOneLayerStep ==
  ASSUME IInv, EndOneLayer
  PROVE  IInv'
<1>1. TypeOK /\ code \in Programs /\ (unresolved # Module => fresh = {}) /\ (pass # "done" => round < MaxRounds)
  BY DEF IInv
<1>2. /\ pass' = "escape" /\ pass = "oneLayer" /\ todo' = escapedTypesInTypeAnalysisSet \ succeed_type_set
      /\ UNCHANGED <<mapVars, Callers, escapedTypesInTypeAnalysisSet, succeed_type_set, round, lost>>
  BY DEF EndOneLayer
<1>3. MapsTypeOK'
  BY <1>1, <1>2 DEF TypeOK, MapsTypeOK, mapVars, maps
<1>4. TypeOK'
  BY <1>1, <1>2, <1>3 DEF TypeOK
<1> QED BY <1>1, <1>2, <1>4, RoundStep DEF mapVars

\* What a trace met names functions and layers.
LEMMA MetType ==
  \A values : FunctionsOf(values) \subseteq Function /\ LayersOf(values) \subseteq Layer
BY DefsType DEF FunctionsOf, LayersOf, getGEPLayerTypes

Results == {"none", "MissingBaseType", "OneLayer", "TwoLayer", "NoTwoLayerInfo", "TypeEscape", "MixedLayer"}

LEMMA OneLayerStep ==
  ASSUME IInv, NEW c \in ICall, oneLayerHandler(c)
  PROVE  IInv'
<1> DEFINE trace == Trace(called[c], {v \in Value : GivesUpAtOneLayer(v)})
           found == oneLayerResults(c, trace.PV)
           layers == LayersOf(trace.PV)
           targets(l) == FST(c, sigFuncsMap[sig[c]], l)
           named == {IF targets(l) # {} THEN "TwoLayer" ELSE IF isEscape(l) THEN "TypeEscape" ELSE "NoTwoLayerInfo" : l \in layers}
           called1 == IF trace.PV \cap Function = {} THEN {} ELSE {"OneLayer"}
           r == IF Cardinality(found.results) = 1 THEN CHOOSE x \in found.results : TRUE ELSE "MixedLayer"
<1>1. /\ MapsTypeOK /\ TypeOK /\ code \in Programs /\ (unresolved # Module => fresh = {})
      /\ (pass # "done" => round < MaxRounds)
  BY DEF IInv, TypeOK
<1>2. /\ pass = "oneLayer" /\ todo' = todo \ {c}
      /\ escapedTypesInTypeAnalysisSet' = escapedTypesInTypeAnalysisSet \cup EscapesMet(layers)
      /\ \/ UNCHANGED <<typeResult, ICallees>>
         \/ Record(c, "TypeEscape", ICallees[c])
         \/ Record(c, "NoTwoLayerInfo", {})
         \/ Record(c, r, found.FS)
      /\ UNCHANGED <<code, fresh, unresolved, maps, Callers, pass, succeed_type_set, round, lost>>
  BY DEF oneLayerHandler
<1>3. layers \subseteq Layer
  BY MetType
<1> HIDE DEF trace, layers
<1>4. EscapesMet(layers) \subseteq Layer
  BY <1>1, <1>3, EscapesType
<1>5. found = [results |-> named \cup called1, FS |-> FunctionsOf(trace.PV) \cup UNION {targets(l) : l \in layers}]
  BY DEF oneLayerResults, layers
<1>6. found.FS \in SUBSET Function
  <2>1. sigFuncsMap[sig[c]] \in SUBSET Function
    BY <1>1, SigsType DEF MapsTypeOK
  <2>2. \A l \in layers : targets(l) \in SUBSET Function
    BY <1>1, <1>3, <2>1, LayerFacts
  <2>3. FunctionsOf(trace.PV) \subseteq Function
    BY MetType
  <2> HIDE DEF targets, found, named, called1
  <2> QED BY <1>5, <2>2, <2>3
<1>7. r \in Results
  <2>1. named \subseteq Results
    <3> HIDE DEF targets
    <3> QED BY DEF Results
  <2>2. called1 \subseteq Results
    BY DEF Results
  <2>3. found.results \subseteq Results
    <3> HIDE DEF targets, found, named, called1
    <3> QED BY <1>5, <2>1, <2>2
  <2> HIDE DEF found
  <2>4. CASE Cardinality(found.results) = 1
    <3>1. found.results # {}
      <4>1. Cardinality({}) # 1
        BY FS_EmptySet
      <4> QED BY <2>4, <4>1, Zenon
    <3>2. r = CHOOSE x \in found.results : TRUE
      BY <2>4
    <3>3. r \in found.results
      <4> HIDE DEF r
      <4> QED BY <3>1, <3>2
    <3> HIDE DEF r
    <3> QED BY <2>3, <3>3
  <2>5. CASE Cardinality(found.results) # 1
    BY <2>5 DEF Results
  <2> QED BY <2>4, <2>5
<1> HIDE DEF found, r
<1>8. typeResult \in [ICall -> Results] /\ ICallees \in [ICall -> SUBSET Function]
  BY <1>1 DEF MapsTypeOK, Results
<1>9. ASSUME NEW x \in Results, NEW F \in SUBSET Function, Record(c, x, F)
      PROVE  typeResult' \in [ICall -> Results] /\ ICallees' \in [ICall -> SUBSET Function]
  BY <1>8, <1>9 DEF Record
<1>10. typeResult' \in [ICall -> Results] /\ ICallees' \in [ICall -> SUBSET Function]
  <2>1. "TypeEscape" \in Results /\ "NoTwoLayerInfo" \in Results /\ ICallees[c] \in SUBSET Function
    BY <1>8 DEF Results
  <2> QED BY <1>2, <1>6, <1>7, <1>8, <1>9, <2>1
<1>11. MapsTypeOK'
  BY <1>1, <1>2, <1>10 DEF MapsTypeOK, maps, Results
<1>12. TypeOK'
  BY <1>1, <1>2, <1>4, <1>11 DEF TypeOK
<1> QED BY <1>1, <1>2, <1>12, RoundStep

LEMMA EscapeStep ==
  ASSUME IInv, NEW l \in Layer, escapeHandler(l)
  PROVE  IInv'
<1>1. /\ MapsTypeOK /\ TypeOK /\ code \in Programs /\ (unresolved # Module => fresh = {})
      /\ (pass # "done" => round < MaxRounds)
      /\ (pass = "escape" => todo \subseteq escapedTypesInTypeAnalysisSet)
  BY DEF IInv, TypeOK
<1>2. PICK checked \in SUBSET escapedStoreMap(l) :
        LET met == UNION {escapeChecker(i).PV : i \in checked}
            funcs == FunctionsOf(met) IN
        /\ typeFuncsMap' = [typeFuncsMap EXCEPT ![l] = @ \cup funcs]
        /\ typeConfineMap' = [typeConfineMap EXCEPT ![l] = @ \cup LayersOf(met)]
        /\ sigFuncsMap' = [s \in Sigs |-> sigFuncsMap[s] \cup OfSig(funcs, s)]
        /\ Global_EmptyTy_Funcs' = [s \in Sigs |-> Global_EmptyTy_Funcs[s] \cup OfSig(updateStructInfo(l, funcs), s)]
  BY DEF escapeHandler
<1> DEFINE met == UNION {escapeChecker(i).PV : i \in checked}
           funcs == FunctionsOf(met)
           layers == LayersOf(met)
           empty == updateStructInfo(l, funcs)
<1>3. /\ typeFuncsMap' = [typeFuncsMap EXCEPT ![l] = @ \cup funcs]
      /\ typeConfineMap' = [typeConfineMap EXCEPT ![l] = @ \cup layers]
      /\ sigFuncsMap' = [s \in Sigs |-> sigFuncsMap[s] \cup OfSig(funcs, s)]
      /\ Global_EmptyTy_Funcs' = [s \in Sigs |-> Global_EmptyTy_Funcs[s] \cup OfSig(empty, s)]
  BY <1>2
<1>4. /\ pass = "escape" /\ l \in todo /\ todo' = todo \ {l}
      /\ \/ typeEscapeSet' = typeEscapeSet \ {l} /\ succeed_type_set' = succeed_type_set \cup {l}
         \/ UNCHANGED <<typeEscapeSet, succeed_type_set>>
      /\ UNCHANGED <<code, fresh, unresolved, typeResult, ICallees, Callers, escapedTypesInTypeAnalysisSet, pass, round, lost>>
  BY DEF escapeHandler
<1>5. funcs \subseteq Function /\ layers \subseteq Layer
  BY MetType
<1>6. empty \subseteq Function
  BY <1>5, InfoType
<1> HIDE DEF funcs, layers, empty
<1>7. MapsTypeOK'
  <2>0. /\ typeFuncsMap \in [Cell -> SUBSET Function] /\ typeConfineMap \in [Layer -> SUBSET Layer]
        /\ typeEscapeSet \subseteq Layer /\ l \in Cell
        /\ sigFuncsMap \in [Sigs -> SUBSET Function] /\ Global_EmptyTy_Funcs \in [Sigs -> SUBSET Function]
    BY <1>1, LayersFinite DEF MapsTypeOK
  <2>1. typeFuncsMap' \in [Cell -> SUBSET Function]
    BY <1>3, <1>5, <2>0
  <2>2. typeConfineMap' \in [Layer -> SUBSET Layer]
    BY <1>3, <1>5, <2>0
  <2>3. typeEscapeSet' \subseteq Layer
    BY <1>4, <2>0
  <2>4. sigFuncsMap' \in [Sigs -> SUBSET Function]
    BY <1>3, <1>5, <2>0 DEF OfSig
  <2>5. Global_EmptyTy_Funcs' \in [Sigs -> SUBSET Function]
    BY <1>3, <1>6, <2>0 DEF OfSig
  <2> QED BY <1>1, <1>4, <2>1, <2>2, <2>3, <2>4, <2>5 DEF MapsTypeOK
<1>8. succeed_type_set' \subseteq escapedTypesInTypeAnalysisSet'
  BY <1>1, <1>4 DEF TypeOK
<1>9. TypeOK'
  BY <1>1, <1>4, <1>7, <1>8 DEF TypeOK
<1> QED BY <1>1, <1>4, <1>9, RoundStep

LEMMA EndEscapeStep ==
  ASSUME IInv, EndEscape
  PROVE  IInv'
<1> DEFINE again == {c \in ICall : typeResult[c] = "TypeEscape"}
           find(c) == findCalleesWithMLTA(c)
<1>1. /\ MapsTypeOK /\ TypeOK /\ code \in Programs /\ (unresolved # Module => fresh = {})
      /\ (pass # "done" => round < MaxRounds)
  BY DEF IInv, TypeOK
<1>2. /\ pass = "escape"
      /\ typeResult' = [c \in ICall |-> IF c \in again THEN find(c)[1] ELSE typeResult[c]]
      /\ ICallees' = [c \in ICall |-> IF c \in again THEN find(c)[2] ELSE ICallees[c]]
      /\ escapedTypesInTypeAnalysisSet' = escapedTypesInTypeAnalysisSet \cup UNION {EscapesOf(c) : c \in again}
      /\ lost' = lost \cup {c \in again : Loses(c)}
      /\ round' = round + 1
      /\ UNCHANGED <<code, fresh, unresolved, maps, Callers, succeed_type_set>>
  BY DEF EndEscape
<1>3. IF round' < MaxRounds THEN pass' = "oneLayer" /\ todo' = OneLayerCalls(typeResult')
      ELSE pass' = "done" /\ todo' = {}
  BY DEF EndEscape
<1>4. typeResult' \in [ICall -> Results] /\ ICallees' \in [ICall -> SUBSET Function]
  <2>1. typeResult \in [ICall -> Results] /\ ICallees \in [ICall -> SUBSET Function]
    BY <1>1 DEF MapsTypeOK, Results
  <2>2. \A c \in ICall : find(c) \in Answers \X SUBSET Function
    BY <1>1, FindType
  <2>3. \A c \in ICall : find(c)[1] \in Results /\ find(c)[2] \in SUBSET Function
    <3> HIDE DEF find
    <3> QED BY <2>2 DEF Answers, Results
  <2> HIDE DEF find, again
  <2> QED BY <1>2, <2>1, <2>3
<1>5. MapsTypeOK'
  BY <1>1, <1>2, <1>4 DEF MapsTypeOK, maps, Results
<1>6. UNION {EscapesOf(c) : c \in again} \subseteq Layer
  BY <1>1, EscapesType
<1>7. todo' \subseteq ICall /\ pass' \in {"oneLayer", "done"} /\ (pass' = "oneLayer" => round' < MaxRounds)
  BY <1>3 DEF OneLayerCalls
<1>8. round' \in 0..MaxRounds
  BY <1>1, <1>2, RoundsAssumption DEF TypeOK
<1>9. lost' \subseteq ICall
  BY <1>1, <1>2 DEF TypeOK
<1> HIDE DEF again, find
<1>10. TypeOK'
  BY <1>1, <1>2, <1>5, <1>6, <1>7, <1>8, <1>9 DEF TypeOK
<1> QED BY <1>1, <1>2, <1>7, <1>10, RoundStep

LEMMA IdleStep ==
  ASSUME IInv, UNCHANGED vars
  PROVE  IInv'
<1>1. UNCHANGED <<mapVars, Callers, escapedTypesInTypeAnalysisSet, lost, pass, todo, succeed_type_set, round>>
  BY DEF vars, passVars
<1>2. MapsTypeOK /\ TypeOK
  BY DEF IInv, TypeOK
<1>3. MapsTypeOK'
  BY <1>1, <1>2 DEF MapsTypeOK, mapVars, maps
<1>4. TypeOK'
  BY <1>1, <1>2, <1>3 DEF TypeOK
<1>5. code' = code /\ UNCHANGED maps /\ fresh' = fresh /\ unresolved' = unresolved
  BY <1>1 DEF mapVars
<1>6. ASSUME pass = "resolve" PROVE ItemsRecorded' /\ FunctionsTaken' /\ CallsResolved'
  <2>1. ItemsRecorded /\ FunctionsTaken /\ CallsResolved
    BY <1>6 DEF IInv
  <2>2. \A i : Effect(i)' = Effect(i)
    BY <1>5, EffectStays
  <2>3. ItemsRecorded'
    <3>1. \A i \in code : Recorded(i) => Recorded(i)'
      BY <1>5, <2>2 DEF Recorded, maps
    <3> QED BY <1>5, <2>1, <3>1 DEF ItemsRecorded
  <2>4. FunctionsTaken'
    BY <1>5, <2>1 DEF FunctionsTaken, maps
  <2>5. \A c \in ICall : findCalleesWithMLTA(c)' = findCalleesWithMLTA(c)
    BY <1>2, <1>3, <1>5, FindStays
  <2>6. CallsResolved'
    BY <1>1, <2>1, <2>5 DEF CallsResolved, mapVars
  <2> QED BY <2>3, <2>4, <2>6
<1> QED BY <1>1, <1>4, <1>5, <1>6 DEF IInv

LEMMA StepInvariant == IInv /\ [Next]_vars => IInv'
<1> SUFFICES ASSUME IInv, [Next]_vars PROVE IInv'
  OBVIOUS
<1>1. ASSUME NEW m \in Module, Initialize(m) PROVE IInv'
  BY <1>1, InitializeStep
<1>2. ASSUME NEW m \in Module, Resolve(m) PROVE IInv'
  BY <1>2, ResolveStep
<1>3. CASE StartRounds
  BY <1>3, StartRoundsStep
<1>4. CASE EndOneLayer
  BY <1>4, EndOneLayerStep
<1>5. CASE EndEscape
  BY <1>5, EndEscapeStep
<1>6. ASSUME NEW c \in ICall, oneLayerHandler(c) PROVE IInv'
  BY <1>6, OneLayerStep
<1>7. ASSUME NEW l \in Layer, escapeHandler(l) PROVE IInv'
  BY <1>7, EscapeStep
<1>8. CASE UNCHANGED vars
  BY <1>8, IdleStep
<1> QED BY <1>1, <1>2, <1>3, <1>4, <1>5, <1>6, <1>7, <1>8 DEF Next

\* The inductive invariant holds in every reachable state.
LEMMA Invariant == Spec => []IInv
<1>1. Init => IInv
  BY InitInvariant
<1>2. IInv /\ [Next]_vars => IInv'
  BY StepInvariant
<1> QED BY <1>1, <1>2, PTL DEF Spec

\* Every map holds functions and layers of the program, a pass has calls or layers left, no
\* layer is explained that no analysis met, and every answer is one the analyses give.
THEOREM TypeCorrect == Spec => []TypeOK
<1>1. IInv => TypeOK
  BY DEF IInv
<1> QED BY <1>1, Invariant, PTL

\* Every call is resolved with the maps all modules have added to, whatever order they were
\* loaded and analysed in: no call is resolved before the last module is initialized, and
\* the maps stay until all are.
THEOREM CallsAlwaysSeeAllModules == Spec => []CallsSeeAllModules
<1>1. IInv => CallsSeeAllModules
  <2> SUFFICES ASSUME IInv, pass = "resolve", Resolved, NEW c \in ICall
               PROVE  <<typeResult[c], ICallees[c]>> = findCalleesWithMLTA(c)
    BY DEF CallsSeeAllModules
  <2>1. CallsResolved /\ unresolved = {}
    BY DEF IInv, Resolved
  <2> QED BY <2>1 DEF CallsResolved
<1> QED BY <1>1, Invariant, PTL

-----------------------------------------------------------------------------
(* What a walk that succeeds has visited. *)

LEMMA Disjoint ==
  /\ Unvisited \cap Data = {}
  /\ \A v \in DOMAIN cell : v \in Value /\ kind[v] \in {"gep", "alloca", "global"}
  /\ \A v \in Value : v \in DOMAIN cell <=> kind[v] \in {"gep", "alloca", "global"}
  /\ Function \subseteq Value /\ \A v \in Value : v \in Function <=> kind[v] = "function"
BY CodeAssumption DEF Unvisited, Data

\* A precise walk that succeeds has visited all it follows, and no constant.
LEMMA PreciseWalk ==
  ASSUME NEW v \in Value, NEW program \in SUBSET Items, WalkIn(v, "Precise_Mode", program).ok
  PROVE  \A u \in WalkIn(v, "Precise_Mode", program).visited :
           /\ kind[u] # "data" /\ (kind[u] = "gep" => cell[u] \in Layer)
           /\ ToSet(Follow(u, program)) \subseteq WalkIn(v, "Precise_Mode", program).visited
<1> DEFINE mode == "Precise_Mode"
           Fine(u) == /\ kind[u] # "data" /\ (kind[u] = "gep" => cell[u] \in Layer)
                      /\ ToSet(Follow(u, program)) \cap Unvisited = {}
           I == {w \in Walks : (\A e \in ToSet(w.todo) : e.counts) /\ (w.ok => \A u \in w.visited : Fine(u))}
           walk == WalkIn(v, mode, program)
<1>0. mode \in Modes
  BY DEF Modes
<1>1. ASSUME NEW w \in I, Open(w) # {} PROVE Visit(w, mode, program) \in I
  <2> DEFINE w2 == Visit(w, mode, program)
  <2>1. PICK from \in Waiting : Visits(w, w2, from, mode, program)
    BY <1>0, <1>1, VisitFacts
  <2> DEFINE list == Follow(from.value, program)
  <2> HIDE DEF w2, list
  <2>2. from.counts
    BY <1>1, <2>1 DEF Visits
  <2>3. \A j : Counts(from, j, mode)
    BY <2>2 DEF Counts
  <2>4. /\ w2 \in Walks /\ w2.visited = w.visited \cup {from.value}
        /\ w2.ok => /\ w.ok /\ kind[from.value] # "data" /\ (kind[from.value] = "gep" => cell[from.value] \in Layer)
                    /\ \A j \in DOMAIN list : list[j] \notin Unvisited
        /\ \A e \in ToSet(w2.todo) : \/ e \in ToSet(w.todo)
                                     \/ \E j \in DOMAIN list : Counts(from, j, mode) => e.counts
    <3> HIDE DEF mode
    <3> QED BY <2>1, <2>2, <2>3 DEF Visits, list
  <2>5. \A e \in ToSet(w2.todo) : e.counts
    BY <1>1, <2>3, <2>4
  <2>6. w2.ok => Fine(from.value)
    BY <2>4 DEF ToSet, list
  <2> HIDE DEF Fine
  <2>7. w2.ok => \A u \in w2.visited : Fine(u)
    BY <1>1, <2>4, <2>6
  <2> QED BY <2>4, <2>5, <2>7 DEF w2
<1>2. Start(v) \in I
  BY StartFacts
<1>3. I \in SUBSET Walks
  OBVIOUS
<1> HIDE DEF I
<1>4. walk \in I
  BY <1>0, <1>1, <1>2, <1>3, WalkKeeps DEF WalkIn
<1>5. \A u \in walk.visited : Fine(u)
  BY <1>4 DEF I
<1>6. \A u \in walk.visited : ToSet(Follow(u, program)) \subseteq Unvisited \cup walk.visited
  BY <1>0, WalkCloses
<1> QED BY <1>5, <1>6

\* It does not visit allocas of constant size, and names a layer.
LEMMA PreciseNames ==
  ASSUME NEW v \in Value, NEW program \in SUBSET Items, WalkIn(v, "Precise_Mode", program).ok
  PROVE  /\ v \in WalkIn(v, "Precise_Mode", program).visited
         /\ ToSet(WalkIn(v, "Precise_Mode", program).TyList) # {}
<1> DEFINE walk == WalkIn(v, "Precise_Mode", program)
           V == walk.visited
<1>0. "Precise_Mode" \in Modes
  BY DEF Modes
<1>1. v \in V /\ V \in SUBSET Value /\ V \cap Unvisited = {} /\ ToSet(walk.TyList) = UNION {Named1(u) : u \in V}
  <2>1. v \notin Unvisited
    BY <1>0, UnvisitedFails
  <2> QED BY <1>0, <2>1, WalkCloses
<1>2. \A u \in V : kind[u] # "data" /\ (kind[u] = "gep" => cell[u] \in Layer) /\ ToSet(Follow(u, program)) \subseteq V
  BY PreciseWalk
<1> HIDE DEF V, walk
<1>3. ASSUME ToSet(walk.TyList) = {} PROVE FALSE
  <2>1. \A u \in V : kind[u] # "gep"
    BY <1>1, <1>2, <1>3 DEF Named1
  <2>2. V \in SUBSET {u \in Value : kind[u] \in {"cast", "phi", "select", "load", "alloca"}}
    BY <1>1, <1>2, <2>1, OperandsType DEF Unvisited, Kinds
  <2>3. PICK u \in V : ~(ToSet(operands[u]) \subseteq V)
    BY <1>1, <2>2, CodeAssumption
  <2>4. u \in Value /\ kind[u] \in {"cast", "phi", "select", "load", "alloca"}
    BY <2>2
  <2>5. CASE kind[u] \in {"cast", "phi", "select", "alloca"}
    <3>1. Follow(u, program) = operands[u]
      BY <2>5 DEF Follow
    <3> QED BY <1>2, <2>3, <3>1
  <2>6. CASE kind[u] = "load"
    <3>1. operands[u] \in Seq(Value) /\ Len(operands[u]) = 1
      BY <2>4, <2>6, CodeAssumption
    <3>2. ToSet(operands[u]) = {operands[u][1]}
      BY <3>1 DEF ToSet
    <3>3. 1 \in DOMAIN Follow(u, program) /\ Follow(u, program)[1] = operands[u][1]
      BY <2>4, <2>6, FollowFacts
    <3>4. operands[u][1] \in ToSet(Follow(u, program))
      BY <3>3 DEF ToSet
    <3> QED BY <1>2, <2>3, <3>2, <3>4
  <2> QED BY <2>4, <2>5, <2>6
<1> QED BY <1>1, <1>3 DEF V, walk

\* A walk for recall that succeeds and whose loads are of variables has visited all a value
\* is one of.
LEMMA RecallWalk ==
  ASSUME NEW v \in Value, NEW program \in SUBSET Items, WalkIn(v, "Recall_Mode", program).ok,
         \A u \in WalkIn(v, "Recall_Mode", program).visited : kind[u] = "load" => operands[u][1] \in DOMAIN cell,
         \A u \in Value : kind[u] = "alloca" => \A s \in ToSet(operands[u]) : kind[s] = "data"
  PROVE  \A u \in WalkIn(v, "Recall_Mode", program).visited \ (DOMAIN cell \cup Data) :
           OneOf(u, program) \subseteq WalkIn(v, "Recall_Mode", program).visited
<1> DEFINE mode == "Recall_Mode"
           Fine(u) == u \notin DOMAIN cell \cup Data => OneOf(u, program) \cap Unvisited = {}
           Loads(w) == \A u \in w.visited : kind[u] = "load" => operands[u][1] \in DOMAIN cell
           I == {w \in Walks :
                   Loads(w) => /\ \A e \in ToSet(w.todo) : e.counts \/ e.value \in DOMAIN cell \cup Data
                               /\ w.ok => \A u \in w.visited : Fine(u)}
           walk == WalkIn(v, mode, program)
<1>0. mode \in Modes
  BY DEF Modes
<1>1. ASSUME NEW w \in I, Open(w) # {} PROVE Visit(w, mode, program) \in I
  <2> DEFINE w2 == Visit(w, mode, program)
  <2>1. PICK from \in Waiting : Visits(w, w2, from, mode, program)
    BY <1>0, <1>1, VisitFacts
  <2> DEFINE list == Follow(from.value, program)
             u == from.value
  <2> HIDE DEF w2, list, u
  <2>2. w2 \in Walks /\ w2.visited = w.visited \cup {u} /\ u \in Value /\ u \notin Unvisited /\ from \in ToSet(w.todo)
    BY <2>1 DEF Visits, u
  <2> SUFFICES ASSUME Loads(w2)
               PROVE  /\ \A e \in ToSet(w2.todo) : e.counts \/ e.value \in DOMAIN cell \cup Data
                      /\ w2.ok => \A y \in w2.visited : Fine(y)
    BY <2>2 DEF w2
  <2>3. Loads(w)
    BY <2>2
  <2>4. /\ \A e \in ToSet(w.todo) : e.counts \/ e.value \in DOMAIN cell \cup Data
        /\ w.ok => \A y \in w.visited : Fine(y)
    BY <1>1, <2>3
  <2>5. /\ w2.ok => w.ok /\ \A j \in DOMAIN list : Counts(from, j, mode) => list[j] \notin Unvisited
        /\ \A e \in ToSet(w2.todo) : \/ e \in ToSet(w.todo)
                                     \/ \E j \in DOMAIN list : e.value = list[j] /\ (Counts(from, j, mode) => e.counts)
    <3> HIDE DEF mode
    <3> QED BY <2>1 DEF Visits, list
  <2>6. \A j : Counts(from, j, mode) <=> from.counts /\ (kind[u] = "load" => j # 1)
    BY DEF Counts, u
  <2>7. /\ list \in Seq(Value)
        /\ kind[u] \in {"cast", "phi", "select"} => ToSet(list) = OneOf(u, program)
        /\ kind[u] = "alloca" => ToSet(list) = ToSet(operands[u])
        /\ kind[u] = "load" => /\ list[1] = operands[u][1]
                               /\ \A o \in OneOf(u, program) : \E j \in DOMAIN list : j # 1 /\ list[j] = o
        /\ kind[u] \notin {"cast", "phi", "select", "alloca", "load"} => list = <<>>
    <3>1. list = Follow(u, program)
      BY DEF list, u
    <3> QED BY <2>2, <3>1, FollowFacts
  <2>8. ASSUME NEW e \in ToSet(w2.todo) PROVE e.counts \/ e.value \in DOMAIN cell \cup Data
    <3>1. CASE e \in ToSet(w.todo)
      BY <2>4, <3>1
    <3>2. ASSUME NEW j \in DOMAIN list, e.value = list[j], Counts(from, j, mode) => e.counts
          PROVE  e.counts \/ e.value \in DOMAIN cell \cup Data
      <4>1. CASE Counts(from, j, mode)
        BY <3>2, <4>1
      <4>2. CASE kind[u] = "load" /\ j = 1
        BY <2>2, <2>7, <3>2, <4>2
      <4>3. CASE ~from.counts
        <5>1. u \in DOMAIN cell \cup Data
          BY <2>2, <2>4, <4>3 DEF u
        <5>2. kind[u] = "alloca"
          BY <2>2, <2>7, <3>2, <5>1, Disjoint DEF Data, Unvisited
        <5>3. list[j] \in ToSet(operands[u])
          BY <2>7, <3>2, <5>2 DEF ToSet
        <5>4. list[j] \in Value /\ kind[list[j]] = "data"
          BY <2>2, <2>7, <3>2, <5>2, <5>3
        <5> QED BY <3>2, <5>4 DEF Data
      <4> QED BY <2>6, <4>1, <4>2, <4>3
    <3> QED BY <2>5, <2>8, <3>1, <3>2
  <2>9. ASSUME w2.ok PROVE Fine(u)
    <3> SUFFICES ASSUME u \notin DOMAIN cell \cup Data, NEW o \in OneOf(u, program) PROVE o \notin Unvisited
      OBVIOUS
    <3>1. from.counts
      BY <2>2, <2>4 DEF u
    <3>2. kind[u] \in {"cast", "phi", "select", "load"}
      BY DEF OneOf
    <3>3. PICK j \in DOMAIN list : list[j] = o /\ (kind[u] = "load" => j # 1)
      BY <2>7, <3>2 DEF ToSet
    <3> QED BY <2>5, <2>6, <2>9, <3>1, <3>3
  <2> HIDE DEF Fine
  <2>10. w2.ok => \A y \in w2.visited : Fine(y)
    BY <2>2, <2>4, <2>5, <2>9
  <2> QED BY <2>8, <2>10
<1>2. Start(v) \in I
  BY StartFacts
<1>3. I \in SUBSET Walks
  OBVIOUS
<1> HIDE DEF I
<1>4. walk \in I
  BY <1>0, <1>1, <1>2, <1>3, WalkKeeps DEF WalkIn
<1>5. \A u \in walk.visited : Fine(u)
  BY <1>4 DEF I
<1>6. \A u \in walk.visited : ToSet(Follow(u, program)) \subseteq Unvisited \cup walk.visited
  BY <1>0, WalkCloses
<1>7. ASSUME NEW u \in walk.visited PROVE OneOf(u, program) \subseteq ToSet(Follow(u, program))
  <2>1. u \in Value
    BY <1>0, WalkCloses
  <2>2. kind[u] \in {"cast", "phi", "select", "load"} \/ OneOf(u, program) = {}
    BY DEF OneOf
  <2> QED BY <2>1, <2>2, FollowFacts DEF ToSet
<1> QED BY <1>5, <1>6, <1>7

\* The walk from a GEP without a layer fails, and the walk from an alloca of constant size.
LEMMA NoLayerFails ==
  ASSUME NEW v \in Value, NEW mode \in Modes, NEW program \in SUBSET Items,
         \/ kind[v] = "gep" /\ cell[v] \notin Layer
         \/ kind[v] = "alloca" /\ \A s \in ToSet(operands[v]) : kind[s] = "data"
  PROVE  ~WalkIn(v, mode, program).ok
<1> DEFINE AtSize(w) == /\ kind[v] = "alloca" /\ w.visited = {v}
                        /\ \A e \in ToSet(w.todo) : e.counts /\ (e.value = v \/ kind[e.value] = "data")
                        /\ \E e \in ToSet(w.todo) : e.value \in Data
           I == {w \in Walks : w = Start(v) \/ ~w.ok \/ AtSize(w)}
           walk == WalkIn(v, mode, program)
<1>0. v \notin Unvisited
  BY DEF Unvisited
<1>1. ASSUME NEW w \in I, Open(w) # {} PROVE Visit(w, mode, program) \in I
  <2> DEFINE w2 == Visit(w, mode, program)
  <2>1. PICK from \in Waiting : Visits(w, w2, from, mode, program)
    BY <1>1, VisitFacts
  <2> DEFINE list == Follow(from.value, program)
             u == from.value
  <2> HIDE DEF w2, list, u
  <2>2. /\ w2 \in Walks /\ w2.visited = w.visited \cup {u} /\ u \in Value /\ u \notin w.visited /\ from \in ToSet(w.todo)
        /\ w2.ok => w.ok /\ (from.counts => kind[u] # "data" /\ (kind[u] = "gep" => cell[u] \in Layer))
    BY <2>1 DEF Visits, u
  <2>3. CASE ~w.ok
    BY <2>2, <2>3 DEF w2
  <2>4. CASE AtSize(w)
    <3>1. from.counts /\ kind[u] = "data"
      BY <2>2, <2>4 DEF u
    <3> QED BY <2>2, <3>1 DEF w2
  <2>5. CASE w = Start(v)
    <3>1. w.visited = {} /\ ToSet(w.todo) = {[value |-> v, counts |-> TRUE]}
      BY <2>5, StartFacts
    <3>2. u = v /\ from.counts
      BY <2>2, <3>1 DEF u
    <3>3. CASE kind[v] = "gep" /\ cell[v] \notin Layer
      BY <2>2, <3>2, <3>3 DEF w2
    <3>4. CASE kind[v] = "alloca" /\ \A s \in ToSet(operands[v]) : kind[s] = "data"
      <4>1. list \in Seq(Value) /\ ToSet(list) = ToSet(operands[v]) /\ operands[v][1] \in ToSet(operands[v]) /\ operands[v][1] \in Value
        BY <3>2, <3>4, FollowFacts, OperandsType DEF list, u
      <4>2. \A j : Counts(from, j, mode)
        BY <3>2, <3>4 DEF Counts, u
      <4>3. /\ \A j \in DOMAIN list : \E e \in ToSet(w2.todo) : e.value = list[j]
            /\ \A e \in ToSet(w2.todo) : \/ e \in ToSet(w.todo)
                                         \/ \E j \in DOMAIN list : e.value = list[j] /\ (Counts(from, j, mode) => e.counts)
        BY <2>1 DEF Visits, list
      <4>4. \A j \in DOMAIN list : list[j] \in Value /\ kind[list[j]] = "data"
        <5>1. \A j \in DOMAIN list : list[j] \in ToSet(list) /\ list[j] \in Value
          BY <4>1 DEF ToSet
        <5> QED BY <3>4, <4>1, <5>1
      <4>5. \A e \in ToSet(w2.todo) : e.counts /\ (e.value = v \/ kind[e.value] = "data")
        BY <3>1, <4>2, <4>3, <4>4
      <4>6. PICK j \in DOMAIN list : list[j] = operands[v][1]
        BY <4>1 DEF ToSet
      <4>7. \E e \in ToSet(w2.todo) : e.value \in Data
        BY <4>3, <4>4, <4>6 DEF Data
      <4>8. AtSize(w2)
        BY <2>2, <3>1, <3>2, <3>4, <4>5, <4>7
      <4> QED BY <2>2, <4>8 DEF w2
    <3> QED BY <3>3, <3>4
  <2> QED BY <1>1, <2>3, <2>4, <2>5
<1>2. Start(v) \in I
  BY StartFacts
<1>3. I \in SUBSET Walks
  OBVIOUS
<1>4. ASSUME NEW w \in Walks, Open(w) = {}, AtSize(w) PROVE FALSE
  <2>1. PICK e \in ToSet(w.todo) : e.value \in Data
    BY <1>4
  <2>2. e.value \in Pending(w)
    BY <2>1 DEF Pending
  <2>3. Pending(w) = Unvisited \cup {v}
    BY <1>4, NothingPending
  <2>4. e.value \notin Unvisited /\ e.value # v
    BY <1>4, <2>1, Disjoint DEF Data
  <2> QED BY <2>2, <2>3, <2>4
<1>5. Open(Start(v)) # {}
  <2>1. v \in Pending(Start(v)) /\ Start(v).visited = {}
    BY StartFacts
  <2> QED BY <1>0, <2>1, NothingPending
<1> HIDE DEF I
<1>6. walk \in I /\ Open(walk) = {}
  BY <1>1, <1>2, <1>3, WalkKeeps DEF WalkIn
<1> HIDE DEF walk, AtSize
<1>7. walk \in Walks /\ (walk = Start(v) \/ ~walk.ok \/ AtSize(walk))
  BY <1>6 DEF I
<1> QED BY <1>4, <1>5, <1>6, <1>7 DEF walk

-----------------------------------------------------------------------------
(* What getBaseType finds. *)

LEMMA BaseOfType == \A v \in Value : BaseOf(v) \in SUBSET Value
<1> SUFFICES ASSUME NEW v \in Value PROVE BaseOf(v) \in SUBSET Value
  OBVIOUS
<1>1. ToSet(operands[v]) \subseteq Value /\ (kind[v] = "select" => operands[v][1] \in Value)
  BY OperandsType
<1> QED BY <1>1 DEF BaseOf

\* The recursive function Bases is defined with exists.
LEMMA BasesExist ==
  /\ \A v \in Value : Bases[0][v] = {v}
  /\ \A n \in Nat, v \in Value : Bases[n + 1][v] = UNION {{u} \cup BaseOf(u) : u \in Bases[n][v]}
<1> DEFINE V == [Value -> SUBSET Value]
           base == [v \in Value |-> {v}]
           On(g, v) == UNION {{u} \cup BaseOf(u) : u \in g[v]}
           step == [g \in V |-> [v \in Value |-> On(g, v)]]
           All(n, g) == [v \in Value |-> IF n = 0 THEN {v} ELSE UNION {{u} \cup BaseOf(u) : u \in g[v]}]
           R == CHOOSE r : r = [n \in Nat |-> All(n, r[n - 1])]
<1>1. base \in V /\ step \in [V -> V]
  <2>1. ASSUME NEW g \in V PROVE [v \in Value |-> On(g, v)] \in V
    <3>1. \A v \in Value : On(g, v) \in SUBSET Value
      BY BaseOfType
    <3> HIDE DEF On
    <3> QED BY <3>1
  <2> HIDE DEF On
  <2> QED BY <2>1
<1>2. PICK r \in [Nat -> V] : \A n \in Nat : r[n] = IF n = 0 THEN base ELSE step[r[n - 1]]
  <2> HIDE DEF V, base, step
  <2> QED BY <1>1, IterationExists
<1>3. \A n \in Nat : r[n] = All(n, r[n - 1])
  <2>1. r[0] = All(0, r[0 - 1])
    <3>1. r[0] = base
      BY <1>2
    <3>2. All(0, r[0 - 1]) = base
      OBVIOUS
    <3> QED BY <3>1, <3>2
  <2>2. ASSUME NEW n \in Nat, n # 0 PROVE r[n] = All(n, r[n - 1])
    <3>1. r[n] = step[r[n - 1]] /\ r[n - 1] \in V
      <4> HIDE DEF step, base, V
      <4> QED BY <1>2, <2>2
    <3>2. step[r[n - 1]] = [v \in Value |-> On(r[n - 1], v)]
      <4> HIDE DEF On, V
      <4> QED BY <3>1
    <3>3. [v \in Value |-> On(r[n - 1], v)] = All(n, r[n - 1])
      BY <2>2, Zenon
    <3> QED BY <3>1, <3>2, <3>3
  <2> HIDE DEF All
  <2> QED BY <2>1, <2>2
<1>4. r = [n \in Nat |-> All(n, r[n - 1])]
  <2> HIDE DEF All
  <2>1. r = [n \in Nat |-> r[n]]
    BY <1>2
  <2>2. [n \in Nat |-> r[n]] = [n \in Nat |-> All(n, r[n - 1])]
    BY <1>3, Zenon
  <2> QED BY <2>1, <2>2, Zenon
<1>5. R = [n \in Nat |-> All(n, R[n - 1])]
  <2> HIDE DEF All
  <2> QED BY <1>4, Zenon
<1>6. Bases = R
  BY Zenon DEF Bases
<1> HIDE DEF R
<1>7. \A n \in Nat : R[n] = All(n, R[n - 1])
  <2> HIDE DEF All
  <2> QED BY <1>5
<1>8. \A v \in Value : R[0][v] = {v}
  <2>1. R[0] = All(0, R[0 - 1])
    BY <1>7
  <2> QED BY <2>1
<1>9. ASSUME NEW n \in Nat PROVE \A v \in Value : R[n + 1][v] = UNION {{u} \cup BaseOf(u) : u \in R[n][v]}
  <2>1. n + 1 \in Nat /\ n + 1 # 0 /\ n + 1 - 1 = n
    OBVIOUS
  <2>2. R[n + 1] = All(n + 1, R[n])
    <3> HIDE DEF All
    <3>1. R[n + 1] = All(n + 1, R[n + 1 - 1])
      BY <1>7, <2>1
    <3> QED BY <2>1, <3>1
  <2> QED BY <2>1, <2>2
<1> QED BY <1>6, <1>8, <1>9

\* It is within every set that is closed.
LEMMA BasesWithin ==
  ASSUME NEW G \in SUBSET Value, NEW v \in G, \A u \in G : BaseOf(u) \subseteq G
  PROVE  Bases[Cardinality(Value)][v] \subseteq G
<1> DEFINE P == {n \in Nat : Bases[n][v] \subseteq G}
<1>1. 0 \in P
  BY BasesExist
<1>2. ASSUME NEW n \in P PROVE n + 1 \in P
  <2>1. n \in Nat /\ n + 1 \in Nat /\ Bases[n][v] \subseteq G
    BY <1>2
  <2>2. Bases[n + 1][v] = UNION {{u} \cup BaseOf(u) : u \in Bases[n][v]}
    BY <2>1, BasesExist
  <2>3. Bases[n + 1][v] \subseteq G
    BY <2>1, <2>2
  <2> QED BY <2>1, <2>3
<1>3. P \in SUBSET Nat
  OBVIOUS
<1> HIDE DEF P
<1>4. P = Nat
  BY <1>1, <1>2, <1>3, SetInduction
<1>5. Cardinality(Value) \in Nat
  BY CodeAssumption, FS_CardinalityType
<1> QED BY <1>4, <1>5 DEF P

\* A pointer to something composite is one itself, or is loaded from one or chosen.
LEMMA BaseFacts ==
  ASSUME NEW v \in Value, getBaseType(v)
  PROVE  \/ v \in composite
         \/ kind[v] \in {"phi", "select"}
         \/ kind[v] = "load" /\ (operands[v][1] \in DOMAIN cell => operands[v][1] \in composite)
<1>1. Bases[Cardinality(Value)][v] \cap composite # {}
  BY DEF getBaseType
<1>2. composite \subseteq DOMAIN cell
  BY CodeAssumption
<1>3. \A u \in Value : kind[u] \notin {"load", "phi", "select"} => BaseOf(u) = {}
  BY DEF BaseOf
<1>4. CASE kind[v] \notin {"load", "phi", "select"}
  <2>1. Bases[Cardinality(Value)][v] \subseteq {v}
    <3> DEFINE G == {v}
    <3>1. G \in SUBSET Value /\ v \in G /\ \A u \in G : BaseOf(u) \subseteq G
      BY <1>3, <1>4
    <3> HIDE DEF G
    <3>2. Bases[Cardinality(Value)][v] \subseteq G
      BY <3>1, BasesWithin
    <3> QED BY <3>2 DEF G
  <2> QED BY <1>1, <2>1
<1>5. CASE kind[v] = "load" /\ operands[v][1] \in DOMAIN cell
  <2> DEFINE p == operands[v][1]
             G == {v, p}
  <2>1. p \in Value /\ ToSet(operands[v]) = {p}
    <3>1. operands[v] \in Seq(Value) /\ Len(operands[v]) = 1
      BY <1>5, CodeAssumption
    <3> QED BY <3>1, <1>5, OperandsType DEF ToSet
  <2>2. BaseOf(v) = {p}
    <3>1. BaseOf(v) = ToSet(operands[v])
      BY <1>5 DEF BaseOf
    <3> QED BY <2>1, <3>1
  <2>3. BaseOf(p) = {}
    BY <1>3, <1>5, <2>1, Disjoint
  <2> HIDE DEF p
  <2>4. G \in SUBSET Value /\ v \in G /\ \A u \in G : BaseOf(u) \subseteq G
    BY <2>1, <2>2, <2>3
  <2> HIDE DEF G
  <2>5. Bases[Cardinality(Value)][v] \subseteq G
    BY <2>4, BasesWithin
  <2>6. v \notin composite
    BY <1>2, <1>5, Disjoint
  <2>7. p \in composite
    BY <1>1, <2>5, <2>6 DEF G
  <2> QED BY <1>5, <2>7 DEF p
<1> QED BY <1>4, <1>5

-----------------------------------------------------------------------------
(* What values may be. *)

Points == [Value -> SUBSET (Function \cup Cell)]

LEMMA FlowsType ==
  MapsTypeOK /\ code \in Programs =>
    /\ Itself \in Points
    /\ \A P \in Points : (\A v \in Value : Flows(P, v, code) \in SUBSET (Function \cup Cell)) /\ More(P, code) \in Points
<1> SUFFICES ASSUME MapsTypeOK, code \in Programs
             PROVE  /\ Itself \in Points
                    /\ \A P \in Points : /\ \A v \in Value : Flows(P, v, code) \in SUBSET (Function \cup Cell)
                                         /\ More(P, code) \in Points
  OBVIOUS
<1>1. Itself \in Points
  <2>1. \A v \in Value : (kind[v] = "function" => defs[v] \in SUBSET Function)
                         /\ (kind[v] \in {"gep", "alloca", "global"} => cell[v] \in Cell)
    BY CodeAssumption
  <2> QED BY <2>1 DEF Itself, Points
<1>2. ASSUME NEW P \in Points, NEW v \in Value PROVE Flows(P, v, code) \in SUBSET (Function \cup Cell)
  <2>1. \A u \in Value : P[u] \in SUBSET (Function \cup Cell)
    BY DEF Points
  <2>2. \A S \in SUBSET Value : UNION {P[u] : u \in S} \in SUBSET (Function \cup Cell)
    BY <2>1
  <2>3. kind[v] \in Kinds /\ ToSet(operands[v]) \in SUBSET Value
    BY OperandsType
  <2>4. CASE kind[v] = "argument"
    <3> DEFINE C == {c \in Call : parent[v] \in Callable(P, c)}
               S == Passed(v, C)
    <3>1. Flows(P, v, code) = UNION {P[u] : u \in S}
      BY <2>4 DEF Flows
    <3>2. index[v] \in Nat \ {0}
      BY <2>4, CodeAssumption
    <3>3. \A c \in Call : arguments[c] \in Seq(Value)
      BY CodeAssumption
    <3>4. \A c \in Call : index[v] <= Len(arguments[c]) => arguments[c][index[v]] \in Value
      BY <3>2, <3>3
    <3>5. S \in SUBSET Value
      BY <3>4 DEF Passed
    <3> HIDE DEF S
    <3> QED BY <2>2, <3>1, <3>5
  <2>5. CASE kind[v] = "call"
    <3> DEFINE S == Returned(Callable(P, v))
    <3>1. Flows(P, v, code) = UNION {P[u] : u \in S}
      BY <2>5 DEF Flows
    <3>2. \A f \in DOMAIN returned : returned[f] \subseteq Value
      BY CodeAssumption
    <3>3. S \in SUBSET Value
      BY <3>2 DEF Returned
    <3> HIDE DEF S
    <3> QED BY <2>2, <3>1, <3>3
  <2>6. CASE kind[v] \in {"cast", "phi", "select"}
    <3>1. Flows(P, v, code) = UNION {P[u] : u \in ToSet(operands[v])}
      BY <2>6 DEF Flows
    <3> QED BY <2>2, <2>3, <3>1
  <2>7. CASE kind[v] = "load"
    <3>1. Flows(P, v, code) = UNION {InMemory(P, l, code) : l \in P[operands[v][1]] \cap Cell}
      BY <2>7 DEF Flows
    <3>2. ASSUME NEW l PROVE InMemory(P, l, code) \in SUBSET (Function \cup Cell)
      <4>1. \A i \in code : i.value \in Value /\ (i.what # "store" => defs[i.value] \in SUBSET Function)
        BY CodeAssumption, ItemType
      <4> QED BY <2>1, <4>1 DEF InMemory
    <3> QED BY <3>1, <3>2
  <2>8. CASE kind[v] \notin {"argument", "call", "cast", "phi", "select", "load"}
    <3>1. Flows(P, v, code) = {}
      BY <2>8 DEF Flows
    <3> QED BY <3>1
  <2> QED BY <2>4, <2>5, <2>6, <2>7, <2>8
<1>3. ASSUME NEW P \in Points PROVE More(P, code) \in Points
  <2>1. \A v \in Value : P[v] \cup Flows(P, v, code) \in SUBSET (Function \cup Cell)
    BY <1>2 DEF Points
  <2> QED BY <2>1 DEF More, Points
<1> QED BY <1>1, <1>2, <1>3

\* What values are themselves and the flows keep is so for all they may be.
LEMMA MayBeKeeps ==
  MapsTypeOK /\ code \in Programs =>
    \A I \in SUBSET Points : Itself \in I /\ (\A P \in I : More(P, code) \in I) => MayBe \in I
<1> SUFFICES ASSUME MapsTypeOK, code \in Programs, NEW I \in SUBSET Points, Itself \in I, \A P \in I : More(P, code) \in I
             PROVE  MayBe \in I
  OBVIOUS
<1> DEFINE V == [Points -> Points]
           base == [P \in Points |-> P]
           On(g, P) == IF More(P, code) = P THEN P ELSE g[More(P, code)]
           step == [g \in V |-> [P \in Points |-> On(g, P)]]
           All(n, g) == [P \in Points |-> IF n = 0 \/ More(P, code) = P THEN P ELSE g[More(P, code)]]
           R == CHOOSE r : r = [n \in Nat |-> All(n, r[n - 1])]
<1>0. \A P \in Points : More(P, code) \in Points
  BY FlowsType
<1>1. base \in V /\ step \in [V -> V]
  <2>1. ASSUME NEW g \in V PROVE [P \in Points |-> On(g, P)] \in V
    <3>1. \A P \in Points : On(g, P) \in Points
      BY <1>0
    <3> HIDE DEF On
    <3> QED BY <3>1
  <2> HIDE DEF On
  <2> QED BY <2>1
<1>2. PICK r \in [Nat -> V] : \A n \in Nat : r[n] = IF n = 0 THEN base ELSE step[r[n - 1]]
  <2> HIDE DEF V, base, step
  <2> QED BY <1>1, IterationExists
<1>3. \A n \in Nat : r[n] = All(n, r[n - 1])
  <2>1. r[0] = All(0, r[0 - 1])
    <3>1. r[0] = base
      BY <1>2
    <3>2. All(0, r[0 - 1]) = base
      OBVIOUS
    <3> QED BY <3>1, <3>2
  <2>2. ASSUME NEW n \in Nat, n # 0 PROVE r[n] = All(n, r[n - 1])
    <3>1. r[n] = step[r[n - 1]] /\ r[n - 1] \in V
      <4> HIDE DEF step, base, V
      <4> QED BY <1>2, <2>2
    <3>2. step[r[n - 1]] = [P \in Points |-> On(r[n - 1], P)]
      <4> HIDE DEF On, V
      <4> QED BY <3>1
    <3>3. [P \in Points |-> On(r[n - 1], P)] = All(n, r[n - 1])
      BY <2>2, Zenon
    <3> QED BY <3>1, <3>2, <3>3
  <2> HIDE DEF All
  <2> QED BY <2>1, <2>2
<1>4. r = [n \in Nat |-> All(n, r[n - 1])]
  <2> HIDE DEF All
  <2>1. r = [n \in Nat |-> r[n]]
    BY <1>2
  <2>2. [n \in Nat |-> r[n]] = [n \in Nat |-> All(n, r[n - 1])]
    BY <1>3, Zenon
  <2> QED BY <2>1, <2>2, Zenon
<1>5. R = [n \in Nat |-> All(n, R[n - 1])]
  <2> HIDE DEF All
  <2> QED BY <1>4, Zenon
<1> DEFINE N == Cardinality(Value) * Cardinality(Function \cup Cell)
<1>6. Saturated(code) = R[N]
  BY Zenon DEF Saturated, Points
<1> HIDE DEF R
<1>7. \A n \in Nat : R[n] = All(n, R[n - 1])
  <2> HIDE DEF All
  <2> QED BY <1>5
<1> DEFINE K == {n \in Nat : \A P \in I : R[n][P] \in I}
<1>8. 0 \in K
  <2>1. R[0] = All(0, R[0 - 1])
    BY <1>7
  <2>2. \A P \in I : R[0][P] = P
    BY <2>1
  <2> QED BY <2>2
<1>9. ASSUME NEW n \in K PROVE n + 1 \in K
  <2>1. n \in Nat /\ n + 1 \in Nat /\ n + 1 # 0 /\ n + 1 - 1 = n /\ \A P \in I : R[n][P] \in I
    BY <1>9
  <2>2. R[n + 1] = All(n + 1, R[n])
    <3> HIDE DEF All
    <3>1. R[n + 1] = All(n + 1, R[n + 1 - 1])
      BY <1>7, <2>1
    <3> QED BY <2>1, <3>1
  <2>3. \A P \in I : R[n + 1][P] = IF More(P, code) = P THEN P ELSE R[n][More(P, code)]
    BY <2>1, <2>2
  <2>4. \A P \in I : R[n + 1][P] \in I
    BY <2>1, <2>3
  <2> QED BY <2>1, <2>4
<1>10. K \in SUBSET Nat
  OBVIOUS
<1> HIDE DEF K
<1>11. K = Nat
  BY <1>8, <1>9, <1>10, SetInduction
<1>12. Cardinality(Value) * Cardinality(Function \cup Cell) \in Nat
  <2>1. IsFiniteSet(Value) /\ IsFiniteSet(Cell) /\ IsFiniteSet(Function)
    BY CodeAssumption, FS_Subset, Disjoint
  <2>2. IsFiniteSet(Function \cup Cell)
    BY <2>1, FS_Union
  <2>3. Cardinality(Value) \in Nat /\ Cardinality(Function \cup Cell) \in Nat
    BY <2>1, <2>2, FS_CardinalityType
  <2> QED BY <2>3
<1>13. MayBe = R[N][Itself]
  BY <1>6 DEF MayBe
<1> HIDE DEF N
<1>14. N \in K
  BY <1>11, <1>12 DEF N
<1> QED BY <1>13, <1>14 DEF K

-----------------------------------------------------------------------------
(* What a walk names leads to all a value may be. *)

\* What a value is taken from, if every call may call what MayBe says.
MaySources(v) ==
  CASE kind[v] = "argument" -> Passed(v, {c \in Call : parent[v] \in Callable(MayBe, c)})
    [] kind[v] = "call" -> Returned(Callable(MayBe, v))
    [] kind[v] = "load" -> {operands[v][1]} \cup StoredTo(operands[v][1], code)
    [] kind[v] \in {"cast", "phi", "select"} -> ToSet(operands[v])
    [] OTHER -> {}

\* Values that are traced to the end, and what the maps have for a layer once they are.
Closed(T) == \A v \in T : kind[v] # "global" /\ (kind[v] = "gep" => cell[v] \in Layer) /\ MaySources(v) \subseteq T
Explains(T, l) == Closed(T) /\ FunctionsOf(T) \subseteq typeFuncsMap[l] /\ LayersOf(T) \subseteq {l} \cup typeConfineMap[l]
Explained(i, l) == ByName(MayBe) /\ \E T \in SUBSET Value : i.value \in T /\ Explains(T, l)

\* What an item adds is in the maps, where a layer that escaped may have been explained.
Held(i) ==
  /\ \A d \in Effect(i).funcs : d[2] \in typeFuncsMap[d[1]]
  /\ \A d \in Effect(i).confined : d[2] \in typeConfineMap[d[1]]
  /\ \A l \in Effect(i).escaped : l \in typeEscapeSet \/ Explained(i, l)
  /\ \A f \in Effect(i).empty : f \in Global_EmptyTy_Funcs[sig[f]]

\* The maps have the whole of a program that accesses memory by name.
Whole ==
  /\ MapsTypeOK /\ code \in Programs /\ NothingSkipped /\ AccessedByName(MayBe)
  /\ \A i \in code : Held(i)
  /\ \A f \in Function : \A g \in defs[f] : g \in sigFuncsMap[sig[g]]

Kept(x) == x \in Function /\ x \in Global_EmptyTy_Funcs[sig[x]]
Composites == {cell[u] : u \in composite} \ Layer
Local(x) == ByName(MayBe) /\ \E a \in Value : kind[a] = "alloca" /\ x = cell[a]
Leads(l, x) == isEscape(l) \/ x \in Confined(l) \/ x \in merge_set(l)
Good(L, x) == Kept(x) \/ x \in Composites \/ Local(x) \/ \E l \in L : Leads(l, x)

LEMMA WholeFacts ==
  ASSUME Whole
  PROVE  /\ MapsTypeOK /\ code \in Programs /\ code \in SUBSET Items /\ NothingSkipped
         /\ \A i \in code : Held(i) /\ Effect(i) \in Effects
         /\ \A f \in Function : \A g \in defs[f] : g \in Function /\ g \in sigFuncsMap[sig[g]]
         /\ \A v \in Value : kind[v] = "alloca" => \A u \in ToSet(operands[v]) : kind[u] = "data"
         /\ \A i \in code : i.what = "store" /\ kind[i.value] # "data" =>
              /\ StoredThrough(MayBe, i) /\ \A v \in Walk(i.value, "Recall_Mode").visited : Named(v)
              /\ getBaseType(i.value) => kind[i.value] \notin {"phi", "select"}
<1>1. MapsTypeOK /\ code \in Programs /\ NothingSkipped /\ AccessedByName(MayBe) /\ \A i \in code : Held(i)
  BY DEF Whole
<1>3. code \in SUBSET Items
  BY <1>1 DEF MapsTypeOK
<1>4. \A i \in code : Effect(i) \in Effects
  BY <1>1, EffectType
<1>5. \A f \in Function : \A g \in defs[f] : g \in Function /\ g \in sigFuncsMap[sig[g]]
  BY DefsType DEF Whole
<1>7. \A v \in Value : kind[v] = "alloca" => \A u \in ToSet(operands[v]) : kind[u] = "data"
  BY <1>1 DEF AccessedByName
<1>8. \A i \in code : i.what = "store" /\ kind[i.value] # "data" =>
        /\ StoredThrough(MayBe, i) /\ \A v \in Walk(i.value, "Recall_Mode").visited : Named(v)
        /\ getBaseType(i.value) => kind[i.value] \notin {"phi", "select"}
  BY <1>1 DEF AccessedByName
<1> QED BY <1>1, <1>3, <1>4, <1>5, <1>7, <1>8

\* Once all calls are resolved, the maps are whole.
LEMMA ResolvedWhole ==
  ASSUME IInv, pass = "resolve", Resolved, NothingSkipped, AccessedByName(MayBe)
  PROVE  Whole
<1>1. MapsTypeOK /\ code \in Programs /\ ItemsRecorded /\ FunctionsTaken
      /\ unresolved = {} /\ (unresolved # Module => fresh = {})
  BY DEF IInv, TypeOK, Resolved
<1>2. fresh = {}
  BY <1>1 DEF MapsTypeOK
<1>3. \A i \in code : Held(i)
  BY <1>1, <1>2 DEF ItemsRecorded, Recorded, Held
<1>4. \A f \in Function : \A g \in defs[f] : g \in sigFuncsMap[sig[g]]
  BY <1>1, <1>2 DEF FunctionsTaken
<1> QED BY <1>1, <1>3, <1>4 DEF Whole

Below(P, M) == \A v \in Value : P[v] \subseteq M[v]

\* What values are whatever the walks name.
Plain(P) ==
  /\ \A v \in Value : kind[v] = "data" => P[v] = {}
  /\ \A v \in Value : kind[v] = "function" => P[v] \subseteq defs[v]
  /\ \A v \in DOMAIN cell : P[v] \subseteq {cell[v]}
  /\ \A v \in Value : P[v] \cap Function \subseteq UNION {defs[f] : f \in Function}
  /\ \A v \in Value : kind[v] = "load" => P[v] \subseteq UNION {InMemory(P, k, code) : k \in P[operands[v][1]] \cap Cell}

LEMMA PlainItself == Plain(Itself)
<1>1. \A v \in Value : Itself[v] = IF kind[v] = "function" THEN defs[v]
                                   ELSE IF kind[v] \in {"gep", "alloca", "global"} THEN {cell[v]} ELSE {}
  BY DEF Itself
<1>2. \A v \in DOMAIN cell : v \in Value /\ cell[v] \in Cell /\ kind[v] \in {"gep", "alloca", "global"}
  BY CodeAssumption, Disjoint
<1>3. \A v \in Value : kind[v] = "data" => Itself[v] = {}
  BY <1>1
<1>4. \A v \in Value : kind[v] = "function" => Itself[v] \subseteq defs[v]
  BY <1>1
<1>5. \A v \in DOMAIN cell : Itself[v] \subseteq {cell[v]}
  BY <1>1, <1>2
<1>6. ASSUME NEW v \in Value PROVE Itself[v] \cap Function \subseteq UNION {defs[f] : f \in Function}
  <2>1. CASE kind[v] = "function"
    BY <1>1, <2>1, Disjoint
  <2>2. CASE v \in DOMAIN cell
    <3>1. Itself[v] = {cell[v]} /\ cell[v] \notin Function
      BY <1>1, <1>2, <2>2, CodeAssumption
    <3> QED BY <3>1
  <2>3. CASE kind[v] # "function" /\ v \notin DOMAIN cell
    BY <1>1, <2>3, Disjoint
  <2> QED BY <2>1, <2>2, <2>3
<1>7. \A v \in Value : kind[v] = "load" => Itself[v] = {}
  BY <1>1
<1> QED BY <1>3, <1>4, <1>5, <1>6, <1>7 DEF Plain

LEMMA MoreFacts ==
  ASSUME Whole, NEW P \in Points
  PROVE  /\ More(P, code) \in Points /\ Below(P, More(P, code))
         /\ \A v \in Value : More(P, code)[v] = P[v] \cup Flows(P, v, code)
<1>1. \A v \in Value : More(P, code)[v] = P[v] \cup Flows(P, v, code)
  BY DEF More
<1>2. More(P, code) \in Points
  BY WholeFacts, FlowsType
<1> QED BY <1>1, <1>2 DEF Below

LEMMA PlainKept ==
  ASSUME Whole, NEW P \in Points, Plain(P)
  PROVE  Plain(More(P, code))
<1> DEFINE Q == More(P, code)
           Defined == UNION {defs[f] : f \in Function}
<1>1. /\ Q \in Points /\ Below(P, Q)
      /\ \A v \in Value : Q[v] = P[v] \cup Flows(P, v, code)
  BY MoreFacts
<1>2. \A v \in Value : kind[v] \in Kinds
  BY CodeAssumption
<1>3. \A v \in Value : kind[v] \notin {"argument", "call", "cast", "phi", "select", "load"} => Flows(P, v, code) = {}
  BY DEF Flows
<1>4. \A i \in code : i \in Items /\ i.value \in Value /\ (i.what = "store" => i.at \in Value) /\ (i.what # "store" => i.value \in Function)
  BY WholeFacts, CodeAssumption, ItemType
<1> HIDE DEF Q
<1>5. /\ \A v \in Value : kind[v] = "data" => Q[v] = {}
      /\ \A v \in Value : kind[v] = "function" => Q[v] \subseteq defs[v]
  BY <1>1, <1>3 DEF Plain
<1>6. \A v \in DOMAIN cell : Q[v] \subseteq {cell[v]}
  BY <1>1, <1>3, Disjoint DEF Plain
<1>7. ASSUME NEW v \in Value, NEW x \in Flows(P, v, code), x \in Function PROVE x \in Defined
  <2>1. \A u \in Value : x \in P[u] => x \in Defined
    BY <1>7 DEF Plain
  <2>2. ASSUME NEW S \in SUBSET Value, x \in UNION {P[u] : u \in S} PROVE x \in Defined
    <3>1. PICK u \in S : x \in P[u]
      BY <2>2
    <3> HIDE DEF Defined
    <3> QED BY <2>1, <3>1
  <2>3. CASE kind[v] = "argument"
    <3> DEFINE S == Passed(v, {c \in Call : parent[v] \in Callable(P, c)})
    <3>1. Flows(P, v, code) = UNION {P[u] : u \in S}
      BY <2>3 DEF Flows
    <3>2. index[v] \in Nat \ {0} /\ \A c \in Call : arguments[c] \in Seq(Value)
      BY <2>3, CodeAssumption
    <3>3. \A c \in Call : index[v] <= Len(arguments[c]) => arguments[c][index[v]] \in Value
      BY <3>2
    <3>4. S \in SUBSET Value
      BY <3>3 DEF Passed
    <3>5. x \in UNION {P[u] : u \in S}
      BY <1>7, <3>1
    <3> HIDE DEF S, Defined
    <3> QED BY <2>2, <3>4, <3>5
  <2>4. CASE kind[v] = "call"
    <3> DEFINE S == Returned(Callable(P, v))
    <3>1. Flows(P, v, code) = UNION {P[u] : u \in S}
      BY <2>4 DEF Flows
    <3>2. \A f \in DOMAIN returned : returned[f] \subseteq Value
      BY CodeAssumption
    <3>3. S \in SUBSET Value
      BY <3>2 DEF Returned
    <3>4. x \in UNION {P[u] : u \in S}
      BY <1>7, <3>1
    <3> HIDE DEF S, Defined
    <3> QED BY <2>2, <3>3, <3>4
  <2>5. CASE kind[v] \in {"cast", "phi", "select"}
    <3>1. Flows(P, v, code) = UNION {P[u] : u \in ToSet(operands[v])} /\ ToSet(operands[v]) \in SUBSET Value
      BY <2>5, OperandsType DEF Flows
    <3> HIDE DEF Defined
    <3> QED BY <1>7, <2>2, <3>1
  <2>6. CASE kind[v] = "load"
    <3>1. Flows(P, v, code) = UNION {InMemory(P, l, code) : l \in P[operands[v][1]] \cap Cell}
      BY <2>6 DEF Flows
    <3>2. PICK l : x \in InMemory(P, l, code)
      BY <1>7, <3>1
    <3>3. (\E i \in code : x \in P[i.value]) \/ (\E i \in code : i.what # "store" /\ x \in defs[i.value])
      BY <3>2 DEF InMemory
    <3>4. ASSUME NEW i \in code, x \in P[i.value] PROVE x \in Defined
      <4> HIDE DEF Defined
      <4> QED BY <1>4, <2>1, <3>4
    <3>5. ASSUME NEW i \in code, i.what # "store", x \in defs[i.value] PROVE x \in Defined
      BY <1>4, <3>5
    <3> HIDE DEF Defined
    <3> QED BY <3>3, <3>4, <3>5
  <2>7. CASE kind[v] \notin {"argument", "call", "cast", "phi", "select", "load"}
    BY <1>3, <1>7, <2>7
  <2> HIDE DEF Defined
  <2> QED BY <2>3, <2>4, <2>5, <2>6, <2>7
<1>8. \A v \in Value : Q[v] \cap Function \subseteq Defined
  <2>1. \A v \in Value : P[v] \cap Function \subseteq Defined
    BY DEF Plain
  <2> HIDE DEF Defined
  <2> QED BY <1>1, <1>7, <2>1
<1>9. ASSUME NEW v \in Value, kind[v] = "load"
      PROVE  Q[v] \subseteq UNION {InMemory(Q, k, code) : k \in Q[operands[v][1]] \cap Cell}
  <2> DEFINE p == operands[v][1]
  <2>1. p \in Value
    BY <1>9, OperandsType
  <2>2. Flows(P, v, code) = UNION {InMemory(P, k, code) : k \in P[p] \cap Cell}
    BY <1>9 DEF Flows
  <2>3. P[v] \subseteq UNION {InMemory(P, k, code) : k \in P[p] \cap Cell}
    BY <1>9 DEF Plain
  <2>4. \A u \in Value : P[u] \subseteq Q[u]
    BY <1>1 DEF Below
  <2>5. \A k : InMemory(P, k, code) \subseteq InMemory(Q, k, code)
    BY <1>4, <2>4 DEF InMemory
  <2> HIDE DEF p
  <2>6. P[p] \subseteq Q[p] /\ Q[v] = P[v] \cup Flows(P, v, code)
    BY <1>1, <2>1, <2>4
  <2> QED BY <2>2, <2>3, <2>5, <2>6 DEF p
<1> QED BY <1>5, <1>6, <1>8, <1>9 DEF Plain, Q

-----------------------------------------------------------------------------
(* What the stores have added to the maps. *)

\* A function that is stored is kept for all calls or is in the layers of the pointer.
LEMMA FunctionKept ==
  ASSUME Whole, NEW i \in code, i.what = "store", kind[i.value] = "function", NEW f \in defs[i.value]
  PROVE  /\ ~Walk(i.at, "Precise_Mode").ok => Kept(f)
         /\ Walk(i.at, "Precise_Mode").ok => \A l \in TyList(i.at, "Precise_Mode") : f \in typeFuncsMap[l]
<1> DEFINE v == i.value
           from == Walk(v, "Recall_Mode")
           to == Walk(i.at, "Precise_Mode")
<1>1. MapsTypeOK /\ code \in SUBSET Items /\ Held(i)
  BY WholeFacts
<1>2. v \in Value /\ v \in Function /\ f \in Function /\ "Recall_Mode" \in Modes /\ kind[v] = "function"
  BY <1>1, ItemType, Disjoint, DefsType DEF Modes
<1>3. ~from.ok /\ from.TyList = <<>>
  <2>1. v \in Unvisited
    BY <1>2 DEF Unvisited
  <2>2. from = WalkIn(v, "Recall_Mode", code)
    BY <1>1, <1>2, CalledWalk
  <2> HIDE DEF v, from
  <2> QED BY <1>1, <1>2, <2>1, <2>2, UnvisitedFails
<1>4. ~getBaseType(v)
  <2>1. v \notin composite
    BY <1>2, CodeAssumption
  <2> HIDE DEF v
  <2> QED BY <1>2, <2>1, BaseFacts
<1>5. Effect(i) = FunctionStored(i)
  <2>1. Effect(i) = typeConfineInStore_new(i)
    BY DEF Effect
  <2> HIDE DEF from
  <2>2. typeConfineInStore_new(i) = FunctionStored(i)
    BY <1>2, <1>3, <1>4 DEF typeConfineInStore_new, StoreEffect, from
  <2> QED BY <2>1, <2>2
<1> HIDE DEF to
<1>6. ASSUME ~to.ok PROVE Kept(f)
  <2>1. FunctionStored(i).empty = defs[v]
    BY <1>6 DEF FunctionStored, Nothing, to
  <2> QED BY <1>1, <1>2, <1>5, <2>1 DEF Held, Kept
<1>7. ASSUME to.ok, NEW l \in TyList(i.at, "Precise_Mode") PROVE f \in typeFuncsMap[l]
  <2>1. FunctionStored(i).funcs = ToSet(to.TyList) \X defs[v]
    BY <1>7 DEF FunctionStored, Nothing, to
  <2>2. <<l, f>> \in FunctionStored(i).funcs
    BY <2>1 DEF TyList, to
  <2>3. <<l, f>>[2] \in typeFuncsMap[<<l, f>>[1]]
    BY <1>1, <1>5, <2>2 DEF Held
  <2> QED BY <2>3
<1> QED BY <1>6, <1>7 DEF to

\* The layers of another value are confined to those of the pointer, or these have escaped
\* and may have been explained, or the value points to something composite.
LEMMA StoreRecorded ==
  ASSUME Whole, NEW i \in code, i.what = "store", kind[i.value] \notin {"data", "function"}
  PROVE  \/ \A l \in TyList(i.at, "Recall_Mode") : l \in typeEscapeSet \/ Explained(i, l)
         \/ /\ Walk(i.value, "Recall_Mode").ok
            /\ \A l \in TyList(i.at, "Recall_Mode"), k \in TyList(i.value, "Recall_Mode") : k = l \/ k \in typeConfineMap[l]
         \/ TyList(i.value, "Recall_Mode") = {} /\ getBaseType(i.value)
<1> DEFINE v == i.value
           from == Walk(v, "Recall_Mode")
           known == from.ok \/ from.TyList # <<>>
<1>1. Held(i)
  BY WholeFacts
<1>2. Effect(i) = typeConfineInStore_new(i)
  BY DEF Effect
<1> HIDE DEF from
<1>3. CASE known
  <2>1. Effect(i) = [Nothing EXCEPT !.confined = propagateType(i.at, ToSet(from.TyList)),
                                    !.escaped = IF from.ok THEN {} ELSE TyList(i.at, "Recall_Mode")]
    BY <1>2, <1>3 DEF typeConfineInStore_new, StoreEffect, from
  <2>2. Effect(i).confined = propagateType(i.at, ToSet(from.TyList))
        /\ Effect(i).escaped = IF from.ok THEN {} ELSE TyList(i.at, "Recall_Mode")
    BY <2>1 DEF Nothing
  <2>3. CASE ~from.ok
    BY <1>1, <2>2, <2>3 DEF Held
  <2>4. CASE from.ok
    <3>1. ASSUME NEW l \in TyList(i.at, "Recall_Mode"), NEW k \in TyList(v, "Recall_Mode"), k # l
          PROVE  k \in typeConfineMap[l]
      <4>1. <<l, k>> \in propagateType(i.at, ToSet(from.TyList))
        BY <3>1 DEF propagateType, TyList, from
      <4>2. <<l, k>>[2] \in typeConfineMap[<<l, k>>[1]]
        BY <1>1, <2>2, <4>1 DEF Held
      <4> QED BY <4>2
    <3> QED BY <2>4, <3>1 DEF from
  <2> QED BY <2>3, <2>4
<1>4. CASE ~known /\ getBaseType(v)
  <2>1. TyList(v, "Recall_Mode") = {}
    BY <1>4 DEF TyList, from, ToSet
  <2> QED BY <1>4, <2>1
<1>5. CASE ~known /\ ~getBaseType(v)
  <2>1. Effect(i) = [Nothing EXCEPT !.escaped = TyList(i.at, "Recall_Mode")]
    BY <1>2, <1>5 DEF typeConfineInStore_new, StoreEffect, from
  <2>2. Effect(i).escaped = TyList(i.at, "Recall_Mode")
    BY <2>1 DEF Nothing
  <2> QED BY <1>1, <2>2 DEF Held
<1> QED BY <1>3, <1>4, <1>5

\* The functions an initializer puts in a field are the layer's, or kept for all calls.
LEMMA FieldRecorded ==
  ASSUME Whole, NEW i \in code, i.what # "store", NEW f \in defs[i.value]
  PROVE  /\ i.what = "field" /\ i.value \in Function /\ f \in Function
         /\ f \in typeFuncsMap[i.at] /\ (i.at \notin Layer => Kept(f))
<1>1. MapsTypeOK /\ code \in Programs /\ code \in SUBSET Items /\ NothingSkipped /\ Held(i)
  BY WholeFacts
<1>2. i.what \in {"store", "field", "scalar", "mangled"} /\ i.what \notin {"scalar", "mangled"}
  BY <1>1, ItemType DEF NothingSkipped
<1>3. i.what = "field"
  BY <1>2
<1>4. i.value \in Function
  BY <1>1, <1>3, CodeAssumption
<1>5. f \in Function
  BY <1>4, DefsType
<1>6. Effect(i) = [Nothing EXCEPT !.funcs = {i.at} \X defs[i.value], !.empty = updateStructInfo(i.at, defs[i.value])]
  BY <1>3 DEF Effect, typeConfineInInitializer
<1>7. Effect(i).funcs = {i.at} \X defs[i.value] /\ Effect(i).empty = updateStructInfo(i.at, defs[i.value])
  BY <1>6 DEF Nothing
<1>8. f \in typeFuncsMap[i.at]
  <2>1. <<i.at, f>> \in Effect(i).funcs
    BY <1>7
  <2>2. <<i.at, f>>[2] \in typeFuncsMap[<<i.at, f>>[1]]
    BY <1>1, <2>1 DEF Held
  <2> QED BY <2>2
<1>9. i.at \notin Layer => Kept(f)
  BY <1>1, <1>5, <1>7, InfoType DEF Held, Kept
<1> QED BY <1>3, <1>4, <1>5, <1>8, <1>9

-----------------------------------------------------------------------------
(* What is in memory. *)

\* A walk that is trusted names what all it visits may be.
Trusted(v, mode) ==
  /\ Walk(v, mode).ok
  /\ mode = "Recall_Mode" => \A u \in Walk(v, mode).visited : Named(u)
Followed(P) ==
  \A v \in Value, mode \in Modes : Trusted(v, mode) =>
    \A u \in Walk(v, mode).visited \ DOMAIN cell : \A x \in P[u] : Good(TyList(v, mode), x)

\* Values that are traced to the end have met what they may be, where an address leads to an
\* alloca only if it is the alloca.
Met(T, x) ==
  x \in FunctionsOf(T) \/ Local(x) \/ \E l \in LayersOf(T) : Kept(x) \/ x \in Composites \/ Leads(l, x)
TracedIn(P) ==
  ByName(MayBe) => \A T \in SUBSET Value : Closed(T) => \A u \in T \ DOMAIN cell : \A x \in P[u] : Met(T, x)

LEMMA LeadsUp ==
  MapsTypeOK =>
    \A l \in Layer : /\ Leads(l, l) /\ (l \in typeEscapeSet => isEscape(l))
                     /\ \A k \in Confined(l) : \A x : Leads(k, x) => Leads(l, x)
                     /\ \A k \in typeConfineMap[l] : k \in Confined(l)
                     /\ \A x : x \in typeFuncsMap[l] => Leads(l, x)
<1> SUFFICES ASSUME MapsTypeOK, NEW l \in Layer
             PROVE  /\ Leads(l, l) /\ (l \in typeEscapeSet => isEscape(l))
                    /\ \A k \in Confined(l) : \A x : Leads(k, x) => Leads(l, x)
                    /\ \A k \in typeConfineMap[l] : k \in Confined(l)
                    /\ \A x : x \in typeFuncsMap[l] => Leads(l, x)
  OBVIOUS
<1>1. /\ Confined(l) \in SUBSET Layer /\ l \in Confined(l)
      /\ \A k \in Confined(l) : typeConfineMap[k] \subseteq Confined(l) /\ Confined(k) \subseteq Confined(l)
  BY LayerFacts
<1>2. \A k \in Confined(l) : (isEscape(k) => isEscape(l)) /\ merge_set(k) \subseteq merge_set(l)
  BY <1>1 DEF isEscape, merge_set
<1>3. \A k \in Confined(l) : \A x : Leads(k, x) => Leads(l, x)
  BY <1>1, <1>2 DEF Leads
<1>4. Leads(l, l) /\ (l \in typeEscapeSet => isEscape(l))
  BY <1>1 DEF Leads, isEscape
<1>5. \A x : x \in typeFuncsMap[l] => Leads(l, x)
  BY <1>1 DEF Leads, merge_set
<1> QED BY <1>1, <1>3, <1>4, <1>5

\* A walk visits the value it starts at, and names the layer a value it visits points to.
LEMMA Visited ==
  ASSUME Whole, NEW v \in Value, NEW mode \in Modes
  PROVE  /\ Walk(v, mode).visited \in SUBSET Value /\ Walk(v, mode).visited \cap Unvisited = {}
         /\ v \in Unvisited \cup Walk(v, mode).visited /\ (Walk(v, mode).ok => v \notin Unvisited)
         /\ \A u \in Walk(v, mode).visited : /\ u \in DOMAIN cell /\ cell[u] \in Layer => cell[u] \in TyList(v, mode)
                                             /\ ToSet(Follow(u, code)) \subseteq Unvisited \cup Walk(v, mode).visited
         /\ TyList(v, mode) \subseteq Layer
<1> DEFINE walk == WalkIn(v, mode, code)
<1>1. MapsTypeOK /\ code \in SUBSET Items
  BY WholeFacts
<1>2. Walk(v, mode) = walk /\ TyList(v, mode) \subseteq Layer /\ ToSet(walk.TyList) = TyList(v, mode)
  BY <1>1, CalledWalk
<1>3. /\ walk.visited \in SUBSET Value /\ walk.visited \cap Unvisited = {}
      /\ v \in Unvisited \cup walk.visited
      /\ \A u \in walk.visited : ToSet(Follow(u, code)) \subseteq Unvisited \cup walk.visited
      /\ ToSet(walk.TyList) = UNION {Named1(u) : u \in walk.visited}
  BY <1>1, WalkCloses
<1>4. walk.ok => v \notin Unvisited
  BY <1>1, UnvisitedFails
<1> HIDE DEF walk
<1>5. ASSUME NEW u \in walk.visited, u \in DOMAIN cell, cell[u] \in Layer PROVE cell[u] \in TyList(v, mode)
  <2>1. u \in Value /\ kind[u] = "gep"
    BY <1>3, <1>5, CodeAssumption
  <2>2. Named1(u) = {cell[u]}
    BY <1>5, <2>1 DEF Named1
  <2> QED BY <1>2, <1>3, <1>5, <2>2
<1> QED BY <1>2, <1>3, <1>4, <1>5

\* The walks from the pointers of the stores name the layers; what is stored elsewhere is
\* kept for all calls, or stored in a variable.
LEMMA StoredAt ==
  ASSUME Whole, NEW P \in Points, Below(P, MayBe), Plain(P), NEW i \in code, i.what = "store",
         NEW x \in P[i.value], NEW k \in P[i.at] \cap Cell
  PROVE  /\ i.value \in Value /\ i.at \in Value /\ kind[i.value] # "data"
         /\ \/ Kept(x)
            \/ k \in TyList(i.at, IF kind[i.value] = "function" THEN "Precise_Mode" ELSE "Recall_Mode")
            \/ k \in Own(i.at) /\ k \notin {cell[u] : u \in composite}
<1>1. i \in Items /\ code \in Programs
  BY WholeFacts
<1>2. i.value \in Value /\ i.at \in Value
  BY <1>1, ItemType, CodeAssumption
<1>3. kind[i.value] # "data"
  BY <1>2 DEF Plain
<1>4. StoredThrough(MayBe, i)
  BY <1>3, WholeFacts
<1>5. ASSUME kind[i.value] = "function", ~Walk(i.at, "Precise_Mode").ok PROVE Kept(x)
  <2>1. x \in defs[i.value]
    BY <1>2, <1>5 DEF Plain
  <2> QED BY <1>5, <2>1, FunctionKept
<1>6. k \in MayBe[i.at] \cap Cell
  BY <1>2 DEF Below
<1>7. CASE kind[i.value] = "function"
  <2>1. \/ ~Walk(i.at, "Precise_Mode").ok
        \/ MayBe[i.at] \cap Cell \subseteq TyList(i.at, "Precise_Mode") \cup (Own(i.at) \ {cell[u] : u \in composite})
    BY <1>4, <1>7 DEF StoredThrough, TyList
  <2> QED BY <1>2, <1>3, <1>5, <1>6, <1>7, <2>1
<1>8. CASE kind[i.value] # "function"
  <2>1. MayBe[i.at] \cap Cell \subseteq TyList(i.at, "Recall_Mode") \cup (Own(i.at) \ {cell[u] : u \in composite})
    BY <1>4, <1>8 DEF StoredThrough, TyList
  <2> QED BY <1>2, <1>3, <1>6, <1>8, <2>1
<1> QED BY <1>7, <1>8

\* What is in no layer is kept for all calls, or was stored in a variable through its name.
LEMMA OutsideLayers ==
  ASSUME Whole, NEW P \in Points, Below(P, MayBe), Plain(P), NEW k \in Cell \ Layer, NEW x \in InMemory(P, k, code)
  PROVE  \/ Kept(x)
         \/ /\ k \notin {cell[u] : u \in composite}
            /\ \E i \in code : /\ i.what = "store" /\ kind[i.value] # "data" /\ i.value \in Value
                               /\ x \in P[i.value] /\ k \in Own(i.at)
<1>1. ASSUME NEW i \in code, i.what # "store", i.at = k, x \in defs[i.value] PROVE Kept(x)
  BY <1>1, FieldRecorded
<1>2. ASSUME NEW i \in code, i.what = "store", k \in P[i.at], x \in P[i.value]
      PROVE  \/ Kept(x)
             \/ /\ k \notin {cell[u] : u \in composite}
                /\ kind[i.value] # "data" /\ i.value \in Value /\ k \in Own(i.at)
  <2>1. /\ i.value \in Value /\ i.at \in Value /\ kind[i.value] # "data"
        /\ \/ Kept(x)
           \/ k \in TyList(i.at, IF kind[i.value] = "function" THEN "Precise_Mode" ELSE "Recall_Mode")
           \/ k \in Own(i.at) /\ k \notin {cell[u] : u \in composite}
    BY <1>2, StoredAt
  <2>2. k \notin TyList(i.at, IF kind[i.value] = "function" THEN "Precise_Mode" ELSE "Recall_Mode")
    BY <2>1, Visited DEF Modes
  <2> QED BY <2>1, <2>2
<1>3. \/ \E i \in code : i.what = "store" /\ k \in P[i.at] /\ x \in P[i.value]
      \/ \E i \in code : i.what # "store" /\ i.at = k /\ x \in defs[i.value]
  BY DEF InMemory
<1> QED BY <1>1, <1>2, <1>3

LEMMA AddressMet ==
  ASSUME Whole, ByName(MayBe), NEW T \in SUBSET Value, Closed(T), NEW u \in T, u \in DOMAIN cell
  PROVE  Met(T, cell[u])
<1>1. kind[u] \in {"gep", "alloca", "global"} /\ kind[u] # "global" /\ (kind[u] = "gep" => cell[u] \in Layer)
  BY Disjoint DEF Closed
<1>2. CASE kind[u] = "alloca"
  <2>1. Local(cell[u])
    BY <1>2 DEF Local
  <2> QED BY <2>1 DEF Met
<1>3. CASE kind[u] = "gep"
  <2>1. cell[u] \in LayersOf(T) /\ cell[u] \in Layer
    BY <1>1, <1>3 DEF LayersOf, getGEPLayerTypes
  <2>2. Leads(cell[u], cell[u])
    BY <2>1, WholeFacts, LeadsUp
  <2> QED BY <2>1, <2>2 DEF Met
<1> QED BY <1>1, <1>2, <1>3

LEMMA InTrace ==
  ASSUME Whole, ByName(MayBe), NEW P \in Points, Plain(P), TracedIn(P),
         NEW T \in SUBSET Value, Closed(T), NEW u \in T, NEW x \in P[u]
  PROVE  Met(T, x)
<1>1. CASE u \in DOMAIN cell
  <2>1. x = cell[u]
    BY <1>1 DEF Plain
  <2> QED BY <1>1, <2>1, AddressMet
<1>2. CASE u \notin DOMAIN cell
  BY <1>2 DEF TracedIn
<1> QED BY <1>1, <1>2

\* What an explained store puts in a layer, the layer leads to.
LEMMA ExplainedValue ==
  ASSUME Whole, NEW P \in Points, Plain(P), TracedIn(P),
         NEW i, NEW l \in Layer, Explained(i, l), NEW x \in P[i.value]
  PROVE  Kept(x) \/ x \in Composites \/ Local(x) \/ Leads(l, x)
<1>1. PICK T \in SUBSET Value : i.value \in T /\ Explains(T, l)
  BY DEF Explained
<1>2. ByName(MayBe) /\ Closed(T) /\ FunctionsOf(T) \subseteq typeFuncsMap[l] /\ LayersOf(T) \subseteq {l} \cup typeConfineMap[l]
  BY <1>1 DEF Explained, Explains
<1>3. Met(T, x)
  BY <1>1, <1>2, InTrace
<1>4. /\ \A k \in Confined(l) : \A y : Leads(k, y) => Leads(l, y)
      /\ \A k \in typeConfineMap[l] : k \in Confined(l)
      /\ \A y : y \in typeFuncsMap[l] => Leads(l, y)
  BY WholeFacts, LeadsUp
<1> QED BY <1>2, <1>3, <1>4 DEF Met

\* What a store puts in a layer that the walk from its pointer names, the layer leads to.
LEMMA StoredValue ==
  ASSUME Whole, NEW P \in Points, Below(P, MayBe), Plain(P), Followed(P), TracedIn(P),
         NEW i \in code, i.what = "store", kind[i.value] \notin {"data", "function"}, i.value \in Value, i.at \in Value,
         NEW l \in TyList(i.at, "Recall_Mode"), NEW x \in P[i.value]
  PROVE  Kept(x) \/ x \in Composites \/ Local(x) \/ Leads(l, x)
<1> DEFINE v == i.value
           S == TyList(v, "Recall_Mode")
           walk == Walk(v, "Recall_Mode")
<1>1. MapsTypeOK /\ code \in SUBSET Items /\ "Recall_Mode" \in Modes
  BY WholeFacts DEF Modes
<1>2. /\ l \in Layer /\ walk.visited \in SUBSET Value /\ walk.visited \cap Unvisited = {} /\ S \subseteq Layer
      /\ v \in Unvisited \cup walk.visited /\ (walk.ok => v \notin Unvisited)
      /\ \A u \in walk.visited : u \in DOMAIN cell /\ cell[u] \in Layer => cell[u] \in S
      /\ \A u \in walk.visited : ToSet(Follow(u, code)) \subseteq Unvisited \cup walk.visited
  BY <1>1, Visited
<1>3. /\ l \in typeEscapeSet => Leads(l, x)
      /\ \A k \in Confined(l) : \A y : Leads(k, y) => Leads(l, y)
      /\ \A k \in typeConfineMap[l] : k \in Confined(l)
      /\ l \in Confined(l) /\ \A k \in Layer : Leads(k, k)
  BY <1>1, <1>2, LeadsUp, LayerFacts DEF Leads
<1>4. /\ \A u \in walk.visited : Named(u)
      /\ getBaseType(v) => kind[v] \notin {"phi", "select"}
  BY WholeFacts
<1>5. /\ v \in DOMAIN cell => x = cell[v]
      /\ kind[v] = "load" => P[v] \subseteq UNION {InMemory(P, k, code) : k \in P[operands[v][1]] \cap Cell}
      /\ \A u \in DOMAIN cell : P[u] \subseteq {cell[u]}
  BY DEF Plain
<1>6. Explained(i, l) => Kept(x) \/ x \in Composites \/ Local(x) \/ Leads(l, x)
  BY <1>2, ExplainedValue
<1> HIDE DEF v, S, walk
<1>7. CASE \A k \in TyList(i.at, "Recall_Mode") : k \in typeEscapeSet \/ Explained(i, k)
  BY <1>3, <1>7, <1>6
<1>8. CASE walk.ok /\ \A k \in S : k = l \/ k \in typeConfineMap[l]
  <2>1. \A k \in S : k \in Confined(l) /\ \A y : Leads(k, y) => Leads(l, y)
    BY <1>3, <1>8
  <2>2. v \in walk.visited
    BY <1>2, <1>8
  <2>3. CASE v \notin DOMAIN cell
    <3>1. Trusted(v, "Recall_Mode")
      BY <1>4, <1>8 DEF Trusted, walk
    <3>2. v \in Value /\ x \in P[v]
      BY DEF v
    <3>3. Good(S, x)
      BY <1>1, <2>2, <2>3, <3>1, <3>2 DEF Followed, S, walk
    <3> QED BY <2>1, <3>3 DEF Good
  <2>4. CASE v \in DOMAIN cell
    <3>1. v \in Value /\ kind[v] \in {"gep", "alloca", "global"}
      BY <2>4, Disjoint
    <3>2. kind[v] # "global"
      BY <1>2, <2>2, <3>1 DEF Unvisited
    <3>3. cell[v] \in Layer
      <4>1. walk = WalkIn(v, "Recall_Mode", code)
        BY <1>1, <3>1, CalledWalk DEF walk
      <4>2. ~(kind[v] = "gep" /\ cell[v] \notin Layer) /\ kind[v] # "alloca"
        BY <1>1, <1>8, <3>1, <4>1, NoLayerFails, WholeFacts
      <4> QED BY <3>1, <3>2, <4>2
    <3>4. x \in S
      BY <1>2, <1>5, <2>2, <2>4, <3>3
    <3> QED BY <1>2, <1>3, <2>1, <3>4
  <2> QED BY <2>3, <2>4
<1>9. CASE S = {} /\ getBaseType(v)
  <2>1. v \in Value /\ x \in P[v] /\ kind[v] \notin {"function", "data"}
    BY DEF v
  <2>2. CASE v \in composite
    <3>1. v \in DOMAIN cell /\ x = cell[v]
      BY <1>5, <2>2, CodeAssumption
    <3>2. cell[v] \notin Layer
      <4>1. cell[v] \in Layer => kind[v] = "gep"
        BY <3>1, CodeAssumption
      <4>2. kind[v] = "gep" => v \in walk.visited
        BY <1>2 DEF Unvisited
      <4> QED BY <1>2, <1>9, <3>1, <4>1, <4>2
    <3> QED BY <2>2, <3>1, <3>2 DEF Composites
  <2>3. CASE v \notin composite
    <3> DEFINE p == operands[v][1]
    <3>1. kind[v] = "load" /\ (p \in DOMAIN cell => p \in composite)
      BY <1>4, <1>9, <2>1, <2>3, BaseFacts
    <3>2. v \in walk.visited
      BY <1>2, <3>1 DEF Unvisited
    <3>3. p \in DOMAIN cell
      BY <1>4, <3>1, <3>2 DEF Named
    <3>4. p \in Value /\ p \in ToSet(Follow(v, code))
      <4>1. 1 \in DOMAIN Follow(v, code) /\ Follow(v, code)[1] = operands[v][1]
        BY <1>1, <2>1, <3>1, FollowFacts
      <4>2. p \in Value
        BY <2>1, <3>1, OperandsType
      <4> QED BY <4>1, <4>2 DEF ToSet
    <3>5. cell[p] \notin Layer
      <4>1. cell[p] \in Layer => kind[p] = "gep"
        BY <3>3, CodeAssumption
      <4>2. kind[p] = "gep" => p \notin Unvisited
        BY DEF Unvisited
      <4> HIDE DEF p
      <4>3. p \in Unvisited \cup walk.visited
        BY <1>2, <3>2, <3>4
      <4> QED BY <1>2, <1>9, <3>3, <4>1, <4>2, <4>3
    <3>6. PICK k \in P[p] \cap Cell : x \in InMemory(P, k, code)
      BY <1>5, <2>1, <3>1
    <3> HIDE DEF p
    <3>7. k = cell[p] /\ k \in Cell \ Layer /\ k \in {cell[u] : u \in composite}
      BY <1>5, <3>1, <3>3, <3>5, <3>6
    <3> QED BY <3>6, <3>7, OutsideLayers
  <2> QED BY <2>2, <2>3
<1> QED BY <1>7, <1>8, <1>9, StoreRecorded DEF S, v, walk

\* What is in a layer, the layer leads to.
LEMMA InLayer ==
  ASSUME Whole, NEW P \in Points, Below(P, MayBe), Plain(P), Followed(P), TracedIn(P),
         NEW k \in Layer, NEW x \in InMemory(P, k, code)
  PROVE  Kept(x) \/ x \in Composites \/ Local(x) \/ Leads(k, x)
<1>1. MapsTypeOK /\ k \in Cell
  BY WholeFacts, CodeAssumption
<1>2. ASSUME NEW i \in code, i.what # "store", i.at = k, x \in defs[i.value] PROVE Leads(k, x)
  <2>1. x \in typeFuncsMap[k]
    BY <1>2, FieldRecorded
  <2> QED BY <1>1, <2>1, LeadsUp
<1>3. ASSUME NEW i \in code, i.what = "store", k \in P[i.at], x \in P[i.value]
      PROVE  Kept(x) \/ x \in Composites \/ Local(x) \/ Leads(k, x)
  <2> DEFINE mode == IF kind[i.value] = "function" THEN "Precise_Mode" ELSE "Recall_Mode"
  <2>1. /\ i.value \in Value /\ i.at \in Value /\ kind[i.value] # "data"
        /\ Kept(x) \/ k \in TyList(i.at, mode) \/ k \in Own(i.at)
    BY <1>1, <1>3, StoredAt
  <2>2. k \in Own(i.at) => k \in TyList(i.at, mode)
    <3> SUFFICES ASSUME k \in Own(i.at) PROVE k \in TyList(i.at, mode)
      OBVIOUS
    <3>1. i.at \in DOMAIN cell /\ cell[i.at] = k
      BY DEF Own
    <3>2. kind[i.at] = "gep"
      BY <3>1, CodeAssumption
    <3>3. i.at \notin Unvisited
      BY <3>2 DEF Unvisited
    <3>4. mode \in Modes
      BY DEF Modes
    <3> HIDE DEF mode
    <3> QED BY <2>1, <3>1, <3>3, <3>4, Visited
  <2>3. CASE kind[i.value] = "function"
    <3>1. x \in defs[i.value]
      BY <1>3, <2>1, <2>3 DEF Plain
    <3>2. ~Walk(i.at, "Precise_Mode").ok => Kept(x)
      BY <1>3, <2>3, <3>1, FunctionKept
    <3>3. Walk(i.at, "Precise_Mode").ok /\ k \in TyList(i.at, mode) => x \in typeFuncsMap[k]
      BY <1>3, <2>3, <3>1, FunctionKept
    <3> QED BY <1>1, <2>1, <2>2, <3>2, <3>3, LeadsUp
  <2>4. CASE kind[i.value] # "function"
    <3>1. Kept(x) \/ k \in TyList(i.at, "Recall_Mode")
      BY <2>1, <2>2, <2>4
    <3> QED BY <1>3, <2>1, <2>4, <3>1, StoredValue
  <2> QED BY <2>3, <2>4
<1>4. \/ \E i \in code : i.what = "store" /\ k \in P[i.at] /\ x \in P[i.value]
      \/ \E i \in code : i.what # "store" /\ i.at = k /\ x \in defs[i.value]
  BY DEF InMemory
<1> QED BY <1>2, <1>3, <1>4

-----------------------------------------------------------------------------
(* The walks name all that values may be. *)

LEMMA FollowedItself ==
  ASSUME Whole PROVE Followed(Itself)
<1> SUFFICES ASSUME NEW v \in Value, NEW mode \in Modes, Trusted(v, mode),
                    NEW u \in Walk(v, mode).visited \ DOMAIN cell, NEW x \in Itself[u]
             PROVE  Good(TyList(v, mode), x)
  BY DEF Followed
<1>1. u \in Value /\ u \notin Unvisited
  BY Visited
<1>2. kind[u] # "function" /\ kind[u] \notin {"gep", "alloca", "global"}
  BY <1>1, Disjoint DEF Unvisited
<1>3. Itself[u] = {}
  BY <1>1, <1>2 DEF Itself
<1> QED BY <1>3

\* What a walk that is trusted goes through has visited all it is one of.
LEMMA AllChosen ==
  ASSUME Whole, NEW v \in Value, NEW mode \in Modes, Trusted(v, mode),
         NEW u \in Walk(v, mode).visited \ DOMAIN cell, kind[u] # "data"
  PROVE  OneOf(u, code) \subseteq Walk(v, mode).visited
<1>1. /\ MapsTypeOK /\ code \in SUBSET Items
      /\ \A a \in Value : kind[a] = "alloca" => \A s \in ToSet(operands[a]) : kind[s] = "data"
  BY WholeFacts
<1>2. Walk(v, mode) = WalkIn(v, mode, code) /\ u \in Value /\ Walk(v, mode).ok
  BY <1>1, CalledWalk, Visited DEF Trusted
<1>3. CASE mode = "Precise_Mode"
  <2>1. ToSet(Follow(u, code)) \subseteq Walk(v, mode).visited
    BY <1>1, <1>2, <1>3, PreciseWalk
  <2>2. OneOf(u, code) \subseteq ToSet(Follow(u, code))
    <3>1. kind[u] \in {"cast", "phi", "select", "load"} \/ OneOf(u, code) = {}
      BY DEF OneOf
    <3> QED BY <1>1, <1>2, <3>1, FollowFacts DEF ToSet
  <2> QED BY <2>1, <2>2
<1>4. CASE mode = "Recall_Mode"
  <2>1. \A w \in Walk(v, mode).visited : kind[w] = "load" => operands[w][1] \in DOMAIN cell
    BY <1>4 DEF Trusted, Named
  <2>2. u \notin DOMAIN cell \cup Data
    BY DEF Data
  <2> QED BY <1>1, <1>2, <1>4, <2>1, <2>2, RecallWalk
<1> QED BY <1>3, <1>4 DEF Modes

\* What a value is one of, the walk names.
LEMMA ChosenGood ==
  ASSUME Whole, NEW P \in Points, Plain(P), Followed(P),
         NEW v \in Value, NEW mode \in Modes, Trusted(v, mode),
         NEW u \in Walk(v, mode).visited \ DOMAIN cell, kind[u] # "data",
         NEW o \in OneOf(u, code), NEW x \in P[o]
  PROVE  Good(TyList(v, mode), x)
<1> DEFINE L == TyList(v, mode)
           walk == Walk(v, mode)
<1>1. MapsTypeOK /\ code \in SUBSET Items
  BY WholeFacts
<1>2. o \in walk.visited
  BY AllChosen
<1>3. /\ o \in Value /\ o \notin Unvisited /\ L \subseteq Layer
      /\ o \in DOMAIN cell /\ cell[o] \in Layer => cell[o] \in L
  BY <1>2, Visited
<1>4. CASE o \notin DOMAIN cell
  BY <1>2, <1>3, <1>4 DEF Followed
<1>5. CASE o \in DOMAIN cell
  <2>1. x = cell[o] /\ kind[o] \in {"gep", "alloca"}
    BY <1>3, <1>5, Disjoint DEF Plain, Unvisited
  <2>2. CASE cell[o] \in Layer
    <3>1. x \in L /\ Leads(x, x)
      BY <1>1, <1>3, <1>5, <2>1, <2>2, LeadsUp
    <3> QED BY <3>1 DEF Good
  <2>3. CASE cell[o] \notin Layer
    <3>1. mode # "Precise_Mode"
      <4> SUFFICES ASSUME mode = "Precise_Mode" PROVE FALSE
        OBVIOUS
      <4>1. walk = WalkIn(v, "Precise_Mode", code) /\ walk.ok
        BY <1>1, CalledWalk DEF Trusted
      <4>2. \A w \in walk.visited : /\ kind[w] # "data" /\ (kind[w] = "gep" => cell[w] \in Layer)
                                     /\ ToSet(Follow(w, code)) \subseteq walk.visited
        <5> HIDE DEF walk
        <5> QED BY <1>1, <4>1, PreciseWalk
      <4>3. kind[o] = "alloca"
        BY <1>2, <2>1, <2>3, <4>2
      <4>4. ToSet(Follow(o, code)) = ToSet(operands[o]) /\ operands[o][1] \in ToSet(operands[o])
        BY <1>1, <1>3, <4>3, FollowFacts, OperandsType
      <4>5. kind[operands[o][1]] = "data"
        BY <1>3, <4>3, <4>4, WholeFacts
      <4> HIDE DEF walk
      <4> QED BY <1>2, <4>2, <4>4, <4>5
    <3>2. Named(u)
      BY <3>1 DEF Trusted, Modes
    <3>3. o \in composite
      BY <1>5, <2>3, <3>2 DEF Named
    <3>4. x \in Composites
      BY <2>1, <2>3, <3>3 DEF Composites
    <3> QED BY <3>4 DEF Good
  <2> QED BY <2>2, <2>3
<1> QED BY <1>4, <1>5

\* So is what a value is loaded from.
LEMMA LoadedGood ==
  ASSUME Whole, NEW P \in Points, Below(P, MayBe), Plain(P), Followed(P), TracedIn(P),
         NEW v \in Value, NEW mode \in Modes, Trusted(v, mode),
         NEW u \in Walk(v, mode).visited \ DOMAIN cell, kind[u] = "load",
         NEW k \in P[operands[u][1]] \cap Cell, NEW x \in InMemory(P, k, code)
  PROVE  Good(TyList(v, mode), x)
<1> DEFINE L == TyList(v, mode)
           walk == Walk(v, mode)
           p == operands[u][1]
<1>1. MapsTypeOK /\ code \in SUBSET Items /\ u \in Value /\ Function \cap Cell = {}
  BY WholeFacts, Visited, CodeAssumption
<1>2. p \in Value /\ p \in ToSet(Follow(u, code))
  <2>1. 1 \in DOMAIN Follow(u, code) /\ Follow(u, code)[1] = operands[u][1]
    BY <1>1, FollowFacts
  <2>2. p \in Value
    BY <1>1, OperandsType
  <2> QED BY <2>1, <2>2 DEF ToSet
<1>3. /\ p \in Unvisited \cup walk.visited /\ L \subseteq Layer
      /\ \A w \in walk.visited : w \in DOMAIN cell /\ cell[w] \in Layer => cell[w] \in L
      /\ walk.visited \cap Unvisited = {}
  BY <1>2, Visited
<1>4. \A l \in Layer : /\ Leads(l, l) /\ \A j \in Confined(l) : \A y : Leads(j, y) => Leads(l, y)
                       /\ Confined(l) \subseteq Layer /\ merge_set(l) \subseteq Function
  BY <1>1, LeadsUp, LayerFacts
<1> HIDE DEF L, walk, p
<1>5. CASE p \in DOMAIN cell /\ cell[p] \in Layer
  <2>1. k = cell[p]
    BY <1>5 DEF Plain, p
  <2>2. kind[p] = "gep"
    BY <1>5, CodeAssumption
  <2>3. p \notin Unvisited
    BY <2>2 DEF Unvisited
  <2>4. k \in L
    BY <1>3, <1>5, <2>1, <2>3
  <2>5. Kept(x) \/ x \in Composites \/ Local(x) \/ Leads(k, x)
    BY <1>5, <2>1, InLayer
  <2> QED BY <2>4, <2>5 DEF Good, L
<1>6. CASE mode = "Precise_Mode" /\ ~(p \in DOMAIN cell /\ cell[p] \in Layer)
  <2>1. walk = WalkIn(v, "Precise_Mode", code) /\ walk.ok
    BY <1>1, <1>6, CalledWalk DEF Trusted, walk
  <2>2. \A w \in walk.visited : /\ kind[w] # "data" /\ (kind[w] = "gep" => cell[w] \in Layer)
                                 /\ ToSet(Follow(w, code)) \subseteq walk.visited
    BY <1>1, <2>1, PreciseWalk
  <2>3. p \in walk.visited
    BY <1>2, <2>2 DEF walk
  <2>4. p \notin DOMAIN cell
    <3> SUFFICES ASSUME p \in DOMAIN cell PROVE FALSE
      OBVIOUS
    <3>1. kind[p] = "alloca"
      BY <1>3, <1>6, <2>2, <2>3, Disjoint DEF Unvisited
    <3>2. ToSet(Follow(p, code)) = ToSet(operands[p]) /\ operands[p][1] \in ToSet(operands[p])
      BY <1>1, <1>2, <3>1, FollowFacts, OperandsType
    <3>3. kind[operands[p][1]] = "data"
      BY <1>2, <3>1, <3>2, WholeFacts
    <3> QED BY <2>2, <2>3, <3>2, <3>3
  <2>5. Good(L, k)
    <3>1. \A w \in Walk(v, mode).visited \ DOMAIN cell : \A y \in P[w] : Good(TyList(v, mode), y)
      BY DEF Followed
    <3> QED BY <2>3, <2>4, <3>1 DEF walk, L, p
  <2>6. ~Kept(k) /\ k \in Cell
    BY <1>1 DEF Kept
  <2>7. CASE k \in Composites
    <3>1. k \in Cell \ Layer /\ k \in {cell[w] : w \in composite}
      BY <2>6, <2>7 DEF Composites
    <3>2. Kept(x)
      BY <3>1, OutsideLayers
    <3> QED BY <3>2 DEF Good
  <2>8. ASSUME NEW l \in L, Leads(l, k) PROVE Good(L, x)
    <3>1. l \in Layer
      BY <1>3
    <3>2. CASE isEscape(l)
      BY <3>2 DEF Good, Leads
    <3>3. CASE k \in Confined(l)
      <4>1. k \in Layer
        BY <1>4, <3>1, <3>3
      <4>2. Kept(x) \/ x \in Composites \/ Local(x) \/ Leads(k, x)
        BY <4>1, InLayer
      <4>3. Leads(k, x) => Leads(l, x)
        BY <1>4, <3>1, <3>3
      <4> QED BY <4>2, <4>3 DEF Good
    <3>4. k \notin merge_set(l)
      BY <1>1, <1>4, <2>6, <3>1
    <3> QED BY <2>8, <3>2, <3>3, <3>4 DEF Leads
  <2>9. ~Local(k)
    <3> SUFFICES ASSUME ByName(MayBe), NEW a \in Value, kind[a] = "alloca", k = cell[a] PROVE FALSE
      BY DEF Local
    <3>1. p \in Addressed /\ k \in MayBe[p]
      BY <1>1, <1>2 DEF Addressed, Below, p
    <3>2. p = a /\ a \in DOMAIN cell
      BY <3>1, Disjoint DEF ByName
    <3> QED BY <2>4, <3>2
  <2> QED BY <2>5, <2>6, <2>7, <2>8, <2>9 DEF Good, L
<1>7. CASE mode = "Recall_Mode" /\ ~(p \in DOMAIN cell /\ cell[p] \in Layer)
  <2>1. p \in DOMAIN cell
    BY <1>7 DEF Trusted, Named, p
  <2>2. k = cell[p] /\ k \in Cell \ Layer
    BY <1>7, <2>1 DEF Plain, p
  <2>3. CASE Kept(x)
    BY <2>3 DEF Good
  <2>4. ASSUME NEW i \in code, i.what = "store", kind[i.value] # "data", x \in P[i.value], k \in Own(i.at)
        PROVE  Good(L, x)
    <3>1. p = i.at
      BY <2>1, <2>2, <2>4 DEF Own
    <3>2. i.value \in StoredTo(p, code)
      BY <2>4, <3>1 DEF StoredTo
    <3>3. i.value \in OneOf(u, code)
      BY <2>4, <3>2 DEF OneOf, p
    <3> QED BY <2>4, <3>3, ChosenGood DEF L
  <2> QED BY <2>2, <2>3, <2>4, OutsideLayers DEF L
<1> QED BY <1>5, <1>6, <1>7 DEF L, Modes

LEMMA FollowedKept ==
  ASSUME Whole, NEW P \in Points, Below(P, MayBe), Plain(P), Followed(P), TracedIn(P)
  PROVE  Followed(More(P, code))
<1> SUFFICES ASSUME NEW v \in Value, NEW mode \in Modes, Trusted(v, mode),
                    NEW u \in Walk(v, mode).visited \ DOMAIN cell, NEW x \in More(P, code)[u]
             PROVE  Good(TyList(v, mode), x)
  BY DEF Followed
<1>1. u \in Value /\ u \notin Unvisited
  BY Visited
<1>2. x \in P[u] \/ x \in Flows(P, u, code)
  BY <1>1, MoreFacts
<1>3. CASE x \in P[u]
  BY <1>3 DEF Followed
<1>4. CASE x \in Flows(P, u, code) /\ kind[u] \in {"cast", "phi", "select"}
  <2>1. Flows(P, u, code) = UNION {P[o] : o \in ToSet(operands[u])} /\ OneOf(u, code) = ToSet(operands[u])
    BY <1>4 DEF Flows, OneOf
  <2>2. PICK o \in OneOf(u, code) : x \in P[o]
    BY <1>4, <2>1
  <2> QED BY <1>4, <2>2, ChosenGood
<1>5. CASE x \in Flows(P, u, code) /\ kind[u] = "load"
  <2>1. Flows(P, u, code) = UNION {InMemory(P, k, code) : k \in P[operands[u][1]] \cap Cell}
    BY <1>5 DEF Flows
  <2>2. PICK k \in P[operands[u][1]] \cap Cell : x \in InMemory(P, k, code)
    BY <1>5, <2>1
  <2> QED BY <1>5, <2>2, LoadedGood
<1>6. CASE kind[u] \notin {"cast", "phi", "select", "load"}
  <2>1. kind[u] \notin {"argument", "call"}
    BY <1>1 DEF Unvisited
  <2>2. Flows(P, u, code) = {}
    BY <1>6, <2>1 DEF Flows
  <2> QED BY <1>2, <1>3, <2>2
<1> QED BY <1>2, <1>3, <1>4, <1>5, <1>6

LEMMA TracedItself ==
  ASSUME Whole PROVE TracedIn(Itself)
<1> SUFFICES ASSUME NEW T \in SUBSET Value, NEW u \in T \ DOMAIN cell, NEW x \in Itself[u]
             PROVE  Met(T, x)
  BY DEF TracedIn
<1>1. kind[u] = "function" /\ u \in Function /\ x \in defs[u]
  BY Disjoint DEF Itself
<1>2. x \in FunctionsOf(T)
  BY <1>1 DEF FunctionsOf
<1> QED BY <1>2 DEF Met

\* What is loaded in a trace has been met.
LEMMA LoadedMet ==
  ASSUME Whole, ByName(MayBe), NEW P \in Points, Below(P, MayBe), Plain(P), Followed(P), TracedIn(P),
         NEW T \in SUBSET Value, Closed(T), NEW u \in T, kind[u] = "load",
         NEW k \in P[operands[u][1]] \cap Cell, NEW x \in InMemory(P, k, code)
  PROVE  Met(T, x)
<1> DEFINE p == operands[u][1]
<1>1. MapsTypeOK /\ code \in Programs /\ code \in SUBSET Items /\ Function \cap Cell = {} /\ Layer \subseteq Cell
  BY WholeFacts, CodeAssumption
<1>2. p \in Value /\ p \in T /\ StoredTo(p, code) \subseteq T
  <2>1. MaySources(u) = {p} \cup StoredTo(p, code)
    BY DEF MaySources
  <2> QED BY <2>1 DEF Closed
<1>3. p \in Addressed /\ k \in MayBe[p]
  BY <1>2 DEF Addressed, Below
<1>4. kind[p] # "global" /\ (kind[p] = "gep" => cell[p] \in Layer)
  BY <1>2 DEF Closed
<1>5. \A l \in Layer : /\ Leads(l, l) /\ \A j \in Confined(l) : \A y : Leads(j, y) => Leads(l, y)
                       /\ Confined(l) \subseteq Layer /\ merge_set(l) \subseteq Function
  BY <1>1, LeadsUp, LayerFacts
<1>6. LayersOf(T) \subseteq Layer /\ FunctionsOf(T) \subseteq Function
  BY MetType
<1>7. p \in DOMAIN cell => k = cell[p] /\ kind[p] \in {"gep", "alloca", "global"}
  BY <1>2, Disjoint DEF Plain
<1> HIDE DEF p
<1>8. CASE p \in DOMAIN cell /\ kind[p] = "gep"
  <2>1. k = cell[p] /\ k \in Layer
    BY <1>4, <1>7, <1>8
  <2>2. k \in LayersOf(T)
    BY <1>2, <1>8, <2>1 DEF LayersOf, getGEPLayerTypes
  <2>3. Kept(x) \/ x \in Composites \/ Local(x) \/ Leads(k, x)
    BY <2>1, InLayer
  <2> QED BY <2>2, <2>3 DEF Met
<1>9. CASE p \in DOMAIN cell /\ kind[p] = "alloca"
  <2>1. k = cell[p]
    BY <1>7, <1>9
  <2>2. ASSUME NEW i \in code, i.what = "store", k \in P[i.at], x \in P[i.value] PROVE Met(T, x)
    <3>1. i.at \in Value /\ i.value \in Value
      BY <1>1, <2>2, CodeAssumption, ItemType
    <3>2. i.at \in Addressed /\ k \in MayBe[i.at]
      BY <2>2, <3>1 DEF Addressed, Below
    <3>3. i.at = p
      BY <1>2, <1>9, <2>1, <3>2 DEF ByName
    <3>4. i.value \in T
      BY <1>2, <2>2, <3>3 DEF StoredTo
    <3> QED BY <2>2, <3>4, InTrace
  <2>3. ASSUME NEW i \in code, i.what # "store", i.at = k PROVE FALSE
    BY <1>1, <1>2, <1>9, <2>1, <2>3, CodeAssumption
  <2> QED BY <2>2, <2>3 DEF InMemory
<1>10. CASE p \notin DOMAIN cell
  <2>1. Met(T, k)
    BY <1>2, <1>10 DEF TracedIn, p
  <2>2. k \notin FunctionsOf(T) /\ ~Kept(k)
    BY <1>1, <1>6 DEF Kept
  <2>3. ~Local(k)
    <3> SUFFICES ASSUME NEW a \in Value, kind[a] = "alloca", k = cell[a] PROVE FALSE
      BY DEF Local
    <3>1. p = a /\ a \in DOMAIN cell
      BY <1>3, Disjoint DEF ByName, p
    <3> QED BY <1>10, <3>1
  <2>4. PICK l \in LayersOf(T) : k \in Composites \/ Leads(l, k)
    BY <2>1, <2>2, <2>3 DEF Met
  <2>5. CASE k \in Composites
    <3>1. k \in Cell \ Layer /\ k \in {cell[w] : w \in composite}
      BY <2>5 DEF Composites
    <3>2. Kept(x)
      BY <3>1, OutsideLayers
    <3> QED BY <2>4, <3>2 DEF Met
  <2>6. CASE Leads(l, k)
    <3>1. l \in Layer
      BY <1>6, <2>4
    <3>2. CASE isEscape(l)
      BY <2>4, <3>2 DEF Met, Leads
    <3>3. CASE k \in Confined(l)
      <4>1. k \in Layer
        BY <1>5, <3>1, <3>3
      <4>2. Kept(x) \/ x \in Composites \/ Local(x) \/ Leads(k, x)
        BY <4>1, InLayer
      <4>3. Leads(k, x) => Leads(l, x)
        BY <1>5, <3>1, <3>3
      <4> QED BY <2>4, <4>2, <4>3 DEF Met
    <3>4. k \notin merge_set(l)
      BY <1>1, <1>5, <3>1
    <3> QED BY <2>6, <3>2, <3>3, <3>4 DEF Leads
  <2> QED BY <2>4, <2>5, <2>6
<1> QED BY <1>4, <1>7, <1>8, <1>9, <1>10

LEMMA TracedKept ==
  ASSUME Whole, NEW P \in Points, Below(P, MayBe), Plain(P), Followed(P), TracedIn(P)
  PROVE  TracedIn(More(P, code))
<1> SUFFICES ASSUME ByName(MayBe), NEW T \in SUBSET Value, Closed(T),
                    NEW u \in T \ DOMAIN cell, NEW x \in More(P, code)[u]
             PROVE  Met(T, x)
  BY DEF TracedIn
<1>1. u \in Value /\ u \in T /\ MaySources(u) \subseteq T
  BY DEF Closed
<1>2. x \in P[u] \/ x \in Flows(P, u, code)
  BY <1>1, MoreFacts
<1>3. \A w \in T : \A y \in P[w] : Met(T, y)
  BY InTrace
<1>4. \A c \in Call : Callable(P, c) \subseteq Callable(MayBe, c)
  <2>1. \A c \in ICall : called[c] \in Value
    BY CodeAssumption
  <2> QED BY <2>1 DEF Callable, MayCall, Below
<1>5. CASE x \in Flows(P, u, code) /\ kind[u] = "argument"
  <2> DEFINE C == {c \in Call : parent[u] \in Callable(P, c)}
             D == {c \in Call : parent[u] \in Callable(MayBe, c)}
  <2>1. Flows(P, u, code) = UNION {P[w] : w \in Passed(u, C)}
    BY <1>5 DEF Flows
  <2>2. MaySources(u) = Passed(u, D)
    BY <1>5 DEF MaySources
  <2>3. C \subseteq D
    BY <1>4
  <2> HIDE DEF C, D
  <2>4. Passed(u, C) \subseteq Passed(u, D)
    BY <2>3 DEF Passed
  <2> QED BY <1>1, <1>3, <1>5, <2>1, <2>2, <2>4
<1>6. CASE x \in Flows(P, u, code) /\ kind[u] = "call"
  <2>1. Flows(P, u, code) = UNION {P[w] : w \in Returned(Callable(P, u))}
    BY <1>6 DEF Flows
  <2>2. MaySources(u) = Returned(Callable(MayBe, u))
    BY <1>6 DEF MaySources
  <2>3. u \in Call
    BY <1>1, <1>6, CodeAssumption
  <2>4. Returned(Callable(P, u)) \subseteq Returned(Callable(MayBe, u))
    BY <1>4, <2>3 DEF Returned
  <2> QED BY <1>1, <1>3, <1>6, <2>1, <2>2, <2>4
<1>7. CASE x \in Flows(P, u, code) /\ kind[u] \in {"cast", "phi", "select"}
  <2>1. Flows(P, u, code) = UNION {P[w] : w \in ToSet(operands[u])} /\ MaySources(u) = ToSet(operands[u])
    BY <1>7 DEF Flows, MaySources
  <2> QED BY <1>1, <1>3, <1>7, <2>1
<1>8. CASE x \in Flows(P, u, code) /\ kind[u] = "load"
  <2>1. Flows(P, u, code) = UNION {InMemory(P, k, code) : k \in P[operands[u][1]] \cap Cell}
    BY <1>8 DEF Flows
  <2>2. PICK k \in P[operands[u][1]] \cap Cell : x \in InMemory(P, k, code)
    BY <1>8, <2>1
  <2> QED BY <1>1, <1>8, <2>2, LoadedMet
<1>9. kind[u] \notin {"argument", "call", "cast", "phi", "select", "load"} => Flows(P, u, code) = {}
  BY DEF Flows
<1> QED BY <1>1, <1>2, <1>3, <1>5, <1>6, <1>7, <1>8, <1>9

LEMMA MayBeFollowed == ASSUME Whole PROVE Plain(MayBe) /\ Followed(MayBe) /\ TracedIn(MayBe) /\ MayBe \in Points
<1> DEFINE I == {P \in Points : Plain(P) /\ (Below(P, MayBe) => Followed(P) /\ TracedIn(P))}
<1>1. MapsTypeOK /\ code \in Programs
  BY WholeFacts
<1>2. Itself \in I
  BY <1>1, FlowsType, PlainItself, FollowedItself, TracedItself
<1>3. ASSUME NEW P \in I PROVE More(P, code) \in I
  <2>1. P \in Points /\ Plain(P)
    OBVIOUS
  <2>2. More(P, code) \in Points /\ Below(P, More(P, code)) /\ Plain(More(P, code))
    BY <2>1, MoreFacts, PlainKept
  <2>3. ASSUME Below(More(P, code), MayBe) PROVE Followed(More(P, code)) /\ TracedIn(More(P, code))
    <3>1. Below(P, MayBe)
      BY <2>2, <2>3 DEF Below
    <3> QED BY <2>1, <3>1, FollowedKept, TracedKept
  <2> QED BY <2>2, <2>3
<1>4. I \in SUBSET Points
  OBVIOUS
<1> HIDE DEF I
<1>5. MayBe \in I
  BY <1>1, <1>2, <1>3, <1>4, MayBeKeeps
<1> QED BY <1>5 DEF I, Below

-----------------------------------------------------------------------------
(* The targets of a call. *)

\* Every layer of the call has escaped or has targets.
Clear(c) ==
  \A l \in TyList(called[c], "Precise_Mode") : isEscape(l) \/ FST(c, sigFuncsMap[sig[c]], l) # {}

\* What the loop over the layers has done by the time it has seen i of them.
SeenClear(c, A, list, i) ==
  /\ A[i].FS1 = sigFuncsMap[sig[c]] /\ A[i].results \subseteq {"TwoLayer", "TypeEscape"}
  /\ \A j \in 1..i : \/ "TypeEscape" \in A[i].results
                     \/ /\ "TwoLayer" \in A[i].results /\ ~isEscape(list[j])
                        /\ FST(c, sigFuncsMap[sig[c]], list[j]) \subseteq A[i].FS2

LEMMA ClearSteps ==
  ASSUME MapsTypeOK, NEW c \in ICall, Clear(c),
         NEW A \in [Nat -> Accumulators], NEW list \in Seq(Layer), FoundBy(c, A, list)
  PROVE  SeenClear(c, A, list, Len(list))
<1> DEFINE S == sigFuncsMap[sig[c]]
           P == {i \in Nat : i <= Len(list) => SeenClear(c, A, list, i)}
<1>1. Len(list) \in Nat /\ DOMAIN list = 1..Len(list) /\ \A i \in DOMAIN list : list[i] \in ToSet(list)
  BY DEF ToSet
<1>2. A[0] = First(c) /\ \A i \in 1..Len(list) : A[i] = Step(c, A[i - 1], list[i])
  BY DEF FoundBy, Loop
<1>3. \A l \in ToSet(list) : isEscape(l) \/ FST(c, S, l) # {}
  BY DEF FoundBy, Clear, TyList
<1>4. 0 \in P
  <2>1. A[0].FS1 = S /\ A[0].results = {}
    BY <1>2 DEF First
  <2> QED BY <2>1 DEF SeenClear
<1>5. ASSUME NEW i \in P PROVE i + 1 \in P
  <2> SUFFICES ASSUME i + 1 <= Len(list) PROVE SeenClear(c, A, list, i + 1)
    OBVIOUS
  <2> DEFINE a == A[i]
             b == A[i + 1]
             l == list[i + 1]
             found == FST(c, S, l)
  <2>1. i \in Nat /\ i + 1 \in 1..Len(list) /\ (i + 1) - 1 = i /\ SeenClear(c, A, list, i)
    BY <1>1
  <2>2. b = Step(c, a, l)
    BY <1>2, <2>1
  <2>3. a \in Accumulators /\ a.FS1 = S
    BY <2>1 DEF SeenClear
  <2>4. isEscape(l) \/ found # {}
    BY <1>1, <1>3, <2>1
  <2>5. isEscape(l) => found = {}
    BY DEF FST
  <2>6. b = IF found # {} THEN [a EXCEPT !.results = @ \cup {"TwoLayer"}, !.FS2 = @ \cup found]
            ELSE IF isEscape(l) THEN [a EXCEPT !.results = @ \cup {"TypeEscape"}]
            ELSE [a EXCEPT !.results = @ \cup {"NoTwoLayerInfo"}, !.FS1 = {}]
    BY <2>2, <2>3 DEF Step
  <2>7. /\ \A j \in 1..i : \/ "TypeEscape" \in a.results
                           \/ "TwoLayer" \in a.results /\ ~isEscape(list[j]) /\ FST(c, S, list[j]) \subseteq a.FS2
        /\ a.results \subseteq {"TwoLayer", "TypeEscape"}
    BY <2>1 DEF SeenClear
  <2> HIDE DEF a, b, l, found
  <2>8. CASE found # {}
    <3>1. b = [a EXCEPT !.results = @ \cup {"TwoLayer"}, !.FS2 = @ \cup found]
      BY <2>6, <2>8
    <3>2. b.FS1 = S /\ b.results = a.results \cup {"TwoLayer"} /\ b.FS2 = a.FS2 \cup found
      BY <2>3, <3>1 DEF Accumulators
    <3>3. ~isEscape(l)
      BY <2>5, <2>8
    <3>4. ASSUME NEW j \in 1..(i + 1)
          PROVE  \/ "TypeEscape" \in b.results
                 \/ "TwoLayer" \in b.results /\ ~isEscape(list[j]) /\ FST(c, S, list[j]) \subseteq b.FS2
      <4>1. CASE j \in 1..i
        BY <2>7, <3>2, <4>1
      <4>2. CASE j = i + 1
        <5>1. list[j] = l /\ FST(c, S, list[j]) = found
          BY <4>2 DEF l, found
        <5> HIDE DEF S
        <5> QED BY <3>2, <3>3, <5>1
      <4> QED BY <2>1, <4>1, <4>2
    <3>5. b.results \subseteq {"TwoLayer", "TypeEscape"}
      BY <2>7, <3>2
    <3> QED BY <3>2, <3>4, <3>5 DEF SeenClear, b
  <2>9. CASE found = {}
    <3>1. b = [a EXCEPT !.results = @ \cup {"TypeEscape"}]
      BY <2>4, <2>6, <2>9
    <3>2. b.FS1 = S /\ b.results = a.results \cup {"TypeEscape"}
      BY <2>3, <3>1 DEF Accumulators
    <3>3. b.results \subseteq {"TwoLayer", "TypeEscape"} /\ "TypeEscape" \in b.results
      BY <2>7, <3>2
    <3> QED BY <3>2, <3>3 DEF SeenClear, b
  <2> QED BY <2>8, <2>9
<1>6. P \in SUBSET Nat
  OBVIOUS
<1> HIDE DEF P
<1>7. P = Nat
  BY <1>4, <1>5, <1>6, SetInduction
<1> QED BY <1>1, <1>7 DEF P

\* A function that may be called is in the targets of one layer.
LEMMA OfOneLayer ==
  ASSUME Whole, NEW c \in ICall, NEW f \in MayCall(MayBe, c)
  PROVE  f \in Function /\ sig[f] = sig[c] /\ f \in sigFuncsMap[sig[c]]
<1>1. f \in MayBe[called[c]] /\ f \in Function /\ sig[f] = sig[c] /\ called[c] \in Value
  BY CodeAssumption DEF MayCall
<1>2. MayBe[called[c]] \cap Function \subseteq UNION {defs[g] : g \in Function}
  BY <1>1, MayBeFollowed DEF Plain
<1>3. PICK g \in Function : f \in defs[g]
  BY <1>1, <1>2
<1> QED BY <1>1, <1>3, WholeFacts

\* Its layers lead to it.
LEMMA OfTheLayers ==
  ASSUME Whole, NEW c \in ICall, NEW f \in MayCall(MayBe, c), Walk(called[c], "Precise_Mode").ok
  PROVE  LET L == TyList(called[c], "Precise_Mode") IN
         /\ L # {} /\ L \subseteq Layer
         /\ \E l \in L : isEscape(l) \/ f \in FST(c, sigFuncsMap[sig[c]], l)
<1> DEFINE v == called[c]
           L == TyList(v, "Precise_Mode")
<1>1. MapsTypeOK /\ code \in SUBSET Items /\ v \in Value /\ "Precise_Mode" \in Modes
  BY WholeFacts, CodeAssumption DEF Modes
<1>2. f \in Function /\ sig[f] = sig[c] /\ f \in sigFuncsMap[sig[c]] /\ f \in MayBe[v]
  BY OfOneLayer DEF MayCall
<1>3. f \notin Cell /\ Layer \subseteq Cell /\ \A u \in DOMAIN cell : cell[u] \in Cell
  BY <1>2, CodeAssumption
<1> HIDE DEF v
<1>4. Walk(v, "Precise_Mode") = WalkIn(v, "Precise_Mode", code) /\ ToSet(Walk(v, "Precise_Mode").TyList) = L
      /\ L \subseteq Layer /\ Walk(v, "Precise_Mode").ok
  BY <1>1, CalledWalk DEF v
<1>5. v \in Walk(v, "Precise_Mode").visited /\ L # {}
  BY <1>1, <1>4, PreciseNames
<1>6. v \notin DOMAIN cell
  BY <1>2, <1>3, MayBeFollowed DEF Plain
<1>7. Good(L, f)
  <2>1. Trusted(v, "Precise_Mode")
    BY <1>4 DEF Trusted
  <2> QED BY <1>1, <1>2, <1>5, <1>6, <2>1, MayBeFollowed DEF Followed
<1>8. f \notin Composites
  <2>1. composite \subseteq DOMAIN cell
    BY CodeAssumption
  <2> QED BY <1>3, <2>1 DEF Composites
<1>9. ~Local(f)
  BY <1>3, Disjoint DEF Local
<1>10. CASE Kept(f)
  <2>1. f \in Global_EmptyTy_Funcs[sig[c]]
    BY <1>2, <1>10 DEF Kept
  <2>2. \A l \in L : isEscape(l) \/ f \in FST(c, sigFuncsMap[sig[c]], l)
    BY <2>1 DEF FST
  <2> QED BY <1>4, <1>5, <2>2 DEF v
<1>11. ASSUME NEW l \in L, Leads(l, f) PROVE isEscape(l) \/ f \in FST(c, sigFuncsMap[sig[c]], l)
  <2>1. f \notin Confined(l)
    BY <1>1, <1>3, <1>4, LayerFacts
  <2>2. isEscape(l) \/ f \in merge_set(l)
    BY <1>11, <2>1 DEF Leads
  <2> QED BY <1>2, <2>2 DEF FST
<1> QED BY <1>4, <1>5, <1>7, <1>8, <1>10, <1>11, <1>9 DEF Good, v

LEMMA ClearCalls ==
  ASSUME Whole, NEW c \in ICall, ~Loses(c), NEW f \in MayCall(MayBe, c), Walk(called[c], "Precise_Mode").ok
  PROVE  Clear(c)
<1> DEFINE L == TyList(called[c], "Precise_Mode")
<1>1. L # {} /\ L \subseteq Layer /\ \E l \in L : isEscape(l) \/ f \in FST(c, sigFuncsMap[sig[c]], l)
  BY OfTheLayers
<1>2. IsFiniteSet(L) /\ Cardinality(L) \in Nat
  BY <1>1, LayersFinite, FS_Subset, FS_CardinalityType
<1>3. \/ ~(Cardinality(L) > 1)
      \/ \A l \in L : isEscape(l) \/ FST(c, sigFuncsMap[sig[c]], l) # {}
  BY DEF Loses
<1> HIDE DEF L
<1>4. CASE ~(Cardinality(L) > 1)
  <2>1. Cardinality(L) # 0
    BY <1>1, <1>2, FS_EmptySet
  <2>2. Cardinality(L) = 1
    BY <1>2, <1>4, <2>1
  <2>3. PICK k : L = {k}
    BY <1>2, <2>2, FS_Singleton
  <2> QED BY <1>1, <2>3 DEF Clear, L
<1> QED BY <1>3, <1>4 DEF Clear, L

\* A function that may be called is a target.
LEMMA WholeCovered ==
  ASSUME Whole, NEW c \in ICall, ~Loses(c) PROVE MayCall(MayBe, c) \subseteq findCalleesWithMLTA(c)[2]
<1> SUFFICES ASSUME NEW f \in MayCall(MayBe, c) PROVE f \in findCalleesWithMLTA(c)[2]
  OBVIOUS
<1> DEFINE S == sigFuncsMap[sig[c]]
           walk == Walk(called[c], "Precise_Mode")
           L == TyList(called[c], "Precise_Mode")
<1>1. MapsTypeOK
  BY WholeFacts
<1>2. f \in S
  BY OfOneLayer
<1>3. PICK A \in [Nat -> Accumulators], list \in Seq(Layer) : FoundBy(c, A, list)
  BY <1>1, FindFacts
<1> DEFINE all == A[Len(list)]
<1>4. findCalleesWithMLTA(c) = Outcome(c, all) /\ list = walk.TyList /\ Len(list) \in Nat
  BY <1>1, <1>3 DEF FoundBy
<1> HIDE DEF all, walk
<1>5. CASE ~walk.ok
  <2>1. Outcome(c, all) = <<"OneLayer", S>>
    BY <1>2, <1>5 DEF Outcome, walk
  <2> QED BY <1>2, <1>4, <2>1
<1>6. CASE walk.ok
  <2>1. Clear(c) /\ \E l \in L : isEscape(l) \/ f \in FST(c, S, l)
    BY <1>6, ClearCalls, OfTheLayers DEF walk
  <2>2. /\ all.FS1 = S /\ all.results \subseteq {"TwoLayer", "TypeEscape"}
        /\ \A j \in 1..Len(list) : \/ "TypeEscape" \in all.results
                                   \/ "TwoLayer" \in all.results /\ ~isEscape(list[j]) /\ FST(c, S, list[j]) \subseteq all.FS2
    <3>1. SeenClear(c, A, list, Len(list))
      BY <1>1, <1>3, <2>1, ClearSteps
    <3> QED BY <3>1 DEF SeenClear, all
  <2>3. PICK l \in L : isEscape(l) \/ f \in FST(c, S, l)
    BY <2>1
  <2>4. PICK j \in 1..Len(list) : list[j] = l
    BY <1>4 DEF TyList, ToSet, walk
  <2>5. findCalleesWithMLTA(c)[2] = IF Cardinality(all.results) = 1
                      THEN IF all.results = {"TwoLayer"} THEN all.FS2 ELSE all.FS1
                      ELSE IF "TypeEscape" \in all.results THEN all.FS1 ELSE all.FS2
    BY <1>2, <1>4, <1>6 DEF Outcome, walk
  <2>6. CASE "TypeEscape" \in all.results
    <3>1. all.results # {"TwoLayer"}
      BY <2>6
    <3>2. findCalleesWithMLTA(c)[2] = S
      BY <2>2, <2>5, <2>6, <3>1
    <3> QED BY <1>2, <3>2
  <2>7. CASE "TypeEscape" \notin all.results
    <3>1. "TwoLayer" \in all.results /\ ~isEscape(l) /\ FST(c, S, l) \subseteq all.FS2
      BY <2>2, <2>4, <2>7
    <3>2. findCalleesWithMLTA(c)[2] = all.FS2
      <4>1. all.results = {"TwoLayer"}
        BY <2>2, <2>7, <3>1
      <4>2. Cardinality(all.results) = 1
        BY <4>1, FS_Singleton
      <4> QED BY <2>5, <4>1, <4>2
    <3> QED BY <2>3, <3>1, <3>2
  <2> QED BY <2>6, <2>7
<1> QED BY <1>5, <1>6

\* The targets of type analysis are conservative: once every module is resolved, a function
\* that may be called (MayCall, with functions and addresses flowing through arguments,
\* results and memory) is a target of the call, unless the layers of the call lose it, in
\* programs that access memory by name and have no initializer the analysis skips.
THEOREM CallsAlwaysCovered == Spec => []CallsCovered
<1>1. IInv => CallsCovered
  <2> SUFFICES ASSUME IInv, pass = "resolve", Resolved, NothingSkipped, AccessedByName(MayBe), NEW c \in ICall
               PROVE  Loses(c) \/ MayCall(MayBe, c) \subseteq ICallees[c]
    BY DEF CallsCovered, Covered
  <2>1. Whole
    BY ResolvedWhole
  <2>2. <<typeResult[c], ICallees[c]>> = findCalleesWithMLTA(c)
    BY DEF IInv, CallsResolved, Resolved
  <2>3. findCalleesWithMLTA(c)[2] = ICallees[c]
    BY <2>2
  <2> QED BY <2>1, <2>3, WholeCovered
<1> QED BY <1>1, Invariant, PTL

-----------------------------------------------------------------------------
(* What a trace has met. *)

LEMMA SourcesType ==
  MapsTypeOK => \A v \in Value : Sources(v) \in SUBSET Value
<1> SUFFICES ASSUME MapsTypeOK, NEW v \in Value PROVE Sources(v) \in SUBSET Value
  OBVIOUS
<1>1. code \in SUBSET Items
  BY DEF MapsTypeOK
<1>2. CASE kind[v] = "argument"
  <2> DEFINE C == CallersOf(parent[v])
  <2>1. Sources(v) = Passed(v, C)
    BY <1>2 DEF Sources
  <2>2. C \subseteq Call
    BY CodeAssumption DEF CallersOf
  <2>3. index[v] \in Nat \ {0} /\ \A c \in Call : arguments[c] \in Seq(Value)
    BY <1>2, CodeAssumption
  <2>4. \A c \in Call : index[v] <= Len(arguments[c]) => arguments[c][index[v]] \in Value
    BY <2>3
  <2> HIDE DEF C
  <2> QED BY <2>1, <2>2, <2>4 DEF Passed
<1>3. CASE kind[v] = "call"
  <2>1. Sources(v) = Returned(Targets(v))
    BY <1>3 DEF Sources
  <2>2. \A f \in DOMAIN returned : returned[f] \subseteq Value
    BY CodeAssumption
  <2> QED BY <2>1, <2>2 DEF Returned
<1>4. CASE kind[v] = "load"
  <2> DEFINE p == operands[v][1]
  <2>1. Sources(v) \subseteq {p} \cup StoredTo(p, code)
    BY <1>4 DEF Sources
  <2>2. p \in Value
    BY <1>4, OperandsType
  <2>3. StoredTo(p, code) \subseteq Value
    BY <1>1, OneOfType
  <2> HIDE DEF p
  <2> QED BY <2>1, <2>2, <2>3
<1>5. CASE kind[v] \in {"cast", "phi", "select"}
  <2>1. Sources(v) = ToSet(operands[v])
    BY <1>5 DEF Sources
  <2> QED BY <2>1, OperandsType
<1>6. CASE kind[v] \notin {"argument", "call", "load", "cast", "phi", "select"}
  <2>1. Sources(v) = {}
    BY <1>6 DEF Sources
  <2> QED BY <2>1
<1> QED BY <1>2, <1>3, <1>4, <1>5, <1>6

\* A trace gives up at a value that is stuck, or meets it and waits for its sources.
Meets(trace, trace2, v, stuck) ==
  /\ trace2 \in Tracing /\ trace.ok /\ v \in Value \ trace.PV
  /\ v \in stuck => ~trace2.ok
  /\ v \notin stuck => /\ trace2.ok /\ trace2.PV = trace.PV \cup {v}
                       /\ ToSet(trace.EV) \subseteq trace2.PV \cup ToSet(trace2.EV)
                       /\ Sources(v) \subseteq ToSet(trace2.EV)

LEMMA MeetFacts ==
  ASSUME MapsTypeOK, NEW stuck, NEW trace \in Tracing, New(trace) # {}
  PROVE  \E v \in Value : Meets(trace, MeetNext(trace, stuck), v, stuck)
<1> DEFINE i == Min(New(trace))
           v == trace.EV[i]
           rest == SubSeq(trace.EV, i + 1, Len(trace.EV))
           sources == SetToSeq(Sources(v))
           trace2 == MeetNext(trace, stuck)
<1>1. trace.ok \in BOOLEAN /\ trace.EV \in Seq(Value) /\ trace.PV \in SUBSET Value
  BY DEF Tracing
<1>2. DOMAIN trace.EV = 1..Len(trace.EV) /\ Len(trace.EV) \in Nat /\ \A j \in DOMAIN trace.EV : trace.EV[j] \in Value
  BY <1>1, Elements
<1>3. New(trace) \in SUBSET Nat
  BY <1>2 DEF New
<1>4. i \in New(trace) /\ \A j \in New(trace) : i <= j
  BY <1>3, LeastExists
<1>5. trace.ok /\ i \in DOMAIN trace.EV /\ v \in Value \ trace.PV
  BY <1>2, <1>4 DEF New
<1>6. \A j \in DOMAIN trace.EV : j < i => trace.EV[j] \in trace.PV
  <2> SUFFICES ASSUME NEW j \in DOMAIN trace.EV, j < i, trace.EV[j] \notin trace.PV PROVE FALSE
    OBVIOUS
  <2>1. j \in New(trace)
    BY <1>5 DEF New
  <2>2. i <= j /\ i \in Nat /\ j \in Nat
    BY <1>2, <1>4, <1>5, <2>1
  <2> QED BY <2>2
<1>7. rest \in Seq(Value) /\ ToSet(rest) = {trace.EV[j] : j \in (i + 1)..Len(trace.EV)}
  <2> HIDE DEF i
  <2> QED BY <1>1, <1>5, Rest
<1>8. sources \in Seq(Value) /\ ToSet(sources) = Sources(v)
  <2> HIDE DEF v
  <2>1. Sources(v) \in SUBSET Value
    BY <1>5, SourcesType
  <2>2. IsFiniteSet(Sources(v))
    BY <2>1, ValueSets
  <2> DEFINE S == Sources(v)
  <2> HIDE DEF S
  <2>3. /\ Cardinality(S) \in Nat /\ sources \in Seq(S) /\ Len(sources) = Cardinality(S)
        /\ \A x \in S : \E j \in 1..Cardinality(S) : sources[j] = x
    BY <2>2, SetToSeqLists DEF S
  <2>4. sources \in Seq(Value)
    BY <2>1, <2>3 DEF S
  <2>5. DOMAIN sources = 1..Cardinality(S) /\ \A j \in DOMAIN sources : sources[j] \in S
    BY <2>3
  <2>6. ToSet(sources) = S
    <3> HIDE DEF sources
    <3> QED BY <2>3, <2>5 DEF ToSet
  <2> QED BY <2>4, <2>6 DEF S
<1>9. trace2 = IF v \in stuck THEN [trace EXCEPT !.ok = FALSE]
               ELSE [ok |-> TRUE, EV |-> rest \o sources, PV |-> trace.PV \cup {v}]
  BY DEF MeetNext, Meet
<1> HIDE DEF v, i, rest, sources, trace2
<1>10. CASE v \in stuck
  <2>1. trace2 = [trace EXCEPT !.ok = FALSE]
    BY <1>9, <1>10
  <2>2. trace2 \in Tracing /\ ~trace2.ok
    BY <2>1 DEF Tracing
  <2> QED BY <1>5, <1>10, <2>2 DEF Meets, trace2
<1>11. CASE v \notin stuck
  <2> DEFINE EV == rest \o sources
             PV == trace.PV \cup {v}
  <2>1. trace2 = [ok |-> TRUE, EV |-> EV, PV |-> PV]
    BY <1>9, <1>11
  <2>2. EV \in Seq(Value) /\ ToSet(EV) = ToSet(rest) \cup ToSet(sources)
    BY <1>7, <1>8, Joined
  <2>3. PV \in SUBSET Value /\ PV = trace.PV \cup {v}
    BY <1>1, <1>5
  <2> HIDE DEF EV, PV
  <2>4. trace2 \in Tracing /\ trace2.ok /\ trace2.PV = PV /\ trace2.EV = EV
    BY <2>1, <2>2, <2>3 DEF Tracing
  <2>5. ASSUME NEW j \in DOMAIN trace.EV PROVE trace.EV[j] \in PV \cup ToSet(EV)
    <3>1. j < i \/ j = i \/ j \in (i + 1)..Len(trace.EV)
      BY <1>2, <1>5
    <3>2. j < i => trace.EV[j] \in PV
      BY <1>6, <2>3
    <3>3. j = i => trace.EV[j] \in PV
      BY <2>3 DEF v
    <3>4. j \in (i + 1)..Len(trace.EV) => trace.EV[j] \in ToSet(EV)
      BY <1>7, <2>2
    <3> QED BY <3>1, <3>2, <3>3, <3>4
  <2>6. ToSet(trace.EV) \subseteq PV \cup ToSet(EV)
    BY <2>5 DEF ToSet
  <2> QED BY <1>5, <1>8, <1>11, <2>2, <2>3, <2>4, <2>6 DEF Meets, trace2
<1> QED BY <1>10, <1>11

\* The recursive function of Traced is defined with exists.
LEMMA TracedExists ==
  ASSUME MapsTypeOK, NEW stuck
  PROVE  \E r \in [Nat -> [Tracing -> Tracing]] :
           /\ Traced(stuck) = r[Cardinality(Value)]
           /\ \A t \in Tracing : r[0][t] = t
           /\ \A n \in Nat, t \in Tracing : r[n + 1][t] = IF New(t) = {} THEN t ELSE r[n][MeetNext(t, stuck)]
<1> DEFINE V == [Tracing -> Tracing]
           base == [t \in Tracing |-> t]
           On(g, t) == IF New(t) = {} THEN t ELSE g[MeetNext(t, stuck)]
           step == [g \in V |-> [t \in Tracing |-> On(g, t)]]
           All(n, g) == [t \in Tracing |-> IF n = 0 \/ New(t) = {} THEN t ELSE g[MeetNext(t, stuck)]]
           R == CHOOSE r : r = [n \in Nat |-> All(n, r[n - 1])]
<1>0. \A t \in Tracing : New(t) # {} => MeetNext(t, stuck) \in Tracing
  BY MeetFacts DEF Meets
<1>1. base \in V /\ step \in [V -> V]
  <2>1. ASSUME NEW g \in V PROVE [t \in Tracing |-> On(g, t)] \in V
    <3>1. \A t \in Tracing : On(g, t) \in Tracing
      BY <1>0
    <3> HIDE DEF On
    <3> QED BY <3>1
  <2> HIDE DEF On
  <2> QED BY <2>1
<1>2. PICK r \in [Nat -> V] : \A n \in Nat : r[n] = IF n = 0 THEN base ELSE step[r[n - 1]]
  <2> HIDE DEF V, base, step
  <2> QED BY <1>1, IterationExists
<1>3. \A n \in Nat : r[n] = All(n, r[n - 1])
  <2>1. r[0] = All(0, r[0 - 1])
    <3>1. r[0] = base
      BY <1>2
    <3>2. All(0, r[0 - 1]) = base
      OBVIOUS
    <3> QED BY <3>1, <3>2
  <2>2. ASSUME NEW n \in Nat, n # 0 PROVE r[n] = All(n, r[n - 1])
    <3>1. r[n] = step[r[n - 1]] /\ r[n - 1] \in V
      <4> HIDE DEF step, base, V
      <4> QED BY <1>2, <2>2
    <3>2. step[r[n - 1]] = [t \in Tracing |-> On(r[n - 1], t)]
      <4> HIDE DEF On, V
      <4> QED BY <3>1
    <3>3. [t \in Tracing |-> On(r[n - 1], t)] = All(n, r[n - 1])
      BY <2>2, Zenon
    <3> QED BY <3>1, <3>2, <3>3
  <2> HIDE DEF All
  <2> QED BY <2>1, <2>2
<1>4. r = [n \in Nat |-> All(n, r[n - 1])]
  <2> HIDE DEF All
  <2>1. r = [n \in Nat |-> r[n]]
    BY <1>2
  <2>2. [n \in Nat |-> r[n]] = [n \in Nat |-> All(n, r[n - 1])]
    BY <1>3, Zenon
  <2> QED BY <2>1, <2>2, Zenon
<1>5. R = [n \in Nat |-> All(n, R[n - 1])]
  <2> HIDE DEF All
  <2> QED BY <1>4, Zenon
<1>6. Traced(stuck) = R[Cardinality(Value)]
  BY Zenon DEF Traced
<1> HIDE DEF R
<1>7. \A n \in Nat : R[n] = All(n, R[n - 1])
  <2> HIDE DEF All
  <2> QED BY <1>5
<1> DEFINE P == {n \in Nat : R[n] \in V}
<1>8. \A n \in Nat : R[n] \in V
  <2>1. 0 \in P
    <3>1. R[0] = All(0, R[0 - 1])
      BY <1>7
    <3>2. All(0, R[0 - 1]) = base
      OBVIOUS
    <3> QED BY <1>1, <3>1, <3>2
  <2>2. ASSUME NEW n \in P PROVE n + 1 \in P
    <3>1. n + 1 \in Nat /\ n + 1 # 0 /\ n + 1 - 1 = n
      BY <2>2
    <3>2. R[n + 1] = All(n + 1, R[n])
      <4> HIDE DEF All
      <4>1. R[n + 1] = All(n + 1, R[n + 1 - 1])
        BY <1>7, <3>1
      <4> QED BY <3>1, <4>1
    <3>4. All(n + 1, R[n]) \in V
      BY <1>0, <2>2, <3>1
    <3> HIDE DEF All, V
    <3> QED BY <3>1, <3>2, <3>4
  <2>3. P \in SUBSET Nat
    OBVIOUS
  <2> HIDE DEF P
  <2>4. P = Nat
    BY <2>1, <2>2, <2>3, SetInduction
  <2> QED BY <2>4 DEF P
<1>9. R \in [Nat -> V]
  <2> HIDE DEF All, V
  <2> QED BY <1>5, <1>8
<1>10. \A t \in Tracing : R[0][t] = t
  <2>1. R[0] = All(0, R[0 - 1])
    BY <1>7
  <2> QED BY <2>1
<1>11. ASSUME NEW n \in Nat, NEW t \in Tracing
       PROVE  R[n + 1][t] = IF New(t) = {} THEN t ELSE R[n][MeetNext(t, stuck)]
  <2>1. n + 1 \in Nat /\ n + 1 # 0 /\ n + 1 - 1 = n
    OBVIOUS
  <2>2. R[n + 1] = All(n + 1, R[n])
    <3> HIDE DEF All
    <3>1. R[n + 1] = All(n + 1, R[n + 1 - 1])
      BY <1>7, <2>1
    <3> QED BY <2>1, <3>1
  <2> QED BY <2>1, <2>2
<1> QED BY <1>6, <1>9, <1>10, <1>11

\* A trace keeps what each step keeps, and ends when nothing is new.
LEMMA TraceKeeps ==
  ASSUME MapsTypeOK, NEW stuck, NEW I \in SUBSET Tracing,
         \A t \in I : New(t) # {} => MeetNext(t, stuck) \in I,
         NEW start \in I
  PROVE  LET t == Traced(stuck)[start] IN t \in I /\ New(t) = {}
<1> DEFINE next(t) == MeetNext(t, stuck)
           left(t) == IF t.ok THEN Cardinality(Value \ t.PV) ELSE 0
<1>1. PICK r \in [Nat -> [Tracing -> Tracing]] :
           /\ Traced(stuck) = r[Cardinality(Value)]
           /\ \A t \in Tracing : r[0][t] = t
           /\ \A n \in Nat, t \in Tracing : r[n + 1][t] = IF New(t) = {} THEN t ELSE r[n][next(t)]
  BY TracedExists
<1>2. \A t \in I : New(t) # {} => next(t) \in I
  OBVIOUS
<1>3. \A t \in Tracing : left(t) \in Nat /\ left(t) <= Cardinality(Value)
  <2> SUFFICES ASSUME NEW t \in Tracing PROVE left(t) \in Nat /\ left(t) <= Cardinality(Value)
    OBVIOUS
  <2>1. Value \ t.PV \in SUBSET Value /\ IsFiniteSet(Value) /\ IsFiniteSet(Value \ t.PV)
    BY CodeAssumption, ValueSets
  <2>2. Cardinality(Value) \in Nat /\ Cardinality(Value \ t.PV) \in Nat /\ Cardinality(Value \ t.PV) <= Cardinality(Value)
    BY <2>1, FS_CardinalityType, FS_Subset
  <2> QED BY <2>2
<1>4. ASSUME NEW t \in Tracing, New(t) # {} PROVE left(t) # 0 /\ left(next(t)) <= left(t) - 1
  <2>1. PICK v \in Value : Meets(t, next(t), v, stuck)
    BY <1>4, MeetFacts
  <2> DEFINE t2 == next(t)
  <2>2. t.ok /\ v \in Value \ t.PV /\ (t2.ok => t2.PV = t.PV \cup {v})
    <3> HIDE DEF next
    <3> QED BY <2>1 DEF Meets
  <2> HIDE DEF t2, next
  <2>3. t2.ok => Value \ t2.PV = (Value \ t.PV) \ {v}
    BY <2>2
  <2>4. IsFiniteSet(Value \ t.PV)
    BY ValueSets
  <2>5. Cardinality((Value \ t.PV) \ {v}) = Cardinality(Value \ t.PV) - 1
    BY <2>2, <2>4, FS_RemoveElement
  <2>6. Cardinality(Value \ t.PV) # 0 /\ Cardinality(Value \ t.PV) \in Nat
    BY <2>2, <2>4, FS_EmptySet, FS_CardinalityType
  <2>7. left(t) = Cardinality(Value \ t.PV) /\ left(t2) = IF t2.ok THEN Cardinality(Value \ t2.PV) ELSE 0
    <3> QED BY <2>2
  <2> HIDE DEF left
  <2> QED BY <2>2, <2>3, <2>5, <2>6, <2>7 DEF t2
<1> DEFINE P == {n \in Nat : \A t \in I : left(t) <= n => r[n][t] \in I /\ New(r[n][t]) = {}}
<1> HIDE DEF left, next
<1>5. 0 \in P
  <2> SUFFICES ASSUME NEW t \in I, left(t) <= 0 PROVE r[0][t] \in I /\ New(r[0][t]) = {}
    BY DEF P
  <2>1. t \in Tracing /\ r[0][t] = t
    BY <1>1
  <2>2. left(t) = 0
    BY <1>3, <2>1
  <2> QED BY <1>4, <2>1, <2>2
<1>6. ASSUME NEW n \in P PROVE n + 1 \in P
  <2>0. n \in Nat /\ n + 1 \in Nat
    BY <1>6
  <2> DEFINE Done(t) == r[n + 1][t] \in I /\ New(r[n + 1][t]) = {}
  <2> SUFFICES ASSUME NEW t \in I, left(t) <= n + 1 PROVE Done(t)
    <3>1. (\A t \in I : left(t) <= n + 1 => Done(t)) => n + 1 \in P
      BY <2>0
    <3> HIDE DEF P, Done
    <3> QED BY <3>1
  <2>1. t \in Tracing /\ r[n + 1][t] = IF New(t) = {} THEN t ELSE r[n][next(t)]
    BY <1>1, <1>6
  <2>2. CASE New(t) = {}
    BY <2>1, <2>2
  <2>3. CASE New(t) # {}
    <3>1. next(t) \in I /\ left(next(t)) <= n
      BY <1>2, <1>3, <1>4, <1>6, <2>1, <2>3
    <3> QED BY <1>6, <2>1, <2>3, <3>1
  <2> QED BY <2>2, <2>3
<1>7. P = Nat
  <2>1. P \in SUBSET Nat
    OBVIOUS
  <2> HIDE DEF P
  <2> QED BY <1>5, <1>6, <2>1, SetInduction
<1>8. Cardinality(Value) \in Nat
  BY CodeAssumption, FS_CardinalityType
<1>9. Cardinality(Value) \in P /\ left(start) <= Cardinality(Value)
  BY <1>3, <1>7, <1>8
<1> QED BY <1>1, <1>9

\* A trace that does not give up has met the value it starts at and all their sources, and
\* nothing that is stuck.
LEMMA TraceCloses ==
  ASSUME MapsTypeOK, NEW v \in Value, NEW stuck
  PROVE  LET trace == Trace(v, stuck) IN
         /\ trace.PV \in SUBSET Value
         /\ trace.ok => /\ v \in trace.PV /\ trace.PV \cap stuck = {}
                        /\ \A u \in trace.PV : Sources(u) \subseteq trace.PV
<1> DEFINE Known(t) == t.PV \cup ToSet(t.EV)
           I == {t \in Tracing : t.ok => /\ v \in Known(t) /\ t.PV \cap stuck = {}
                                         /\ \A u \in t.PV : Sources(u) \subseteq Known(t)}
           start == [ok |-> TRUE, EV |-> <<v>>, PV |-> {}]
           trace == Trace(v, stuck)
<1>1. ASSUME NEW t \in I, New(t) # {} PROVE MeetNext(t, stuck) \in I
  <2> DEFINE t2 == MeetNext(t, stuck)
  <2>1. PICK w \in Value : Meets(t, t2, w, stuck)
    BY <1>1, MeetFacts
  <2> HIDE DEF t2
  <2>2. CASE w \in stuck
    BY <2>1, <2>2 DEF Meets, t2
  <2>3. CASE w \notin stuck
    <3>1. /\ t2 \in Tracing /\ t.ok /\ t2.ok /\ t2.PV = t.PV \cup {w}
          /\ ToSet(t.EV) \subseteq t2.PV \cup ToSet(t2.EV) /\ Sources(w) \subseteq ToSet(t2.EV)
      BY <2>1, <2>3 DEF Meets
    <3>2. v \in Known(t) /\ t.PV \cap stuck = {} /\ \A u \in t.PV : Sources(u) \subseteq Known(t)
      BY <3>1
    <3>3. Known(t) \subseteq Known(t2)
      BY <3>1
    <3>4. v \in Known(t2) /\ t2.PV \cap stuck = {}
      BY <2>3, <3>1, <3>2, <3>3
    <3>5. \A u \in t2.PV : Sources(u) \subseteq Known(t2)
      BY <3>1, <3>2, <3>3
    <3> QED BY <3>1, <3>4, <3>5 DEF t2
  <2> QED BY <2>2, <2>3
<1>2. start \in I
  <2> DEFINE EV == <<v>>
  <2>1. EV \in Seq(Value) /\ ToSet(EV) = {v}
    <3>1. EV \in Seq(Value) /\ DOMAIN EV = {1} /\ EV[1] = v
      OBVIOUS
    <3> HIDE DEF EV
    <3> QED BY <3>1 DEF ToSet
  <2> HIDE DEF EV
  <2>2. start = [ok |-> TRUE, EV |-> EV, PV |-> {}]
    BY DEF EV
  <2> HIDE DEF start
  <2>3. start \in Tracing /\ start.ok /\ start.EV = EV /\ start.PV = {}
    BY <2>1, <2>2 DEF Tracing
  <2> QED BY <2>1, <2>3
<1>3. I \in SUBSET Tracing
  OBVIOUS
<1> HIDE DEF I, start
<1>4. trace \in I /\ New(trace) = {}
  BY <1>1, <1>2, <1>3, TraceKeeps DEF Trace, start
<1> HIDE DEF trace
<1>5. trace \in Tracing /\ (trace.ok => ToSet(trace.EV) \subseteq trace.PV)
  BY <1>4 DEF I, New, ToSet
<1>6. trace.PV \in SUBSET Value
  BY <1>5 DEF Tracing
<1>7. trace.ok => /\ v \in trace.PV /\ trace.PV \cap stuck = {}
                  /\ \A u \in trace.PV : Sources(u) \subseteq trace.PV
  BY <1>4, <1>5 DEF I
<1> QED BY <1>6, <1>7 DEF trace

-----------------------------------------------------------------------------
(* The rounds of the traces. *)

\* What depends on the program alone.
LEMMA ProgramStays ==
  ASSUME code' = code
  PROVE  /\ MayBe' = MayBe
         /\ (ByName(MayBe)' <=> ByName(MayBe)) /\ (AccessedByName(MayBe)' <=> AccessedByName(MayBe))
         /\ (NothingSkipped' <=> NothingSkipped)
         /\ \A T : Closed(T)' <=> Closed(T)
<1>1. MayBe' = MayBe
  BY DEF MayBe
<1>2. NothingSkipped' <=> NothingSkipped
  BY DEF NothingSkipped
<1>3. ByName(MayBe)' <=> ByName(MayBe)
  BY <1>1 DEF ByName, Addressed
<1>4. \A v, mode : Walk(v, mode)' = Walk(v, mode)
  BY DEF Walk
<1>5. AccessedByName(MayBe)' <=> AccessedByName(MayBe)
  <2>1. ASSUME NEW i PROVE StoredThrough(MayBe, i)' <=> StoredThrough(MayBe, i)
    BY <1>1, <1>4 DEF StoredThrough
  <2>2. ASSUME NEW v PROVE Named(v)' <=> Named(v)
    BY DEF Named
  <2> QED BY <1>4, <2>1, <2>2 DEF AccessedByName
<1>6. ASSUME NEW v PROVE MaySources(v)' = MaySources(v)
  BY <1>1 DEF MaySources
<1>7. \A T : Closed(T)' <=> Closed(T)
  BY <1>6 DEF Closed
<1> QED BY <1>1, <1>2, <1>3, <1>5, <1>7

LEMMA LosesStays ==
  ASSUME code' = code, UNCHANGED maps, NEW c
  PROVE  Loses(c)' <=> Loses(c)
<1>1. TyList(called[c], "Precise_Mode")' = TyList(called[c], "Precise_Mode")
  BY DEF TyList, Walk
<1>2. ASSUME NEW l PROVE isEscape(l)' <=> isEscape(l)
  BY DEF maps, isEscape, Confined, ConfinedIn
<1>3. ASSUME NEW l PROVE FST(c, sigFuncsMap[sig[c]], l)' = FST(c, sigFuncsMap[sig[c]], l)
  BY <1>2 DEF FST, maps, merge_set, Confined, ConfinedIn
<1> QED BY <1>1, <1>2, <1>3 DEF Loses

\* The maps stay whole as they grow, if what is no longer escaped is explained.
LEMMA WholeGrows ==
  ASSUME Whole, MapsTypeOK', code' = code,
         \A l \in Cell : typeFuncsMap[l] \subseteq typeFuncsMap'[l],
         \A l \in Layer : typeConfineMap[l] \subseteq typeConfineMap'[l],
         \A s \in Sigs : sigFuncsMap[s] \subseteq sigFuncsMap'[s] /\ Global_EmptyTy_Funcs[s] \subseteq Global_EmptyTy_Funcs'[s],
         \A i \in code : \A l \in Effect(i).escaped \cap typeEscapeSet : l \in typeEscapeSet' \/ Explained(i, l)'
  PROVE  Whole'
<1>1. /\ code \in Programs /\ NothingSkipped /\ AccessedByName(MayBe)
      /\ \A i \in code : Held(i) /\ Effect(i) \in Effects
      /\ \A f \in Function : \A g \in defs[f] : g \in Function /\ g \in sigFuncsMap[sig[g]]
  BY WholeFacts DEF Whole
<1>2. Layer \subseteq Cell /\ \A f \in Function : sig[f] \in Sigs
  BY LayersFinite, SigsType
<1>3. ASSUME NEW i \in code, NEW l \in Layer, Explained(i, l) PROVE Explained(i, l)'
  <2>1. PICK T \in SUBSET Value : i.value \in T /\ Explains(T, l)
    BY <1>3 DEF Explained
  <2>2. ByName(MayBe) /\ Closed(T) /\ FunctionsOf(T) \subseteq typeFuncsMap[l] /\ LayersOf(T) \subseteq {l} \cup typeConfineMap[l]
    BY <1>3, <2>1 DEF Explained, Explains
  <2>3. ByName(MayBe)' /\ Closed(T)'
    BY <2>2, ProgramStays
  <2>4. FunctionsOf(T) \subseteq typeFuncsMap'[l] /\ LayersOf(T) \subseteq {l} \cup typeConfineMap'[l]
    BY <1>2, <2>2
  <2>5. FunctionsOf(T)' = FunctionsOf(T) /\ LayersOf(T)' = LayersOf(T)
    BY DEF FunctionsOf, LayersOf
  <2>6. Explains(T, l)'
    BY <2>3, <2>4, <2>5 DEF Explains
  <2> QED BY <2>1, <2>3, <2>6 DEF Explained
<1>4. ASSUME NEW i \in code PROVE Held(i)'
  <2> DEFINE e == Effect(i)
  <2>1. e \in Effects /\ Held(i)
    BY <1>1
  <2>2. Effect(i)' = e
    BY EffectStays
  <2>3. /\ \A d \in e.funcs : d[2] \in typeFuncsMap[d[1]]
        /\ \A d \in e.confined : d[2] \in typeConfineMap[d[1]]
        /\ \A l \in e.escaped : l \in typeEscapeSet \/ Explained(i, l)
        /\ \A f \in e.empty : f \in Global_EmptyTy_Funcs[sig[f]]
    BY <2>1 DEF Held
  <2>4. \A l \in e.escaped \cap typeEscapeSet : l \in typeEscapeSet' \/ Explained(i, l)'
    OBVIOUS
  <2> HIDE DEF e
  <2>5. e.funcs \subseteq Cell \X Function /\ e.confined \subseteq Layer \X Layer /\ e.escaped \subseteq Layer /\ e.empty \subseteq Function
    BY <2>1 DEF Effects
  <2>6. \A d \in e.funcs : d[2] \in typeFuncsMap'[d[1]]
    BY <2>3, <2>5
  <2>7. \A d \in e.confined : d[2] \in typeConfineMap'[d[1]]
    BY <2>3, <2>5
  <2>8. \A l \in e.escaped : l \in typeEscapeSet' \/ Explained(i, l)'
    BY <1>3, <2>3, <2>4, <2>5
  <2>9. \A f \in e.empty : f \in Global_EmptyTy_Funcs'[sig[f]]
    BY <1>2, <2>3, <2>5
  <2> QED BY <2>2, <2>6, <2>7, <2>8, <2>9 DEF Held
<1>5. \A f \in Function : \A g \in defs[f] : g \in sigFuncsMap'[sig[g]]
  BY <1>1, <1>2
<1>6. NothingSkipped' /\ AccessedByName(MayBe)'
  BY <1>1, ProgramStays
<1> QED BY <1>1, <1>4, <1>5, <1>6 DEF Whole

LEMMA WholeStays ==
  ASSUME Whole, MapsTypeOK', code' = code, UNCHANGED maps
  PROVE  Whole'
<1>1. /\ typeFuncsMap' = typeFuncsMap /\ typeConfineMap' = typeConfineMap /\ sigFuncsMap' = sigFuncsMap
      /\ Global_EmptyTy_Funcs' = Global_EmptyTy_Funcs /\ typeEscapeSet' = typeEscapeSet
  BY DEF maps
<1> QED BY <1>1, WholeGrows

\* All that a call may call is a target, and known as one that it has.
Known(c) == \A f \in MayCall(MayBe, c) : f \in ICallees[c] /\ <<c, f>> \in Callers
Named2 == NothingSkipped /\ ByName(MayBe) /\ AccessedByName(MayBe)

\* The inductive invariant of the rounds, with IInv.
RInv ==
  /\ pass = "resolve" => \A c \in ICall : in[c] \notin unresolved =>
       (\A f \in ICallees[c] : <<c, f>> \in Callers) /\ (Loses(c) => c \in lost)
  /\ pass # "resolve" => unresolved = {}
  /\ pass # "resolve" /\ Named2 /\ lost = {} => Whole /\ \A c \in ICall : Known(c)

LEMMA InitRounds == Init => RInv
BY CodeAssumption DEF Init, MapsInit, RInv

LEMMA InitializeRounds ==
  ASSUME IInv, RInv, NEW m \in Module, Initialize(m)
  PROVE  RInv'
<1>1. m \in fresh /\ unresolved' = unresolved /\ pass' = pass
  BY DEF Initialize, doInitialization, passVars
<1>2. unresolved = Module
  BY <1>1 DEF IInv
<1>3. pass = "resolve"
  BY <1>2 DEF RInv
<1>4. \A c \in ICall : in[c] \in unresolved'
  BY <1>1, <1>2, CodeAssumption
<1> QED BY <1>1, <1>3, <1>4 DEF RInv

LEMMA ResolveRounds ==
  ASSUME IInv, RInv, NEW m \in Module, Resolve(m)
  PROVE  RInv'
<1> DEFINE resolved == {c \in ICall : in[c] = m}
<1>1. /\ m \in unresolved /\ unresolved' = unresolved \ {m}
      /\ ICallees' = [c \in ICall |-> IF c \in resolved THEN findCalleesWithMLTA(c)[2] ELSE ICallees[c]]
      /\ code' = code /\ UNCHANGED maps
  BY DEF Resolve, doModulePass
<1>2. /\ Callers' = Callers \cup UNION {{c} \X ICallees'[c] : c \in resolved}
      /\ lost' = lost \cup {c \in resolved : Loses(c)} /\ pass' = pass
  BY DEF Resolve, passVars
<1>3. pass = "resolve"
  BY <1>1 DEF RInv
<1>4. ASSUME NEW c \in ICall, in[c] \notin unresolved'
      PROVE  (\A f \in ICallees'[c] : <<c, f>> \in Callers') /\ (Loses(c)' => c \in lost')
  <2>1. Loses(c)' <=> Loses(c)
    BY <1>1, LosesStays
  <2>2. CASE in[c] = m
    BY <1>2, <2>1, <2>2
  <2>3. CASE in[c] # m
    <3>1. in[c] \notin unresolved /\ c \notin resolved
      BY <1>1, <1>4, <2>3
    <3>2. (\A f \in ICallees[c] : <<c, f>> \in Callers) /\ (Loses(c) => c \in lost)
      BY <1>3, <3>1 DEF RInv
    <3>3. ICallees'[c] = ICallees[c]
      BY <1>1, <3>1
    <3> HIDE DEF resolved
    <3> QED BY <1>2, <2>1, <3>2, <3>3
  <2> QED BY <2>2, <2>3
<1> QED BY <1>2, <1>3, <1>4 DEF RInv

LEMMA StartRoundsRounds ==
  ASSUME IInv, IInv', RInv, StartRounds
  PROVE  RInv'
<1>1. /\ pass = "resolve" /\ Resolved /\ pass' = "oneLayer"
      /\ UNCHANGED <<mapVars, Callers, escapedTypesInTypeAnalysisSet, succeed_type_set, round, lost>>
  BY DEF StartRounds
<1>2. unresolved = {} /\ unresolved' = unresolved /\ code' = code /\ UNCHANGED maps /\ ICallees' = ICallees
  BY <1>1 DEF mapVars, Resolved
<1>3. ASSUME Named2', lost' = {} PROVE Whole' /\ \A c \in ICall : Known(c)'
  <2>1. NothingSkipped /\ AccessedByName(MayBe)
    BY <1>2, <1>3, ProgramStays DEF Named2
  <2>2. Whole
    BY <1>1, <2>1, ResolvedWhole
  <2>3. ASSUME NEW c \in ICall PROVE Known(c)'
    <3>1. ~Loses(c) /\ \A f \in ICallees[c] : <<c, f>> \in Callers
      BY <1>1, <1>2, <1>3 DEF RInv
    <3>2. findCalleesWithMLTA(c)[2] = ICallees[c]
      <4>1. <<typeResult[c], ICallees[c]>> = findCalleesWithMLTA(c)
        BY <1>1, <1>2 DEF IInv, CallsResolved
      <4> QED BY <4>1
    <3>3. MayCall(MayBe, c) \subseteq ICallees[c]
      BY <2>2, <3>1, <3>2, WholeCovered
    <3>4. MayCall(MayBe, c)' = MayCall(MayBe, c)
      BY <1>2, ProgramStays DEF MayCall
    <3> QED BY <1>1, <1>2, <3>1, <3>3, <3>4 DEF Known
  <2>4. MapsTypeOK'
    BY DEF IInv, TypeOK
  <2> QED BY <1>2, <2>2, <2>3, <2>4, WholeStays
<1> QED BY <1>1, <1>2, <1>3 DEF RInv

\* A step of a round keeps the invariant if the maps stay whole and the calls their targets.
LEMMA StepOfRound ==
  ASSUME RInv, pass # "resolve", pass' # "resolve", code' = code, unresolved' = unresolved,
         lost \subseteq lost', Callers' = Callers,
         Named2 /\ lost' = {} /\ Whole /\ (\A c \in ICall : Known(c)) =>
           Whole' /\ \A c \in ICall : MayCall(MayBe, c) \subseteq ICallees'[c]
  PROVE  RInv'
<1>1. ASSUME Named2', lost' = {} PROVE Whole' /\ \A c \in ICall : Known(c)'
  <2>1. Named2 /\ lost = {}
    BY <1>1, ProgramStays DEF Named2
  <2>2. Whole /\ \A c \in ICall : Known(c)
    BY <2>1 DEF RInv
  <2>3. Whole' /\ \A c \in ICall : MayCall(MayBe, c) \subseteq ICallees'[c]
    BY <1>1, <2>1, <2>2
  <2>4. \A c \in ICall : MayCall(MayBe, c)' = MayCall(MayBe, c)
    BY ProgramStays DEF MayCall
  <2>5. ASSUME NEW c \in ICall PROVE Known(c)'
    BY <2>2, <2>3, <2>4 DEF Known
  <2> QED BY <2>3, <2>5
<1>2. unresolved' = {}
  BY DEF RInv
<1> QED BY <1>1, <1>2 DEF RInv

\* A trace that does not give up meets all that may be its value.
LEMMA TraceMeets ==
  ASSUME Whole, \A c \in ICall : Known(c), NEW v \in Value, NEW stuck,
         \A u \in Value : GivesUp(u) => u \in stuck, Trace(v, stuck).ok
  PROVE  LET T == Trace(v, stuck).PV IN T \in SUBSET Value /\ v \in T /\ Closed(T)
<1> DEFINE T == Trace(v, stuck).PV
<1>1. MapsTypeOK
  BY WholeFacts
<1>2. T \in SUBSET Value /\ v \in T /\ T \cap stuck = {} /\ \A u \in T : Sources(u) \subseteq T
  BY <1>1, TraceCloses
<1> HIDE DEF T
<1>3. \A u \in T : u \in Value /\ ~GivesUp(u) /\ Sources(u) \subseteq T
  BY <1>2
<1>4. ASSUME NEW u \in T PROVE kind[u] # "global" /\ (kind[u] = "gep" => cell[u] \in Layer)
  BY <1>3 DEF GivesUp, getGEPLayerTypes
<1>5. ASSUME NEW u \in T PROVE MaySources(u) \subseteq T
  <2>1. CASE kind[u] = "argument"
    <3> DEFINE C == {c \in Call : parent[u] \in Callable(MayBe, c)}
               D == CallersOf(parent[u])
    <3>1. C \subseteq D
      <4> SUFFICES ASSUME NEW c \in Call, parent[u] \in Callable(MayBe, c) PROVE c \in D
        OBVIOUS
      <4>1. CASE c \in ICall
        BY <4>1 DEF Callable, Known, CallersOf
      <4>2. CASE c \notin ICall
        BY <4>2 DEF Callable, CallersOf
      <4> QED BY <4>1, <4>2
    <3>2. MaySources(u) = Passed(u, C) /\ Sources(u) = Passed(u, D)
      BY <2>1 DEF MaySources, Sources
    <3> HIDE DEF C, D
    <3>3. Passed(u, C) \subseteq Passed(u, D)
      BY <3>1 DEF Passed
    <3> QED BY <1>3, <3>2, <3>3
  <2>2. CASE kind[u] = "call"
    <3>1. Callable(MayBe, u) \subseteq Targets(u)
      BY DEF Callable, Targets, Known
    <3>2. MaySources(u) = Returned(Callable(MayBe, u)) /\ Sources(u) = Returned(Targets(u))
      BY <2>2 DEF MaySources, Sources
    <3>3. Returned(Callable(MayBe, u)) \subseteq Returned(Targets(u))
      BY <3>1 DEF Returned
    <3> QED BY <1>3, <3>2, <3>3
  <2>3. CASE kind[u] = "load"
    <3> DEFINE p == operands[u][1]
    <3>1. Sources(u) = {p} \cup (IF kind[p] = "global" THEN {} ELSE StoredTo(p, code))
          /\ MaySources(u) = {p} \cup StoredTo(p, code)
      BY <2>3 DEF MaySources, Sources
    <3>2. p \in T
      BY <1>3, <3>1
    <3>3. kind[p] # "global"
      BY <1>4, <3>2
    <3> QED BY <1>3, <3>1, <3>3
  <2>4. CASE kind[u] \in {"cast", "phi", "select"}
    <3>1. MaySources(u) = ToSet(operands[u]) /\ Sources(u) = ToSet(operands[u])
      BY <2>4 DEF MaySources, Sources
    <3> QED BY <1>3, <3>1
  <2>5. CASE kind[u] \notin {"argument", "call", "load", "cast", "phi", "select"}
    <3>1. MaySources(u) = {}
      BY <2>5 DEF MaySources
    <3> QED BY <3>1
  <2> QED BY <2>1, <2>2, <2>3, <2>4, <2>5
<1> QED BY <1>2, <1>4, <1>5 DEF Closed, T

\* So what a call may call is one of the functions, or a target of one of the layers.
LEMMA TracedCall ==
  ASSUME Whole, ByName(MayBe), NEW c \in ICall, NEW T \in SUBSET Value, Closed(T), called[c] \in T,
         NEW f \in MayCall(MayBe, c)
  PROVE  f \in FunctionsOf(T) \/ \E l \in LayersOf(T) : isEscape(l) \/ f \in FST(c, sigFuncsMap[sig[c]], l)
<1>1. f \in Function /\ sig[f] = sig[c] /\ f \in sigFuncsMap[sig[c]] /\ f \in MayBe[called[c]]
  BY OfOneLayer DEF MayCall
<1>2. f \notin Cell /\ composite \subseteq DOMAIN cell /\ (\A u \in DOMAIN cell : cell[u] \in Cell) /\ MapsTypeOK
  BY <1>1, CodeAssumption, WholeFacts
<1>3. f \notin Composites /\ ~Local(f)
  BY <1>2, Disjoint DEF Composites, Local
<1>4. Met(T, f)
  BY <1>1, MayBeFollowed, InTrace
<1>5. ASSUME NEW l \in LayersOf(T), Kept(f) \/ Leads(l, f) PROVE isEscape(l) \/ f \in FST(c, sigFuncsMap[sig[c]], l)
  <2>1. l \in Layer /\ Layer \subseteq Cell
    BY MetType, LayersFinite
  <2>2. f \notin Confined(l)
    BY <1>2, <2>1, LayerFacts
  <2>3. Kept(f) => f \in Global_EmptyTy_Funcs[sig[c]]
    BY <1>1 DEF Kept
  <2> QED BY <1>1, <1>5, <2>2, <2>3 DEF Leads, FST
<1> QED BY <1>3, <1>4, <1>5 DEF Met

LEMMA OneLayerRounds ==
  ASSUME IInv, IInv', RInv, NEW c \in ICall, oneLayerHandler(c)
  PROVE  RInv'
<1> DEFINE stuck == {v \in Value : GivesUpAtOneLayer(v)}
           trace == Trace(called[c], stuck)
           T == trace.PV
           found == oneLayerResults(c, T)
           targets(l) == FST(c, sigFuncsMap[sig[c]], l)
           result == IF Cardinality(found.results) = 1 THEN CHOOSE r \in found.results : TRUE ELSE "MixedLayer"
<1>1. /\ pass = "oneLayer"
      /\ \/ UNCHANGED <<typeResult, ICallees>>
         \/ /\ trace.ok /\ "TypeEscape" \in found.results
            /\ Record(c, "TypeEscape", ICallees[c])
         \/ /\ trace.ok /\ found.results = {"NoTwoLayerInfo"}
            /\ Record(c, "NoTwoLayerInfo", {})
         \/ /\ trace.ok /\ "TypeEscape" \notin found.results
            /\ Record(c, result, found.FS)
      /\ code' = code /\ unresolved' = unresolved /\ UNCHANGED maps
      /\ Callers' = Callers /\ pass' = pass /\ lost' = lost
  BY DEF oneLayerHandler
<1>2. MapsTypeOK /\ MapsTypeOK' /\ ICallees \in [ICall -> SUBSET Function]
  BY DEF IInv, TypeOK, MapsTypeOK
<1>3. ASSUME Named2, Whole, \A d \in ICall : Known(d), NEW d \in ICall, NEW f \in MayCall(MayBe, d)
      PROVE  f \in ICallees'[d]
  <2>1. f \in ICallees[d]
    BY <1>3 DEF Known
  <2>2. CASE d # c \/ UNCHANGED <<typeResult, ICallees>> \/ Record(c, "TypeEscape", ICallees[c])
    <3>1. CASE d # c /\ \E r, F : Record(c, r, F)
      BY <1>2, <2>1, <3>1 DEF Record
    <3>2. CASE UNCHANGED <<typeResult, ICallees>>
      BY <2>1, <3>2
    <3>3. CASE Record(c, "TypeEscape", ICallees[c])
      BY <1>2, <2>1, <3>3 DEF Record
    <3> QED BY <1>1, <2>2, <3>1, <3>2, <3>3
  <2> DEFINE byLayers == {IF targets(l) # {} THEN "TwoLayer" ELSE IF isEscape(l) THEN "TypeEscape" ELSE "NoTwoLayerInfo" : l \in LayersOf(T)}
             byValue == IF T \cap Function = {} THEN {} ELSE {"OneLayer"}
             all == FunctionsOf(T) \cup UNION {targets(l) : l \in LayersOf(T)}
  <2>3. found.results = byLayers \cup byValue /\ found.FS = all
    BY DEF oneLayerResults
  <2>4. FunctionsOf(T) # {} => "OneLayer" \in byValue
    BY DEF FunctionsOf
  <2>5. \A l \in LayersOf(T) : /\ targets(l) # {} => "TwoLayer" \in byLayers
                               /\ targets(l) = {} /\ isEscape(l) => "TypeEscape" \in byLayers
    OBVIOUS
  <2>6. \A l : isEscape(l) => targets(l) = {}
    BY DEF FST
  <2>7. trace.ok /\ d = c => f \in FunctionsOf(T) \/ \E l \in LayersOf(T) : isEscape(l) \/ f \in targets(l)
    <3> SUFFICES ASSUME trace.ok, d = c PROVE f \in FunctionsOf(T) \/ \E l \in LayersOf(T) : isEscape(l) \/ f \in targets(l)
      OBVIOUS
    <3>1. called[c] \in Value /\ \A u \in Value : GivesUp(u) => u \in stuck
      BY CodeAssumption DEF GivesUpAtOneLayer
    <3> HIDE DEF stuck
    <3>2. T \in SUBSET Value /\ called[c] \in T /\ Closed(T)
      BY <1>3, <3>1, TraceMeets
    <3> HIDE DEF trace
    <3> QED BY <1>3, <3>2, TracedCall DEF Named2
  <2> HIDE DEF trace, found, byLayers, byValue, targets, result, all
  <2>8. CASE d = c /\ trace.ok /\ found.results = {"NoTwoLayerInfo"}
    <3>1. "OneLayer" \notin found.results /\ "TwoLayer" \notin found.results /\ "TypeEscape" \notin found.results
      BY <2>8
    <3> QED BY <2>3, <2>4, <2>5, <2>6, <2>7, <2>8, <3>1
  <2>9. CASE d = c /\ trace.ok /\ "TypeEscape" \notin found.results /\ Record(c, result, found.FS)
    <3>1. ICallees'[c] = found.FS
      BY <1>2, <2>9 DEF Record
    <3>2. f \in all
      BY <2>3, <2>5, <2>6, <2>7, <2>9 DEF all
    <3> QED BY <2>3, <2>9, <3>1, <3>2
  <2> QED BY <1>1, <2>2, <2>8, <2>9
<1>4. ASSUME Whole PROVE Whole'
  BY <1>1, <1>2, <1>4, WholeStays
<1> HIDE DEF trace, T, found, result
<1> QED BY <1>1, <1>3, <1>4, StepOfRound

LEMMA EscapeRounds ==
  ASSUME IInv, IInv', RInv, NEW l \in Layer, escapeHandler(l)
  PROVE  RInv'
<1>1. PICK checked \in SUBSET escapedStoreMap(l) :
        LET met == UNION {escapeChecker(i).PV : i \in checked}
            funcs == FunctionsOf(met) IN
        /\ CheckedUpTo(l, checked)
        /\ typeFuncsMap' = [typeFuncsMap EXCEPT ![l] = @ \cup funcs]
        /\ typeConfineMap' = [typeConfineMap EXCEPT ![l] = @ \cup LayersOf(met)]
        /\ sigFuncsMap' = [s \in Sigs |-> sigFuncsMap[s] \cup OfSig(funcs, s)]
        /\ Global_EmptyTy_Funcs' = [s \in Sigs |-> Global_EmptyTy_Funcs[s] \cup OfSig(updateStructInfo(l, funcs), s)]
  BY DEF escapeHandler
<1> DEFINE met == UNION {escapeChecker(i).PV : i \in checked}
           funcs == FunctionsOf(met)
           layers == LayersOf(met)
           empty == updateStructInfo(l, funcs)
<1>2. /\ CheckedUpTo(l, checked)
      /\ typeFuncsMap' = [typeFuncsMap EXCEPT ![l] = @ \cup funcs]
      /\ typeConfineMap' = [typeConfineMap EXCEPT ![l] = @ \cup layers]
      /\ sigFuncsMap' = [s \in Sigs |-> sigFuncsMap[s] \cup OfSig(funcs, s)]
      /\ Global_EmptyTy_Funcs' = [s \in Sigs |-> Global_EmptyTy_Funcs[s] \cup OfSig(empty, s)]
  BY <1>1
<1>3. /\ pass = "escape" /\ pass' = pass /\ code' = code /\ unresolved' = unresolved
      /\ ICallees' = ICallees /\ Callers' = Callers /\ lost' = lost
      /\ IF AllExplained(l) THEN typeEscapeSet' = typeEscapeSet \ {l} ELSE typeEscapeSet' = typeEscapeSet
  BY DEF escapeHandler
<1>4. \A i \in checked : /\ FunctionsOf(escapeChecker(i).PV) \subseteq funcs
                         /\ LayersOf(escapeChecker(i).PV) \subseteq layers
  BY DEF FunctionsOf, LayersOf
<1> HIDE DEF funcs, layers, empty
<1>5. /\ typeFuncsMap \in [Cell -> SUBSET Function] /\ typeConfineMap \in [Layer -> SUBSET Layer]
      /\ l \in Cell /\ MapsTypeOK'
  BY LayersFinite DEF IInv, TypeOK, MapsTypeOK
<1>6. /\ \A k \in Cell : typeFuncsMap[k] \subseteq typeFuncsMap'[k]
      /\ \A k \in Layer : typeConfineMap[k] \subseteq typeConfineMap'[k]
      /\ \A s \in Sigs : sigFuncsMap[s] \subseteq sigFuncsMap'[s] /\ Global_EmptyTy_Funcs[s] \subseteq Global_EmptyTy_Funcs'[s]
      /\ funcs \subseteq typeFuncsMap'[l] /\ layers \subseteq typeConfineMap'[l]
  BY <1>2, <1>5
<1>7. ASSUME Named2, Whole, \A c \in ICall : Known(c), NEW i \in code, NEW k \in Effect(i).escaped \cap typeEscapeSet,
             k \notin typeEscapeSet'
      PROVE  Explained(i, k)'
  <2>1. k = l /\ AllExplained(l) /\ i \in escapedStoreMap(l)
    BY <1>3, <1>7 DEF escapedStoreMap
  <2>2. i \in checked /\ escapeChecker(i).ok
    BY <1>2, <2>1 DEF CheckedUpTo, AllExplained
  <2>3. i.value \in Value
    BY <1>7, WholeFacts, ItemType
  <2>4. PICK T \in SUBSET Value : T = escapeChecker(i).PV /\ i.value \in T /\ Closed(T)
    <3> DEFINE stuck == {v \in Value : GivesUp(v)}
    <3>1. \A u \in Value : GivesUp(u) => u \in stuck
      OBVIOUS
    <3>2. escapeChecker(i) = Trace(i.value, stuck)
      BY DEF escapeChecker
    <3> HIDE DEF stuck
    <3> QED BY <1>7, <2>2, <2>3, <3>1, <3>2, TraceMeets
  <2>5. FunctionsOf(T) \subseteq typeFuncsMap'[l] /\ LayersOf(T) \subseteq typeConfineMap'[l]
    BY <1>4, <1>6, <2>2, <2>4
  <2>6. ByName(MayBe)' /\ Closed(T)'
    <3>1. ByName(MayBe) /\ Closed(T)
      BY <1>7, <2>4 DEF Named2
    <3> QED BY <1>3, <3>1, ProgramStays
  <2>7. FunctionsOf(T)' = FunctionsOf(T) /\ LayersOf(T)' = LayersOf(T)
    BY DEF FunctionsOf, LayersOf
  <2>8. Explains(T, l)'
    BY <2>5, <2>6, <2>7 DEF Explains
  <2> QED BY <2>1, <2>4, <2>6, <2>8 DEF Explained
<1>8. ASSUME Named2, Whole, \A c \in ICall : Known(c) PROVE Whole' /\ \A c \in ICall : MayCall(MayBe, c) \subseteq ICallees'[c]
  <2>1. Whole'
    BY <1>3, <1>5, <1>6, <1>7, <1>8, WholeGrows
  <2> QED BY <1>3, <1>8, <2>1 DEF Known
<1> QED BY <1>3, <1>8, StepOfRound

LEMMA EndEscapeRounds ==
  ASSUME IInv, IInv', RInv, EndEscape
  PROVE  RInv'
<1> DEFINE again == {c \in ICall : typeResult[c] = "TypeEscape"}
<1>1. /\ pass = "escape"
      /\ ICallees' = [c \in ICall |-> IF c \in again THEN findCalleesWithMLTA(c)[2] ELSE ICallees[c]]
      /\ lost' = lost \cup {c \in again : Loses(c)}
      /\ code' = code /\ unresolved' = unresolved /\ UNCHANGED maps /\ Callers' = Callers
  BY DEF EndEscape
<1>2. pass' \in {"oneLayer", "done"}
  BY DEF EndEscape
<1>3. MapsTypeOK'
  BY DEF IInv, TypeOK
<1>4. ASSUME lost' = {}, Whole, \A c \in ICall : Known(c), NEW c \in ICall PROVE MayCall(MayBe, c) \subseteq ICallees'[c]
  <2>1. CASE c \in again
    <3>1. ~Loses(c)
      BY <1>1, <1>4, <2>1
    <3>2. MayCall(MayBe, c) \subseteq findCalleesWithMLTA(c)[2]
      BY <1>4, <3>1, WholeCovered
    <3> QED BY <1>1, <2>1, <3>2
  <2>2. CASE c \notin again
    BY <1>1, <1>4, <2>2 DEF Known
  <2> QED BY <2>1, <2>2
<1>5. ASSUME Whole PROVE Whole'
  BY <1>1, <1>3, <1>5, WholeStays
<1> HIDE DEF again
<1> QED BY <1>1, <1>2, <1>4, <1>5, StepOfRound

LEMMA IdleRounds ==
  ASSUME IInv, IInv', RInv, EndOneLayer \/ UNCHANGED vars
  PROVE  RInv'
<1>1. /\ UNCHANGED <<code, unresolved, maps, ICallees, Callers, lost>>
      /\ pass' = pass \/ (pass = "oneLayer" /\ pass' = "escape")
  BY DEF EndOneLayer, vars, mapVars, passVars
<1>2. MapsTypeOK'
  BY DEF IInv, TypeOK
<1>3. CASE pass = "resolve"
  <2>1. \A c \in ICall : Loses(c)' <=> Loses(c)
    BY <1>1, LosesStays
  <2> QED BY <1>1, <1>3, <2>1 DEF RInv
<1>4. CASE pass # "resolve"
  <2>1. ASSUME Whole PROVE Whole'
    BY <1>1, <1>2, <2>1, WholeStays
  <2>2. ASSUME \A c \in ICall : Known(c), NEW c \in ICall PROVE MayCall(MayBe, c) \subseteq ICallees'[c]
    BY <1>1, <2>2 DEF Known
  <2> QED BY <1>1, <1>4, <2>1, <2>2, StepOfRound
<1> QED BY <1>3, <1>4

LEMMA StepRounds == IInv /\ IInv' /\ RInv /\ [Next]_vars => RInv'
<1> SUFFICES ASSUME IInv, IInv', RInv, [Next]_vars PROVE RInv'
  OBVIOUS
<1>1. ASSUME NEW m \in Module, Initialize(m) PROVE RInv'
  BY <1>1, InitializeRounds
<1>2. ASSUME NEW m \in Module, Resolve(m) PROVE RInv'
  BY <1>2, ResolveRounds
<1>3. CASE StartRounds
  BY <1>3, StartRoundsRounds
<1>4. CASE EndOneLayer \/ UNCHANGED vars
  BY <1>4, IdleRounds
<1>5. CASE EndEscape
  BY <1>5, EndEscapeRounds
<1>6. ASSUME NEW c \in ICall, oneLayerHandler(c) PROVE RInv'
  BY <1>6, OneLayerRounds
<1>7. ASSUME NEW l \in Layer, escapeHandler(l) PROVE RInv'
  BY <1>7, EscapeRounds
<1> QED BY <1>1, <1>2, <1>3, <1>4, <1>5, <1>6, <1>7 DEF Next

\* oneLayerHandler and escapeHandler keep the targets conservative: after every pass over
\* the escaped layers or the one-layer calls, a function that may be called is a target of
\* the call, though a layer whose stores have all been traced is no longer escaped and what
\* a trace met replaces the targets, where no call had lost functions before (lost).
THEOREM TracesAlwaysCover == Spec => []TracesCover
<1>1. Init => RInv
  BY InitRounds
<1>2. IInv /\ IInv' /\ RInv /\ [Next]_vars => RInv'
  BY StepRounds
<1>3. RInv => TracesCover
  BY DEF RInv, TracesCover, Named2, Known
<1> QED BY <1>1, <1>2, <1>3, Invariant, PTL DEF Spec
=============================================================================
