--------------------------- MODULE TBAATagsProofs ---------------------------
(***************************************************************************)
(* Theorems about mayAliasByTBAA, for any descriptors that are laid out as *)
(* the front end does and that do not contain themselves, structs of one   *)
(* field and empty ones included: the answer is the struct-path rule as    *)
(* far as the code follows it (MatchesRule), and no overlap within a       *)
(* module is missed but through a struct of one field (OverlapFound).      *)
(***************************************************************************)
EXTENDS TBAATags, TLAPS

-----------------------------------------------------------------------------
(* A function by recursion over a set, of unions of its own values, has its *)
(* equation whether or not the recursion ends: the least such function.     *)

\* A function with such an equation exists.
LEMMA Unfolds ==
  \A S, U : \A base \in [S -> SUBSET U], next \in [S -> SUBSET S] :
    \E f \in [S -> SUBSET U] : \A x \in S : f[x] = base[x] \cup UNION {f[z] : z \in next[x]}
<1> SUFFICES ASSUME NEW S, NEW U, NEW base \in [S -> SUBSET U], NEW next \in [S -> SUBSET S]
             PROVE  \E f \in [S -> SUBSET U] : \A x \in S : f[x] = base[x] \cup UNION {f[z] : z \in next[x]}
  OBVIOUS
<1> DEFINE Closed(r) == \A x \in S, u \in U :
                          (u \in base[x] \/ \E z \in next[x] : <<z, u>> \in r) => <<x, u>> \in r
           least == {p \in S \X U : \A r \in SUBSET (S \X U) : Closed(r) => p \in r}
           step == {p \in S \X U : p[2] \in base[p[1]] \/ \E z \in next[p[1]] : <<z, p[2]>> \in least}
           f == [x \in S |-> {u \in U : <<x, u>> \in least}]
<1>1. Closed(least)
  <2> SUFFICES ASSUME NEW x \in S, NEW u \in U, u \in base[x] \/ \E z \in next[x] : <<z, u>> \in least,
                      NEW r \in SUBSET (S \X U), Closed(r)
               PROVE  <<x, u>> \in r
    OBVIOUS
  <2> QED OBVIOUS
<1>2. Closed(step)
  <2>1. step \subseteq least
    <3> SUFFICES ASSUME NEW p \in step PROVE p \in least
      OBVIOUS
    <3>1. p = <<p[1], p[2]>> /\ p[1] \in S /\ p[2] \in U
      OBVIOUS
    <3> HIDE DEF least
    <3>2. p[2] \in base[p[1]] \/ \E z \in next[p[1]] : <<z, p[2]>> \in least
      OBVIOUS
    <3> QED BY <1>1, <3>1, <3>2
  <2> HIDE DEF least
  <2> SUFFICES ASSUME NEW x \in S, NEW u \in U, u \in base[x] \/ \E z \in next[x] : <<z, u>> \in step
               PROVE  <<x, u>> \in step
    OBVIOUS
  <2>2. u \in base[x] \/ \E z \in next[x] : <<z, u>> \in least
    BY <2>1
  <2> QED BY <2>2
<1>3. \A p \in least : p \in step
  BY <1>2
<1>4. \A x \in S, u \in U : <<x, u>> \in least <=> u \in base[x] \/ \E z \in next[x] : <<z, u>> \in least
  <2> HIDE DEF least
  <2> QED BY <1>1, <1>3
<1> HIDE DEF least
<1>5. f \in [S -> SUBSET U]
  OBVIOUS
<1>6. ASSUME NEW x \in S PROVE f[x] = base[x] \cup UNION {f[z] : z \in next[x]}
  <2>1. ASSUME NEW u PROVE u \in f[x] <=> u \in base[x] \cup UNION {f[z] : z \in next[x]}
    <3>1. u \in U => (u \in f[x] <=> u \in base[x] \/ \E z \in next[x] : u \in f[z])
      BY <1>4
    <3>2. u \notin U => u \notin f[x] /\ u \notin base[x] /\ \A z \in next[x] : u \notin f[z]
      OBVIOUS
    <3> HIDE DEF f
    <3> QED BY <3>1, <3>2
  <2> QED BY <2>1
<1> HIDE DEF f
<1> QED BY <1>5, <1>6

-----------------------------------------------------------------------------
(* The descriptors. *)

\* The fields of a link that Derived follows, those Seen does, and those Subobjects does.
DerivedFields(x) == {j \in DOMAIN Fields(x[1]) : desc[x[1]].kind = "scalar" \/ Covers(x, j)}
SeenFields(x) == {j \in DOMAIN Fields(x[1]) :
                    ~TakenForScalar(x) /\ (desc[x[1]].kind = "scalar" \/ Covers(x, j))}
PartFields(x) == {j \in DOMAIN Fields(x[1]) : desc[x[1]].kind = "struct" /\ Covers(x, j)}

\* What Worlds says of one descriptor.
LEMMA DescriptorFacts ==
  ASSUME desc \in Worlds, NEW n \in Node
  PROVE  /\ desc[n] \in Descriptor /\ Fields(n) \in Seq(Node \X Nat)
         /\ \A k \in DOMAIN Fields(n) :
              FieldType(n, k) \in Node /\ FieldOffset(n, k) \in Nat /\ desc[FieldType(n, k)].size \in Nat
         /\ desc[n].kind \in Kind /\ desc[n].size \in Nat
<1>1. desc \in [Node -> Descriptor]
  BY WorldAssumption
<1>2. \A m \in Node : desc[m] \in Descriptor
  BY <1>1
<1>3. \A m \in Node : Fields(m) \in Seq(Node \X Nat) /\ desc[m].kind \in Kind /\ desc[m].size \in Nat
  BY <1>2 DEF Descriptor, Fields
<1>4. \A k \in DOMAIN Fields(n) : FieldType(n, k) \in Node /\ FieldOffset(n, k) \in Nat
  <2> SUFFICES ASSUME NEW k \in DOMAIN Fields(n)
               PROVE  FieldType(n, k) \in Node /\ FieldOffset(n, k) \in Nat
    OBVIOUS
  <2>1. Fields(n)[k] \in Node \X Nat
    BY <1>3
  <2> QED BY <2>1 DEF FieldType, FieldOffset
<1> QED BY <1>2, <1>3, <1>4

\* LaidOut and WellFounded in the words of the code.
LEMMA LayoutFacts ==
  ASSUME desc \in Worlds, NEW n \in Node
  PROVE  /\ desc[n].kind \in {"root", "opaque"} => Fields(n) = <<>>
         /\ desc[n].kind = "scalar" =>
              DOMAIN Fields(n) = {1} /\ FieldOffset(n, 1) = 0 /\ desc[FieldType(n, 1)].kind \in {"root", "scalar"}
         /\ \A j, k \in DOMAIN Fields(n) :
              j < k => FieldOffset(n, j) + desc[FieldType(n, j)].size <= FieldOffset(n, k)
<1>1. LaidOut(desc, n)
  BY WorldAssumption
<1>2. Fields(n) \in Seq(Node \X Nat)
  BY DescriptorFacts
<1> QED BY <1>1, <1>2 DEF LaidOut, Fields, FieldType, FieldOffset

\* Of any set of types, some type is built from none of them.
LEMMA SomeLowest ==
  ASSUME desc \in Worlds, NEW S \in SUBSET Node, S # {}
  PROVE  \E n \in S : \A k \in DOMAIN Fields(n) : FieldType(n, k) \notin S
BY WorldAssumption DEF WellFounded, Fields, FieldType

\* A field that is followed is at an offset within the type.
LEMMA InnerLink ==
  ASSUME desc \in Worlds, NEW x \in Link, NEW k \in DOMAIN Fields(x[1]),
         desc[x[1]].kind = "scalar" \/ Covers(x, k)
  PROVE  Inner(x, k) \in Link
<1>1. x[1] \in Node /\ x[2] \in 0..MaxOffset
  BY DEF Link
<1>2. FieldType(x[1], k) \in Node /\ FieldOffset(x[1], k) \in Nat
  BY <1>1, DescriptorFacts
<1>3. FieldOffset(x[1], k) <= x[2]
  <2>1. CASE desc[x[1]].kind = "scalar"
    <3>1. k = 1 /\ FieldOffset(x[1], 1) = 0
      BY <1>1, <2>1, LayoutFacts
    <3> QED BY <3>1, <1>1
  <2>2. CASE Covers(x, k)
    BY <2>2 DEF Covers
  <2> QED BY <2>1, <2>2
<1>4. x[2] - FieldOffset(x[1], k) \in 0..MaxOffset
  BY <1>1, <1>2, <1>3, WorldAssumption
<1> QED BY <1>2, <1>4 DEF Inner, Link

\* The recursive functions of the module have their equations.
LEMMA DerivedUnfolds ==
  ASSUME desc \in Worlds
  PROVE  \A x \in Link : Derived[x] = {x} \cup UNION {Derived[Inner(x, k)] : k \in DerivedFields(x)}
<1> DEFINE base == [x \in Link |-> {x}]
           next == [x \in Link |-> {Inner(x, k) : k \in DerivedFields(x)}]
           Eq(f) == f = [x \in Link |-> {x} \cup UNION {f[Inner(x, k)] : k \in DerivedFields(x)}]
<1>0. ASSUME NEW x \in Link PROVE {Inner(x, k) : k \in DerivedFields(x)} \subseteq Link
  BY InnerLink DEF DerivedFields
<1>1. base \in [Link -> SUBSET Link] /\ next \in [Link -> SUBSET Link]
  <2> DEFINE Next1(x) == {Inner(x, k) : k \in DerivedFields(x)}
  <2>1. \A x \in Link : Next1(x) \subseteq Link
    BY <1>0
  <2> HIDE DEF Next1
  <2>2. [x \in Link |-> Next1(x)] \in [Link -> SUBSET Link]
    BY <2>1
  <2>3. next \in [Link -> SUBSET Link]
    BY <2>2 DEF Next1
  <2>4. \A x \in Link : {x} \subseteq Link
    OBVIOUS
  <2>5. base \in [Link -> SUBSET Link]
    BY <2>4
  <2> HIDE DEF base, next
  <2> QED BY <2>3, <2>5
<1>2. PICK f \in [Link -> SUBSET Link] : \A x \in Link : f[x] = base[x] \cup UNION {f[z] : z \in next[x]}
  <2>1. \A b \in [Link -> SUBSET Link], h \in [Link -> SUBSET Link] :
          \E f \in [Link -> SUBSET Link] : \A x \in Link : f[x] = b[x] \cup UNION {f[z] : z \in h[x]}
    BY Unfolds, Zenon
  <2> HIDE DEF base, next
  <2> QED BY <1>1, <2>1, Zenon
<1>3. \A x \in Link : f[x] = {x} \cup UNION {f[Inner(x, k)] : k \in DerivedFields(x)}
  <2> SUFFICES ASSUME NEW x \in Link PROVE f[x] = {x} \cup UNION {f[Inner(x, k)] : k \in DerivedFields(x)}
    OBVIOUS
  <2>1. f[x] = {x} \cup UNION {f[z] : z \in next[x]}
    BY <1>2
  <2>2. UNION {f[z] : z \in next[x]} = UNION {f[Inner(x, k)] : k \in DerivedFields(x)}
    BY Zenon
  <2> QED BY <2>1, <2>2
<1>4. Eq(f)
  BY <1>3
<1>5. Derived = CHOOSE g : Eq(g)
  BY Zenon DEF Derived, DerivedFields
<1> HIDE DEF Eq
<1>6. Eq(Derived)
  BY <1>4, <1>5, Zenon
<1> QED BY <1>6 DEF Eq

LEMMA SeenUnfolds ==
  ASSUME desc \in Worlds
  PROVE  \A x \in Link : Seen[x] = {x} \cup UNION {Seen[Inner(x, k)] : k \in SeenFields(x)}
<1> DEFINE base == [x \in Link |-> {x}]
           next == [x \in Link |-> {Inner(x, k) : k \in SeenFields(x)}]
           Eq(f) == f = [x \in Link |-> {x} \cup UNION {f[Inner(x, k)] : k \in SeenFields(x)}]
<1>0. ASSUME NEW x \in Link PROVE {Inner(x, k) : k \in SeenFields(x)} \subseteq Link
  BY InnerLink DEF SeenFields
<1>1. base \in [Link -> SUBSET Link] /\ next \in [Link -> SUBSET Link]
  <2> DEFINE Next1(x) == {Inner(x, k) : k \in SeenFields(x)}
  <2>1. \A x \in Link : Next1(x) \subseteq Link
    BY <1>0
  <2> HIDE DEF Next1
  <2>2. [x \in Link |-> Next1(x)] \in [Link -> SUBSET Link]
    BY <2>1
  <2>3. next \in [Link -> SUBSET Link]
    BY <2>2 DEF Next1
  <2>4. \A x \in Link : {x} \subseteq Link
    OBVIOUS
  <2>5. base \in [Link -> SUBSET Link]
    BY <2>4
  <2> HIDE DEF base, next
  <2> QED BY <2>3, <2>5
<1>2. PICK f \in [Link -> SUBSET Link] : \A x \in Link : f[x] = base[x] \cup UNION {f[z] : z \in next[x]}
  <2>1. \A b \in [Link -> SUBSET Link], h \in [Link -> SUBSET Link] :
          \E f \in [Link -> SUBSET Link] : \A x \in Link : f[x] = b[x] \cup UNION {f[z] : z \in h[x]}
    BY Unfolds, Zenon
  <2> HIDE DEF base, next
  <2> QED BY <1>1, <2>1, Zenon
<1>3. \A x \in Link : f[x] = {x} \cup UNION {f[Inner(x, k)] : k \in SeenFields(x)}
  <2> SUFFICES ASSUME NEW x \in Link PROVE f[x] = {x} \cup UNION {f[Inner(x, k)] : k \in SeenFields(x)}
    OBVIOUS
  <2>1. f[x] = {x} \cup UNION {f[z] : z \in next[x]}
    BY <1>2
  <2>2. UNION {f[z] : z \in next[x]} = UNION {f[Inner(x, k)] : k \in SeenFields(x)}
    BY Zenon
  <2> QED BY <2>1, <2>2
<1>4. Eq(f)
  BY <1>3
<1>5. Seen = CHOOSE g : Eq(g)
  BY Zenon DEF Seen, SeenFields
<1> HIDE DEF Eq
<1>6. Eq(Seen)
  BY <1>4, <1>5, Zenon
<1> QED BY <1>6 DEF Eq

\* Induction over the types: what holds of a link if it does of those it leads to.
LEMMA DerivedLinks ==
  ASSUME desc \in Worlds
  PROVE  \A x \in Link : Derived[x] \subseteq Link
<1> DEFINE Bad == {n \in Node : \E x \in Link : x[1] = n /\ ~(Derived[x] \subseteq Link)}
<1>1. SUFFICES ASSUME Bad # {} PROVE FALSE
  BY DEF Link
<1>2. PICK n \in Bad : \A k \in DOMAIN Fields(n) : FieldType(n, k) \notin Bad
  BY <1>1, SomeLowest
<1>3. PICK x \in Link : x[1] = n /\ ~(Derived[x] \subseteq Link)
  OBVIOUS
<1>4. ASSUME NEW k \in DerivedFields(x) PROVE Derived[Inner(x, k)] \subseteq Link
  <2>1. Inner(x, k) \in Link /\ Inner(x, k)[1] = FieldType(n, k) /\ k \in DOMAIN Fields(n)
    BY <1>3, InnerLink DEF DerivedFields, Inner
  <2>2. FieldType(n, k) \notin Bad /\ FieldType(n, k) \in Node
    BY <1>2, <2>1, DescriptorFacts
  <2> QED BY <2>1, <2>2
<1>5. Derived[x] = {x} \cup UNION {Derived[Inner(x, k)] : k \in DerivedFields(x)}
  BY DerivedUnfolds
<1> QED BY <1>3, <1>4, <1>5

\* The same for Subobjects and root.
LEMMA SubobjectsUnfold ==
  ASSUME desc \in Worlds
  PROVE  \A x \in Link : Subobjects[x] = {x} \cup UNION {Subobjects[Inner(x, k)] : k \in PartFields(x)}
<1> DEFINE base == [x \in Link |-> {x}]
           next == [x \in Link |-> {Inner(x, k) : k \in PartFields(x)}]
           Eq(f) == f = [x \in Link |-> {x} \cup UNION {f[Inner(x, k)] : k \in PartFields(x)}]
<1>0. ASSUME NEW x \in Link PROVE {Inner(x, k) : k \in PartFields(x)} \subseteq Link
  BY InnerLink DEF PartFields
<1>1. base \in [Link -> SUBSET Link] /\ next \in [Link -> SUBSET Link]
  <2> DEFINE Next1(x) == {Inner(x, k) : k \in PartFields(x)}
  <2>1. \A x \in Link : Next1(x) \subseteq Link
    BY <1>0
  <2> HIDE DEF Next1
  <2>2. [x \in Link |-> Next1(x)] \in [Link -> SUBSET Link]
    BY <2>1
  <2>3. next \in [Link -> SUBSET Link]
    BY <2>2 DEF Next1
  <2>4. \A x \in Link : {x} \subseteq Link
    OBVIOUS
  <2>5. base \in [Link -> SUBSET Link]
    BY <2>4
  <2> HIDE DEF base, next
  <2> QED BY <2>3, <2>5
<1>2. PICK f \in [Link -> SUBSET Link] : \A x \in Link : f[x] = base[x] \cup UNION {f[z] : z \in next[x]}
  <2>1. \A b \in [Link -> SUBSET Link], h \in [Link -> SUBSET Link] :
          \E f \in [Link -> SUBSET Link] : \A x \in Link : f[x] = b[x] \cup UNION {f[z] : z \in h[x]}
    BY Unfolds, Zenon
  <2> HIDE DEF base, next
  <2> QED BY <1>1, <2>1, Zenon
<1>3. \A x \in Link : f[x] = {x} \cup UNION {f[Inner(x, k)] : k \in PartFields(x)}
  <2> SUFFICES ASSUME NEW x \in Link PROVE f[x] = {x} \cup UNION {f[Inner(x, k)] : k \in PartFields(x)}
    OBVIOUS
  <2>1. f[x] = {x} \cup UNION {f[z] : z \in next[x]}
    BY <1>2
  <2>2. UNION {f[z] : z \in next[x]} = UNION {f[Inner(x, k)] : k \in PartFields(x)}
    BY Zenon
  <2> QED BY <2>1, <2>2
<1>4. Eq(f)
  BY <1>3
<1>5. Subobjects = CHOOSE g : Eq(g)
  BY Zenon DEF Subobjects, PartFields
<1> HIDE DEF Eq
<1>6. Eq(Subobjects)
  BY <1>4, <1>5, Zenon
<1> QED BY <1>6 DEF Eq

LEMMA RootUnfolds ==
  ASSUME desc \in Worlds
  PROVE  \A n \in Node :
           root[n] = IF isRootNode(n) THEN n ELSE IF isScalarDesc(n) THEN root[FieldType(n, 1)] ELSE NoNode
<1> DEFINE base == [n \in Node |-> IF isRootNode(n) THEN {n} ELSE {}]
           next == [n \in Node |-> IF ~isRootNode(n) /\ isScalarDesc(n) THEN {FieldType(n, 1)} ELSE {}]
           Eq(f) == f = [n \in Node |-> IF isRootNode(n) THEN n
                                        ELSE IF isScalarDesc(n) THEN f[FieldType(n, 1)] ELSE NoNode]
<1>1. base \in [Node -> SUBSET Node] /\ next \in [Node -> SUBSET Node]
  <2>1. ASSUME NEW n \in Node, isScalarDesc(n) PROVE FieldType(n, 1) \in Node
    <3>1. Fields(n) \in Seq(Node \X Nat) /\ Len(Fields(n)) = 1
      BY <2>1, DescriptorFacts DEF isScalarDesc
    <3>2. 1 \in DOMAIN Fields(n)
      BY <3>1
    <3> QED BY <3>2, DescriptorFacts
  <2>2. \A n \in Node : (IF isRootNode(n) THEN {n} ELSE {}) \subseteq Node
    OBVIOUS
  <2>3. \A n \in Node : (IF ~isRootNode(n) /\ isScalarDesc(n) THEN {FieldType(n, 1)} ELSE {}) \subseteq Node
    BY <2>1
  <2>4. base \in [Node -> SUBSET Node]
    BY <2>2
  <2>5. next \in [Node -> SUBSET Node]
    BY <2>3
  <2> HIDE DEF base, next
  <2> QED BY <2>4, <2>5
<1>2. PICK T \in [Node -> SUBSET Node] : \A n \in Node : T[n] = base[n] \cup UNION {T[z] : z \in next[n]}
  <2>1. \A b \in [Node -> SUBSET Node], h \in [Node -> SUBSET Node] :
          \E f \in [Node -> SUBSET Node] : \A n \in Node : f[n] = b[n] \cup UNION {f[z] : z \in h[n]}
    BY Unfolds, Zenon
  <2> HIDE DEF base, next
  <2> QED BY <1>1, <2>1, Zenon
<1> DEFINE Of(R) == IF R = {} THEN NoNode ELSE CHOOSE m : m \in R
           r == [n \in Node |-> Of(T[n])]
<1>3. \A n \in Node : r[n] = IF isRootNode(n) THEN n ELSE IF isScalarDesc(n) THEN r[FieldType(n, 1)] ELSE NoNode
  <2> SUFFICES ASSUME NEW n \in Node
               PROVE  r[n] = IF isRootNode(n) THEN n ELSE IF isScalarDesc(n) THEN r[FieldType(n, 1)] ELSE NoNode
    OBVIOUS
  <2>1. CASE isRootNode(n)
    <3>1. T[n] = {n}
      BY <1>2, <2>1
    <3> QED BY <2>1, <3>1
  <2>2. CASE ~isRootNode(n) /\ isScalarDesc(n)
    <3>1. T[n] = T[FieldType(n, 1)] /\ FieldType(n, 1) \in Node
      BY <1>1, <1>2, <2>2
    <3> QED BY <2>2, <3>1
  <2>3. CASE ~isRootNode(n) /\ ~isScalarDesc(n)
    <3>1. T[n] = {}
      BY <1>2, <2>3
    <3> QED BY <2>3, <3>1
  <2> QED BY <2>1, <2>2, <2>3
<1>4. Eq(r)
  <2> HIDE DEF Of
  <2> QED BY <1>3
<1>5. root = CHOOSE g : Eq(g)
  BY Zenon DEF root
<1> HIDE DEF Eq
<1>6. Eq(root)
  BY <1>4, <1>5, Zenon
<1> QED BY <1>6 DEF Eq

\* A part of a type is one of its links in the rule too.
LEMMA SubobjectsDerived ==
  ASSUME desc \in Worlds
  PROVE  \A x \in Link : Subobjects[x] \subseteq Derived[x]
<1> DEFINE Bad == {n \in Node : \E x \in Link : x[1] = n /\ ~(Subobjects[x] \subseteq Derived[x])}
<1>1. SUFFICES ASSUME Bad # {} PROVE FALSE
  BY DEF Link
<1>2. PICK n \in Bad : \A k \in DOMAIN Fields(n) : FieldType(n, k) \notin Bad
  BY <1>1, SomeLowest
<1>3. PICK x \in Link : x[1] = n /\ ~(Subobjects[x] \subseteq Derived[x])
  OBVIOUS
<1>4. ASSUME NEW k \in PartFields(x) PROVE Subobjects[Inner(x, k)] \subseteq Derived[Inner(x, k)]
  <2>1. Inner(x, k) \in Link /\ Inner(x, k)[1] = FieldType(n, k) /\ k \in DOMAIN Fields(n)
    BY <1>3, InnerLink DEF PartFields, Inner
  <2>2. FieldType(n, k) \notin Bad /\ FieldType(n, k) \in Node
    BY <1>2, <2>1, DescriptorFacts
  <2> QED BY <2>1, <2>2
<1>5. PartFields(x) \subseteq DerivedFields(x)
  BY DEF PartFields, DerivedFields
<1>6. /\ Subobjects[x] = {x} \cup UNION {Subobjects[Inner(x, k)] : k \in PartFields(x)}
      /\ Derived[x] = {x} \cup UNION {Derived[Inner(x, k)] : k \in DerivedFields(x)}
  BY SubobjectsUnfold, DerivedUnfolds
<1> QED BY <1>3, <1>4, <1>5, <1>6

\* What the code sees of the rule is of it.
LEMMA SeenDerived ==
  ASSUME desc \in Worlds
  PROVE  \A x \in Link : Seen[x] \subseteq Derived[x]
<1> DEFINE Bad == {n \in Node : \E x \in Link : x[1] = n /\ ~(Seen[x] \subseteq Derived[x])}
<1>1. SUFFICES ASSUME Bad # {} PROVE FALSE
  BY DEF Link
<1>2. PICK n \in Bad : \A k \in DOMAIN Fields(n) : FieldType(n, k) \notin Bad
  BY <1>1, SomeLowest
<1>3. PICK x \in Link : x[1] = n /\ ~(Seen[x] \subseteq Derived[x])
  OBVIOUS
<1>4. ASSUME NEW k \in SeenFields(x) PROVE Seen[Inner(x, k)] \subseteq Derived[Inner(x, k)]
  <2>1. Inner(x, k) \in Link /\ Inner(x, k)[1] = FieldType(n, k) /\ k \in DOMAIN Fields(n)
    BY <1>3, InnerLink DEF SeenFields, Inner
  <2>2. FieldType(n, k) \notin Bad /\ FieldType(n, k) \in Node
    BY <1>2, <2>1, DescriptorFacts
  <2> QED BY <2>1, <2>2
<1>5. SeenFields(x) \subseteq DerivedFields(x)
  BY DEF SeenFields, DerivedFields
<1>6. /\ Seen[x] = {x} \cup UNION {Seen[Inner(x, k)] : k \in SeenFields(x)}
      /\ Derived[x] = {x} \cup UNION {Derived[Inner(x, k)] : k \in DerivedFields(x)}
  BY SeenUnfolds, DerivedUnfolds
<1> QED BY <1>3, <1>4, <1>5, <1>6

\* It is all of it where no struct is taken for a scalar.
LEMMA SeenAll ==
  ASSUME desc \in Worlds
  PROVE  \A x \in Link : (\A y \in Derived[x] : ~TakenForScalar(y)) => Seen[x] = Derived[x]
<1> DEFINE Plain(x) == \A y \in Derived[x] : ~TakenForScalar(y)
           Bad == {n \in Node : \E x \in Link : x[1] = n /\ Plain(x) /\ Seen[x] # Derived[x]}
<1>1. SUFFICES ASSUME Bad # {} PROVE FALSE
  BY DEF Link
<1>2. PICK n \in Bad : \A k \in DOMAIN Fields(n) : FieldType(n, k) \notin Bad
  BY <1>1, SomeLowest
<1>3. PICK x \in Link : x[1] = n /\ Plain(x) /\ Seen[x] # Derived[x]
  OBVIOUS
<1>4. /\ Derived[x] = {x} \cup UNION {Derived[Inner(x, k)] : k \in DerivedFields(x)}
      /\ Seen[x] = {x} \cup UNION {Seen[Inner(x, k)] : k \in SeenFields(x)}
  BY DerivedUnfolds, SeenUnfolds
<1>5. SeenFields(x) = DerivedFields(x)
  BY <1>3, <1>4 DEF SeenFields, DerivedFields
<1>6. ASSUME NEW k \in DerivedFields(x) PROVE Seen[Inner(x, k)] = Derived[Inner(x, k)]
  <2>1. Inner(x, k) \in Link /\ Inner(x, k)[1] = FieldType(n, k) /\ k \in DOMAIN Fields(n)
    BY <1>3, InnerLink DEF DerivedFields, Inner
  <2>2. FieldType(n, k) \notin Bad /\ FieldType(n, k) \in Node
    BY <1>2, <2>1, DescriptorFacts
  <2>3. Plain(Inner(x, k))
    BY <1>3, <1>4
  <2> QED BY <2>1, <2>2, <2>3
<1>7. UNION {Seen[Inner(x, k)] : k \in SeenFields(x)} = UNION {Derived[Inner(x, k)] : k \in DerivedFields(x)}
  BY <1>5, <1>6
<1> QED BY <1>3, <1>4, <1>7

\* A type does not contain or derive from itself.
LEMMA DerivedOnce ==
  ASSUME desc \in Worlds, NEW x \in Link, NEW y \in Derived[x], y[1] = x[1]
  PROVE  y = x
<1> DEFINE Above == {n \in Node : \E z \in Link : z[1] = n /\ \E w \in Derived[z] : w[1] = x[1]}
<1>1. SUFFICES ASSUME y # x PROVE FALSE
  OBVIOUS
<1>2. ASSUME NEW z \in Link, NEW w \in Derived[z], w[1] = x[1], w # z
      PROVE  \E k \in DOMAIN Fields(z[1]) : FieldType(z[1], k) \in Above
  <2>1. PICK k \in DerivedFields(z) : w \in Derived[Inner(z, k)]
    BY <1>2, DerivedUnfolds
  <2>2. Inner(z, k) \in Link /\ Inner(z, k)[1] = FieldType(z[1], k) /\ k \in DOMAIN Fields(z[1])
    BY InnerLink DEF DerivedFields, Inner
  <2>3. FieldType(z[1], k) \in Node
    BY <2>2, DescriptorFacts DEF Link
  <2> QED BY <1>2, <2>1, <2>2, <2>3
<1>3. x[1] \in Above
  BY <1>1 DEF Link
<1>4. PICK n \in Above : \A k \in DOMAIN Fields(n) : FieldType(n, k) \notin Above
  BY <1>3, SomeLowest
<1>5. CASE n = x[1]
  BY <1>1, <1>2, <1>4, <1>5
<1>6. CASE n # x[1]
  <2>1. PICK z \in Link : z[1] = n /\ \E w \in Derived[z] : w[1] = x[1]
    OBVIOUS
  <2>2. PICK w \in Derived[z] : w[1] = x[1]
    BY <2>1
  <2>3. w # z
    BY <1>6, <2>1, <2>2
  <2> HIDE DEF Above
  <2> QED BY <1>2, <1>4, <2>1, <2>2, <2>3
<1> QED BY <1>5, <1>6

\* What a link derives from derives from no more.
LEMMA DerivedTransitive ==
  ASSUME desc \in Worlds
  PROVE  \A x \in Link : \A y \in Derived[x] : Derived[y] \subseteq Derived[x]
<1> DEFINE Bad == {n \in Node : \E x \in Link : x[1] = n /\ \E y \in Derived[x] : ~(Derived[y] \subseteq Derived[x])}
<1>1. SUFFICES ASSUME Bad # {} PROVE FALSE
  BY DEF Link
<1>2. PICK n \in Bad : \A k \in DOMAIN Fields(n) : FieldType(n, k) \notin Bad
  BY <1>1, SomeLowest
<1>3. PICK x \in Link : x[1] = n /\ \E y \in Derived[x] : ~(Derived[y] \subseteq Derived[x])
  OBVIOUS
<1>4. PICK y \in Derived[x] : ~(Derived[y] \subseteq Derived[x])
  BY <1>3
<1>5. PICK k \in DerivedFields(x) : y \in Derived[Inner(x, k)]
  BY <1>4, DerivedUnfolds
<1>6. Inner(x, k) \in Link /\ Inner(x, k)[1] = FieldType(n, k) /\ k \in DOMAIN Fields(n)
  BY <1>3, InnerLink DEF DerivedFields, Inner
<1>7. FieldType(n, k) \notin Bad /\ FieldType(n, k) \in Node
  BY <1>2, <1>6, DescriptorFacts
<1>8. Derived[y] \subseteq Derived[Inner(x, k)]
  BY <1>5, <1>6, <1>7
<1>9. Derived[Inner(x, k)] \subseteq Derived[x]
  BY DerivedUnfolds
<1> QED BY <1>4, <1>8, <1>9

-----------------------------------------------------------------------------
(* What the chains are built of: the links that lead to an access.          *)

\* The types an access may be of.
Accessible == {n \in Node : desc[n].kind \in {"scalar", "opaque"}}

\* A link on a chain from a well-formed tag.
Good(x) ==
  /\ x \in Link
  /\ desc[x[1]].kind = "scalar" => x[2] = 0
  /\ desc[x[1]].kind = "struct" => \E a \in Accessible : <<a, 0>> \in Subobjects[x]

\* A byte of a struct is in one field at most, and that is the one the code takes,
\* if it does not take the struct for a scalar.
LEMMA CoveringField ==
  ASSUME desc \in Worlds, NEW x \in Link, desc[x[1]].kind = "struct",
         NEW k \in DOMAIN Fields(x[1]), Covers(x, k)
  PROVE  /\ DerivedFields(x) = {k}
         /\ immediateParent(x[1], x[2]) = IF TakenForScalar(x) THEN {} ELSE {Inner(x, k)}
<1> DEFINE n == x[1]
           o == x[2]
<1>1. n \in Node /\ o \in Nat
  BY WorldAssumption DEF Link
<1>2. /\ Fields(n) \in Seq(Node \X Nat) /\ Len(Fields(n)) >= 1 /\ k \in 1..Len(Fields(n))
      /\ DOMAIN Fields(n) = 1..Len(Fields(n)) /\ Len(Fields(n)) \in Nat
  <2>1. Fields(n) \in Seq(Node \X Nat)
    BY <1>1, DescriptorFacts
  <2>2. Fields(n) # <<>>
    BY <2>1
  <2>3. DOMAIN Fields(n) = 1..Len(Fields(n)) /\ Len(Fields(n)) \in Nat
    BY <2>1
  <2> QED BY <2>1, <2>2, <2>3
<1>3. ASSUME NEW j \in DOMAIN Fields(n)
      PROVE  /\ FieldOffset(n, j) \in Nat /\ desc[FieldType(n, j)].size \in Nat
             /\ j < k => FieldOffset(n, j) <= o /\ FieldOffset(n, j) + desc[FieldType(n, j)].size <= o
             /\ j > k => FieldOffset(n, j) > o
  <2>1. /\ FieldOffset(n, j) \in Nat /\ desc[FieldType(n, j)].size \in Nat
        /\ FieldOffset(n, k) \in Nat /\ desc[FieldType(n, k)].size \in Nat
    BY <1>1, DescriptorFacts
  <2>2. /\ j < k => FieldOffset(n, j) + desc[FieldType(n, j)].size <= FieldOffset(n, k)
        /\ k < j => FieldOffset(n, k) + desc[FieldType(n, k)].size <= FieldOffset(n, j)
    BY <1>1, LayoutFacts
  <2>3. FieldOffset(n, k) <= o /\ o < FieldOffset(n, k) + desc[FieldType(n, k)].size
    BY DEF Covers
  <2>4. k \in Nat /\ j \in Nat
    BY <1>2
  <2> QED BY <1>1, <2>1, <2>2, <2>3, <2>4
<1>4. DerivedFields(x) = {k}
  <2>1. ASSUME NEW j \in DerivedFields(x) PROVE j = k
    <3>1. j \in DOMAIN Fields(n) /\ Covers(x, j)
      BY DEF DerivedFields
    <3>2. FieldOffset(n, j) <= o /\ o < FieldOffset(n, j) + desc[FieldType(n, j)].size
      BY <3>1 DEF Covers
    <3>3. ~(j < k) /\ ~(j > k)
      BY <1>1, <1>3, <3>1, <3>2
    <3> QED BY <1>2, <3>1, <3>3
  <2> QED BY <2>1 DEF DerivedFields
<1> DEFINE Taken(j) == /\ \A i \in 1..j : FieldOffset(n, i) <= o
                       /\ j < Len(Fields(n)) => FieldOffset(n, j + 1) > o
<1>5. FieldOffset(n, k) <= o
  BY DEF Covers
<1>6. Taken(k)
  <2>1. ASSUME NEW i \in 1..k PROVE FieldOffset(n, i) <= o
    <3>1. i \in DOMAIN Fields(n) /\ (i < k \/ i = k)
      BY <1>2
    <3> QED BY <1>3, <1>5, <3>1
  <2>2. ASSUME k < Len(Fields(n)) PROVE FieldOffset(n, k + 1) > o
    <3>1. k + 1 \in DOMAIN Fields(n) /\ k + 1 > k
      BY <1>2, <2>2
    <3> QED BY <1>3, <3>1
  <2> QED BY <2>1, <2>2
<1>7. ASSUME NEW j \in DOMAIN Fields(n), Taken(j) PROVE j = k
  <2>1. ~(j < k)
    <3>1. SUFFICES ASSUME j < k PROVE FALSE
      OBVIOUS
    <3>2. j < Len(Fields(n)) /\ j + 1 \in DOMAIN Fields(n) /\ j + 1 <= k
      BY <1>2, <3>1
    <3>3. FieldOffset(n, j + 1) > o
      BY <1>7, <3>2
    <3>4. FieldOffset(n, j + 1) <= o /\ FieldOffset(n, j + 1) \in Nat
      BY <1>2, <1>3, <1>5, <3>2
    <3> QED BY <1>1, <3>3, <3>4
  <2>2. ~(k < j)
    <3>1. SUFFICES ASSUME k < j PROVE FALSE
      OBVIOUS
    <3>2. j \in 1..j
      BY <1>2
    <3>3. FieldOffset(n, j) <= o /\ FieldOffset(n, j) > o /\ FieldOffset(n, j) \in Nat
      BY <1>3, <1>7, <3>1, <3>2
    <3> QED BY <1>1, <3>3
  <2> QED BY <1>2, <2>1, <2>2
<1>8. FieldAt(n, o) = k
  <2>1. FieldAt(n, o) = CHOOSE j \in DOMAIN Fields(n) : Taken(j)
    BY DEF FieldAt
  <2> HIDE DEF Taken
  <2>2. FieldAt(n, o) \in DOMAIN Fields(n) /\ Taken(FieldAt(n, o))
    BY <1>6, <2>1, Zenon
  <2> QED BY <1>7, <2>2
<1>9. FieldOffset(n, 1) <= o
  <2>1. 1 \in DOMAIN Fields(n) /\ (1 < k \/ k = 1)
    BY <1>2
  <2> QED BY <1>3, <1>5, <2>1
<1>10. isStructDesc(n)
  BY <1>2 DEF isStructDesc
<1>11. CASE isScalarDesc(n)
  <2>1. Len(Fields(n)) = 1 /\ k = 1
    BY <1>2, <1>11 DEF isScalarDesc
  <2>2. CASE o = 0
    <3>1. FieldOffset(n, 1) = 0
      BY <1>2, <1>3, <1>9, <2>2
    <3>2. ~TakenForScalar(x) /\ Inner(x, k) = <<FieldType(n, 1), 0>>
      BY <2>1, <2>2, <3>1 DEF TakenForScalar, Inner
    <3> QED BY <1>4, <1>11, <2>2, <3>2 DEF immediateParent
  <2>3. CASE o # 0
    <3>1. TakenForScalar(x)
      BY <2>1, <2>3 DEF TakenForScalar
    <3>2. immediateParent(n, o) = {}
      BY <1>11, <2>3 DEF immediateParent
    <3> QED BY <1>4, <3>1, <3>2
  <2> QED BY <2>2, <2>3
<1>12. CASE ~isScalarDesc(n)
  <2>1. ~TakenForScalar(x)
    BY <1>12 DEF isScalarDesc, TakenForScalar
  <2>2. immediateParent(n, o) = {Inner(x, k)}
    BY <1>8, <1>9, <1>10, <1>12 DEF immediateParent, Inner
  <2> QED BY <1>4, <2>1, <2>2
<1> QED BY <1>11, <1>12

\* A link that is not the last of its chain.
LEMMA GoodStep ==
  ASSUME desc \in Worlds, NEW x, Good(x)
  PROVE  \/ /\ immediateParent(x[1], x[2]) = {} /\ Derived[x] = {x} /\ DerivedFields(x) = {}
            /\ desc[x[1]].kind \in {"root", "opaque"}
         \/ \E k \in DOMAIN Fields(x[1]) :
              /\ immediateParent(x[1], x[2]) = IF TakenForScalar(x) THEN {} ELSE {Inner(x, k)}
              /\ Good(Inner(x, k)) /\ DerivedFields(x) = {k}
              /\ Derived[x] = {x} \cup Derived[Inner(x, k)]
              /\ Inner(x, k)[1] = FieldType(x[1], k)
              /\ desc[x[1]].kind \in {"scalar", "struct"}
<1>1. x \in Link /\ x[1] \in Node /\ x[2] \in 0..MaxOffset /\ x = <<x[1], x[2]>>
  BY DEF Good, Link
<1>2. Derived[x] = {x} \cup UNION {Derived[Inner(x, k)] : k \in DerivedFields(x)}
  BY <1>1, DerivedUnfolds
<1>3. Fields(x[1]) \in Seq(Node \X Nat)
  BY <1>1, DescriptorFacts
<1>4. CASE desc[x[1]].kind \in {"root", "opaque"}
  <2>1. Fields(x[1]) = <<>>
    BY <1>1, <1>4, LayoutFacts
  <2>2. immediateParent(x[1], x[2]) = {}
    BY <2>1 DEF immediateParent, isScalarDesc, isStructDesc
  <2>3. DerivedFields(x) = {}
    BY <2>1 DEF DerivedFields
  <2> QED BY <1>2, <1>4, <2>2, <2>3
<1>5. CASE desc[x[1]].kind = "scalar"
  <2>1. /\ DOMAIN Fields(x[1]) = {1} /\ FieldOffset(x[1], 1) = 0
        /\ desc[FieldType(x[1], 1)].kind \in {"root", "scalar"}
    BY <1>1, <1>5, LayoutFacts
  <2>2. Len(Fields(x[1])) = 1
    BY <1>3, <2>1
  <2>3. x[2] = 0
    BY <1>5 DEF Good
  <2>4. Inner(x, 1) = <<FieldType(x[1], 1), 0>>
    BY <2>1, <2>3 DEF Inner
  <2>5. immediateParent(x[1], x[2]) = {Inner(x, 1)} /\ ~TakenForScalar(x)
    BY <1>5, <2>2, <2>3, <2>4 DEF immediateParent, isScalarDesc, TakenForScalar
  <2>6. DerivedFields(x) = {1}
    BY <1>5, <2>1 DEF DerivedFields
  <2>7. Good(Inner(x, 1))
    <3>1. Inner(x, 1) \in Link
      BY <1>1, <1>5, <2>1, InnerLink
    <3> QED BY <2>1, <2>4, <3>1 DEF Good
  <2> QED BY <1>2, <1>5, <2>1, <2>4, <2>5, <2>6, <2>7
<1>6. CASE desc[x[1]].kind = "struct"
  <2>1. PICK a \in Accessible : <<a, 0>> \in Subobjects[x]
    BY <1>6 DEF Good
  <2>2. a # x[1]
    BY <1>6, <2>1 DEF Accessible
  <2>3. PICK k \in PartFields(x) : <<a, 0>> \in Subobjects[Inner(x, k)]
    BY <1>1, <2>1, <2>2, SubobjectsUnfold
  <2>4. k \in DOMAIN Fields(x[1]) /\ Covers(x, k)
    BY DEF PartFields
  <2>5. DerivedFields(x) = {k} /\ immediateParent(x[1], x[2]) = IF TakenForScalar(x) THEN {} ELSE {Inner(x, k)}
    BY <1>1, <1>6, <2>4, CoveringField
  <2>6. Inner(x, k) \in Link /\ Inner(x, k)[1] = FieldType(x[1], k)
    BY <1>1, <2>4, InnerLink DEF Inner
  <2>7. desc[Inner(x, k)[1]].kind = "scalar" => Inner(x, k)[2] = 0
    <3>1. SUFFICES ASSUME desc[Inner(x, k)[1]].kind = "scalar" PROVE Inner(x, k)[2] = 0
      OBVIOUS
    <3>2. PartFields(Inner(x, k)) = {}
      BY <3>1 DEF PartFields
    <3>3. Subobjects[Inner(x, k)] = {Inner(x, k)}
      BY <2>6, <3>2, SubobjectsUnfold
    <3> QED BY <2>3, <3>3
  <2>8. Good(Inner(x, k))
    BY <2>1, <2>3, <2>6, <2>7 DEF Good
  <2> QED BY <1>2, <1>6, <2>4, <2>5, <2>6, <2>8
<1> QED BY <1>1, <1>4, <1>5, <1>6, DescriptorFacts DEF Kind

\* What the code sees from a link: it, and what it sees from its parent.
LEMMA SeenStep ==
  ASSUME desc \in Worlds, NEW x, Good(x)
  PROVE  /\ \A y \in immediateParent(x[1], x[2]) : Good(y)
         /\ Seen[x] = {x} \cup UNION {Seen[y] : y \in immediateParent(x[1], x[2])}
<1>1. x \in Link
  BY DEF Good
<1>2. Seen[x] = {x} \cup UNION {Seen[Inner(x, k)] : k \in SeenFields(x)}
  BY <1>1, SeenUnfolds
<1>3. SeenFields(x) = IF TakenForScalar(x) THEN {} ELSE DerivedFields(x)
  BY DEF SeenFields, DerivedFields
<1>4. CASE immediateParent(x[1], x[2]) = {} /\ DerivedFields(x) = {}
  BY <1>2, <1>3, <1>4
<1>5. ASSUME NEW k, DerivedFields(x) = {k}, Good(Inner(x, k)),
             immediateParent(x[1], x[2]) = IF TakenForScalar(x) THEN {} ELSE {Inner(x, k)}
      PROVE  /\ \A y \in immediateParent(x[1], x[2]) : Good(y)
             /\ Seen[x] = {x} \cup UNION {Seen[y] : y \in immediateParent(x[1], x[2])}
  <2>1. CASE TakenForScalar(x)
    BY <1>2, <1>3, <1>5, <2>1
  <2>2. CASE ~TakenForScalar(x)
    BY <1>2, <1>3, <1>5, <2>2
  <2> QED BY <2>1, <2>2
<1> QED BY <1>4, <1>5, GoodStep

\* The roots a link derives from.
RootsOf(x) == {y \in Derived[x] : desc[y[1]].kind = "root"}

\* A chain has one root, which is that of each of its links.
LEMMA RootsAlike ==
  ASSUME desc \in Worlds
  PROVE  \A x \in Link : Good(x) => \A y \in Derived[x] : RootsOf(y) = RootsOf(x)
<1> DEFINE Alike(x) == \A y \in Derived[x] : RootsOf(y) = RootsOf(x)
           Bad == {n \in Node : \E x \in Link : x[1] = n /\ Good(x) /\ ~Alike(x)}
<1>1. SUFFICES ASSUME Bad # {} PROVE FALSE
  BY DEF Link
<1>2. PICK n \in Bad : \A k \in DOMAIN Fields(n) : FieldType(n, k) \notin Bad
  BY <1>1, SomeLowest
<1>3. PICK x \in Link : x[1] = n /\ Good(x) /\ ~Alike(x)
  OBVIOUS
<1>4. CASE Derived[x] = {x}
  BY <1>3, <1>4
<1>5. ASSUME NEW k \in DOMAIN Fields(x[1]), Good(Inner(x, k)),
             Derived[x] = {x} \cup Derived[Inner(x, k)], Inner(x, k)[1] = FieldType(x[1], k),
             desc[x[1]].kind \in {"scalar", "struct"}
      PROVE  FALSE
  <2>1. Inner(x, k) \in Link /\ FieldType(n, k) \in Node
    BY <1>3, <1>5, DescriptorFacts DEF Good
  <2>2. Alike(Inner(x, k))
    BY <1>2, <1>3, <1>5, <2>1
  <2>3. RootsOf(x) = RootsOf(Inner(x, k))
    BY <1>5 DEF RootsOf
  <2> QED BY <1>3, <1>5, <2>2, <2>3
<1> HIDE DEF Alike
<1> QED BY <1>3, <1>4, <1>5, GoodStep

\* The root the code finds for an access is the one its chain ends at.
LEMMA RootsFound ==
  ASSUME desc \in Worlds, NEW n \in Node
  PROVE  /\ desc[n].kind = "opaque" => root[n] = NoNode
         /\ desc[n].kind \in {"root", "scalar"} => root[n] \in Node /\ RootsOf(<<n, 0>>) = {<<root[n], 0>>}
<1>1. root[n] = IF isRootNode(n) THEN n ELSE IF isScalarDesc(n) THEN root[FieldType(n, 1)] ELSE NoNode
  BY RootUnfolds
<1>2. CASE desc[n].kind = "opaque"
  <2>1. Fields(n) = <<>>
    BY <1>2, LayoutFacts
  <2> QED BY <1>1, <1>2, <2>1 DEF isRootNode, isScalarDesc
<1> DEFINE Found(m) == root[m] \in Node /\ RootsOf(<<m, 0>>) = {<<root[m], 0>>}
           Bad == {m \in Node : desc[m].kind \in {"root", "scalar"} /\ ~Found(m)}
<1>3. Bad = {}
  <2>1. SUFFICES ASSUME Bad # {} PROVE FALSE
    OBVIOUS
  <2>2. PICK m \in Bad : \A k \in DOMAIN Fields(m) : FieldType(m, k) \notin Bad
    BY <2>1, SomeLowest
  <2>3. <<m, 0>> \in Link /\ Good(<<m, 0>>)
    <3>1. <<m, 0>> \in Link
      BY WorldAssumption DEF Link
    <3>2. desc[m].kind # "struct"
      OBVIOUS
    <3> QED BY <3>1, <3>2 DEF Good
  <2>4. root[m] = IF isRootNode(m) THEN m ELSE IF isScalarDesc(m) THEN root[FieldType(m, 1)] ELSE NoNode
    BY RootUnfolds
  <2>5. CASE desc[m].kind = "root"
    <3>1. Fields(m) = <<>>
      BY <2>5, LayoutFacts
    <3>2. root[m] = m
      BY <2>4, <2>5, <3>1 DEF isRootNode
    <3>3. Derived[<<m, 0>>] = {<<m, 0>>}
      BY <2>3, <2>5, GoodStep
    <3> QED BY <2>5, <3>2, <3>3 DEF RootsOf
  <2>6. CASE desc[m].kind = "scalar"
    <3>1. /\ DOMAIN Fields(m) = {1} /\ FieldOffset(m, 1) = 0
          /\ desc[FieldType(m, 1)].kind \in {"root", "scalar"}
      BY <2>6, LayoutFacts
    <3>2. Fields(m) \in Seq(Node \X Nat) /\ FieldType(m, 1) \in Node
      BY <3>1, DescriptorFacts
    <3>3. Len(Fields(m)) = 1
      BY <3>1, <3>2
    <3>4. ~isRootNode(m) /\ isScalarDesc(m)
      BY <3>3 DEF isRootNode, isScalarDesc
    <3>5. root[m] = root[FieldType(m, 1)]
      BY <2>4, <3>4
    <3>6. Found(FieldType(m, 1))
      BY <2>2, <3>1, <3>2
    <3>7. Inner(<<m, 0>>, 1) = <<FieldType(m, 1), 0>>
      BY <3>1 DEF Inner
    <3>8. Derived[<<m, 0>>] = {<<m, 0>>} \cup Derived[<<FieldType(m, 1), 0>>]
      <4>1. <<m, 0>>[1] = m
        OBVIOUS
      <4>2. DerivedFields(<<m, 0>>) = {1}
        BY <2>6, <3>1, <4>1 DEF DerivedFields
      <4> QED BY <2>3, <3>7, <4>2, DerivedUnfolds
    <3>9. RootsOf(<<m, 0>>) = RootsOf(<<FieldType(m, 1), 0>>)
      BY <2>6, <3>8 DEF RootsOf
    <3> QED BY <3>5, <3>6, <3>9
  <2> QED BY <2>5, <2>6
<1> QED BY <1>2, <1>3

-----------------------------------------------------------------------------
(* The tags, and the chains from their starts. *)

\* A tag the front end attaches to an access.
TagOK(tag) == tag \in Tags /\ WellFormed(tag)

\* Such a tag starts a chain, and its access is on it.
LEMMA TagFacts ==
  ASSUME desc \in Worlds, NEW tag, TagOK(tag)
  PROVE  /\ tag \in Tag /\ Start(tag) \in Link /\ Good(Start(tag))
         /\ tag.access \in Node /\ desc[tag.access].kind \in {"scalar", "opaque"}
         /\ <<tag.access, 0>> \in Link /\ Good(<<tag.access, 0>>)
         /\ <<tag.access, 0>> \in Derived[Start(tag)]
<1>1. tag \in Tag /\ desc[tag.access].kind \in {"scalar", "opaque"} /\ <<tag.access, 0>> \in Subobjects[Start(tag)]
  BY DEF TagOK, Tags, WellFormed
<1>2. Start(tag) \in Link /\ tag.access \in Node
  BY <1>1 DEF Tag, Start, Link
<1>3. <<tag.access, 0>> \in Link
  BY <1>2, WorldAssumption DEF Link
<1>4. desc[Start(tag)[1]].kind = "scalar" => Start(tag)[2] = 0
  <2>1. SUFFICES ASSUME desc[Start(tag)[1]].kind = "scalar" PROVE Start(tag)[2] = 0
    OBVIOUS
  <2>2. PartFields(Start(tag)) = {}
    BY <2>1 DEF PartFields
  <2>3. Subobjects[Start(tag)] = {Start(tag)}
    BY <1>2, <2>2, SubobjectsUnfold
  <2> QED BY <1>1, <2>3
<1>5. Good(Start(tag))
  BY <1>1, <1>2, <1>4 DEF Good, Accessible
<1>6. Good(<<tag.access, 0>>)
  BY <1>1, <1>3 DEF Good
<1> QED BY <1>1, <1>2, <1>3, <1>5, <1>6, SubobjectsDerived

\* Its root is that of its chain; there is none for an access of unknown format.
LEMMA TagRoots ==
  ASSUME desc \in Worlds, NEW tag, TagOK(tag)
  PROVE  /\ getTBAARootFromTag(tag) = NoNode <=> desc[tag.access].kind = "opaque"
         /\ getTBAARootFromTag(tag) # NoNode => RootsOf(Start(tag)) = {<<getTBAARootFromTag(tag), 0>>}
<1>1. /\ Start(tag) \in Link /\ Good(Start(tag)) /\ tag.access \in Node
      /\ desc[tag.access].kind \in {"scalar", "opaque"} /\ <<tag.access, 0>> \in Derived[Start(tag)]
  BY TagFacts
<1>2. RootsOf(<<tag.access, 0>>) = RootsOf(Start(tag))
  BY <1>1, RootsAlike
<1> QED BY <1>1, <1>2, RootsFound, WorldAssumption DEF getTBAARootFromTag

Links(chain) == {chain[k] : k \in DOMAIN chain}

\* The links found so far and what is seen from those yet to be found are all that
\* is seen from the start.
ChainOK(chain, tag) ==
  /\ \A x \in NextLink(chain, tag) : Good(x)
  /\ Seen[Start(tag)] = Links(chain) \cup UNION {Seen[x] : x \in NextLink(chain, tag)}

\* Each link that is found keeps this, and when none is left the chain is complete.
LEMMA ChainStarts ==
  ASSUME desc \in Worlds, NEW tag, TagOK(tag)
  PROVE  ChainOK(<<>>, tag)
<1>1. NextLink(<<>>, tag) = {Start(tag)}
  BY DEF NextLink
<1>2. Links(<<>>) = {}
  BY DEF Links
<1> QED BY <1>1, <1>2, TagFacts DEF ChainOK

LEMMA ChainGrows ==
  ASSUME desc \in Worlds, NEW tag, NEW chain \in Seq(Link), ChainOK(chain, tag), NEW x \in NextLink(chain, tag)
  PROVE  Append(chain, x) \in Seq(Link) /\ ChainOK(Append(chain, x), tag)
<1> DEFINE longer == Append(chain, x)
<1>1. Good(x) /\ x \in Link
  BY DEF ChainOK, Good
<1>2. longer \in Seq(Link) /\ longer # <<>> /\ longer[Len(longer)] = x
  BY <1>1
<1>3. Links(longer) = Links(chain) \cup {x}
  <2>1. DOMAIN longer = 1..(Len(chain) + 1) /\ DOMAIN chain = 1..Len(chain) /\ Len(chain) \in Nat
    BY <1>1
  <2>2. \A k \in DOMAIN chain : longer[k] = chain[k]
    BY <1>1
  <2>3. longer[Len(chain) + 1] = x
    BY <1>1
  <2> HIDE DEF longer
  <2>4. DOMAIN longer = DOMAIN chain \cup {Len(chain) + 1}
    BY <2>1
  <2> QED BY <2>2, <2>3, <2>4 DEF Links
<1>4. NextLink(longer, tag) = immediateParent(x[1], x[2])
  <2> HIDE DEF longer
  <2> QED BY <1>2 DEF NextLink
<1>5. NextLink(chain, tag) = {x}
  BY DEF NextLink, immediateParent
<1>6. /\ \A y \in immediateParent(x[1], x[2]) : Good(y)
      /\ Seen[x] = {x} \cup UNION {Seen[y] : y \in immediateParent(x[1], x[2])}
  BY <1>1, SeenStep
<1> HIDE DEF longer
<1>7. Seen[Start(tag)] = Links(chain) \cup Seen[x]
  BY <1>5 DEF ChainOK
<1>8. ChainOK(longer, tag)
  BY <1>3, <1>4, <1>6, <1>7 DEF ChainOK
<1> QED BY <1>2, <1>8 DEF longer

LEMMA ChainEnds ==
  ASSUME NEW tag, NEW chain, ChainOK(chain, tag), NextLink(chain, tag) = {}, NEW x
  PROVE  In(x, chain) <=> x \in Seen[Start(tag)]
BY DEF ChainOK, Links, In

-----------------------------------------------------------------------------
(* The answers. *)

\* What MatchesRule says of a pair of tags.
RuleHolds(x, y) ==
  \/ "opaque" \in {desc[x.access].kind, desc[y.access].kind} /\ (x.base = y.base => x.offset = y.offset)
  \/ Start(x) \in Seen[Start(y)] \/ Start(y) \in Seen[Start(x)]

\* One lemma for each early answer, and one for the search of the chains.
LEMMA SameTag ==
  ASSUME desc \in Worlds, NEW x, TagOK(x)
  PROVE  RuleHolds(x, x)
BY TagFacts, SeenUnfolds DEF RuleHolds

LEMMA OtherOffset ==
  ASSUME desc \in Worlds, NEW x, NEW y, TagOK(x), TagOK(y), x.base = y.base, x.offset # y.offset
  PROVE  ~RuleHolds(x, y)
<1>1. Start(x) \in Link /\ Start(y) \in Link /\ Start(x)[1] = Start(y)[1] /\ Start(x) # Start(y)
  BY TagFacts DEF Start
<1> QED BY <1>1, SeenDerived, DerivedOnce DEF RuleHolds

LEMMA OtherRoot ==
  ASSUME desc \in Worlds, NEW x, NEW y, TagOK(x), TagOK(y),
         NoNode \notin {getTBAARootFromTag(x), getTBAARootFromTag(y)},
         getTBAARootFromTag(x) # getTBAARootFromTag(y)
  PROVE  ~RuleHolds(x, y)
<1>1. RootsOf(Start(x)) # RootsOf(Start(y))
  <2>1. /\ RootsOf(Start(x)) = {<<getTBAARootFromTag(x), 0>>}
        /\ RootsOf(Start(y)) = {<<getTBAARootFromTag(y), 0>>}
    BY TagRoots
  <2>2. <<getTBAARootFromTag(x), 0>> # <<getTBAARootFromTag(y), 0>>
    OBVIOUS
  <2> QED BY <2>1, <2>2
<1>2. Start(x) \in Link /\ Start(y) \in Link /\ Good(Start(x)) /\ Good(Start(y))
  BY TagFacts
<1>3. "opaque" \notin {desc[x.access].kind, desc[y.access].kind}
  BY TagRoots
<1>4. Seen[Start(x)] \subseteq Derived[Start(x)] /\ Seen[Start(y)] \subseteq Derived[Start(y)]
  BY <1>2, SeenDerived
<1> QED BY <1>1, <1>2, <1>3, <1>4, RootsAlike DEF RuleHolds

LEMMA NoRoot ==
  ASSUME desc \in Worlds, NEW x, NEW y, TagOK(x), TagOK(y), x.base = y.base => x.offset = y.offset,
         NoNode \in {getTBAARootFromTag(x), getTBAARootFromTag(y)}
  PROVE  RuleHolds(x, y)
BY TagRoots DEF RuleHolds

LEMMA Searched ==
  ASSUME desc \in Worlds, NEW x, NEW y, TagOK(x), TagOK(y), NEW chainX, NEW chainY,
         NoNode \notin {getTBAARootFromTag(x), getTBAARootFromTag(y)},
         ChainOK(chainX, x), ChainOK(chainY, y), NextLink(chainX, x) = {}, NextLink(chainY, y) = {}
  PROVE  RuleHolds(x, y) <=> In(Start(x), chainY) \/ In(Start(y), chainX)
<1>1. "opaque" \notin {desc[x.access].kind, desc[y.access].kind}
  BY TagRoots
<1>2. /\ In(Start(x), chainY) <=> Start(x) \in Seen[Start(y)]
      /\ In(Start(y), chainX) <=> Start(y) \in Seen[Start(x)]
  BY ChainEnds
<1> QED BY <1>1, <1>2 DEF RuleHolds

-----------------------------------------------------------------------------
(* The inductive invariant. *)

\* What the early answers leave.
ComparedBases == A # B /\ (A.base # B.base \/ A.offset = B.offset)
ComparedRoots ==
  NoNode \notin {getTBAARootFromTag(A), getTBAARootFromTag(B)} /\ getTBAARootFromTag(A) = getTBAARootFromTag(B)

\* What has been done at each stage.
StageOK ==
  /\ pc \in {"start", "roots"} => ChainA = <<>>
  /\ pc \in {"start", "roots", "chainA"} => ChainB = <<>>
  /\ pc \in {"roots", "chainA", "chainB", "search"} => ComparedBases
  /\ pc \in {"chainA", "chainB", "search"} => ComparedRoots
  /\ pc \in {"chainB", "search"} => NextLink(ChainA, A) = {}
  /\ pc = "search" => NextLink(ChainB, B) = {}

\* The invariant.
Inv ==
  /\ TypeOK /\ TagOK(A) /\ TagOK(B) /\ StageOK
  /\ ChainOK(ChainA, A) /\ ChainOK(ChainB, B)
  /\ MatchesRule

\* MatchesRule in terms of RuleHolds.
LEMMA RuleIs ==
  MatchesRule <=> (pc = "done" => answer = RuleHolds(A, B))
BY Zenon DEF MatchesRule, RuleHolds, Rootless

\* The descriptors do not change, nor what is said of them alone.
LEMMA DescFixed ==
  ASSUME desc' = desc
  PROVE  /\ Derived' = Derived /\ Seen' = Seen /\ Subobjects' = Subobjects /\ root' = root
         /\ \A n, o : immediateParent(n, o)' = immediateParent(n, o)
         /\ \A x : Good(x)' <=> Good(x)
<1>1. Derived' = Derived
  BY DEF Derived, Link, Covers, Inner, Fields, FieldType, FieldOffset
<1>2. Subobjects' = Subobjects
  BY DEF Subobjects, Link, Covers, Inner, Fields, FieldType, FieldOffset
<1>3. root' = root
  BY DEF root, isRootNode, isScalarDesc, Fields, FieldType
<1>4. ASSUME NEW n, NEW o PROVE immediateParent(n, o)' = immediateParent(n, o)
  <2>1. FieldAt(n, o)' = FieldAt(n, o)
    BY DEF FieldAt, Fields, FieldOffset
  <2>2. isScalarDesc(n)' = isScalarDesc(n) /\ isStructDesc(n)' = isStructDesc(n)
    BY DEF isScalarDesc, isStructDesc, Fields
  <2>3. \A k : FieldOffset(n, k)' = FieldOffset(n, k) /\ FieldType(n, k)' = FieldType(n, k)
    BY DEF FieldOffset, FieldType, Fields
  <2> QED BY <2>1, <2>2, <2>3 DEF immediateParent
<1>5. ASSUME NEW x PROVE Good(x)' <=> Good(x)
  BY <1>2 DEF Good, Accessible, Link
<1>6. Seen' = Seen
  BY DEF Seen, TakenForScalar, Link, Covers, Inner, Fields, FieldType, FieldOffset
<1> QED BY <1>1, <1>2, <1>3, <1>4, <1>5, <1>6

\* Nor do the tags, nor what a chain has reached.
LEMMA TagKept ==
  ASSUME desc' = desc, NEW tag
  PROVE  /\ TagOK(tag)' <=> TagOK(tag)
         /\ getTBAARootFromTag(tag)' = getTBAARootFromTag(tag)
<1>1. Subobjects' = Subobjects /\ root' = root
  BY DescFixed
<1>2. getTBAARootFromTag(tag)' = getTBAARootFromTag(tag)
  BY <1>1 DEF getTBAARootFromTag
<1>3. TagOK(tag)' <=> TagOK(tag)
  BY <1>1 DEF TagOK, Tags, Tag, WellFormed, Start
<1> QED BY <1>2, <1>3

LEMMA ChainKept ==
  ASSUME desc' = desc, NEW tag, NEW chain
  PROVE  /\ NextLink(chain, tag)' = NextLink(chain, tag)
         /\ ChainOK(chain, tag)' <=> ChainOK(chain, tag)
<1>1. NextLink(chain, tag)' = NextLink(chain, tag)
  BY DescFixed DEF NextLink, Start
<1>2. ChainOK(chain, tag)' <=> ChainOK(chain, tag)
  BY <1>1, DescFixed DEF ChainOK, Links, Start
<1> QED BY <1>1, <1>2

LEMMA RuleKept ==
  ASSUME desc' = desc, NEW x, NEW y
  PROVE  RuleHolds(x, y)' = RuleHolds(x, y)
BY DescFixed DEF RuleHolds, Start

\* The start of the procedure, and each of its steps.
LEMMA InvInit == Init => Inv
<1> SUFFICES ASSUME Init PROVE Inv
  OBVIOUS
<1>1. desc \in Worlds /\ TagOK(A) /\ TagOK(B)
  BY DEF Init, TagOK
<1>2. TypeOK
  BY <1>1 DEF Init, TypeOK, TagOK, Tags
<1>3. ChainOK(ChainA, A) /\ ChainOK(ChainB, B)
  BY <1>1, ChainStarts DEF Init
<1> QED BY <1>1, <1>2, <1>3 DEF Inv, Init, StageOK, MatchesRule

\* What every step keeps, in terms of values that have no prime.
LEMMA InvKept ==
  ASSUME Inv, desc' = desc, NEW a, a = A, A' = a, NEW b, b = B, B' = b,
         NEW c, ChainA' = c, c \in Seq(Link), ChainOK(c, a),
         NEW d, ChainB' = d, d \in Seq(Link), ChainOK(d, b),
         pc' \in {"start", "roots", "chainA", "chainB", "search", "done"}, answer' \in BOOLEAN,
         pc' = "done" => answer' = RuleHolds(a, b)
  PROVE  /\ TypeOK' /\ TagOK(A)' /\ TagOK(B)'
         /\ ChainOK(ChainA, A)' /\ ChainOK(ChainB, B)'
         /\ MatchesRule'
<1>1. TypeOK'
  BY DEF Inv, TypeOK
<1>2. TagOK(a)' /\ TagOK(b)'
  BY TagKept DEF Inv
<1>3. TagOK(A)' /\ TagOK(B)'
  BY <1>2 DEF TagOK, Tags, Tag, WellFormed, Start
<1>4. ChainOK(c, a)' /\ ChainOK(d, b)'
  BY ChainKept
<1>5. ChainOK(ChainA, A)' /\ ChainOK(ChainB, B)'
  BY <1>4 DEF ChainOK, Links, NextLink, Start
<1>6. (pc = "done" => answer = RuleHolds(a, b))'
  BY RuleKept
<1>7. MatchesRule'
  BY <1>6 DEF MatchesRule, RuleHolds, Rootless, Start
<1> QED BY <1>1, <1>3, <1>5, <1>7

LEMMA InvStep == Inv /\ [Next]_vars => Inv'
<1> SUFFICES ASSUME Inv, [Next]_vars PROVE Inv'
  OBVIOUS
<1>0. /\ desc \in Worlds /\ TagOK(A) /\ TagOK(B) /\ ChainOK(ChainA, A) /\ ChainOK(ChainB, B)
      /\ ChainA \in Seq(Link) /\ ChainB \in Seq(Link) /\ answer \in BOOLEAN
      /\ pc \in {"start", "roots", "chainA", "chainB", "search", "done"}
      /\ pc = "done" => answer = RuleHolds(A, B)
  BY RuleIs DEF Inv, TypeOK
<1>1. desc' = desc /\ A' = A /\ B' = B
  BY DEF Next, vars, CompareBases, CompareRoots, BuildChainA, BuildChainB, Search, Answer, GoOn
<1> PICK a : a = A
  OBVIOUS
<1> PICK b : b = B
  OBVIOUS
<1> PICK c : c = ChainA'
  OBVIOUS
<1> PICK d : d = ChainB'
  OBVIOUS
<1> DEFINE Kept == /\ TypeOK' /\ TagOK(A)' /\ TagOK(B)'
                   /\ ChainOK(ChainA, A)' /\ ChainOK(ChainB, B)'
                   /\ MatchesRule'
<1>2. ASSUME UNCHANGED <<ChainA, ChainB>>, answer' \in BOOLEAN,
             pc' \in {"start", "roots", "chainA", "chainB", "search", "done"},
             pc' = "done" => answer' = RuleHolds(a, b)
      PROVE  Kept
  <2>1. c \in Seq(Link) /\ ChainOK(c, a) /\ d \in Seq(Link) /\ ChainOK(d, b)
    BY <1>0, <1>2
  <2> QED BY <1>1, <1>2, <2>1, InvKept
\* What the stages keep when the chains do not change.
<1>3. ASSUME UNCHANGED <<ChainA, ChainB>>
      PROVE  /\ NextLink(ChainA, A)' = NextLink(ChainA, A) /\ NextLink(ChainB, B)' = NextLink(ChainB, B)
             /\ ComparedBases' = ComparedBases /\ ComparedRoots' = ComparedRoots
  <2>1. /\ NextLink(c, a)' = NextLink(c, a) /\ NextLink(d, b)' = NextLink(d, b)
        /\ getTBAARootFromTag(a)' = getTBAARootFromTag(a) /\ getTBAARootFromTag(b)' = getTBAARootFromTag(b)
    BY <1>1, ChainKept, TagKept
  <2>2. NextLink(ChainA, A)' = NextLink(ChainA, A) /\ NextLink(ChainB, B)' = NextLink(ChainB, B)
    BY <1>1, <1>3, <2>1 DEF NextLink, Start
  <2>3. ComparedRoots' = ComparedRoots
    BY <1>1, <2>1 DEF ComparedRoots, getTBAARootFromTag
  <2> QED BY <1>1, <2>2, <2>3 DEF ComparedBases
<1>4. CASE CompareBases
  <2>1. pc = "start" /\ UNCHANGED <<ChainA, ChainB>> /\ ChainA = <<>> /\ ChainB = <<>>
    BY <1>4 DEF CompareBases, Answer, GoOn, Inv, StageOK
  <2>2. CASE A = B /\ Answer(TRUE)
    <3>1. Kept
      BY <1>0, <1>2, <2>1, <2>2, SameTag DEF Answer, RuleHolds
    <3> QED BY <2>1, <2>2, <3>1 DEF Inv, StageOK, Answer
  <2>3. CASE A # B /\ A.base = B.base /\ A.offset # B.offset /\ Answer(FALSE)
    <3>1. Kept
      BY <1>0, <1>2, <2>1, <2>3, OtherOffset DEF Answer, RuleHolds
    <3> QED BY <2>1, <2>3, <3>1 DEF Inv, StageOK, Answer
  <2>4. CASE A # B /\ (A.base # B.base \/ A.offset = B.offset) /\ GoOn("roots")
    <3>1. Kept
      BY <1>0, <1>2, <2>1, <2>4 DEF GoOn
    <3> QED BY <1>1, <2>1, <2>4, <3>1 DEF Inv, StageOK, GoOn, ComparedBases
  <2> QED BY <1>4, <2>2, <2>3, <2>4 DEF CompareBases
<1>5. CASE CompareRoots
  <2>1. pc = "roots" /\ UNCHANGED <<ChainA, ChainB>> /\ ChainA = <<>> /\ ChainB = <<>> /\ ComparedBases
    BY <1>5 DEF CompareRoots, Answer, GoOn, Inv, StageOK
  <2>2. CASE /\ NoNode \notin {getTBAARootFromTag(A), getTBAARootFromTag(B)}
             /\ getTBAARootFromTag(A) # getTBAARootFromTag(B) /\ Answer(FALSE)
    <3>1. Kept
      BY <1>0, <1>2, <2>1, <2>2, OtherRoot DEF Answer, RuleHolds
    <3> QED BY <2>1, <2>2, <3>1 DEF Inv, StageOK, Answer
  <2>3. CASE NoNode \in {getTBAARootFromTag(A), getTBAARootFromTag(B)} /\ Answer(TRUE)
    <3>1. Kept
      BY <1>0, <1>2, <2>1, <2>3, NoRoot DEF Answer, RuleHolds, ComparedBases
    <3> QED BY <2>1, <2>3, <3>1 DEF Inv, StageOK, Answer
  <2>4. CASE ComparedRoots /\ GoOn("chainA")
    <3>1. Kept
      BY <1>0, <1>2, <2>1, <2>4 DEF GoOn
    <3> QED BY <1>3, <2>1, <2>4, <3>1 DEF Inv, StageOK, GoOn
  <2> QED BY <1>5, <2>2, <2>3, <2>4 DEF CompareRoots, ComparedRoots
<1>6. CASE BuildChainA
  <2>1. pc = "chainA" /\ ChainB' = ChainB /\ ChainB = <<>> /\ ComparedBases /\ ComparedRoots
    BY <1>6 DEF BuildChainA, GoOn, Inv, StageOK
  <2>2. CASE NextLink(ChainA, A) = {} /\ GoOn("chainB")
    <3>1. Kept /\ ChainA' = ChainA
      BY <1>0, <1>2, <2>1, <2>2 DEF GoOn
    <3> QED BY <1>3, <2>1, <2>2, <3>1 DEF Inv, StageOK, GoOn
  <2>3. CASE \E link \in NextLink(ChainA, A) : ChainA' = Append(ChainA, link) /\ UNCHANGED <<pc, answer>>
    <3>1. c \in Seq(Link) /\ ChainOK(c, a)
      BY <1>0, <2>3, ChainGrows
    <3>2. Kept
      BY <1>0, <1>1, <2>1, <2>3, <3>1, InvKept
    <3>3. ComparedBases' /\ ComparedRoots'
      <4>1. getTBAARootFromTag(a)' = getTBAARootFromTag(a) /\ getTBAARootFromTag(b)' = getTBAARootFromTag(b)
        BY <1>1, TagKept
      <4> QED BY <1>1, <2>1, <4>1 DEF ComparedBases, ComparedRoots, getTBAARootFromTag
    <3> QED BY <2>1, <2>3, <3>2, <3>3 DEF Inv, StageOK
  <2> QED BY <1>6, <2>2, <2>3 DEF BuildChainA
<1>7. CASE BuildChainB
  <2>1. pc = "chainB" /\ ChainA' = ChainA /\ ComparedBases /\ ComparedRoots /\ NextLink(ChainA, A) = {}
    BY <1>7 DEF BuildChainB, GoOn, Inv, StageOK
  <2>2. CASE NextLink(ChainB, B) = {} /\ GoOn("search")
    <3>1. Kept /\ ChainB' = ChainB
      BY <1>0, <1>2, <2>1, <2>2 DEF GoOn
    <3> QED BY <1>3, <2>1, <2>2, <3>1 DEF Inv, StageOK, GoOn
  <2>3. CASE \E link \in NextLink(ChainB, B) : ChainB' = Append(ChainB, link) /\ UNCHANGED <<pc, answer>>
    <3>1. d \in Seq(Link) /\ ChainOK(d, b)
      BY <1>0, <2>3, ChainGrows
    <3>2. Kept
      BY <1>0, <1>1, <2>1, <2>3, <3>1, InvKept
    <3>3. ComparedBases' /\ ComparedRoots'
      <4>1. getTBAARootFromTag(a)' = getTBAARootFromTag(a) /\ getTBAARootFromTag(b)' = getTBAARootFromTag(b)
        BY <1>1, TagKept
      <4> QED BY <1>1, <2>1, <4>1 DEF ComparedBases, ComparedRoots, getTBAARootFromTag
    <3>4. NextLink(ChainA, A)' = {}
      <4>1. NextLink(c, a)' = NextLink(c, a)
        BY <1>1, ChainKept
      <4> QED BY <1>1, <2>1, <4>1 DEF NextLink, Start
    <3> QED BY <2>1, <2>3, <3>2, <3>3, <3>4 DEF Inv, StageOK
  <2> QED BY <1>7, <2>2, <2>3 DEF BuildChainB
<1>8. CASE Search
  <2>1. pc = "search" /\ UNCHANGED <<ChainA, ChainB>> /\ ComparedRoots /\ NextLink(ChainA, A) = {} /\ NextLink(ChainB, B) = {}
    BY <1>8 DEF Search, Answer, Inv, StageOK
  <2>2. RuleHolds(A, B) <=> In(Start(A), ChainB) \/ In(Start(B), ChainA)
    BY <1>0, <2>1, Searched DEF ComparedRoots
  <2>3. answer' = (In(Start(A), ChainB) \/ In(Start(B), ChainA)) /\ pc' = "done"
    BY <1>8 DEF Search, Answer
  <2>4. answer' \in BOOLEAN /\ answer' = RuleHolds(a, b)
    BY <2>2, <2>3, Zenon DEF RuleHolds, In
  <2>5. Kept
    BY <1>2, <2>1, <2>3, <2>4
  <2> QED BY <2>1, <2>3, <2>5 DEF Inv, StageOK
<1>9. CASE UNCHANGED vars
  <2>1. Kept /\ UNCHANGED <<ChainA, ChainB, pc>>
    BY <1>0, <1>2, <1>9 DEF vars
  <2> QED BY <1>3, <2>1 DEF Inv, StageOK
<1> QED BY <1>4, <1>5, <1>6, <1>7, <1>8, <1>9 DEF Next

\* The invariant holds of every run of the procedure.
THEOREM TagsInvariant == Spec => []Inv
BY InvInit, InvStep, PTL DEF Spec

\* The answer, the chains and the stage have their types.
THEOREM TypeCorrect == Spec => []TypeOK
<1>1. Inv => TypeOK
  BY DEF Inv
<1> QED BY <1>1, TagsInvariant, PTL

\* mayAliasByTBAA answers the struct-path rule, whatever the descriptors, as far as
\* it does not take a struct of one field for a scalar and end a chain there.
THEOREM AnswerAlwaysMatches == Spec => []MatchesRule
<1>1. Inv => MatchesRule
  BY DEF Inv
<1> QED BY <1>1, TagsInvariant, PTL

-----------------------------------------------------------------------------
(* Overlaps within a module. *)

\* Where nothing is taken for a scalar, the rule holds of accesses that overlap.
LEMMA OverlapSeen ==
  ASSUME desc \in Worlds, NEW x, NEW y, TagOK(x), TagOK(y),
         \A z \in Derived[Start(y)] : ~TakenForScalar(z), Overlap(x, y)
  PROVE  RuleHolds(x, y)
<1>1. /\ x \in Tag /\ y \in Tag /\ Start(x) \in Link /\ Start(y) \in Link
      /\ <<y.access, 0>> \in Derived[Start(y)]
      /\ x.access \in Node /\ desc[x.access].kind \in {"scalar", "opaque"}
  BY TagFacts
<1>2. Seen[Start(y)] = Derived[Start(y)]
  BY <1>1, SeenAll
<1>3. CASE Start(x) \in Subobjects[Start(y)]
  BY <1>1, <1>2, <1>3, SubobjectsDerived DEF RuleHolds
<1>4. CASE Start(x) \in Derived[<<y.access, 0>>]
  BY <1>1, <1>2, <1>4, DerivedTransitive DEF RuleHolds
<1>5. CASE x.base = x.access /\ desc[y.access].kind = "opaque"
  <2>1. ASSUME NEW tag, TagOK(tag), tag.base = x.access PROVE tag.offset = 0
    <3>1. Start(tag) \in Link /\ <<tag.access, 0>> \in Subobjects[Start(tag)] /\ Start(tag) = <<x.access, tag.offset>>
      BY <2>1, TagFacts DEF TagOK, WellFormed, Start
    <3>2. PartFields(Start(tag)) = {}
      BY <1>1, <3>1 DEF PartFields
    <3>3. Subobjects[Start(tag)] = {Start(tag)}
      BY <3>1, <3>2, SubobjectsUnfold
    <3> QED BY <3>1, <3>3
  <2>2. x.base = y.base => x.offset = y.offset
    BY <1>5, <2>1
  <2> QED BY <1>5, <2>2 DEF RuleHolds
<1> QED BY <1>3, <1>4, <1>5 DEF Overlap, PartOf, DerivesFrom

\* No two accesses of one module that may be to the same byte are found disjoint,
\* unless a struct of one field is taken for a scalar on the way.
THEOREM OverlapAlwaysFound == Spec => []OverlapFound
<1>1. Inv => OverlapFound
  <2> SUFFICES ASSUME Inv, pc = "done", RightlyTaken, Overlap(A, B) \/ Overlap(B, A) PROVE answer
    BY DEF OverlapFound
  <2>1. desc \in Worlds /\ TagOK(A) /\ TagOK(B) /\ answer = RuleHolds(A, B)
    BY RuleIs DEF Inv, TypeOK
  <2>2. CASE Overlap(A, B)
    BY <2>1, <2>2, OverlapSeen DEF RightlyTaken
  <2>3. CASE Overlap(B, A)
    <3>1. RuleHolds(B, A)
      BY <2>1, <2>3, OverlapSeen DEF RightlyTaken
    <3> QED BY <2>1, <3>1 DEF RuleHolds
  <2> QED BY <2>2, <2>3
<1> QED BY <1>1, TagsInvariant, PTL
=============================================================================
