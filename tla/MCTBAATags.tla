----------------------------- MODULE MCTBAATags -----------------------------
EXTENDS TBAATags, FiniteSets, TLC

CONSTANTS r1, c1, i1, p1, s1, t1, u1, o1, r2, c2, i2, s2

Root == [name |-> "root", kind |-> "root", fields |-> <<>>, size |-> 0]
Scalar(name, parent) == [name |-> name, kind |-> "scalar", fields |-> <<<<parent, 0>>>>, size |-> 1]
Opaque == [name |-> "long", kind |-> "opaque", fields |-> <<>>, size |-> 1]

\* The fields follow each other.
RECURSIVE Lay(_, _, _)
Lay(types, D, o) ==
  IF types = <<>> THEN <<>>
  ELSE <<<<Head(types), o>>>> \o Lay(Tail(types), D, o + D[Head(types)].size)
Struct(name, types, D) ==
  LET fields == Lay(types, D, 0)
      last   == fields[Len(fields)]
  IN  [name |-> name, kind |-> "struct", fields |-> fields, size |-> last[2] + D[last[1]].size]

Module1 == (r1 :> Root) @@ (c1 :> Scalar("char", r1)) @@ (i1 :> Scalar("int", c1))
             @@ (p1 :> Scalar("ptr", c1)) @@ (o1 :> Opaque)
Module2 == (r2 :> Root) @@ (c2 :> Scalar("char", r2)) @@ (i2 :> Scalar("int", c2))

\* A struct S, a struct T that may have fields of it, a struct U of an int and T.
World(inner, outer) ==
  LET WithS == Module1 @@ (s1 :> Struct("S", inner, Module1))
      WithT == WithS @@ (t1 :> Struct("T", outer, WithS))
  IN  WithT @@ (u1 :> Struct("U", <<i1, t1>>, WithT)) @@ Module2

\* T has one to three fields, S one or two.
FieldsOf(S) == {<<x>> : x \in S} \cup ((S \cup {o1}) \X S) \cup ({s1} \X S \X S)
LargeStructs == {World(x, y) : x \in {<<i1>>, <<i1, i1>>, <<i1, p1>>}, y \in FieldsOf({i1, p1, s1})}

\* The same struct compiled in two modules.
TwoModules == {Module1 @@ Module2 @@ (s1 :> Struct("S", <<i1, i1>>, Module1))
                                  @@ (s2 :> Struct("S", <<i2, i2>>, Module2))}
=============================================================================
