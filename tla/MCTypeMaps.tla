----------------------------- MODULE MCTypeMaps -----------------------------
EXTENDS Traces, TLC

\* Rows <<kind, operands or cells or bound values>>.  gA, gB and gU point to the fields
\* cb of structs A and B and of a union, gT into an array; those of module m2 end in 2.
Table == [
  foo |-> <<"function", {"foo"}>>, bar |-> <<"function", {"bar"}>>, baz |-> <<"function", {"baz"}>>,
  bazDecl |-> <<"function", {"baz"}>>, odd |-> <<"function", {"odd"}>>, null |-> <<"data", <<>>>>, one |-> <<"data", <<>>>>,
  gA |-> <<"gep", "A.cb">>, gB |-> <<"gep", "B.cb">>, gU |-> <<"gep", "U.cb">>, gT |-> <<"gep", "table">>,
  lA |-> <<"load", <<"gA">>>>, lB |-> <<"load", <<"gB">>>>, lT |-> <<"load", <<"gT">>>>,
  x |-> <<"argument", "use">>, px |-> <<"argument", "put">>, q |-> <<"argument", "set">>, z |-> <<"argument", "foo">>, w |-> <<"argument", "old">>,
  i2 |-> <<"call", <<>>>>, d6 |-> <<"call", <<>>>>, d9 |-> <<"call", <<>>>>,
  slot |-> <<"alloca", "slot">>, ls |-> <<"load", <<"slot">>>>,
  hook |-> <<"global", "hook">>, lh |-> <<"load", <<"hook">>>>,
  pAB |-> <<"phi", <<"gA", "gB">>>>, pAx |-> <<"phi", <<"gA", "px">>>>, sel |-> <<"select", <<"lA", "ls">>>>,
  cast |-> <<"cast", <<"lA">>>>,
  gA2 |-> <<"gep", "A.cb">>, gB2 |-> <<"gep", "B.cb">>, gU2 |-> <<"gep", "U.cb">>,
  lA2 |-> <<"load", <<"gA2">>>>, lB2 |-> <<"load", <<"gB2">>>>, lU2 |-> <<"load", <<"gU2">>>>,
  sAB |-> <<"select", <<"lA2", "lB2">>>>, y |-> <<"argument", "run">>]

Item(m, what, value, at) == [in |-> m, what |-> what, value |-> value, at |-> at]
Store(value, at) == Item("m1", "store", value, at)

\* Stores of functions, of what was loaded, of an argument, and initialized fields.
Stores == {
  Store("bar", "gB"), Store("lA", "gB"), Store("lB", "gA"), Store("x", "pAB"),
  Store("x", "slot"), Store("bazDecl", "slot"), Store("ls", "gB"), Store("foo", "pAB"),
  Store("bazDecl", "gU"), Store("sel", "gU"), Store("bar", "pAx"), Store("lT", "gB"), Store("w", "gB"),
  Item("m2", "field", "bar", "A.cb"), Item("m2", "field", "foo", "table"),
  Store("z", "gB"), Store("i2", "gA"), Store("d6", "gB"), Store("foo", "q")}

\* Of data, of a function of another type, of what an unknown function returns, of what a
\* skipped initializer gives, and through pointers that no walk follows.
Others == {
  Store("null", "gA"), Store("odd", "gA"), Store("d9", "gB"),
  Item("m1", "scalar", "foo", "hook"), Store("lh", "gB"),
  Store("lA", "px"), Store("gA", "gB"), Store("bar", "lB2")}

\* Up to three of the first, or two of all.
SmallPrograms == {{a, b, c} : a \in Stores, b \in Stores, c \in Stores}
                   \cup {{a, b} : a \in Stores \cup Others, b \in Stores \cup Others} \cup {{}}

Values == DOMAIN Table
OfKind(kinds) == {v \in DOMAIN Table : Table[v][1] \in kinds}
KindOf == [v \in Values |-> Table[v][1]]
OperandsOf == [v \in Values |-> IF v = "slot" THEN <<"one">>
                               ELSE IF Table[v][1] \in {"load", "cast", "phi", "select"} THEN Table[v][2] ELSE <<>>]
CellOf == [v \in OfKind({"gep", "alloca", "global"}) |-> Table[v][2]]
Functions == OfKind({"function"})
DefsOf == [f \in Functions |-> Table[f][2]]
ParentOf == [v \in OfKind({"argument"}) |-> Table[v][2]]
IndexOf == [v \in OfKind({"argument"}) |-> 1]
Direct == ("d1" :> {"use"}) @@ ("d2" :> {"put"}) @@ ("d3" :> {"run"}) @@ ("d4" :> {"run"}) @@ ("d5" :> {"set"})
          @@ ("d6" :> {"get"}) @@ ("d7" :> {"old"}) @@ ("d8" :> {"old"}) @@ ("d9" :> {})
Passing == ("d1" :> "bazDecl") @@ ("d2" :> "gB") @@ ("d3" :> "foo") @@ ("d4" :> "odd") @@ ("d5" :> "slot") @@ ("d7" :> "bazDecl") @@ ("i1" :> "bazDecl")
\* Call d8 passes old fewer arguments than it has; no module defines what d9 names.
Arguments == [c \in ICall \cup DOMAIN Direct |-> IF c \in DOMAIN Passing THEN <<Passing[c]>> ELSE IF c = "d8" THEN <<>> ELSE <<"null">>]
ReturnedBy == ("foo" :> {"z"}) @@ ("bar" :> {"foo"}) @@ ("get" :> {"bar"})
Operand == ("i1" :> "lA2") @@ ("i2" :> "lB2") @@ ("i3" :> "lU2") @@ ("i4" :> "sAB") @@ ("i5" :> "y")
           @@ ("i6" :> "ls") @@ ("i7" :> "y")
Called == [c \in ICall |-> Operand[c]]
SigOf == [x \in Functions \cup ICall |-> IF x = "odd" THEN "int" ELSE IF x = "i7" THEN "long" ELSE "void"]
InOf == [x \in Functions \cup ICall |-> IF x \in {"foo", "bar", "bazDecl", "odd", "i6"} THEN "m1" ELSE "m2"]
=============================================================================
