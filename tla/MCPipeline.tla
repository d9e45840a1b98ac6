----------------------------- MODULE MCPipeline -----------------------------
EXTENDS Pipeline, TLC

\* m1 defines foo, and m2 declares it and takes its address; both include a header with
\* the inline function h, and so does m3; bar is defined in m2 and called from m1.  m1 and
\* m2 have a static function set of their own.
Row(m, n, ty, pl, src) == [module |-> m, name |-> n, type |-> ty, place |-> pl, source |-> src]
Table ==
  ("foo1" :> Row("m1", "foo", "void", "", "foo")) @@ ("foo2" :> Row("m2", "foo", "void", "", "foo"))
    @@ ("h1" :> Row("m1", "h", "void", "h.h:3", "h")) @@ ("h2" :> Row("m2", "h", "void", "h.h:3", "h"))
    @@ ("bar1" :> Row("m1", "bar", "int", "", "bar")) @@ ("bar2" :> Row("m2", "bar", "int", "b.c:1", "bar"))
    @@ ("h3" :> Row("m3", "h", "void", "h.h:3", "h")) @@ ("main1" :> Row("m1", "main", "int", "a.c:9", "main"))
    @@ ("set1" :> Row("m1", "set", "void", "a.c:2", "a's set")) @@ ("set2" :> Row("m2", "set", "void", "b.c:2", "b's set"))

Functions == {"foo1", "foo2", "h1", "h2", "bar1", "bar2", "h3", "main1"}
WithStatics == Functions \cup {"set1", "set2"}
Bodies == Function \ {"foo2", "bar1"}
Externals == {"foo1", "foo2", "bar1", "bar2", "main1"}
Taken == {"foo1", "foo2", "h2", "h3"}
ModuleOf == [f \in Function |-> Table[f].module]
NameOf == [f \in Function |-> Table[f].name]
TypeOf == [f \in Function |-> Table[f].type]
PlaceOf == [f \in Function |-> Table[f].place]
SourceOf == [f \in Function |-> Table[f].source]

\* The call in h and one in main have the same targets, the one in bar has none.
Callers == ("h1.i" :> "h1") @@ ("h2.i" :> "h2") @@ ("h3.i" :> "h3") @@ ("main.i" :> "main1")
           @@ ("bar.i" :> "bar2")
           @@ ("main.h" :> "h1") @@ ("main.bar" :> "bar1") @@ ("bar.h" :> "h2") @@ ("bar.foo" :> "foo2")
           @@ ("bar.set" :> "set2") @@ ("main.set" :> "set1")
Indirect == {"h1.i", "h2.i", "h3.i", "main.i", "bar.i"}
CallerOf == [c \in Call |-> IF c \in Indirect THEN Callers[c]
                            ELSE IF c \in {"main.h", "main.bar", "main.set"} THEN "main1" ELSE "bar2"]
CallPlace == [c \in Call |-> IF c \in {"h1.i", "h2.i", "h3.i"} THEN "h.h:41" ELSE c]
CalleeOf == [c \in Call \ Indirect |-> Callers[c]]
CallTypeOf == [c \in Indirect |-> IF c = "bar.i" THEN "int" ELSE "void"]

Calls == Indirect \cup {"main.h", "main.bar", "bar.h", "bar.foo"}
CallsOfStatics == Calls \cup {"bar.set", "main.set"}
Hashes == [n \in {NameOf[f] : f \in Function} |->
             CASE n = "foo" -> 5 [] n = "h" -> 6 [] n = "bar" -> 1 [] OTHER -> 3]
\* The program is one the theorems about the tables are for.
ASSUME PlacesTell /\ NamesLinked /\ SitesTell
=============================================================================
