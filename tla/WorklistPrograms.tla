-------------------------- MODULE WorklistPrograms ---------------------------
(***************************************************************************)
(* Programs as tables of their values.  A row is                           *)
(*   <<kind, function it is in, operands>>, with                           *)
(*   the called operand of a call, or the GUID and the flags of a global,  *)
(* after these; a function has its arguments in place of operands.         *)
(***************************************************************************)
EXTENDS TLC

CONSTANTS Code, Resolved, ResolvedBefore

\* O0: arguments and results pass through allocations.
StackCode == [
  slot |-> <<"alloca", "main", <<>>>>, s1 |-> <<"store", "main", <<"foo", "slot">>>>,
  t1 |-> <<"load", "main", <<"slot">>>>, r1 |-> <<"call", "main", <<"t1">>, "wrap">>,
  i1 |-> <<"call", "main", <<"null">>, "r1">>, a_addr |-> <<"alloca", "wrap", <<>>>>,
  s2 |-> <<"store", "wrap", <<"a", "a_addr">>>>, t2 |-> <<"load", "wrap", <<"a_addr">>>>,
  ret |-> <<"return", "wrap", <<"t2">>>>, main |-> <<"function", "none", <<>>>>, wrap |-> <<"function", "none", <<"a">>>>,
  a |-> <<"argument", "wrap", <<>>>>, foo |-> <<"function", "none", <<"x">>>>, x |-> <<"argument", "foo", <<>>>>,
  null |-> <<"data", "none", <<>>>>, boot |-> <<"function", "none", <<>>>>,
  r2 |-> <<"call", "boot", <<"foo">>, "wrap">>]

\* A callback registered in a global that another module declares and calls, and
\* two globals that name each other.
GlobalCode == [
  i13 |-> <<"call", "setup", <<"bar">>, "t14">>, t14 |-> <<"load", "setup", <<"null">>>>,
  r3 |-> <<"call", "setup", <<"bar">>, "reg">>, cb_addr |-> <<"alloca", "reg", <<>>>>,
  s3 |-> <<"store", "reg", <<"cb", "cb_addr">>>>, t3 |-> <<"load", "reg", <<"cb_addr">>>>,
  s4 |-> <<"store", "reg", <<"t3", "hook">>>>, t4 |-> <<"load", "fire", <<"hook2">>>>,
  i2 |-> <<"call", "fire", <<>>, "t4">>, init |-> <<"aggregate", "none", <<"baz", "peer">>>>,
  field |-> <<"operator", "none", <<"ops">>>>, t5 |-> <<"load", "poll", <<"field">>>>,
  i3 |-> <<"call", "poll", <<>>, "t5">>, setup |-> <<"function", "none", <<>>>>, reg |-> <<"function", "none", <<"cb">>>>,
  cb |-> <<"argument", "reg", <<>>>>, fire |-> <<"function", "none", <<>>>>, poll |-> <<"function", "none", <<>>>>, bar |-> <<"function", "none", <<>>>>,
  baz |-> <<"function", "none", <<>>>>, hook |-> <<"global", "none", <<"null">>, "hook", {"external"}>>,
  hook2 |-> <<"global", "none", <<>>, "hook", {"external"}>>, ops |-> <<"global", "none", <<"init">>, "ops", {}>>,
  peer |-> <<"global", "none", <<"ops">>, "peer", {}>>]

\* Memory two callees fill in through pointers to it.
OutCode == [
  out |-> <<"heap", "open", <<>>, "malloc">>, r5 |-> <<"call", "open", <<"out">>, "fill">>,
  p_addr |-> <<"alloca", "fill", <<>>>>, s5 |-> <<"store", "fill", <<"p", "p_addr">>>>,
  t6 |-> <<"load", "fill", <<"p_addr">>>>, gep |-> <<"gep", "fill", <<"t6">>>>,
  r6 |-> <<"call", "fill", <<"gep">>, "put">>, q_addr |-> <<"alloca", "put", <<>>>>,
  s6 |-> <<"store", "put", <<"q", "q_addr">>>>, t7 |-> <<"load", "put", <<"q_addr">>>>,
  s7 |-> <<"store", "put", <<"qux", "t7">>>>, t8 |-> <<"load", "open", <<"out">>>>,
  i4 |-> <<"call", "open", <<>>, "t8">>, open |-> <<"function", "none", <<>>>>, fill |-> <<"function", "none", <<"p">>>>,
  p |-> <<"argument", "fill", <<>>>>, put |-> <<"function", "none", <<"q">>>>, q |-> <<"argument", "put", <<>>>>, malloc |-> <<"function", "none", <<>>>>,
  qux |-> <<"function", "none", <<>>>>]

\* A parameter that is bound to one caller, and asked for all of them.
ForkCode == [
  run |-> <<"function", "none", <<"h">>>>, h |-> <<"argument", "run", <<>>>>, h_addr |-> <<"alloca", "run", <<>>>>,
  s20 |-> <<"store", "run", <<"h", "h_addr">>>>, t20 |-> <<"load", "run", <<"h_addr">>>>,
  i14 |-> <<"call", "run", <<>>, "t20">>, relay |-> <<"function", "none", <<"k">>>>, k |-> <<"argument", "relay", <<>>>>,
  k_addr |-> <<"alloca", "relay", <<>>>>, s21 |-> <<"store", "relay", <<"k", "k_addr">>>>,
  t21 |-> <<"load", "relay", <<"k_addr">>>>, r21 |-> <<"call", "relay", <<"t21">>, "run">>,
  top |-> <<"function", "none", <<>>>>, x22 |-> <<"alloca", "top", <<>>>>, t22 |-> <<"load", "top", <<"x22">>>>,
  r22 |-> <<"call", "top", <<"t22">>, "run">>, r23 |-> <<"call", "top", <<"t22">>, "relay">>,
  top2 |-> <<"function", "none", <<>>>>, late |-> <<"function", "none", <<>>>>, r24 |-> <<"call", "top2", <<"late">>, "relay">>]

\* A function that is looked up by its name.
PluginCode == [
  h15 |-> <<"call", "attach", <<"key">>, "__symbol_get">>, y_addr |-> <<"alloca", "attach", <<>>>>,
  s15 |-> <<"store", "attach", <<"h15", "y_addr">>>>, t15 |-> <<"load", "attach", <<"y_addr">>>>,
  i15 |-> <<"call", "attach", <<>>, "t15">>, attach |-> <<"function", "none", <<>>>>, key |-> <<"data", "none", <<>>>>,
  __symbol_get |-> <<"function", "none", <<>>>>, plug |-> <<"function", "none", <<>>>>]

\* What the worklist gives up at.
OpaqueCode == [
  sum |-> <<"binary", "odd", <<"t9">>>>, u1 |-> <<"load", "odd", <<"t9">>>>,
  t9 |-> <<"alloca", "odd", <<>>>>, s9 |-> <<"store", "odd", <<"sum", "t9">>>>,
  i5 |-> <<"call", "odd", <<>>, "u1">>, t10 |-> <<"alloca", "raw", <<>>>>,
  as |-> <<"asm", "raw", <<"t10">>, "code">>, i6 |-> <<"call", "raw", <<>>, "t10">>,
  as2 |-> <<"asm", "raw2", <<>>, "code2">>, i7 |-> <<"call", "raw2", <<>>, "as2">>,
  st |-> <<"strip", "vtab", <<>>, "strip">>, i8 |-> <<"call", "vtab", <<>>, "st">>,
  t11 |-> <<"load", "kept", <<"used">>>>, i9 |-> <<"call", "kept", <<>>, "t11">>,
  t12 |-> <<"load", "extern", <<"unset">>>>, i10 |-> <<"call", "extern", <<>>, "t12">>,
  t13 |-> <<"load", "macro", <<"addressable">>>>, i11 |-> <<"call", "macro", <<>>, "t13">>,
  odd |-> <<"function", "none", <<>>>>, raw |-> <<"function", "none", <<>>>>, raw2 |-> <<"function", "none", <<>>>>, vtab |-> <<"function", "none", <<>>>>,
  kept |-> <<"function", "none", <<>>>>, extern |-> <<"function", "none", <<>>>>, macro |-> <<"function", "none", <<>>>>, code |-> <<"data", "none", <<>>>>,
  code2 |-> <<"data", "none", <<>>>>, strip |-> <<"data", "none", <<>>>>,
  used |-> <<"global", "none", <<>>, "used", {"llvm_used"}>>, unset |-> <<"global", "none", <<>>, "unset", {"external"}>>,
  addressable |-> <<"global", "none", <<>>, "addressable", {"safe_macro"}>>]

-----------------------------------------------------------------------------
AllCode == StackCode @@ GlobalCode @@ OutCode @@ ForkCode @@ PluginCode @@ OpaqueCode
\* Type analysis has left foo of what it gave i1 first.
AllResolved == ("i1" :> {"foo"}) @@ ("i2" :> {"bar", "baz"}) @@ ("i14" :> {"late"}) @@ ("i15" :> {"plug"})
AllBefore == ("i1" :> {"foo", "bar"}) @@ ("i2" :> {"bar", "baz"}) @@ ("i14" :> {"late"}) @@ ("i15" :> {"plug"})

\* TLC evaluates a definition once, one a constant is replaced by at every use.
Table == Code
All(kinds) == {v \in DOMAIN Table : Table[v][1] \in kinds}
OpTable == [v \in DOMAIN Table |-> Table[v][1]]
InTable == [v \in DOMAIN Table |-> Table[v][2]]
ArgTable == [v \in DOMAIN Table |-> IF Table[v][1] = "function" THEN <<>> ELSE Table[v][3]]
ParamTable == [f \in All({"function"}) |-> Table[f][3]]
CalledTable == [c \in All({"call", "asm", "heap", "strip", "copy"}) |-> Table[c][4]]
SymbolTable == [c \in DOMAIN CalledTable |-> IF CalledTable[c] = "__symbol_get" THEN {"plug"} ELSE {}]
GuidTable == [g \in All({"global"}) |-> Table[g][4]]
FlagTable == [g \in All({"global"}) |-> Table[g][5]]
Targets(table, c) ==
  IF c \in DOMAIN table THEN table[c] ELSE {Table[c][4]} \cap All({"function"})
CalleeTable == [c \in All({"call", "asm", "heap", "strip", "copy"}) |-> Targets(Resolved, c)]
CallerTable == [f \in All({"function"}) |-> {c \in All({"call", "asm", "heap", "strip", "copy"}) : f \in Targets(ResolvedBefore, c)}]
=============================================================================
