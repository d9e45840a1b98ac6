--------------------------- MODULE AliasPrograms ----------------------------
(***************************************************************************)
(* Small programs for the alias graph modules.  A run draws its handler    *)
(* calls from one of the menus below, in any order SSA form allows.        *)
(***************************************************************************)
CONSTANTS Value, a, b, p, q, g, x, f, k, c, t1, t2, NoTag

Load(v, w, t)  == [op |-> "load", v1 |-> v, v2 |-> w, tag |-> t]
Store(v, w, t) == [op |-> "store", v1 |-> v, v2 |-> w, tag |-> t]
Call2(o, v, w) == [op |-> o, v1 |-> v, v2 |-> w]

\* The two tags are provably disjoint.
Disjoint == {}

\* Pointers of three levels without recursive types, so that no value reaches
\* itself.  The argument a and the global b point to the load p, the argument q
\* and the global g, which point to the load x and to the function f.
Levels == {Call2("move", b, a), Load(p, a, t1), Call2("init", g, b), Store(p, b, t2), Store(q, a, NoTag),
           Call2("move", p, q), Call2("ret", g, q), Call2("init", f, g),
           Store(f, q, t2), Store(f, p, t1), Load(x, p, t1), Store(x, g, NoTag)}
Level == [v \in Value |-> IF v \in {a, b} THEN 2 ELSE IF v \in {p, q, g} THEN 1 ELSE 0]

\* Linked structures among calls, returns, constants and allocations: the phi p
\* may be a or x, q is an instruction, c a call or a return, k a constant.
Calling == {[op |-> "alloca", v1 |-> q], [op |-> "call", cai |-> q, args |-> {p}],
            [op |-> "copycall", cai |-> c, args |-> {a, p}, v1 |-> a, v2 |-> p],
            [op |-> "symbol_get", cai |-> q, args |-> {k}, f |-> f],
            Call2("ret", c, q), Call2("ret", c, k), Store(k, a, t1), Call2("init", k, a),
            Call2("init", f, a), Load(x, a, t1), Load(x, p, t2), Load(q, x, NoTag),
            Store(f, a, t1), Store(p, a, t2), Store(q, p, NoTag), Call2("move", p, x)}
=============================================================================
