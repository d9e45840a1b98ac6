---------------------------- MODULE MCFuncAlias -----------------------------
EXTENDS FuncAlias

CONSTANTS def, decl, other

SymbolOf(f) == IF f = decl THEN def ELSE f

\* def is defined in one module and declared in another, where decl stands for it.
ExternalNames == [f \in Function |-> SymbolOf(f)]
ExternalIds == [f \in Function |-> <<SymbolOf(f)>>]
ExternalDefs == [f \in Function |-> {SymbolOf(f)}]

\* A third file has a static of the same name, other.
OneName == [f \in Function |-> def]
StaticDefs == [f \in Function |-> {def, other}]

Ids == {<<f>> : f \in Function}

AllTargets == [c \in ICall |-> Function]

Found(calls) == [outcome |-> "success", calls |-> calls, symbols |-> {}]
Fails == [outcome |-> "exceed_max", calls |-> {}, symbols |-> {}]
PlainFindings == {Found(C) : C \in SUBSET ICall} \cup {Fails}
SymbolFindings == PlainFindings \cup {[outcome |-> "success", calls |-> {}, symbols |-> {def}],
                                      [outcome |-> "none", calls |-> {}, symbols |-> {def}]}
=============================================================================
