-------------------------- MODULE MCRefinementLoop --------------------------
EXTENDS RefinementLoop

CONSTANTS c1, c2, c3, f, g, A, B, C, s, t

\* c1 loads its target from three layers, one without functions and one whose
\* type escapes; c2 is known by its type alone, and c3 is virtual.
TypeTargets == [c \in ICall |-> IF c = c3 THEN {f} ELSE {f, g}]
Overriders == [c \in ICall |-> IF c = c3 THEN {g} ELSE {}]
LayersOf == [c \in ICall |-> IF c = c1 THEN <<A, B, C>> ELSE <<>>]
Maps0 == [LayerTypes |-> [l \in Layer |-> IF l = A THEN {s} ELSE IF l = C THEN {t} ELSE {}],
          typeFuncsMap |-> [u \in Type |-> IF u = s THEN {f} ELSE {g}],
          OneLayerTargets |-> [TypeTargets EXCEPT ![c1] = {f}], EmptyTyFuncs |-> [c \in ICall |-> {}], typeEscapeSet |-> {t}]
=============================================================================
