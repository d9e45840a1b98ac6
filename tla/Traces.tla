------------------------------- MODULE Traces --------------------------------
(***************************************************************************)
(* The two passes of the co-analysis loop that trace values: the           *)
(* oneLayerHandler looks for the layers and functions a one-layer call     *)
(* gets its target from, and the escapeHandler for what was stored where   *)
(* a layer escaped.  They follow on doModulePass in rounds (the loop is    *)
(* RefinementLoop); the data-flow passes of a round are taken to fail for  *)
(* every call, so that no call is left out and no target removed.          *)
(* __symbol_get is left out, see FuncAlias.                                *)
(***************************************************************************)
EXTENDS TypeMaps

CONSTANT MaxRounds  \* bound

ASSUME RoundsAssumption == MaxRounds \in Nat \ {0}

VARIABLES
  pass, todo,                       \* the calls, then the layers, a pass has left
  Callers,                          \* the indirect calls with each target they once had
  escapedTypesInTypeAnalysisSet,    \* the escaped layers an analysis met
  succeed_type_set,                 \* those of them that were explained
  round,
  lost                              \* history: the calls that lost functions

passVars == <<pass, todo, succeed_type_set, round>>
vars == <<mapVars, Callers, escapedTypesInTypeAnalysisSet, lost, passVars>>

TypeOK ==
  /\ MapsTypeOK
  /\ pass \in {"resolve", "oneLayer", "escape", "done"} /\ todo \subseteq ICall \cup Layer
  /\ Callers \subseteq ICall \X Function
  /\ succeed_type_set \subseteq escapedTypesInTypeAnalysisSet
  /\ escapedTypesInTypeAnalysisSet \subseteq Layer /\ round \in 0..MaxRounds
  /\ lost \subseteq ICall

Init ==
  /\ MapsInit
  /\ pass = "resolve" /\ todo = {} /\ Callers = {}
  /\ escapedTypesInTypeAnalysisSet = {} /\ succeed_type_set = {} /\ round = 0 /\ lost = {}

-----------------------------------------------------------------------------
(* doModulePass also records callers, and the escapes isEscape meets. *)

\* The first escaped layer isEscape comes to, of those confined to l.
FirstEscape(l) ==
  LET steps == CHOOSE n \in 0..Cardinality(Layer) :
                 /\ ConfinedIn(l, n) \cap typeEscapeSet # {}
                 /\ \A m \in 0..(n - 1) : ConfinedIn(l, m) \cap typeEscapeSet = {}
  IN CHOOSE k \in ConfinedIn(l, steps) \cap typeEscapeSet : TRUE
EscapesMet(layers) == {FirstEscape(l) : l \in {k \in layers : isEscape(k)}}
EscapesOf(c) ==
  IF sigFuncsMap[sig[c]] # {} /\ Walk(called[c], "Precise_Mode").ok
  THEN EscapesMet(TyList(called[c], "Precise_Mode")) ELSE {}

OneLayerCalls(results) == {c \in ICall : results[c] = "OneLayer"}

Initialize(m) == doInitialization(m) /\ UNCHANGED <<Callers, escapedTypesInTypeAnalysisSet, lost, passVars>>

Resolve(m) ==
  LET resolved == {c \in ICall : in[c] = m} IN
  /\ doModulePass(m)
  /\ Callers' = Callers \cup UNION {{c} \X ICallees'[c] : c \in resolved}
  /\ escapedTypesInTypeAnalysisSet' = escapedTypesInTypeAnalysisSet \cup UNION {EscapesOf(c) : c \in resolved}
  /\ lost' = lost \cup {c \in resolved : Loses(c)}
  /\ UNCHANGED passVars

StartRounds ==
  /\ pass = "resolve" /\ Resolved
  /\ pass' = "oneLayer" /\ todo' = OneLayerCalls(typeResult)
  /\ UNCHANGED <<mapVars, Callers, escapedTypesInTypeAnalysisSet, succeed_type_set, round, lost>>

-----------------------------------------------------------------------------
(* Tracing a value to what it is loaded, passed or returned from. *)

Targets(c) == IF c \in ICall THEN ICallees[c] ELSE callees[c]
CallersOf(f) == {c \in Call \ ICall : f \in callees[c]} \cup {c \in ICall : <<c, f>> \in Callers}

Sources(v) ==
  CASE kind[v] = "argument" -> Passed(v, CallersOf(parent[v]))
    [] kind[v] = "call" -> Returned(Targets(v))
    [] kind[v] = "load" -> LET p == operands[v][1] IN {p} \cup (IF kind[p] = "global" THEN {} ELSE StoredTo(p, code))
    [] kind[v] \in {"cast", "phi", "select"} -> ToSet(operands[v])
    [] OTHER -> {}

\* "Unsupported inst", and the other values a trace gives up at.
GivesUp(v) ==
  \/ kind[v] = "global"
  \/ kind[v] = "gep" /\ getGEPLayerTypes(v) = {}
  \/ kind[v] = "argument" /\ \E c \in CallersOf(parent[v]) : Len(arguments[c]) < index[v]
  \/ kind[v] = "call" /\ Targets(v) = {}
GivesUpAtOneLayer(v) ==
  \/ GivesUp(v)
  \/ kind[v] = "function" /\ defs[v] = {}
  \/ kind[v] = "load" /\ kind[operands[v][1]] = "global"

\* EV is the list and PV the set of the loop; what a trace met before it gave up counts.
Tracing == [ok : BOOLEAN, EV : Seq(Value), PV : SUBSET Value]
New(trace) == {i \in DOMAIN trace.EV : trace.ok /\ trace.EV[i] \notin trace.PV}

\* The first value of EV that is new; rest waits behind it.
Meet(trace, v, rest, stuck) ==
  IF v \in stuck THEN [trace EXCEPT !.ok = FALSE]
  ELSE [ok |-> TRUE, EV |-> rest \o SetToSeq(Sources(v)), PV |-> trace.PV \cup {v}]
MeetNext(trace, stuck) ==
  LET i == Min(New(trace)) IN Meet(trace, trace.EV[i], SubSeq(trace.EV, i + 1, Len(trace.EV)), stuck)

\* A trace goes on until nothing is new, which takes no more steps than there are values.
Traced(stuck) ==
  LET traced[n \in Nat] ==
        [trace \in Tracing |-> IF n = 0 \/ New(trace) = {} THEN trace ELSE traced[n - 1][MeetNext(trace, stuck)]]
  IN traced[Cardinality(Value)]
Trace(v, stuck) == Traced(stuck)[[ok |-> TRUE, EV |-> <<v>>, PV |-> {}]]

FunctionsOf(values) == UNION {defs[f] : f \in values \cap Function}
LayersOf(values) == UNION {getGEPLayerTypes(v) : v \in {u \in values : kind[u] = "gep"}}

-----------------------------------------------------------------------------
(* oneLayerHandler. *)

oneLayerResults(c, met) ==
  LET targets(l) == FST(c, sigFuncsMap[sig[c]], l)
      layers == LayersOf(met) IN
  [results |-> {IF targets(l) # {} THEN "TwoLayer" ELSE IF isEscape(l) THEN "TypeEscape" ELSE "NoTwoLayerInfo" :
                l \in layers} \cup (IF met \cap Function = {} THEN {} ELSE {"OneLayer"}),
   FS |-> FunctionsOf(met) \cup UNION {targets(l) : l \in layers}]

\* What oneLayerChecker does of what it found.
Record(c, result, FS) ==
  /\ typeResult' = [typeResult EXCEPT ![c] = result]
  /\ ICallees' = [ICallees EXCEPT ![c] = FS]

oneLayerHandler(c) ==
  /\ pass = "oneLayer" /\ c \in todo /\ todo' = todo \ {c}
  /\ LET trace == Trace(called[c], {v \in Value : GivesUpAtOneLayer(v)})
         found == oneLayerResults(c, trace.PV) IN
     /\ escapedTypesInTypeAnalysisSet' = escapedTypesInTypeAnalysisSet \cup EscapesMet(LayersOf(trace.PV))
     /\ \/ ~trace.ok /\ UNCHANGED <<typeResult, ICallees>>
        \/ /\ trace.ok /\ "TypeEscape" \in found.results
           /\ Record(c, "TypeEscape", ICallees[c])
        \/ /\ trace.ok /\ found.results = {"NoTwoLayerInfo"}
           /\ Record(c, "NoTwoLayerInfo", {})
        \/ /\ trace.ok /\ "TypeEscape" \notin found.results /\ found.results # {"NoTwoLayerInfo"}
           /\ Record(c, IF Cardinality(found.results) = 1 THEN CHOOSE r \in found.results : TRUE ELSE "MixedLayer", found.FS)
  /\ UNCHANGED <<code, fresh, unresolved, maps, Callers, pass, succeed_type_set, round, lost>>

EndOneLayer ==
  /\ pass = "oneLayer" /\ todo = {}
  /\ pass' = "escape" /\ todo' = escapedTypesInTypeAnalysisSet \ succeed_type_set
  /\ UNCHANGED <<mapVars, Callers, escapedTypesInTypeAnalysisSet, succeed_type_set, round, lost>>

-----------------------------------------------------------------------------
(* escapeHandler. *)

escapedStoreMap(l) == {i \in code : l \in Effect(i).escaped}
escapeChecker(i) == Trace(i.value, {v \in Value : GivesUp(v)})

\* Not what the code does: a store that is explained explains the layer.
SomeExplained(l) == \E i \in escapedStoreMap(l) : escapeChecker(i).ok
AllExplained(l) == \A i \in escapedStoreMap(l) : escapeChecker(i).ok

\* The stores of l are checked in some order, up to the first that is not explained.
CheckedUpTo(l, checked) ==
  LET failed == {i \in checked : ~escapeChecker(i).ok} IN
  IF AllExplained(l) THEN checked = escapedStoreMap(l) ELSE Cardinality(failed) = 1

\* What the checked stores may have put in l is added to it.
escapeHandler(l) ==
  /\ pass = "escape" /\ l \in todo /\ todo' = todo \ {l}
  /\ \E checked \in SUBSET escapedStoreMap(l) :
       LET met == UNION {escapeChecker(i).PV : i \in checked}
           funcs == FunctionsOf(met) IN
       /\ CheckedUpTo(l, checked)
       /\ typeFuncsMap' = [typeFuncsMap EXCEPT ![l] = @ \cup funcs]
       /\ typeConfineMap' = [typeConfineMap EXCEPT ![l] = @ \cup LayersOf(met)]
       /\ sigFuncsMap' = [s \in Sigs |-> sigFuncsMap[s] \cup OfSig(funcs, s)]
       /\ Global_EmptyTy_Funcs' = [s \in Sigs |-> Global_EmptyTy_Funcs[s] \cup OfSig(updateStructInfo(l, funcs), s)]
  /\ IF AllExplained(l)
     THEN typeEscapeSet' = typeEscapeSet \ {l} /\ succeed_type_set' = succeed_type_set \cup {l}
     ELSE UNCHANGED <<typeEscapeSet, succeed_type_set>>
  /\ UNCHANGED <<code, fresh, unresolved, typeResult, ICallees, Callers, escapedTypesInTypeAnalysisSet, pass, round, lost>>

\* The calls whose type escaped are resolved again; another round may follow.
EndEscape ==
  /\ pass = "escape" /\ todo = {}
  /\ LET again == {c \in ICall : typeResult[c] = "TypeEscape"} IN
     /\ typeResult' = [c \in ICall |-> IF c \in again THEN findCalleesWithMLTA(c)[1] ELSE typeResult[c]]
     /\ ICallees' = [c \in ICall |-> IF c \in again THEN findCalleesWithMLTA(c)[2] ELSE ICallees[c]]
     /\ escapedTypesInTypeAnalysisSet' = escapedTypesInTypeAnalysisSet \cup UNION {EscapesOf(c) : c \in again}
     /\ lost' = lost \cup {c \in again : Loses(c)}
  /\ round' = round + 1
  /\ IF round' < MaxRounds THEN pass' = "oneLayer" /\ todo' = OneLayerCalls(typeResult')
     ELSE pass' = "done" /\ todo' = {}
  /\ UNCHANGED <<code, fresh, unresolved, maps, Callers, succeed_type_set>>

Next ==
  \/ \E m \in Module : Initialize(m) \/ Resolve(m)
  \/ StartRounds \/ EndOneLayer \/ EndEscape
  \/ \E c \in ICall : oneLayerHandler(c)
  \/ \E l \in Layer : escapeHandler(l)
Spec == Init /\ [][Next]_vars

-----------------------------------------------------------------------------
\* "Use type-analysis to concervatively find possible targets of indirect calls": a
\* function that may be called is a target, of all but the calls that lose functions, in
\* programs without the globals typeConfineInInitializer skips, that access memory by name
\* (AccessedByName).
CallsCovered == pass = "resolve" /\ Resolved /\ NothingSkipped => Covered

\* Whatever order the modules were loaded in, every call is resolved with the maps of
\* the whole program.
CallsSeeAllModules ==
  pass = "resolve" /\ Resolved => \A c \in ICall : <<typeResult[c], ICallees[c]>> = findCalleesWithMLTA(c)

\* Traces take the memory of an alloca to be what is stored through the alloca itself.
Addressed == {i.at : i \in {j \in code : j.what = "store"}} \cup {operands[v][1] : v \in {u \in Value : kind[u] = "load"}}
ByName(P) == \A v \in Addressed, a \in Value : kind[a] = "alloca" /\ cell[a] \in P[v] => v = a

\* After every pass that explains escapes or traces one-layer calls, a function that may
\* be called is still a target: the traces find all that is stored to a layer that is no
\* longer escaped, and all a one-layer call is left with.  Not so where a call lost
\* functions before, or where pointers lead to allocas.
TracesCover ==
  pass # "resolve" /\ todo = {} /\ NothingSkipped /\ lost = {} =>
    LET P == MayBe IN ByName(P) /\ AccessedByName(P) => \A c \in ICall : MayCall(P, c) \subseteq ICallees[c]
=============================================================================
