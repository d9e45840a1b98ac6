------------------------------ MODULE Symbols -------------------------------
(***************************************************************************)
(* The tables of functions the passes fill from the modules, one module    *)
(* after the other, and the calls CallGraphPass resolves with them.        *)
(*                                                                         *)
(* Function has one element per Function object, a function seen in a      *)
(* module: a header's inline function, and a function with declarations,   *)
(* has several, of one source.  findCalleesWithMLTA is its first step,     *)
(* the functions of the call's type; TypeMaps has the rest.                *)
(***************************************************************************)
EXTENDS Naturals, FiniteSets

CONSTANTS
  Function,
  module,            \* the file of a Function
  name, type,
  place,             \* file and line of its debug info, "" without
  source,            \* which function of the program it is
  hasBody, external, addressTaken,
  Call,
  caller,            \* the Function a call is in
  callPlace,         \* file of a call, then its line and, of an indirect call, its number
                     \* in the caller, the digits of the one right after the other's
  callee,            \* the Function a direct call names
  callType,          \* the type of an indirect call
  None

ICall == DOMAIN callType

ASSUME SymbolsAssumption ==
  /\ DOMAIN module = Function /\ None \notin Function
  /\ hasBody \subseteq Function /\ external \subseteq Function /\ addressTaken \subseteq Function
  /\ IsFiniteSet(Function) /\ IsFiniteSet(Call) /\ ICall \subseteq Call
  /\ caller \in [Call -> hasBody] /\ callee \in [Call \ ICall -> Function]
  /\ \A f, g \in Function : module[f] = module[g] /\ name[f] = name[g] => f = g

\* The digits tell the indirect calls of a function apart, though nothing separates
\* them: the first call of line 12 and the 21st of line 1 would be one.
ASSUME DigitsTell ==
  \A c, d \in ICall : caller[c] = caller[d] /\ callPlace[c] = callPlace[d] => c = d

Names == {name[f] : f \in Function}
Types == {type[f] : f \in Function} \cup {callType[c] : c \in ICall}

\* The hashes, as what they are computed from.
funcHash(f) == <<name[f], type[f]>>
funcInfoHash(f) == <<name[f], place[f]>>
Hash == {funcHash(f) : f \in Function} \cup {funcInfoHash(f) : f \in Function}
callInfoHash(c) == LET F == caller[c] IN <<callPlace[c], type[F], name[F]>>

VARIABLES
  Global_AddressTaken_Func_Set, Global_Unique_Func_Map, GlobalFuncs,  \* of TypeBuilderPass
  sigFuncsMap, UnifiedFuncMap, globalFuncNameMap,                     \* of CallGraphPass
  Callees, ICallees  \* of the calls with an entry

tables == <<Global_AddressTaken_Func_Set, Global_Unique_Func_Map, GlobalFuncs, sigFuncsMap,
            UnifiedFuncMap, globalFuncNameMap, Callees, ICallees>>

SymbolsTypeOK ==
  /\ Global_AddressTaken_Func_Set \subseteq Function
  /\ Global_Unique_Func_Map \in [Hash -> Function \cup {None}]
  /\ GlobalFuncs \in [Names -> SUBSET Hash]
  /\ sigFuncsMap \in [Types -> SUBSET Function]
  /\ UnifiedFuncMap \in [Hash -> Function \cup {None}]
  /\ globalFuncNameMap \subseteq {callInfoHash(c) : c \in ICall}
  /\ DOMAIN Callees \subseteq Call /\ \A c \in DOMAIN Callees : Callees[c] \subseteq Function
  /\ DOMAIN ICallees \subseteq ICall /\ \A c \in DOMAIN ICallees : ICallees[c] \subseteq Function

Nowhere(keys) == [h \in keys |-> None]
Empty(keys) == [k \in keys |-> {}]

SymbolsInit ==
  /\ Global_AddressTaken_Func_Set = {} /\ globalFuncNameMap = {}
  /\ Global_Unique_Func_Map = Nowhere(Hash) /\ UnifiedFuncMap = Nowhere(Hash)
  /\ GlobalFuncs = Empty(Names) /\ sigFuncsMap = Empty(Types)
  /\ Callees = << >> /\ ICallees = << >>

SymbolsReset ==
  /\ Global_AddressTaken_Func_Set' = {} /\ globalFuncNameMap' = {}
  /\ Global_Unique_Func_Map' = Nowhere(Hash) /\ UnifiedFuncMap' = Nowhere(Hash)
  /\ GlobalFuncs' = Empty(Names) /\ sigFuncsMap' = Empty(Types)
  /\ Callees' = << >> /\ ICallees' = << >>

Of(m, F) == {f \in F : module[f] = m}

-----------------------------------------------------------------------------
(* TypeBuilderPass::doInitialization. *)

\* map with a Function of F in place of what it has for a hash, if there is one; and
\* with a Function of F for a hash it has nothing for.
Replaced(map, F, h) ==
  IF \E f \in F : funcInfoHash(f) = h THEN CHOOSE f \in F : funcInfoHash(f) = h ELSE map[h]
Offered(map, F, h) == IF map[h] = None THEN Replaced(map, F, h) ELSE map[h]

\* A definition others can reach replaces what is there, a declaration does not.
TypeBuilderInit(m) ==
  LET taken == Of(m, addressTaken)
      defined == Of(m, hasBody \cap (external \cup addressTaken))
      offered == [h \in Hash |-> Offered(Global_Unique_Func_Map, taken, h)] IN
  /\ Global_AddressTaken_Func_Set' = Global_AddressTaken_Func_Set \cup taken
  /\ Global_Unique_Func_Map' = [h \in Hash |-> Replaced(offered, defined, h)]
  /\ GlobalFuncs' = [n \in Names |-> GlobalFuncs[n] \cup {funcInfoHash(f) : f \in {g \in defined : name[g] = n}}]
  /\ UNCHANGED <<sigFuncsMap, UnifiedFuncMap, globalFuncNameMap, Callees, ICallees>>

\* The definitions of F's name; without one, what was recorded for F itself.
getGlobalFuncs(F) ==
  LET found == {Global_Unique_Func_Map[h] : h \in GlobalFuncs[name[F]]} IN
  IF found # {} THEN found ELSE {Global_Unique_Func_Map[funcInfoHash(F)]} \ {None}

-----------------------------------------------------------------------------
(* CallGraphPass. *)

\* A function of F with the hash, or the one that is known.
SameHash(F, h) == IF \E f \in F : funcHash(f) = h THEN CHOOSE f \in F : funcHash(f) = h ELSE UnifiedFuncMap[h]

\* "Keep a single copy for same functions": of type and name, the first.
Unify(F, h) == IF UnifiedFuncMap[h] = None THEN SameHash(F, h) ELSE UnifiedFuncMap[h]

CallGraphInit(m) ==
  LET declared == Of(m, addressTaken \ hasBody)
      defined == Of(m, hasBody)
      taken(s) == {f \in defined \cap addressTaken : type[f] = s}
                    \cup UNION {getGlobalFuncs(f) : f \in {g \in declared : type[g] = s}} IN
  /\ sigFuncsMap' = [s \in Types |-> sigFuncsMap[s] \cup taken(s)]
  /\ UnifiedFuncMap' = [h \in Hash |-> Unify(defined, h)]
  /\ UNCHANGED <<Global_AddressTaken_Func_Set, Global_Unique_Func_Map, GlobalFuncs,
                 globalFuncNameMap, Callees, ICallees>>

DirectCallees(c) ==
  LET F == IF callee[c] \in hasBody THEN {callee[c]} ELSE getGlobalFuncs(callee[c])
  IN {UnifiedFuncMap[funcHash(f)] : f \in F} \ {None}

\* An indirect call of a function with copies is resolved in the copy analysed first.
CallGraphModulePass(m) ==
  LET calls == {c \in Call : module[caller[c]] = m}
      resolved == {c \in calls \cap ICall : callInfoHash(c) \notin globalFuncNameMap}
      targets == [c \in resolved \cup (calls \ ICall) |->
                    IF c \in ICall THEN sigFuncsMap[callType[c]] ELSE DirectCallees(c)] IN
  /\ Callees' = [c \in DOMAIN Callees \cup DOMAIN targets |->
                   IF c \in DOMAIN targets THEN targets[c] ELSE Callees[c]]
  /\ ICallees' = [c \in DOMAIN ICallees \cup resolved |->
                    IF c \in resolved THEN targets[c] ELSE ICallees[c]]
  /\ globalFuncNameMap' = globalFuncNameMap \cup {callInfoHash(c) : c \in resolved}
  /\ UNCHANGED <<Global_AddressTaken_Func_Set, Global_Unique_Func_Map, GlobalFuncs,
                 sigFuncsMap, UnifiedFuncMap>>

\* What pass p does to module m in each of its loops; TypeBuilder's and CHABuilder's
\* other tables are not modelled.
Analyze(p, stage, m) ==
  IF p = "TypeBuilder" /\ stage = "initialize" THEN TypeBuilderInit(m)
  ELSE IF p = "CallGraph" /\ stage = "initialize" THEN CallGraphInit(m)
  ELSE IF p = "CallGraph" /\ stage = "module" THEN CallGraphModulePass(m)
  ELSE UNCHANGED tables
=============================================================================
