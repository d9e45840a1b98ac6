------------------------------ MODULE Worklist ------------------------------
(***************************************************************************)
(* The inter-procedural worklist of the data-flow analyses: HandleFunc     *)
(* follows an address-taken function forward, HandleICall the called       *)
(* operand of an indirect call backward.  Both take a value aliased with   *)
(* the start and let interCaseHandler extend the alias graph by the        *)
(* functions that value flows from or to, until nothing aliased with the   *)
(* start is left, or a value makes the analysis give up.                   *)
(*                                                                         *)
(* The alias graph is cut down to its clusters: getClusterValues follows   *)
(* the edges both ways, so what the worklist sees of AliasGraph is which   *)
(* values are connected, and a handler connects the values it merges or    *)
(* joins by an edge.  The TBAA refinement, which keeps some apart, is left *)
(* out.  Analysing a function twice connects nothing new, so               *)
(* AnalyzedFuncSet is left out too.                                        *)
(***************************************************************************)
EXTENDS Integers, Sequences, FiniteSets, Functions, FiniteSetsExt

CONSTANTS
  Value, None,
  op,        \* what a value is: see Kinds
  args,      \* an instruction's or constant's operands; a global's initializer
  called,    \* a call's called operand
  parent,    \* the function an instruction or an argument belongs to
  params,    \* a function's arguments
  guid,      \* globals with one GUID are one variable, declared in several modules
  flags,     \* of a global: "safe_macro", "llvm_used", "external"
  symbols,   \* the functions of the name a call hands to __symbol_get; others have none
  Callees,   \* the targets of a call, by name or as resolved so far
  Callers,   \* the calls of a function, as resolved by CallGraphPass
  MaxPath,   \* bounds the paths of Flow
  Starts, Limits   \* what is analysed, and values of MAX_ANALYSIS_NUM

Calls == {"call", "asm", "heap", "strip", "copy"}
Insts == Calls \cup {"load", "store", "alloca", "move", "gep", "return", "binary"}
Operators == {"gep", "operator", "aggregate"}
Kinds == Insts \cup Operators \cup {"function", "global", "argument", "data", "alias"}

Call == {v \in Value : op[v] \in Calls}
Function == {v \in Value : op[v] = "function"}
Operands(v) == Range(args[v]) \cup (IF v \in Call THEN {called[v]} ELSE {})
users == [v \in Value |-> {u \in Value : v \in Operands(u)}]

ASSUME ProgramAssumption ==
  /\ IsFiniteSet(Value) /\ None \notin Value
  /\ op \in [Value -> Kinds]
  /\ args \in [Value -> Seq(Value)]
  /\ \A v \in Value : op[v] \in {"function", "argument", "data"} => args[v] = <<>>
  /\ \A v \in Value : op[v] \in {"store", "copy"} => Len(args[v]) >= 2
  /\ called \in [Call -> Value]
  /\ parent \in [Value -> Function \cup {None}]
  /\ \A v \in Value : op[v] \in Insts \cup {"argument"} => parent[v] \in Function
  /\ params \in [Function -> Seq(Value)]
  /\ symbols \in [Call -> SUBSET Function]
  /\ Callees \in [Call -> SUBSET Function]
  /\ Callers \in [Function -> SUBSET Call]
  /\ Starts \subseteq Call \cup Function
  /\ Limits \subseteq Nat /\ MaxPath \in Nat

VARIABLES
  start, limit, pc,
  clusters,            \* the values with a node, by what they are connected with
  LV,                  \* AnalysisList: what each push added, in any order within one
  Analyzed,            \* AnalyzedList
  cv, LU, GU,          \* the value taken, its users to visit, those visited
  skip,                \* Analyzed_Set, the copy interCaseHandler adds to
  call, todo, back,    \* what a loop over callees, callers or globals has left
  success, failreason

walk == <<cv, LU, GU, call, todo, back>>
vars == <<start, limit, pc, clusters, LV, Analyzed, walk, skip, success, failreason>>

TypeOK ==
  /\ start \in Starts /\ limit \in Limits
  /\ pc \in {"funcUses", "pop", "users", "bind", "globals", "globalUses", "callers", "done"}
  /\ clusters \in SUBSET SUBSET Value
  /\ LV \in Seq((SUBSET Value) \ {{}})
  /\ Analyzed \subseteq Value /\ skip \subseteq Value
  /\ cv \in Value \cup {None} /\ call \in Value \cup {None}
  /\ LU \subseteq Value /\ GU \subseteq Value /\ todo \subseteq Value
  /\ back \in {"funcUses", "users", "pop"}
  /\ success \in BOOLEAN
  /\ failreason \in {"none", "binary_operation", "llvm_used", "exceed_max",
                     "inline_asm", "init_in_asm", "strip_invariant_group"}

-----------------------------------------------------------------------------
(* What a handler connects, as sets of pairs; a set of one gets a node. *)

Linked(v) == {{v, a} : a \in Operands(v)}

\* The values that steps of next lead to from those of S.
Reached(S, next) ==
  LET R[n \in Nat] == IF n = 0 THEN S ELSE UNION {{u} \cup next[u] : u \in R[n - 1]}
  IN R[Cardinality(Value)]

InOperator == [u \in Value |-> IF op[u] = "operator" THEN Operands(u) ELSE {}]
HandleOperator(v) == UNION {Linked(u) : u \in {w \in Reached({v}, InOperator) : op[w] = "operator"}}

HandleInst(v) ==
  (UNION {HandleOperator(o) : o \in Operands(v)}) \cup
  (IF v \in Call THEN {{a} : a \in Operands(v) \cup {v}} \cup {{v, f} : f \in symbols[v]} ELSE {}) \cup
  (CASE op[v] \in {"load", "move", "gep"} -> Linked(v)
    [] op[v] = "copy" \/ (op[v] = "store" /\ op[args[v][1]] # "data") -> {{args[v][1], args[v][2]}}
    [] op[v] = "return" -> {e \in Linked(v) : \A w \in e : op[w] # "data"}
    [] op[v] = "alloca" -> {{v}}
    [] OTHER -> {})

InstsOf(f) == {v \in Value : op[v] \in Insts /\ parent[v] = f}
analyzeFunction == [f \in Function \cup {None} |-> UNION {HandleInst(v) : v \in InstsOf(f)}]

HandleReturn(f, c) ==
  {{r, c} : r \in UNION {Operands(v) : v \in {u \in InstsOf(f) : op[u] = "return"}}}

getMin(m, n) == IF m < n THEN m ELSE n
HandleArgs(f, c) ==
  {{args[c][j], params[f][j]} : j \in 1..getMin(Len(args[c]), Len(params[f]))}

\* The constants an initializer consists of, and what they name.
Parts(g) == Reached(Operands(g), [u \in Value |-> {o \in Operands(u) : op[o] = "aggregate"}])
Named(g) == UNION {Operands(u) : u \in Parts(g)}

analyzeGlobalInitializer(g) ==
  Linked(g) \cup {e \in UNION {Linked(u) : u \in Parts(g)} : \A w \in e : op[w] # "data"}
    \cup UNION {HandleOperator(o) : o \in Named(g)}

\* The graph gc after each of the pairs has been connected in it.
Joined(pair, gc) ==
  LET touched == {c \in gc : c \cap pair # {}} IN (gc \ touched) \cup {pair \cup UNION touched}
Connected(gc, pairs) == FoldSet(Joined, gc, pairs)

getClusterValues(v, gc) == UNION {c \in gc : v \in c}

Size(list) == FoldFunction(LAMBDA s, n : Cardinality(s) + n, 0, list)
\* Not what the code does: an empty push leaves an entry.
PushAlways(list, values) == Append(list, values)
Push(list, values) == IF values = {} THEN list ELSE Append(list, values)

-----------------------------------------------------------------------------
(* Extending the graph: every place that does so then adds to the list     *)
(* what is aliased with the subject and not covered yet, and gives up when *)
(* the list has become too long.                                           *)

Extend(pairs, subject, covered) ==
  /\ clusters' = Connected(clusters, pairs)
  /\ LV' = Push(LV, getClusterValues(subject, clusters') \ (covered \cup UNION Range(LV)))
Exceeds == Size(LV') > limit

Fail(reason) == success' = FALSE /\ failreason' = reason

\* HandleFunc leaves no reason when the list is too long.
ExceedReason == IF start \in Call THEN "exceed_max" ELSE failreason

\* Not what the code does: the break does not end the analysis.
BreakOnly(reason, rest) ==
  todo' = (IF Exceeds THEN {} ELSE rest) /\ UNCHANGED <<success, failreason>>

\* The break of a loop over todo.
CheckSize(reason, rest) ==
  IF Exceeds THEN Fail(reason) /\ todo' = {}
  ELSE todo' = rest /\ UNCHANGED <<success, failreason>>

\* A step of a loop over users; the constants and GEPs built from a value are its users.
Visit(u) == u \in LU /\ LU' = LU \ {u} /\ GU' = GU \cup {u}
Through(u) ==
  u \in LU /\ GU' = GU \cup {u} /\ LU' = (LU \cup users[u]) \ GU'

\* The fields a start leaves alone.
Unstarted ==
  /\ Analyzed = {} /\ GU = {} /\ skip = {} /\ todo = {}
  /\ cv = None /\ call = None /\ back = "pop"
  /\ success = TRUE /\ failreason = "none"

\* HandleICall begins with what the caller aliases with the called operand.
StartICall ==
  /\ start \in Starts \cap Call
  /\ clusters = Connected({}, analyzeFunction[parent[start]])
  /\ LV = Push(<<>>, getClusterValues(called[start], clusters))
  /\ LU = {} /\ pc = "pop"

\* HandleFunc begins with the users of the function.
StartFunc ==
  /\ start \in Starts \cap Function
  /\ clusters = {}
  /\ LV = <<>>
  /\ LU = users[start] /\ pc = "funcUses"

Init == limit \in Limits /\ (StartICall \/ StartFunc) /\ Unstarted

-----------------------------------------------------------------------------
(* HandleFunc: the users of the function. *)

InFunc(u) == pc = "funcUses" /\ u \in LU

FuncCall(u) ==
  /\ InFunc(u) /\ u \in Call /\ Visit(u)
  /\ clusters' = Connected(clusters, analyzeFunction[parent[u]])
  /\ IF Callees[u] = {} THEN UNCHANGED <<pc, call, todo, back>>
     ELSE pc' = "bind" /\ call' = u /\ todo' = Callees[u] /\ back' = "funcUses"
  /\ UNCHANGED <<start, limit, LV, Analyzed, cv, skip, success, failreason>>

FuncInst(u) ==
  /\ InFunc(u) /\ op[u] \in Insts \ Calls /\ Visit(u)
  /\ clusters' = Connected(clusters, analyzeFunction[parent[u]])
  /\ UNCHANGED <<start, limit, pc, LV, Analyzed, cv, call, todo, back, skip, success, failreason>>

FuncConstant(u) ==
  /\ InFunc(u) /\ op[u] \in {"operator", "aggregate", "alias"} /\ Through(u)
  /\ UNCHANGED <<start, limit, pc, clusters, LV, Analyzed, cv, call, todo, back, skip, success, failreason>>

FuncGlobal(u) ==
  /\ InFunc(u) /\ op[u] = "global" /\ Visit(u)
  /\ LV' = Push(LV, {u})
  /\ UNCHANGED <<start, limit, pc, clusters, Analyzed, cv, call, todo, back, skip, success, failreason>>

\* The arguments inserted in the meantime stay in AnalyzedList.
FuncUsesDone ==
  /\ pc = "funcUses" /\ LU = {}
  /\ LV' = Push(LV, getClusterValues(start, clusters) \ {start})
  /\ Analyzed' = skip
  /\ IF Exceeds THEN Fail(ExceedReason) /\ pc' = "done"
     ELSE pc' = "pop" /\ UNCHANGED <<success, failreason>>
  /\ GU' = {}
  /\ UNCHANGED <<start, limit, clusters, cv, LU, call, todo, back, skip>>

HandleFunc == (\E u \in LU : FuncCall(u) \/ FuncInst(u) \/ FuncConstant(u) \/ FuncGlobal(u))
              \/ FuncUsesDone

-----------------------------------------------------------------------------
(* The loop over AnalysisList. *)

\* Not what the code does: the front is read and stays.
KeepFront(v) == LV

\* The front of the list without v, one of the values pushed first.
Rest(v) == IF Head(LV) = {v} THEN Tail(LV) ELSE [LV EXCEPT ![1] = @ \ {v}]

Pop(v) ==
  /\ pc = "pop" /\ LV # <<>> /\ v \in Head(LV)
  /\ LV' = Rest(v)
  /\ UNCHANGED <<start, limit, clusters, GU, call, todo, back>>

PopAnalyzed(v) ==
  /\ Pop(v) /\ v \in Analyzed
  /\ UNCHANGED <<pc, Analyzed, cv, LU, skip, success, failreason>>

Take(v) == Pop(v) /\ v \notin Analyzed /\ Analyzed' = Analyzed \cup {v} /\ cv' = v

\* The analysis failed, or fails because the list is too long.
GiveUp(v) ==
  /\ Take(v) /\ (~success \/ Exceeds)
  /\ pc' = "done"
  /\ IF success THEN Fail(ExceedReason) ELSE UNCHANGED <<success, failreason>>
  /\ UNCHANGED <<LU, skip>>

\* interCaseHandler looks no further at constants and functions.
TakeLeaf(v) ==
  /\ Take(v) /\ success /\ ~Exceeds
  /\ op[v] \in {"data", "function"}
  /\ UNCHANGED <<pc, LU, skip, success, failreason>>

TakeBinary(v) ==
  /\ Take(v) /\ success /\ ~Exceeds
  /\ op[v] = "binary"
  /\ Fail("binary_operation")
  /\ UNCHANGED <<pc, LU, skip>>

TakeValue(v) ==
  /\ Take(v) /\ success /\ ~Exceeds
  /\ op[v] \notin {"data", "function", "binary"}
  /\ skip' = Analyzed'
  /\ LU' = users[v] /\ pc' = "users"
  /\ UNCHANGED <<success, failreason>>

Finish ==
  /\ pc = "pop" /\ LV = <<>>
  /\ pc' = "done"
  /\ UNCHANGED <<start, limit, clusters, LV, Analyzed, walk, skip, success, failreason>>

PopValue == (\E v \in Value : PopAnalyzed(v) \/ GiveUp(v) \/ TakeLeaf(v) \/ TakeBinary(v) \/ TakeValue(v))
            \/ Finish

-----------------------------------------------------------------------------
(* interCaseHandler: is the value handed to a call? *)

InUsers(u) == pc = "users" /\ u \in LU

\* An operation on the value, or inline assembly it is handed to, ends the analysis.
UserStops(u) ==
  /\ InUsers(u) /\ op[u] \in {"binary", "asm"} /\ u # cv
  /\ Fail(IF op[u] = "asm" THEN "inline_asm" ELSE "binary_operation")
  /\ pc' = "pop" /\ LU' = {} /\ GU' = {}
  /\ UNCHANGED <<start, limit, clusters, LV, Analyzed, cv, call, todo, back, skip>>

UserConstant(u) ==
  /\ InUsers(u) /\ op[u] \in Operators /\ u # cv /\ Through(u)
  /\ UNCHANGED <<start, limit, pc, clusters, LV, Analyzed, cv, call, todo, back, skip, success, failreason>>

UserCall(u) ==
  /\ InUsers(u) /\ u \in Call /\ op[u] # "asm" /\ u # cv /\ Visit(u)
  /\ pc' = "bind" /\ call' = u /\ todo' = Callees[u] /\ back' = "users"
  /\ UNCHANGED <<start, limit, clusters, LV, Analyzed, cv, skip, success, failreason>>

UserOther(u) ==
  /\ InUsers(u) /\ Visit(u)
  /\ \/ u = cv
     \/ op[u] \notin Calls \cup Operators \cup {"binary"}
  /\ UNCHANGED <<start, limit, pc, clusters, LV, Analyzed, cv, call, todo, back, skip, success, failreason>>

User == \E u \in LU : UserStops(u) \/ UserConstant(u) \/ UserCall(u) \/ UserOther(u)

-----------------------------------------------------------------------------
(* A callee of a call: it is analysed, and bound to the call.  Its         *)
(* arguments count as covered while the caller of this loop runs.          *)

Subject == IF back = "funcUses" THEN call ELSE cv
Bound(f, c) == HandleReturn(f, c) \cup analyzeFunction[f] \cup HandleArgs(f, c)

\* Not what the code does: interCaseHandler adds to AnalyzedList itself, not to a copy.
BindByReference(f) ==
  /\ pc = "bind" /\ f \in todo
  /\ skip' = skip \cup Range(params[f]) /\ Analyzed' = Analyzed \cup Range(params[f])
  /\ Extend(Bound(f, call), Subject, skip')
  /\ CheckSize(IF back = "funcUses" THEN failreason ELSE "exceed_max", todo \ {f})
  /\ UNCHANGED <<start, limit, pc, cv, LU, GU, call, back>>

Bind(f) ==
  /\ pc = "bind" /\ f \in todo
  /\ skip' = skip \cup Range(params[f])
  /\ Extend(Bound(f, call), Subject, skip')
  /\ CheckSize(IF back = "funcUses" THEN failreason ELSE "exceed_max", todo \ {f})
  /\ UNCHANGED <<start, limit, pc, Analyzed, cv, LU, GU, call, back>>

\* A call whose callees are bound is covered itself, for the rest of the users.
BindDone ==
  /\ pc = "bind" /\ todo = {}
  /\ pc' = back
  /\ skip' = IF back = "users" THEN skip \cup {call} ELSE skip
  /\ UNCHANGED <<start, limit, clusters, LV, Analyzed, walk, success, failreason>>

BindCallees == (\E f \in todo : Bind(f)) \/ BindDone

-----------------------------------------------------------------------------
(* interCaseHandler: what is the value? *)

UsersDone == pc = "users" /\ LU = {} /\ GU' = {}

Global_Unique_GV_Map(g) == {h \in Value : op[h] = "global" /\ guid[h] = guid[g]}

GlobalFails == \/ "llvm_used" \in flags[cv]
               \/ "external" \in flags[cv] /\ Global_Unique_GV_Map(cv) = {cv}

\* A global without an initializer in the program, or kept for code outside it.
GlobalUntracked ==
  /\ UsersDone /\ op[cv] = "global" /\ "safe_macro" \notin flags[cv] /\ GlobalFails
  /\ Fail(IF "llvm_used" \in flags[cv] THEN "llvm_used" ELSE "init_in_asm")
  /\ pc' = "pop"
  /\ UNCHANGED <<start, limit, clusters, LV, Analyzed, cv, LU, call, todo, back, skip>>

GlobalCase ==
  /\ UsersDone /\ op[cv] = "global" /\ "safe_macro" \notin flags[cv] /\ ~GlobalFails
  /\ pc' = "globals" /\ todo' = Global_Unique_GV_Map(cv)
  /\ UNCHANGED <<start, limit, clusters, LV, Analyzed, cv, LU, call, back, skip, success, failreason>>

CallFails ==
  /\ UsersDone /\ op[cv] \in {"asm", "strip"}
  /\ Fail(IF op[cv] = "asm" THEN "inline_asm" ELSE "strip_invariant_group")
  /\ pc' = "pop"
  /\ UNCHANGED <<start, limit, clusters, LV, Analyzed, cv, LU, call, todo, back, skip>>

CallCase ==
  /\ UsersDone /\ op[cv] \in {"call", "copy"}
  /\ pc' = "bind" /\ call' = cv /\ todo' = Callees[cv] /\ back' = "pop"
  /\ UNCHANGED <<start, limit, clusters, LV, Analyzed, cv, LU, skip, success, failreason>>

CallersCase ==
  /\ UsersDone /\ op[cv] \in {"argument", "return"}
  /\ pc' = "callers" /\ todo' = Callers[parent[cv]]
  /\ UNCHANGED <<start, limit, clusters, LV, Analyzed, cv, LU, call, back, skip, success, failreason>>

\* A safe macro's global, memory of an allocator, and any other value.
NoCase ==
  /\ UsersDone
  /\ \/ op[cv] = "global" /\ "safe_macro" \in flags[cv]
     \/ op[cv] \in Kinds \ ({"global", "argument", "return"} \cup (Calls \ {"heap"}))
  /\ pc' = "pop"
  /\ UNCHANGED <<start, limit, clusters, LV, Analyzed, cv, LU, call, todo, back, skip, success, failreason>>

Case == GlobalUntracked \/ GlobalCase \/ CallFails \/ CallCase \/ CallersCase \/ NoCase

\* What call c hands to the argument v, or receives from the return v.
Exchanged(v, c) == IF op[v] = "argument" THEN HandleArgs(parent[v], c) ELSE {{r, c} : r \in Operands(v)}

\* A call that may have handed the argument, or received the result.
Caller(c) ==
  /\ pc = "callers" /\ c \in todo
  /\ Extend(Exchanged(cv, c) \cup analyzeFunction[parent[c]], cv, skip)
  /\ CheckSize("exceed_max", todo \ {c})
  /\ UNCHANGED <<start, limit, pc, Analyzed, cv, LU, GU, call, back, skip>>

LoopDone ==
  /\ pc \in {"callers", "globals"} /\ todo = {}
  /\ pc' = "pop"
  /\ UNCHANGED <<start, limit, clusters, LV, Analyzed, walk, skip, success, failreason>>

\* A module's declaration of the global: its initializer and its users.
Global(g) ==
  /\ pc = "globals" /\ g \in todo
  /\ clusters' = Connected(clusters, {{g, cv}} \cup
                  IF args[g] = <<>> THEN {} ELSE analyzeGlobalInitializer(g))
  /\ LV' = Push(LV, {v \in Named(g) : op[v] = "global"})
  /\ pc' = "globalUses" /\ call' = g /\ LU' = users[g] /\ GU' = {}
  /\ todo' = todo \ {g}
  /\ UNCHANGED <<start, limit, Analyzed, cv, back, skip, success, failreason>>

GlobalInst(u) ==
  /\ pc = "globalUses" /\ u \in LU /\ op[u] \in Insts
  /\ GU' = GU \cup {u}
  /\ Extend(analyzeFunction[parent[u]], cv, skip)
  /\ IF Exceeds THEN Fail("exceed_max") /\ LU' = {}
     ELSE LU' = LU \ {u} /\ UNCHANGED <<success, failreason>>
  /\ UNCHANGED <<start, limit, pc, Analyzed, cv, call, todo, back, skip>>

GlobalConstant(u) ==
  /\ pc = "globalUses" /\ op[u] \in {"operator", "aggregate"} /\ Through(u)
  /\ UNCHANGED <<start, limit, pc, clusters, LV, Analyzed, cv, call, todo, back, skip, success, failreason>>

GlobalOther(u) ==
  /\ pc = "globalUses" /\ op[u] \in {"global", "alias"} /\ Visit(u)
  /\ LV' = IF op[u] = "global" THEN Push(LV, {u}) ELSE LV
  /\ UNCHANGED <<start, limit, pc, clusters, Analyzed, cv, call, todo, back, skip, success, failreason>>

GlobalDone ==
  /\ pc = "globalUses" /\ LU = {}
  /\ Extend({}, cv, skip)
  /\ CheckSize("exceed_max", todo)
  /\ skip' = IF Exceeds THEN skip ELSE skip \cup {call}
  /\ pc' = "globals" /\ GU' = {}
  /\ UNCHANGED <<start, limit, Analyzed, cv, LU, call, back>>

CallersOrGlobals ==
  \/ \E c \in todo : Caller(c) \/ Global(c)
  \/ \E u \in LU : GlobalInst(u) \/ GlobalConstant(u) \/ GlobalOther(u)
  \/ GlobalDone \/ LoopDone

-----------------------------------------------------------------------------
interCaseHandler == User \/ Case \/ BindCallees \/ CallersOrGlobals

Next == HandleFunc \/ PopValue \/ interCaseHandler

Spec == Init /\ [][Next]_vars /\ WF_vars(Next)

-----------------------------------------------------------------------------
(* What the whole program lets data flow through, both ways along an       *)
(* assignment: a path follows what functions and initializers connect,     *)
(* goes down into the callees of a call, and comes up again into the call  *)
(* it went down from, or into every call where it did not.  It ends at a   *)
(* function, which is what is looked for, and at a constant.               *)

Connections ==
  (UNION {analyzeFunction[f] : f \in Function})
    \cup (UNION {analyzeGlobalInitializer(g) : g \in {v \in Value : op[v] = "global" /\ args[v] # <<>>}})
    \cup {Global_Unique_GV_Map(g) : g \in {v \in Value : op[v] = "global"}}
Beside(v) == UNION {e \in Connections : v \in e}

\* <<a value at the call, one in the callee, the call>>
Bindings ==
  LET Between(f, c) ==
        {<<args[c][j], params[f][j], c>> : j \in 1..getMin(Len(args[c]), Len(params[f]))}
          \cup {<<c, r, c>> : r \in UNION {Operands(v) : v \in {u \in InstsOf(f) : op[u] = "return"}}}
  IN UNION {UNION {Between(f, c) : f \in Callees[c]} : c \in Call}

\* One step of a path from s at value p[1] inside the calls p[2]; all functions share
\* the globals.
Onward(p, s) ==
  LET v == p[1]
      inside == p[2] IN
  IF op[v] \in {"function", "data"} /\ v # s THEN {}
  ELSE {<<w, IF op[w] = "global" THEN <<>> ELSE inside>> : w \in Beside(v)}
         \cup {<<b[2], Append(inside, b[3])>> : b \in {d \in Bindings : d[1] = v /\ d[3] \notin Range(inside)}}
         \cup {<<b[1], IF inside = <<>> THEN <<>> ELSE SubSeq(inside, 1, Len(inside) - 1)>> :
                b \in {d \in Bindings : d[2] = v /\ (inside = <<>> \/ d[3] = inside[Len(inside)])}}

Origin(s) == IF s \in Call THEN called[s] ELSE s
FlowFrom(s) ==
  LET R[n \in Nat] == IF n = 0 THEN {<<Origin(s), <<>>>>} ELSE UNION {{p} \cup Onward(p, s) : p \in R[n - 1]}
  IN {p[1] : p \in R[MaxPath]}
Flow == {<<s, FlowFrom(s)>> : s \in Starts}

Found == getClusterValues(Origin(start), clusters)

\* An analysis that ends without giving up has found every value that data can
\* flow to or from what it started at, whatever the order of the pointers in its
\* sets.  FuncAliasAnalysis and ICallAliasAnalysis prune targets on its word, so
\* they would wrongly remove what it missed.  A function that is looked up by its
\* name has such calls for no users: FuncAliasAnalysis skips what Global_symbol_get_funcSet
\* has for that reason.
FlowFound ==
  pc = "done" /\ success /\ start \notin UNION Range(symbols) =>
    \A flow \in Flow : flow[1] = start => flow[2] \subseteq Found

\* What an analysis that has not given up has connected by the time it takes the next
\* value, whatever it took before and in whatever order.
Connects(pairs) == \A e \in pairs : \E c \in clusters : e \subseteq c
CallFollowed(c) == \A f \in Callees[c] : Connects(Bound(f, c))
Listed(v) == v \in Analyzed \cup UNION Range(LV)

\* The users of each value, and of the constants of these kinds that it is part of.
UsesThrough(kinds) ==
  [v \in Value |-> Reached(users[v], [u \in Value |-> IF op[u] \in kinds THEN users[u] ELSE {}])]
valueUses == UsesThrough(Operators)
globalUses == UsesThrough({"operator", "aggregate"})
startUses == UsesThrough({"operator", "aggregate", "alias"})

UserFollowed(u) == op[u] \notin {"binary", "asm"} /\ (u \in Call => CallFollowed(u))
GlobalUseFollowed(u) ==
  /\ op[u] \in Insts => Connects(analyzeFunction[parent[u]])
  /\ op[u] = "global" => Listed(u)
StartUseFollowed(u) == GlobalUseFollowed(u) /\ (u \in Call => CallFollowed(u))

InitializerFollowed(g, v) ==
  /\ Connects({{g, v}} \cup IF args[g] = <<>> THEN {} ELSE analyzeGlobalInitializer(g))
  /\ \A u \in Named(g) : op[u] = "global" => Listed(u)
GlobalFollowed(v) ==
  /\ "llvm_used" \notin flags[v]
  /\ "external" \in flags[v] => Global_Unique_GV_Map(v) # {v}
  /\ \A g \in Global_Unique_GV_Map(v) :
       InitializerFollowed(g, v) /\ \A u \in globalUses[g] : GlobalUseFollowed(u)

CallersFollowed(v) ==
  \A c \in Callers[parent[v]] : Connects(Exchanged(v, c) \cup analyzeFunction[parent[c]])

CaseFollowed(v) ==
  /\ op[v] \notin {"binary", "asm", "strip"}
  /\ op[v] = "global" /\ "safe_macro" \notin flags[v] => GlobalFollowed(v)
  /\ op[v] \in {"call", "copy"} => CallFollowed(v)
  /\ op[v] \in {"argument", "return"} => CallersFollowed(v)

Followed(v) ==
  op[v] \notin {"data", "function"} => CaseFollowed(v) /\ \A u \in valueUses[v] \ {v} : UserFollowed(u)

\* HandleFunc counts the arguments it binds as analysed.
HandedDown(f) == UNION {Range(params[g]) : g \in UNION {Callees[c] : c \in startUses[f] \cap Call}}

\* No value counts as analysed whose users, callees, callers or initializers were left
\* out, and no use of the function HandleFunc began with: the loops of interCaseHandler
\* that end early, on an unknown operation or a list that is too long, end the analysis.
NothingLeftOut ==
  pc \in {"pop", "done"} /\ success =>
    /\ \A v \in Analyzed : Followed(v) \/ (start \in Function /\ v \in HandedDown(start))
    /\ start \in Function => \A u \in startUses[start] : StartUseFollowed(u)

\* The worklist empties, though globals name each other and functions call themselves.
Terminates == <>(pc = "done")
=============================================================================
