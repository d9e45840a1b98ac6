------------------------------ MODULE Pipeline ------------------------------
(***************************************************************************)
(* The program from its files to its tables: load, passes, update, and a   *)
(* run of it after another, when other files may be readable.              *)
(*                                                                         *)
(* The co-analysis loop between the passes and the update is               *)
(* RefinementLoop; here it leaves the targets as CallGraphPass found them. *)
(***************************************************************************)
EXTENDS Loader, Database

CONSTANT MaxRuns  \* bound

ASSUME RunsAssumption == MaxRuns \in Nat \ {0}

vars == <<loaderVars, tables, databaseVars>>

TypeOK == LoaderTypeOK /\ SymbolsTypeOK /\ DatabaseTypeOK /\ run \in 1..MaxRuns

Init == LoaderInit /\ SymbolsInit /\ DatabaseInit

LoadStep(t) == Load(t) /\ UNCHANGED <<tables, databaseVars>>

\* What the pass does to Modules[at].
PassStep == Callback /\ Analyze(step, stage, Modules[at]) /\ UNCHANGED databaseVars

MainStep == (LoadStaticData \/ EndStage) /\ UNCHANGED <<tables, databaseVars>>

UpdateStep == step = "update" /\ update_database /\ UNCHANGED <<loaderVars, tables>>

\* The update follows the analysis, and ends before main returns.
LeaveStep ==
  /\ Leave /\ (step = "update" => query \in {"closed", "aborted"})
  /\ UNCHANGED <<tables, databaseVars>>

\* The next run starts from nothing but the database.
Relaunch ==
  /\ run < MaxRuns
  /\ Launch /\ SymbolsReset
  /\ query' = "connect" /\ table' = 1 /\ cmds' = <<>> /\ run' = run + 1
  /\ UNCHANGED <<database, failures>>

Proceed == PassStep \/ MainStep \/ UpdateStep \/ LeaveStep
Next == (\E t \in Thread : LoadStep(t)) \/ Proceed \/ Relaunch

\* Threads and queries do not stall; nobody has to run the program again.
Fairness == (\A t \in Thread : WF_vars(LoadStep(t))) /\ WF_vars(Proceed)
Spec == Init /\ [][Next]_vars /\ Fairness

-----------------------------------------------------------------------------
(* What a program compiled with debug information lets the hashes tell     *)
(* apart; the theorems about the tables name which of these they need.     *)

Exportable == hasBody \cap (external \cup addressTaken)
Declared == addressTaken \ hasBody

\* Definitions of one name and place are copies of one function.
PlacesTell == \A f, g \in Exportable : funcInfoHash(f) = funcInfoHash(g) => source[f] = source[g]
\* A name that is declared in one module is one function's in all.
NamesLinked == \A g \in Declared, f \in Exportable \cup Declared : name[f] = name[g] => source[f] = source[g]
\* Indirect calls of one hash are copies of one call.
SitesTell == \A c, d \in ICall : callInfoHash(c) = callInfoHash(d) => callType[c] = callType[d]

-----------------------------------------------------------------------------
Analyzed == step \in {"analyzed", "update", "returned"}
Loaded(f) == module[f] \in Readable
Site(c) == callInfoHash(c)

\* Whatever order the files were loaded in, an indirect call of a file that was read is
\* resolved once among the copies of its function, with every function of its type whose
\* address is taken in a file that was read.
SitesResolvedOnce ==
  Analyzed => \A c \in ICall : Loaded(caller[c]) =>
    \E d \in DOMAIN ICallees :
      /\ \A e \in DOMAIN ICallees : Site(e) = Site(c) <=> e = d
      /\ {source[f] : f \in ICallees[d]}
           = {source[f] : f \in {g \in addressTaken : Loaded(g) /\ type[g] = callType[c]}}

\* The copy a direct call is resolved to is the copy whose own calls are resolved.
CopiesAgree ==
  Analyzed => \A c \in DOMAIN Callees \ ICall : \A d \in Call :
    caller[d] \in Callees[c] => d \in DOMAIN Callees

\* A name other modules may call leads to definitions, and to all of them.
NamesLeadToDefinitions ==
  Analyzed => \A f \in {g \in Function : Loaded(g) /\ g \in hasBody \cap (external \cup addressTaken)} :
    /\ getGlobalFuncs(f) \subseteq hasBody
    /\ source[f] \in {source[g] : g \in getGlobalFuncs(f)}

\* "Use unified function": a direct call of a function with a body is resolved to a copy
\* of that function.
CalleeIsCalled ==
  Analyzed => \A c \in DOMAIN Callees \ ICall :
    callee[c] \in hasBody => {source[f] : f \in Callees[c]} = {source[callee[c]]}

\* After an update none of whose queries failed, the tables, joined by the hash, say
\* which functions each call has and list every function whose address is taken; what
\* failed in an earlier run leaves no trace.
Named(F) == {name[f] : f \in F}
Reported ==
  step = "returned" /\ query = "closed" /\ run \notin ToSet(failures) =>
    /\ \A t \in 1..3 : WrittenBy(t) \subseteq {run} /\ Cardinality(RowsOf(t)) = Len(database[t].rows)
    /\ {r[1] : r \in RowsOf(1)} = DOMAIN ICallees
    /\ \A r \in RowsOf(1) :
         LET joined == {q[2] : q \in {e \in RowsOf(2) : e[1] = r[3]}} IN
         r[2] = Cardinality(joined) /\ Named(joined) = Named(ICallees[r[1]])
    /\ {r[1] : r \in RowsOf(3)} = {f \in addressTaken : Loaded(f)}

Terminates == step = "load" ~> step = "returned"
=============================================================================
