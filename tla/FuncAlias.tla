----------------------------- MODULE FuncAlias ------------------------------
(***************************************************************************)
(* One round of FuncAliasAnalysis: OpenMP threads follow every             *)
(* address-taken function forward to the indirect calls it may reach, meet *)
(* at the barrier of the parallel loop, and then remove each function from *)
(* the indirect calls it does not reach.                                   *)
(*                                                                         *)
(* The alias analysis of one function (HandleFunc) has a graph of its own  *)
(* and only looks up Callers and Callees, which no step of the round       *)
(* changes; but a lookup of a missing key inserts it without the lock, so  *)
(* that another thread's lookup may fail.  What a function's analysis      *)
(* finds is therefore any finding, chosen when the round starts.  The      *)
(* threads share the sets below, behind one lock except for two reads.     *)
(***************************************************************************)
EXTENDS Naturals, FiniteSets

CONSTANTS
  Thread,
  Function,      \* llvm::Function pointers: the same symbol has one per module
  AddressTaken,  \* Global_AddressTaken_Func_Set
  ICall,         \* indirect calls, the keys of ICallees
  Name, nameOf,  \* getName
  Id, guidOf,    \* getGUID: the name, qualified by the file for a static
  Defs,          \* getGlobalFuncs: the definitions of a function's name
  Targets,       \* ICallees when the round starts
  FoundBefore,   \* names earlier rounds may have put in Global_symbol_get_funcSet
  Findings,      \* what HandleFunc may find about a function
  Nobody

\* AliasFailureReasons; a function too complex for its lists fails with "none".
FailReason == {"none", "binary_operation", "llvm_used", "exceed_max", "inline_asm",
               "init_in_asm", "strip_invariant_group"}

\* Success with the indirect calls that are reached, or a reason; and the names
\* looked up with __symbol_get on the way.
Finding == [outcome : {"success"} \cup FailReason, calls : SUBSET ICall, symbols : SUBSET Name]

ASSUME FunctionAssumption ==
  /\ IsFiniteSet(Function) /\ IsFiniteSet(ICall)
  /\ AddressTaken \subseteq Function
  /\ nameOf \in [Function -> Name]
  /\ guidOf \in [Function -> Id]
  /\ Defs \in [Function -> SUBSET Function]
  /\ \A f, g \in Function : /\ guidOf[f] = guidOf[g] => nameOf[f] = nameOf[g]
                            /\ nameOf[f] = nameOf[g] => Defs[f] = Defs[g]
  /\ Targets \in [ICall -> SUBSET Function]
ASSUME ThreadAssumption == Nobody \notin Thread \cup Function /\ Thread # {}
ASSUME FindingsAssumption == Findings \subseteq Finding /\ FoundBefore \subseteq Name

VARIABLES
  finding,          \* function -> what HandleFunc finds about it
  phase,            \* which parallel loop runs
  todo,             \* loop iterations no thread has taken
  pc, job,          \* thread -> where it is, and the function it is at
  lock,             \* the holder of the OpenMP lock
  failedFuncs,      \* Global_failed_Func_Set, a set of GUIDs
  symbolGet,        \* Global_symbol_get_funcSet
  result,           \* Global_Func_Alias_Result_Map
  failure_reasons,
  succeeded,        \* SucceedFuncSet
  influence,        \* FuncInfluenceMap
  ICallees,
  icallTargets

shared == <<failedFuncs, symbolGet, result, failure_reasons, succeeded, influence>>
threads == <<phase, todo, pc, job, lock>>
vars == <<finding, threads, shared, ICallees, icallTargets>>

\* What a failure is remembered by, for every module's view of the symbol.
NameKey(f) == nameOf[f]
Key(f) == guidOf[f]

NumTargets(callees) == Cardinality({e \in ICall \X Function : e[2] \in callees[e[1]]})

\* Where a thread waits for the lock, and where it is once it holds it.
Section == [ignored |-> "ignoring", analyzed |-> "merging", merged |-> "recording"]
PC == {"idle", "checkFailed", "checkSymbol", "analyze", "ignored", "ignoring",
       "analyzed", "merging", "merged", "recording"}
Result == {"unknown", "ignore_analysis", "success"} \cup FailReason

TypeOK ==
  /\ finding \in [AddressTaken -> Findings]
  /\ phase \in {"analyze", "update", "done"}
  /\ todo \subseteq AddressTaken \cup ICall
  /\ pc \in [Thread -> PC]
  /\ job \in [Thread -> AddressTaken \cup {Nobody}]
  /\ lock \in Thread \cup {Nobody}
  /\ failedFuncs \subseteq Id
  /\ symbolGet \subseteq Name
  /\ result \in [AddressTaken -> Result]
  /\ failure_reasons \in [FailReason -> Nat]
  /\ succeeded \subseteq AddressTaken
  /\ influence \in [Function -> SUBSET ICall]
  /\ ICallees \in [ICall -> SUBSET Function]
  /\ icallTargets \in Nat

Init ==
  /\ finding \in [AddressTaken -> Findings]
  /\ phase = "analyze"
  /\ todo = AddressTaken
  /\ pc = [t \in Thread |-> "idle"]
  /\ job = [t \in Thread |-> Nobody]
  /\ lock = Nobody
  /\ failedFuncs = {}
  /\ symbolGet \in SUBSET FoundBefore
  /\ result = [f \in AddressTaken |-> "unknown"]
  /\ failure_reasons = [r \in FailReason |-> 0]
  /\ succeeded = {}
  /\ influence = [f \in Function |-> {}]
  /\ ICallees = Targets
  /\ icallTargets = NumTargets(Targets)

-----------------------------------------------------------------------------
(* The first loop: one address-taken function per iteration. *)

GoTo(t, at) == pc' = [pc EXCEPT ![t] = at]

\* schedule(dynamic, 1): an idle thread takes the next iteration; the order is
\* that of the pointers in a set.
Take(t) ==
  /\ phase = "analyze"
  /\ pc[t] = "idle"
  /\ \E f \in todo : todo' = todo \ {f} /\ job' = [job EXCEPT ![t] = f]
  /\ GoTo(t, "checkFailed")
  /\ UNCHANGED <<finding, phase, lock, shared, ICallees, icallTargets>>

\* The two checks read their set without the lock: while another thread inserts,
\* the search may miss an element that is there.
FailedInserting == \E u \in Thread : pc[u] = "recording"
SymbolsInserting == \E u \in Thread : pc[u] = "merging" /\ finding[job[u]].symbols # {}

CheckFailed(t) ==
  /\ pc[t] = "checkFailed"
  /\ \/ Key(job[t]) \in failedFuncs /\ GoTo(t, "ignored")
     \/ /\ (Key(job[t]) \notin failedFuncs \/ FailedInserting)
        /\ GoTo(t, "checkSymbol")
  /\ UNCHANGED <<finding, phase, todo, job, lock, shared, ICallees, icallTargets>>

CheckSymbol(t) ==
  /\ pc[t] = "checkSymbol"
  /\ \/ nameOf[job[t]] \in symbolGet /\ GoTo(t, "ignored")
     \/ /\ (nameOf[job[t]] \notin symbolGet \/ SymbolsInserting)
        /\ GoTo(t, "analyze")
  /\ UNCHANGED <<finding, phase, todo, job, lock, shared, ICallees, icallTargets>>

HandleFunc(t) ==
  /\ pc[t] = "analyze"
  /\ GoTo(t, "analyzed")
  /\ UNCHANGED <<finding, phase, todo, job, lock, shared, ICallees, icallTargets>>

SetLock(t) ==
  /\ pc[t] \in DOMAIN Section
  /\ lock = Nobody
  /\ lock' = t
  /\ GoTo(t, Section[pc[t]])
  /\ UNCHANGED <<finding, phase, todo, job, shared, ICallees, icallTargets>>

KeptOnFailure(t) ==
  lock' = IF pc[t] = "recording" /\ finding[job[t]].outcome # "success" THEN lock ELSE Nobody
UnsetLock(t) == lock' = Nobody

\* The body of a critical section, at whose end the thread goes on.
Writing(t, at, next) ==
  /\ pc[t] = at
  /\ UnsetLock(t)
  /\ GoTo(t, next)
  /\ UNCHANGED <<finding, phase, todo, ICallees, icallTargets>>
Leave(t) == job' = [job EXCEPT ![t] = Nobody]

Ignore(t) ==
  /\ Writing(t, "ignoring", "idle")
  /\ Leave(t)
  /\ result' = [result EXCEPT ![job[t]] = "ignore_analysis"]
  /\ UNCHANGED <<failedFuncs, symbolGet, failure_reasons, succeeded, influence>>

MergeSymbols(t) ==
  /\ Writing(t, "merging", "merged")
  /\ symbolGet' = symbolGet \cup finding[job[t]].symbols
  /\ UNCHANGED <<job, failedFuncs, result, failure_reasons, succeeded, influence>>

RecordFailure(t) ==
  LET f == job[t]
      reason == finding[f].outcome
  IN  /\ Writing(t, "recording", "idle")
      /\ Leave(t)
      /\ reason # "success"
      /\ failure_reasons' = [failure_reasons EXCEPT ![reason] = @ + 1]
      /\ failedFuncs' = failedFuncs \cup {Key(f)}
      /\ result' = [result EXCEPT ![f] = reason]
      /\ UNCHANGED <<symbolGet, succeeded, influence>>

InfluenceReplaced(defs, calls) == [d \in Function |-> IF d \in defs THEN calls ELSE influence[d]]
InfluenceWith(defs, calls) == [d \in Function |-> influence[d] \cup (IF d \in defs THEN calls ELSE {})]

RecordSuccess(t) ==
  LET f == job[t]
  IN  /\ Writing(t, "recording", "idle")
      /\ Leave(t)
      /\ finding[f].outcome = "success"
      /\ succeeded' = succeeded \cup {f}
      /\ result' = [result EXCEPT ![f] = "success"]
      /\ influence' = InfluenceWith(Defs[f], finding[f].calls)
      /\ UNCHANGED <<failedFuncs, symbolGet, failure_reasons>>

-----------------------------------------------------------------------------
(* The second loop: one indirect call per iteration. *)

NoBarrier == todo = {}
Barrier == todo = {} /\ \A t \in Thread : pc[t] = "idle"

StartUpdate ==
  /\ phase = "analyze"
  /\ Barrier
  /\ phase' = "update"
  /\ todo' = ICall
  /\ UNCHANGED <<finding, pc, job, lock, shared, ICallees, icallTargets>>

UncheckedPrunable(c) == {f \in succeeded : c \notin influence[f]}
Prunable(c) == {f \in succeeded : Key(f) \notin failedFuncs /\ c \notin influence[f]}

\* A whole iteration: no other thread reads or writes this call's entry, and
\* every erasure holds the lock.
UpdateICall(t) ==
  /\ phase = "update"
  /\ pc[t] = "idle"
  /\ lock = Nobody
  /\ \E c \in todo : /\ todo' = todo \ {c}
                     /\ ICallees' = [ICallees EXCEPT ![c] = @ \ Prunable(c)]
  /\ UNCHANGED <<finding, phase, pc, job, lock, shared, icallTargets>>

CountTargets ==
  /\ phase = "update"
  /\ Barrier
  /\ phase' = "done"
  /\ icallTargets' = NumTargets(ICallees)
  /\ UNCHANGED <<finding, todo, pc, job, lock, shared, ICallees>>

Step(t) == \/ Take(t) \/ CheckFailed(t) \/ CheckSymbol(t) \/ HandleFunc(t)
           \/ SetLock(t)
           \/ Ignore(t) \/ MergeSymbols(t) \/ RecordFailure(t) \/ RecordSuccess(t)
           \/ UpdateICall(t)

Next == StartUpdate \/ CountTargets \/ \E t \in Thread : Step(t)

\* The operating system runs every thread of the team; one that waits for the
\* lock gets it in the end, since it is taken a bounded number of times.
Fairness == WF_vars(StartUpdate) /\ WF_vars(CountTargets) /\ \A t \in Thread : WF_vars(Step(t))

Spec == Init /\ [][Next]_vars
FairSpec == Spec /\ Fairness

-----------------------------------------------------------------------------
(* Properties. *)

Pruned(c) == Targets[c] \ ICallees[c]

\* A function is removed from a call only after all its analyses: its symbol
\* failed in no module, and no function of its name that was analysed reaches
\* the call, whichever threads did this and in whatever order.  The latter is said of
\* functions with definitions: one that no module defines is in no Defs, and is removed
\* from the calls its own analysis reached too.
PrunedJustified ==
  \A c \in ICall : \A d \in Pruned(c) :
    /\ \A f \in AddressTaken : guidOf[f] = guidOf[d] => result[f] \notin FailReason
    /\ \A f \in AddressTaken : /\ finding[f].outcome = "success"
                              /\ result[f] # "ignore_analysis"
                              /\ d \in Defs[f]
                              => c \notin finding[f].calls

\* No use is forgotten: for a function removed from a call, the same symbol was
\* analysed in every module that takes its address, except for those skipped
\* because __symbol_get may find it.
NoUseForgotten ==
  \A c \in ICall : \A d \in Pruned(c) : \A f \in AddressTaken :
    guidOf[f] = guidOf[d] =>
      \/ result[f] = "success"
      \/ result[f] = "ignore_analysis" /\ nameOf[f] \in symbolGet

\* The threads make no difference: when the round ends, the targets left are a
\* function of what HandleFunc finds.  This holds for a program of OneSymbolPerName;
\* with same-named statics or __symbol_get the targets depend on the schedule.
OneSymbolPerName ==
  /\ FoundBefore = {} /\ \A x \in Findings : x.symbols = {}
  /\ \A f \in Function : \A d \in Defs[f] : guidOf[d] = guidOf[f]

Reaches(f, c) == \E g \in AddressTaken : f \in Defs[g] /\ c \in finding[g].calls
Resolved(f) == \A g \in AddressTaken : guidOf[g] = guidOf[f] => finding[g].outcome = "success"
ScheduleIndependent ==
  phase = "done" =>
    \A c \in ICall :
      Pruned(c) = {f \in Targets[c] \cap AddressTaken : Resolved(f) /\ ~Reaches(f, c)}

\* The round ends: no thread waits forever for the lock or at the barrier.
Finishes == <>(phase = "done")
=============================================================================
