-------------------------- MODULE FuncAliasProofs ---------------------------
(***************************************************************************)
(* Theorems about one round of FuncAliasAnalysis, for any number of        *)
(* threads, functions and indirect calls.                                  *)
(***************************************************************************)
EXTENDS FuncAlias, FiniteSetTheorems, TLAPS

Busy(f) == \E t \in Thread : job[t] = f

\* Every thread has its own function, which it took from the loop.
JobsOK ==
  /\ \A t \in Thread : pc[t] = "idle" <=> job[t] = Nobody
  /\ \A t, u \in Thread : job[t] = job[u] /\ t # u => job[t] = Nobody

\* The loops come one after the other.
PhasesOK ==
  /\ phase = "analyze" => todo \subseteq AddressTaken /\ ICallees = Targets
  /\ phase # "analyze" => todo \subseteq ICall /\ \A t \in Thread : pc[t] = "idle"
  /\ phase = "done" => todo = {}

\* A function is unresolved until its thread is through with it.
ResultsOK == \A f \in AddressTaken :
  /\ result[f] = "unknown" <=> Busy(f) \/ (phase = "analyze" /\ f \in todo)
  /\ f \in todo /\ phase = "analyze" => ~Busy(f)

\* What each result says, and what the thread that wrote it left behind.
SuccessOK == \A f \in AddressTaken :
  /\ f \in succeeded <=> result[f] = "success"
  /\ result[f] = "success" => /\ finding[f].outcome = "success"
                              /\ \A d \in Defs[f] : finding[f].calls \subseteq influence[d]
FailureOK == \A f \in AddressTaken :
  result[f] \in FailReason => finding[f].outcome = result[f] /\ guidOf[f] \in failedFuncs
Skippable(f) == guidOf[f] \in failedFuncs \/ nameOf[f] \in symbolGet
IgnoredOK ==
  /\ \A f \in AddressTaken : result[f] = "ignore_analysis" => Skippable(f)
  /\ \A t \in Thread : pc[t] \in {"ignored", "ignoring"} => Skippable(job[t])

\* A removed function was one the second loop may remove.
PrunedOK == \A c \in ICall : Pruned(c) \subseteq Prunable(c)

Inv == /\ TypeOK /\ JobsOK /\ PhasesOK /\ ResultsOK
       /\ SuccessOK /\ FailureOK /\ IgnoredOK /\ PrunedOK

-----------------------------------------------------------------------------
USE FunctionAssumption, ThreadAssumption, FindingsAssumption

LEMMA Sections ==
  /\ DOMAIN Section = {"ignored", "analyzed", "merged"}
  /\ Section["ignored"] = "ignoring"
  /\ Section["analyzed"] = "merging"
  /\ Section["merged"] = "recording"
BY DEF Section

LEMMA NumTargetsType == ASSUME NEW callees \in [ICall -> SUBSET Function]
                        PROVE  NumTargets(callees) \in Nat
<1>1. IsFiniteSet(ICall \X Function)
  BY FS_Product
<1>2. IsFiniteSet({e \in ICall \X Function : e[2] \in callees[e[1]]})
  BY <1>1, FS_Subset
<1> QED BY <1>2, FS_CardinalityType DEF NumTargets

LEMMA InitInv == Init => Inv
<1> SUFFICES ASSUME Init PROVE Inv
  OBVIOUS
<1>1. TypeOK
  BY NumTargetsType DEF Init, TypeOK, PC, Result, FailReason
<1>2. JobsOK /\ PhasesOK
  BY DEF Init, JobsOK, PhasesOK
<1>3. ResultsOK /\ SuccessOK /\ FailureOK /\ IgnoredOK
  BY DEF Init, ResultsOK, SuccessOK, FailureOK, IgnoredOK, Busy, FailReason
<1>4. PrunedOK
  BY DEF Init, PrunedOK, Pruned
<1> QED BY <1>1, <1>2, <1>3, <1>4 DEF Inv

-----------------------------------------------------------------------------

LEMMA Working == ASSUME TypeOK, JobsOK, NEW t \in Thread, pc[t] # "idle"
                 PROVE  job[t] \in AddressTaken /\ finding[job[t]] \in Finding
BY DEF TypeOK, JobsOK

LEMMA TakeInv == ASSUME Inv, NEW t \in Thread, Take(t) PROVE Inv'
<1> USE DEF Inv, Take, GoTo, shared
<1>0. PICK f \in todo : todo' = todo \ {f} /\ job' = [job EXCEPT ![t] = f]
  OBVIOUS
<1>f. f \in AddressTaken /\ ~Busy(f) /\ f # Nobody
  BY DEF PhasesOK, ResultsOK
<1>1. TypeOK'
  BY <1>0, <1>f DEF TypeOK, PC, Result
<1>2. JobsOK'
  BY <1>0, <1>f DEF TypeOK, JobsOK, Busy
<1>3. PhasesOK'
  BY DEF TypeOK, JobsOK, PhasesOK
<1>4. ResultsOK'
  BY DEF TypeOK, JobsOK, PhasesOK, ResultsOK, Busy
<1>5. SuccessOK'
  BY DEF TypeOK, SuccessOK
<1>6. FailureOK'
  BY DEF TypeOK, FailureOK
<1>7. IgnoredOK'
  BY DEF TypeOK, JobsOK, IgnoredOK, Skippable
<1>8. PrunedOK'
  BY DEF TypeOK, PhasesOK, PrunedOK, Pruned, Prunable, Key
<1> QED BY <1>1, <1>2, <1>3, <1>4, <1>5, <1>6, <1>7, <1>8

LEMMA CheckFailedInv == ASSUME Inv, NEW t \in Thread, CheckFailed(t) PROVE Inv'
<1> USE DEF Inv, CheckFailed, Key, GoTo, shared
<1>1. TypeOK'
  BY DEF TypeOK, PC, Result
<1>2. JobsOK'
  BY DEF TypeOK, JobsOK
<1>3. PhasesOK'
  BY DEF TypeOK, JobsOK, PhasesOK
<1>4. ResultsOK'
  BY DEF TypeOK, JobsOK, PhasesOK, ResultsOK, Busy
<1>5. SuccessOK'
  BY DEF TypeOK, SuccessOK
<1>6. FailureOK'
  BY DEF TypeOK, FailureOK
<1>7. IgnoredOK'
  BY DEF TypeOK, JobsOK, IgnoredOK, Skippable
<1>8. PrunedOK'
  BY DEF TypeOK, PhasesOK, PrunedOK, Pruned, Prunable, Key
<1> QED BY <1>1, <1>2, <1>3, <1>4, <1>5, <1>6, <1>7, <1>8

LEMMA CheckSymbolInv == ASSUME Inv, NEW t \in Thread, CheckSymbol(t) PROVE Inv'
<1> USE DEF Inv, CheckSymbol, GoTo, shared
<1>1. TypeOK'
  BY DEF TypeOK, PC, Result
<1>2. JobsOK'
  BY DEF TypeOK, JobsOK
<1>3. PhasesOK'
  BY DEF TypeOK, JobsOK, PhasesOK
<1>4. ResultsOK'
  BY DEF TypeOK, JobsOK, PhasesOK, ResultsOK, Busy
<1>5. SuccessOK'
  BY DEF TypeOK, SuccessOK
<1>6. FailureOK'
  BY DEF TypeOK, FailureOK
<1>7. IgnoredOK'
  BY DEF TypeOK, JobsOK, IgnoredOK, Skippable
<1>8. PrunedOK'
  BY DEF TypeOK, PhasesOK, PrunedOK, Pruned, Prunable, Key
<1> QED BY <1>1, <1>2, <1>3, <1>4, <1>5, <1>6, <1>7, <1>8

LEMMA HandleFuncInv == ASSUME Inv, NEW t \in Thread, HandleFunc(t) PROVE Inv'
<1> USE DEF Inv, HandleFunc, GoTo, shared
<1>1. TypeOK'
  BY DEF TypeOK, PC, Result
<1>2. JobsOK'
  BY DEF TypeOK, JobsOK
<1>3. PhasesOK'
  BY DEF TypeOK, JobsOK, PhasesOK
<1>4. ResultsOK'
  BY DEF TypeOK, JobsOK, PhasesOK, ResultsOK, Busy
<1>5. SuccessOK'
  BY DEF TypeOK, SuccessOK
<1>6. FailureOK'
  BY DEF TypeOK, FailureOK
<1>7. IgnoredOK'
  BY DEF TypeOK, JobsOK, IgnoredOK, Skippable
<1>8. PrunedOK'
  BY DEF TypeOK, PhasesOK, PrunedOK, Pruned, Prunable, Key
<1> QED BY <1>1, <1>2, <1>3, <1>4, <1>5, <1>6, <1>7, <1>8

LEMMA SetLockInv == ASSUME Inv, NEW t \in Thread, SetLock(t) PROVE Inv'
<1> USE DEF Inv, SetLock, GoTo, shared
<1>1. TypeOK'
  BY Sections DEF TypeOK, PC, Result
<1>2. JobsOK'
  BY Sections DEF TypeOK, JobsOK
<1>3. PhasesOK'
  BY Sections DEF TypeOK, JobsOK, PhasesOK
<1>4. ResultsOK'
  BY Sections DEF TypeOK, JobsOK, PhasesOK, ResultsOK, Busy
<1>5. SuccessOK'
  BY Sections DEF TypeOK, SuccessOK
<1>6. FailureOK'
  BY Sections DEF TypeOK, FailureOK
<1>7. IgnoredOK'
  BY Sections DEF TypeOK, JobsOK, IgnoredOK, Skippable
<1>8. PrunedOK'
  BY Sections DEF TypeOK, PhasesOK, PrunedOK, Pruned, Prunable, Key
<1> QED BY <1>1, <1>2, <1>3, <1>4, <1>5, <1>6, <1>7, <1>8

LEMMA IgnoreInv == ASSUME Inv, NEW t \in Thread, Ignore(t) PROVE Inv'
<1> USE DEF Inv, Ignore, Leave, Writing, UnsetLock, GoTo, shared
<1>0. job[t] \in AddressTaken /\ finding[job[t]] \in Finding
  BY Working
<1>1. TypeOK'
  BY DEF TypeOK, PC, Result
<1>2. JobsOK'
  BY DEF TypeOK, JobsOK
<1>3. PhasesOK'
  BY DEF TypeOK, JobsOK, PhasesOK
<1>4. ResultsOK'
  BY DEF TypeOK, JobsOK, PhasesOK, ResultsOK, Busy
<1>5. SuccessOK'
  <2>1. result[job[t]] = "unknown"
    BY <1>0 DEF ResultsOK, Busy
  <2> QED BY <1>0, <2>1 DEF TypeOK, SuccessOK
<1>6. FailureOK'
  BY <1>0 DEF TypeOK, FailureOK, FailReason
<1>7. IgnoredOK'
  BY DEF TypeOK, JobsOK, IgnoredOK, Skippable
<1>8. PrunedOK'
  BY DEF TypeOK, PhasesOK, PrunedOK, Pruned, Prunable, Key
<1> QED BY <1>1, <1>2, <1>3, <1>4, <1>5, <1>6, <1>7, <1>8

LEMMA MergeSymbolsInv == ASSUME Inv, NEW t \in Thread, MergeSymbols(t) PROVE Inv'
<1> USE DEF Inv, MergeSymbols, Writing, UnsetLock, GoTo, shared
<1>0. job[t] \in AddressTaken /\ finding[job[t]] \in Finding
  BY Working
<1>1. TypeOK'
  BY <1>0 DEF TypeOK, PC, Result, Finding
<1>2. JobsOK'
  BY DEF TypeOK, JobsOK
<1>3. PhasesOK'
  BY DEF TypeOK, JobsOK, PhasesOK
<1>4. ResultsOK'
  BY DEF TypeOK, JobsOK, PhasesOK, ResultsOK, Busy
<1>5. SuccessOK'
  BY DEF TypeOK, SuccessOK
<1>6. FailureOK'
  BY DEF TypeOK, FailureOK
<1>7. IgnoredOK'
  BY DEF TypeOK, JobsOK, IgnoredOK, Skippable
<1>8. PrunedOK'
  BY DEF TypeOK, PhasesOK, PrunedOK, Pruned, Prunable, Key
<1> QED BY <1>1, <1>2, <1>3, <1>4, <1>5, <1>6, <1>7, <1>8

LEMMA RecordFailureInv == ASSUME Inv, NEW t \in Thread, RecordFailure(t) PROVE Inv'
<1> USE DEF Inv, RecordFailure, Leave, Key, Writing, UnsetLock, GoTo, shared
<1>0. job[t] \in AddressTaken /\ finding[job[t]] \in Finding
  BY Working
<1>1. TypeOK'
  BY <1>0 DEF TypeOK, PC, Result, Finding, FailReason
<1>2. JobsOK'
  BY DEF TypeOK, JobsOK
<1>3. PhasesOK'
  BY DEF TypeOK, JobsOK, PhasesOK
<1>4. ResultsOK'
  BY <1>0 DEF TypeOK, JobsOK, PhasesOK, ResultsOK, Busy, Finding, FailReason
<1>5. SuccessOK'
  BY DEF TypeOK, SuccessOK
<1>6. FailureOK'
  BY DEF TypeOK, FailureOK
<1>7. IgnoredOK'
  BY DEF TypeOK, JobsOK, IgnoredOK, Skippable
<1>8. PrunedOK'
  BY DEF TypeOK, PhasesOK, PrunedOK, Pruned, Prunable, Key
<1> QED BY <1>1, <1>2, <1>3, <1>4, <1>5, <1>6, <1>7, <1>8

LEMMA RecordSuccessInv == ASSUME Inv, NEW t \in Thread, RecordSuccess(t) PROVE Inv'
<1> USE DEF Inv, RecordSuccess, Leave, InfluenceWith, Writing, UnsetLock, GoTo, shared
<1>0. job[t] \in AddressTaken /\ finding[job[t]] \in Finding
  BY Working
<1>1. TypeOK'
  BY <1>0 DEF TypeOK, PC, Result, Finding
<1>2. JobsOK'
  BY DEF TypeOK, JobsOK
<1>3. PhasesOK'
  BY DEF TypeOK, JobsOK, PhasesOK
<1>4. ResultsOK'
  BY DEF TypeOK, JobsOK, PhasesOK, ResultsOK, Busy
<1>5. SuccessOK'
  BY DEF TypeOK, SuccessOK
<1>6. FailureOK'
  BY <1>0 DEF TypeOK, FailureOK, FailReason
<1>7. IgnoredOK'
  BY DEF TypeOK, JobsOK, IgnoredOK, Skippable
<1>8. PrunedOK'
  BY DEF TypeOK, PhasesOK, PrunedOK, Pruned, Prunable, Key
<1> QED BY <1>1, <1>2, <1>3, <1>4, <1>5, <1>6, <1>7, <1>8

LEMMA StartUpdateInv == ASSUME Inv, StartUpdate PROVE Inv'
<1> USE DEF Inv, StartUpdate, Barrier, shared
<1>1. TypeOK'
  BY DEF TypeOK, PC, Result
<1>2. JobsOK'
  BY DEF TypeOK, JobsOK
<1>3. PhasesOK'
  BY DEF TypeOK, JobsOK, PhasesOK
<1>4. ResultsOK'
  BY DEF TypeOK, JobsOK, PhasesOK, ResultsOK, Busy
<1>5. SuccessOK'
  BY DEF TypeOK, SuccessOK
<1>6. FailureOK'
  BY DEF TypeOK, FailureOK
<1>7. IgnoredOK'
  BY DEF TypeOK, JobsOK, IgnoredOK, Skippable
<1>8. PrunedOK'
  BY DEF TypeOK, PhasesOK, PrunedOK, Pruned, Prunable, Key
<1> QED BY <1>1, <1>2, <1>3, <1>4, <1>5, <1>6, <1>7, <1>8

LEMMA UpdateICallInv == ASSUME Inv, NEW t \in Thread, UpdateICall(t) PROVE Inv'
<1> USE DEF Inv, UpdateICall, shared
<1>0. PICK c \in todo : todo' = todo \ {c} /\ ICallees' = [ICallees EXCEPT ![c] = @ \ Prunable(c)]
  OBVIOUS
<1>1. TypeOK'
  BY <1>0 DEF TypeOK, PC, Result
<1>2. JobsOK'
  BY DEF TypeOK, JobsOK
<1>3. PhasesOK'
  BY DEF TypeOK, JobsOK, PhasesOK
<1>4. ResultsOK'
  BY DEF TypeOK, JobsOK, PhasesOK, ResultsOK, Busy
<1>5. SuccessOK'
  BY DEF TypeOK, SuccessOK
<1>6. FailureOK'
  BY DEF TypeOK, FailureOK
<1>7. IgnoredOK'
  BY DEF TypeOK, JobsOK, IgnoredOK, Skippable
<1>8. PrunedOK'
  BY DEF TypeOK, PhasesOK, PrunedOK, Pruned, Prunable, Key
<1> QED BY <1>1, <1>2, <1>3, <1>4, <1>5, <1>6, <1>7, <1>8

LEMMA CountTargetsInv == ASSUME Inv, CountTargets PROVE Inv'
<1> USE DEF Inv, CountTargets, Barrier, shared
<1>1. TypeOK'
  BY NumTargetsType DEF TypeOK, PC, Result
<1>2. JobsOK'
  BY NumTargetsType DEF TypeOK, JobsOK
<1>3. PhasesOK'
  BY NumTargetsType DEF TypeOK, JobsOK, PhasesOK
<1>4. ResultsOK'
  BY NumTargetsType DEF TypeOK, JobsOK, PhasesOK, ResultsOK, Busy
<1>5. SuccessOK'
  BY NumTargetsType DEF TypeOK, SuccessOK
<1>6. FailureOK'
  BY NumTargetsType DEF TypeOK, FailureOK
<1>7. IgnoredOK'
  BY NumTargetsType DEF TypeOK, JobsOK, IgnoredOK, Skippable
<1>8. PrunedOK'
  BY NumTargetsType DEF TypeOK, PhasesOK, PrunedOK, Pruned, Prunable, Key
<1> QED BY <1>1, <1>2, <1>3, <1>4, <1>5, <1>6, <1>7, <1>8

LEMMA StutterInv == ASSUME Inv, UNCHANGED vars PROVE Inv'
<1> USE DEF Inv, vars, shared, threads
<1>1. TypeOK'
  BY DEF TypeOK, PC, Result
<1>2. JobsOK'
  BY DEF TypeOK, JobsOK
<1>3. PhasesOK'
  BY DEF TypeOK, JobsOK, PhasesOK
<1>4. ResultsOK'
  BY DEF TypeOK, JobsOK, PhasesOK, ResultsOK, Busy
<1>5. SuccessOK'
  BY DEF TypeOK, SuccessOK
<1>6. FailureOK'
  BY DEF TypeOK, FailureOK
<1>7. IgnoredOK'
  BY DEF TypeOK, JobsOK, IgnoredOK, Skippable
<1>8. PrunedOK'
  BY DEF TypeOK, PhasesOK, PrunedOK, Pruned, Prunable, Key
<1> QED BY <1>1, <1>2, <1>3, <1>4, <1>5, <1>6, <1>7, <1>8

LEMMA NextInv == ASSUME Inv, [Next]_vars PROVE Inv'
<1>1. CASE StartUpdate
  BY <1>1, StartUpdateInv
<1>2. CASE CountTargets
  BY <1>2, CountTargetsInv
<1>3. ASSUME NEW t \in Thread, Step(t) PROVE Inv'
  BY <1>3, TakeInv, CheckFailedInv, CheckSymbolInv, HandleFuncInv, SetLockInv, IgnoreInv,
     MergeSymbolsInv, RecordFailureInv, RecordSuccessInv, UpdateICallInv DEF Step
<1>4. CASE UNCHANGED vars
  BY <1>4, StutterInv
<1> QED BY <1>1, <1>2, <1>3, <1>4 DEF Next

LEMMA Invariance == Spec => []Inv
BY InitInv, NextInv, PTL DEF Spec

(* The variables of a round keep their types: a thread never writes while it   *)
(* has no function, and what RecordFailure remembers is a GUID.                *)
THEOREM TypeCorrect == Spec => []TypeOK
<1>1. Inv => TypeOK
  BY DEF Inv
<1> QED BY <1>1, Invariance, PTL

(* Once a function was removed from a call, every function was analysed. *)
LEMMA RemovedAfterAnalysis ==
  ASSUME Inv, NEW c \in ICall, NEW d \in Pruned(c), NEW f \in AddressTaken
  PROVE  result[f] # "unknown" /\ d \in Prunable(c)
<1>1. phase # "analyze"
  BY DEF Inv, PhasesOK, Pruned
<1>2. ~Busy(f)
  BY <1>1 DEF Inv, TypeOK, PhasesOK, JobsOK, Busy
<1> QED BY <1>1, <1>2 DEF Inv, ResultsOK, PrunedOK

(* A function is removed from a call only after all its analyses, which        *)
(* neither failed in any module nor reach the call: UpdateICall after the      *)
(* barrier, over the merged FuncInfluenceMap.                                  *)
THEOREM PrunedAlwaysJustified == Spec => []PrunedJustified
<1>1. Inv => PrunedJustified
  <2> SUFFICES ASSUME Inv, NEW c \in ICall, NEW d \in Pruned(c), NEW f \in AddressTaken
               PROVE  /\ guidOf[f] = guidOf[d] => result[f] \notin FailReason
                      /\ /\ finding[f].outcome = "success"
                         /\ result[f] # "ignore_analysis"
                         /\ d \in Defs[f]
                         => c \notin finding[f].calls
    BY DEF PrunedJustified
  <2>1. result[f] # "unknown" /\ d \in Prunable(c) /\ d \in Function
    BY RemovedAfterAnalysis DEF Pruned
  <2>2. guidOf[f] = guidOf[d] => result[f] \notin FailReason
    BY <2>1 DEF Inv, FailureOK, Prunable, Key
  <2>3. ASSUME finding[f].outcome = "success", result[f] # "ignore_analysis", d \in Defs[f]
        PROVE  c \notin finding[f].calls
    <3>1. result[f] = "success"
      BY <2>1, <2>3 DEF Inv, TypeOK, FailureOK, Result, FailReason
    <3> QED BY <2>1, <2>3, <3>1 DEF Inv, SuccessOK, Prunable
  <2> QED BY <2>2, <2>3
<1> QED BY <1>1, Invariance, PTL

(* No use of a removed function's symbol is forgotten: in every module that    *)
(* takes its address the symbol was analysed, or skipped for __symbol_get.     *)
THEOREM UsesNeverForgotten == Spec => []NoUseForgotten
<1>1. Inv => NoUseForgotten
  <2> SUFFICES ASSUME Inv, NEW c \in ICall, NEW d \in Pruned(c), NEW f \in AddressTaken,
                      guidOf[f] = guidOf[d]
               PROVE  \/ result[f] = "success"
                      \/ result[f] = "ignore_analysis" /\ nameOf[f] \in symbolGet
    BY DEF NoUseForgotten
  <2>1. result[f] # "unknown" /\ d \in Prunable(c)
    BY RemovedAfterAnalysis
  <2>2. guidOf[f] \notin failedFuncs
    BY <2>1 DEF Prunable, Key
  <2>3. result[f] \notin FailReason
    BY <2>2 DEF Inv, FailureOK
  <2>4. result[f] = "ignore_analysis" => nameOf[f] \in symbolGet
    BY <2>2 DEF Inv, IgnoredOK, Skippable
  <2>5. result[f] \in Result
    BY DEF Inv, TypeOK
  <2> QED BY <2>1, <2>3, <2>4, <2>5 DEF Result
<1> QED BY <1>1, Invariance, PTL

-----------------------------------------------------------------------------
(* What the sets hold comes from some function, and the second loop removes    *)
(* everything it may: with Inv, the result is determined.                      *)
SourcesOK ==
  /\ symbolGet = {}
  /\ \A i \in failedFuncs : \E f \in AddressTaken : guidOf[f] = i /\ finding[f].outcome # "success"
  /\ \A d \in Function : \A c \in influence[d] : Reaches(d, c)
CompleteOK == phase # "analyze" => \A c \in ICall \ todo : Targets[c] \cap Prunable(c) \subseteq Pruned(c)

LEMMA InitSources == ASSUME OneSymbolPerName PROVE Init => SourcesOK /\ CompleteOK
BY DEF Init, SourcesOK, CompleteOK, OneSymbolPerName

LEMMA StepSources ==
  ASSUME OneSymbolPerName, Inv, SourcesOK, [Next]_vars
  PROVE  SourcesOK'
<1> USE DEF SourcesOK, shared, threads
<1>1. CASE StartUpdate
  BY <1>1 DEF StartUpdate, Reaches
<1>2. CASE CountTargets
  BY <1>2 DEF CountTargets, Reaches
<1>3. ASSUME NEW t \in Thread, Take(t) \/ CheckFailed(t) \/ CheckSymbol(t) \/ HandleFunc(t) \/ SetLock(t)
                               \/ Ignore(t) \/ UpdateICall(t)
      PROVE  SourcesOK'
  BY <1>3 DEF Take, CheckFailed, CheckSymbol, HandleFunc, SetLock, Ignore, UpdateICall, Writing, Reaches
<1>4. ASSUME NEW t \in Thread, MergeSymbols(t) PROVE SourcesOK'
  <2>1. finding[job[t]] \in Findings
    BY <1>4 DEF MergeSymbols, Writing, Inv, TypeOK, JobsOK
  <2> QED BY <1>4, <2>1 DEF MergeSymbols, Writing, OneSymbolPerName, Reaches
<1>5. ASSUME NEW t \in Thread, RecordFailure(t) PROVE SourcesOK'
  <2>1. job[t] \in AddressTaken
    BY <1>5 DEF RecordFailure, Writing, Inv, TypeOK, JobsOK
  <2> QED BY <1>5, <2>1 DEF RecordFailure, Writing, Key, Reaches
<1>6. ASSUME NEW t \in Thread, RecordSuccess(t) PROVE SourcesOK'
  <2>1. job[t] \in AddressTaken
    BY <1>6 DEF RecordSuccess, Writing, Inv, TypeOK, JobsOK
  <2>2. /\ influence' = InfluenceWith(Defs[job[t]], finding[job[t]].calls)
        /\ UNCHANGED <<finding, failedFuncs, symbolGet>>
    BY <1>6 DEF RecordSuccess, Writing
  <2> QED BY <2>1, <2>2 DEF InfluenceWith, Reaches
<1>7. CASE UNCHANGED vars
  BY <1>7 DEF vars, Reaches
<1> QED BY <1>1, <1>2, <1>3, <1>4, <1>5, <1>6, <1>7 DEF Next, Step

LEMMA StepComplete ==
  ASSUME Inv, CompleteOK, [Next]_vars
  PROVE  CompleteOK'
<1> USE DEF CompleteOK, Pruned, Prunable, shared, threads
<1>1. CASE StartUpdate
  BY <1>1 DEF StartUpdate
<1>2. CASE CountTargets
  BY <1>2 DEF CountTargets
<1>3. ASSUME NEW t \in Thread, UpdateICall(t) PROVE CompleteOK'
  <2>1. PICK c \in todo : todo' = todo \ {c} /\ ICallees' = [ICallees EXCEPT ![c] = @ \ Prunable(c)]
    BY <1>3 DEF UpdateICall
  <2> QED BY <1>3, <2>1 DEF UpdateICall, Inv, TypeOK
<1>4. ASSUME NEW t \in Thread, phase # "analyze" PROVE Step(t) => UpdateICall(t)
  BY <1>4, Sections DEF Inv, PhasesOK, Step, Take, CheckFailed, CheckSymbol, HandleFunc, SetLock,
     Ignore, MergeSymbols, RecordFailure, RecordSuccess, Writing
<1>5. ASSUME NEW t \in Thread, phase = "analyze", Step(t) PROVE CompleteOK'
  BY <1>5 DEF Step, Take, CheckFailed, CheckSymbol, HandleFunc, SetLock,
     Ignore, MergeSymbols, RecordFailure, RecordSuccess, Writing, UpdateICall
<1>6. CASE UNCHANGED vars
  BY <1>6 DEF vars
<1> QED BY <1>1, <1>2, <1>3, <1>4, <1>5, <1>6 DEF Next

(* Every address-taken function is analysed by the end of the first loop. *)
LEMMA AllAnalysed == ASSUME Inv, phase = "done", NEW f \in AddressTaken PROVE result[f] # "unknown"
BY DEF Inv, TypeOK, ResultsOK, PhasesOK, JobsOK, Busy

(* The targets left at the end of the round do not depend on how the threads   *)
(* were scheduled, in a program where functions that share a name are views    *)
(* of one symbol and that has no __symbol_get.                                 *)
THEOREM ScheduleIndependence == ASSUME OneSymbolPerName PROVE Spec => []ScheduleIndependent
<1>1. Inv /\ SourcesOK /\ CompleteOK => ScheduleIndependent
  <2> SUFFICES ASSUME Inv, SourcesOK, CompleteOK, phase = "done", NEW c \in ICall
               PROVE  Pruned(c) = {f \in Targets[c] \cap AddressTaken : Resolved(f) /\ ~Reaches(f, c)}
    BY DEF ScheduleIndependent
  <2>1. \A f \in AddressTaken : /\ result[f] \in {"ignore_analysis", "success"} \cup FailReason
                                /\ result[f] = "ignore_analysis" => guidOf[f] \in failedFuncs
    BY AllAnalysed DEF Inv, TypeOK, Result, IgnoredOK, Skippable, SourcesOK
  <2>2. ASSUME NEW f \in AddressTaken
        PROVE  Resolved(f) <=> f \in succeeded /\ guidOf[f] \notin failedFuncs
    BY <2>1 DEF Inv, SuccessOK, FailureOK, SourcesOK, Resolved, FailReason
  <2>3. ASSUME NEW f \in AddressTaken, Resolved(f)
        PROVE  Reaches(f, c) <=> c \in influence[f]
    <3>1. ASSUME NEW g \in AddressTaken, f \in Defs[g] PROVE g \in succeeded
      <4>1. guidOf[g] = guidOf[f]
        BY <3>1 DEF OneSymbolPerName
      <4>2. Resolved(g)
        BY <4>1, <2>3 DEF Resolved
      <4> QED BY <4>2, <2>2
    <3> QED BY <3>1 DEF Inv, SuccessOK, SourcesOK, Reaches
  <2>4. Pruned(c) = Targets[c] \cap Prunable(c)
    BY DEF Inv, PrunedOK, PhasesOK, CompleteOK, Pruned
  <2>5. succeeded \subseteq AddressTaken
    BY DEF Inv, TypeOK
  <2> QED BY <2>2, <2>3, <2>4, <2>5 DEF Prunable, Key
<1>2. Spec => [](SourcesOK /\ CompleteOK)
  BY InitSources, StepSources, StepComplete, Invariance, PTL DEF Spec
<1> QED BY <1>1, <1>2, Invariance, PTL
=============================================================================
