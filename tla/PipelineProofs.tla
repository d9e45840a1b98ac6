--------------------------- MODULE PipelineProofs ---------------------------
(***************************************************************************)
(* Theorems about the program from its files to its tables, for any        *)
(* program and any order in which its files are loaded: the whole is a     *)
(* loader, the copies of a function CallGraphPass keeps agree, and what    *)
(* each table of functions and calls has after k modules is said without   *)
(* the order, so that it does not depend on it when the pass has ended.    *)
(***************************************************************************)
EXTENDS Pipeline, TLAPS, FiniteSetTheorems, WellFoundedInduction

-----------------------------------------------------------------------------
(* The loader, for any files and any threads. *)

\* The lock is held by the thread that is between taking and releasing it.
LockOK == \A t \in Thread : pc[t] \in {"push", "write", "unlock"} <=> lock = t

\* Nobody pushed a module since a thread that pushes one has read the list.
SeenOK == \A t \in Thread : pc[t] = "write" => seen[t] = Modules

\* Every thread has its own file, which is nowhere else.
FileOK ==
  /\ \A t \in Thread : pc[t] \in {"parse", "lock", "push", "write"} <=> file[t] # Nobody
  /\ \A t \in Thread : pc[t] \in {"lock", "push", "write"} => file[t] \in Readable
  /\ \A t \in Thread : file[t] \notin todo /\ file[t] \notin ModuleMaps
  /\ \A t, u \in Thread : file[t] = file[u] /\ t # u => file[t] = Nobody

\* The list holds what ModuleMaps knows, once.
ListOK ==
  /\ {Modules[i] : i \in DOMAIN Modules} = ModuleMaps
  /\ \A i, j \in DOMAIN Modules : Modules[i] = Modules[j] => i = j
  /\ ModuleMaps \subseteq Readable /\ ModuleMaps \cap todo = {}

\* A file that can be read is waiting, with a thread, or in the list.
NoneLost == \A f \in Readable : f \in todo \cup ModuleMaps \/ \E t \in Thread : file[t] = f

LoadEnded == step # "load" => todo = {} /\ \A t \in Thread : pc[t] = "idle"

Inv == LoaderTypeOK /\ LockOK /\ SeenOK /\ FileOK /\ ListOK /\ NoneLost /\ LoadEnded

-----------------------------------------------------------------------------
USE NobodyAssumption

LEMMA Successors ==
  /\ PassAfter["load"] \in Passes
  /\ \A p \in Passes : PassAfter[p] \in Passes \cup {"analyzed"}
  /\ \A s \in {"initialize", "module"} : StageAfter[s] \in {"module", "finalize"}
BY DEF PassAfter, Passes, StageAfter

LEMMA InitInv == LoaderInit => Inv
<1> SUFFICES ASSUME LoaderInit PROVE Inv
  OBVIOUS
<1>1. <<>> \in Seq(File) /\ DOMAIN <<>> = {}
  OBVIOUS
<1>2. LoaderTypeOK
  <2>1. changed \in BOOLEAN
    BY Zenon DEF LoaderInit
  <2>2. pc \in [Thread -> {"idle"}] /\ file \in [Thread -> {Nobody}] /\ seen \in [Thread -> Seq(File)]
    BY <1>1 DEF LoaderInit
  <2> QED BY <1>1, <2>1, <2>2 DEF LoaderInit, LoaderTypeOK
<1>3. ListOK
  BY <1>1 DEF LoaderInit, ListOK
<1>4. LockOK /\ SeenOK /\ FileOK /\ NoneLost /\ LoadEnded
  BY DEF LoaderInit, LockOK, SeenOK, FileOK, NoneLost, LoadEnded
<1> QED BY <1>2, <1>3, <1>4 DEF Inv

LEMMA TakeInv == ASSUME Inv, NEW t \in Thread, Take(t), UNCHANGED <<Readable, driver>>
                 PROVE  Inv'
<1> USE DEF Inv, Take, Goto, driver
<1>1. LoaderTypeOK'
  BY DEF LoaderTypeOK
<1>2. LockOK' /\ SeenOK' /\ ListOK' /\ LoadEnded'
  BY DEF LoaderTypeOK, LockOK, SeenOK, ListOK, LoadEnded
<1>3. FileOK'
  BY DEF LoaderTypeOK, FileOK, ListOK
<1>4. NoneLost'
  <2>1. file[t] = Nobody
    BY DEF LoaderTypeOK, FileOK
  <2> QED BY <2>1 DEF LoaderTypeOK, NoneLost
<1> QED BY <1>1, <1>2, <1>3, <1>4

LEMMA ParseInv == ASSUME Inv, NEW t \in Thread, parseIRFile(t), UNCHANGED <<Readable, driver>>
                  PROVE  Inv'
<1> USE DEF Inv, parseIRFile, Goto, driver
<1>1. LoaderTypeOK'
  BY DEF LoaderTypeOK
<1>2. LockOK' /\ SeenOK' /\ ListOK' /\ LoadEnded'
  BY DEF LoaderTypeOK, LockOK, SeenOK, ListOK, LoadEnded
<1>3. FileOK'
  <2>1. CASE file[t] \in Readable
    BY <2>1 DEF LoaderTypeOK, FileOK
  <2>2. CASE file[t] \notin Readable
    <3>1. Nobody \notin todo /\ Nobody \notin ModuleMaps
      BY DEF LoaderTypeOK
    <3>2. /\ pc'[t] = "idle" /\ file'[t] = Nobody
          /\ \A u \in Thread \ {t} : pc'[u] = pc[u] /\ file'[u] = file[u]
          /\ UNCHANGED <<todo, ModuleMaps, Readable>>
      BY <2>2 DEF LoaderTypeOK
    <3> QED BY <3>1, <3>2 DEF FileOK
  <2> QED BY <2>1, <2>2
<1>4. NoneLost'
  BY DEF LoaderTypeOK, NoneLost
<1> QED BY <1>1, <1>2, <1>3, <1>4

LEMMA SetLockInv == ASSUME Inv, NEW t \in Thread, SetLock(t), UNCHANGED <<Readable, driver>>
                    PROVE  Inv'
<1> USE DEF Inv, SetLock, Acquire, Goto, driver
<1>1. LoaderTypeOK' /\ LockOK'
  BY DEF LoaderTypeOK, LockOK
<1>2. SeenOK' /\ ListOK' /\ NoneLost' /\ LoadEnded'
  BY DEF LoaderTypeOK, SeenOK, ListOK, NoneLost, LoadEnded
<1>3. FileOK'
  BY DEF LoaderTypeOK, FileOK
<1> QED BY <1>1, <1>2, <1>3

LEMMA UnsetLockInv == ASSUME Inv, NEW t \in Thread, UnsetLock(t), UNCHANGED <<Readable, driver>>
                      PROVE  Inv'
<1> USE DEF Inv, UnsetLock, Goto, driver
<1>1. LoaderTypeOK'
  BY DEF LoaderTypeOK
<1>2. LockOK'
  <2>1. lock = t
    BY DEF LockOK
  <2>2. \A u \in Thread \ {t} : pc[u] \notin {"push", "write", "unlock"} /\ pc'[u] = pc[u]
    BY <2>1 DEF LoaderTypeOK, LockOK
  <2> QED BY <2>2 DEF LoaderTypeOK, LockOK
<1>3. SeenOK' /\ ListOK' /\ NoneLost' /\ LoadEnded'
  BY DEF LoaderTypeOK, SeenOK, ListOK, NoneLost, LoadEnded
<1>4. FileOK'
  BY DEF LoaderTypeOK, FileOK
<1> QED BY <1>1, <1>2, <1>3, <1>4

LEMMA PushInv == ASSUME Inv, NEW t \in Thread, PushBack(t), UNCHANGED <<Readable, driver>>
                 PROVE  Inv'
<1> USE DEF Inv, PushBack, Goto, driver
<1>1. LoaderTypeOK'
  BY DEF LoaderTypeOK
<1>2. LockOK' /\ SeenOK' /\ FileOK' /\ ListOK' /\ NoneLost' /\ LoadEnded'
  BY DEF LoaderTypeOK, LockOK, SeenOK, FileOK, ListOK, NoneLost, LoadEnded
<1> QED BY <1>1, <1>2

(* The list a thread appends to is the list, and its file is not in it yet. *)
LEMMA PushedInv == ASSUME Inv, NEW t \in Thread, PushedBack(t), UNCHANGED <<Readable, driver>>
                   PROVE  Inv'
<1> DEFINE f == file[t]
<1>1. /\ pc[t] = "write" /\ f \in File /\ f \in Readable
      /\ f \notin ModuleMaps /\ f \notin todo /\ seen[t] = Modules
  BY DEF Inv, PushedBack, LoaderTypeOK, FileOK, SeenOK
<1>2. /\ Modules' = Append(Modules, f) /\ ModuleMaps' = ModuleMaps \cup {f}
      /\ file' = [file EXCEPT ![t] = Nobody] /\ pc' = [pc EXCEPT ![t] = "unlock"]
      /\ UNCHANGED <<todo, lock, seen, Readable, step, stage, at, changed>>
  BY <1>1 DEF PushedBack, Goto, driver
<1>3. LoaderTypeOK'
  BY <1>1, <1>2 DEF Inv, LoaderTypeOK
<1>4. LockOK' /\ LoadEnded'
  BY <1>1, <1>2 DEF Inv, LoaderTypeOK, LockOK, LoadEnded
<1>5. SeenOK'
  <2>1. \A u \in Thread : pc[u] = "write" => u = t
    BY <1>1 DEF Inv, LockOK
  <2> QED BY <1>2, <2>1 DEF Inv, LoaderTypeOK, SeenOK
<1>6. FileOK'
  BY <1>1, <1>2 DEF Inv, LoaderTypeOK, FileOK
<1>7. ListOK'
  <2>1. /\ Modules \in Seq(File) /\ DOMAIN Modules' = 1..(Len(Modules) + 1)
        /\ \A i \in DOMAIN Modules : Modules'[i] = Modules[i]
        /\ Modules'[Len(Modules) + 1] = f
    BY <1>1, <1>2 DEF Inv, LoaderTypeOK
  <2>2. Len(Modules) \in Nat /\ DOMAIN Modules = 1..Len(Modules)
    BY <2>1
  <2>3. \A i \in DOMAIN Modules : Modules[i] \in ModuleMaps
    BY DEF Inv, ListOK
  <2>4. \A i, j \in DOMAIN Modules' : Modules'[i] = Modules'[j] => i = j
    BY <1>1, <2>1, <2>2, <2>3 DEF Inv, ListOK
  <2>5. {Modules'[i] : i \in DOMAIN Modules'} = ModuleMaps'
    BY <1>2, <2>1, <2>2 DEF Inv, ListOK
  <2> QED BY <1>1, <1>2, <2>4, <2>5 DEF Inv, ListOK
<1>8. NoneLost'
  BY <1>2 DEF Inv, LoaderTypeOK, NoneLost
<1> QED BY <1>3, <1>4, <1>5, <1>6, <1>7, <1>8 DEF Inv

(* The passes only read the list. *)
LEMMA DriverInv == ASSUME Inv, LoadStaticData \/ Callback \/ EndStage \/ Leave
                   PROVE  Inv'
<1>1. UNCHANGED <<Readable, team>>
  BY DEF LoadStaticData, Callback, EndStage, Leave
<1>2. step' \in Passes \cup {"load", "analyzed", "update", "returned"}
      /\ stage' \in {"initialize", "module", "finalize"} /\ at' \in Nat \ {0}
  <2>1. CASE LoadStaticData
    BY <2>1, Successors DEF LoadStaticData, StartStage
  <2>2. CASE Callback
    BY <2>2 DEF Callback, Inv, LoaderTypeOK
  <2>3. CASE EndStage
    BY <2>3, Successors DEF EndStage, NextStage, StartStage, Inv, LoaderTypeOK
  <2>4. CASE Leave
    BY <2>4 DEF Leave, Inv, LoaderTypeOK
  <2> QED BY <2>1, <2>2, <2>3, <2>4
<1>5. changed' \in BOOLEAN
  <2>1. CASE UNCHANGED changed
    BY <2>1, Zenon DEF Inv, LoaderTypeOK
  <2>2. CASE changed' = FALSE \/ Callback
    BY <2>2, Zenon DEF Callback, Returns, Inv, LoaderTypeOK
  <2>3. changed' = FALSE \/ Callback \/ UNCHANGED changed
    BY DEF LoadStaticData, StartStage, EndStage, NextStage, Leave
  <2> QED BY <2>1, <2>2, <2>3
<1>3. LoadEnded'
  BY <1>1 DEF Inv, LoadEnded, team, LoadStaticData, Callback, EndStage, NextStage, Leave,
              StartStage, PassAfter, Passes
<1>4. LoaderTypeOK'
  BY <1>1, <1>2, <1>5 DEF Inv, LoaderTypeOK, team
<1> QED BY <1>1, <1>3, <1>4 DEF Inv, team, LockOK, SeenOK, FileOK, ListOK, NoneLost

LEMMA LaunchInv == ASSUME Launch PROVE Inv'
<1>1. <<>> \in Seq(File) /\ DOMAIN <<>> = {}
  OBVIOUS
<1>2. LoaderTypeOK'
  <2>1. changed' \in BOOLEAN
    BY Zenon DEF Launch
  <2>2. pc' \in [Thread -> {"idle"}] /\ file' \in [Thread -> {Nobody}] /\ seen' \in [Thread -> Seq(File)]
    BY <1>1 DEF Launch
  <2> QED BY <1>1, <2>1, <2>2 DEF Launch, LoaderTypeOK
<1>3. ListOK'
  BY <1>1 DEF Launch, ListOK
<1>4. LockOK' /\ SeenOK' /\ FileOK' /\ NoneLost' /\ LoadEnded'
  BY DEF Launch, LockOK, SeenOK, FileOK, NoneLost, LoadEnded
<1> QED BY <1>2, <1>3, <1>4 DEF Inv

LEMMA NextInv == Inv /\ [LoaderNext]_loaderVars => Inv'
<1> SUFFICES ASSUME Inv, [LoaderNext]_loaderVars PROVE Inv'
  OBVIOUS
<1>1. ASSUME NEW t \in Thread, Load(t) PROVE Inv'
  BY <1>1, TakeInv, ParseInv, SetLockInv, UnsetLockInv, PushInv, PushedInv DEF Load
<1>2. CASE LoadStaticData \/ Callback \/ EndStage \/ Leave
  BY <1>2, DriverInv
<1>3. CASE Launch
  BY <1>3, LaunchInv
<1>4. CASE UNCHANGED loaderVars
  BY <1>4 DEF loaderVars, team, driver, Inv, LoaderTypeOK, LockOK, SeenOK, FileOK, ListOK,
              NoneLost, LoadEnded
<1> QED BY <1>1, <1>2, <1>3, <1>4 DEF LoaderNext

\* The variables of the loader keep their types, and the invariant the rest follows from
\* holds at every step of the threads and the passes.
THEOREM LoaderInvariant == LoaderSpec => []Inv
BY InitInv, NextInv, PTL DEF LoaderSpec

LEMMA InvLoadedOnce == Inv => LoadedOnce
<1> SUFFICES ASSUME Inv, step # "load" PROVE LoadedOnce
  BY DEF LoadedOnce
<1>1. todo = {} /\ \A t \in Thread : file[t] = Nobody
  BY DEF Inv, LoadEnded, FileOK
<1>2. Nobody \notin Readable
  BY DEF Inv, LoaderTypeOK
<1>3. ModuleMaps = Readable
  BY <1>1, <1>2 DEF Inv, ListOK, NoneLost
<1> QED BY <1>3 DEF Inv, ListOK, LoadedOnce

\* Any number of threads loads every file that can be read, once (the parallel loop of
\* main and its lock).
THEOREM EveryFileLoadedOnce == LoaderSpec => []LoadedOnce
BY LoaderInvariant, InvLoadedOnce, PTL

-----------------------------------------------------------------------------
(* The loader as a part of the whole. *)

LEMMA NextLoads == Next => [LoaderNext]_loaderVars
<1>1. ASSUME NEW t \in Thread, LoadStep(t) PROVE LoaderNext
  BY <1>1 DEF LoadStep, LoaderNext
<1>2. CASE PassStep \/ MainStep \/ LeaveStep \/ Relaunch
  BY <1>2 DEF PassStep, MainStep, LeaveStep, Relaunch, LoaderNext
<1>3. CASE UpdateStep
  BY <1>3 DEF UpdateStep
<1> QED BY <1>1, <1>2, <1>3 DEF Next, Proceed

\* What the passes and the update do leaves the loader as it is specified (main).
THEOREM PipelineLoads == Spec => LoaderSpec
<1>1. Init => LoaderInit
  BY DEF Init
<1>2. [Next]_vars => [LoaderNext]_loaderVars
  BY NextLoads DEF vars
<1> QED BY <1>1, <1>2, PTL DEF Spec, LoaderSpec

\* In every run of the program, whatever the database does, the passes find every file
\* that could be read, once.
THEOREM PipelineLoadedOnce == Spec => []LoadedOnce
BY PipelineLoads, EveryFileLoadedOnce, PTL

-----------------------------------------------------------------------------
(* The copies of a function. *)

\* How far CallGraphPass is with its first and its second loop over the modules.
Before(stages) == step \in {"load", "TypeBuilder", "CHABuilder"} \/ (step = "CallGraph" /\ stage \in stages)
InitAt == IF Before({}) THEN 1
          ELSE IF step = "CallGraph" /\ stage = "initialize" THEN at ELSE Len(Modules) + 1
ModuleAt == IF Before({"initialize"}) THEN 1
            ELSE IF step = "CallGraph" /\ stage = "module" THEN at ELSE Len(Modules) + 1

InSome(f, k) == \E i \in 1..(k - 1) : Modules[i] = module[f]

\* UnifiedFuncMap has the first function of each hash in the modules before k.
UnifiedOK(k) ==
  /\ \A h \in Hash : UnifiedFuncMap[h] # None =>
       \E i \in 1..(k - 1) :
         /\ module[UnifiedFuncMap[h]] = Modules[i]
         /\ \A g \in hasBody : funcHash(g) = h => ~InSome(g, i)
  /\ \A g \in hasBody : InSome(g, k) => UnifiedFuncMap[funcHash(g)] # None

\* What UnifiedFuncMap has for a hash is a function with a body and with that hash.
KeptOK ==
  /\ UnifiedFuncMap \in [Hash -> Function \cup {None}]
  /\ \A h \in Hash : UnifiedFuncMap[h] # None =>
       UnifiedFuncMap[h] \in hasBody /\ funcHash(UnifiedFuncMap[h]) = h

\* The calls that are skipped were met in the modules before k, and the calls of the
\* functions in UnifiedFuncMap were not skipped there.
ResolvedOK(k) ==
  /\ \A s \in globalFuncNameMap : \E c \in ICall \cap Call : callInfoHash(c) = s /\ InSome(caller[c], k)
  /\ \A c \in Call : InSome(caller[c], k) /\ UnifiedFuncMap[funcHash(caller[c])] = caller[c]
                       => c \in DOMAIN Callees
  /\ \A c \in DOMAIN Callees : c \in Call /\ InSome(caller[c], k)
  /\ \A c \in DOMAIN Callees \ ICall : Callees[c] \subseteq {UnifiedFuncMap[h] : h \in Hash} \ {None}

\* A hash of GlobalFuncs has its definition.
NamesOK ==
  /\ Global_Unique_Func_Map \in [Hash -> Function \cup {None}]
  /\ GlobalFuncs \in [Names -> SUBSET Hash]
  /\ \A n \in Names : \A h \in GlobalFuncs[n] : Global_Unique_Func_Map[h] # None

PositionOK ==
  /\ step \in Passes \cup {"load", "analyzed", "update", "returned"}
  /\ stage \in {"initialize", "module", "finalize"}
  /\ changed = FALSE
  /\ at \in 1..(Len(Modules) + 1) /\ (step = "load" => at = 1)

CopiesInv ==
  /\ Inv /\ PositionOK /\ NamesOK /\ KeptOK
  /\ UnifiedOK(InitAt) /\ ResolvedOK(ModuleAt)

-----------------------------------------------------------------------------
USE SymbolsAssumption

LEMMA HashType == ASSUME NEW f \in Function PROVE funcHash(f) \in Hash /\ funcInfoHash(f) \in Hash
BY DEF Hash

LEMMA SubsetsType == hasBody \subseteq Function /\ addressTaken \subseteq Function /\ None \notin Function
OBVIOUS

LEMMA ListType == ASSUME Inv PROVE /\ Len(Modules) \in Nat /\ DOMAIN Modules = 1..Len(Modules)
                                   /\ \A i, j \in 1..Len(Modules) : Modules[i] = Modules[j] => i = j
<1>1. Modules \in Seq(File)
  BY DEF Inv, LoaderTypeOK
<1>2. Len(Modules) \in Nat /\ DOMAIN Modules = 1..Len(Modules)
  BY <1>1
<1> QED BY <1>2 DEF Inv, ListOK

(* One more module for each of the three steps that fill the tables. *)

LEMMA ReplacedType ==
  ASSUME NEW map, NEW F \in SUBSET Function, NEW h \in Hash, map[h] \in Function \cup {None}
  PROVE  /\ Replaced(map, F, h) \in Function \cup {None}
         /\ map[h] # None \/ (\E f \in F : funcInfoHash(f) = h) => Replaced(map, F, h) # None
<1> DEFINE c == CHOOSE f \in F : funcInfoHash(f) = h
<1>1. (\E f \in F : funcInfoHash(f) = h) => c \in F
  OBVIOUS
<1> QED BY <1>1, SubsetsType DEF Replaced

LEMMA NamesStep == ASSUME NamesOK, NEW m, TypeBuilderInit(m) PROVE NamesOK'
<1> DEFINE taken == Of(m, addressTaken)
           defined == Of(m, hasBody \cap (external \cup addressTaken))
           offered == [h \in Hash |-> Offered(Global_Unique_Func_Map, taken, h)]
           replaced == [h \in Hash |-> Replaced(offered, defined, h)]
<1>1. taken \in SUBSET Function /\ defined \in SUBSET Function
  BY SubsetsType DEF Of
<1>2. /\ Global_Unique_Func_Map' = replaced
      /\ GlobalFuncs' = [n \in Names |-> GlobalFuncs[n] \cup {funcInfoHash(f) : f \in {g \in defined : name[g] = n}}]
  BY DEF TypeBuilderInit
<1>3. \A h \in Hash : offered[h] \in Function \cup {None} /\ (Global_Unique_Func_Map[h] # None => offered[h] # None)
  <2> SUFFICES ASSUME NEW h \in Hash
               PROVE  offered[h] \in Function \cup {None} /\ (Global_Unique_Func_Map[h] # None => offered[h] # None)
    OBVIOUS
  <2>1. Global_Unique_Func_Map[h] \in Function \cup {None}
    BY DEF NamesOK
  <2>2. Replaced(Global_Unique_Func_Map, taken, h) \in Function \cup {None}
    BY <1>1, <2>1, ReplacedType
  <2> QED BY <2>1, <2>2 DEF Offered
<1> HIDE DEF taken, defined, offered
<1>4. \A h \in Hash : /\ replaced[h] \in Function \cup {None}
                      /\ Global_Unique_Func_Map[h] # None \/ (\E f \in defined : funcInfoHash(f) = h)
                           => replaced[h] # None
  BY <1>1, <1>3, ReplacedType
<1> HIDE DEF replaced
<1>5. Global_Unique_Func_Map' \in [Hash -> Function \cup {None}]
  BY <1>2, <1>4 DEF replaced
<1>6. GlobalFuncs' \in [Names -> SUBSET Hash]
  <2>1. \A f \in defined : funcInfoHash(f) \in Hash
    BY <1>1, HashType
  <2> QED BY <1>2, <2>1 DEF NamesOK
<1>7. ASSUME NEW n \in Names, NEW h \in GlobalFuncs'[n] PROVE replaced[h] # None
  <2>1. h \in Hash
    BY <1>6, <1>7
  <2>2. h \in GlobalFuncs[n] \/ \E f \in defined : funcInfoHash(f) = h
    BY <1>2, <1>7
  <2> QED BY <1>4, <2>1, <2>2 DEF NamesOK
<1> QED BY <1>2, <1>5, <1>6, <1>7 DEF NamesOK

LEMMA GlobalFuncsType == ASSUME NamesOK, NEW f \in Function PROVE getGlobalFuncs(f) \subseteq Function
<1>1. name[f] \in Names
  BY DEF Names
<1> QED BY <1>1, HashType DEF getGlobalFuncs, NamesOK

LEMMA UnifiedStep ==
  ASSUME Inv, KeptOK, NEW k \in 1..Len(Modules), UnifiedOK(k), CallGraphInit(Modules[k]),
         UNCHANGED Modules
  PROVE  KeptOK' /\ UnifiedOK(k + 1)'
<1> DEFINE defined == Of(Modules[k], hasBody)
           old(h) == UnifiedFuncMap[h]
           new(h) == UnifiedFuncMap'[h]
           chosen(h) == CHOOSE f \in defined : funcHash(f) = h
<1>1. \A f : f \in defined <=> f \in hasBody /\ module[f] = Modules[k]
  BY DEF Of
<1>2. UnifiedFuncMap' = [h \in Hash |-> Unify(defined, h)]
  BY DEF CallGraphInit
<1>3. \A h \in Hash : new(h) = IF old(h) = None /\ \E f \in defined : funcHash(f) = h
                               THEN chosen(h) ELSE old(h)
  BY <1>2 DEF Unify, SameHash
<1>4. \A h \in Hash : (\E f \in defined : funcHash(f) = h) =>
        chosen(h) \in hasBody /\ module[chosen(h)] = Modules[k] /\ funcHash(chosen(h)) = h
  BY <1>1
<1>5. KeptOK'
  BY <1>2, <1>3, <1>4, SubsetsType DEF KeptOK
<1>6. k \in Nat /\ k \in 1..k /\ 1..(k - 1) \subseteq 1..k
  BY ListType
<1>7. \A g \in hasBody : InSome(g, k + 1) => InSome(g, k) \/ g \in defined
  BY <1>1, <1>6 DEF InSome
<1>8. ASSUME NEW h \in Hash, new(h) # None
      PROVE  \E i \in 1..k : /\ module[new(h)] = Modules[i]
                             /\ \A g \in hasBody : funcHash(g) = h => ~InSome(g, i)
  <2>1. CASE old(h) # None
    <3>1. new(h) = old(h)
      BY <1>3, <2>1
    <3> QED BY <1>6, <2>1, <3>1 DEF UnifiedOK
  <2>2. CASE old(h) = None
    <3>1. module[new(h)] = Modules[k]
      BY <1>3, <1>4, <1>8, <2>2
    <3>2. \A g \in hasBody : funcHash(g) = h => ~InSome(g, k)
      BY <2>2 DEF UnifiedOK
    <3> QED BY <1>6, <3>1, <3>2
  <2> QED BY <2>1, <2>2
<1>9. ASSUME NEW g \in hasBody, InSome(g, k + 1) PROVE new(funcHash(g)) # None
  <2>1. funcHash(g) \in Hash
    BY HashType, SubsetsType
  <2>2. CASE InSome(g, k)
    BY <1>3, <2>1, <2>2 DEF UnifiedOK
  <2>3. CASE g \in defined
    BY <1>3, <1>4, <2>1, <2>3, SubsetsType
  <2> QED BY <1>7, <1>9, <2>2, <2>3
<1>10. k + 1 - 1 = k
  BY <1>6
<1> QED BY <1>5, <1>8, <1>9, <1>10 DEF UnifiedOK, InSome

\* A call met before has a caller of the same hash.
LEMMA SameInfo == ASSUME NEW c \in Call, NEW d \in Call, callInfoHash(c) = callInfoHash(d)
                  PROVE  funcHash(caller[c]) = funcHash(caller[d])
BY DEF callInfoHash, funcHash

LEMMA DirectType == ASSUME NamesOK, KeptOK, NEW c \in Call \ ICall
                    PROVE  DirectCallees(c) \subseteq {UnifiedFuncMap[h] : h \in Hash} \ {None}
<1> DEFINE F == IF callee[c] \in hasBody THEN {callee[c]} ELSE getGlobalFuncs(callee[c])
<1>1. F \subseteq Function
  BY GlobalFuncsType
<1> QED BY <1>1, HashType DEF DirectCallees

LEMMA ResolvedStep ==
  ASSUME Inv, NamesOK, KeptOK, NEW k \in 1..Len(Modules), UnifiedOK(Len(Modules) + 1), ResolvedOK(k),
         CallGraphModulePass(Modules[k]), UNCHANGED Modules
  PROVE  ResolvedOK(k + 1)'
<1> DEFINE calls == {c \in Call : module[caller[c]] = Modules[k]}
           resolved == {c \in calls \cap ICall : callInfoHash(c) \notin globalFuncNameMap}
           found == resolved \cup (calls \ ICall)
           targets == [c \in found |-> IF c \in ICall THEN sigFuncsMap[callType[c]] ELSE DirectCallees(c)]
<1>1. /\ Callees' = [c \in DOMAIN Callees \cup found |-> IF c \in found THEN targets[c] ELSE Callees[c]]
      /\ globalFuncNameMap' = globalFuncNameMap \cup {callInfoHash(c) : c \in resolved}
      /\ UNCHANGED UnifiedFuncMap
  BY DEF CallGraphModulePass
<1>2. k \in Nat /\ k \in 1..k /\ 1..(k - 1) \subseteq 1..k /\ k + 1 - 1 = k
  BY ListType
<1>3. \A f : InSome(f, k) \/ module[f] = Modules[k] <=> InSome(f, k + 1)'
  BY <1>2 DEF InSome
<1>4. ASSUME NEW s \in globalFuncNameMap'
      PROVE  \E c \in ICall \cap Call : callInfoHash(c) = s /\ InSome(caller[c], k + 1)'
  BY <1>1, <1>3 DEF ResolvedOK
<1>5. ASSUME NEW c \in Call, InSome(caller[c], k + 1)', UnifiedFuncMap[funcHash(caller[c])] = caller[c]
      PROVE  c \in DOMAIN Callees'
  <2>1. CASE InSome(caller[c], k)
    BY <1>1, <1>5, <2>1 DEF ResolvedOK
  <2>2. CASE module[caller[c]] = Modules[k] /\ c \notin ICall
    BY <1>1, <2>2
  <2>3. CASE module[caller[c]] = Modules[k] /\ c \in ICall
    <3>1. ASSUME callInfoHash(c) \in globalFuncNameMap PROVE FALSE
      <4>1. PICK d \in ICall \cap Call : callInfoHash(d) = callInfoHash(c) /\ InSome(caller[d], k)
        BY <3>1 DEF ResolvedOK
      <4>2. caller[c] \in hasBody /\ caller[d] \in hasBody /\ funcHash(caller[d]) = funcHash(caller[c])
        BY <4>1, SameInfo
      <4>3. funcHash(caller[c]) \in Hash /\ caller[c] # None
        BY <4>2, HashType, SubsetsType
      <4>4. PICK i \in 1..Len(Modules) : /\ module[caller[c]] = Modules[i]
                                         /\ ~InSome(caller[d], i)
        BY <1>5, <4>2, <4>3, ListType DEF UnifiedOK
      <4>5. i = k
        BY <2>3, <4>4, ListType
      <4> QED BY <4>1, <4>4, <4>5
    <3> QED BY <1>1, <2>3, <3>1
  <2> QED BY <1>3, <1>5, <2>1, <2>2, <2>3
<1>6. ASSUME NEW c \in DOMAIN Callees' PROVE c \in Call /\ InSome(caller[c], k + 1)'
  BY <1>1, <1>3 DEF ResolvedOK
<1>7. ASSUME NEW c \in DOMAIN Callees' \ ICall
      PROVE  Callees'[c] \subseteq {UnifiedFuncMap[h] : h \in Hash} \ {None}
  <2>1. CASE c \in found
    <3>1. c \in Call \ ICall /\ Callees'[c] = DirectCallees(c)
      BY <1>1, <1>7, <2>1
    <3> QED BY <3>1, DirectType
  <2>2. CASE c \notin found
    <3>1. c \in DOMAIN Callees \ ICall /\ Callees'[c] = Callees[c]
      BY <1>1, <1>7, <2>2
    <3> QED BY <3>1 DEF ResolvedOK
  <2> QED BY <2>1, <2>2
<1>8. UnifiedFuncMap' = UnifiedFuncMap
  BY <1>1
<1>9. \A c \in Call : InSome(caller[c], k + 1)' /\ UnifiedFuncMap'[funcHash(caller[c])] = caller[c]
                     => c \in DOMAIN Callees'
  BY <1>5, <1>8
<1>10. \A c \in DOMAIN Callees' \ ICall : Callees'[c] \subseteq {UnifiedFuncMap'[h] : h \in Hash} \ {None}
  BY <1>7, <1>8
<1> HIDE DEF calls, resolved, found, targets
<1> QED BY <1>4, <1>6, <1>9, <1>10 DEF ResolvedOK

-----------------------------------------------------------------------------
(* The invariant of the copies, step by step. *)

NothingYet == /\ globalFuncNameMap = {} /\ Callees = << >>
              /\ UnifiedFuncMap = Nowhere(Hash) /\ Global_Unique_Func_Map = Nowhere(Hash)
              /\ GlobalFuncs = Empty(Names)
              /\ step = "load" /\ stage = "initialize" /\ at = 1 /\ changed = FALSE /\ Modules = <<>>

LEMMA StartInv == ASSUME Inv, NothingYet PROVE CopiesInv
<1>1. PositionOK /\ InitAt = 1 /\ ModuleAt = 1
  BY DEF NothingYet, PositionOK, InitAt, ModuleAt, Before
<1>2. \A f : ~InSome(f, 1)
  BY DEF InSome
<1>3. NamesOK /\ KeptOK
  BY DEF NothingYet, NamesOK, KeptOK, Nowhere, Empty
<1>4. UnifiedOK(1) /\ ResolvedOK(1)
  BY <1>2 DEF NothingYet, UnifiedOK, ResolvedOK, Nowhere
<1> QED BY <1>1, <1>3, <1>4 DEF CopiesInv

\* A step that leaves the tables and the positions alone.
LEMMA QuietInv ==
  ASSUME CopiesInv, Inv', PositionOK', UNCHANGED tables, InitAt' = InitAt, ModuleAt' = ModuleAt,
         UNCHANGED Modules \/ (InitAt = 1 /\ ModuleAt = 1)
  PROVE  CopiesInv'
<1>1. ASSUME NEW f, NEW k, UNCHANGED Modules \/ k = 1 PROVE InSome(f, k) <=> InSome(f, k)'
  BY <1>1 DEF InSome
<1>2. NamesOK' /\ KeptOK'
  BY DEF CopiesInv, tables, NamesOK, KeptOK
<1>3. UnifiedOK(InitAt)'
  <2>1. CASE UNCHANGED Modules
    BY <2>1 DEF CopiesInv, tables, UnifiedOK, InSome
  <2>2. CASE InitAt = 1
    BY <2>2 DEF CopiesInv, tables, UnifiedOK, InSome
  <2> QED BY <2>1, <2>2
<1>4. ResolvedOK(ModuleAt)'
  BY <1>1 DEF CopiesInv, tables, ResolvedOK
<1> QED BY <1>2, <1>3, <1>4 DEF CopiesInv

\* The same, for the parts of the invariant.
LEMMA UnifiedQuiet ==
  ASSUME NEW k, NEW j, k = j, UnifiedOK(k), UNCHANGED <<UnifiedFuncMap, Modules>> PROVE UnifiedOK(j)'
BY DEF UnifiedOK, InSome

LEMMA ResolvedQuiet ==
  ASSUME NEW k, NEW j, k = j, ResolvedOK(k), UNCHANGED <<globalFuncNameMap, Callees, Modules>>,
         UNCHANGED UnifiedFuncMap \/ k = 1
  PROVE  ResolvedOK(j)'
<1>1. \A f : InSome(f, j)' <=> InSome(f, k)
  BY DEF InSome
<1>2. k = 1 => (\A f : ~InSome(f, k)) /\ DOMAIN Callees \cap Call = {}
  BY DEF InSome, ResolvedOK
<1>3. CASE UNCHANGED UnifiedFuncMap
  BY <1>1, <1>3 DEF ResolvedOK
<1>4. CASE k = 1
  BY <1>1, <1>2, <1>4 DEF ResolvedOK
<1> QED BY <1>3, <1>4

LEMMA PositionInv == ASSUME Inv, Inv', PositionOK, Next PROVE PositionOK'
<1>1. Len(Modules) \in Nat /\ Len(Modules') \in Nat
  <2>1. Modules \in Seq(File) /\ Modules' \in Seq(File)
    BY DEF Inv, LoaderTypeOK
  <2> QED BY <2>1
<1>2. CASE \E t \in Thread : LoadStep(t)
  <2>1. PICK t \in Thread : Load(t)
    BY <1>2 DEF LoadStep
  <2>2. step = "load" /\ UNCHANGED driver
    <3>1. pc[t] # "idle" => step = "load"
      BY DEF Inv, LoadEnded
    <3>2. step = "load"
      BY <2>1, <3>1 DEF Load, Take, parseIRFile, SetLock, PushBack, PushedBack, UnsetLock
    <3> QED BY <2>1, <3>2 DEF Load
  <2>3. at = 1 /\ UNCHANGED <<step, stage, at, changed>>
    BY <2>2 DEF driver, PositionOK
  <2> QED BY <1>1, <2>3 DEF PositionOK
<1>3. CASE PassStep
  <2>1. /\ step \in Passes /\ at <= Len(Modules) /\ at' = at + 1
        /\ UNCHANGED <<Modules, step, stage>>
    BY <1>3 DEF PassStep, Callback, team
  <2>2. changed' = FALSE
    BY <1>3, Zenon DEF PassStep, Callback, Returns, PositionOK
  <2>3. step # "load"
    BY <2>1 DEF Passes
  <2> QED BY <1>1, <2>1, <2>2, <2>3 DEF PositionOK
<1>4. CASE MainStep
  <2>1. /\ at' = 1 /\ UNCHANGED Modules
        /\ step' \in Passes \cup {"analyzed"} /\ stage' \in {"initialize", "module", "finalize"}
    BY <1>4, Successors DEF MainStep, LoadStaticData, EndStage, NextStage, StartStage, team, PositionOK
  <2>2. changed' = FALSE
    BY <1>4, Zenon DEF MainStep, LoadStaticData, EndStage, NextStage, StartStage
  <2> QED BY <1>1, <2>1, <2>2 DEF PositionOK
<1>5. CASE UpdateStep
  BY <1>5 DEF UpdateStep, loaderVars, team, driver, PositionOK
<1>6. CASE LeaveStep
  BY <1>6 DEF LeaveStep, Leave, team, PositionOK
<1>7. CASE Relaunch
  BY <1>1, <1>7 DEF Relaunch, Launch, PositionOK
<1> QED BY <1>2, <1>3, <1>4, <1>5, <1>6, <1>7 DEF Next, Proceed

LEMMA LoadStepInv == ASSUME CopiesInv, Inv', PositionOK', NEW t \in Thread, LoadStep(t) PROVE CopiesInv'
<1>1. pc[t] # "idle" => step = "load"
  BY DEF CopiesInv, Inv, LoadEnded
<1>2. step = "load" /\ UNCHANGED <<step, stage, at>> /\ UNCHANGED tables
  BY <1>1 DEF LoadStep, Load, driver, Take, parseIRFile, SetLock, PushBack, PushedBack, UnsetLock
<1>3. InitAt = 1 /\ ModuleAt = 1 /\ InitAt' = 1 /\ ModuleAt' = 1
  BY <1>2 DEF InitAt, ModuleAt, Before
<1> QED BY <1>2, <1>3, QuietInv

LEMMA MainStepInv == ASSUME CopiesInv, Inv', PositionOK', MainStep PROVE CopiesInv'
<1>1. UNCHANGED tables /\ UNCHANGED Modules /\ at' = 1
  BY DEF MainStep, LoadStaticData, EndStage, NextStage, StartStage, team
<1>2. CASE LoadStaticData
  <2>1. step = "load" /\ step' = "TypeBuilder"
    BY <1>2 DEF LoadStaticData, StartStage, PassAfter
  <2> QED BY <1>1, <2>1, QuietInv DEF InitAt, ModuleAt, Before
<1>3. CASE EndStage
  <2>1. at = Len(Modules) + 1
    <3>1. Len(Modules) \in Nat /\ at \in 1..(Len(Modules) + 1) /\ at > Len(Modules)
      BY <1>3, ListType DEF EndStage, EndOfList, CopiesInv, PositionOK
    <3> QED BY <3>1
  <2>2. /\ step \in Passes /\ stage \in {"initialize", "module", "finalize"}
        /\ \/ stage # "finalize" /\ step' = step /\ stage' = StageAfter[stage]
           \/ stage = "finalize" /\ step' = PassAfter[step] /\ stage' = "initialize"
    BY <1>3, Zenon DEF EndStage, NextStage, StartStage, CopiesInv, PositionOK
  <2>3. InitAt' = InitAt /\ ModuleAt' = ModuleAt
    BY <1>1, <2>1, <2>2 DEF InitAt, ModuleAt, Before, Passes, PassAfter, StageAfter
  <2> QED BY <1>1, <2>3, QuietInv
<1> QED BY <1>2, <1>3 DEF MainStep

LEMMA RestInv == ASSUME CopiesInv, Inv', PositionOK', UpdateStep \/ LeaveStep PROVE CopiesInv'
<1>1. CASE UpdateStep
  <2>1. UNCHANGED <<tables, Modules, step, stage, at>>
    BY <1>1 DEF UpdateStep, loaderVars, team, driver
  <2> QED BY <2>1, QuietInv DEF InitAt, ModuleAt, Before
<1>2. CASE LeaveStep
  <2>1. UNCHANGED <<tables, Modules>> /\ step \in {"analyzed", "update"} /\ step' \in {"update", "returned"}
    BY <1>2 DEF LeaveStep, Leave, team
  <2> QED BY <2>1, QuietInv DEF InitAt, ModuleAt, Before
<1> QED BY <1>1, <1>2

LEMMA PassStepInv == ASSUME CopiesInv, Inv', PositionOK', PassStep PROVE CopiesInv'
<1>1. /\ step \in Passes /\ stage \in {"initialize", "module", "finalize"}
      /\ at \in 1..Len(Modules) /\ at' = at + 1 /\ UNCHANGED <<Modules, step, stage>>
      /\ Analyze(step, stage, Modules[at])
  <2>1. Len(Modules) \in Nat /\ at \in 1..(Len(Modules) + 1)
    BY ListType DEF CopiesInv, PositionOK
  <2> QED BY <2>1 DEF PassStep, Callback, team, CopiesInv, PositionOK
<1>2. Inv /\ NamesOK /\ KeptOK /\ UnifiedOK(InitAt) /\ ResolvedOK(ModuleAt)
  BY DEF CopiesInv
<1>3. CASE step = "TypeBuilder" /\ stage = "initialize"
  <2>1. TypeBuilderInit(Modules[at])
    BY <1>1, <1>3 DEF Analyze
  <2>2. NamesOK'
    BY <1>2, <2>1, NamesStep
  <2>3. UNCHANGED <<UnifiedFuncMap, globalFuncNameMap, Callees>>
    BY <2>1 DEF TypeBuilderInit
  <2>4. InitAt' = InitAt /\ ModuleAt' = ModuleAt
    BY <1>1, <1>3 DEF InitAt, ModuleAt, Before
  <2>5. KeptOK'
    BY <1>2, <2>3 DEF KeptOK
  <2>6. UnifiedOK(InitAt)' /\ ResolvedOK(ModuleAt)'
    <3>1. PICK i : i = InitAt
      OBVIOUS
    <3>2. PICK j : j = ModuleAt
      OBVIOUS
    <3>3. UnifiedOK(i)' /\ ResolvedOK(j)'
      BY <1>1, <1>2, <2>3, <3>1, <3>2, UnifiedQuiet, ResolvedQuiet
    <3>4. InitAt' = i /\ ModuleAt' = j
      BY <2>4, <3>1, <3>2
    <3> HIDE DEF InitAt, ModuleAt
    <3>5. UnifiedOK(InitAt)'
      BY <3>3, <3>4 DEF UnifiedOK, InSome
    <3>6. ResolvedOK(ModuleAt)'
      BY <3>3, <3>4 DEF ResolvedOK, InSome
    <3> QED BY <3>5, <3>6
  <2> QED BY <2>2, <2>5, <2>6 DEF CopiesInv
<1>4. CASE step = "CallGraph" /\ stage = "initialize"
  <2>1. PICK k \in 1..Len(Modules) : k = at
    BY <1>1
  <2>2. CallGraphInit(Modules[k])
    BY <1>1, <1>4, <2>1 DEF Analyze
  <2>3. InitAt = k /\ ModuleAt = 1 /\ InitAt' = k + 1 /\ ModuleAt' = 1
    BY <1>1, <1>4, <2>1 DEF InitAt, ModuleAt, Before
  <2>4. UnifiedOK(k) /\ ResolvedOK(1)
    BY <1>2, <2>3
  <2>5. KeptOK' /\ UnifiedOK(k + 1)'
    BY <1>1, <1>2, <2>2, <2>4, UnifiedStep
  <2>6. UNCHANGED <<Global_Unique_Func_Map, GlobalFuncs, globalFuncNameMap, Callees>>
    BY <2>2 DEF CallGraphInit
  <2>7. NamesOK'
    BY <1>2, <2>6 DEF NamesOK
  <2>8. ResolvedOK(1)'
    BY <1>1, <2>4, <2>6, ResolvedQuiet
  <2>9. UnifiedOK(InitAt)'
    BY <2>3, <2>5 DEF UnifiedOK, InSome
  <2>10. ResolvedOK(ModuleAt)'
    BY <2>3, <2>8 DEF ResolvedOK, InSome
  <2> QED BY <2>5, <2>7, <2>9, <2>10 DEF CopiesInv
<1>5. CASE step = "CallGraph" /\ stage = "module"
  <2>1. PICK k \in 1..Len(Modules) : k = at
    BY <1>1
  <2>2. CallGraphModulePass(Modules[k])
    BY <1>1, <1>5, <2>1 DEF Analyze
  <2>3. PICK end : end = Len(Modules) + 1
    OBVIOUS
  <2>4. InitAt = end /\ ModuleAt = k /\ InitAt' = end /\ ModuleAt' = k + 1
    BY <1>1, <1>5, <2>1, <2>3 DEF InitAt, ModuleAt, Before
  <2>5. UnifiedOK(end) /\ ResolvedOK(k)
    BY <1>2, <2>4
  <2>6. ResolvedOK(k + 1)'
    BY <1>1, <1>2, <2>2, <2>3, <2>5, ResolvedStep
  <2>7. UNCHANGED <<Global_Unique_Func_Map, GlobalFuncs, UnifiedFuncMap>>
    BY <2>2 DEF CallGraphModulePass
  <2>8. NamesOK' /\ KeptOK'
    BY <1>2, <2>7 DEF NamesOK, KeptOK
  <2>9. UnifiedOK(end)'
    BY <1>1, <2>5, <2>7, UnifiedQuiet
  <2>10. UnifiedOK(InitAt)'
    BY <2>4, <2>9 DEF UnifiedOK, InSome
  <2>11. ResolvedOK(ModuleAt)'
    BY <2>4, <2>6 DEF ResolvedOK, InSome
  <2> QED BY <2>8, <2>10, <2>11 DEF CopiesInv
<1>6. CASE ~(stage = "initialize" /\ step \in {"TypeBuilder", "CallGraph"}) /\ ~(step = "CallGraph" /\ stage = "module")
  <2>1. UNCHANGED tables
    BY <1>1, <1>6 DEF Analyze
  <2>2. InitAt' = InitAt /\ ModuleAt' = ModuleAt
    BY <1>1, <1>6 DEF InitAt, ModuleAt, Before, Passes
  <2> QED BY <1>1, <2>1, <2>2, QuietInv
<1> QED BY <1>1, <1>3, <1>4, <1>5, <1>6 DEF Passes

LEMMA RelaunchInv == ASSUME Inv', Relaunch PROVE CopiesInv'
<1>1. /\ globalFuncNameMap' = {} /\ Callees' = << >>
      /\ UnifiedFuncMap' = Nowhere(Hash) /\ Global_Unique_Func_Map' = Nowhere(Hash)
      /\ GlobalFuncs' = Empty(Names)
      /\ step' = "load" /\ stage' = "initialize" /\ at' = 1 /\ changed' = FALSE /\ Modules' = <<>>
  BY Zenon DEF Relaunch, Launch, SymbolsReset
<1>2. (PositionOK /\ InitAt = 1 /\ ModuleAt = 1)'
  BY <1>1 DEF PositionOK, InitAt, ModuleAt, Before
<1>3. (NamesOK /\ KeptOK)'
  BY <1>1 DEF NamesOK, KeptOK, Nowhere, Empty
<1>4. (UnifiedOK(1) /\ ResolvedOK(1))'
  BY <1>1 DEF UnifiedOK, ResolvedOK, InSome, Nowhere
<1>5. UnifiedOK(InitAt)' /\ ResolvedOK(ModuleAt)'
  BY <1>2, <1>4 DEF UnifiedOK, ResolvedOK, InSome
<1> QED BY <1>2, <1>3, <1>5 DEF CopiesInv

LEMMA StepInv == CopiesInv /\ [Next]_vars /\ Inv' => CopiesInv'
<1> SUFFICES ASSUME CopiesInv, [Next]_vars, Inv' PROVE CopiesInv'
  OBVIOUS
<1>1. CASE Next
  <2>1. PositionOK'
    BY <1>1, PositionInv DEF CopiesInv
  <2>2. ASSUME NEW t \in Thread, LoadStep(t) PROVE CopiesInv'
    BY <2>1, <2>2, LoadStepInv
  <2> QED BY <1>1, <2>1, <2>2, PassStepInv, MainStepInv, RestInv, RelaunchInv DEF Next, Proceed
<1>2. CASE UNCHANGED vars
  <2>1. UNCHANGED <<tables, Modules, step, stage, at, changed>>
    BY <1>2 DEF vars, loaderVars, team, driver
  <2>2. PositionOK'
    BY <2>1 DEF CopiesInv, PositionOK
  <2> QED BY <2>1, <2>2, QuietInv DEF InitAt, ModuleAt, Before
<1> QED BY <1>1, <1>2

LEMMA InvAgree == CopiesInv => CopiesAgree
<1> SUFFICES ASSUME CopiesInv, Analyzed, NEW c \in DOMAIN Callees \ ICall, NEW d \in Call,
                    caller[d] \in Callees[c]
             PROVE  d \in DOMAIN Callees
  BY DEF CopiesAgree
<1>1. InitAt = Len(Modules) + 1 /\ ModuleAt = Len(Modules) + 1
  BY DEF Analyzed, InitAt, ModuleAt, Before
<1>2. PICK h \in Hash : caller[d] = UnifiedFuncMap[h] /\ UnifiedFuncMap[h] # None
  BY DEF CopiesInv, ResolvedOK
<1>3. UnifiedFuncMap[funcHash(caller[d])] = caller[d]
  BY <1>2 DEF CopiesInv, KeptOK
<1>4. InSome(caller[d], Len(Modules) + 1)
  <2>1. Len(Modules) \in Nat
    BY ListType DEF CopiesInv
  <2> QED BY <1>1, <1>2, <2>1 DEF CopiesInv, UnifiedOK, InSome
<1> QED BY <1>1, <1>3, <1>4 DEF CopiesInv, ResolvedOK

\* The invariant the rest follows from, in every run of the program.
THEOREM CopiesInvariant == Spec => []CopiesInv
<1>1. Spec => []Inv
  BY PipelineLoads, LoaderInvariant, PTL
<1>2. Init /\ Inv => CopiesInv
  <2> SUFFICES ASSUME Init, Inv PROVE CopiesInv
    OBVIOUS
  <2>1. NothingYet
    BY Zenon DEF Init, LoaderInit, SymbolsInit, NothingYet
  <2> QED BY <2>1, StartInv
<1> QED BY <1>1, <1>2, StepInv, PTL DEF Spec

\* In whatever order the modules were loaded, a direct call is resolved to the copy of its
\* function whose own calls CallGraphPass resolves (unifyCallInfo, UnifiedFuncMap).
THEOREM CopiesAlwaysAgree == Spec => []CopiesAgree
BY CopiesInvariant, InvAgree, PTL

-----------------------------------------------------------------------------
(* The tables of functions, and the calls resolved with them. *)

\* How far TypeBuilderPass is with its first loop over the modules.
TypeAt == IF step = "load" THEN 1
          ELSE IF step = "TypeBuilder" /\ stage = "initialize" THEN at ELSE Len(Modules) + 1

\* The tables of TypeBuilderPass after the modules before k: a hash leads to a definition
\* if there was one, or else to a function whose address is taken.
BuiltOK(k) ==
  /\ Global_AddressTaken_Func_Set = {f \in addressTaken : InSome(f, k)}
  /\ \A n \in Names : GlobalFuncs[n] = {funcInfoHash(f) : f \in {g \in Exportable : name[g] = n /\ InSome(g, k)}}
  /\ \A h \in Hash : Global_Unique_Func_Map[h] # None =>
       LET f == Global_Unique_Func_Map[h] IN
       /\ f \in Exportable \cup Declared /\ InSome(f, k) /\ funcInfoHash(f) = h
       /\ f \in Declared => \A g \in Exportable : InSome(g, k) => funcInfoHash(g) # h
  /\ \A f \in Exportable \cup Declared : InSome(f, k) => Global_Unique_Func_Map[funcInfoHash(f)] # None

\* The functions of type s whose address is taken in the modules before k, by definition.
TakenBefore(s, k) ==
  {f \in hasBody \cap addressTaken : type[f] = s /\ InSome(f, k)}
    \cup UNION {getGlobalFuncs(f) : f \in {g \in Declared : type[g] = s /\ InSome(g, k)}}

SigsOK(k) ==
  /\ sigFuncsMap \in [Types -> SUBSET Function]
  /\ \A s \in Types : sigFuncsMap[s] = TakenBefore(s, k)

\* Of the indirect calls in the modules before k, one of each hash has an entry.
Met(k) == {c \in ICall : InSome(caller[c], k)}
SitesOK(k) ==
  /\ DOMAIN ICallees \subseteq Met(k)
  /\ globalFuncNameMap = {callInfoHash(c) : c \in Met(k)}
  /\ globalFuncNameMap = {callInfoHash(c) : c \in DOMAIN ICallees}
  /\ \A c, d \in DOMAIN ICallees : callInfoHash(c) = callInfoHash(d) => c = d
  /\ \A c \in DOMAIN ICallees : ICallees[c] = sigFuncsMap[callType[c]]
  /\ \A c \in DOMAIN Callees : Callees[c] \subseteq Function

TablesInv == BuiltOK(TypeAt) /\ SigsOK(InitAt) /\ SitesOK(ModuleAt)

-----------------------------------------------------------------------------
USE SymbolsAssumption

(* One more module for each of the three loops that fill the tables. *)

LEMMA Kinds == /\ Exportable \subseteq Function /\ Declared \subseteq Function
               /\ Exportable \cup Declared \subseteq Function \ {None}
               /\ addressTaken \subseteq Exportable \cup Declared
               /\ Exportable \cap Declared = {}
BY DEF Exportable, Declared

LEMMA MetNext == ASSUME Inv, NEW k \in 1..Len(Modules)
                 PROVE  \A f : InSome(f, k + 1) <=> InSome(f, k) \/ module[f] = Modules[k]
<1>1. k \in Nat /\ k + 1 - 1 = k /\ 1..k = 1..(k - 1) \cup {k}
  BY ListType
<1> QED BY <1>1 DEF InSome

LEMMA BuiltStep ==
  ASSUME Inv, NamesOK, NEW k \in 1..Len(Modules), BuiltOK(k), TypeBuilderInit(Modules[k]),
         UNCHANGED Modules
  PROVE  BuiltOK(k + 1)'
<1> DEFINE taken == Of(Modules[k], addressTaken)
           defined == Of(Modules[k], Exportable)
           old(h) == Global_Unique_Func_Map[h]
           new(h) == Global_Unique_Func_Map'[h]
           offered == [h \in Hash |-> Offered(Global_Unique_Func_Map, taken, h)]
           first(F, h) == CHOOSE f \in F : funcInfoHash(f) = h
           Has(F, h) == \E f \in F : funcInfoHash(f) = h
<1>1. \A f : InSome(f, k + 1) <=> InSome(f, k) \/ module[f] = Modules[k]
  BY MetNext
<1>2. /\ \A f : f \in taken <=> f \in addressTaken /\ module[f] = Modules[k]
      /\ \A f : f \in defined <=> f \in Exportable /\ module[f] = Modules[k]
  BY DEF Of
<1>3. /\ Global_AddressTaken_Func_Set' = Global_AddressTaken_Func_Set \cup taken
      /\ Global_Unique_Func_Map' = [h \in Hash |-> Replaced(offered, defined, h)]
      /\ GlobalFuncs' = [n \in Names |-> GlobalFuncs[n] \cup {funcInfoHash(f) : f \in {g \in defined : name[g] = n}}]
  BY DEF TypeBuilderInit, Exportable
<1> HIDE DEF taken, defined
<1>4. \A h \in Hash : new(h) = IF Has(defined, h) THEN first(defined, h)
                               ELSE IF old(h) = None /\ Has(taken, h) THEN first(taken, h) ELSE old(h)
  BY <1>3 DEF Replaced, Offered
<1>5. \A F, h : Has(F, h) => first(F, h) \in F /\ funcInfoHash(first(F, h)) = h
  OBVIOUS
<1> HIDE DEF offered, first
<1>6. Global_AddressTaken_Func_Set' = {f \in addressTaken : InSome(f, k + 1)}
  BY <1>1, <1>2, <1>3 DEF BuiltOK
<1>7. ASSUME NEW n \in Names
      PROVE  GlobalFuncs'[n] = {funcInfoHash(f) : f \in {g \in Exportable : name[g] = n /\ InSome(g, k + 1)}}
  <2>1. {g \in Exportable : name[g] = n /\ InSome(g, k + 1)}
          = {g \in Exportable : name[g] = n /\ InSome(g, k)} \cup {g \in defined : name[g] = n}
    BY <1>1, <1>2
  <2> QED BY <1>3, <2>1 DEF BuiltOK
<1>8. ASSUME NEW h \in Hash, new(h) # None
      PROVE  /\ new(h) \in Exportable \cup Declared /\ InSome(new(h), k + 1) /\ funcInfoHash(new(h)) = h
             /\ new(h) \in Declared => \A g \in Exportable : InSome(g, k + 1) => funcInfoHash(g) # h
  <2>1. CASE Has(defined, h)
    <3>1. new(h) = first(defined, h) /\ new(h) \in defined /\ funcInfoHash(new(h)) = h
      BY <1>4, <1>5, <2>1
    <3> QED BY <1>1, <1>2, <3>1, Kinds
  <2>2. CASE ~Has(defined, h) /\ old(h) = None /\ Has(taken, h)
    <3>1. new(h) = first(taken, h)
      BY <1>4, <2>2
    <3>2. new(h) \in taken /\ funcInfoHash(new(h)) = h
      BY <1>5, <2>2, <3>1
    <3>3. new(h) \notin Exportable /\ new(h) \in addressTaken
      BY <1>2, <2>2, <3>2
    <3>4. \A g \in Exportable : InSome(g, k) => funcInfoHash(g) # h
      BY <2>2 DEF BuiltOK
    <3> QED BY <1>1, <1>2, <2>2, <3>2, <3>3, <3>4, Kinds
  <2>3. CASE ~Has(defined, h) /\ ~(old(h) = None /\ Has(taken, h))
    <3>1. new(h) = old(h)
      BY <1>4, <2>3
    <3>2. /\ old(h) \in Exportable \cup Declared /\ InSome(old(h), k) /\ funcInfoHash(old(h)) = h
          /\ old(h) \in Declared => \A g \in Exportable : InSome(g, k) => funcInfoHash(g) # h
      BY <1>8, <3>1 DEF BuiltOK
    <3> QED BY <1>1, <1>2, <2>3, <3>1, <3>2
  <2> QED BY <2>1, <2>2, <2>3
<1>9. ASSUME NEW f \in Exportable \cup Declared, InSome(f, k + 1) PROVE new(funcInfoHash(f)) # None
  <2>1. funcInfoHash(f) \in Hash
    BY HashType, Kinds
  <2>2. CASE InSome(f, k)
    <3>1. old(funcInfoHash(f)) # None
      BY <2>2 DEF BuiltOK
    <3> QED BY <1>2, <1>4, <1>5, <2>1, <3>1, Kinds
  <2>3. CASE module[f] = Modules[k]
    <3>1. Has(defined, funcInfoHash(f)) \/ Has(taken, funcInfoHash(f))
      BY <1>2, <2>3 DEF Declared
    <3> QED BY <1>2, <1>4, <1>5, <2>1, <3>1, Kinds
  <2> QED BY <1>1, <1>9, <2>2, <2>3
<1> HIDE DEF Has
<1> QED BY <1>6, <1>7, <1>8, <1>9 DEF BuiltOK, InSome

LEMMA SigsStep ==
  ASSUME Inv, NamesOK, NEW k \in 1..Len(Modules), SigsOK(k), CallGraphInit(Modules[k]),
         UNCHANGED Modules
  PROVE  SigsOK(k + 1)'
<1> DEFINE declared == Of(Modules[k], Declared)
           defined == Of(Modules[k], hasBody)
           taken(s) == {f \in defined \cap addressTaken : type[f] = s}
                         \cup UNION {getGlobalFuncs(f) : f \in {g \in declared : type[g] = s}}
<1>1. \A f : InSome(f, k + 1) <=> InSome(f, k) \/ module[f] = Modules[k]
  BY MetNext
<1>2. /\ sigFuncsMap' = [s \in Types |-> sigFuncsMap[s] \cup taken(s)]
      /\ UNCHANGED <<Global_Unique_Func_Map, GlobalFuncs>>
  BY DEF CallGraphInit, Declared
<1>3. ASSUME NEW s \in Types PROVE TakenBefore(s, k) \cup taken(s) = TakenBefore(s, k + 1)
  <2>1. {f \in hasBody \cap addressTaken : type[f] = s /\ InSome(f, k + 1)}
          = {f \in hasBody \cap addressTaken : type[f] = s /\ InSome(f, k)}
              \cup {f \in defined \cap addressTaken : type[f] = s}
    BY <1>1 DEF Of
  <2>2. {g \in Declared : type[g] = s /\ InSome(g, k + 1)}
          = {g \in Declared : type[g] = s /\ InSome(g, k)} \cup {g \in declared : type[g] = s}
    BY <1>1 DEF Of
  <2> QED BY <2>1, <2>2 DEF TakenBefore
<1>4. \A s \in Types : taken(s) \subseteq Function
  <2>1. \A f \in declared : getGlobalFuncs(f) \subseteq Function
    BY GlobalFuncsType, Kinds DEF Of
  <2> QED BY <2>1 DEF Of
<1> HIDE DEF taken
<1>5. sigFuncsMap' \in [Types -> SUBSET Function]
  BY <1>2, <1>4 DEF SigsOK
<1>6. \A s \in Types : sigFuncsMap'[s] = TakenBefore(s, k + 1)
  BY <1>2, <1>3 DEF SigsOK
<1>7. \A s : TakenBefore(s, k + 1)' = TakenBefore(s, k + 1)
  BY <1>2 DEF TakenBefore, getGlobalFuncs, InSome
<1> QED BY <1>5, <1>6, <1>7 DEF SigsOK

LEMMA SitesStep ==
  ASSUME Inv, NamesOK, KeptOK, NEW k \in 1..Len(Modules), SigsOK(Len(Modules) + 1), SitesOK(k),
         CallGraphModulePass(Modules[k]), UNCHANGED Modules
  PROVE  SitesOK(k + 1)'
<1> DEFINE calls == {c \in Call : module[caller[c]] = Modules[k]}
           resolved == {c \in calls \cap ICall : callInfoHash(c) \notin globalFuncNameMap}
           found == resolved \cup (calls \ ICall)
           targets == [c \in found |-> IF c \in ICall THEN sigFuncsMap[callType[c]] ELSE DirectCallees(c)]
<1>1. \A f : InSome(f, k + 1) <=> InSome(f, k) \/ module[f] = Modules[k]
  BY MetNext
<1>2. /\ Callees' = [c \in DOMAIN Callees \cup found |-> IF c \in found THEN targets[c] ELSE Callees[c]]
      /\ ICallees' = [c \in DOMAIN ICallees \cup resolved |-> IF c \in resolved THEN targets[c] ELSE ICallees[c]]
      /\ globalFuncNameMap' = globalFuncNameMap \cup {callInfoHash(c) : c \in resolved}
      /\ UNCHANGED <<sigFuncsMap, UnifiedFuncMap>>
  BY DEF CallGraphModulePass
<1>3. /\ \A c : c \in resolved <=> /\ c \in ICall /\ module[caller[c]] = Modules[k]
                                   /\ callInfoHash(c) \notin globalFuncNameMap
      /\ resolved \subseteq found /\ found \subseteq Call
      /\ \A c \in found : c \in ICall => c \in resolved
      /\ \A c \in found : targets[c] = IF c \in ICall THEN sigFuncsMap[callType[c]] ELSE DirectCallees(c)
  OBVIOUS
<1> HIDE DEF resolved, found, targets
<1>4. Met(k + 1) = Met(k) \cup {d \in ICall : module[caller[d]] = Modules[k]}
  BY <1>1 DEF Met
<1>5. DOMAIN ICallees' \subseteq Met(k + 1) /\ globalFuncNameMap' = {callInfoHash(c) : c \in Met(k + 1)}
  <2> DEFINE Here == {d \in ICall : module[caller[d]] = Modules[k]}
             Sites(C) == {callInfoHash(c) : c \in C}
  <2>1. resolved \subseteq Here /\ \A c \in Here : callInfoHash(c) \in globalFuncNameMap \/ c \in resolved
    BY <1>3
  <2>2. Sites(resolved) \subseteq Sites(Here) /\ Sites(Here) \subseteq globalFuncNameMap'
    BY <1>2, <2>1
  <2>3. globalFuncNameMap = Sites(Met(k)) /\ globalFuncNameMap' = globalFuncNameMap \cup Sites(resolved)
    BY <1>2 DEF SitesOK
  <2>4. Sites(Met(k) \cup Here) = Sites(Met(k)) \cup Sites(Here)
    OBVIOUS
  <2>5. DOMAIN ICallees' \subseteq Met(k) \cup Here
    BY <1>2, <2>1 DEF SitesOK
  <2> HIDE DEF Here
  <2>6. Sites(Met(k) \cup Here) = globalFuncNameMap'
    <3> HIDE DEF Sites
    <3> QED BY <2>2, <2>3, <2>4
  <2> QED BY <1>4, <2>5, <2>6 DEF Here
<1>6. globalFuncNameMap' = {callInfoHash(c) : c \in DOMAIN ICallees'}
  BY <1>2 DEF SitesOK
<1>7. ASSUME NEW c \in DOMAIN ICallees', NEW d \in DOMAIN ICallees', callInfoHash(c) = callInfoHash(d)
      PROVE  c = d
  <2>1. \A e \in DOMAIN ICallees : callInfoHash(e) \in globalFuncNameMap
    BY DEF SitesOK
  <2>2. CASE c \in resolved /\ d \in resolved
    <3>1. caller[c] \in hasBody /\ caller[d] \in hasBody /\ c \in ICall /\ d \in ICall
      BY <1>3, <2>2
    <3>2. module[caller[c]] = module[caller[d]] /\ name[caller[c]] = name[caller[d]] /\ callPlace[c] = callPlace[d]
      BY <1>3, <1>7, <2>2 DEF callInfoHash
    <3>3. caller[c] = caller[d]
      BY <3>1, <3>2
    <3> QED BY <3>1, <3>2, <3>3, DigitsTell
  <2>3. CASE c \notin resolved /\ d \notin resolved
    BY <1>2, <1>7, <2>3 DEF SitesOK
  <2>4. c \in resolved <=> d \in resolved
    BY <1>2, <1>3, <1>7, <2>1
  <2> QED BY <2>2, <2>3, <2>4
<1>8. \A c \in DOMAIN ICallees' : ICallees'[c] = sigFuncsMap'[callType[c]]
  BY <1>2, <1>3 DEF SitesOK
<1>9. ASSUME NEW c \in DOMAIN Callees' PROVE Callees'[c] \subseteq Function
  <2>1. CASE c \in resolved
    <3>1. callType[c] \in Types
      BY <1>3, <2>1 DEF Types
    <3> QED BY <1>2, <1>3, <2>1, <3>1 DEF SigsOK
  <2>2. CASE c \in found \ resolved
    <3>1. DirectCallees(c) \subseteq {UnifiedFuncMap[h] : h \in Hash} \ {None}
      BY <1>3, <2>2, DirectType
    <3> QED BY <1>2, <1>3, <2>2, <3>1 DEF KeptOK
  <2>3. CASE c \notin found
    BY <1>2, <2>3 DEF SitesOK
  <2> QED BY <1>3, <2>1, <2>2, <2>3
<1>10. Met(k + 1)' = Met(k + 1)
  BY DEF Met, InSome
<1> QED BY <1>5, <1>6, <1>7, <1>8, <1>9, <1>10 DEF SitesOK

\* A step that leaves a table, and what it is made of, alone; before the first module
\* a table is empty, whatever the list of modules is.
LEMMA BuiltQuiet ==
  ASSUME NEW k, NEW j, k = j, BuiltOK(k), UNCHANGED Modules \/ k = 1,
         UNCHANGED <<Global_AddressTaken_Func_Set, Global_Unique_Func_Map, GlobalFuncs>>
  PROVE  BuiltOK(j)'
<1>1. CASE UNCHANGED Modules
  BY <1>1 DEF BuiltOK, InSome
<1>2. CASE k = 1
  <2>1. 1..(k - 1) = {}
    BY <1>2
  <2> QED BY <2>1 DEF BuiltOK, InSome
<1> QED BY <1>1, <1>2

LEMMA NothingTaken == \A s : TakenBefore(s, 1) = {} /\ TakenBefore(s, 1)' = {}
<1>1. \A f : ~InSome(f, 1) /\ ~InSome(f, 1)'
  BY DEF InSome
<1> QED BY <1>1 DEF TakenBefore

LEMMA SigsQuiet ==
  ASSUME NEW k, NEW j, k = j, SigsOK(k), UNCHANGED sigFuncsMap,
         UNCHANGED <<Modules, Global_Unique_Func_Map, GlobalFuncs>> \/ k = 1
  PROVE  SigsOK(j)'
<1>1. CASE UNCHANGED <<Modules, Global_Unique_Func_Map, GlobalFuncs>>
  BY <1>1 DEF SigsOK, TakenBefore, getGlobalFuncs, InSome
<1>2. CASE k = 1
  BY <1>2, NothingTaken DEF SigsOK
<1> QED BY <1>1, <1>2

LEMMA SitesQuiet ==
  ASSUME NEW k, NEW j, k = j, SitesOK(k), UNCHANGED <<globalFuncNameMap, Callees, ICallees>>,
         UNCHANGED <<Modules, sigFuncsMap>> \/ k = 1
  PROVE  SitesOK(j)'
<1>1. CASE UNCHANGED <<Modules, sigFuncsMap>>
  <2>1. Met(j)' = Met(k)
    BY <1>1 DEF Met, InSome
  <2> QED BY <1>1, <2>1 DEF SitesOK
<1>2. CASE k = 1
  <2>1. Met(k) = {} /\ Met(j)' = {}
    BY <1>2 DEF Met, InSome
  <2>2. DOMAIN ICallees = {}
    BY <2>1 DEF SitesOK
  <2> QED BY <2>1, <2>2 DEF SitesOK
<1> QED BY <1>1, <1>2

\* What is known of the positions, and of the tables up to there, is the invariant.
LEMMA TablesAt ==
  ASSUME NEW i, NEW j, NEW k, BuiltOK(i)', SigsOK(j)', SitesOK(k)',
         TypeAt' = i, InitAt' = j, ModuleAt' = k
  PROVE  TablesInv'
<1> HIDE DEF TypeAt, InitAt, ModuleAt
<1>1. BuiltOK(TypeAt)'
  BY DEF BuiltOK, InSome
<1>2. SigsOK(InitAt)'
  BY DEF SigsOK, TakenBefore, InSome
<1>3. SitesOK(ModuleAt)'
  BY DEF SitesOK, Met, InSome
<1> QED BY <1>1, <1>2, <1>3 DEF TablesInv

LEMMA TablesQuiet ==
  ASSUME TablesInv, UNCHANGED tables, TypeAt' = TypeAt, InitAt' = InitAt, ModuleAt' = ModuleAt,
         UNCHANGED Modules \/ (TypeAt = 1 /\ InitAt = 1 /\ ModuleAt = 1)
  PROVE  TablesInv'
<1>1. PICK i, j, k : i = TypeAt /\ j = InitAt /\ k = ModuleAt
  OBVIOUS
<1>2. BuiltOK(i) /\ SigsOK(j) /\ SitesOK(k)
  BY <1>1 DEF TablesInv
<1>3. BuiltOK(i)' /\ SigsOK(j)' /\ SitesOK(k)'
  BY <1>1, <1>2, BuiltQuiet, SigsQuiet, SitesQuiet DEF tables
<1> QED BY <1>1, <1>3, TablesAt

LEMMA TablesPass == ASSUME CopiesInv, TablesInv, PassStep PROVE TablesInv'
<1>1. /\ step \in Passes /\ stage \in {"initialize", "module", "finalize"}
      /\ at \in 1..Len(Modules) /\ at' = at + 1 /\ UNCHANGED <<Modules, step, stage>>
      /\ Analyze(step, stage, Modules[at])
  <2>1. Len(Modules) \in Nat /\ at \in 1..(Len(Modules) + 1)
    BY ListType DEF CopiesInv, PositionOK
  <2> QED BY <2>1 DEF PassStep, Callback, team, CopiesInv, PositionOK
<1>2. Inv /\ NamesOK /\ KeptOK
  BY DEF CopiesInv
<1>3. PICK k \in 1..Len(Modules) : k = at
  BY <1>1
<1>4. PICK end : end = Len(Modules) + 1
  OBVIOUS
<1>5. CASE step = "TypeBuilder" /\ stage = "initialize"
  <2>1. TypeBuilderInit(Modules[k])
    BY <1>1, <1>3, <1>5 DEF Analyze
  <2>2. TypeAt = k /\ InitAt = 1 /\ ModuleAt = 1 /\ TypeAt' = k + 1 /\ InitAt' = 1 /\ ModuleAt' = 1
    BY <1>1, <1>3, <1>5 DEF TypeAt, InitAt, ModuleAt, Before
  <2>3. BuiltOK(k) /\ SigsOK(1) /\ SitesOK(1)
    BY <2>2 DEF TablesInv
  <2>4. UNCHANGED <<sigFuncsMap, globalFuncNameMap, Callees, ICallees>>
    BY <2>1 DEF TypeBuilderInit
  <2>5. BuiltOK(k + 1)' /\ SigsOK(1)' /\ SitesOK(1)'
    BY <1>1, <1>2, <2>1, <2>3, <2>4, BuiltStep, SigsQuiet, SitesQuiet
  <2> QED BY <2>2, <2>5, TablesAt
<1>6. CASE step = "CallGraph" /\ stage = "initialize"
  <2>1. CallGraphInit(Modules[k])
    BY <1>1, <1>3, <1>6 DEF Analyze
  <2>2. TypeAt = end /\ InitAt = k /\ ModuleAt = 1 /\ TypeAt' = end /\ InitAt' = k + 1 /\ ModuleAt' = 1
    BY <1>1, <1>3, <1>4, <1>6 DEF TypeAt, InitAt, ModuleAt, Before
  <2>3. BuiltOK(end) /\ SigsOK(k) /\ SitesOK(1)
    BY <2>2 DEF TablesInv
  <2>4. UNCHANGED <<Global_AddressTaken_Func_Set, Global_Unique_Func_Map, GlobalFuncs,
                    globalFuncNameMap, Callees, ICallees>>
    BY <2>1 DEF CallGraphInit
  <2>5. BuiltOK(end)' /\ SigsOK(k + 1)' /\ SitesOK(1)'
    BY <1>1, <1>2, <2>1, <2>3, <2>4, BuiltQuiet, SigsStep, SitesQuiet
  <2> QED BY <2>2, <2>5, TablesAt
<1>7. CASE step = "CallGraph" /\ stage = "module"
  <2>1. CallGraphModulePass(Modules[k])
    BY <1>1, <1>3, <1>7 DEF Analyze
  <2>2. TypeAt = end /\ InitAt = end /\ ModuleAt = k /\ TypeAt' = end /\ InitAt' = end /\ ModuleAt' = k + 1
    BY <1>1, <1>3, <1>4, <1>7 DEF TypeAt, InitAt, ModuleAt, Before
  <2>3. BuiltOK(end) /\ SigsOK(end) /\ SitesOK(k)
    BY <2>2 DEF TablesInv
  <2>4. UNCHANGED <<Global_AddressTaken_Func_Set, Global_Unique_Func_Map, GlobalFuncs, sigFuncsMap>>
    BY <2>1 DEF CallGraphModulePass
  <2>5. BuiltOK(end)' /\ SigsOK(end)'
    BY <1>1, <2>3, <2>4, BuiltQuiet, SigsQuiet
  <2>6. SitesOK(k + 1)'
    BY <1>1, <1>2, <1>4, <2>1, <2>3, SitesStep
  <2> QED BY <2>2, <2>5, <2>6, TablesAt
<1>8. CASE ~(stage = "initialize" /\ step \in {"TypeBuilder", "CallGraph"}) /\ ~(step = "CallGraph" /\ stage = "module")
  <2>1. UNCHANGED tables
    BY <1>1, <1>8 DEF Analyze
  <2>2. TypeAt' = TypeAt /\ InitAt' = InitAt /\ ModuleAt' = ModuleAt
    BY <1>1, <1>8 DEF TypeAt, InitAt, ModuleAt, Before, Passes
  <2> QED BY <1>1, <2>1, <2>2, TablesQuiet
<1> QED BY <1>1, <1>5, <1>6, <1>7, <1>8 DEF Passes

LEMMA TablesMain == ASSUME CopiesInv, TablesInv, MainStep PROVE TablesInv'
<1>1. UNCHANGED tables /\ UNCHANGED Modules /\ at' = 1
  BY DEF MainStep, LoadStaticData, EndStage, NextStage, StartStage, team
<1>2. CASE LoadStaticData
  <2>1. step = "load" /\ step' = "TypeBuilder" /\ stage' = "initialize"
    BY <1>2 DEF LoadStaticData, StartStage, PassAfter
  <2> QED BY <1>1, <2>1, TablesQuiet DEF TypeAt, InitAt, ModuleAt, Before
<1>3. CASE EndStage
  <2>1. at = Len(Modules) + 1
    <3>1. Len(Modules) \in Nat /\ at \in 1..(Len(Modules) + 1) /\ at > Len(Modules)
      BY <1>3, ListType DEF EndStage, EndOfList, CopiesInv, PositionOK
    <3> QED BY <3>1
  <2>2. /\ step \in Passes /\ stage \in {"initialize", "module", "finalize"}
        /\ \/ stage # "finalize" /\ step' = step /\ stage' = StageAfter[stage]
           \/ stage = "finalize" /\ step' = PassAfter[step] /\ stage' = "initialize"
    BY <1>3, Zenon DEF EndStage, NextStage, StartStage, CopiesInv, PositionOK
  <2>3. TypeAt' = TypeAt /\ InitAt' = InitAt /\ ModuleAt' = ModuleAt
    BY <1>1, <2>1, <2>2 DEF TypeAt, InitAt, ModuleAt, Before, Passes, PassAfter, StageAfter
  <2> QED BY <1>1, <2>3, TablesQuiet
<1> QED BY <1>2, <1>3 DEF MainStep

LEMMA TablesRest ==
  ASSUME CopiesInv, TablesInv, (\E t \in Thread : LoadStep(t)) \/ UpdateStep \/ LeaveStep \/ UNCHANGED vars
  PROVE  TablesInv'
<1>1. CASE \E t \in Thread : LoadStep(t)
  <2>1. PICK t \in Thread : LoadStep(t)
    BY <1>1
  <2>2. pc[t] # "idle" => step = "load"
    BY DEF CopiesInv, Inv, LoadEnded
  <2>3. step = "load" /\ UNCHANGED <<step, stage, at>> /\ UNCHANGED tables
    BY <2>1, <2>2 DEF LoadStep, Load, driver, Take, parseIRFile, SetLock, PushBack, PushedBack, UnsetLock
  <2> QED BY <2>3, TablesQuiet DEF TypeAt, InitAt, ModuleAt, Before
<1>2. CASE UpdateStep \/ UNCHANGED vars
  <2>1. UNCHANGED <<tables, Modules, step, stage, at>>
    BY <1>2 DEF UpdateStep, vars, loaderVars, team, driver
  <2> QED BY <2>1, TablesQuiet DEF TypeAt, InitAt, ModuleAt, Before
<1>3. CASE LeaveStep
  <2>1. UNCHANGED <<tables, Modules>> /\ step \in {"analyzed", "update"} /\ step' \in {"update", "returned"}
    BY <1>3 DEF LeaveStep, Leave, team
  <2> QED BY <2>1, TablesQuiet DEF TypeAt, InitAt, ModuleAt, Before
<1> QED BY <1>1, <1>2, <1>3

\* The tables at the start of a run.
TablesEmpty == /\ Global_AddressTaken_Func_Set = {} /\ Global_Unique_Func_Map = Nowhere(Hash)
               /\ GlobalFuncs = Empty(Names) /\ sigFuncsMap = Empty(Types)
               /\ globalFuncNameMap = {} /\ Callees = << >> /\ ICallees = << >> /\ step = "load"

LEMMA TablesStart == TablesEmpty => TablesInv
<1> SUFFICES ASSUME TablesEmpty PROVE TablesInv
  OBVIOUS
<1> USE DEF TablesEmpty
<1>1. TypeAt = 1 /\ InitAt = 1 /\ ModuleAt = 1
  BY DEF TypeAt, InitAt, ModuleAt, Before
<1>2. \A f : ~InSome(f, 1)
  BY DEF InSome
<1>3. BuiltOK(1)
  BY <1>2 DEF BuiltOK, Nowhere, Empty
<1>4. SigsOK(1)
  BY NothingTaken DEF SigsOK, Empty
<1>5. SitesOK(1)
  BY <1>2 DEF SitesOK, Met
<1> QED BY <1>1, <1>3, <1>4, <1>5 DEF TablesInv

LEMMA TablesStep == CopiesInv /\ TablesInv /\ [Next]_vars => TablesInv'
<1>1. ASSUME Relaunch PROVE TablesInv'
  <2>1. TablesEmpty'
    BY <1>1, Zenon DEF Relaunch, Launch, SymbolsReset, TablesEmpty
  <2> QED BY <2>1, TablesStart, PTL
<1> QED BY <1>1, TablesPass, TablesMain, TablesRest DEF Next, Proceed
\* What every table has, in terms of the modules that were taken, in every run.
THEOREM TablesInvariant == Spec => []TablesInv
<1>1. Init => TablesInv
  <2> SUFFICES ASSUME Init PROVE TablesInv
    OBVIOUS
  <2>1. TablesEmpty
    BY Zenon DEF Init, LoaderInit, SymbolsInit, TablesEmpty
  <2> QED BY <2>1, TablesStart
<1> QED BY <1>1, CopiesInvariant, TablesStep, PTL DEF Spec

-----------------------------------------------------------------------------
(* What follows from it when the passes have ended. *)

LEMMA AllTaken ==
  ASSUME CopiesInv, TablesInv, Analyzed
  PROVE  /\ TypeAt = Len(Modules) + 1 /\ InitAt = Len(Modules) + 1 /\ ModuleAt = Len(Modules) + 1
         /\ BuiltOK(Len(Modules) + 1) /\ SigsOK(Len(Modules) + 1) /\ SitesOK(Len(Modules) + 1)
         /\ \A f : InSome(f, Len(Modules) + 1) <=> Loaded(f)
<1>1. TypeAt = Len(Modules) + 1 /\ InitAt = Len(Modules) + 1 /\ ModuleAt = Len(Modules) + 1
  BY DEF Analyzed, TypeAt, InitAt, ModuleAt, Before
<1>2. BuiltOK(Len(Modules) + 1) /\ SigsOK(Len(Modules) + 1) /\ SitesOK(Len(Modules) + 1)
  BY <1>1 DEF TablesInv
<1>3. {Modules[i] : i \in DOMAIN Modules} = Readable
  BY InvLoadedOnce DEF LoadedOnce, Analyzed, CopiesInv
<1>4. DOMAIN Modules = 1..(Len(Modules) + 1 - 1)
  BY ListType DEF CopiesInv
<1> QED BY <1>1, <1>2, <1>3, <1>4 DEF InSome, Loaded

\* The functions getGlobalFuncs finds have the name they are asked for by.
LEMMA GlobalFuncsNamed ==
  ASSUME NamesOK, NEW k, BuiltOK(k), NEW f \in Exportable \cup Declared, InSome(f, k)
  PROVE  /\ getGlobalFuncs(f) # {}
         /\ \A g \in getGlobalFuncs(f) : g \in Exportable \cup Declared /\ name[g] = name[f] /\ InSome(g, k)
         /\ f \in Exportable => /\ getGlobalFuncs(f) \subseteq Exportable
                                /\ \E g \in getGlobalFuncs(f) : funcInfoHash(g) = funcInfoHash(f)
<1> DEFINE found == {Global_Unique_Func_Map[h] : h \in GlobalFuncs[name[f]]}
           own == Global_Unique_Func_Map[funcInfoHash(f)]
<1>1. name[f] \in Names /\ funcInfoHash(f) \in Hash
  BY HashType, Kinds DEF Names
<1>2. ASSUME NEW h \in GlobalFuncs[name[f]]
      PROVE  LET g == Global_Unique_Func_Map[h] IN
             g \in Exportable /\ name[g] = name[f] /\ InSome(g, k) /\ funcInfoHash(g) = h
  <2>1. PICK x \in Exportable : h = funcInfoHash(x) /\ name[x] = name[f] /\ InSome(x, k)
    BY <1>1, <1>2 DEF BuiltOK
  <2>2. h \in Hash /\ Global_Unique_Func_Map[h] # None
    BY <2>1, HashType, Kinds DEF BuiltOK
  <2> QED BY <2>1, <2>2 DEF BuiltOK, funcInfoHash
<1>3. f \in Exportable => funcInfoHash(f) \in GlobalFuncs[name[f]]
  BY <1>1 DEF BuiltOK
<1>4. own # None /\ own \in Exportable \cup Declared /\ name[own] = name[f] /\ InSome(own, k)
  BY <1>1 DEF BuiltOK, funcInfoHash
<1>5. getGlobalFuncs(f) = IF found # {} THEN found ELSE {own}
  BY <1>4 DEF getGlobalFuncs
<1>6. \A g \in found : g \in Exportable /\ name[g] = name[f] /\ InSome(g, k)
  BY <1>2
<1>7. f \in Exportable => own \in found /\ funcInfoHash(own) = funcInfoHash(f)
  BY <1>2, <1>3
<1> HIDE DEF found, own
<1> QED BY <1>4, <1>5, <1>6, <1>7

LEMMA InvNames == CopiesInv /\ TablesInv /\ PlacesTell => NamesLeadToDefinitions
<1> SUFFICES ASSUME CopiesInv, TablesInv, PlacesTell, Analyzed, NEW f \in Exportable, Loaded(f)
             PROVE  /\ getGlobalFuncs(f) \subseteq hasBody
                    /\ source[f] \in {source[g] : g \in getGlobalFuncs(f)}
  BY DEF NamesLeadToDefinitions, Exportable
<1>1. NamesOK /\ BuiltOK(Len(Modules) + 1) /\ InSome(f, Len(Modules) + 1)
  BY AllTaken DEF CopiesInv
<1>2. /\ getGlobalFuncs(f) \subseteq Exportable
      /\ \E g \in getGlobalFuncs(f) : funcInfoHash(g) = funcInfoHash(f)
  BY <1>1, GlobalFuncsNamed
<1>3. \E g \in getGlobalFuncs(f) : source[g] = source[f]
  BY <1>2 DEF PlacesTell
<1> QED BY <1>2, <1>3 DEF Exportable

\* Where debug information tells definitions of a name apart, a name other modules may
\* call leads to definitions and to all of them, in whatever order the modules were
\* loaded (TypeBuilderPass, getGlobalFuncs).
THEOREM NamesAlwaysLead == ASSUME PlacesTell PROVE Spec => []NamesLeadToDefinitions
<1>1. CopiesInv /\ TablesInv => NamesLeadToDefinitions
  BY InvNames
<1> QED BY <1>1, CopiesInvariant, TablesInvariant, PTL

LEMMA InvSites == CopiesInv /\ TablesInv /\ NamesLinked /\ SitesTell => SitesResolvedOnce
<1> DEFINE end == Len(Modules) + 1
<1> SUFFICES ASSUME CopiesInv, TablesInv, NamesLinked, SitesTell, Analyzed,
                    NEW c \in ICall, Loaded(caller[c])
             PROVE  \E d \in DOMAIN ICallees :
                      /\ \A e \in DOMAIN ICallees : Site(e) = Site(c) <=> e = d
                      /\ {source[f] : f \in ICallees[d]}
                           = {source[f] : f \in {g \in addressTaken : Loaded(g) /\ type[g] = callType[c]}}
  BY DEF SitesResolvedOnce
<1>1. NamesOK /\ BuiltOK(end) /\ SigsOK(end) /\ SitesOK(end) /\ \A f : InSome(f, end) <=> Loaded(f)
  BY AllTaken DEF CopiesInv
<1> HIDE DEF end
<1>2. c \in Met(end)
  BY <1>1 DEF Met
<1>3. PICK d \in DOMAIN ICallees : callInfoHash(d) = callInfoHash(c)
  BY <1>1, <1>2 DEF SitesOK
<1>4. \A e \in DOMAIN ICallees : Site(e) = Site(c) <=> e = d
  BY <1>1, <1>3 DEF SitesOK, Site
<1>5. d \in ICall /\ callType[d] = callType[c] /\ callType[c] \in Types
  BY <1>1, <1>3 DEF SitesOK, Met, SitesTell, Types
<1>6. ICallees[d] = TakenBefore(callType[c], end)
  BY <1>1, <1>3, <1>5 DEF SitesOK, SigsOK
<1>7. ASSUME NEW f \in TakenBefore(callType[c], end)
      PROVE  \E g \in addressTaken : Loaded(g) /\ type[g] = callType[c] /\ source[g] = source[f]
  <2>1. CASE f \in hasBody \cap addressTaken /\ type[f] = callType[c] /\ InSome(f, end)
    BY <1>1, <2>1
  <2>2. ASSUME NEW g \in Declared, type[g] = callType[c], InSome(g, end), f \in getGlobalFuncs(g)
        PROVE  \E h \in addressTaken : Loaded(h) /\ type[h] = callType[c] /\ source[h] = source[f]
    <3>1. f \in Exportable \cup Declared /\ name[f] = name[g]
      BY <1>1, <2>2, GlobalFuncsNamed
    <3>2. source[f] = source[g] /\ g \in addressTaken
      BY <3>1 DEF NamesLinked, Declared
    <3> QED BY <1>1, <2>2, <3>2
  <2> QED BY <1>7, <2>1, <2>2 DEF TakenBefore
<1>8. ASSUME NEW g \in addressTaken, Loaded(g), type[g] = callType[c]
      PROVE  \E f \in TakenBefore(callType[c], end) : source[f] = source[g]
  <2>1. CASE g \in hasBody
    BY <1>1, <1>8, <2>1 DEF TakenBefore
  <2>2. CASE g \notin hasBody
    <3>1. g \in Declared /\ InSome(g, end)
      BY <1>1, <1>8, <2>2 DEF Declared
    <3>2. PICK f \in getGlobalFuncs(g) : f \in Exportable \cup Declared /\ name[f] = name[g]
      BY <1>1, <3>1, GlobalFuncsNamed
    <3> QED BY <1>8, <3>1, <3>2 DEF NamesLinked, TakenBefore
  <2> QED BY <2>1, <2>2
<1> QED BY <1>3, <1>4, <1>6, <1>7, <1>8

\* Where the hashes of the calls and the names tell what they stand for apart, every
\* indirect call is resolved once, with all functions of its type, in whatever order the
\* modules were loaded (CallGraphPass::doModulePass).
THEOREM SitesAlwaysResolvedOnce ==
  ASSUME NamesLinked, SitesTell PROVE Spec => []SitesResolvedOnce
<1>1. CopiesInv /\ TablesInv => SitesResolvedOnce
  BY InvSites
<1> QED BY <1>1, CopiesInvariant, TablesInvariant, PTL

-----------------------------------------------------------------------------
(***************************************************************************)
(* The update of the database, for any program, any size of a batch and    *)
(* any queries that fail: what the tables hold between two queries, and    *)
(* what they report when the update has ended.                             *)
(***************************************************************************)


-----------------------------------------------------------------------------
(* Induction for the lemmas about what a fold computes.  A property is the set *)
(* of the numbers that have it and an operator is a function, because the      *)
(* provers cannot instantiate a theorem with an operator.                      *)

\* A set of numbers with zero and the successor of each of its numbers has them all.
LEMMA SetInduction ==
  ASSUME NEW P \in SUBSET Nat, 0 \in P, \A n \in P : n + 1 \in P
  PROVE  P = Nat
<1> DEFINE T == {1..n : n \in Nat \ P}
<1> SUFFICES ASSUME NEW bad \in Nat, bad \notin P PROVE FALSE
  OBVIOUS
<1>1. IsWellFoundedOn(StrictSubsetOrdering(Nat), FiniteSubsetsOf(Nat))
  BY FS_StrictSubsetOrderingWellFounded
<1>2. T \subseteq FiniteSubsetsOf(Nat) /\ T # {}
  <2>1. \A n \in Nat : IsFiniteSet(1..n)
    BY FS_Interval
  <2> QED BY <2>1 DEF FiniteSubsetsOf
<1> HIDE DEF T
<1>3. PICK x \in T : \A y \in T : ~(<<y, x>> \in StrictSubsetOrdering(Nat))
  BY <1>1, <1>2, WFMin
<1>4. PICK n \in Nat \ P : x = 1..n
  BY DEF T
<1>5. n # 0 /\ n - 1 \in Nat /\ n - 1 \notin P
  OBVIOUS
<1>6. 1..(n - 1) \in T
  BY <1>5 DEF T
<1>7. <<1..(n - 1), x>> \in StrictSubsetOrdering(Nat)
  <2>1. 1..(n - 1) \in SUBSET Nat /\ x \in SUBSET Nat
    BY <1>4
  <2>2. 1..(n - 1) \subseteq x /\ n \in x /\ n \notin 1..(n - 1)
    BY <1>4, <1>5
  <2> QED BY <2>1, <2>2 DEF StrictSubsetOrdering
<1> QED BY <1>3, <1>6, <1>7

\* c takes one element of each set that has one.
Chooses(c, S) == \A s \in SUBSET S : s # {} => c[s] \in s

\* f[s] combines the elements of s with G, the one c takes last.
FoldOf(f, S, base, G, c) ==
  \A s \in SUBSET S : f[s] = IF s = {} THEN base ELSE G[<<c[s], f[s \ {c[s]}]>>]

\* The recursive function MapThenFoldSet is defined with exists.
LEMMA FoldExists ==
  ASSUME NEW S, IsFiniteSet(S), NEW T, NEW base \in T, NEW G \in [S \X T -> T],
         NEW c, Chooses(c, S)
  PROVE  \E f \in [SUBSET S -> T] : FoldOf(f, S, base, G, c)
<1> DEFINE Step(f, s) == IF s = {} THEN base ELSE G[<<c[s], f[s \ {c[s]}]>>]
           Upto(f, n) == \A s \in SUBSET S : Cardinality(s) <= n => f[s] = Step(f, s)
           P == {n \in Nat : \E f \in [SUBSET S -> T] : Upto(f, n)}
<1>1. \A s \in SUBSET S : IsFiniteSet(s) /\ Cardinality(s) \in Nat /\ Cardinality(s) <= Cardinality(S)
  BY FS_Subset, FS_CardinalityType
<1>2. \A s \in SUBSET S : s # {} => /\ s \ {c[s]} \in SUBSET S
                                    /\ Cardinality(s \ {c[s]}) = Cardinality(s) - 1
  BY <1>1, FS_RemoveElement DEF Chooses
<1>3. \A s \in SUBSET S, f \in [SUBSET S -> T] : Step(f, s) \in T
  BY <1>2 DEF Chooses
<1>4. 0 \in P
  <2>1. Upto([s \in SUBSET S |-> base], 0)
    <3>1. \A s \in SUBSET S : Cardinality(s) <= 0 => s = {}
      BY <1>1, FS_EmptySet
    <3> QED BY <3>1
  <2> QED BY <2>1
<1>5. ASSUME NEW n \in P PROVE n + 1 \in P
  <2>1. PICK f \in [SUBSET S -> T] : Upto(f, n)
    BY <1>5
  <2> DEFINE g == [s \in SUBSET S |-> Step(f, s)]
  <2>2. g \in [SUBSET S -> T]
    BY <1>3
  <2>3. ASSUME NEW s \in SUBSET S, Cardinality(s) <= n + 1 PROVE g[s] = Step(g, s)
    <3>1. CASE s = {}
      BY <3>1
    <3>2. CASE s # {}
      <4>1. s \ {c[s]} \in SUBSET S /\ Cardinality(s \ {c[s]}) <= n
        BY <1>1, <1>2, <2>3, <3>2
      <4>2. f[s \ {c[s]}] = Step(f, s \ {c[s]})
        BY <2>1, <4>1
      <4>3. g[s \ {c[s]}] = f[s \ {c[s]}]
        BY <4>1, <4>2
      <4> QED BY <3>2, <4>3
    <3> QED BY <3>1, <3>2
  <2> HIDE DEF Step, g
  <2>4. Upto(g, n + 1)
    BY <2>3
  <2> HIDE DEF Upto
  <2> QED BY <2>2, <2>4
<1> HIDE DEF P
<1>6. P \subseteq Nat /\ Cardinality(S) \in P
  <2>1. P \in SUBSET Nat
    BY DEF P
  <2>2. P = Nat
    BY <1>4, <1>5, <2>1, SetInduction
  <2> QED BY <2>1, <2>2, FS_CardinalityType
<1>7. PICK f \in [SUBSET S -> T] : Upto(f, Cardinality(S))
  BY <1>6 DEF P
<1>8. \A s \in SUBSET S : f[s] = Step(f, s)
  BY <1>1, <1>7
<1> QED BY <1>8 DEF FoldOf

\* SetToSeq lists every element of a finite set once.
LEMMA SetToSeqLists ==
  ASSUME NEW S, IsFiniteSet(S)
  PROVE  /\ Cardinality(S) \in Nat
         /\ SetToSeq(S) \in Seq(S) /\ Len(SetToSeq(S)) = Cardinality(S)
         /\ \A i, j \in 1..Cardinality(S) : SetToSeq(S)[i] = SetToSeq(S)[j] => i = j
         /\ \A x \in S : \E i \in 1..Cardinality(S) : SetToSeq(S)[i] = x
<1> DEFINE n == Cardinality(S)
           s == SetToSeq(S)
<1>1. n \in Nat /\ ExistsBijection(1..n, S)
  BY FS_CardinalityType
<1>2. s \in [1..n -> S] /\ IsInjective(s)
  <2>1. \E f \in [1..n -> S] : IsInjective(f)
    BY <1>1 DEF ExistsBijection, Bijection, Injection
  <2> QED BY <2>1 DEF SetToSeq
<1> HIDE DEF s
<1>3. s \in Surjection(1..n, S)
  <2>1. Cardinality(1..n) = n
    BY <1>1, FS_Interval
  <2> QED BY <1>2, <2>1, FS_Injection DEF Injection
<1> HIDE DEF n
<1>4. s \in Seq(S) /\ Len(s) = n
  BY <1>1, <1>2
<1> QED BY <1>1, <1>2, <1>3, <1>4 DEF IsInjective, Surjection, n, s

\* The values of a function with a finite domain.
LEMMA ImageFinite ==
  ASSUME NEW f, IsFiniteSet(DOMAIN f) PROVE IsFiniteSet({f[x] : x \in DOMAIN f})
<1> DEFINE g == [x \in DOMAIN f |-> f[x]]
<1>1. g \in Surjection(DOMAIN f, {f[x] : x \in DOMAIN f})
  BY DEF Surjection
<1> QED BY <1>1, FS_Surjection

-----------------------------------------------------------------------------
(* The statements that are built for a list of rows. *)

\* The rows of list after the first p, up to the one at q.
Slice(list, p, q) == [i \in 1..(q - p) |-> list[p + i]]

\* The statements cs are the rows of list from the one after p to q, in order, cut at b:
\* none is empty and none is longer than a batch.
Cut(cs, list, p, q, b) ==
  /\ b \in [0..Len(cs) -> p..q]
  /\ b[0] = p /\ b[Len(cs)] = q
  /\ \A k \in 1..Len(cs) : /\ b[k - 1] < b[k] /\ b[k] - b[k - 1] <= batch_size
                           /\ cs[k] = Slice(list, b[k - 1], b[k])

\* They are the rows of list after the first p.
CutsInto(cs, list, p) == \E b \in [0..Len(cs) -> p..Len(list)] : Cut(cs, list, p, Len(list), b)

NoRows == [cmds |-> <<>>, insertss |-> <<>>, icallid |-> 1]
Accumulators(R) == [cmds : Seq(Seq(R)), insertss : Seq(R), icallid : Nat]

\* The loop over the rows after m of them.
BatchOK(acc, list, R, m) ==
  LET q == m - Len(acc.insertss) IN
  /\ acc \in Accumulators(R) /\ acc.icallid = m + 1
  /\ Len(acc.insertss) < batch_size /\ (m = Len(list) => acc.insertss = <<>>)
  /\ q \in Nat /\ acc.insertss = Slice(list, q, m)
  /\ \E b : Cut(acc.cmds, list, 0, q, b)

LEMMA ListElements ==
  ASSUME NEW R, NEW list \in Seq(R)
  PROVE  /\ Len(list) \in Nat /\ DOMAIN list = 1..Len(list)
         /\ \A i \in 1..Len(list) : list[i] \in R
OBVIOUS

LEMMA SliceType ==
  ASSUME NEW R, NEW list \in Seq(R), NEW p \in Nat, NEW q \in Nat, p <= q, q <= Len(list)
  PROVE  Slice(list, p, q) \in Seq(R) /\ Len(Slice(list, p, q)) = q - p
<1>1. Slice(list, p, q) \in [1..(q - p) -> R]
  BY DEF Slice
<1>2. q - p \in Nat
  OBVIOUS
<1> QED BY <1>1, <1>2 DEF Slice

LEMMA SliceOneMore ==
  ASSUME NEW R, NEW list \in Seq(R), NEW p \in Nat, NEW m \in Nat, p <= m, m + 1 <= Len(list)
  PROVE  Append(Slice(list, p, m), list[m + 1]) = Slice(list, p, m + 1)
<1>1. /\ Slice(list, p, m) \in Seq(R) /\ Len(Slice(list, p, m)) = m - p
      /\ Slice(list, p, m + 1) \in Seq(R) /\ Len(Slice(list, p, m + 1)) = m + 1 - p
  <2> DEFINE n == m + 1
  <2>1. n \in Nat /\ p <= n /\ m <= Len(list) /\ n <= Len(list)
    BY ListElements
  <2>2. Slice(list, p, m) \in Seq(R) /\ Len(Slice(list, p, m)) = m - p
    BY <2>1, SliceType
  <2> HIDE DEF n
  <2>3. Slice(list, p, n) \in Seq(R) /\ Len(Slice(list, p, n)) = n - p
    BY <2>1, SliceType
  <2> QED BY <2>2, <2>3 DEF n
<1>2. list[m + 1] \in R
  <2>1. m + 1 \in 1..Len(list)
    BY ListElements
  <2> QED BY <2>1, ListElements
<1>3. \A i \in 1..(m - p) : Slice(list, p, m)[i] = list[p + i]
  BY DEF Slice
<1>4. \A i \in 1..(m + 1 - p) : Slice(list, p, m + 1)[i] = list[p + i]
  BY DEF Slice
<1> QED BY <1>1, <1>2, <1>3, <1>4

LEMMA CutOneMore ==
  ASSUME DatabaseAssumption, NEW R, NEW cs \in Seq(Seq(R)), NEW list \in Seq(R),
         NEW p \in Nat, NEW q \in Nat, NEW b, Cut(cs, list, p, q, b),
         NEW m \in Nat, q < m, m - q <= batch_size, m <= Len(list)
  PROVE  \E e : Cut(Append(cs, Slice(list, q, m)), list, p, m, e)
<1> DEFINE l == Len(cs)
           more == Append(cs, Slice(list, q, m))
           e == [k \in 0..(l + 1) |-> IF k <= l THEN b[k] ELSE m]
<1>1. l \in Nat /\ Len(more) = l + 1 /\ more[l + 1] = Slice(list, q, m)
  <2>1. Slice(list, q, m) \in Seq(R)
    BY SliceType
  <2> QED BY <2>1
<1>2. \A k \in 1..l : more[k] = cs[k]
  OBVIOUS
<1>3. p <= q /\ b \in [0..l -> p..q] /\ b[0] = p /\ b[l] = q
  <2>1. b \in [0..l -> p..q] /\ b[0] = p /\ b[l] = q
    BY DEF Cut
  <2> HIDE DEF l
  <2>2. b[0] \in p..q
    <3>1. 0 \in 0..l
      BY <1>1
    <3> QED BY <2>1, <3>1
  <2>3. p <= q
    BY <2>1, <2>2
  <2> QED BY <2>1, <2>3
<1>4. e \in [0..(l + 1) -> p..m] /\ e[0] = p /\ e[l + 1] = m /\ e[l] = q
  BY <1>1, <1>3
<1>5. ASSUME NEW k \in 1..(l + 1)
      PROVE  /\ e[k - 1] < e[k] /\ e[k] - e[k - 1] <= batch_size
             /\ more[k] = Slice(list, e[k - 1], e[k])
  <2>1. CASE k = l + 1
    BY <1>1, <1>4, <2>1
  <2>2. CASE k \in 1..l
    <3>1. e[k] = b[k] /\ e[k - 1] = b[k - 1]
      BY <1>1, <2>2
    <3> QED BY <1>2, <2>2, <3>1 DEF Cut
  <2> QED BY <1>1, <2>1, <2>2
<1>6. Cut(more, list, p, m, e)
  <2> HIDE DEF e, more, l
  <2> QED BY <1>1, <1>4, <1>5 DEF Cut
<1> QED BY <1>6

LEMMA BatchStep ==
  ASSUME DatabaseAssumption, NEW R, NEW list \in Seq(R), icallnum(table) = Len(list),
         NEW m \in 1..Len(list), NEW acc, BatchOK(acc, list, R, m - 1)
  PROVE  BatchOK(Batch(acc, list[m]), list, R, m)
<1> DEFINE l == Len(acc.insertss)
           q == m - 1 - l
           insertss == Append(acc.insertss, list[m])
           new == Batch(acc, list[m])
           ends == Len(insertss) >= batch_size \/ acc.icallid = icallnum(table)
<1>1. /\ acc \in Accumulators(R) /\ acc.icallid = m
      /\ l < batch_size /\ q \in Nat /\ acc.insertss = Slice(list, q, m - 1)
  <2>1. m - 1 + 1 = m
    BY ListElements
  <2> QED BY <2>1 DEF BatchOK
<1>2. acc.cmds \in Seq(Seq(R)) /\ acc.insertss \in Seq(R) /\ l \in Nat
  BY <1>1 DEF Accumulators
<1>3. Len(list) \in Nat /\ list[m] \in R /\ m \in Nat /\ m <= Len(list) /\ batch_size \in Nat \ {0}
  BY DEF DatabaseAssumption
<1>4. insertss \in Seq(R) /\ Len(insertss) = l + 1
  BY <1>2, <1>3
<1>5. PICK b : Cut(acc.cmds, list, 0, q, b)
  BY DEF BatchOK
<1>6. \/ ends /\ new = [cmds |-> Append(acc.cmds, insertss), insertss |-> <<>>, icallid |-> m + 1]
      \/ ~ends /\ new = [acc EXCEPT !.insertss = insertss, !.icallid = @ + 1]
  BY <1>1 DEF Batch
<1> HIDE DEF l, insertss, new
<1>7. m - q = l + 1 /\ l + 1 <= batch_size /\ q < m
  BY <1>1, <1>2, <1>3
<1>8. insertss = Slice(list, q, m)
  <2>1. q <= m - 1 /\ m - 1 \in Nat /\ m - 1 + 1 = m
    BY <1>2, <1>3
  <2> HIDE DEF q
  <2>2. Append(Slice(list, q, m - 1), list[m - 1 + 1]) = Slice(list, q, m - 1 + 1)
    BY <1>1, <1>3, <2>1, SliceOneMore
  <2> QED BY <1>1, <2>1, <2>2 DEF insertss
<1>9. CASE ends
  <2>1. /\ new.cmds = Append(acc.cmds, insertss) /\ new.insertss = <<>> /\ new.icallid = m + 1
        /\ new \in Accumulators(R)
    <3>1. new = [cmds |-> Append(acc.cmds, insertss), insertss |-> <<>>, icallid |-> m + 1]
      BY <1>6, <1>9
    <3>2. Append(acc.cmds, insertss) \in Seq(Seq(R)) /\ m + 1 \in Nat /\ <<>> \in Seq(R)
      BY <1>2, <1>3, <1>4
    <3> QED BY <3>1, <3>2 DEF Accumulators
  <2> HIDE DEF q
  <2>2. \E e : Cut(new.cmds, list, 0, m, e)
    <3>1. \E e : Cut(Append(acc.cmds, Slice(list, q, m)), list, 0, m, e)
      BY <1>1, <1>2, <1>3, <1>5, <1>7, CutOneMore
    <3> QED BY <1>8, <2>1, <3>1
  <2>3. <<>> = Slice(list, m, m)
    <3>1. 1..(m - m) = {}
      BY <1>3
    <3> QED BY <3>1 DEF Slice
  <2>4. Len(new.insertss) < batch_size /\ m - Len(new.insertss) = m
    <3>1. Len(new.insertss) = 0
      BY <2>1
    <3> QED BY <1>3, <3>1
  <2>5. /\ m - Len(new.insertss) \in Nat /\ new.insertss = Slice(list, m - Len(new.insertss), m)
        /\ \E e : Cut(new.cmds, list, 0, m - Len(new.insertss), e)
    BY <1>3, <2>1, <2>2, <2>3, <2>4
  <2> QED BY <2>1, <2>4, <2>5 DEF BatchOK, new
<1>10. CASE ~ends
  <2>1. /\ new.cmds = acc.cmds /\ new.insertss = insertss /\ new.icallid = m + 1
        /\ new \in Accumulators(R)
    <3>1. new = [acc EXCEPT !.insertss = insertss, !.icallid = @ + 1]
      BY <1>6, <1>10
    <3>2. acc.cmds \in Seq(Seq(R)) /\ m + 1 \in Nat
      BY <1>2, <1>3
    <3> HIDE DEF q, ends
    <3> QED BY <1>1, <1>4, <3>1, <3>2 DEF Accumulators
  <2>2. Len(insertss) < batch_size /\ m # Len(list)
    BY <1>1, <1>2, <1>3, <1>4, <1>10
  <2>3. m - Len(new.insertss) = q
    <3>1. Len(new.insertss) = l + 1
      BY <1>4, <2>1
    <3> HIDE DEF ends
    <3> QED BY <1>2, <1>3, <3>1
  <2> HIDE DEF q, ends
  <2>4. /\ m - Len(new.insertss) \in Nat /\ new.insertss = Slice(list, m - Len(new.insertss), m)
        /\ \E e : Cut(new.cmds, list, 0, m - Len(new.insertss), e)
    BY <1>1, <1>5, <1>8, <2>1, <2>3
  <2> QED BY <2>1, <2>2, <2>4 DEF BatchOK, new
<1> HIDE DEF ends
<1> QED BY <1>9, <1>10, Zenon

LEMMA GreatestExists ==
  ASSUME NEW n \in Nat, NEW s \in SUBSET (1..n), s # {}
  PROVE  Max(s) \in s /\ \A y \in s : Max(s) >= y
<1> DEFINE Greatest(S) == \E x \in S : \A y \in S : x >= y
           P == {m \in Nat : \A S \in SUBSET (1..m) : S # {} => Greatest(S)}
<1>1. 0 \in P
  <2>1. 1..0 = {}
    OBVIOUS
  <2> QED BY <2>1
<1>2. ASSUME NEW m \in P PROVE m + 1 \in P
  <2> SUFFICES ASSUME NEW S \in SUBSET (1..(m + 1)), S # {} PROVE Greatest(S)
    OBVIOUS
  <2>1. CASE m + 1 \in S
    BY <2>1
  <2>2. CASE m + 1 \notin S
    <3>1. S \in SUBSET (1..m)
      BY <2>2
    <3> QED BY <1>2, <3>1
  <2> QED BY <2>1, <2>2
<1>3. P = Nat
  <2>1. P \in SUBSET Nat
    OBVIOUS
  <2> HIDE DEF P
  <2> QED BY <1>1, <1>2, <2>1, SetInduction
<1>4. Greatest(s)
  BY <1>3
<1> QED BY <1>4 DEF Max

\* The statements of a list are all its rows.
LEMMA BatchesAreTheList ==
  ASSUME DatabaseAssumption, NEW R, NEW list \in Seq(R), icallnum(table) = Len(list)
  PROVE  LET built == FoldLeft(Batch, NoRows, list).cmds IN
         built \in Seq(Seq(R)) /\ \E b : Cut(built, list, 0, Len(list), b)
<1> DEFINE D == 1..Len(list)
           iter == CHOOSE f : f = [s \in SUBSET (DOMAIN list) |->
                     IF s = {} THEN NoRows ELSE Batch(f[s \ {Max(s)}], list[Max(s)])]
           G == [p \in D \X Accumulators(R) |-> Batch(p[2], list[p[1]])]
           c == [s \in SUBSET D |-> Max(s)]
<1>1. Len(list) \in Nat /\ DOMAIN list = D /\ IsFiniteSet(D)
  BY FS_Interval
<1>2. \A s \in SUBSET D : s # {} => c[s] \in s /\ c[s] = Max(s)
  BY <1>1, GreatestExists
<1>3. NoRows \in Accumulators(R)
  BY DEF NoRows, Accumulators
<1>4. ASSUME NEW acc \in Accumulators(R), NEW i \in D PROVE Batch(acc, list[i]) \in Accumulators(R)
  <2>1. list[i] \in R
    OBVIOUS
  <2>2. Append(acc.insertss, list[i]) \in Seq(R) /\ acc.cmds \in Seq(Seq(R)) /\ acc.icallid \in Nat
    BY <2>1 DEF Accumulators
  <2>3. /\ Append(acc.cmds, Append(acc.insertss, list[i])) \in Seq(Seq(R))
        /\ acc.icallid + 1 \in Nat /\ <<>> \in Seq(R)
    BY <2>2
  <2>4. CASE Len(Append(acc.insertss, list[i])) >= batch_size \/ acc.icallid = icallnum(table)
    <3>1. Batch(acc, list[i]) = [cmds |-> Append(acc.cmds, Append(acc.insertss, list[i])),
                                 insertss |-> <<>>, icallid |-> acc.icallid + 1]
      BY <2>4 DEF Batch
    <3> QED BY <2>3, <3>1 DEF Accumulators
  <2>5. CASE ~(Len(Append(acc.insertss, list[i])) >= batch_size \/ acc.icallid = icallnum(table))
    <3>1. Batch(acc, list[i]) = [acc EXCEPT !.insertss = Append(acc.insertss, list[i]), !.icallid = @ + 1]
      BY <2>5 DEF Batch
    <3> QED BY <2>2, <2>3, <3>1 DEF Accumulators
  <2> QED BY <2>4, <2>5
<1>5. G \in [D \X Accumulators(R) -> Accumulators(R)]
  BY <1>4
<1>6. \E f : f = [s \in SUBSET D |-> IF s = {} THEN NoRows ELSE Batch(f[s \ {Max(s)}], list[Max(s)])]
  <2>1. PICK f \in [SUBSET D -> Accumulators(R)] : FoldOf(f, D, NoRows, G, c)
    <3>1. Chooses(c, D)
      BY <1>2 DEF Chooses
    <3> HIDE DEF D, G, c
    <3> QED BY <1>1, <1>3, <1>5, <3>1, FoldExists
  <2>2. ASSUME NEW s \in SUBSET D, s # {}
        PROVE  G[<<c[s], f[s \ {c[s]}]>>] = Batch(f[s \ {Max(s)}], list[Max(s)])
    <3>1. c[s] = Max(s) /\ Max(s) \in D /\ f[s \ {Max(s)}] \in Accumulators(R)
      BY <1>2, <2>1, <2>2
    <3> HIDE DEF c, D
    <3> DEFINE rest == f[s \ {Max(s)}]
    <3>2. f[s \ {c[s]}] = rest
      BY <3>1
    <3>3. G[<<Max(s), rest>>] = Batch(rest, list[Max(s)])
      <4> HIDE DEF rest
      <4> SUFFICES ASSUME NEW x \in D, NEW acc \in Accumulators(R) PROVE G[<<x, acc>>] = Batch(acc, list[x])
        BY <3>1 DEF rest
      <4> QED OBVIOUS
    <3> HIDE DEF G, rest
    <3> QED BY <3>1, <3>2, <3>3 DEF rest
  <2>3. \A s \in SUBSET D : f[s] = IF s = {} THEN NoRows ELSE Batch(f[s \ {Max(s)}], list[Max(s)])
    <3> HIDE DEF G, c, D
    <3> QED BY <2>1, <2>2 DEF FoldOf
  <2>4. f = [s \in SUBSET D |-> f[s]]
    BY <2>1
  <2>5. [s \in SUBSET D |-> f[s]]
          = [s \in SUBSET D |-> IF s = {} THEN NoRows ELSE Batch(f[s \ {Max(s)}], list[Max(s)])]
    BY <2>3, Zenon
  <2> QED BY <2>4, <2>5, Zenon
<1>7. iter = [s \in SUBSET D |-> IF s = {} THEN NoRows ELSE Batch(iter[s \ {Max(s)}], list[Max(s)])]
  BY <1>1, <1>6
<1>8. FoldLeft(Batch, NoRows, list) = iter[D]
  BY <1>1, Zenon DEF FoldLeft, MapThenFoldSet
<1> HIDE DEF iter
<1> DEFINE P == {m \in Nat : m <= Len(list) => BatchOK(iter[1..m], list, R, m)}
<1>9. 0 \in P
  <2>1. 1..0 = {} /\ 1..0 \in SUBSET D /\ 1..(0 - 0) = {}
    BY <1>1
  <2>2. iter[1..0] = NoRows
    BY <1>7, <2>1
  <2>3. Slice(list, 0, 0) = <<>>
    BY <2>1 DEF Slice
  <2>4. Cut(<<>>, list, 0, 0, [k \in 0..0 |-> 0])
    BY <2>1 DEF Cut
  <2>5. NoRows.icallid = 1 /\ NoRows.insertss = <<>> /\ NoRows.cmds = <<>> /\ Len(<<>>) = 0 /\ 0 < batch_size
    BY DEF NoRows, DatabaseAssumption
  <2>6. BatchOK(NoRows, list, R, 0)
    BY <1>3, <2>3, <2>4, <2>5 DEF BatchOK
  <2> QED BY <2>2, <2>6
<1>10. ASSUME NEW m \in P PROVE m + 1 \in P
  <2> SUFFICES ASSUME m + 1 <= Len(list) PROVE BatchOK(iter[1..(m + 1)], list, R, m + 1)
    OBVIOUS
  <2>1. BatchOK(iter[1..m], list, R, m)
    BY <1>1, <1>10
  <2>2. Max(1..(m + 1)) = m + 1
    <3>1. Max(1..(m + 1)) \in 1..(m + 1) /\ Max(1..(m + 1)) >= m + 1
      <4>1. m + 1 \in Nat /\ m + 1 \in 1..(m + 1)
        OBVIOUS
      <4> QED BY <4>1, GreatestExists
    <3> QED BY <3>1
  <2>3. iter[1..(m + 1)] = Batch(iter[1..m], list[m + 1])
    <3>1. m \in Nat
      OBVIOUS
    <3>2. (1..(m + 1)) \in SUBSET D /\ m + 1 \in 1..(m + 1)
      BY <1>1, <3>1
    <3>3. (1..(m + 1)) \ {m + 1} = 1..m
      BY <3>1
    <3>4. \A s \in SUBSET D : s # {} => iter[s] = Batch(iter[s \ {Max(s)}], list[Max(s)])
      BY <1>7, Zenon
    <3>5. \A s \in SUBSET D : \A x \in s : Max(s) = x => iter[s] = Batch(iter[s \ {x}], list[x])
      BY <3>4
    <3> DEFINE upto == 1..(m + 1)
               x == m + 1
    <3>6. upto \in SUBSET D /\ x \in upto /\ Max(upto) = x /\ upto \ {x} = 1..m
      BY <2>2, <3>2, <3>3
    <3> HIDE DEF upto, x
    <3>7. iter[upto] = Batch(iter[upto \ {x}], list[x])
      BY <3>5, <3>6
    <3> QED BY <3>6, <3>7 DEF upto, x
  <2>4. m + 1 \in 1..Len(list) /\ m + 1 - 1 = m
    BY <1>1
  <2> DEFINE acc == iter[1..m]
             k == m + 1
  <2>5. k \in 1..Len(list) /\ BatchOK(acc, list, R, k - 1)
    BY <2>1, <2>4
  <2> HIDE DEF acc, k
  <2>6. BatchOK(Batch(acc, list[k]), list, R, k)
    BY <2>5, BatchStep
  <2> QED BY <2>3, <2>6 DEF acc, k
<1>11. BatchOK(iter[D], list, R, Len(list))
  <2>1. P \in SUBSET Nat
    OBVIOUS
  <2> HIDE DEF P
  <2>2. P = Nat
    BY <1>9, <1>10, <2>1, SetInduction
  <2> QED BY <1>1, <2>2 DEF P
<1> DEFINE last == iter[D]
<1>12. /\ last \in Accumulators(R) /\ last.insertss = <<>>
       /\ \E b : Cut(last.cmds, list, 0, Len(list) - Len(last.insertss), b)
  BY <1>11 DEF BatchOK
<1>13. Len(last.insertss) = 0 /\ Len(list) - Len(last.insertss) = Len(list)
  <2> HIDE DEF last
  <2>1. Len(last.insertss) = 0
    BY <1>12
  <2> QED BY <1>1, <2>1
<1>14. last.cmds \in Seq(Seq(R)) /\ \E b : Cut(last.cmds, list, 0, Len(list), b)
  <2> HIDE DEF last
  <2> QED BY <1>12, <1>13 DEF Accumulators
<1> HIDE DEF D
<1> QED BY <1>8, <1>14

-----------------------------------------------------------------------------
(* Between two queries. *)

HashValues == {funcSetHash(F) : F \in SUBSET Function}
RowType(t) == CASE t = 1 -> ICall \X Nat \X HashValues
                [] t = 2 -> HashValues \X Function
                [] t = 3 -> Function \X Nat

\* What the update keeps whatever the analysis found.
StoredOK ==
  /\ DOMAIN database = 1..3
  /\ \A t \in 1..3 : /\ database[t] \in [exists : BOOLEAN, rows : Seq(Nat \X RowType(t))]
                     /\ ~database[t].exists => database[t].rows = <<>>
  /\ query \in {"connect", "drop", "create", "build", "insert", "closed", "aborted"} /\ table \in 1..3
  /\ query = "connect" => table = 1
  /\ query = "closed" => table = 3
  /\ query \in {"build", "insert"} => database[table].exists
  /\ cmds \in Seq(Seq(RowType(table))) /\ (query # "insert" => cmds = <<>>)
  /\ run \in 1..MaxRuns
  /\ failures \in Seq(1..run) /\ Len(failures) <= MaxFailures

\* The tables this run has emptied, and those it has not come to.
Emptied(t) == query \notin {"connect", "aborted"} /\ (t < table \/ (t = table /\ query # "drop"))
NotYet(t) == query = "connect" \/ t > table \/ (t = table /\ query = "drop")

\* A table this run has not come to has no row of it, one that was emptied no others.
RunsOK ==
  /\ \A t \in 1..3 : \A m \in WrittenBy(t) : /\ m <= run
                                            /\ (Emptied(t) => m = run)
                                            /\ (NotYet(t) => m < run)
  /\ TablesOfOneRun

\* The rows of a table in the order of the statements, and the first p of them, stored.
List(t) == SetToSeq(Rows(t))
Prefix(list, p, r) == [i \in 1..p |-> <<r, list[i]>>]
Stored(t, p) == database[t].rows = Prefix(List(t), p, run)

\* The update follows the analysis; unless a query failed, a table it has left is
\* complete and the one it is at has the rows before those of the statements left.
FilledOK ==
  /\ step \notin {"update", "returned"} => query = "connect"
  /\ \A t \in 1..3 : query = "insert" /\ t = table => \E p \in 0..Len(List(t)) :
       /\ CutsInto(cmds, List(t), p)
       /\ run \notin ToSet(failures) => Stored(t, p)
  /\ run \notin ToSet(failures) => \A t \in 1..3 :
       /\ query \in {"create", "build"} /\ t = table => database[t].rows = <<>>
       /\ (query # "connect" /\ t < table) \/ query = "closed" => Stored(t, Len(List(t)))

DatabaseInv == StoredOK /\ RunsOK /\ FilledOK

-----------------------------------------------------------------------------
USE SymbolsAssumption, DatabaseAssumption, RunsAssumption

(* The rows. *)

LEMMA TablesType == CopiesInv /\ TablesInv => SymbolsTypeOK
<1> SUFFICES ASSUME CopiesInv, TablesInv PROVE SymbolsTypeOK
  OBVIOUS
<1>1. /\ NamesOK /\ KeptOK /\ ResolvedOK(ModuleAt)
      /\ BuiltOK(TypeAt) /\ SigsOK(InitAt) /\ SitesOK(ModuleAt)
  BY DEF CopiesInv, TablesInv
<1>2. Global_AddressTaken_Func_Set \subseteq Function
  BY <1>1 DEF BuiltOK
<1>3. globalFuncNameMap \subseteq {callInfoHash(c) : c \in ICall} /\ DOMAIN ICallees \subseteq ICall
  BY <1>1 DEF SitesOK, Met
<1>4. \A c \in DOMAIN ICallees : ICallees[c] \subseteq Function
  <2> SUFFICES ASSUME NEW c \in DOMAIN ICallees PROVE ICallees[c] \subseteq Function
    OBVIOUS
  <2>1. callType[c] \in Types /\ ICallees[c] = sigFuncsMap[callType[c]]
    BY <1>1, <1>3 DEF SitesOK, Types
  <2> QED BY <1>1, <2>1 DEF SigsOK
<1> QED BY <1>1, <1>2, <1>3, <1>4 DEF SymbolsTypeOK, NamesOK, KeptOK, SigsOK, SitesOK, ResolvedOK

LEMMA RowsType ==
  ASSUME SymbolsTypeOK, NEW t \in 1..3 PROVE IsFiniteSet(Rows(t)) /\ Rows(t) \subseteq RowType(t)
<1> DEFINE ic == [c \in DOMAIN ICallees |-> <<c, Cardinality(ICallees[c]), funcSetHash(ICallees[c])>>]
           hs == [c \in DOMAIN ICallees |-> funcSetHash(ICallees[c])]
           fs == [f \in Global_AddressTaken_Func_Set |->
                    <<f, Cardinality({c \in DOMAIN ICallees : f \in ICallees[c]})>>]
<1>1. /\ DOMAIN ICallees \subseteq ICall /\ Global_AddressTaken_Func_Set \subseteq Function
      /\ \A c \in DOMAIN ICallees : ICallees[c] \subseteq Function
  BY DEF SymbolsTypeOK
<1>2. IsFiniteSet(DOMAIN ICallees) /\ IsFiniteSet(Global_AddressTaken_Func_Set)
  BY <1>1, FS_Subset
<1>3. \A c \in DOMAIN ICallees : Cardinality(ICallees[c]) \in Nat /\ funcSetHash(ICallees[c]) \in HashValues
  BY <1>1, FS_Subset, FS_CardinalityType DEF HashValues
<1>4. \A s \in SUBSET DOMAIN ICallees : Cardinality(s) \in Nat
  BY <1>2, FS_Subset, FS_CardinalityType
<1>5. IsFiniteSet(icallRows) /\ icallRows \subseteq ICall \X Nat \X HashValues
  <2>1. IsFiniteSet({ic[c] : c \in DOMAIN ic})
    <3>1. DOMAIN ic = DOMAIN ICallees
      OBVIOUS
    <3> HIDE DEF ic
    <3> QED BY <1>2, <3>1, ImageFinite
  <2>2. icallRows = {ic[c] : c \in DOMAIN ic}
    BY DEF icallRows
  <2>3. icallRows \subseteq ICall \X Nat \X HashValues
    BY <1>1, <1>3 DEF icallRows
  <2> HIDE DEF ic
  <2> QED BY <2>1, <2>2, <2>3
<1>6. IsFiniteSet(callerRows) /\ callerRows \subseteq HashValues \X Function
  <2>1. IsFiniteSet({hs[c] : c \in DOMAIN hs})
    <3>1. DOMAIN hs = DOMAIN ICallees
      OBVIOUS
    <3> HIDE DEF hs
    <3> QED BY <1>2, <3>1, ImageFinite
  <2>2. callerRows \subseteq {hs[c] : c \in DOMAIN hs} \X Function
    BY <1>1 DEF callerRows, Kept
  <2>3. IsFiniteSet({hs[c] : c \in DOMAIN hs} \X Function)
    <3> HIDE DEF hs
    <3> QED BY <2>1, FS_Product
  <2>4. {hs[c] : c \in DOMAIN hs} \subseteq HashValues
    BY <1>3
  <2>5. IsFiniteSet(callerRows)
    BY <2>2, <2>3, FS_Subset
  <2> HIDE DEF hs
  <2> QED BY <2>2, <2>4, <2>5
<1>7. IsFiniteSet(funcRows) /\ funcRows \subseteq Function \X Nat
  <2>1. IsFiniteSet({fs[f] : f \in DOMAIN fs})
    <3>1. DOMAIN fs = Global_AddressTaken_Func_Set
      OBVIOUS
    <3> HIDE DEF fs
    <3> QED BY <1>2, <3>1, ImageFinite
  <2>2. funcRows = {fs[f] : f \in DOMAIN fs}
    BY DEF funcRows
  <2>3. ASSUME NEW f \in DOMAIN fs PROVE fs[f] \in Function \X Nat
    <3> DEFINE s == {c \in DOMAIN ICallees : f \in ICallees[c]}
    <3>1. s \in SUBSET DOMAIN ICallees /\ fs[f] = <<f, Cardinality(s)>>
      OBVIOUS
    <3> HIDE DEF s
    <3> QED BY <1>1, <1>4, <3>1
  <2> HIDE DEF fs
  <2> QED BY <2>1, <2>2, <2>3
<1>8. t = 1 \/ t = 2 \/ t = 3
  OBVIOUS
<1> QED BY <1>5, <1>6, <1>7, <1>8 DEF Rows, RowType

LEMMA RowListType ==
  ASSUME SymbolsTypeOK, NEW t \in 1..3
  PROVE  /\ List(t) \in Seq(RowType(t)) /\ Len(List(t)) \in Nat
         /\ Len(List(t)) = Cardinality(Rows(t)) /\ icallnum(t) = Len(List(t))
         /\ \A i, j \in 1..Len(List(t)) : List(t)[i] = List(t)[j] => i = j
         /\ Rows(t) = {List(t)[i] : i \in 1..Len(List(t))}
<1>1. IsFiniteSet(Rows(t)) /\ Rows(t) \subseteq RowType(t)
  BY RowsType
<1>2. /\ Cardinality(Rows(t)) \in Nat
      /\ List(t) \in Seq(Rows(t)) /\ Len(List(t)) = Cardinality(Rows(t))
      /\ \A i, j \in 1..Cardinality(Rows(t)) : List(t)[i] = List(t)[j] => i = j
      /\ \A x \in Rows(t) : \E i \in 1..Cardinality(Rows(t)) : List(t)[i] = x
  BY <1>1, SetToSeqLists DEF List
<1>3. List(t) \in Seq(RowType(t))
  BY <1>1, <1>2
<1>4. Rows(t) = {List(t)[i] : i \in 1..Len(List(t))}
  BY <1>2
<1> QED BY <1>2, <1>3, <1>4 DEF icallnum

LEMMA SameList == ASSUME UNCHANGED tables, NEW t PROVE List(t)' = List(t) /\ Rows(t)' = Rows(t)
<1>1. /\ ICallees' = ICallees /\ Global_AddressTaken_Func_Set' = Global_AddressTaken_Func_Set
  BY DEF tables
<1>2. icallRows' = icallRows
  BY <1>1 DEF icallRows
<1>3. Kept' = Kept
  BY <1>1 DEF Kept
<1>4. callerRows' = callerRows
  BY <1>1, <1>3 DEF callerRows
<1>5. funcRows' = funcRows
  BY <1>1 DEF funcRows
<1>6. Rows(t)' = Rows(t)
  BY <1>2, <1>4, <1>5 DEF Rows
<1> QED BY <1>6 DEF List

(* One query. *)

LEMMA FailuresStep ==
  ASSUME StoredOK, Fails \/ Works
  PROVE  /\ failures' \in Seq(1..run) /\ Len(failures') <= MaxFailures
         /\ run \notin ToSet(failures') => Works /\ run \notin ToSet(failures)
<1>1. run \in 1..run /\ failures \in Seq(1..run) /\ Len(failures) <= MaxFailures
  BY DEF StoredOK
<1>2. CASE Works
  BY <1>1, <1>2 DEF Works
<1>3. CASE Fails
  <2>1. failures' = Append(failures, run) /\ Len(failures) < MaxFailures
    BY <1>3 DEF Fails
  <2>2. failures' \in Seq(1..run) /\ Len(failures') = Len(failures) + 1 /\ failures'[Len(failures) + 1] = run
    BY <1>1, <2>1
  <2>3. run \in ToSet(failures')
    BY <1>1, <2>2 DEF ToSet
  <2> QED BY <1>1, <2>1, <2>2, <2>3
<1> QED BY <1>2, <1>3

\* What a statement adds to the table.
LEMMA InsertStep ==
  ASSUME StoredOK, query = "insert", cmds # <<>>,
         database' = [database EXCEPT ![table].rows = @ \o Tagged(Head(cmds))]
  PROVE  /\ DOMAIN database' = 1..3
         /\ \A t \in 1..3 : database'[t].exists = database[t].exists
         /\ \A t \in 1..3 : t # table => database'[t] = database[t]
         /\ database'[table].rows = database[table].rows \o Tagged(Head(cmds))
         /\ Head(cmds) \in Seq(RowType(table)) /\ Tagged(Head(cmds)) \in Seq(Nat \X RowType(table))
         /\ database'[table] \in [exists : BOOLEAN, rows : Seq(Nat \X RowType(table))]
<1>1. table \in 1..3 /\ DOMAIN database = 1..3 /\ run \in Nat
  BY DEF StoredOK
<1>2. database[table] \in [exists : BOOLEAN, rows : Seq(Nat \X RowType(table))]
  BY <1>1 DEF StoredOK
<1>3. Head(cmds) \in Seq(RowType(table))
  BY DEF StoredOK
<1>4. Tagged(Head(cmds)) \in Seq(Nat \X RowType(table))
  <2> DEFINE c == Head(cmds)
  <2> HIDE DEF c
  <2>1. Len(c) \in Nat /\ DOMAIN c = 1..Len(c) /\ \A i \in 1..Len(c) : c[i] \in RowType(table)
    BY <1>3 DEF c
  <2>2. Tagged(c) \in [1..Len(c) -> Nat \X RowType(table)]
    BY <1>1, <2>1 DEF Tagged
  <2>3. Tagged(c) \in Seq(Nat \X RowType(table))
    BY <2>1, <2>2
  <2> QED BY <2>3 DEF c
<1>5. database[table].rows \o Tagged(Head(cmds)) \in Seq(Nat \X RowType(table))
  BY <1>2, <1>4
<1>6. database' = [t \in 1..3 |-> IF t = table THEN [database[t] EXCEPT !.rows = @ \o Tagged(Head(cmds))]
                                  ELSE database[t]]
  BY <1>1
<1>7. database'[table] = [database[table] EXCEPT !.rows = @ \o Tagged(Head(cmds))]
  BY <1>1, <1>6
<1> QED BY <1>1, <1>2, <1>3, <1>4, <1>5, <1>6, <1>7

\* What the loop builds.
LEMMA BuildStep ==
  ASSUME SymbolsTypeOK, table \in 1..3, cmds' = build_insert_batch
  PROVE  /\ cmds' \in Seq(Seq(RowType(table)))
         /\ \E b : Cut(cmds', List(table), 0, Len(List(table)), b)
<1>1. build_insert_batch = FoldLeft(Batch, NoRows, List(table)).cmds
  BY DEF build_insert_batch, NoRows, List
<1>2. List(table) \in Seq(RowType(table)) /\ icallnum(table) = Len(List(table))
  BY RowListType
<1> QED BY <1>1, <1>2, BatchesAreTheList

LEMMA StoredStep == ASSUME StoredOK, SymbolsTypeOK, update_database PROVE StoredOK'
<1> DEFINE TableOK(d, t) == /\ d \in [exists : BOOLEAN, rows : Seq(Nat \X RowType(t))]
                            /\ ~d.exists => d.rows = <<>>
<1>1. /\ DOMAIN database = 1..3 /\ \A t \in 1..3 : TableOK(database[t], t)
      /\ table \in 1..3 /\ run \in 1..MaxRuns /\ failures \in Seq(1..run) /\ Len(failures) <= MaxFailures
      /\ cmds \in Seq(Seq(RowType(table))) /\ (query # "insert" => cmds = <<>>)
      /\ (query = "connect" => table = 1) /\ (query \in {"build", "insert"} => database[table].exists)
  BY DEF StoredOK
<1>2. \A t : /\ Absent \in [exists : BOOLEAN, rows : Seq(Nat \X RowType(t))]
             /\ Created \in [exists : BOOLEAN, rows : Seq(Nat \X RowType(t))]
             /\ ~Absent.exists /\ Absent.rows = <<>> /\ Created.exists /\ Created.rows = <<>>
  BY DEF Absent, Created
<1>3. \A t : <<>> \in Seq(Seq(RowType(t)))
  OBVIOUS
<1> HIDE DEF TableOK
<1> SUFFICES /\ DOMAIN database' = 1..3 /\ (\A t \in 1..3 : TableOK(database'[t], t))
             /\ query' \in {"connect", "drop", "create", "build", "insert", "closed", "aborted"}
             /\ table' \in 1..3 /\ run' = run
             /\ query' # "connect" /\ (query' = "closed" => table' = 3)
             /\ (query' \in {"build", "insert"} => database'[table'].exists)
             /\ cmds' \in Seq(Seq(RowType(table'))) /\ (query' # "insert" => cmds' = <<>>)
             /\ (UNCHANGED failures \/ Fails)
  <2>1. failures' \in Seq(1..run) /\ Len(failures') <= MaxFailures
    BY FailuresStep DEF Works
  <2> QED BY <1>1, <2>1 DEF StoredOK, TableOK
<1>4. CASE Connect
  BY <1>1, <1>3, <1>4 DEF Connect, Abort, Works
<1>5. CASE Drop
  <2>1. CASE UNCHANGED database
    BY <1>1, <1>3, <1>5, <2>1 DEF Drop, Abort, Works
  <2>2. CASE database' = [database EXCEPT ![table] = Absent]
    <3>1. DOMAIN database' = 1..3 /\ \A t \in 1..3 : TableOK(database'[t], t)
      BY <1>1, <1>2, <2>2 DEF TableOK
    <3> QED BY <1>1, <1>3, <1>5, <3>1 DEF Drop, Abort, Works
  <2> QED BY <1>5, <2>1, <2>2 DEF Drop
<1>6. CASE Create
  <2>1. CASE UNCHANGED database /\ query' = "aborted"
    BY <1>1, <1>3, <1>6, <2>1 DEF Create, Works
  <2>2. CASE query' = "build" /\ database' = [database EXCEPT ![table] = Created]
    <3>1. DOMAIN database' = 1..3 /\ database'[table].exists /\ \A t \in 1..3 : TableOK(database'[t], t)
      BY <1>1, <1>2, <2>2 DEF TableOK
    <3> QED BY <1>1, <1>3, <1>6, <2>2, <3>1 DEF Create, Works
  <2> QED BY <1>6, <2>1, <2>2 DEF Create, Abort
<1>7. CASE Build
  <2>1. cmds' \in Seq(Seq(RowType(table)))
    BY <1>1, <1>7, BuildStep DEF Build
  <2> QED BY <1>1, <1>7, <2>1 DEF Build
<1>8. CASE Insert
  <2>1. Tail(cmds) \in Seq(Seq(RowType(table))) /\ cmds' = Tail(cmds) /\ table' = table /\ query' = "insert" /\ run' = run
    BY <1>1, <1>8 DEF Insert
  <2>2. CASE UNCHANGED database
    BY <1>1, <1>8, <2>1, <2>2 DEF Insert, Works
  <2>3. CASE Works /\ database' = [database EXCEPT ![table].rows = @ \o Tagged(Head(cmds))]
    <3>1. /\ DOMAIN database' = 1..3 /\ database'[table].exists
          /\ \A t \in 1..3 : t # table => database'[t] = database[t]
          /\ database'[table] \in [exists : BOOLEAN, rows : Seq(Nat \X RowType(table))]
      BY <1>1, <1>8, <2>3, InsertStep DEF Insert
    <3>2. \A t \in 1..3 : TableOK(database'[t], t)
      BY <1>1, <3>1 DEF TableOK
    <3> QED BY <1>1, <2>1, <2>3, <3>1, <3>2 DEF Works
  <2> QED BY <1>8, <2>2, <2>3 DEF Insert
<1>9. CASE NextTable
  <2>1. table' \in 1..3 /\ (query' = "closed" => table' = 3)
    BY <1>1, <1>9 DEF NextTable, Tables
  <2> QED BY <1>1, <1>3, <1>9, <2>1 DEF NextTable
<1> QED BY <1>4, <1>5, <1>6, <1>7, <1>8, <1>9 DEF update_database

(* The runs that wrote the rows. *)

LEMMA WrittenType == ASSUME StoredOK, NEW t \in 1..3 PROVE WrittenBy(t) \subseteq Nat
<1>1. database[t].rows \in Seq(Nat \X RowType(t))
  BY DEF StoredOK
<1>2. \A e \in ToSet(database[t].rows) : e[1] \in Nat
  BY <1>1 DEF ToSet
<1> QED BY <1>2 DEF WrittenBy

LEMMA WrittenInsert ==
  ASSUME StoredOK, query = "insert", cmds # <<>>, NEW t \in 1..3,
         database' = [database EXCEPT ![table].rows = @ \o Tagged(Head(cmds))]
  PROVE  IF t = table THEN WrittenBy(t)' \subseteq WrittenBy(t) \cup {run}
         ELSE WrittenBy(t)' = WrittenBy(t)
<1> DEFINE new == Tagged(Head(cmds))
           rows == database[table].rows
<1>1. /\ table \in 1..3 /\ rows \in Seq(Nat \X RowType(table))
      /\ Head(cmds) \in Seq(RowType(table)) /\ new \in Seq(Nat \X RowType(table))
  BY InsertStep DEF StoredOK
<1>2. \A i \in DOMAIN new : new[i][1] = run
  BY DEF Tagged
<1>3. ToSet(rows \o new) \subseteq ToSet(rows) \cup ToSet(new)
  <2> HIDE DEF rows, new
  <2> QED BY <1>1 DEF ToSet
<1>4. \A e \in ToSet(new) : e[1] = run
  <2> HIDE DEF new
  <2> QED BY <1>2 DEF ToSet
<1>5. database'[table].rows = rows \o new
  BY InsertStep
<1>6. CASE t = table
  <2>1. database'[t].rows = rows \o new /\ rows = database[t].rows
    BY <1>5, <1>6
  <2> HIDE DEF rows, new
  <2>2. \A e \in ToSet(database'[t].rows) : e \in ToSet(database[t].rows) \/ e[1] = run
    BY <1>3, <1>4, <2>1
  <2>3. ToSet(database[t].rows)' = ToSet(database'[t].rows)
    BY DEF ToSet
  <2> QED BY <1>6, <2>2, <2>3 DEF WrittenBy
<1>7. CASE t # table
  <2>1. database'[t] = database[t]
    BY <1>7, InsertStep
  <2> QED BY <1>7, <2>1 DEF WrittenBy, ToSet
<1> QED BY <1>6, <1>7

\* A query that adds no row and comes to no table this run has not emptied.
LEMMA RunsQuiet ==
  ASSUME StoredOK, RunsOK, run' = run,
         \A t \in 1..3 : WrittenBy(t)' = {} \/ (WrittenBy(t)' = WrittenBy(t) /\ (Emptied(t)' => Emptied(t))),
         \A t \in 1..3 : NotYet(t)' => NotYet(t)
  PROVE  RunsOK'
<1>1. \A t \in 1..3 : WrittenBy(t)' \subseteq WrittenBy(t)
  OBVIOUS
<1>2. \A t \in 1..3 : \A m \in WrittenBy(t)' : m <= run /\ (Emptied(t)' => m = run) /\ (NotYet(t)' => m < run)
  BY <1>1 DEF RunsOK
<1>3. TablesOfOneRun'
  BY <1>1 DEF RunsOK, TablesOfOneRun
<1> QED BY <1>2, <1>3 DEF RunsOK

LEMMA RunsStep == ASSUME StoredOK, RunsOK, update_database PROVE RunsOK'
<1>1. table \in 1..3 /\ DOMAIN database = 1..3 /\ (query = "connect" => table = 1)
  BY DEF StoredOK
<1>2. ASSUME UNCHANGED database, NEW t \in 1..3 PROVE WrittenBy(t)' = WrittenBy(t)
  BY <1>2 DEF WrittenBy, ToSet
<1>3. ASSUME NEW t \in 1..3, NEW d, d.rows = <<>>, database' = [database EXCEPT ![table] = d]
      PROVE  WrittenBy(t)' = IF t = table THEN {} ELSE WrittenBy(t)
  BY <1>1, <1>3 DEF WrittenBy, ToSet
<1>4. CASE Connect
  BY <1>1, <1>2, <1>4, RunsQuiet DEF Connect, Abort, Emptied, NotYet
<1>5. CASE Drop
  <2>1. CASE UNCHANGED database /\ query' = "aborted"
    BY <1>1, <1>2, <1>5, <2>1, RunsQuiet DEF Drop, Emptied, NotYet
  <2>2. CASE query' = "create" /\ database' = [database EXCEPT ![table] = Absent]
    BY <1>1, <1>3, <1>5, <2>2, RunsQuiet DEF Drop, Absent, Emptied, NotYet
  <2> QED BY <1>5, <2>1, <2>2 DEF Drop, Abort
<1>6. CASE Create
  <2>1. CASE UNCHANGED database /\ query' = "aborted"
    BY <1>1, <1>2, <1>6, <2>1, RunsQuiet DEF Create, Emptied, NotYet
  <2>2. CASE query' = "build" /\ database' = [database EXCEPT ![table] = Created]
    BY <1>1, <1>3, <1>6, <2>2, RunsQuiet DEF Create, Created, Emptied, NotYet
  <2> QED BY <1>6, <2>1, <2>2 DEF Create, Abort
<1>7. CASE Build
  BY <1>1, <1>2, <1>7, RunsQuiet DEF Build, Emptied, NotYet
<1>8. CASE Insert
  <2>1. run' = run /\ query = "insert" /\ cmds # <<>> /\ query' = query /\ table' = table
    BY <1>8 DEF Insert
  <2>2. CASE UNCHANGED database
    BY <1>2, <2>1, <2>2, RunsQuiet DEF Emptied, NotYet
  <2>3. CASE database' = [database EXCEPT ![table].rows = @ \o Tagged(Head(cmds))]
    <3>1. \A t \in 1..3 : IF t = table THEN WrittenBy(t)' \subseteq WrittenBy(t) \cup {run}
                           ELSE WrittenBy(t)' = WrittenBy(t)
      BY <2>1, <2>3, WrittenInsert
    <3>2. \A t \in 1..3 : (Emptied(t)' <=> Emptied(t)) /\ (NotYet(t)' <=> NotYet(t))
      BY <2>1 DEF Emptied, NotYet
    <3>3. \A t \in 1..3 : (t <= table => Emptied(t)) /\ (NotYet(t) => t # table)
      BY <1>1, <2>1 DEF Emptied, NotYet
    <3>4. \A t \in 1..3 : WrittenBy(t) \subseteq Nat
      BY WrittenType
    <3>5. run \in Nat
      BY DEF StoredOK
    <3>6. \A t \in 1..3 : \A m \in WrittenBy(t)' :
            m \in Nat /\ m <= run /\ (Emptied(t) => m = run) /\ (NotYet(t) => m < run)
      BY <3>1, <3>3, <3>4, <3>5 DEF RunsOK
    <3>7. TablesOfOneRun'
      <4> SUFFICES ASSUME NEW t \in 1..3, NEW u \in 1..3, NEW m \in WrittenBy(t)', NEW n \in WrittenBy(u)',
                          t <= u
                   PROVE  m >= n /\ (t = u => m = n)
        BY DEF TablesOfOneRun
      <4>1. CASE t <= table
        BY <1>1, <3>3, <3>5, <3>6, <4>1
      <4>2. CASE t > table
        <5>1. m \in WrittenBy(t) /\ n \in WrittenBy(u)
          BY <1>1, <3>1, <4>2
        <5> QED BY <5>1 DEF RunsOK, TablesOfOneRun
      <4> QED BY <1>1, <4>1, <4>2
    <3> QED BY <2>1, <3>2, <3>6, <3>7 DEF RunsOK
  <2> QED BY <1>8, <2>2, <2>3 DEF Insert
<1>9. CASE NextTable
  <2>1. \A t \in 1..3 : (Emptied(t)' => Emptied(t)) /\ (NotYet(t)' => NotYet(t))
    BY <1>1, <1>9 DEF NextTable, Tables, Emptied, NotYet
  <2> QED BY <1>2, <1>9, <2>1, RunsQuiet DEF NextTable
<1> QED BY <1>4, <1>5, <1>6, <1>7, <1>8, <1>9 DEF update_database

(* The rows that were stored. *)

LEMMA CutTail ==
  ASSUME NEW R, NEW cs \in Seq(Seq(R)), cs # <<>>, NEW list \in Seq(R),
         NEW p \in Nat, NEW q \in Nat, NEW b, Cut(cs, list, p, q, b)
  PROVE  /\ b[1] \in p..q /\ Head(cs) = Slice(list, p, b[1])
         /\ \E e : Cut(Tail(cs), list, b[1], q, e)
<1> DEFINE l == Len(cs)
           rest == Tail(cs)
           e == [k \in 0..(l - 1) |-> b[k + 1]]
           r == b[1]
<1>1. l \in Nat \ {0} /\ Len(rest) = l - 1 /\ Head(cs) = cs[1] /\ \A k \in 1..(l - 1) : rest[k] = cs[k + 1]
  OBVIOUS
<1> HIDE DEF rest, l
<1>2. /\ b \in [0..l -> p..q] /\ b[0] = p /\ b[l] = q
      /\ \A k \in 1..l : /\ b[k - 1] < b[k] /\ b[k] - b[k - 1] <= batch_size
                         /\ cs[k] = Slice(list, b[k - 1], b[k])
  BY DEF Cut, l
<1>3. r \in p..q /\ Head(cs) = Slice(list, p, r)
  <2>1. 1 \in 1..l /\ 1 \in 0..l /\ 1 - 1 = 0
    BY <1>1
  <2> QED BY <1>1, <1>2, <2>1
<1>4. ASSUME NEW k \in 1..l PROVE b[k] \in r..q
  <2> DEFINE P == {n \in Nat : n + 1 <= l => b[n + 1] >= r}
  <2>1. 0 \in P
    BY <1>1, <1>3
  <2>2. ASSUME NEW n \in P PROVE n + 1 \in P
    <3> SUFFICES ASSUME n + 1 + 1 <= l PROVE b[n + 1 + 1] >= r
      OBVIOUS
    <3>1. n + 1 + 1 \in 1..l /\ n + 1 + 1 - 1 = n + 1 /\ n + 1 \in 0..l /\ n + 1 <= l
      BY <1>1
    <3>2. b[n + 1] < b[n + 1 + 1]
      BY <1>2, <3>1
    <3>3. b[n + 1] \in p..q /\ b[n + 1 + 1] \in p..q
      <4>1. \A x \in 0..l : b[x] \in p..q
        BY <1>2
      <4>2. n + 1 \in 0..l /\ n + 1 + 1 \in 0..l
        BY <3>1
      <4> QED BY <4>1, <4>2
    <3>4. b[n + 1] >= r
      <4>1. n + 1 <= l
        BY <3>1
      <4> HIDE DEF r
      <4> QED BY <2>2, <4>1
    <3> HIDE DEF r
    <3> QED BY <1>3, <3>2, <3>3, <3>4
  <2>3. P = Nat
    <3>1. P \in SUBSET Nat
      OBVIOUS
    <3> HIDE DEF P
    <3> QED BY <2>1, <2>2, <3>1, SetInduction
  <2>4. k - 1 \in P
    <3> HIDE DEF P
    <3> QED BY <1>1, <2>3
  <2>5. k - 1 + 1 = k /\ k <= l /\ k \in 0..l
    BY <1>1
  <2>6. b[k] >= r /\ b[k] \in p..q
    BY <1>2, <2>4, <2>5
  <2> HIDE DEF r, P
  <2> QED BY <1>3, <2>6
<1>5. e \in [0..(l - 1) -> r..q] /\ e[0] = r /\ e[l - 1] = q
  <2>1. \A k \in 0..(l - 1) : k + 1 \in 1..l
    BY <1>1
  <2>2. 0 \in 0..(l - 1) /\ l - 1 \in 0..(l - 1) /\ l - 1 + 1 = l /\ 0 + 1 = 1
    BY <1>1
  <2>3. e \in [0..(l - 1) -> r..q]
    <3> HIDE DEF r
    <3> QED BY <1>4, <2>1
  <2> QED BY <1>2, <2>2, <2>3
<1>6. ASSUME NEW k \in 1..(l - 1)
      PROVE  /\ e[k - 1] < e[k] /\ e[k] - e[k - 1] <= batch_size /\ rest[k] = Slice(list, e[k - 1], e[k])
  <2>1. k + 1 \in 1..l /\ k + 1 - 1 = k /\ e[k] = b[k + 1] /\ e[k - 1] = b[k]
    BY <1>1
  <2> HIDE DEF e
  <2> QED BY <1>1, <1>2, <2>1
<1>7. Cut(rest, list, r, q, e)
  <2> HIDE DEF e, r
  <2> QED BY <1>1, <1>5, <1>6 DEF Cut
<1> QED BY <1>3, <1>7 DEF rest

LEMMA StoredMore ==
  ASSUME NEW R, NEW list \in Seq(R), NEW p \in Nat, NEW r \in p..Len(list), run \in Nat
  PROVE  Prefix(list, p, run) \o Tagged(Slice(list, p, r)) = Prefix(list, r, run)
<1> DEFINE old == [i \in 1..p |-> <<run, list[i]>>]
           more == Tagged(Slice(list, p, r))
           new == [i \in 1..r |-> <<run, list[i]>>]
<1>1. Len(list) \in Nat /\ r \in Nat /\ p <= r /\ r <= Len(list) /\ r - p \in Nat
  BY ListElements
<1>2. \A i \in 1..r : list[i] \in R
  BY <1>1, ListElements
<1>3. old \in Seq(Nat \X R) /\ Len(old) = p
  <2>1. old \in [1..p -> Nat \X R]
    BY <1>1, <1>2
  <2> QED BY <2>1
<1>4. more = [i \in 1..(r - p) |-> <<run, list[p + i]>>]
  BY DEF Tagged, Slice
<1>5. more \in Seq(Nat \X R) /\ Len(more) = r - p
  <2>1. [i \in 1..(r - p) |-> <<run, list[p + i]>>] \in [1..(r - p) -> Nat \X R]
    BY <1>1, <1>2
  <2> HIDE DEF more
  <2> QED BY <1>1, <1>4, <2>1
<1>6. new \in Seq(Nat \X R) /\ Len(new) = r
  <2>1. new \in [1..r -> Nat \X R]
    BY <1>1, <1>2
  <2> QED BY <1>1, <2>1
<1>7. \A i \in 1..p : old[i] = new[i]
  BY <1>1
<1>8. \A i \in 1..(r - p) : more[i] = new[p + i]
  <2> HIDE DEF more
  <2> QED BY <1>1, <1>4
<1> HIDE DEF old, more, new
<1>9. old \o more \in Seq(Nat \X R) /\ Len(old \o more) = r
  BY <1>1, <1>3, <1>5
<1>10. ASSUME NEW i \in 1..r PROVE (old \o more)[i] = new[i]
  <2>1. (old \o more)[i] = IF i <= p THEN old[i] ELSE more[i - p]
    BY <1>1, <1>3, <1>5
  <2>2. CASE i <= p
    BY <1>1, <1>7, <2>1, <2>2
  <2>3. CASE i > p
    <3>1. i - p \in 1..(r - p) /\ p + (i - p) = i /\ ~(i <= p)
      BY <1>1, <2>3
    <3>2. more[i - p] = new[i]
      BY <1>8, <3>1
    <3>3. (old \o more)[i] = more[i - p]
      BY <2>1, <3>1
    <3> QED BY <3>2, <3>3
  <2>4. i <= p \/ i > p
    BY <1>1
  <2> QED BY <2>2, <2>3, <2>4, Zenon
<1>11. old \o more = new
  <2>1. DOMAIN (old \o more) = 1..r /\ DOMAIN new = 1..r
    BY <1>6, <1>9
  <2> DEFINE both == old \o more
  <2>2. both = [i \in 1..r |-> both[i]] /\ new = [i \in 1..r |-> new[i]]
    <3>1. both \in Seq(Nat \X R) /\ DOMAIN both = 1..r
      BY <1>9, <2>1
    <3> HIDE DEF both
    <3> QED BY <1>6, <2>1, <3>1
  <2>3. \A i \in 1..r : both[i] = new[i]
    BY <1>10
  <2> HIDE DEF both
  <2>4. both = new
    BY <2>2, <2>3
  <2> QED BY <2>4 DEF both
<1> QED BY <1>11 DEF old, more, new, Prefix

LEMMA FilledStep ==
  ASSUME StoredOK, FilledOK, SymbolsTypeOK, update_database, step = "update", step' = step, UNCHANGED tables
  PROVE  FilledOK'
<1> DEFINE Left(t, cs) == \E p \in 0..Len(List(t)) :
                            /\ CutsInto(cs, List(t), p)
                            /\ run \notin ToSet(failures') =>
                                 database'[t].rows = Prefix(List(t), p, run)
           Whole(t, d) == d[t].rows = Prefix(List(t), Len(List(t)), run)
           left == query # "connect"
<1>1. /\ table \in 1..3 /\ DOMAIN database = 1..3 /\ (query = "connect" => table = 1)
      /\ (query = "closed" => table = 3) /\ cmds \in Seq(Seq(RowType(table))) /\ run \in Nat
  BY DEF StoredOK
<1>2. \A t \in 1..3 : List(t)' = List(t)
  BY SameList
<1>3. run \notin ToSet(failures) => \A t \in 1..3 :
        /\ query \in {"create", "build"} /\ t = table => database[t].rows = <<>>
        /\ (query # "connect" /\ t < table) \/ query = "closed" => Whole(t, database)
  BY DEF FilledOK, Stored
<1>4. run' = run
  BY DEF update_database, Connect, Drop, Create, Build, Insert, NextTable
<1>5. run \notin ToSet(failures') => Works /\ run \notin ToSet(failures)
  <2>1. Fails \/ Works
    BY DEF update_database, Connect, Drop, Create, Build, Insert, NextTable, Works
  <2> QED BY <2>1, FailuresStep
<1> SUFFICES /\ \A t \in 1..3 : query' = "insert" /\ t = table' => Left(t, cmds')
             /\ Works /\ run \notin ToSet(failures) => \A t \in 1..3 :
                  /\ query' \in {"create", "build"} /\ t = table' => database'[t].rows = <<>>
                  /\ (query' # "connect" /\ t < table') \/ query' = "closed" => Whole(t, database')
  <2>1. \A t \in 1..3 : query' = "insert" /\ t = table' => \E p \in 0..Len(List(t)') :
          /\ CutsInto(cmds', List(t)', p)
          /\ run' \notin ToSet(failures') => database'[t].rows = Prefix(List(t)', p, run')
    BY <1>2, <1>4
  <2>2. run' \notin ToSet(failures') => \A t \in 1..3 :
          /\ query' \in {"create", "build"} /\ t = table' => database'[t].rows = <<>>
          /\ (query' # "connect" /\ t < table') \/ query' = "closed" =>
               database'[t].rows = Prefix(List(t)', Len(List(t)'), run')
    BY <1>2, <1>4, <1>5
  <2> QED BY <2>1, <2>2 DEF FilledOK, Stored
<1>6. ASSUME query = "insert"
      PROVE  \E p \in 0..Len(List(table)) :
               /\ CutsInto(cmds, List(table), p)
               /\ run \notin ToSet(failures) =>
                    database[table].rows = Prefix(List(table), p, run)
  BY <1>1, <1>6 DEF FilledOK, Stored
<1>7. List(table) \in Seq(RowType(table)) /\ Len(List(table)) \in Nat
  BY <1>1, RowListType
<1> HIDE DEF Left, Whole
<1>8. CASE Connect
  BY <1>1, <1>8 DEF Connect, Abort
<1>9. CASE Drop
  <2>1. query = "drop" /\ table' = table /\ query' \in {"create", "aborted"}
    BY <1>9 DEF Drop, Abort
  <2>2. query' = "create" => database'[table].rows = <<>>
    BY <1>1, <1>9 DEF Drop, Abort, Absent
  <2>3. \A t \in 1..3 : t < table => database'[t] = database[t]
    BY <1>1, <1>9 DEF Drop
  <2> QED BY <1>1, <1>3, <2>1, <2>2, <2>3 DEF Whole
<1>10. CASE Create
  <2>1. query = "create" /\ table' = table /\ query' \in {"build", "aborted"}
    BY <1>10 DEF Create, Abort
  <2>2. query' = "build" => database'[table].rows = <<>>
    BY <1>1, <1>10 DEF Create, Abort, Created
  <2>3. \A t \in 1..3 : t < table => database'[t] = database[t]
    BY <1>1, <1>10 DEF Create
  <2> QED BY <1>1, <1>3, <2>1, <2>2, <2>3 DEF Whole
<1>11. CASE Build
  <2>1. /\ query = "build" /\ query' = "insert" /\ table' = table /\ database' = database
        /\ failures' = failures /\ cmds' = build_insert_batch
    BY <1>11 DEF Build
  <2>2. CutsInto(cmds', List(table), 0)
    BY <1>1, <2>1, BuildStep DEF CutsInto, Cut
  <2>3. run \notin ToSet(failures) => database[table].rows = Prefix(List(table), 0, run)
    <3>1. run \notin ToSet(failures) => database[table].rows = <<>>
      BY <1>1, <1>3, <2>1
    <3>2. 1..0 = {}
      OBVIOUS
    <3> QED BY <3>1, <3>2 DEF Prefix
  <2>4. 0 \in 0..Len(List(table))
    BY <1>7
  <2>5. Left(table, cmds')
    BY <2>1, <2>2, <2>3, <2>4 DEF Left
  <2> QED BY <1>1, <1>3, <2>1, <2>5 DEF Whole
<1>12. CASE Insert
  <2>1. query = "insert" /\ cmds # <<>> /\ query' = "insert" /\ table' = table /\ cmds' = Tail(cmds)
    BY <1>12 DEF Insert
  <2>2. PICK p \in 0..Len(List(table)) :
          /\ CutsInto(cmds, List(table), p)
          /\ run \notin ToSet(failures) =>
               database[table].rows = Prefix(List(table), p, run)
    BY <1>6, <2>1
  <2>3. PICK b : Cut(cmds, List(table), p, Len(List(table)), b)
    BY <2>2 DEF CutsInto
  <2>4. p \in Nat /\ p <= Len(List(table))
    BY <1>7
  <2>5. /\ b[1] \in p..Len(List(table)) /\ Head(cmds) = Slice(List(table), p, b[1])
        /\ CutsInto(Tail(cmds), List(table), b[1])
    <3>1. /\ b[1] \in p..Len(List(table)) /\ Head(cmds) = Slice(List(table), p, b[1])
          /\ \E e : Cut(Tail(cmds), List(table), b[1], Len(List(table)), e)
      BY <1>1, <1>7, <2>1, <2>3, <2>4, CutTail
    <3>2. PICK e : Cut(Tail(cmds), List(table), b[1], Len(List(table)), e)
      BY <3>1
    <3>3. e \in [0..Len(Tail(cmds)) -> b[1]..Len(List(table))]
      BY <3>2 DEF Cut
    <3> QED BY <3>1, <3>2, <3>3 DEF CutsInto
  <2>6. ASSUME run \notin ToSet(failures')
        PROVE  database'[table].rows = Prefix(List(table), b[1], run)
    <3>1. run \notin ToSet(failures) /\ Works
      BY <1>5, <2>6
    <3>2. database' = [database EXCEPT ![table].rows = @ \o Tagged(Head(cmds))]
      <4>1. ~Fails
        BY <2>6, FailuresStep DEF Fails, Works
      <4> QED BY <1>12, <4>1 DEF Insert
    <3>3. database'[table].rows = Prefix(List(table), p, run) \o Tagged(Slice(List(table), p, b[1]))
      BY <2>1, <2>2, <2>5, <3>1, <3>2, InsertStep
    <3> QED BY <1>1, <1>7, <2>4, <2>5, <3>3, StoredMore
  <2>7. Left(table, cmds')
    <3>1. b[1] \in 0..Len(List(table))
      BY <1>7, <2>4, <2>5
    <3> QED BY <2>1, <2>5, <2>6, <3>1 DEF Left
  <2>8. \A t \in 1..3 : t < table => database'[t] = database[t]
    <3>1. CASE UNCHANGED database
      BY <3>1
    <3>2. CASE database' = [database EXCEPT ![table].rows = @ \o Tagged(Head(cmds))]
      BY <1>1, <2>1, <3>2, InsertStep
    <3> QED BY <1>12, <3>1, <3>2 DEF Insert
  <2> QED BY <1>1, <1>3, <2>1, <2>7, <2>8 DEF Whole
<1>13. CASE NextTable
  <2>1. /\ query = "insert" /\ cmds = <<>> /\ database' = database /\ failures' = failures
        /\ \/ table = 3 /\ query' = "closed" /\ table' = table
           \/ query' = "drop" /\ table' = table + 1
    BY <1>13 DEF NextTable, Tables
  <2>2. run \notin ToSet(failures) => Whole(table, database)
    <3>1. PICK p \in 0..Len(List(table)) :
            /\ CutsInto(cmds, List(table), p)
            /\ run \notin ToSet(failures) =>
                 database[table].rows = Prefix(List(table), p, run)
      BY <1>6, <2>1
    <3>2. p = Len(List(table))
      BY <2>1, <3>1 DEF Cut, CutsInto
    <3> QED BY <3>1, <3>2 DEF Whole
  <2>3. \A t \in 1..3 : (query' # "connect" /\ t < table') \/ query' = "closed" => t < table \/ t = table
    BY <1>1, <2>1
  <2>4. run \notin ToSet(failures) => \A t \in 1..3 : t < table \/ t = table => Whole(t, database)
    BY <1>1, <1>3, <2>1, <2>2
  <2> QED BY <2>1, <2>3, <2>4
<1> QED BY <1>8, <1>9, <1>10, <1>11, <1>12, <1>13 DEF update_database

(* The rest of the program. *)

\* What leaves the database alone, and finds nothing else than before once it is used.
LEMMA DatabaseQuiet ==
  ASSUME DatabaseInv, UNCHANGED databaseVars,
         query = "connect" \/ (UNCHANGED tables /\ step' \in {step, "update", "returned"})
  PROVE  DatabaseInv'
<1>1. UNCHANGED <<database, query, table, cmds, failures, run>>
  BY DEF databaseVars
<1>2. StoredOK'
  BY <1>1 DEF DatabaseInv, StoredOK
<1>3. RunsOK'
  <2>1. \A t : WrittenBy(t)' = WrittenBy(t) /\ (Emptied(t)' <=> Emptied(t)) /\ (NotYet(t)' <=> NotYet(t))
    BY <1>1 DEF WrittenBy, ToSet, Emptied, NotYet
  <2> QED BY <1>1, <2>1 DEF DatabaseInv, RunsOK, TablesOfOneRun
<1>4. FilledOK'
  <2>1. CASE query = "connect"
    BY <1>1, <2>1 DEF FilledOK
  <2>2. CASE UNCHANGED tables /\ step' \in {step, "update", "returned"}
    <3>1. \A t : List(t)' = List(t)
      BY <2>2, SameList
    <3>2. \A t \in 1..3 : query' = "insert" /\ t = table' => \E p \in 0..Len(List(t)') :
            /\ CutsInto(cmds', List(t)', p)
            /\ run' \notin ToSet(failures') => database'[t].rows = Prefix(List(t)', p, run')
      BY <1>1, <3>1 DEF DatabaseInv, FilledOK, Stored
    <3>3. run' \notin ToSet(failures') => \A t \in 1..3 :
            /\ query' \in {"create", "build"} /\ t = table' => database'[t].rows = <<>>
            /\ (query' # "connect" /\ t < table') \/ query' = "closed" =>
                 database'[t].rows = Prefix(List(t)', Len(List(t)'), run')
      BY <1>1, <3>1 DEF DatabaseInv, FilledOK, Stored
    <3>4. step' \notin {"update", "returned"} => query' = "connect"
      BY <1>1, <2>2 DEF DatabaseInv, FilledOK
    <3> QED BY <3>2, <3>3, <3>4 DEF FilledOK, Stored
  <2> QED BY <2>1, <2>2
<1> QED BY <1>2, <1>3, <1>4 DEF DatabaseInv

LEMMA DatabaseRest ==
  ASSUME CopiesInv, DatabaseInv,
         (\E t \in Thread : LoadStep(t)) \/ PassStep \/ MainStep \/ LeaveStep \/ UNCHANGED vars
  PROVE  DatabaseInv'
<1>1. step \notin {"update", "returned"} => query = "connect"
  BY DEF DatabaseInv, FilledOK
<1>2. CASE \E t \in Thread : LoadStep(t)
  <2>1. PICK t \in Thread : LoadStep(t)
    BY <1>2
  <2> QED BY <2>1, DatabaseQuiet DEF LoadStep, Load, driver
<1>3. CASE PassStep
  <2>1. step \in Passes /\ UNCHANGED databaseVars
    BY <1>3 DEF PassStep, Callback
  <2> QED BY <1>1, <2>1, DatabaseQuiet DEF Passes
<1>4. CASE MainStep
  <2>1. step \in Passes \cup {"load"} /\ UNCHANGED databaseVars
    BY <1>4 DEF MainStep, LoadStaticData, EndStage
  <2> QED BY <1>1, <2>1, DatabaseQuiet DEF Passes
<1>5. CASE LeaveStep
  BY <1>5, DatabaseQuiet DEF LeaveStep, Leave
<1>6. CASE UNCHANGED vars
  BY <1>6, DatabaseQuiet DEF vars, loaderVars, driver
<1> QED BY <1>2, <1>3, <1>4, <1>5, <1>6

\* The next run finds the rows of the ones before.
LEMMA DatabaseRelaunch == ASSUME DatabaseInv, Relaunch PROVE DatabaseInv'
<1>1. /\ query' = "connect" /\ table' = 1 /\ cmds' = <<>> /\ run' = run + 1 /\ run < MaxRuns
      /\ UNCHANGED <<database, failures>>
  BY DEF Relaunch
<1>2. run \in 1..MaxRuns /\ failures \in Seq(1..run)
  BY DEF DatabaseInv, StoredOK
<1>3. StoredOK'
  <2>1. failures \in Seq(1..(run + 1)) /\ run + 1 \in 1..MaxRuns
    BY <1>1, <1>2
  <2>2. <<>> \in Seq(Seq(RowType(1)))
    OBVIOUS
  <2> QED BY <1>1, <2>1, <2>2 DEF DatabaseInv, StoredOK
<1>4. RunsOK'
  <2>1. \A t \in 1..3 : WrittenBy(t)' = WrittenBy(t) /\ WrittenBy(t) \subseteq Nat
    <3>1. \A t : WrittenBy(t)' = WrittenBy(t)
      BY <1>1 DEF WrittenBy, ToSet
    <3> QED BY <3>1, WrittenType DEF DatabaseInv
  <2>2. \A t \in 1..3 : \A m \in WrittenBy(t) : m \in Nat /\ m <= run
    BY <2>1 DEF DatabaseInv, RunsOK
  <2>3. \A t \in 1..3 : \A m \in WrittenBy(t)' : m <= run' /\ m < run'
    BY <1>1, <1>2, <2>1, <2>2
  <2>4. TablesOfOneRun'
    BY <2>1 DEF DatabaseInv, RunsOK, TablesOfOneRun
  <2> QED BY <1>1, <2>3, <2>4 DEF RunsOK, Emptied
<1>5. FilledOK'
  BY <1>1 DEF FilledOK
<1> QED BY <1>3, <1>4, <1>5 DEF DatabaseInv

LEMMA DatabaseStart == Init => DatabaseInv
<1> SUFFICES ASSUME Init PROVE DatabaseInv
  OBVIOUS
<1>1. /\ database = [t \in 1..3 |-> Absent] /\ query = "connect" /\ table = 1
      /\ cmds = <<>> /\ failures = <<>> /\ run = 1
  BY DEF Init, DatabaseInit
<1>2. \A t \in 1..3 : database[t] = Absent
  BY <1>1
<1>3. StoredOK
  <2>1. \A t : Absent \in [exists : BOOLEAN, rows : Seq(Nat \X RowType(t))] /\ Absent.rows = <<>>
    BY DEF Absent
  <2>2. cmds \in Seq(Seq(RowType(table))) /\ failures \in Seq(1..run) /\ Len(failures) = 0
    BY <1>1
  <2>3. run \in 1..MaxRuns /\ DOMAIN database = 1..3 /\ 0 <= MaxFailures
    BY <1>1
  <2>4. \A t \in 1..3 : /\ database[t] \in [exists : BOOLEAN, rows : Seq(Nat \X RowType(t))]
                         /\ database[t].rows = <<>>
    BY <1>2, <2>1
  <2> QED BY <1>1, <2>2, <2>3, <2>4 DEF StoredOK
<1>4. \A t \in 1..3 : WrittenBy(t) = {}
  BY <1>2 DEF Absent, WrittenBy, ToSet
<1>5. RunsOK
  BY <1>4 DEF RunsOK, TablesOfOneRun
<1>6. FilledOK
  BY <1>1 DEF FilledOK
<1> QED BY <1>3, <1>5, <1>6 DEF DatabaseInv

LEMMA DatabaseStep == CopiesInv /\ TablesInv /\ DatabaseInv /\ [Next]_vars => DatabaseInv'
<1> SUFFICES ASSUME CopiesInv, TablesInv, DatabaseInv, [Next]_vars PROVE DatabaseInv'
  OBVIOUS
<1>1. CASE UpdateStep
  <2>1. SymbolsTypeOK
    BY TablesType
  <2>2. update_database /\ step = "update" /\ step' = step /\ UNCHANGED tables
    BY <1>1 DEF UpdateStep, loaderVars, driver
  <2> QED BY <2>1, <2>2, StoredStep, RunsStep, FilledStep DEF DatabaseInv
<1> QED BY <1>1, DatabaseRest, DatabaseRelaunch DEF Next, Proceed

\* What the database holds between two queries, in every run of the program, whatever
\* queries fail (update_database).
THEOREM DatabaseInvariant == Spec => []DatabaseInv
BY CopiesInvariant, TablesInvariant, DatabaseStart, DatabaseStep, PTL DEF Spec

\* Whatever fails and is run again, a table has rows of one run only, and no table is
\* newer than one that is replaced before it (update_database).
THEOREM TablesAlwaysOfOneRun == Spec => []TablesOfOneRun
<1>1. DatabaseInv => TablesOfOneRun
  BY DEF DatabaseInv, RunsOK
<1> QED BY <1>1, DatabaseInvariant, PTL

LEMMA StatementsFit ==
  ASSUME NEW R, NEW list \in Seq(R), NEW cs \in Seq(Seq(R)), NEW p \in 0..Len(list), CutsInto(cs, list, p),
         NEW i \in DOMAIN cs
  PROVE  cs[i] # <<>> /\ Len(cs[i]) <= batch_size
<1>1. Len(list) \in Nat /\ p \in Nat /\ Len(cs) \in Nat /\ DOMAIN cs = 1..Len(cs)
  BY ListElements
<1>2. PICK b \in [0..Len(cs) -> p..Len(list)] : Cut(cs, list, p, Len(list), b)
  BY DEF CutsInto
<1>3. /\ b[i - 1] < b[i] /\ b[i] - b[i - 1] <= batch_size /\ cs[i] = Slice(list, b[i - 1], b[i])
  BY <1>1, <1>2 DEF Cut
<1>4. b[i - 1] \in Nat /\ b[i] \in Nat /\ b[i] <= Len(list)
  <2>1. i - 1 \in 0..Len(cs) /\ i \in 0..Len(cs)
    BY <1>1
  <2>2. b[i - 1] \in p..Len(list) /\ b[i] \in p..Len(list)
    BY <1>2, <2>1
  <2> QED BY <1>1, <2>2
<1>5. PICK x \in Nat, y \in Nat :
        x # y /\ x <= y /\ y - x <= batch_size /\ y <= Len(list) /\ cs[i] = Slice(list, x, y)
  BY <1>3, <1>4
<1>6. Slice(list, x, y) \in Seq(R) /\ Len(Slice(list, x, y)) = y - x
  BY <1>5, SliceType
<1>7. y - x \in Nat /\ y - x # 0 /\ Len(cs[i]) = y - x
  <2>1. Len(cs[i]) = Len(Slice(list, x, y))
    BY <1>5
  <2>2. y - x \in Nat /\ y - x # 0
    BY <1>5
  <2> QED BY <1>6, <2>1, <2>2
<1>8. Len(<<>>) = 0
  OBVIOUS
<1> QED BY <1>5, <1>7, <1>8

LEMMA DatabaseTypes == DatabaseInv /\ CopiesInv /\ TablesInv => DatabaseTypeOK
<1> SUFFICES ASSUME DatabaseInv, SymbolsTypeOK PROVE DatabaseTypeOK
  BY TablesType
<1>1. StoredOK
  BY DEF DatabaseInv
<1>2. ASSUME NEW t \in 1..3, ~database[t].exists PROVE database[t] = Absent
  <2>1. database[t] \in [exists : BOOLEAN, rows : Seq(Nat \X RowType(t))] /\ database[t].rows = <<>>
    BY <1>1, <1>2 DEF StoredOK
  <2>2. database[t].exists = FALSE
    BY <1>2, <2>1
  <2> QED BY <2>1, <2>2 DEF Absent
<1>3. ToSet(failures) \subseteq 1..run
  <2>1. failures \in Seq(1..run)
    BY <1>1 DEF StoredOK
  <2>2. \A i \in DOMAIN failures : failures[i] \in 1..run
    BY <2>1, ListElements
  <2> QED BY <2>2 DEF ToSet
<1>4. ASSUME NEW i \in DOMAIN cmds PROVE cmds[i] # <<>> /\ Len(cmds[i]) <= batch_size
  <2>1. query = "insert" /\ table \in 1..3 /\ cmds \in Seq(Seq(RowType(table)))
    BY <1>1 DEF StoredOK
  <2>2. PICK p \in 0..Len(List(table)) : CutsInto(cmds, List(table), p)
    BY <2>1 DEF DatabaseInv, FilledOK
  <2>3. List(table) \in Seq(RowType(table))
    BY <2>1, RowListType
  <2> QED BY <2>1, <2>2, <2>3, StatementsFit
<1>5. /\ DOMAIN database = 1..3 /\ table \in 1..3 /\ Len(failures) <= MaxFailures
      /\ query \in {"connect", "drop", "create", "build", "insert", "closed", "aborted"}
  BY <1>1 DEF StoredOK
<1> QED BY <1>2, <1>3, <1>4, <1>5 DEF DatabaseTypeOK

\* The type invariant of the whole; no statement is empty or longer than a batch
\* (update_database), and a function or a call is only in tables of its kind.
THEOREM PipelineType == Spec => []TypeOK
<1>1. CopiesInv /\ TablesInv /\ DatabaseInv => TypeOK
  BY TablesType, DatabaseTypes DEF CopiesInv, Inv, DatabaseInv, StoredOK, TypeOK
<1> QED BY <1>1, CopiesInvariant, TablesInvariant, DatabaseInvariant, PTL

-----------------------------------------------------------------------------
(* What the tables report when the update has ended. *)

\* What the code relies on where it joins the tables by the hash (funcSetHash): target
\* sets of one hash are of one size and have the same names.
HashesDiffer ==
  \A c, d \in DOMAIN ICallees : funcSetHash(ICallees[c]) = funcSetHash(ICallees[d]) =>
    Cardinality(ICallees[c]) = Cardinality(ICallees[d]) /\ Named(ICallees[c]) = Named(ICallees[d])

LEMMA StoredRows ==
  ASSUME SymbolsTypeOK, NEW t \in 1..3, Stored(t, Len(List(t)))
  PROVE  /\ WrittenBy(t) \subseteq {run} /\ RowsOf(t) = Rows(t)
         /\ Cardinality(RowsOf(t)) = Len(database[t].rows)
<1> DEFINE list == List(t)
           n == Len(list)
           rows == database[t].rows
           Row(i) == <<run, list[i]>>
<1>1. /\ n \in Nat /\ n = Cardinality(Rows(t)) /\ Rows(t) = {list[i] : i \in 1..n}
  BY RowListType
<1>2. rows = [i \in 1..n |-> Row(i)]
  BY DEF Stored, Prefix
<1>3. \A i : Row(i)[1] = run /\ Row(i)[2] = list[i]
  OBVIOUS
<1> HIDE DEF list, n, Row
<1>4. DOMAIN rows = 1..n /\ \A i \in 1..n : rows[i] = Row(i)
  BY <1>2
<1>5. Len(rows) = n
  <2>1. rows \in [1..n -> {Row(i) : i \in 1..n}]
    BY <1>2
  <2> QED BY <1>1, <2>1
<1> HIDE DEF rows
<1>6. ToSet(rows) = {Row(i) : i \in 1..n}
  BY <1>4 DEF ToSet
<1>7. WrittenBy(t) = {e[1] : e \in ToSet(rows)} /\ RowsOf(t) = {e[2] : e \in ToSet(rows)}
  BY DEF WrittenBy, RowsOf, rows
<1>8. WrittenBy(t) \subseteq {run}
  BY <1>3, <1>6, <1>7
<1>9. RowsOf(t) = {list[i] : i \in 1..n}
  BY <1>3, <1>6, <1>7
<1> QED BY <1>1, <1>5, <1>8, <1>9 DEF rows

\* The functions joined to a call by its hash.
LEMMA JoinedTargets ==
  ASSUME HashesDiffer, NEW c \in DOMAIN ICallees
  PROVE  LET joined == {q[2] : q \in {e \in callerRows : e[1] = funcSetHash(ICallees[c])}} IN
         Cardinality(ICallees[c]) = Cardinality(joined) /\ Named(joined) = Named(ICallees[c])
<1> DEFINE h == funcSetHash(ICallees[c])
           joined == {q[2] : q \in {e \in callerRows : e[1] = h}}
           Of_(d) == d \in DOMAIN ICallees /\ ICallees[d] # {} /\ funcSetHash(ICallees[d]) = h
           k == CHOOSE d \in DOMAIN ICallees : ICallees[d] # {} /\ funcSetHash(ICallees[d]) = h
<1>1. \A f : f \in joined <=> \E d \in Kept : funcSetHash(ICallees[d]) = h /\ f \in ICallees[d]
  <2> DEFINE H(d) == funcSetHash(ICallees[d])
             T(d) == ICallees[d]
  <2>1. callerRows = UNION {{H(d)} \X T(d) : d \in Kept}
    BY DEF callerRows
  <2> HIDE DEF H, T, h
  <2>2. \A e : e \in callerRows <=> \E d \in Kept : e \in {H(d)} \X T(d)
    BY <2>1
  <2>3. \A g, f : <<g, f>> \in callerRows <=> \E d \in Kept : g = H(d) /\ f \in T(d)
    BY <2>2
  <2>4. \A e \in callerRows : e = <<e[1], e[2]>>
    BY <2>2
  <2>5. \A f : f \in joined <=> <<h, f>> \in callerRows
    BY <2>4
  <2>6. \A f : f \in joined <=> \E d \in Kept : h = H(d) /\ f \in T(d)
    BY <2>3, <2>5
  <2> QED BY <2>6 DEF H, T
<1>2. \A d \in Kept : funcSetHash(ICallees[d]) = h => d = k /\ Of_(d)
  BY DEF Kept
<1>3. CASE \E d : Of_(d)
  <2>1. Of_(k)
    BY <1>3
  <2>2. k \in Kept
    BY <2>1 DEF Kept
  <2> HIDE DEF k, joined
  <2>3. joined = ICallees[k]
    <3>1. \A f \in joined : f \in ICallees[k]
      BY <1>1, <1>2
    <3>2. \A f \in ICallees[k] : f \in joined
      BY <1>1, <2>1, <2>2
    <3> QED BY <3>1, <3>2, Zenon
  <2> QED BY <2>1, <2>3 DEF HashesDiffer, joined
<1>4. CASE \A d : ~Of_(d)
  <2>1. ICallees[c] = {}
    BY <1>4
  <2>2. joined = {}
    <3> HIDE DEF joined, Of_
    <3> QED BY <1>1, <1>2, <1>4
  <2> QED BY <2>1, <2>2
<1> QED BY <1>3, <1>4

LEMMA InvReported == CopiesInv /\ TablesInv /\ DatabaseInv => (HashesDiffer => Reported)
<1> DEFINE Joins(I, J) == \A r \in I :
             LET joined == {q[2] : q \in {e \in J : e[1] = r[3]}} IN
             r[2] = Cardinality(joined) /\ Named(joined) = Named(ICallees[r[1]])
<1> SUFFICES ASSUME CopiesInv, TablesInv, DatabaseInv, HashesDiffer,
                    step = "returned", query = "closed", run \notin ToSet(failures)
             PROVE  /\ \A t \in 1..3 : WrittenBy(t) \subseteq {run} /\ Cardinality(RowsOf(t)) = Len(database[t].rows)
                    /\ {r[1] : r \in RowsOf(1)} = DOMAIN ICallees
                    /\ Joins(RowsOf(1), RowsOf(2))
                    /\ {r[1] : r \in RowsOf(3)} = {f \in addressTaken : Loaded(f)}
  BY DEF Reported
<1> HIDE DEF Joins
<1>1. SymbolsTypeOK
  BY TablesType
<1>2. \A t \in 1..3 : Stored(t, Len(List(t)))
  BY DEF DatabaseInv, FilledOK
<1>3. \A t \in 1..3 : /\ WrittenBy(t) \subseteq {run} /\ RowsOf(t) = Rows(t)
                      /\ Cardinality(RowsOf(t)) = Len(database[t].rows)
  BY <1>1, <1>2, StoredRows
<1>4. RowsOf(1) = icallRows /\ RowsOf(2) = callerRows /\ RowsOf(3) = funcRows
  BY <1>3 DEF Rows
<1>5. {r[1] : r \in icallRows} = DOMAIN ICallees
  <2> DEFINE Row(c) == <<c, Cardinality(ICallees[c]), funcSetHash(ICallees[c])>>
  <2>1. \A c : Row(c)[1] = c
    OBVIOUS
  <2> DEFINE D == DOMAIN ICallees
  <2>2. icallRows = {Row(c) : c \in D}
    BY DEF icallRows
  <2> HIDE DEF Row, D
  <2>3. {r[1] : r \in icallRows} = D
    BY <2>1, <2>2
  <2> QED BY <2>3 DEF D
<1>6. Joins(icallRows, callerRows)
  <2> SUFFICES ASSUME NEW r \in icallRows
               PROVE  LET joined == {q[2] : q \in {e \in callerRows : e[1] = r[3]}} IN
                      r[2] = Cardinality(joined) /\ Named(joined) = Named(ICallees[r[1]])
    BY DEF Joins
  <2>1. PICK c \in DOMAIN ICallees : r = <<c, Cardinality(ICallees[c]), funcSetHash(ICallees[c])>>
    BY DEF icallRows
  <2>2. r[1] = c /\ r[2] = Cardinality(ICallees[c]) /\ r[3] = funcSetHash(ICallees[c])
    BY <2>1
  <2> QED BY <2>2, JoinedTargets
<1>7. {r[1] : r \in funcRows} = {f \in addressTaken : Loaded(f)}
  <2>1. Analyzed
    BY DEF Analyzed
  <2>2. Global_AddressTaken_Func_Set = {f \in addressTaken : Loaded(f)}
    BY <2>1, AllTaken DEF BuiltOK
  <2> DEFINE Row(f) == <<f, Cardinality({c \in DOMAIN ICallees : f \in ICallees[c]})>>
  <2>3. \A f : Row(f)[1] = f
    OBVIOUS
  <2>4. funcRows = {Row(f) : f \in Global_AddressTaken_Func_Set}
    BY DEF funcRows
  <2> HIDE DEF Row
  <2>5. {r[1] : r \in funcRows} = Global_AddressTaken_Func_Set
    BY <2>3, <2>4
  <2> QED BY <2>2, <2>5
<1> QED BY <1>3, <1>4, <1>5, <1>6, <1>7

\* After an update none of whose queries failed, the tables say what the analysis found
\* and nothing else, whatever failed in earlier runs, as long as the hashes tell the
\* target sets of this run apart (update_database, funcSetHash).
THEOREM UpdateReports == Spec => [](HashesDiffer => Reported)
BY InvReported, CopiesInvariant, TablesInvariant, DatabaseInvariant, PTL
=============================================================================
