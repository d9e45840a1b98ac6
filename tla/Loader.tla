------------------------------- MODULE Loader -------------------------------
(***************************************************************************)
(* main of Analyzer.cc up to the co-analysis loop: threads load the        *)
(* bitcode files into one list of modules, and IterativeModulePass::run    *)
(* then takes each pass over the list.  A module is named by its file.     *)
(*                                                                         *)
(* push_back on the shared vector is the read and the write it consists    *)
(* of, so that only the lock keeps two of them apart.                      *)
(***************************************************************************)
EXTENDS Naturals, Sequences

CONSTANTS Thread, File, Nobody

ASSUME NobodyAssumption == Nobody \notin Thread \cup File

VARIABLES
  Readable,            \* the files parseIRFile can read in this run
  step,                \* what main is doing
  todo, pc, file,      \* the files not handed out; each thread's place and file
  lock,                \* the thread that holds the OpenMP lock
  seen,                \* the Modules a thread's push_back started from
  Modules, ModuleMaps,
  stage, at, changed   \* of the pass that runs: its loop, the position, `again' or `changed'

team == <<todo, pc, file, lock, seen, Modules, ModuleMaps>>
driver == <<step, stage, at, changed>>
loaderVars == <<Readable, team, driver>>

Passes == {"TypeBuilder", "CHABuilder", "CallGraph"}
PassAfter == [load |-> "TypeBuilder", TypeBuilder |-> "CHABuilder", CHABuilder |-> "CallGraph",
              CallGraph |-> "analyzed"]
StageAfter == [initialize |-> "module", module |-> "finalize"]

LoaderTypeOK ==
  /\ Readable \subseteq File
  /\ step \in Passes \cup {"load", "analyzed", "update", "returned"}
  /\ todo \subseteq File
  /\ pc \in [Thread -> {"idle", "parse", "lock", "push", "write", "unlock"}]
  /\ file \in [Thread -> File \cup {Nobody}]
  /\ lock \in Thread \cup {Nobody}
  /\ seen \in [Thread -> Seq(File)] /\ Modules \in Seq(File) /\ ModuleMaps \subseteq File
  /\ stage \in {"initialize", "module", "finalize"} /\ at \in Nat \ {0} /\ changed \in BOOLEAN

LoaderInit ==
  /\ Readable \in SUBSET File
  /\ step = "load" /\ todo = File
  /\ pc = [t \in Thread |-> "idle"] /\ file = [t \in Thread |-> Nobody]
  /\ lock = Nobody /\ seen = [t \in Thread |-> <<>>]
  /\ Modules = <<>> /\ ModuleMaps = {}
  /\ stage = "initialize" /\ at = 1 /\ changed = FALSE

-----------------------------------------------------------------------------
(* The parallel loop over InputFilenames. *)

Goto(t, place) == pc' = [pc EXCEPT ![t] = place]

Take(t) ==
  /\ step = "load" /\ pc[t] = "idle"
  /\ \E f \in todo : todo' = todo \ {f} /\ file' = [file EXCEPT ![t] = f]
  /\ Goto(t, "parse")
  /\ UNCHANGED <<lock, seen, Modules, ModuleMaps>>

\* A file that cannot be read is reported and left out.  The diagnostic it leaves in
\* Err, which all threads share and nobody reads, is not modelled.
parseIRFile(t) ==
  /\ pc[t] = "parse"
  /\ IF file[t] \in Readable THEN Goto(t, "lock") /\ UNCHANGED file
     ELSE Goto(t, "idle") /\ file' = [file EXCEPT ![t] = Nobody]
  /\ UNCHANGED <<todo, lock, seen, Modules, ModuleMaps>>

\* Not what the loader does: the list is appended to without the lock.
NoLock(t) == UNCHANGED lock
Acquire(t) == lock = Nobody /\ lock' = t

SetLock(t) ==
  /\ pc[t] = "lock" /\ Acquire(t)
  /\ Goto(t, "push")
  /\ UNCHANGED <<todo, file, seen, Modules, ModuleMaps>>

PushBack(t) ==
  /\ pc[t] = "push"
  /\ seen' = [seen EXCEPT ![t] = Modules]
  /\ Goto(t, "write")
  /\ UNCHANGED <<todo, file, lock, Modules, ModuleMaps>>

PushedBack(t) ==
  /\ pc[t] = "write"
  /\ Modules' = Append(seen[t], file[t])
  /\ ModuleMaps' = ModuleMaps \cup {file[t]}
  /\ file' = [file EXCEPT ![t] = Nobody]
  /\ Goto(t, "unlock")
  /\ UNCHANGED <<todo, lock, seen>>

UnsetLock(t) ==
  /\ pc[t] = "unlock"
  /\ lock' = Nobody
  /\ Goto(t, "idle")
  /\ UNCHANGED <<todo, file, seen, Modules, ModuleMaps>>

Load(t) ==
  /\ Take(t) \/ parseIRFile(t) \/ SetLock(t) \/ PushBack(t) \/ PushedBack(t) \/ UnsetLock(t)
  /\ UNCHANGED <<Readable, driver>>

-----------------------------------------------------------------------------
(* The passes, over all modules in the order of the list. *)

StartStage(s, p) == stage' = s /\ step' = p /\ at' = 1 /\ changed' = FALSE

\* The end of the parallel loop waits for its threads.
LoadStaticData ==
  /\ step = "load" /\ todo = {} /\ \A t \in Thread : pc[t] = "idle"
  /\ StartStage("initialize", PassAfter["load"])
  /\ UNCHANGED <<Readable, team>>

\* Not what the passes do: analysing a module asks for another round over all.
AlwaysAgain(p, s) == s = "module"
\* What a pass returns for a module: no pass asks to be called again.
Returns(p, s) == FALSE

\* One call of the pass: its work on Modules[at] is up to the pass.
Callback ==
  /\ step \in Passes /\ at <= Len(Modules)
  /\ at' = at + 1
  /\ changed' = (changed \/ Returns(step, stage))
  /\ UNCHANGED <<Readable, team, step, stage>>

\* Not what the driver does: the last module may be left out.
LastLeftOut == at >= Len(Modules)
EndOfList == at > Len(Modules)

NextStage ==
  IF changed THEN StartStage(stage, step)
  ELSE IF stage # "finalize" THEN StartStage(StageAfter[stage], step)
  ELSE StartStage("initialize", PassAfter[step])

EndStage ==
  /\ step \in Passes /\ EndOfList
  /\ NextStage
  /\ UNCHANGED <<Readable, team>>

\* The rest of main: the co-analysis loop, the update of the database, the end.
Leave ==
  /\ \/ step = "analyzed" /\ step' = "update"
     \/ step = "update" /\ step' = "returned"
  /\ UNCHANGED <<Readable, team, stage, at, changed>>

\* The program is run again, maybe on other files.
Launch ==
  /\ step = "returned"
  /\ Readable' \in SUBSET File
  /\ step' = "load" /\ todo' = File
  /\ pc' = [t \in Thread |-> "idle"] /\ file' = [t \in Thread |-> Nobody]
  /\ lock' = Nobody /\ seen' = [t \in Thread |-> <<>>]
  /\ Modules' = <<>> /\ ModuleMaps' = {}
  /\ stage' = "initialize" /\ at' = 1 /\ changed' = FALSE

LoaderNext ==
  \/ \E t \in Thread : Load(t)
  \/ LoadStaticData \/ Callback \/ EndStage \/ Leave \/ Launch
LoaderSpec == LoaderInit /\ [][LoaderNext]_loaderVars

-----------------------------------------------------------------------------
\* Whatever the threads do, when the passes start the list holds every file that can
\* be read, once, and ModuleMaps knows it.
LoadedOnce ==
  step # "load" =>
    /\ {Modules[i] : i \in DOMAIN Modules} = Readable
    /\ \A i, j \in DOMAIN Modules : Modules[i] = Modules[j] => i = j
    /\ ModuleMaps = Readable
=============================================================================
