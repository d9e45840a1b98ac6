------------------------------ MODULE Database ------------------------------
(***************************************************************************)
(* update_database: the three tables of results are dropped, created and   *)
(* filled, one after the other, in batches.  The database is external: a   *)
(* query fails or takes effect as a whole.                                 *)
(*                                                                         *)
(* A row is a call's or a function's, with the columns that relate the     *)
(* tables; the others are that call's or function's.  It also has the      *)
(* number of the run that inserted it, which the program does not store.   *)
(***************************************************************************)
EXTENDS Symbols, Sequences, SequencesExt, FiniteSetsExt

CONSTANTS
  str_hash, Width,  \* the hash of a name; sums of hashes are modulo Width
  batch_size,
  MaxFailures       \* bound: the queries that fail

ASSUME DatabaseAssumption ==
  str_hash \in [Names -> 0..(Width - 1)] /\ batch_size \in Nat \ {0} /\ MaxFailures \in Nat

Tables == <<"icall_target_table", "caller_table", "func_table">>
Absent == [exists |-> FALSE, rows |-> <<>>]
Created == [exists |-> TRUE, rows |-> <<>>]

VARIABLES
  database,       \* the tables, which outlive a run
  query, table,   \* what update_database does next, to which table
  cmds,           \* the statements still to be executed
  run, failures   \* the run of the program; for each query that failed, its run

databaseVars == <<database, query, table, cmds, failures, run>>

DatabaseTypeOK ==
  /\ DOMAIN database = 1..3 /\ \A t \in 1..3 : database[t].exists \/ database[t] = Absent
  /\ query \in {"connect", "drop", "create", "build", "insert", "closed", "aborted"}
  /\ table \in 1..3 /\ Len(failures) <= MaxFailures /\ ToSet(failures) \subseteq 1..run
  /\ \A i \in DOMAIN cmds : cmds[i] # <<>> /\ Len(cmds[i]) <= batch_size

DatabaseInit ==
  /\ database = [t \in 1..3 |-> Absent]
  /\ query = "connect" /\ table = 1 /\ cmds = <<>> /\ failures = <<>> /\ run = 1

-----------------------------------------------------------------------------
(* The statements. *)

funcSetHash(fset) == MapThenSumSet(LAMBDA f : str_hash[name[f]], fset) % Width

\* The calls whose set is put in caller_table: the first of each hash with targets.
Kept ==
  {c \in DOMAIN ICallees :
     /\ ICallees[c] # {}
     /\ c = CHOOSE d \in DOMAIN ICallees :
              ICallees[d] # {} /\ funcSetHash(ICallees[d]) = funcSetHash(ICallees[c])}

icallRows == {<<c, Cardinality(ICallees[c]), funcSetHash(ICallees[c])>> : c \in DOMAIN ICallees}
callerRows == UNION {{funcSetHash(ICallees[c])} \X ICallees[c] : c \in Kept}
funcRows == {<<f, Cardinality({c \in DOMAIN ICallees : f \in ICallees[c]})>> : f \in Global_AddressTaken_Func_Set}

\* Not what the code does: the sets with a hash seen before are counted too.
CountedTwice(t) ==
  IF t = 2 THEN MapThenSumSet(LAMBDA c : Cardinality(ICallees[c]), DOMAIN ICallees)
  ELSE Cardinality(IF t = 1 THEN icallRows ELSE funcRows)

Rows(t) == CASE t = 1 -> icallRows [] t = 2 -> callerRows [] t = 3 -> funcRows
\* The number of rows, computed beforehand to know the last.
icallnum(t) == Cardinality(Rows(t))

\* Not what the code does: a statement gets one row too many.
BatchTooLong(acc, row) ==
  LET insertss == Append(acc.insertss, row) IN
  IF Len(insertss) > batch_size \/ acc.icallid = icallnum(table)
  THEN [cmds |-> Append(acc.cmds, insertss), insertss |-> <<>>, icallid |-> acc.icallid + 1]
  ELSE [acc EXCEPT !.insertss = insertss, !.icallid = @ + 1]

\* A statement ends after batch_size rows, or at the last of them all.
Batch(acc, row) ==
  LET insertss == Append(acc.insertss, row) IN
  IF Len(insertss) >= batch_size \/ acc.icallid = icallnum(table)
  THEN [cmds |-> Append(acc.cmds, insertss), insertss |-> <<>>, icallid |-> acc.icallid + 1]
  ELSE [acc EXCEPT !.insertss = insertss, !.icallid = @ + 1]
build_insert_batch ==
  FoldLeft(Batch, [cmds |-> <<>>, insertss |-> <<>>, icallid |-> 1], SetToSeq(Rows(table))).cmds

-----------------------------------------------------------------------------
(* The queries. *)

Fails == Len(failures) < MaxFailures /\ failures' = Append(failures, run)
Works == UNCHANGED failures

\* Not what the code does: a failure is reported and the next query follows.
CarryOn == query' = [connect |-> "drop", drop |-> "create", create |-> "build"][query]
\* A failure to connect, drop or create is reported and ends the update.
Abort == query' = "aborted"

Connect ==
  /\ query = "connect"
  /\ (Fails /\ Abort) \/ (Works /\ query' = "drop")
  /\ UNCHANGED <<database, table, cmds, run>>

Drop ==
  /\ query = "drop"
  /\ \/ Fails /\ Abort /\ UNCHANGED database
     \/ Works /\ query' = "create" /\ database' = [database EXCEPT ![table] = Absent]
  /\ UNCHANGED <<table, cmds, run>>

\* A table that exists cannot be created.
Create ==
  /\ query = "create"
  /\ \/ Fails /\ Abort /\ UNCHANGED database
     \/ Works /\ IF database[table].exists THEN Abort /\ UNCHANGED database
                 ELSE query' = "build" /\ database' = [database EXCEPT ![table] = Created]
  /\ UNCHANGED <<table, cmds, run>>

Build ==
  /\ query = "build"
  /\ query' = "insert" /\ cmds' = build_insert_batch
  /\ UNCHANGED <<database, table, failures, run>>

Tagged(cmd) == [i \in DOMAIN cmd |-> <<run, cmd[i]>>]

\* A statement that fails is reported, and the next is executed.
Insert ==
  /\ query = "insert" /\ cmds # <<>>
  /\ \/ Fails /\ UNCHANGED database
     \/ Works /\ database' = [database EXCEPT ![table].rows = @ \o Tagged(Head(cmds))]
  /\ cmds' = Tail(cmds)
  /\ UNCHANGED <<query, table, run>>

NextTable ==
  /\ query = "insert" /\ cmds = <<>>
  /\ IF table = Len(Tables) THEN query' = "closed" /\ UNCHANGED table
     ELSE query' = "drop" /\ table' = table + 1
  /\ UNCHANGED <<database, cmds, failures, run>>

update_database == Connect \/ Drop \/ Create \/ Build \/ Insert \/ NextTable

-----------------------------------------------------------------------------
RowsOf(t) == {e[2] : e \in ToSet(database[t].rows)}
WrittenBy(t) == {e[1] : e \in ToSet(database[t].rows)}

\* Whatever fails and is run again, a table has the rows of one run only, and no table
\* is newer than one that is replaced before it.
TablesOfOneRun ==
  \A t, u \in 1..3 : \A m \in WrittenBy(t), n \in WrittenBy(u) : t <= u => m >= n /\ (t = u => m = n)
=============================================================================
