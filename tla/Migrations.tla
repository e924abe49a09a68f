----------------------------- MODULE Migrations -----------------------------
(***************************************************************************)
(* The migrations runner (sentinel/migrate.py) that every API container    *)
(* calls when it starts, so that several may run at once, from builds of   *)
(* different ages.  One call is one PostgreSQL transaction: the block      *)
(* "with psycopg.connect(...)" commits at its end and rolls back when      *)
(* anything raises or the process dies.                                    *)
(*                                                                         *)
(* PostgreSQL is external.  A statement sees what is committed and what    *)
(* its own transaction did.  Two transactions cannot create the same thing *)
(* (a table, or a row with a primary key): the second one waits, fails if  *)
(* the first commits and goes on if it rolls back.  This also holds for    *)
(* CREATE TABLE IF NOT EXISTS, which does nothing only if the table is     *)
(* already visible when the statement starts.                              *)
(***************************************************************************)
EXTENDS Naturals, Sequences, FiniteSets

CONSTANTS
  Processes,   \* containers and operators that run python -m sentinel.migrate
  Listing,     \* per process: the .sql files of its build, as iterdir() lists them
  MaxFaults    \* how many calls fail or processes die in a behaviour

(* A file is the number its name starts with; builds only add files, and   *)
(* one of them is the newest.                                              *)
FilesOf(p) == {Listing[p][i] : i \in 1 .. Len(Listing[p])}
Files == UNION {FilesOf(p) : p \in Processes}

ASSUME MigrationsAssumption ==
  /\ MaxFaults \in Nat
  /\ \A p \in Processes :
       Listing[p] \in Seq(Nat) /\ FilesOf(p) = 1 .. Len(Listing[p])
  /\ Processes # {} =>
       \E p \in Processes : \A q \in Processes : FilesOf(q) \subseteq FilesOf(p)

(* What the statements create: schema_migrations itself, the tables and    *)
(* indexes of a file, and the row that records the file.                   *)
Table == <<"schema_migrations", 0>>
Schema(f) == <<"schema", f>>
Row(f) == <<"row", f>>
Objects == {Table} \cup {Schema(f) : f \in Files} \cup {Row(f) : f \in Files}

(* 004_create_delivery_attempts.sql has a foreign key to the table of      *)
(* 003_create_remediation_jobs.sql.                                        *)
Needs(f) == IF f = 4 THEN {Schema(3)} ELSE {}

VARIABLES
  committed,  \* the objects that exist for everybody
  created,    \* per process: the objects its open transaction has created
  waiting,    \* per process: whether its statement waits for another's object
  pc,         \* the statement each process is about to run
  next,       \* the position in its list of files
  executed,   \* the files whose SQL its open transaction has run
  applied,    \* history: how many committed transactions ran the SQL of a file
  faults

vars == <<committed, created, waiting, pc, next, executed, applied, faults>>

Init ==
  /\ committed = {}
  /\ created = [p \in Processes |-> {}]
  /\ waiting = [p \in Processes |-> FALSE]
  /\ pc = [p \in Processes |-> "start"]
  /\ next = [p \in Processes |-> 1]
  /\ executed = [p \in Processes |-> {}]
  /\ applied = [f \in Files |-> 0]
  /\ faults = 0

-----------------------------------------------------------------------------
(* sorted(...): no two files have the same name, so the i-th one is the    *)
(* file that has i files, itself included, up to it.                       *)
MigrationFilesUnsorted(p) == Listing[p]
MigrationFiles(p) ==
  [i \in 1 .. Len(Listing[p]) |->
     CHOOSE f \in FilesOf(p) : Cardinality({g \in FilesOf(p) : g <= f}) = i]
File(p) == MigrationFiles(p)[next[p]]

Visible(p, o) == o \in committed \cup created[p]
Contended(p, o) == \E q \in Processes \ {p} : o \in created[q]

(* The object that the statement p is about to run creates.                *)
Target(p) ==
  CASE pc[p] = "create_table" -> Table
    [] pc[p] = "execute" -> Schema(File(p))
    [] pc[p] = "insert" -> Row(File(p))

Creating == {"create_table", "execute", "insert"}

(* The statement starts while another open transaction has created its     *)
(* object: it waits for the end of that transaction.                       *)
Wait(p) ==
  /\ pc[p] \in Creating /\ ~waiting[p]
  /\ ~Visible(p, Target(p)) /\ Contended(p, Target(p))
  /\ waiting' = [waiting EXCEPT ![p] = TRUE]
  /\ UNCHANGED <<committed, created, pc, next, executed, applied, faults>>

(* The statement creates its object, having waited or not.                 *)
Creates(p) ==
  /\ ~Visible(p, Target(p)) /\ ~Contended(p, Target(p))
  /\ created' = [created EXCEPT ![p] = @ \cup {Target(p)}]
  /\ waiting' = [waiting EXCEPT ![p] = FALSE]

(* IF NOT EXISTS: the object is there when the statement starts.           *)
Exists(p) == ~waiting[p] /\ Visible(p, Target(p)) /\ UNCHANGED <<created, waiting>>

(* The transaction is gone, and the exception ends the process.            *)
Rollback(p) ==
  /\ created' = [created EXCEPT ![p] = {}]
  /\ executed' = [executed EXCEPT ![p] = {}]
  /\ waiting' = [waiting EXCEPT ![p] = FALSE]
  /\ pc' = [pc EXCEPT ![p] = "failed"]

Goto(p, l) == pc' = [pc EXCEPT ![p] = l]

(* The loop goes on with the i-th file, or the transaction ends.           *)
LoopAt(p, i) == Goto(p, IF i <= Len(Listing[p]) THEN "select" ELSE "commit")
NextFile(p) ==
  /\ next' = [next EXCEPT ![p] = @ + 1]
  /\ LoopAt(p, next[p] + 1)

-----------------------------------------------------------------------------
(* migrate *)

Connect(p) ==
  /\ pc[p] \in {"start", "failed", "done"}
  /\ Goto(p, "create_table")
  /\ next' = [next EXCEPT ![p] = 1]
  /\ UNCHANGED <<committed, created, waiting, executed, applied, faults>>

CreateTable(p) ==
  /\ pc[p] = "create_table"
  /\ Creates(p) \/ Exists(p)
  /\ LoopAt(p, 1)
  /\ UNCHANGED <<committed, next, executed, applied, faults>>

SelectNothing(p) ==
  /\ pc[p] = "select"
  /\ Goto(p, "execute")
  /\ UNCHANGED <<committed, created, waiting, next, executed, applied, faults>>
Select(p) ==
  /\ pc[p] = "select"
  /\ IF Visible(p, Row(File(p)))
       THEN NextFile(p)
       ELSE Goto(p, "execute") /\ UNCHANGED next
  /\ UNCHANGED <<committed, created, waiting, executed, applied, faults>>

(* The connection is in autocommit mode.                                   *)
ExecuteSqlAutocommitted(p) ==
  /\ pc[p] = "execute"
  /\ \A o \in Needs(File(p)) : Visible(p, o)
  /\ ~Contended(p, Target(p))
  /\ committed' = committed \cup created[p] \cup {Target(p)}
  /\ created' = [created EXCEPT ![p] = {}]
  /\ waiting' = [waiting EXCEPT ![p] = FALSE]
  /\ executed' = [executed EXCEPT ![p] = @ \cup {File(p)}]
  /\ Goto(p, "insert")
  /\ UNCHANGED <<next, applied, faults>>
ExecuteSql(p) ==
  /\ pc[p] = "execute"
  /\ \A o \in Needs(File(p)) : Visible(p, o)
  /\ Creates(p) \/ Exists(p)
  /\ executed' = [executed EXCEPT ![p] = @ \cup {File(p)}]
  /\ Goto(p, "insert")
  /\ UNCHANGED <<committed, next, applied, faults>>

(* The connection commits after each file.                                 *)
InsertVersionAndCommit(p) ==
  /\ pc[p] = "insert"
  /\ ~Visible(p, Target(p)) /\ ~Contended(p, Target(p))
  /\ committed' = committed \cup created[p] \cup {Target(p)}
  /\ applied' = [applied EXCEPT ![File(p)] = @ + 1]
  /\ created' = [created EXCEPT ![p] = {}]
  /\ executed' = [executed EXCEPT ![p] = {}]
  /\ waiting' = [waiting EXCEPT ![p] = FALSE]
  /\ NextFile(p)
  /\ UNCHANGED faults
InsertVersion(p) ==
  /\ pc[p] = "insert"
  /\ Creates(p)
  /\ NextFile(p)
  /\ UNCHANGED <<committed, executed, applied, faults>>

(* PostgreSQL refuses the statement: another transaction has created its   *)
(* object in the meantime, the row exists, or a foreign key has no table.  *)
Refuses(p) ==
  \/ pc[p] \in Creating /\ waiting[p] /\ Visible(p, Target(p))
  \/ pc[p] = "insert" /\ Visible(p, Target(p))
  \/ pc[p] = "execute" /\ \E o \in Needs(File(p)) : ~Visible(p, o)
RefusedIgnored(p) ==
  /\ Refuses(p)
  /\ created' = [created EXCEPT ![p] = {}]
  /\ executed' = [executed EXCEPT ![p] = {}]
  /\ waiting' = [waiting EXCEPT ![p] = FALSE]
  /\ Goto(p, "done")
  /\ UNCHANGED <<committed, next, applied, faults>>
Refused(p) ==
  /\ Refuses(p)
  /\ Rollback(p)
  /\ UNCHANGED <<committed, next, applied, faults>>

(* The block ends: everything becomes visible at once.                     *)
Publish(p) ==
  /\ committed' = committed \cup created[p]
  /\ applied' = [f \in Files |-> IF f \in executed[p] THEN applied[f] + 1
                                 ELSE applied[f]]
Commit(p) ==
  /\ pc[p] = "commit"
  /\ Publish(p)
  /\ created' = [created EXCEPT ![p] = {}]
  /\ executed' = [executed EXCEPT ![p] = {}]
  /\ Goto(p, "done")
  /\ UNCHANGED <<waiting, next, faults>>

(* A statement fails, the connection is lost or the process dies; if that  *)
(* happens to the answer to COMMIT, the transaction is committed.          *)
Crash(p) ==
  /\ pc[p] \notin {"start", "failed", "done"}
  /\ faults < MaxFaults
  /\ faults' = faults + 1
  /\ \/ UNCHANGED <<committed, applied>>
     \/ pc[p] = "commit" /\ Publish(p)
  /\ Rollback(p)
  /\ UNCHANGED next

Statement(p) ==
  \/ CreateTable(p) \/ Select(p) \/ ExecuteSql(p) \/ InsertVersion(p)
  \/ Wait(p) \/ Refused(p) \/ Commit(p)

Next == \E p \in Processes : Connect(p) \/ Statement(p) \/ Crash(p)

Spec == Init /\ [][Next]_vars

(* A call that runs goes on, and a container whose command failed is       *)
(* started again until it succeeds.                                        *)
LiveSpec ==
  /\ Spec
  /\ \A p \in Processes : /\ WF_vars(Statement(p))
                          /\ WF_vars(pc[p] # "done" /\ Connect(p))

-----------------------------------------------------------------------------
(* Everything holds a value of its type, and outside its transaction a     *)
(* process has created nothing and waits for nothing.                      *)
TypeOK ==
  /\ committed \subseteq Objects
  /\ created \in [Processes -> SUBSET Objects]
  /\ waiting \in [Processes -> BOOLEAN]
  /\ pc \in [Processes -> Creating \cup {"start", "select", "commit", "failed",
                                         "done"}]
  /\ next \in [Processes -> Nat] /\ executed \in [Processes -> SUBSET Files]
  /\ \A p \in Processes :
       /\ next[p] \in 1 .. Len(Listing[p]) + 1
       /\ executed[p] \subseteq FilesOf(p)
       /\ pc[p] \in {"start", "failed", "done"} =>
            created[p] = {} /\ ~waiting[p]
  /\ applied \in [Files -> Nat]
  /\ faults \in 0 .. MaxFaults

Recorded == {f \in Files : Row(f) \in committed}

(* "Apply packaged SQL migrations exactly once": however many processes    *)
(* run at once or again, the SQL of a file takes effect in one committed   *)
(* transaction at most, and exactly when the file is recorded and its      *)
(* tables exist.                                                           *)
AppliedOnce ==
  \A f \in Files :
    /\ applied[f] = (IF f \in Recorded THEN 1 ELSE 0)
    /\ f \in Recorded <=> Schema(f) \in committed

(* Whatever fails on the way, the database never shows part of a build's   *)
(* migrations: the recorded files are those of some build, from the first  *)
(* to its last.                                                            *)
WholeBuilds ==
  Recorded # {} => \E p \in Processes : Recorded = FilesOf(p)

(* A migrate() that returned has all the files of its build behind it,     *)
(* also when another process applied them; uvicorn starts after it.        *)
ReturnedMeansMigrated ==
  \A p \in Processes : pc[p] = "done" => FilesOf(p) \subseteq Recorded

(* Processes that wait for each other's tables never do so in a circle,    *)
(* because all of them go through the files in the same order.             *)
NoCircularWait ==
  \A ps \in (SUBSET Processes) \ {{}} :
    \E p \in ps :
      ~(waiting[p] /\ \E q \in ps \ {p} : Target(p) \in created[q])

(* In the end every build's migrations are applied and its call returns,   *)
(* although processes die and concurrent ones make each other fail; so     *)
(* does every later call.                                                  *)
EventuallyMigrated == \A p \in Processes : []<>(pc[p] = "done")
=============================================================================
