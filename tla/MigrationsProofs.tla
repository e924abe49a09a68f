-------------------------- MODULE MigrationsProofs --------------------------
(***************************************************************************)
(* Proofs about concurrent migrations, for any number of processes, any    *)
(* builds and any number of crashes.                                       *)
(***************************************************************************)
EXTENDS Migrations, FiniteSetTheorems, WellFoundedInduction, TLAPS

Outside == {"start", "failed", "done"}
InLoop == {"select", "execute", "insert"}

(* Where a process is in its list of files: inside the loop there is a     *)
(* file at hand, at the end there is none left, and outside a transaction  *)
(* nothing was executed; only a statement that creates something waits.    *)
PositionOK ==
  \A p \in Processes :
    /\ pc[p] \in InLoop => next[p] <= Len(Listing[p])
    /\ pc[p] = "commit" => next[p] = Len(Listing[p]) + 1
    /\ pc[p] = "create_table" => next[p] = 1 /\ created[p] = {}
    /\ pc[p] \in Outside => executed[p] = {}
    /\ waiting[p] => pc[p] \in Creating

(* No object is created twice, by two transactions or after it was         *)
(* committed.                                                              *)
CreatedOnce ==
  \A p \in Processes :
    /\ created[p] \cap committed = {}
    /\ \A q \in Processes \ {p} : created[p] \cap created[q] = {}

(* The file whose SQL a process has run and whose row it has not inserted. *)
Inserting(p, f) == pc[p] = "insert" /\ next[p] = f

(* What an open transaction has created: the tables of the files it has    *)
(* executed, and the rows of those but the one it is about to insert.  It  *)
(* finds the tables of a file already there only between its own SELECT    *)
(* and its INSERT.                                                         *)
TransactionOK ==
  \A p \in Processes : \A f \in Files :
    /\ Schema(f) \in created[p] => f \in executed[p]
    /\ f \in executed[p] =>
         \/ Schema(f) \in created[p]
         \/ Schema(f) \in committed /\ Inserting(p, f)
    /\ Row(f) \in created[p] <=> Schema(f) \in created[p] /\ ~Inserting(p, f)
    /\ Inserting(p, f) => f \in executed[p]
    /\ f \in executed[p] => f < next[p] \/ Inserting(p, f)

(* The files that a process has behind it are recorded, by others or by    *)
(* itself.                                                                 *)
BehindIsRecorded ==
  \A p \in Processes : \A f \in FilesOf(p) :
    /\ pc[p] \in InLoop \cup {"commit"} /\ f < next[p] => Visible(p, Row(f))
    /\ pc[p] = "done" => Row(f) \in committed

MigrationsInv ==
  /\ TypeOK /\ PositionOK /\ CreatedOnce /\ TransactionOK /\ BehindIsRecorded
  /\ AppliedOnce /\ WholeBuilds

-----------------------------------------------------------------------------
(* The numbers of a build's files.                                         *)
LEMMA FileNumbers ==
  ASSUME NEW p \in Processes
  PROVE  /\ Len(Listing[p]) \in Nat
         /\ FilesOf(p) = 1 .. Len(Listing[p])
         /\ FilesOf(p) \subseteq Files
  <1>1. Listing[p] \in Seq(Nat) /\ FilesOf(p) = 1 .. Len(Listing[p])
    BY MigrationsAssumption
  <1>2. FilesOf(p) \subseteq Files
    BY DEF Files
  <1>3. QED
    BY <1>1, <1>2

(* sorted() puts the files in the order of their numbers, however the      *)
(* directory lists them.                                                   *)
LEMMA FilesAreSorted ==
  ASSUME NEW p \in Processes, NEW i \in 1 .. Len(Listing[p])
  PROVE  MigrationFiles(p)[i] = i
  <1> DEFINE n == Len(Listing[p])
             UpTo(f) == {g \in FilesOf(p) : g <= f}
  <1>1. n \in Nat /\ FilesOf(p) = 1 .. n
    BY FileNumbers
  <1>2. ASSUME NEW f \in 1 .. n
        PROVE  Cardinality(UpTo(f)) = f
    <2>1. UpTo(f) = 1 .. f
      BY <1>1
    <2>2. Cardinality(1 .. f) = f
      BY <1>1, FS_Interval
    <2>3. QED
      BY <2>1, <2>2
  <1> HIDE DEF UpTo
  <1>3. MigrationFiles(p)[i] = CHOOSE f \in FilesOf(p) : Cardinality(UpTo(f)) = i
    BY DEF MigrationFiles, UpTo
  <1>4. i \in FilesOf(p) /\ Cardinality(UpTo(i)) = i
    BY <1>1, <1>2
  <1>5. PICK c : c = CHOOSE f \in FilesOf(p) : Cardinality(UpTo(f)) = i
    OBVIOUS
  <1>6. c \in FilesOf(p) /\ Cardinality(UpTo(c)) = i
    BY <1>4, <1>5
  <1>7. c = i
    BY <1>1, <1>2, <1>6
  <1>8. QED
    BY <1>3, <1>5, <1>7

(* The file that a process has at hand is the one its position says.       *)
LEMMA FileAtHand ==
  ASSUME TypeOK, PositionOK, NEW p \in Processes, pc[p] \in InLoop
  PROVE  File(p) = next[p] /\ next[p] \in FilesOf(p) /\ next[p] \in Files
  <1>1. next[p] \in 1 .. Len(Listing[p]) + 1 /\ next[p] <= Len(Listing[p])
    BY DEF TypeOK, PositionOK
  <1>2. next[p] \in 1 .. Len(Listing[p])
    BY <1>1, FileNumbers
  <1>3. QED
    BY <1>2, FilesAreSorted, FileNumbers DEF File

(* schema_migrations, the tables of a file and the row of a file are       *)
(* different things.                                                       *)
LEMMA ObjectsDiffer ==
  ASSUME NEW f, NEW g
  PROVE  /\ Schema(f) # Row(g) /\ Schema(f) # Table /\ Row(f) # Table
         /\ Schema(f) = Schema(g) => f = g
         /\ Row(f) = Row(g) => f = g
  BY DEF Schema, Row, Table

(* The object that a statement of p creates.                               *)
LEMMA Targets ==
  ASSUME TypeOK, PositionOK, NEW p \in Processes
  PROVE  /\ pc[p] = "create_table" => Target(p) = Table
         /\ pc[p] = "execute" => Target(p) = Schema(next[p])
         /\ pc[p] = "insert" => Target(p) = Row(next[p])
         /\ pc[p] \in Creating => Target(p) \in Objects
  <1>1. pc[p] = "create_table" => Target(p) = Table
    BY DEF Target
  <1>2. pc[p] = "execute" => Target(p) = Schema(next[p]) /\ next[p] \in Files
    BY FileAtHand DEF Target, InLoop
  <1>3. pc[p] = "insert" => Target(p) = Row(next[p]) /\ next[p] \in Files
    BY FileAtHand DEF Target, InLoop
  <1>4. QED
    BY <1>1, <1>2, <1>3 DEF Creating, Objects

(* The database starts empty and nobody has begun.                         *)
LEMMA MigrationsInitInv == Init => MigrationsInv
  <1> SUFFICES ASSUME Init PROVE MigrationsInv
    OBVIOUS
  <1> USE DEF Init
  <1>1. TypeOK
    BY MigrationsAssumption, FileNumbers DEF TypeOK
  <1>2. PositionOK
    BY DEF PositionOK, InLoop, Outside, Creating
  <1>3. CreatedOnce
    BY DEF CreatedOnce
  <1>4. TransactionOK /\ BehindIsRecorded
    BY DEF TransactionOK, BehindIsRecorded, Inserting, InLoop
  <1>5. AppliedOnce /\ WholeBuilds
    BY DEF AppliedOnce, WholeBuilds, Recorded
  <1>6. QED
    BY <1>1, <1>2, <1>3, <1>4, <1>5 DEF MigrationsInv

-----------------------------------------------------------------------------
(* A statement creates its object or finds it, and concerns its own        *)
(* transaction only.                                                       *)
LEMMA StatementEffect ==
  ASSUME TypeOK, NEW p \in Processes, Target(p) \in Objects,
         Creates(p) \/ Exists(p)
  PROVE  /\ created' \in [Processes -> SUBSET Objects]
         /\ waiting' \in [Processes -> BOOLEAN]
         /\ ~waiting'[p]
         /\ \A q \in Processes \ {p} :
              created'[q] = created[q] /\ waiting'[q] = waiting[q]
  <1>1. created \in [Processes -> SUBSET Objects] /\ waiting \in [Processes -> BOOLEAN]
    BY DEF TypeOK
  <1>2. CASE Creates(p)
    <2>1. /\ created' = [created EXCEPT ![p] = @ \cup {Target(p)}]
          /\ waiting' = [waiting EXCEPT ![p] = FALSE]
      BY <1>2 DEF Creates
    <2>2. QED
      BY <1>1, <2>1
  <1>3. CASE Exists(p)
    BY <1>1, <1>3 DEF Exists
  <1>4. QED
    BY <1>2, <1>3

(* Types and positions.                                                    *)
LEMMA MigrationsStepTypes ==
  MigrationsInv /\ [Next]_vars => TypeOK' /\ PositionOK'
  <1> SUFFICES ASSUME MigrationsInv, [Next]_vars
               PROVE  TypeOK' /\ PositionOK'
    OBVIOUS
  <1>1. TypeOK /\ PositionOK /\ MaxFaults \in Nat
    BY MigrationsAssumption DEF MigrationsInv
  <1>2. \A p \in Processes :
          Len(Listing[p]) \in Nat /\ FilesOf(p) = 1 .. Len(Listing[p])
            /\ FilesOf(p) \subseteq Files
    BY FileNumbers
  <1> USE <1>1, <1>2
      DEF TypeOK, PositionOK, Creating, InLoop, Outside, Goto, LoopAt, NextFile
  <1>3. ASSUME NEW p \in Processes, Connect(p)
        PROVE  TypeOK' /\ PositionOK'
    BY <1>3 DEF Connect
  <1>4. ASSUME NEW p \in Processes, CreateTable(p)
        PROVE  TypeOK' /\ PositionOK'
    <2>1. Target(p) \in Objects
      BY <1>4, Targets DEF CreateTable
    <2>2. TypeOK'
      <3>1. /\ created' \in [Processes -> SUBSET Objects]
            /\ waiting' \in [Processes -> BOOLEAN]
            /\ \A q \in Processes \ {p} :
                 created'[q] = created[q] /\ waiting'[q] = waiting[q]
        BY <1>4, <2>1, StatementEffect DEF CreateTable
      <3>2. PICK l \in {"select", "commit"} : pc' = [pc EXCEPT ![p] = l]
        BY <1>4 DEF CreateTable
      <3>3. UNCHANGED <<committed, next, executed, applied, faults>>
        BY <1>4 DEF CreateTable
      <3>4. pc' \in [Processes -> Creating \cup {"start", "select", "commit",
                                              "failed", "done"}]
        BY <3>2
      <3>5. \A q \in Processes : pc'[q] \in Outside =>
                                  created'[q] = {} /\ ~waiting'[q]
        BY <3>1, <3>2
      <3>6. QED
        BY <3>1, <3>3, <3>4, <3>5
    <2>3. PositionOK'
      BY <1>4 DEF CreateTable, Creates, Exists
    <2>4. QED
      BY <2>2, <2>3
  <1>5. ASSUME NEW p \in Processes, Select(p)
        PROVE  TypeOK' /\ PositionOK'
    <2>1. CASE Visible(p, Row(File(p)))
      <3>1. next' = [next EXCEPT ![p] = next[p] + 1]
        BY <1>5, <2>1 DEF Select
      <3>2. next[p] + 1 \in 1 .. Len(Listing[p]) + 1
        BY <1>5 DEF Select
      <3>3. \/ pc' = [pc EXCEPT ![p] = "select"] /\ next[p] + 1 <= Len(Listing[p])
            \/ pc' = [pc EXCEPT ![p] = "commit"] /\ next[p] = Len(Listing[p])
        BY <1>5, <2>1, <3>2 DEF Select
      <3>4. TypeOK'
        <4>1. pc' \in [Processes -> Creating \cup {"start", "select", "commit",
                                                "failed", "done"}]
          BY <3>3
        <4>2. next' \in [Processes -> Nat]
                /\ \A q \in Processes : next'[q] \in 1 .. Len(Listing[q]) + 1
          BY <3>1, <3>2
        <4>3. \A q \in Processes : pc'[q] \in Outside => pc[q] \in Outside
          BY <3>3
        <4>4. UNCHANGED <<committed, created, waiting, executed, applied, faults>>
          BY <1>5 DEF Select
        <4>5. QED
          BY <4>1, <4>2, <4>3, <4>4
      <3>5. PositionOK'
        BY <1>5, <3>1, <3>2, <3>3 DEF Select
      <3>6. QED
        BY <3>4, <3>5
    <2>2. CASE ~Visible(p, Row(File(p)))
      <3>1. /\ pc' = [pc EXCEPT ![p] = "execute"] /\ pc[p] = "select"
            /\ UNCHANGED <<committed, created, waiting, next, executed, applied,
                           faults>>
        BY <1>5, <2>2 DEF Select
      <3>2. TypeOK'
        BY <3>1
      <3>3. PositionOK'
        BY <3>1
      <3>4. QED
        BY <3>2, <3>3
    <2>3. QED
      BY <2>1, <2>2
  <1>6. ASSUME NEW p \in Processes, ExecuteSql(p)
        PROVE  TypeOK' /\ PositionOK'
    <2>1. Target(p) \in Objects /\ File(p) \in FilesOf(p) /\ File(p) \in Files
      BY <1>6, Targets, FileAtHand DEF ExecuteSql
    <2>2. TypeOK'
      <3>1. /\ created' \in [Processes -> SUBSET Objects]
            /\ waiting' \in [Processes -> BOOLEAN]
            /\ \A q \in Processes \ {p} :
                 created'[q] = created[q] /\ waiting'[q] = waiting[q]
        BY <1>6, <2>1, StatementEffect DEF ExecuteSql
      <3>2. QED
        BY <1>6, <2>1, <3>1 DEF ExecuteSql
    <2>3. PositionOK'
      BY <1>6 DEF ExecuteSql, Creates, Exists
    <2>4. QED
      BY <2>2, <2>3
  <1>7. ASSUME NEW p \in Processes, InsertVersion(p)
        PROVE  TypeOK' /\ PositionOK'
    BY <1>7, Targets DEF InsertVersion, Creates
  <1>8. ASSUME NEW p \in Processes, Wait(p)
        PROVE  TypeOK' /\ PositionOK'
    BY <1>8 DEF Wait
  <1>9. ASSUME NEW p \in Processes, Refused(p)
        PROVE  TypeOK' /\ PositionOK'
    BY <1>9 DEF Refused, Rollback
  <1>10. ASSUME NEW p \in Processes, Commit(p)
         PROVE  TypeOK' /\ PositionOK'
    <2>1. committed' \subseteq Objects /\ applied' \in [Files -> Nat]
      BY <1>10 DEF Commit, Publish
    <2>2. TypeOK'
      BY <1>10, <2>1 DEF Commit
    <2>3. PositionOK'
      BY <1>10 DEF Commit
    <2>4. QED
      BY <2>2, <2>3
  <1>11. ASSUME NEW p \in Processes, Crash(p)
         PROVE  TypeOK' /\ PositionOK'
    <2>1. committed' \subseteq Objects /\ applied' \in [Files -> Nat]
      <3>1. CASE Publish(p)
        BY <3>1 DEF Publish
      <3>2. QED
        BY <1>11, <3>1 DEF Crash
    <2>2. TypeOK'
      BY <1>11, <2>1 DEF Crash, Rollback
    <2>3. PositionOK'
      BY <1>11 DEF Crash, Rollback
    <2>4. QED
      BY <2>2, <2>3
  <1>12. CASE UNCHANGED vars
    BY <1>12 DEF vars
  <1> HIDE DEF TypeOK, PositionOK
  <1>13. QED
    BY <1>3, <1>4, <1>5, <1>6, <1>7, <1>8, <1>9, <1>10, <1>11, <1>12
       DEF Next, Statement

(* Two transactions never create the same thing: the second one waits, and *)
(* what it then finds committed it cannot create any more.                 *)
LEMMA MigrationsStepCreatedOnce ==
  MigrationsInv /\ [Next]_vars => CreatedOnce'
  <1> SUFFICES ASSUME MigrationsInv, [Next]_vars
               PROVE  CreatedOnce'
    OBVIOUS
  <1>1. created \in [Processes -> SUBSET Objects] /\ CreatedOnce
    BY DEF MigrationsInv, TypeOK
  <1> USE <1>1 DEF CreatedOnce
  <1>2. ASSUME NEW p \in Processes, Creates(p), UNCHANGED committed
        PROVE  CreatedOnce'
    BY <1>2 DEF Creates, Visible, Contended
  <1>3. ASSUME NEW p \in Processes, created' = [created EXCEPT ![p] = {}],
               committed' = committed \/ committed' = committed \cup created[p]
        PROVE  CreatedOnce'
    BY <1>3
  <1>4. ASSUME UNCHANGED <<created, committed>>
        PROVE  CreatedOnce'
    BY <1>4
  <1> HIDE DEF CreatedOnce
  <1>5. QED
    BY <1>2, <1>3, <1>4
       DEF Next, Statement, vars, Connect, CreateTable, Exists, Select,
           ExecuteSql, InsertVersion, Wait, Refused, Rollback, Commit, Publish,
           Crash

(* A transaction holds whole files, but for the one it is working on.      *)
LEMMA MigrationsStepTransaction ==
  MigrationsInv /\ [Next]_vars => TransactionOK'
  <1> SUFFICES ASSUME MigrationsInv, [Next]_vars
               PROVE  TransactionOK'
    OBVIOUS
  <1>1. /\ TypeOK /\ PositionOK /\ TransactionOK /\ CreatedOnce
        /\ \A f \in Files : Row(f) \in committed <=> Schema(f) \in committed
    BY DEF MigrationsInv, AppliedOnce, Recorded
  <1>2. /\ created \in [Processes -> SUBSET Objects]
        /\ executed \in [Processes -> SUBSET Files]
        /\ next \in [Processes -> Nat]
        /\ pc \in [Processes -> Creating \cup {"start", "select", "commit",
                                               "failed", "done"}]
    BY <1>1 DEF TypeOK
  <1>3. Files \subseteq Nat
    BY FileNumbers DEF Files
  <1> USE <1>2, <1>3 DEF TransactionOK, Inserting, Goto
  (* Every step is taken by one process, and shows the others nothing but  *)
  (* new committed objects.                                                *)
  <1>4. ASSUME NEW p \in Processes, committed \subseteq committed',
               \A q \in Processes \ {p} :
                 /\ created'[q] = created[q] /\ executed'[q] = executed[q]
                 /\ pc'[q] = pc[q] /\ next'[q] = next[q],
               \A f \in Files :
                 /\ Schema(f) \in created'[p] => f \in executed'[p]
                 /\ f \in executed'[p] =>
                      \/ Schema(f) \in created'[p]
                      \/ Schema(f) \in committed' /\ Inserting(p, f)'
                 /\ Row(f) \in created'[p] <=> Schema(f) \in created'[p] /\ ~Inserting(p, f)'
                 /\ Inserting(p, f)' => f \in executed'[p]
                 /\ f \in executed'[p] => f < next'[p] \/ Inserting(p, f)'
        PROVE  TransactionOK'
    BY <1>1, <1>4
  <1>5. ASSUME NEW p \in Processes, created'[p] = {}, executed'[p] = {},
               pc'[p] # "insert", committed \subseteq committed',
               \A q \in Processes \ {p} :
                 /\ created'[q] = created[q] /\ executed'[q] = executed[q]
                 /\ pc'[q] = pc[q] /\ next'[q] = next[q]
        PROVE  TransactionOK'
    BY <1>4, <1>5
  <1>6. ASSUME NEW p \in Processes, Connect(p)
        PROVE  TransactionOK'
    <2>1. created[p] = {} /\ executed[p] = {}
      BY <1>1, <1>6 DEF Connect, TypeOK, PositionOK, Outside
    <2>2. QED
      BY <1>5, <1>6, <2>1 DEF Connect
  <1>7. ASSUME NEW p \in Processes, CreateTable(p)
        PROVE  TransactionOK'
    <2>1. PICK l \in {"select", "commit"} : pc' = [pc EXCEPT ![p] = l]
      BY <1>7 DEF CreateTable, LoopAt
    <2>2. \A f \in Files : /\ Schema(f) \in created'[p] <=> Schema(f) \in created[p]
                           /\ Row(f) \in created'[p] <=> Row(f) \in created[p]
      BY <1>1, <1>7, Targets, ObjectsDiffer DEF CreateTable, Creates, Exists
    <2>3. \A q \in Processes \ {p} : created'[q] = created[q]
      BY <1>7 DEF CreateTable, Creates, Exists
    <2>4. QED
      BY <1>1, <1>4, <1>7, <2>1, <2>2, <2>3 DEF CreateTable
  <1>8. ASSUME NEW p \in Processes, Select(p)
        PROVE  TransactionOK'
    <2>1. /\ pc[p] = "select" /\ UNCHANGED <<committed, created, executed>>
          /\ \A q \in Processes \ {p} : pc'[q] = pc[q] /\ next'[q] = next[q]
      BY <1>8 DEF Select, NextFile, LoopAt
    <2>2. pc'[p] # "insert" /\ next'[p] \in Nat /\ next[p] <= next'[p]
      BY <1>8 DEF Select, NextFile, LoopAt
    <2>3. \A f \in Files :
            /\ f \in executed[p] => f < next'[p]
            /\ Schema(f) \in created[p] <=> f \in executed[p]
            /\ Row(f) \in created[p] <=> Schema(f) \in created[p]
      <3>1. \A f \in Files :
              /\ f \in executed[p] => f < next[p]
              /\ Schema(f) \in created[p] <=> f \in executed[p]
              /\ Row(f) \in created[p] <=> Schema(f) \in created[p]
        BY <1>1, <2>1
      <3>2. ASSUME NEW f \in Files, f < next[p]
            PROVE  f < next'[p]
        <4>1. f \in Nat /\ next[p] \in Nat
          OBVIOUS
        <4>2. QED
          BY <2>2, <3>2, <4>1
      <3>3. QED
        BY <3>1, <3>2
    <2>4. \A f \in Files : ~Inserting(p, f)'
      BY <2>2
    <2>5. QED
      BY <1>4, <2>1, <2>3, <2>4
  <1>9. ASSUME NEW p \in Processes, ExecuteSql(p)
        PROVE  TransactionOK'
    <2> DEFINE n == next[p]
    <2>1. /\ pc[p] = "execute" /\ n \in Files /\ File(p) = n
          /\ Target(p) = Schema(n)
      BY <1>1, <1>9, FileAtHand, Targets DEF ExecuteSql, InLoop
    <2>2. /\ executed' = [executed EXCEPT ![p] = @ \cup {n}]
          /\ pc' = [pc EXCEPT ![p] = "insert"]
          /\ UNCHANGED <<committed, next>>
      BY <1>9, <2>1 DEF ExecuteSql
    <2>3. n \notin executed[p] /\ Schema(n) \notin created[p] /\ Row(n) \notin created[p]
      BY <1>1, <2>1
    <2>4. \/ created' = [created EXCEPT ![p] = @ \cup {Schema(n)}]
          \/ UNCHANGED created /\ Schema(n) \in committed
      BY <1>9, <2>1, <2>3 DEF ExecuteSql, Creates, Exists, Visible
    <2>5. \A f \in Files : /\ Row(f) \in created'[p] <=> Row(f) \in created[p]
                           /\ f # n => (Schema(f) \in created'[p] <=> Schema(f) \in created[p])
      BY <2>4, ObjectsDiffer
    <2>6. QED
      BY <1>1, <1>4, <2>1, <2>2, <2>3, <2>4, <2>5
  <1>10. ASSUME NEW p \in Processes, InsertVersion(p)
         PROVE  TransactionOK'
    <2> DEFINE n == next[p]
    <2>1. pc[p] = "insert" /\ n \in Files /\ Target(p) = Row(n)
      BY <1>1, <1>10, FileAtHand, Targets DEF InsertVersion, InLoop
    <2>2. /\ next' = [next EXCEPT ![p] = n + 1] /\ UNCHANGED <<committed, executed>>
          /\ created' = [created EXCEPT ![p] = @ \cup {Row(n)}]
          /\ Row(n) \notin committed
      BY <1>10, <2>1 DEF InsertVersion, NextFile, Creates, Visible
    <2>3. PICK l \in {"select", "commit"} : pc' = [pc EXCEPT ![p] = l]
      BY <1>10 DEF InsertVersion, NextFile, LoopAt
    <2>4. Schema(n) \in created[p] /\ n \in executed[p]
      BY <1>1, <2>1, <2>2
    <2>5. \A f \in Files : /\ Schema(f) \in created'[p] <=> Schema(f) \in created[p]
                           /\ f # n => (Row(f) \in created'[p] <=> Row(f) \in created[p])
      BY <2>2, ObjectsDiffer
    <2>6. QED
      BY <1>1, <1>4, <2>1, <2>2, <2>3, <2>4, <2>5
  <1>11. ASSUME NEW p \in Processes, Refused(p) \/ Commit(p) \/ Crash(p)
         PROVE  TransactionOK'
    <2>1. committed \subseteq committed' /\ UNCHANGED next
      BY <1>11 DEF Refused, Commit, Crash, Publish
    <2>2. /\ created' = [created EXCEPT ![p] = {}]
          /\ executed' = [executed EXCEPT ![p] = {}]
          /\ \E l \in {"failed", "done"} : pc' = [pc EXCEPT ![p] = l]
      BY <1>11 DEF Refused, Rollback, Commit, Crash
    <2>3. QED
      BY <1>5, <2>1, <2>2
  <1>12. ASSUME UNCHANGED <<committed, created, executed, pc, next>>
         PROVE  TransactionOK'
    BY <1>1, <1>12
  <1> HIDE DEF TransactionOK
  <1>13. QED
    BY <1>6, <1>7, <1>8, <1>9, <1>10, <1>11, <1>12
       DEF Next, Statement, Wait, vars

(* What is behind a process stays visible to it, and its transaction ends  *)
(* by making it visible to everybody.                                      *)
LEMMA MigrationsStepBehind ==
  MigrationsInv /\ [Next]_vars => BehindIsRecorded'
  <1> SUFFICES ASSUME MigrationsInv, [Next]_vars
               PROVE  BehindIsRecorded'
    OBVIOUS
  <1>1. /\ TypeOK /\ PositionOK /\ BehindIsRecorded
        /\ created \in [Processes -> SUBSET Objects]
        /\ next \in [Processes -> Nat]
        /\ pc \in [Processes -> Creating \cup {"start", "select", "commit",
                                               "failed", "done"}]
    BY DEF MigrationsInv, TypeOK
  <1>2. \A p \in Processes : FilesOf(p) = 1 .. Len(Listing[p])
                               /\ Len(Listing[p]) \in Nat
    BY FileNumbers
  <1> USE <1>1 DEF BehindIsRecorded, Visible, InLoop, Goto
  <1>3. ASSUME NEW p \in Processes, committed \subseteq committed',
               \A q \in Processes \ {p} :
                 created'[q] = created[q] /\ pc'[q] = pc[q] /\ next'[q] = next[q],
               \A f \in FilesOf(p) :
                 /\ pc'[p] \in InLoop \cup {"commit"} /\ f < next'[p] =>
                      Row(f) \in committed' \cup created'[p]
                 /\ pc'[p] = "done" => Row(f) \in committed'
        PROVE  BehindIsRecorded'
    BY <1>3
  <1>4. ASSUME NEW p \in Processes, Connect(p)
        PROVE  BehindIsRecorded'
    BY <1>3, <1>4 DEF Connect
  <1>5. ASSUME NEW p \in Processes, CreateTable(p)
        PROVE  BehindIsRecorded'
    <2>1. next[p] = 1 /\ UNCHANGED <<committed, next>>
      BY <1>5 DEF CreateTable, PositionOK
    <2>2. \E l \in {"select", "commit"} : pc' = [pc EXCEPT ![p] = l]
      BY <1>5 DEF CreateTable, LoopAt
    <2>3. \A q \in Processes \ {p} : created'[q] = created[q]
      BY <1>5 DEF CreateTable, Creates, Exists
    <2>4. \A f \in FilesOf(p) : ~(f < next'[p])
      BY <1>2, <2>1
    <2>5. QED
      BY <1>3, <2>1, <2>2, <2>3, <2>4
  <1>6. ASSUME NEW p \in Processes, Select(p)
        PROVE  BehindIsRecorded'
    <2>1. /\ pc[p] = "select" /\ UNCHANGED <<committed, created>>
          /\ \A q \in Processes \ {p} : pc'[q] = pc[q] /\ next'[q] = next[q]
          /\ pc'[p] # "done"
      BY <1>6 DEF Select, NextFile, LoopAt
    <2>2. \/ next'[p] = next[p]
          \/ next'[p] = next[p] + 1 /\ Visible(p, Row(next[p]))
      BY <1>6, FileAtHand DEF Select, NextFile
    <2>3. \A f \in FilesOf(p) : f < next'[p] => Row(f) \in committed \cup created[p]
      BY <1>2, <2>1, <2>2
    <2>4. QED
      BY <1>3, <2>1, <2>3
  <1>7. ASSUME NEW p \in Processes, ExecuteSql(p)
        PROVE  BehindIsRecorded'
    <2>1. /\ created[p] \subseteq created'[p]
          /\ \A q \in Processes \ {p} : created'[q] = created[q]
      BY <1>7 DEF ExecuteSql, Creates, Exists
    <2>2. QED
      BY <1>3, <1>7, <2>1 DEF ExecuteSql
  <1>8. ASSUME NEW p \in Processes, InsertVersion(p)
        PROVE  BehindIsRecorded'
    <2>1. Target(p) = Row(next[p])
      BY <1>8, Targets DEF InsertVersion
    <2>2. /\ created' = [created EXCEPT ![p] = @ \cup {Row(next[p])}]
          /\ next' = [next EXCEPT ![p] = next[p] + 1] /\ UNCHANGED committed
          /\ pc[p] = "insert"
      BY <1>8, <2>1 DEF InsertVersion, Creates, NextFile
    <2>3. \E l \in {"select", "commit"} : pc' = [pc EXCEPT ![p] = l]
      BY <1>8 DEF InsertVersion, NextFile, LoopAt
    <2>4. \A f \in FilesOf(p) : f < next'[p] => Row(f) \in committed \cup created'[p]
      BY <1>2, <2>2
    <2>5. QED
      BY <1>3, <2>2, <2>3, <2>4
  <1>9. ASSUME NEW p \in Processes, Refused(p) \/ Crash(p)
        PROVE  BehindIsRecorded'
    BY <1>3, <1>9 DEF Refused, Crash, Rollback, Publish
  <1>10. ASSUME NEW p \in Processes, Commit(p)
         PROVE  BehindIsRecorded'
    <2>1. \A f \in FilesOf(p) : f < next[p]
      BY <1>2, <1>10 DEF Commit, PositionOK
    <2>2. committed' = committed \cup created[p] /\ pc[p] = "commit"
      BY <1>10 DEF Commit, Publish
    <2>3. \A f \in FilesOf(p) : Row(f) \in committed'
      BY <2>1, <2>2
    <2>4. QED
      BY <1>3, <1>10, <2>2, <2>3 DEF Commit
  <1>11. ASSUME UNCHANGED <<committed, created, pc, next>>
         PROVE  BehindIsRecorded'
    BY <1>11
  <1> HIDE DEF BehindIsRecorded
  <1>12. QED
    BY <1>4, <1>5, <1>6, <1>7, <1>8, <1>9, <1>10, <1>11
       DEF Next, Statement, Wait, vars

(* A COMMIT adds the rest of the build's files, each of them once.         *)
LEMMA PublishAddsTheBuild ==
  ASSUME MigrationsInv, NEW p \in Processes, pc[p] = "commit", Publish(p)
  PROVE  AppliedOnce' /\ WholeBuilds'
  <1>1. /\ committed' = committed \cup created[p]
        /\ applied' = [f \in Files |-> IF f \in executed[p] THEN applied[f] + 1
                                       ELSE applied[f]]
    BY DEF Publish
  <1>2. \A f \in Files : /\ Schema(f) \in created[p] <=> f \in executed[p]
                         /\ Row(f) \in created[p] <=> f \in executed[p]
    BY DEF MigrationsInv, TransactionOK, Inserting
  <1>3. \A f \in Files : f \in executed[p] =>
                           Schema(f) \notin committed /\ Row(f) \notin committed
    BY <1>2 DEF MigrationsInv, CreatedOnce
  <1>4. \A f \in Files :
          /\ applied[f] = (IF Row(f) \in committed THEN 1 ELSE 0)
          /\ Row(f) \in committed <=> Schema(f) \in committed
    BY DEF MigrationsInv, AppliedOnce, Recorded
  <1>5. ASSUME NEW f \in Files
        PROVE  /\ applied'[f] = (IF Row(f) \in committed' THEN 1 ELSE 0)
               /\ Row(f) \in committed' <=> Schema(f) \in committed'
    <2>1. CASE f \in executed[p]
      BY <1>1, <1>2, <1>3, <1>4, <2>1
    <2>2. CASE f \notin executed[p]
      BY <1>1, <1>2, <1>4, <2>2
    <2>3. QED
      BY <2>1, <2>2
  <1>6. AppliedOnce'
    BY <1>5 DEF AppliedOnce, Recorded
  <1>7. Recorded' = Recorded \cup FilesOf(p)
    <2>1. executed[p] \subseteq FilesOf(p) /\ FilesOf(p) \subseteq Files
      BY FileNumbers DEF MigrationsInv, TypeOK
    <2>2. next[p] = Len(Listing[p]) + 1 /\ Len(Listing[p]) \in Nat
            /\ FilesOf(p) = 1 .. Len(Listing[p])
      BY FileNumbers DEF MigrationsInv, PositionOK
    <2>3. \A f \in FilesOf(p) : f < next[p]
      BY <2>2
    <2>4. \A f \in FilesOf(p) : Row(f) \in committed \cup created[p]
      BY <2>3 DEF MigrationsInv, BehindIsRecorded, Visible
    <2>5. QED
      BY <1>1, <1>2, <2>1, <2>4 DEF Recorded
  <1>8. WholeBuilds'
    <2>1. CASE Recorded = {}
      BY <1>7, <2>1 DEF WholeBuilds
    <2>2. CASE Recorded # {}
      <3>1. PICK q \in Processes : Recorded = FilesOf(q)
        BY <2>2 DEF MigrationsInv, WholeBuilds
      <3>2. FilesOf(p) \cup FilesOf(q) \in {FilesOf(p), FilesOf(q)}
        BY FileNumbers
      <3>3. QED
        BY <1>7, <3>1, <3>2 DEF WholeBuilds
    <2>3. QED
      BY <2>1, <2>2
  <1>9. QED
    BY <1>6, <1>8

(* Nothing but a COMMIT is seen by everybody.                              *)
LEMMA MigrationsStepApplied ==
  MigrationsInv /\ [Next]_vars => AppliedOnce' /\ WholeBuilds'
  <1> SUFFICES ASSUME MigrationsInv, [Next]_vars
               PROVE  AppliedOnce' /\ WholeBuilds'
    OBVIOUS
  <1>1. ASSUME UNCHANGED <<committed, applied>>
        PROVE  AppliedOnce' /\ WholeBuilds'
    BY <1>1 DEF MigrationsInv, AppliedOnce, WholeBuilds, Recorded
  <1>2. \/ UNCHANGED <<committed, applied>>
        \/ \E p \in Processes : pc[p] = "commit" /\ Publish(p)
    BY DEF Next, Statement, vars, Connect, CreateTable, Select, ExecuteSql,
           InsertVersion, Wait, Refused, Commit, Crash
  <1>3. QED
    BY <1>1, <1>2, PublishAddsTheBuild

(* The invariant is inductive.                                             *)
LEMMA MigrationsStepInv == MigrationsInv /\ [Next]_vars => MigrationsInv'
  BY MigrationsStepTypes, MigrationsStepCreatedOnce, MigrationsStepTransaction,
     MigrationsStepBehind, MigrationsStepApplied
     DEF MigrationsInv

-----------------------------------------------------------------------------
(* How far a process that is creating something has come.                  *)
Progress(p) ==
  CASE pc[p] = "create_table" -> 0
    [] pc[p] = "execute" -> 2 * next[p]
    [] pc[p] = "insert" -> 2 * next[p] + 1

(* A process is behind the one it waits for: that one has created what the *)
(* first is about to create.                                               *)
LEMMA WaitsForOneAhead ==
  ASSUME MigrationsInv, NEW p \in Processes, NEW q \in Processes,
         pc[p] \in Creating, pc[q] \in Creating, Target(p) \in created[q]
  PROVE  Progress(p) < Progress(q)
  <1>1. TypeOK /\ PositionOK /\ TransactionOK
    BY DEF MigrationsInv
  <1>2. next[p] \in Nat \ {0} /\ next[q] \in Nat \ {0}
    BY <1>1, FileNumbers DEF TypeOK
  <1>3. pc[q] # "create_table"
    BY <1>1 DEF PositionOK
  <1>4. CASE pc[p] = "create_table"
    BY <1>2, <1>3, <1>4 DEF Progress, Creating
  <1>5. CASE pc[p] = "execute"
    <2>1. next[p] \in Files /\ Schema(next[p]) \in created[q]
      BY <1>1, <1>5, FileAtHand, Targets DEF InLoop
    <2>2. next[p] < next[q] \/ Inserting(q, next[p])
      BY <1>1, <2>1 DEF TransactionOK
    <2>3. QED
      BY <1>2, <1>3, <1>5, <2>2 DEF Progress, Creating, Inserting
  <1>6. CASE pc[p] = "insert"
    <2>1. next[p] \in Files /\ Row(next[p]) \in created[q]
      BY <1>1, <1>6, FileAtHand, Targets DEF InLoop
    <2>2. next[p] < next[q]
      BY <1>1, <2>1 DEF TransactionOK
    <2>3. QED
      BY <1>2, <1>3, <1>6, <2>2 DEF Progress, Creating
  <1>7. QED
    BY <1>4, <1>5, <1>6 DEF Creating

(* Of processes that all wait for one another, the one that has come       *)
(* furthest would wait for one that has come further still.                *)
LEMMA NobodyWaitsInACircle == MigrationsInv => NoCircularWait
  <1> SUFFICES ASSUME MigrationsInv,
                      NEW ps \in SUBSET Processes, ps # {},
                      \A p \in ps : /\ waiting[p]
                                    /\ \E q \in ps \ {p} : Target(p) \in created[q]
               PROVE  FALSE
    BY DEF NoCircularWait
  <1>1. PICK top \in Processes : \A q \in Processes : FilesOf(q) \subseteq FilesOf(top)
    BY MigrationsAssumption
  <1> DEFINE m == Len(Listing[top])
             Left(p) == 2 * m + 1 - Progress(p)
             Lefts == {Left(p) : p \in ps}
  <1>2. \A p \in ps : p \in Processes /\ pc[p] \in Creating
    BY DEF MigrationsInv, PositionOK
  <1>3. m \in Nat
    BY FileNumbers
  <1>4. ASSUME NEW p \in ps
        PROVE  Progress(p) \in Nat /\ Left(p) \in Nat
    <2>1. CASE pc[p] = "create_table"
      BY <1>3, <2>1 DEF Progress
    <2>2. CASE pc[p] \in InLoop
      <3>1. next[p] \in FilesOf(p)
        BY <2>2, <1>2, FileAtHand DEF MigrationsInv
      <3>2. next[p] \in 1 .. m
        BY <3>1, <1>1, <1>2, FileNumbers
      <3>3. Progress(p) \in {2 * next[p], 2 * next[p] + 1}
        BY <1>2, <2>2 DEF Progress, InLoop, Creating
      <3>4. QED
        BY <1>3, <3>2, <3>3
    <2>3. QED
      BY <1>2, <2>1, <2>2 DEF Creating, InLoop
  <1> HIDE DEF Left
  <1>5. Lefts \subseteq Nat /\ Lefts # {}
    BY <1>4
  <1>6. PICK x \in Lefts : \A y \in Lefts : ~(<<y, x>> \in OpToRel(<, Nat))
    BY <1>5, NatLessThanWellFounded, WFMin
  <1>7. PICK p \in ps : x = Left(p)
    OBVIOUS
  <1>8. PICK q \in ps : Target(p) \in created[q]
    OBVIOUS
  <1>9. Progress(p) < Progress(q)
    BY <1>2, <1>8, WaitsForOneAhead
  <1>10. Left(q) < Left(p)
    <2>1. Progress(p) \in Nat /\ Progress(q) \in Nat
      BY <1>4
    <2>2. QED
      BY <1>3, <1>9, <2>1 DEF Left
  <1>11. <<Left(q), Left(p)>> \in OpToRel(<, Nat)
    BY <1>4, <1>10 DEF OpToRel
  <1>12. QED
    BY <1>6, <1>7, <1>11

-----------------------------------------------------------------------------
(* The runner keeps its state well typed.                                  *)
THEOREM MigrationsTypeCorrect == Spec => []TypeOK
  BY MigrationsInitInv, MigrationsStepInv, PTL DEF Spec, MigrationsInv

(* However many processes run migrate() at once or again and wherever they *)
(* die, a file takes effect at most once, together with its record.        *)
THEOREM MigrationsAppliedOnce == Spec => []AppliedOnce
  BY MigrationsInitInv, MigrationsStepInv, PTL DEF Spec, MigrationsInv

(* The database only ever shows the migrations of whole builds.            *)
THEOREM MigrationsWholeBuilds == Spec => []WholeBuilds
  BY MigrationsInitInv, MigrationsStepInv, PTL DEF Spec, MigrationsInv

(* A migrate() that returned left all the files of its build recorded.     *)
THEOREM MigrationsReturned == Spec => []ReturnedMeansMigrated
  <1>1. MigrationsInv => ReturnedMeansMigrated
    BY FileNumbers DEF MigrationsInv, BehindIsRecorded, ReturnedMeansMigrated, Recorded
  <1>2. QED
    BY <1>1, MigrationsInitInv, MigrationsStepInv, PTL DEF Spec

(* Processes never wait for each other's objects in a circle.              *)
THEOREM MigrationsNoCircularWait == Spec => []NoCircularWait
  BY NobodyWaitsInACircle, MigrationsInitInv, MigrationsStepInv, PTL DEF Spec

=============================================================================
