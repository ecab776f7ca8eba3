-------------------------- MODULE MigrationProofs --------------------------
(***************************************************************************)
(* Theorems about Migration, for every number of files, every length and   *)
(* content of them, every choice of options, locks, faults and crashes.    *)
(***************************************************************************)
EXTENDS Migration, TLAPS

-----------------------------------------------------------------------------
(* Types.  TypeOK is not inductive: an invocation takes i as it finds it.  *)
Resting == pc = "idle" => i = 0

Typed == TypeOK /\ Resting

LEMMA NewDatabaseType == NewDatabase \in Images
  BY DEF NewDatabase, Images

LEMMA StatementType ==
  ASSUME NEW f \in Files, NEW j \in 1 .. Length[f]
  PROVE  <<f, j>> \in Objects
  <1>1. <<f, j>> \in Statements(f)
    BY DEF Statements
  <1> QED BY <1>1 DEF Objects

LEMMA NonEmptyFile == ASSUME NEW f \in Files PROVE <<f, 1>> \in Statements(f)
<1>1. Length[f] \in Nat \ {0}
  BY Contents
<1> QED BY <1>1 DEF Statements

LEMMA FileType == ASSUME TypeOK, i < n PROVE File \in Files
  BY FileCounts DEF TypeOK, File, Files

LEMMA ViewType == ASSUME TypeOK PROVE View \in Images
  BY DEF TypeOK, View

LEMMA PassOverType ==
  ASSUME TypeOK, NEW f \in 0 .. MaxFiles, PassOver(f)
  PROVE  /\ disk' = disk /\ pending' \in Images
         /\ txn' \in {"none", "open", "writing"}
         /\ passed' \subseteq 0 .. MaxFiles
  BY NewDatabaseType DEF TypeOK, PassOver

LEMMA WriteVersionType ==
  ASSUME TypeOK, NEW v \in Nat, WriteVersion(v)
  PROVE  /\ disk' \in Images /\ pending' \in Images
         /\ txn' \in {"none", "open", "writing"}
         /\ passed' \subseteq 0 .. MaxFiles
<1>1. CASE Faults \/ ~CanChange
  <2>1. 0 \in 0 .. MaxFiles
    BY FileCounts
  <2>2. CASE PassOver(0)
    BY <2>1, <2>2, PassOverType DEF TypeOK
  <2>3. CASE ~PassOver(0)
    BY <2>3, ViewType DEF WriteVersion, TypeOK, Images
  <2> QED BY <2>2, <2>3
<1>2. CASE ~(Faults \/ ~CanChange)
  BY <1>2, ViewType DEF WriteVersion, TypeOK, Images
<1> QED BY <1>1, <1>2

LEMMA IterateType ==
  ASSUME TypeOK, NEW j \in 0 .. n, NEW v \in Nat, Iterate(j, v)
  PROVE  /\ pc' \in {"set_version", "disconnect"}
         /\ n' \in 0 .. MaxFiles /\ i' \in 0 .. n' /\ uv' \in Nat /\ stmt' \in Nat
         /\ pc' = "set_version" => i' < n'
  BY DEF TypeOK, Iterate

LEMMA ExitType ==
  ASSUME TypeOK, NEW s \in {"ok", "failed"}, Exit(s)
  PROVE  /\ pc' = "idle" /\ status' \in {"ok", "failed"} /\ txn' = "none"
         /\ pending' \in Images
         /\ n' \in 0 .. MaxFiles /\ i' = 0 /\ i' \in 0 .. n'
         /\ uv' \in Nat /\ stmt' \in Nat
  BY NewDatabaseType, FileCounts DEF Exit

LEMMA OperatorTyped ==
  ASSUME Typed, NEW opt \in Options, Refuse(opt) \/ FindNothing(opt) \/ Migrate(opt)
  PROVE  Typed'
<1> USE DEF Typed, TypeOK, Resting, Invoke, locals
<1>1. CASE Refuse(opt)
  BY <1>1 DEF Refuse
<1>2. ASSUME PrepareFile(opt)
      PROVE  /\ exists' \in BOOLEAN /\ disk' \in Images /\ tainted' \in BOOLEAN
             /\ lock' \in {"free", "shared", "reserved", "exclusive"}
             /\ passed' \subseteq 0 .. MaxFiles
  BY <1>2, NewDatabaseType DEF PrepareFile
<1>3. CASE FindNothing(opt)
  BY <1>2, <1>3 DEF FindNothing
<1>4. CASE Migrate(opt)
  BY <1>2, <1>4 DEF Migrate
<1> QED BY <1>1, <1>3, <1>4

LEMMA ApplyFailsTyped == ASSUME Typed, ApplyFails PROVE Typed'
<1>1. Exit("failed")
  BY DEF ApplyFails
<1> QED BY <1>1, ExitType DEF Typed, TypeOK, Resting, ApplyFails

LEMMA AfterStatementType ==
  ASSUME TypeOK, pc = "run_sql", UNCHANGED <<n, i>>, AfterStatement
  PROVE  /\ pc' \in {"run_sql", "commit"} /\ stmt' \in Nat /\ i' < n'
         /\ pc' = "run_sql" => stmt' \in 1 .. Length[i' + 1]
<1>1. File \in Files /\ Length[File] \in Nat \ {0}
  BY FileType, Contents DEF TypeOK
<1> QED BY <1>1 DEF TypeOK, AfterStatement, File

(* Where the loop stands in a file. *)
LEMMA InFileType ==
  ASSUME TypeOK, pc \in {"set_version", "begin", "run_sql", "commit"}
  PROVE  /\ i \in Nat /\ n \in Nat /\ uv \in Nat /\ i < n /\ n <= MaxFiles
         /\ File = i + 1 /\ File \in Files /\ File \in 0 .. MaxFiles
         /\ Length[File] \in Nat \ {0} /\ NextVersion \in Nat
         /\ pc = "run_sql" => stmt \in 1 .. Length[File]
<1>1. i < n /\ File \in Files
  BY FileType DEF TypeOK
<1>2. Length[File] \in Nat \ {0}
  BY <1>1, Contents
<1> QED BY <1>1, <1>2, FileCounts DEF TypeOK, File, Files, NextVersion

LEMMA GetUserVersionTyped == ASSUME Typed, GetUserVersion PROVE Typed'
<1> USE DEF Typed, Resting
<1>1. disk.version \in Nat /\ 0 \in 0 .. n /\ 0 \in 0 .. MaxFiles
  BY FileCounts DEF TypeOK, Images
<1>2. CASE Iterate(0, disk.version) /\ UNCHANGED passed
  BY <1>1, <1>2, IterateType DEF GetUserVersion, TypeOK
<1>3. CASE /\ pc' = "init_version" /\ uv' \in Nat
           /\ passed' \subseteq passed \cup {0}
           /\ UNCHANGED <<n, i, stmt>>
  BY <1>1, <1>3 DEF GetUserVersion, TypeOK
<1> QED BY <1>1, <1>2, <1>3 DEF GetUserVersion

LEMMA StatementTyped ==
  ASSUME Typed, \/ BeginTransaction \/ StatementRuns \/ StatementRunsAlone
                \/ StatementSkipped
  PROVE  Typed'
<1> USE DEF Typed, Resting
<1>0. pc \in {"begin", "run_sql"} /\ pc \in {"set_version", "begin", "run_sql", "commit"}
  BY DEF BeginTransaction, StatementRuns, StatementRunsAlone, StatementSkipped
<1>1. /\ File \in 0 .. MaxFiles /\ Length[i + 1] \in Nat \ {0} /\ i < n
      /\ pc = "run_sql" => <<File, stmt>> \in Objects
  BY <1>0, InFileType, StatementType
<1>2. CASE BeginTransaction
  <2>1. /\ disk' \in Images /\ pending' \in Images
        /\ txn' \in {"none", "open", "writing"} /\ passed' \subseteq 0 .. MaxFiles
    <3>1. CASE txn' = "open" /\ UNCHANGED <<disk, pending, passed>>
      BY <3>1 DEF TypeOK
    <3>2. CASE PassOver(File)
      BY <1>1, <3>2, PassOverType DEF TypeOK
    <3> QED BY <1>2, <3>1, <3>2 DEF BeginTransaction
  <2> QED BY <1>1, <1>2, <2>1 DEF BeginTransaction, TypeOK
<1>3. CASE StatementRuns
  <2>1. pending' \in Images
    BY <1>1, <1>3, ViewType DEF StatementRuns, Images
  <2> QED BY <1>3, <2>1, AfterStatementType DEF StatementRuns, TypeOK
<1>4. CASE StatementRunsAlone
  <2>1. disk' \in Images
    BY <1>1, <1>4 DEF StatementRunsAlone, Images, TypeOK
  <2> QED BY <1>4, <2>1, AfterStatementType DEF StatementRunsAlone, TypeOK
<1>5. CASE StatementSkipped
  BY <1>1, <1>5, AfterStatementType, PassOverType DEF StatementSkipped, TypeOK
<1> QED BY <1>2, <1>3, <1>4, <1>5

LEMMA CommitTyped == ASSUME Typed, Commit \/ CommitSkipped PROVE Typed'
<1> USE DEF Typed, Resting
<1>1. pc = "commit" /\ Applied
  BY DEF Commit, CommitSkipped
<1>2. File \in 0 .. MaxFiles /\ i + 1 \in 0 .. n /\ NextVersion \in Nat
  BY <1>1, InFileType
<1>3. /\ pc' \in {"set_version", "disconnect"}
      /\ n' \in 0 .. MaxFiles /\ i' \in 0 .. n' /\ uv' \in Nat /\ stmt' \in Nat
      /\ pc' = "set_version" => i' < n'
  BY <1>1, <1>2, IterateType DEF Applied
<1>4. CASE Commit
  BY <1>3, <1>4, ViewType, NewDatabaseType DEF Commit, TypeOK
<1>5. CASE CommitSkipped
  BY <1>2, <1>3, <1>5, PassOverType DEF CommitSkipped, TypeOK
<1> QED BY <1>4, <1>5

LEMMA StepTyped == ASSUME Typed, Step PROVE Typed'
<1> USE DEF Typed
<1>1. CASE GetUserVersion
  BY <1>1, GetUserVersionTyped
<1>2. CASE InitUserVersion
  <2>1. 0 \in 0 .. n
    BY DEF TypeOK
  <2> QED
    BY <1>2, <2>1, IterateType, WriteVersionType
    DEF InitUserVersion, TypeOK, Resting
<1>3. CASE SetUserVersion
  <2>1. NextVersion \in Nat /\ i < n
    BY <1>3, InFileType DEF SetUserVersion
  <2> QED
    BY <1>3, <2>1, WriteVersionType DEF SetUserVersion, TypeOK, Resting, locals
<1>4. CASE BeginFails \/ CallFails \/ StatementFails \/ CommitFails
  BY <1>4, ApplyFailsTyped DEF BeginFails, CallFails, StatementFails, CommitFails
<1>5. CASE Disconnect
  BY <1>5, ExitType DEF Disconnect, TypeOK, Resting
<1> QED
  BY <1>1, <1>2, <1>3, <1>4, <1>5, StatementTyped, CommitTyped DEF Step, Proceed

LEMMA NextTyped == ASSUME Typed, [Next]_vars PROVE Typed'
<1>1. CASE Step
  BY <1>1, StepTyped
<1>2. CASE Operator
  BY <1>2, OperatorTyped DEF Operator
<1>3. CASE Crash
  BY <1>3, ApplyFailsTyped DEF Crash
<1>4. CASE AddFile
  BY <1>4, FileCounts DEF AddFile, Typed, TypeOK, Resting, locals
<1>5. CASE Relock
  BY <1>5 DEF Relock, Typed, TypeOK, Resting, locals
<1>6. CASE UNCHANGED vars
  BY <1>6 DEF vars, Typed, TypeOK, Resting, locals
<1> QED BY <1>1, <1>2, <1>3, <1>4, <1>5, <1>6 DEF Next

LEMMA InitTyped == ASSUME Init PROVE Typed
<1>1. n \in 0 .. MaxFiles /\ i \in 0 .. n /\ files \in 0 .. MaxFiles
  BY FileCounts DEF Init
<1>2. disk \in Images /\ pending \in Images
  BY NewDatabaseType DEF Init
<1> QED BY <1>1, <1>2 DEF Init, Typed, TypeOK, Resting

LEMMA AlwaysTyped == Spec => []Typed
  BY InitTyped, NextTyped, PTL DEF Spec

(* Every variable of the migrator keeps its type: i stays a file of the    *)
(* directory as it was read, stmt a statement of that file (main.c:93-121, *)
(* sql.c:243-258).                                                         *)
THEOREM TypeCorrect == Spec => []TypeOK
<1>1. Typed => TypeOK
  BY DEF Typed
<1> QED BY <1>1, AlwaysTyped, PTL

-----------------------------------------------------------------------------
(* Atomicity and order.  Within a file a transaction that is still there   *)
(* holds what was committed and statements of that file; all of them up to *)
(* the present one, unless something was passed over.  The files the loop  *)
(* has left behind are complete, unless something was passed over.         *)
AtRest == pc \in {"idle", "get_version", "init_version"} => txn = "none"

(* The statements of the file at hand that have been tried. *)
Tried == IF pc = "run_sql" THEN {File} \X (1 .. stmt - 1) ELSE Statements(File)

InFile ==
  (pc \in {"run_sql", "commit"} /\ txn = "writing") =>
    /\ pending.version = disk.version
    /\ disk.objects \subseteq pending.objects
    /\ pending.objects \subseteq disk.objects \cup Statements(File)

Unpassed ==
  (pc \in {"run_sql", "commit"} /\ File \notin passed) =>
    /\ txn # "none"
    /\ txn = "open" => pc = "run_sql" /\ stmt = 1
    /\ txn = "writing" => pending.objects = disk.objects \cup Tried

Reached ==
  pc \in {"set_version", "begin", "run_sql", "commit", "disconnect"} =>
    \A f \in 1 .. i : f \in passed \/ Complete(f)

Applying == AtRest /\ InFile /\ Unpassed /\ Reached

Orderly == Typed /\ Applying /\ PerFileAtomic /\ AppliedInOrder

LEMMA SameObjects ==
  ASSUME disk'.objects = disk.objects
  PROVE  \A f : Complete(f)' <=> Complete(f)
  BY DEF Complete, Statements

(* An exit leaves nothing of the transaction. *)
LEMMA IdleApplying == ASSUME pc' = "idle", txn' = "none" PROVE Applying'
  BY DEF Applying, AtRest, InFile, Unpassed, Reached

LEMMA ApplyFailsLeaves ==
  ASSUME ApplyFails
  PROVE  /\ pc' = "idle" /\ txn' = "none" /\ tainted' = TRUE
         /\ UNCHANGED <<exists, disk, files, passed>>
  BY DEF ApplyFails, Exit

LEMMA FailuresFail ==
  ASSUME BeginFails \/ CallFails \/ StatementFails \/ CommitFails \/ Crash
  PROVE  ApplyFails
  BY DEF BeginFails, CallFails, StatementFails, CommitFails, Crash

(* A write of the version leaves the objects alone, and the disk to a      *)
(* transaction.                                                            *)
LEMMA VersionWritten ==
  ASSUME TypeOK, NEW v \in Nat, WriteVersion(v)
  PROVE  /\ disk'.objects = disk.objects /\ passed \subseteq passed'
         /\ txn = "none" => txn' = "none"
         /\ \/ disk' = disk /\ (txn # "none" \/ 0 \in passed')
            \/ disk'.version = v /\ txn' = "none"
  BY DEF WriteVersion, PassOver, TypeOK, Images

(* The head of the loop, and the exit. *)
LEMMA IterateReached ==
  ASSUME NEW j, NEW v, Iterate(j, v), \A f \in 1 .. j : f \in passed' \/ Complete(f)'
  PROVE  Applying'
  BY DEF Iterate, Applying, AtRest, InFile, Unpassed, Reached

(* What a step of the migrator does to the objects there are.              *)
Grows ==
  /\ pc \in {"run_sql", "commit"}
  /\ disk.objects \subseteq disk'.objects
  /\ disk'.objects \subseteq disk.objects \cup Statements(File)
  /\ File \in passed \/ Statements(File) \subseteq disk'.objects
  /\ disk'.version = disk.version
  /\ passed' = passed

LEMMA PerFileGrows == ASSUME Orderly, Grows PROVE PerFileAtomic'
<1> SUFFICES ASSUME NEW f \in Files, f \notin passed
             PROVE  Complete(f)' \/ Statements(f) \cap disk'.objects = {}
  BY DEF PerFileAtomic, Grows, Statements
<1>1. CASE f = File
  BY <1>1 DEF Grows, Complete, Statements
<1>2. CASE f # File
  <2>1. Statements(f) \cap Statements(File) = {}
    BY <1>2 DEF Statements
  <2>2. Complete(f) \/ Statements(f) \cap disk.objects = {}
    BY DEF Orderly, PerFileAtomic
  <2>3. Complete(f) => Complete(f)'
    BY DEF Grows, Complete, Statements
  <2> QED BY <2>1, <2>2, <2>3 DEF Grows
<1> QED BY <1>1, <1>2

LEMMA OrderGrows == ASSUME Orderly, Grows PROVE AppliedInOrder'
<1>0. File = i + 1 /\ i \in Nat /\ \A f \in 1 .. i : f \in passed \/ Complete(f)
  BY InFileType DEF Orderly, Typed, Applying, Reached, Grows
<1> SUFFICES ASSUME NEW f \in Files, f \notin passed, NEW g \in Files, f < g,
                    Statements(g) \cap disk'.objects # {}
             PROVE  Complete(f)'
  BY DEF AppliedInOrder, Grows, Statements
<1>1. Complete(f) => Complete(f)'
  BY DEF Grows, Complete, Statements
<1>2. CASE g = File
  <2>1. f \in 1 .. i
    BY <1>0, <1>2 DEF Files
  <2> QED BY <1>0, <1>1, <2>1
<1>3. CASE g # File
  <2>1. Statements(g) \cap Statements(File) = {}
    BY <1>3 DEF Statements
  <2>2. Statements(g) \cap disk.objects # {}
    BY <2>1 DEF Grows
  <2> QED BY <1>1, <2>2 DEF Orderly, AppliedInOrder
<1> QED BY <1>2, <1>3

LEMMA ReachedGrows ==
  ASSUME Orderly, Grows PROVE \A f \in 1 .. i : f \in passed' \/ Complete(f)'
  BY DEF Orderly, Applying, Reached, Grows, Complete, Statements

LEMMA SameOrderly ==
  ASSUME Orderly, disk'.objects = disk.objects, passed \subseteq passed'
  PROVE  PerFileAtomic' /\ AppliedInOrder'
<1>1. \A f : Complete(f)' <=> Complete(f)
  BY SameObjects
<1>2. PerFileAtomic'
  BY <1>1 DEF Orderly, PerFileAtomic, Statements
<1>3. AppliedInOrder'
  BY <1>1 DEF Orderly, AppliedInOrder, Statements
<1> QED BY <1>2, <1>3

(* What was reached stays so where nothing is lost. *)
LEMMA ReachedStays ==
  ASSUME Orderly, disk'.objects = disk.objects, passed \subseteq passed',
         pc \in {"set_version", "begin", "run_sql", "commit", "disconnect"}
  PROVE  \A f \in 1 .. i : f \in passed' \/ Complete(f)'
  BY SameObjects DEF Orderly, Applying, Reached

LEMMA VersionsOrderly ==
  ASSUME Orderly, GetUserVersion \/ InitUserVersion \/ SetUserVersion
  PROVE  Applying' /\ PerFileAtomic' /\ AppliedInOrder'
<1> USE DEF Orderly, Typed
<1>1. CASE GetUserVersion
  <2>1. UNCHANGED disk /\ passed \subseteq passed' /\ txn = "none" /\ txn' = "none"
    BY <1>1 DEF GetUserVersion, Applying, AtRest
  <2>2. Iterate(0, disk.version) => Applying'
    BY IterateReached
  <2>3. pc' = "init_version" => Applying'
    BY <2>1 DEF Applying, AtRest, InFile, Unpassed, Reached
  <2> QED BY <1>1, <2>1, <2>2, <2>3, SameOrderly DEF GetUserVersion
<1>2. CASE InitUserVersion
  <2>1. disk'.objects = disk.objects /\ passed \subseteq passed' /\ Iterate(0, 1)
    BY <1>2, VersionWritten DEF InitUserVersion
  <2> QED BY <2>1, IterateReached, SameOrderly
<1>3. CASE SetUserVersion
  <2>1. NextVersion \in Nat
    BY <1>3, InFileType DEF SetUserVersion
  <2>2. disk'.objects = disk.objects /\ passed \subseteq passed'
    BY <1>3, <2>1, VersionWritten DEF SetUserVersion
  <2>3. pc = "set_version" /\ pc' = "begin" /\ i' = i
    BY <1>3 DEF SetUserVersion, locals
  <2>4. Reached'
    BY <2>2, <2>3, ReachedStays DEF Reached
  <2> QED
    BY <2>2, <2>3, <2>4, SameOrderly DEF Applying, AtRest, InFile, Unpassed
<1> QED BY <1>1, <1>2, <1>3

LEMMA BeginOrderly ==
  ASSUME Orderly, BeginTransaction
  PROVE  Applying' /\ PerFileAtomic' /\ AppliedInOrder'
<1>1. /\ pc = "begin" /\ pc' = "run_sql" /\ stmt' = 1 /\ i' = i /\ disk' = disk
      /\ passed \subseteq passed' /\ txn = "none" /\ txn' # "writing"
      /\ txn' = "open" \/ File \in passed'
  BY DEF BeginTransaction, PassOver
<1>2. File' = File
  BY <1>1 DEF File
<1>3. Reached'
  BY <1>1, ReachedStays DEF Reached
<1> QED
  BY <1>1, <1>2, <1>3, SameOrderly DEF Applying, AtRest, InFile, Unpassed

(* Where AfterStatement goes, what has been tried is one statement more.   *)
LEMMA AfterStatementTried ==
  ASSUME Orderly, pc = "run_sql", AfterStatement, i' = i
  PROVE  /\ File' = File /\ Statements(File)' = Statements(File)
         /\ pc' \in {"run_sql", "commit"}
         /\ pc' = "run_sql" => stmt' # 1
         /\ Tried' = Tried \cup {<<File, stmt>>}
         /\ <<File, stmt>> \in Statements(File)
<1>1. Length[File] \in Nat \ {0} /\ stmt \in 1 .. Length[File]
  BY InFileType DEF Orderly, Typed
<1>2. File' = File /\ Statements(File)' = Statements(File)
  BY DEF File, Statements
<1>3. ({File} \X (1 .. stmt - 1)) \cup {<<File, stmt>>} = {File} \X (1 .. stmt)
  BY <1>1
<1>4. CASE stmt < Length[File]
  <2>1. pc' = "run_sql" /\ stmt' = stmt + 1 /\ stmt' - 1 = stmt
    BY <1>1, <1>4 DEF AfterStatement
  <2> QED BY <1>1, <1>2, <1>3, <2>1 DEF Tried, Statements
<1>5. CASE ~(stmt < Length[File])
  <2>1. stmt = Length[File] /\ pc' = "commit"
    BY <1>1, <1>5 DEF AfterStatement
  <2> QED BY <1>1, <1>2, <1>3, <2>1 DEF Tried, Statements
<1> QED BY <1>4, <1>5

LEMMA StatementRunsOrderly ==
  ASSUME Orderly, StatementRuns
  PROVE  Applying' /\ PerFileAtomic' /\ AppliedInOrder'
<1>1. /\ pc = "run_sql" /\ AfterStatement /\ txn # "none" /\ txn' = "writing"
      /\ UNCHANGED <<disk, passed, i>>
  BY DEF StatementRuns
<1>2. /\ File' = File /\ Statements(File)' = Statements(File)
      /\ pc' \in {"run_sql", "commit"}
      /\ Tried' = Tried \cup {<<File, stmt>>} /\ <<File, stmt>> \in Statements(File)
  BY <1>1, AfterStatementTried
<1>3. /\ pending'.version = View.version
      /\ pending'.objects = View.objects \cup {<<File, stmt>>}
  BY ViewType DEF StatementRuns, Images, Orderly, Typed
<1>4. /\ View.version = disk.version
      /\ disk.objects \subseteq View.objects
      /\ View.objects \subseteq disk.objects \cup Statements(File)
  BY <1>1 DEF View, Orderly, Applying, InFile
<1>5. File \notin passed => View.objects = disk.objects \cup Tried
  <2>1. CASE txn = "writing"
    BY <1>1, <2>1 DEF View, Orderly, Applying, Unpassed
  <2>2. CASE txn = "open" /\ File \notin passed
    <3>1. Tried = {}
      BY <1>1, <2>2 DEF Tried, Orderly, Applying, Unpassed
    <3> QED BY <2>2, <3>1 DEF View
  <2> QED BY <1>1, <2>1, <2>2 DEF Orderly, Typed, TypeOK
<1>6. InFile' /\ Unpassed' /\ AtRest'
  BY <1>1, <1>2, <1>3, <1>4, <1>5 DEF InFile, Unpassed, AtRest
<1>7. Reached'
  BY <1>1, ReachedStays DEF Reached
<1> QED BY <1>1, <1>6, <1>7, SameOrderly DEF Applying

LEMMA StatementRunsAloneOrderly ==
  ASSUME Orderly, StatementRunsAlone
  PROVE  Applying' /\ PerFileAtomic' /\ AppliedInOrder' /\ Grows
<1>1. /\ pc = "run_sql" /\ AfterStatement /\ txn = "none" /\ txn' = "none"
      /\ UNCHANGED <<passed, i>>
  BY DEF StatementRunsAlone
<1>2. /\ File' = File /\ pc' \in {"run_sql", "commit"}
      /\ <<File, stmt>> \in Statements(File)
  BY <1>1, AfterStatementTried
<1>3. File \in passed
  BY <1>1 DEF Orderly, Applying, Unpassed
<1>4. /\ disk'.version = disk.version
      /\ disk'.objects = disk.objects \cup {<<File, stmt>>}
  BY DEF StatementRunsAlone, Images, Orderly, Typed, TypeOK
<1>5. Grows
  BY <1>1, <1>2, <1>3, <1>4 DEF Grows
<1>6. Reached'
  BY <1>1, <1>5, ReachedGrows DEF Reached
<1> QED
  BY <1>1, <1>2, <1>3, <1>5, <1>6, PerFileGrows, OrderGrows
  DEF Applying, AtRest, InFile, Unpassed

LEMMA StatementSkippedOrderly ==
  ASSUME Orderly, StatementSkipped
  PROVE  Applying' /\ PerFileAtomic' /\ AppliedInOrder'
<1>1. /\ pc = "run_sql" /\ AfterStatement /\ UNCHANGED <<disk, i>>
      /\ passed \subseteq passed' /\ File \in passed'
      /\ txn' = "none" \/ UNCHANGED <<txn, pending>>
  BY DEF StatementSkipped, PassOver
<1>2. /\ File' = File /\ Statements(File)' = Statements(File)
      /\ pc' \in {"run_sql", "commit"}
  BY <1>1, AfterStatementTried
<1>3. InFile' /\ Unpassed' /\ AtRest'
  BY <1>1, <1>2 DEF InFile, Unpassed, AtRest, Orderly, Applying
<1>4. Reached'
  BY <1>1, ReachedStays DEF Reached
<1> QED BY <1>1, <1>3, <1>4, SameOrderly DEF Applying

LEMMA CommitOrderly ==
  ASSUME Orderly, Commit
  PROVE  Applying' /\ PerFileAtomic' /\ AppliedInOrder' /\ Grows
<1>1. /\ pc = "commit" /\ txn # "none" /\ disk' = View /\ UNCHANGED passed
      /\ Iterate(i + 1, NextVersion)
  BY DEF Commit, Applied
<1>2. File = i + 1 /\ i \in Nat
  BY <1>1, InFileType DEF Orderly, Typed
<1>3. Grows
  <2>1. Tried = Statements(File)
    BY <1>1 DEF Tried
  <2>2. CASE txn = "writing"
    BY <1>1, <2>1, <2>2 DEF Grows, View, Orderly, Applying, InFile, Unpassed
  <2>3. CASE txn = "open"
    BY <1>1, <2>1, <2>3 DEF Grows, View, Orderly, Applying, Unpassed
  <2> QED BY <1>1, <2>2, <2>3 DEF Orderly, Typed, TypeOK
<1>4. \A f \in 1 .. i + 1 : f \in passed' \/ Complete(f)'
  <2>1. \A f : f = File => f \in passed' \/ Complete(f)'
    BY <1>3 DEF Grows, Complete, Statements
  <2>2. \A f \in 1 .. i : f \in passed' \/ Complete(f)'
    BY <1>3, ReachedGrows
  <2>3. \A f \in 1 .. i + 1 : f \in 1 .. i \/ f = i + 1
    BY <1>2
  <2> QED BY <1>2, <2>1, <2>2, <2>3
<1> QED BY <1>1, <1>3, <1>4, IterateReached, PerFileGrows, OrderGrows

LEMMA CommitSkippedOrderly ==
  ASSUME Orderly, CommitSkipped
  PROVE  Applying' /\ PerFileAtomic' /\ AppliedInOrder'
<1>1. /\ pc = "commit" /\ disk' = disk /\ passed \subseteq passed' /\ File \in passed'
      /\ Iterate(i + 1, NextVersion)
  BY DEF CommitSkipped, PassOver, Applied
<1>2. File = i + 1 /\ i \in Nat
  BY <1>1, InFileType DEF Orderly, Typed
<1>3. \A f \in 1 .. i : f \in passed' \/ Complete(f)'
  BY <1>1, ReachedStays
<1>4. \A f \in 1 .. i + 1 : f \in 1 .. i \/ f = File
  BY <1>2
<1> QED BY <1>1, <1>3, <1>4, IterateReached, SameOrderly

LEMMA NewOrderly ==
  ASSUME disk' = NewDatabase PROVE PerFileAtomic' /\ AppliedInOrder'
  BY DEF PerFileAtomic, AppliedInOrder, NewDatabase, Statements

LEMMA OperatorOrderly ==
  ASSUME Orderly, NEW opt \in Options, Refuse(opt) \/ FindNothing(opt) \/ Migrate(opt)
  PROVE  Applying' /\ PerFileAtomic' /\ AppliedInOrder'
<1>1. /\ pc = "idle" /\ txn' = txn
      /\ pc' \in {"idle", "get_version"}
      /\ disk' = NewDatabase \/ UNCHANGED <<disk, passed>>
  BY DEF Refuse, FindNothing, Migrate, PrepareFile, Invoke
<1>2. Applying'
  BY <1>1 DEF Orderly, Applying, AtRest, InFile, Unpassed, Reached
<1> QED BY <1>1, <1>2, NewOrderly, SameOrderly

LEMMA NextOrderly == ASSUME Orderly, [Next]_vars PROVE Orderly'
<1>1. Typed'
  BY NextTyped DEF Orderly
<1>2. CASE BeginFails \/ CallFails \/ StatementFails \/ CommitFails \/ Crash
  BY <1>1, <1>2, FailuresFail, ApplyFailsLeaves, IdleApplying, SameOrderly DEF Orderly
<1>3. CASE Disconnect
  <2>1. pc' = "idle" /\ txn' = "none" /\ UNCHANGED <<disk, passed>>
    BY <1>3 DEF Disconnect, Exit
  <2> QED BY <1>1, <2>1, IdleApplying, SameOrderly DEF Orderly
<1>4. CASE Step
  BY <1>1, <1>2, <1>3, <1>4, VersionsOrderly, BeginOrderly, StatementRunsOrderly,
     StatementRunsAloneOrderly, StatementSkippedOrderly, CommitOrderly,
     CommitSkippedOrderly
  DEF Step, Proceed, Orderly
<1>5. CASE Operator
  BY <1>1, <1>5, OperatorOrderly DEF Operator, Orderly
<1>6. CASE AddFile \/ Relock \/ UNCHANGED vars
  <2>1. UNCHANGED <<disk, txn, pending, pc, i, stmt, passed>>
    BY <1>6 DEF AddFile, Relock, vars, locals
  <2>2. File' = File /\ \A f : Complete(f)' <=> Complete(f)
    BY <2>1, SameObjects DEF File
  <2>3. Tried' = Tried
    BY <2>1, <2>2 DEF Tried, Statements
  <2>4. Applying'
    BY <2>1, <2>2, <2>3
    DEF Orderly, Applying, AtRest, InFile, Unpassed, Reached, Statements
  <2> QED BY <1>1, <2>1, <2>4, SameOrderly DEF Orderly
<1> QED BY <1>2, <1>4, <1>5, <1>6 DEF Next

LEMMA InitOrderly == ASSUME Init PROVE Orderly
<1>1. Applying
  BY DEF Init, Applying, AtRest, InFile, Unpassed, Reached
<1>2. PerFileAtomic /\ AppliedInOrder
  BY DEF Init, NewDatabase, PerFileAtomic, AppliedInOrder
<1> QED BY <1>1, <1>2, InitTyped DEF Orderly

LEMMA AlwaysOrderly == Spec => []Orderly
  BY InitOrderly, NextOrderly, PTL DEF Spec

(* A migration file takes effect as a whole or not at all (apply_migration, *)
(* main.c:14-32): for every number of files and statements, wherever the   *)
(* migrator dies, whatever SQLite refuses and whatever locks and errors    *)
(* roll its transactions back; the exceptions are the files of which an    *)
(* answer was passed over, and no other (sql.c:64-84).                     *)
THEOREM FilesAreAtomic == Spec => []PerFileAtomic
<1>1. Orderly => PerFileAtomic
  BY DEF Orderly
<1> QED BY <1>1, AlwaysOrderly, PTL

(* Files are applied in the order of their identifiers (main.c:94-121), in *)
(* any number of invocations, crashes, locks and failures: where a         *)
(* statement of a file has taken effect, the files before it are complete, *)
(* but for those of which something was passed over.                       *)
THEOREM OrderIsKept == Spec => []AppliedInOrder
<1>1. Orderly => AppliedInOrder
  BY DEF Orderly
<1> QED BY <1>1, AlwaysOrderly, PTL

-----------------------------------------------------------------------------
(* The version.  As long as none was passed over, the loop knows the one   *)
(* of the database, and it is ahead of every file of which anything is     *)
(* there: Ahead is more than VersionNeverBehind, which speaks of complete  *)
(* files, and is what a step keeps.                                        *)
Ahead == \A k \in Files : Statements(k) \cap disk.objects # {} => disk.version > k

Known ==
  /\ pc = "init_version" => disk.version = 0
  /\ pc \in {"set_version", "disconnect"} => disk.version = uv
  /\ pc = "begin" /\ txn = "none" => disk.version = uv + 1
  /\ pc \in {"run_sql", "commit"} => disk.version = uv + 1
  /\ pc \in {"set_version", "begin", "run_sql", "commit"} => uv >= i + 1

Numbered == Orderly /\ (0 \notin passed => Known /\ Ahead)

LEMMA SameAhead ==
  ASSUME Ahead, TypeOK, disk'.objects = disk.objects, disk'.version \in Nat,
         disk'.version >= disk.version
  PROVE  Ahead'
<1>1. disk.version \in Nat /\ \A k \in Files : k \in Nat
  BY FileCounts DEF TypeOK, Images, Files
<1> QED BY <1>1 DEF Ahead, Statements

LEMMA GrowsAhead ==
  ASSUME Numbered, Grows, 0 \notin passed PROVE Ahead'
<1>0. /\ disk.version = uv + 1 /\ uv >= i + 1 /\ uv \in Nat
      /\ File = i + 1 /\ i \in Nat
  BY InFileType DEF Numbered, Orderly, Typed, Known, Grows
<1> SUFFICES ASSUME NEW k \in Files, Statements(k) \cap disk'.objects # {}
             PROVE  disk'.version > k
  BY DEF Ahead, Statements
<1>1. CASE k = File
  BY <1>0, <1>1 DEF Grows
<1>2. CASE k # File
  <2>1. Statements(k) \cap Statements(File) = {}
    BY <1>2 DEF Statements
  <2>2. Statements(k) \cap disk.objects # {}
    BY <2>1 DEF Grows
  <2> QED BY <2>2 DEF Numbered, Ahead, Grows
<1> QED BY <1>1, <1>2

LEMMA IterateKnown ==
  ASSUME TypeOK, NEW j \in Nat, NEW v \in Nat, Iterate(j, v), v >= j + 1,
         disk'.version = v
  PROVE  Known'
<1>1. pc' \in {"set_version", "disconnect"} /\ uv' = v /\ i' = j
  BY DEF Iterate
<1> QED BY <1>1 DEF Known

LEMMA StepPassed == ASSUME Step PROVE passed \subseteq passed'
  BY FailuresFail
  DEF Step, Proceed, ApplyFails, GetUserVersion, InitUserVersion, SetUserVersion,
      WriteVersion, BeginTransaction, StatementRuns, StatementRunsAlone,
      StatementSkipped, Commit, CommitSkipped, Disconnect, PassOver

LEMMA VersionsNumbered ==
  ASSUME Numbered, 0 \notin passed', GetUserVersion \/ InitUserVersion \/ SetUserVersion
  PROVE  Known' /\ Ahead' /\ disk'.version >= disk.version /\ disk'.version \in Nat
<1> USE DEF Numbered, Orderly, Typed
<1>0. /\ 0 \notin passed /\ disk.version \in Nat /\ disk'.version \in Nat
      /\ uv \in Nat /\ Known /\ Ahead /\ TypeOK
  <2>1. Step
    BY DEF Step, Proceed
  <2> QED BY <2>1, StepPassed, StepTyped DEF TypeOK, Images
<1>1. CASE GetUserVersion
  <2>1. disk' = disk
    BY <1>1 DEF GetUserVersion
  <2>2. CASE disk.version >= 1 /\ Iterate(0, disk.version)
    <3>1. 0 \in Nat /\ disk.version >= 0 + 1
      BY <2>2
    <3>2. Known'
      BY <1>0, <2>1, <2>2, <3>1, IterateKnown
    <3> QED BY <1>0, <2>1, <3>2, SameAhead
  <2>3. CASE disk.version < 1 /\ pc' = "init_version"
    BY <1>0, <2>1, <2>3, SameAhead DEF Known
  <2> QED BY <1>0, <1>1, <2>2, <2>3 DEF GetUserVersion
<1>2. CASE InitUserVersion
  <2>1. WriteVersion(1) /\ Iterate(0, 1) /\ txn = "none" /\ disk.version = 0
    BY <1>0, <1>2 DEF InitUserVersion, Applying, AtRest, Known
  <2>2. disk'.version = 1 /\ disk'.objects = disk.objects
    BY <1>0, <2>1, VersionWritten
  <2>3. Known'
    BY <1>0, <2>1, <2>2, IterateKnown
  <2> QED BY <1>0, <2>1, <2>2, <2>3, SameAhead
<1>3. CASE SetUserVersion
  <2>1. /\ WriteVersion(uv + 1) /\ uv + 1 \in Nat /\ pc' = "begin" /\ uv' = uv /\ i' = i
        /\ disk.version = uv /\ uv >= i + 1
    BY <1>0, <1>3 DEF SetUserVersion, NextVersion, locals, Known
  <2>2. /\ disk'.objects = disk.objects
        /\ \/ disk' = disk /\ txn' # "none"
           \/ disk'.version = uv + 1
    <3>1. CASE PassOver(0)
      BY <1>0, <3>1 DEF PassOver
    <3>2. CASE ~PassOver(0)
      BY <1>0, <2>1, <3>2 DEF WriteVersion, TypeOK, Images
    <3> QED BY <3>1, <3>2
  <2>3. Known'
    BY <1>0, <2>1, <2>2 DEF Known
  <2> QED BY <1>0, <2>1, <2>2, <2>3, SameAhead
<1> QED BY <1>1, <1>2, <1>3

LEMMA FileNumbered ==
  ASSUME Numbered, 0 \notin passed',
         \/ BeginTransaction \/ StatementRuns \/ StatementRunsAlone
         \/ StatementSkipped \/ Commit \/ CommitSkipped
  PROVE  Known' /\ Ahead' /\ disk'.version >= disk.version /\ disk'.version \in Nat
<1> USE DEF Numbered, Orderly, Typed
<1>0. /\ 0 \notin passed /\ disk.version \in Nat /\ disk'.version \in Nat
      /\ uv \in Nat /\ i \in Nat /\ Known /\ Ahead /\ TypeOK
  <2>1. Step
    BY DEF Step, Proceed
  <2> QED BY <2>1, StepPassed, StepTyped DEF TypeOK, Images
<1>1. CASE BeginTransaction
  BY <1>0, <1>1, SameAhead DEF BeginTransaction, PassOver, Known
<1>2. CASE StatementRuns \/ StatementSkipped
  <2>1. pc = "run_sql" /\ pc' \in {"run_sql", "commit"} /\ UNCHANGED <<disk, uv, i>>
    BY <1>2 DEF StatementRuns, StatementSkipped, AfterStatement, PassOver
  <2> QED BY <1>0, <2>1, SameAhead DEF Known
<1>3. CASE StatementRunsAlone
  <2>1. Grows /\ pc' \in {"run_sql", "commit"} /\ UNCHANGED <<uv, i>>
    BY <1>3, StatementRunsAloneOrderly DEF StatementRunsAlone, AfterStatement
  <2>2. Known'
    BY <1>0, <2>1 DEF Known, Grows
  <2> QED BY <1>0, <2>1, <2>2, GrowsAhead DEF Grows
<1>4. CASE Commit \/ CommitSkipped
  <2>1. /\ Iterate(i + 1, uv + 1) /\ disk.version = uv + 1 /\ uv >= i + 1
        /\ uv + 1 \in Nat /\ i + 1 \in Nat
    BY <1>0, <1>4 DEF Commit, CommitSkipped, Applied, NextVersion, Known
  <2>2. Grows \/ disk' = disk
    BY <1>4, CommitOrderly DEF CommitSkipped, PassOver
  <2>3. disk'.version = uv + 1
    BY <2>1, <2>2 DEF Grows
  <2>4. Known'
    BY <1>0, <2>1, <2>3, IterateKnown
  <2>5. Ahead'
    BY <1>0, <2>2, GrowsAhead, SameAhead
  <2> QED BY <1>0, <2>1, <2>3, <2>4, <2>5
<1> QED BY <1>1, <1>2, <1>3, <1>4

(* A step of the migrator. *)
LEMMA StepNumbered ==
  ASSUME Numbered, Step, 0 \notin passed'
  PROVE  Known' /\ Ahead' /\ disk'.version >= disk.version
<1>0. /\ 0 \notin passed /\ disk.version \in Nat /\ Known /\ Ahead /\ TypeOK
  BY StepPassed DEF Numbered, Orderly, Typed, TypeOK, Images
<1>1. CASE BeginFails \/ CallFails \/ StatementFails \/ CommitFails \/ Disconnect
  <2>1. pc' = "idle" /\ disk' = disk
    BY <1>1, FailuresFail, ApplyFailsLeaves DEF Disconnect, Exit
  <2> QED BY <1>0, <2>1, SameAhead DEF Known
<1> QED BY <1>1, VersionsNumbered, FileNumbered DEF Step, Proceed

LEMMA NextNumbered == ASSUME Numbered, [Next]_vars PROVE Numbered'
<1>1. Orderly'
  BY NextOrderly DEF Numbered
<1> SUFFICES ASSUME 0 \notin passed' PROVE Known' /\ Ahead'
  BY <1>1 DEF Numbered
<1>0. TypeOK /\ disk.version \in Nat
  BY DEF Numbered, Orderly, Typed, TypeOK, Images
<1>2. CASE Step
  BY <1>2, StepNumbered
<1>3. CASE Operator
  <2>1. pc' \in {"idle", "get_version"} /\ (disk' = NewDatabase \/ UNCHANGED <<disk, passed>>)
    BY <1>3 DEF Operator, Refuse, FindNothing, Migrate, PrepareFile, Invoke
  <2>2. disk' = NewDatabase => Ahead'
    BY DEF Ahead, NewDatabase, Statements
  <2> QED BY <1>0, <2>1, <2>2, SameAhead DEF Known, Numbered
<1>4. CASE Crash
  <2>1. pc' = "idle" /\ UNCHANGED <<disk, passed>>
    BY <1>4, ApplyFailsLeaves DEF Crash
  <2> QED BY <1>0, <2>1, SameAhead DEF Known, Numbered
<1>5. CASE AddFile \/ Relock \/ UNCHANGED vars
  <2>1. UNCHANGED <<disk, passed, pc, txn, uv, i>>
    BY <1>5 DEF AddFile, Relock, vars, locals
  <2> QED BY <1>0, <2>1, SameAhead DEF Known, Numbered
<1> QED BY <1>2, <1>3, <1>4, <1>5 DEF Next

LEMMA AlwaysNumbered == Spec => []Numbered
<1>1. Init => Known /\ Ahead
  BY DEF Init, Known, Ahead, NewDatabase
<1>2. Init => Numbered
  BY <1>1, InitOrderly DEF Numbered
<1> QED BY <1>2, NextNumbered, PTL DEF Spec

(* user_version is never behind the files that are applied (main.c:14-32): *)
(* it is written before the transaction it counts.  Locks, failures and    *)
(* crashes do not change that, only a version that was passed over.        *)
THEOREM VersionTellsAll == Spec => []VersionNeverBehind
<1>1. ASSUME Numbered PROVE VersionNeverBehind
  <2> SUFFICES ASSUME 0 \notin passed, NEW k \in 1 .. MaxFiles,
                      \A f \in 1 .. k : Complete(f)
               PROVE  disk.version > k
    BY DEF VersionNeverBehind
  <2>1. k \in Files /\ Complete(k)
    BY FileCounts DEF Files
  <2>2. Statements(k) \cap disk.objects # {}
    BY <2>1, NonEmptyFile DEF Complete
  <2> QED BY <1>1, <2>1, <2>2 DEF Numbered, Ahead
<1> QED BY <1>1, AlwaysNumbered, PTL

(* Only an invocation makes the version go back (sql.c:180-204), and then  *)
(* because the operator asked for it with -c or -r; or a version that was  *)
(* passed over: after a reading that failed, the loop starts anew at 1.    *)
THEOREM VersionOnlyGrows == Spec => VersionMonotone
<1>1. Numbered /\ [Next]_vars =>
        [disk'.version < disk.version => runs' > runs \/ 0 \in passed]_vars
  <2> SUFFICES ASSUME Numbered, Next, disk'.version < disk.version, 0 \notin passed
               PROVE  runs' > runs
    BY DEF vars, locals
  <2>1. disk.version \in Nat /\ runs \in Nat /\ TypeOK
    BY DEF Numbered, Orderly, Typed, TypeOK, Images
  <2>2. ASSUME Step PROVE FALSE
    <3>1. CASE 0 \notin passed'
      <4>1. disk'.version >= disk.version /\ disk'.version \in Nat
        BY <2>2, <3>1, StepNumbered, StepTyped
        DEF Numbered, Orderly, Typed, TypeOK, Images
      <4> QED BY <2>1, <4>1
    <3>2. CASE 0 \in passed' /\ disk' = disk
      BY <2>1, <3>2
    <3>3. CASE 0 \in passed' /\ disk' # disk
      <4>1. ~(GetUserVersion \/ Disconnect \/ StatementRuns \/ StatementSkipped
               \/ StatementRunsAlone \/ BeginTransaction \/ Commit \/ CommitSkipped)
        BY <3>3, <2>1 DEF GetUserVersion, Disconnect, StatementRuns,
           StatementSkipped, StatementRunsAlone, BeginTransaction, Commit,
           CommitSkipped, PassOver
      <4>2. ~(BeginFails \/ CallFails \/ StatementFails \/ CommitFails)
        BY <3>3, FailuresFail, ApplyFailsLeaves
      <4>3. ASSUME NEW v, WriteVersion(v) PROVE FALSE
        BY <3>3, <4>3 DEF WriteVersion, PassOver
      <4> QED BY <2>2, <4>1, <4>2, <4>3 DEF Step, Proceed, InitUserVersion, SetUserVersion
    <3> QED BY <3>1, <3>2, <3>3
  <2>3. CASE Operator
    BY <2>1, <2>3 DEF Operator, Refuse, FindNothing, Migrate, Invoke
  <2>4. CASE Crash \/ AddFile \/ Relock
    BY <2>1, <2>4 DEF Crash, ApplyFails, AddFile, Relock
  <2> QED BY <2>2, <2>3, <2>4 DEF Next
<1> QED BY <1>1, AlwaysNumbered, PTL DEF Spec, VersionMonotone

-----------------------------------------------------------------------------
(* What an exit status of 0 means: OkMeansComplete speaks of the moment    *)
(* after the exit; OnTrack says how a run on a database with nothing       *)
(* against it gets there.                                                  *)
Full == /\ disk.version = files + 1
        /\ \A f \in (1 .. files) \ passed : Complete(f)

Clean == exists /\ ~tainted /\ 0 \notin passed

OnTrack ==
  Clean =>
    /\ pc = "idle" => Full \/ (files = 0 /\ status = "failed")
    /\ pc # "idle" => n = files
    /\ pc = "get_version" => Full \/ disk = NewDatabase
    /\ pc \in {"set_version", "begin", "run_sql", "commit"} => uv = i + 1
    /\ pc = "disconnect" => Full

Believable == Numbered /\ OnTrack

LEMMA SameFull ==
  ASSUME UNCHANGED <<disk, files, passed>> PROVE Full' <=> Full
  BY DEF Full, Complete, Statements

(* The head of the loop: it ends where all files are applied.              *)
LEMMA IterateOnTrack ==
  ASSUME Numbered', NEW j \in Nat, Iterate(j, j + 1), n \in Nat, j <= n, n = files,
         UNCHANGED files
  PROVE  OnTrack'
<1>1. /\ pc' \in {"set_version", "disconnect"} /\ i' = j /\ uv' = j + 1
      /\ n' = files' /\ (pc' = "disconnect" => j = files')
  BY DEF Iterate
<1>2. ASSUME pc' = "disconnect", Clean' PROVE Full'
  <2>1. disk'.version = uv'
    BY <1>2 DEF Numbered, Known, Clean
  <2>2. \A f \in 1 .. i' : f \in passed' \/ Complete(f)'
    BY <1>2 DEF Numbered, Orderly, Applying, Reached
  <2> QED BY <1>1, <1>2, <2>1, <2>2 DEF Full
<1> QED BY <1>1, <1>2 DEF OnTrack

LEMMA StepOnTrack == ASSUME Believable, Numbered', Step PROVE OnTrack'
<1> SUFFICES ASSUME Clean' PROVE OnTrack'
  BY DEF OnTrack
<1>0. UNCHANGED <<exists, files>> /\ (tainted' = tainted \/ tainted' = TRUE)
  BY FailuresFail, ApplyFailsLeaves
  DEF Step, Proceed, GetUserVersion, InitUserVersion, SetUserVersion, BeginTransaction,
      StatementRuns, StatementRunsAlone, StatementSkipped, Commit,
      CommitSkipped, Disconnect
<1>1. /\ Clean /\ 0 \notin passed' /\ ~tainted' /\ Known
      /\ n \in Nat /\ i \in Nat /\ uv \in Nat /\ i <= n /\ disk.version \in Nat
  BY <1>0, StepPassed
  DEF Clean, Believable, Numbered, Orderly, Typed, TypeOK, Images
<1>2. CASE GetUserVersion
  <2>1. n = files /\ (Full \/ disk = NewDatabase) /\ disk' = disk
    BY <1>1, <1>2 DEF GetUserVersion, Believable, OnTrack
  <2>2. CASE disk.version < 1 /\ pc' = "init_version" /\ n' = n
    BY <1>0, <2>1, <2>2 DEF OnTrack
  <2>3. CASE disk.version >= 1 /\ Iterate(0, disk.version) /\ UNCHANGED passed
    <3>1. Full /\ disk.version = n + 1
      BY <2>1, <2>3 DEF Full, NewDatabase
    <3>2. pc' = "disconnect" /\ n' = n
      BY <1>1, <2>3, <3>1 DEF Iterate
    <3>3. Full'
      BY <1>0, <2>1, <2>3, <3>1, SameFull
    <3> QED BY <1>0, <2>1, <3>2, <3>3 DEF OnTrack
  <2> QED BY <1>1, <1>2, <2>2, <2>3 DEF GetUserVersion
<1>3. CASE InitUserVersion
  <2>1. Iterate(0, 0 + 1) /\ n = files
    BY <1>1, <1>3 DEF InitUserVersion, Believable, OnTrack
  <2> QED BY <1>0, <1>1, <2>1, IterateOnTrack
<1>4. CASE SetUserVersion
  BY <1>0, <1>1, <1>4 DEF SetUserVersion, locals, Believable, OnTrack
<1>5. CASE BeginTransaction
  BY <1>0, <1>1, <1>5 DEF BeginTransaction, Believable, OnTrack
<1>6. CASE StatementRuns \/ StatementRunsAlone \/ StatementSkipped
  <2>1. /\ pc = "run_sql" /\ pc' \in {"run_sql", "commit"} /\ UNCHANGED <<n, i, uv>>
    BY <1>6 DEF StatementRuns, StatementRunsAlone, StatementSkipped, AfterStatement
  <2> QED BY <1>0, <1>1, <2>1 DEF Believable, OnTrack
<1>7. CASE BeginFails \/ CallFails \/ StatementFails \/ CommitFails
  BY <1>1, <1>7, FailuresFail, ApplyFailsLeaves
<1>8. CASE Commit \/ CommitSkipped
  <2>1. /\ Iterate(i + 1, uv + 1) /\ n = files /\ uv = i + 1 /\ pc = "commit"
    BY <1>1, <1>8 DEF Commit, CommitSkipped, Applied, NextVersion, Believable, OnTrack
  <2>2. i + 1 <= n /\ i + 1 \in Nat
    BY <2>1, InFileType DEF Believable, Numbered, Orderly, Typed
  <2>3. Iterate(i + 1, (i + 1) + 1)
    BY <2>1
  <2> QED BY <1>0, <1>1, <2>1, <2>2, <2>3, IterateOnTrack
<1>9. CASE Disconnect
  <2>1. pc = "disconnect" /\ pc' = "idle" /\ UNCHANGED <<disk, files, passed>>
    BY <1>0, <1>9 DEF Disconnect, Exit
  <2>2. Full'
    BY <1>1, <2>1, SameFull DEF Believable, OnTrack
  <2> QED BY <2>1, <2>2 DEF OnTrack
<1> QED
  BY <1>2, <1>3, <1>4, <1>5, <1>6, <1>7, <1>8, <1>9 DEF Step, Proceed

LEMMA OperatorOnTrack ==
  ASSUME Believable, NEW opt \in Options, Refuse(opt) \/ FindNothing(opt) \/ Migrate(opt)
  PROVE  OnTrack'
<1> SUFFICES ASSUME Clean' PROVE OnTrack'
  BY DEF OnTrack
<1>1. CASE Refuse(opt)
  <2>1. pc = "idle" /\ pc' = "idle" /\ status' = "failed" /\ Clean
        /\ UNCHANGED <<disk, files, passed>>
    BY <1>1 DEF Refuse, Invoke, Clean
  <2> QED BY <2>1, SameFull DEF Believable, OnTrack
<1>2. CASE FindNothing(opt)
  BY <1>2 DEF FindNothing, Invoke, OnTrack
<1>3. CASE Migrate(opt)
  <2>1. pc = "idle" /\ pc' = "get_version" /\ n' = files' /\ UNCHANGED files
        /\ files > 0 /\ PrepareFile(opt) /\ Accepted(opt)
    BY <1>3 DEF Migrate, Invoke
  <2>2. CASE opt \in {"create", "remove"}
    BY <2>1, <2>2 DEF PrepareFile, NewDatabase, OnTrack
  <2>3. CASE opt \notin {"create", "remove"}
    <3>1. Clean /\ UNCHANGED <<disk, passed>>
      BY <2>1, <2>3 DEF PrepareFile, Accepted, Clean
    <3>2. files # 0
      BY <2>1
    <3>3. Full'
      BY <2>1, <3>1, <3>2, SameFull DEF Believable, OnTrack
    <3> QED BY <2>1, <3>3 DEF OnTrack
  <2> QED BY <2>2, <2>3
<1> QED BY <1>1, <1>2, <1>3

LEMMA NextBelievable == ASSUME Believable, [Next]_vars PROVE Believable'
<1>1. Numbered'
  BY NextNumbered DEF Believable
<1>2. CASE Step
  BY <1>1, <1>2, StepOnTrack DEF Believable
<1>3. CASE Operator
  BY <1>1, <1>3, OperatorOnTrack DEF Operator, Believable
<1>4. CASE Crash \/ AddFile
  <2>1. tainted' = TRUE
    BY <1>4, ApplyFailsLeaves DEF Crash, AddFile
  <2> QED BY <1>1, <2>1 DEF Believable, OnTrack, Clean
<1>5. CASE Relock \/ UNCHANGED vars
  <2>1. UNCHANGED <<exists, disk, files, pc, n, i, uv, status, tainted, passed>>
    BY <1>5 DEF Relock, vars, locals
  <2> QED BY <1>1, <2>1, SameFull DEF Believable, OnTrack, Clean
<1> QED BY <1>2, <1>3, <1>4, <1>5 DEF Next

(* A run that ends with status 0 leaves every file applied and the version *)
(* that says so (main.c:34-129), for every number and length of files and  *)
(* every sequence of invocations, locks, crashes and failures: unless      *)
(* since the database was last made anew a run failed, a file was added or *)
(* a version was passed over; and but for the files of which something     *)
(* else was passed over.                                                   *)
THEOREM ExitsAreBelievable == Spec => []OkMeansComplete
<1>1. Init => Believable
  <2> SUFFICES ASSUME Init PROVE Believable
    OBVIOUS
  <2>1. Known /\ Ahead
    BY DEF Init, Known, Ahead, NewDatabase
  <2> QED BY <2>1, InitOrderly DEF Init, Believable, Numbered, OnTrack, Clean
<1>2. Believable => OkMeansComplete
  BY DEF Believable, OnTrack, Full, Clean, OkMeansComplete
<1> QED BY <1>1, <1>2, NextBelievable, PTL DEF Spec
=============================================================================
