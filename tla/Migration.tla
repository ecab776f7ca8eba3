----------------------------- MODULE Migration -----------------------------
(***************************************************************************)
(* The migrator (migrator/src): main's options, migrate's loop over the    *)
(* sorted files of the migrations directory, and the SQLite statements of  *)
(* migrator/sql.c, one action each.                                        *)
(*                                                                         *)
(* PRAGMA user_version counts what was applied, 1 for a database with      *)
(* nothing in it; it is written before the transaction of the file it      *)
(* counts.  handle_step fails on SQLITE_ERROR and SQLITE_MISUSE only: a    *)
(* statement answered with anything else, SQLITE_BUSY first of all, has no *)
(* effect, is passed over, and the loop goes on.                           *)
(*                                                                         *)
(* External: SQLite's locks and transactions (rollback journal), the other *)
(* processes that lock the file, the operator who invokes the migrator and *)
(* adds files, the crash of the migrator.                                  *)
(***************************************************************************)
EXTENDS Integers, FiniteSets

CONSTANTS
  FirstFiles,  \* migration files there are at first
  MaxFiles,    \* and at most; file f is the f-th by identifier
  Length,      \* number of SQL statements of a file
  Needs,       \* what must be there for a statement
  Bad,         \* statements that are refused with SQLITE_ERROR anyhow
  Options,     \* options the operator uses
  Locks,       \* other processes lock the database
  Faults,      \* any call may fail, in any of SQLite's ways
  Crashes,     \* the migrator may die
  MaxRuns      \* bound: invocations of the migrator

Files == 1 .. MaxFiles

ASSUME FileCounts == FirstFiles \in 0 .. MaxFiles /\ MaxFiles \in Nat

(* The j-th statement of a file makes an object <<file, j>>, a table or an *)
(* index.                                                                  *)
Statements(f) == {f} \X (1 .. Length[f])
Objects == UNION {Statements(f) : f \in Files}

ASSUME Contents == /\ Length \in [Files -> Nat \ {0}]
                   /\ Needs \in [Objects -> SUBSET Objects]
                   /\ Bad \subseteq Objects
ASSUME Choices == /\ Options \subseteq {"plain", "create", "remove", "both"}
                  /\ {Locks, Faults, Crashes} \subseteq BOOLEAN /\ MaxRuns \in Nat

VARIABLES
  exists,     \* there is a database file
  disk,       \* its committed content
  files,      \* files in the migrations directory
  lock,       \* the strongest lock another process holds
  txn,        \* the migrator's transaction: none, open, or writing
  pending,    \* what a writing transaction would commit
  pc,
  n, i, uv,   \* migrate: file_count, i, user_version
  stmt,       \* run_sql: i
  status,     \* how the last invocation ended
  runs,       \* invocations so far (bounds the exploration)
  tainted,    \* since the database was last made anew, a run failed or a
              \* file was added (history)
  passed      \* since then, the files of which a statement, the BEGIN or the
              \* COMMIT was passed over; 0 when a version was (history)

locals == <<n, i, uv, stmt>>
vars == <<exists, disk, files, lock, txn, pending, pc, locals, status,
          runs, tainted, passed>>

Images == [version : Nat, objects : SUBSET Objects]
NewDatabase == [version |-> 0, objects |-> {}]

TypeOK ==
  /\ exists \in BOOLEAN /\ disk \in Images /\ pending \in Images
  /\ files \in 0 .. MaxFiles
  /\ lock \in {"free", "shared", "reserved", "exclusive"}
  /\ txn \in {"none", "open", "writing"}
  /\ pc \in {"idle", "get_version", "init_version", "set_version", "begin",
             "run_sql", "commit", "disconnect"}
  /\ n \in 0 .. MaxFiles /\ i \in 0 .. n /\ uv \in Nat /\ stmt \in Nat
  /\ status \in {"ok", "failed"}
  /\ runs \in Nat /\ tainted \in BOOLEAN /\ passed \subseteq 0 .. MaxFiles
  /\ pc \in {"set_version", "begin", "run_sql", "commit"} => i < n
  /\ pc = "run_sql" => stmt \in 1 .. Length[i + 1]

Init ==
  /\ exists = FALSE /\ disk = NewDatabase /\ files = FirstFiles
  /\ lock = "free" /\ txn = "none" /\ pending = NewDatabase
  /\ pc = "idle" /\ n = 0 /\ i = 0 /\ uv = 0 /\ stmt = 0
  /\ status = "ok" /\ runs = 0
  /\ tainted = FALSE /\ passed = {}

-----------------------------------------------------------------------------
(* External: the directory, other processes, SQLite.                       *)
AddFile ==
  /\ files < MaxFiles
  /\ files' = files + 1
  /\ tainted' = TRUE
  /\ UNCHANGED <<exists, disk, lock, txn, pending, pc, locals, status,
                 runs, passed>>

(* Nobody gets further than a shared lock while the migrator writes. *)
Relock ==
  /\ Locks /\ exists
  /\ \E l \in {"free", "shared", "reserved", "exclusive"} \ {lock} :
       /\ txn = "writing" => l \in {"free", "shared"}
       /\ lock' = l
  /\ UNCHANGED <<exists, disk, files, txn, pending, pc, locals, status,
                 runs, tainted, passed>>

(* What the migrator's connection sees. *)
View == IF txn = "writing" THEN pending ELSE disk

(* A write within a transaction reserves the database, one that is its own *)
(* transaction needs it for itself.                                        *)
CanReadNow  == lock # "exclusive"
CanWriteNow == lock = "free"
CanReserve  == txn = "writing" \/ lock \in {"free", "shared"}
CanChange   == IF txn = "none" THEN CanWriteNow ELSE CanReserve

(* handle_step lets an answer other than ROW, DONE, ERROR and MISUSE pass. *)
(* Some of them (FULL, IOERR, NOMEM) may have rolled back the transaction. *)
PassOver(f) ==
  /\ passed' = passed \cup {f}
  /\ \/ UNCHANGED <<txn, pending>>
     \/ Faults /\ txn # "none" /\ txn' = "none" /\ pending' = NewDatabase
  /\ UNCHANGED disk

(* PRAGMA user_version = v, within the transaction if there is one. *)
WriteVersion(v) ==
  \/ /\ txn # "none" /\ CanChange
     /\ txn' = "writing"
     /\ pending' = [View EXCEPT !.version = v]
     /\ UNCHANGED <<disk, passed>>
  \/ /\ txn = "none" /\ CanChange
     /\ disk' = [disk EXCEPT !.version = v]
     /\ UNCHANGED <<txn, pending, passed>>
  \/ /\ Faults \/ ~CanChange
     /\ PassOver(0)

-----------------------------------------------------------------------------
(* main: parse_args, -c and -r, then find_migrations and db_connect.       *)

(* The process ends; sqlite3_close, or the end of the process, rolls back. *)
Exit(s) ==
  /\ pc' = "idle" /\ status' = s
  /\ txn' = "none" /\ pending' = NewDatabase
  /\ n' = 0 /\ i' = 0 /\ uv' = 0 /\ stmt' = 0

Invoke ==
  /\ pc = "idle" /\ runs < MaxRuns
  /\ runs' = runs + 1

(* is_path(db_path) without -c; -c together with -r. *)
Refuse(opt) ==
  /\ Invoke
  /\ opt = "both" \/ (opt # "create" /\ ~exists)
  /\ status' = "failed"
  /\ UNCHANGED <<exists, disk, files, lock, txn, pending, pc, locals, tainted,
                 passed>>

Accepted(opt) == opt = "create" \/ (opt \in {"plain", "remove"} /\ exists)

(* create_db opens with "w"; clear_migrations removes the file and makes   *)
(* a new one.                                                              *)
PrepareFile(opt) ==
  /\ exists' = TRUE
  /\ IF opt \in {"create", "remove"}
     THEN disk' = NewDatabase /\ tainted' = FALSE /\ passed' = {}
     ELSE UNCHANGED <<disk, tainted, passed>>
  /\ lock' = IF opt = "remove" THEN "free" ELSE lock

FindNothing(opt) ==
  /\ Invoke /\ Accepted(opt)
  /\ files = 0
  /\ PrepareFile(opt)
  /\ status' = "failed"
  /\ UNCHANGED <<files, txn, pending, pc, locals>>

Migrate(opt) ==
  /\ Invoke /\ Accepted(opt)
  /\ files > 0
  /\ PrepareFile(opt)
  /\ pc' = "get_version"
  /\ n' = files
  /\ UNCHANGED <<files, txn, pending, i, uv, stmt, status>>

-----------------------------------------------------------------------------
(* migrate.                                                                *)

(* Mutant: an exit test that takes version 1 for one file applied. *)
IterateShort(j, v) ==
  /\ pc' = IF j < n /\ n # v THEN "set_version" ELSE "disconnect"
  /\ i' = j /\ uv' = v /\ stmt' = 0
  /\ UNCHANGED n

(* The head of the loop, with j for i and v for user_version. *)
Iterate(j, v) ==
  /\ pc' = IF j < n /\ n # v - 1 THEN "set_version" ELSE "disconnect"
  /\ i' = j /\ uv' = v /\ stmt' = 0
  /\ UNCHANGED n

(* Mutant: the version of the files applied before this one. *)
CurrentVersion == uv

NextVersion == uv + 1
File == i + 1

(* Mutants: the version is initialised whatever it is; the loop resumes    *)
(* where the version says the last run was.                                *)
GetNoVersion ==
  /\ pc = "get_version"
  /\ pc' = "init_version" /\ uv' = 0
  /\ passed' = IF CanReadNow THEN passed ELSE passed \cup {0}
  /\ UNCHANGED <<exists, disk, files, lock, txn, pending, n, i, stmt, status,
                 runs, tainted>>
ResumeAtVersion ==
  /\ pc = "get_version"
  /\ IF disk.version < 1 THEN pc' = "init_version" /\ UNCHANGED <<n, i, uv, stmt>>
     ELSE Iterate(disk.version - 1, disk.version)
  /\ UNCHANGED <<exists, disk, files, lock, txn, pending, status, runs,
                 tainted, passed>>

(* A step that gave no row, under an exclusive lock for one: column 0      *)
(* reads as 0.                                                             *)
GetUserVersion ==
  /\ pc = "get_version"
  /\ \/ /\ CanReadNow /\ disk.version >= 1
        /\ Iterate(0, disk.version)
        /\ UNCHANGED passed
     \/ /\ CanReadNow /\ disk.version < 1
        /\ pc' = "init_version" /\ uv' = disk.version
        /\ UNCHANGED <<n, i, stmt, passed>>
     \/ /\ Faults \/ ~CanReadNow
        /\ pc' = "init_version" /\ uv' = 0
        /\ passed' = passed \cup {0}
        /\ UNCHANGED <<n, i, stmt>>
  /\ UNCHANGED <<exists, disk, files, lock, txn, pending, status, runs, tainted>>

InitUserVersion ==
  /\ pc = "init_version"
  /\ WriteVersion(1)
  /\ Iterate(0, 1)
  /\ UNCHANGED <<exists, files, lock, status, runs, tainted>>

SetUserVersion ==
  /\ pc = "set_version"
  /\ WriteVersion(NextVersion)
  /\ pc' = "begin"
  /\ UNCHANGED <<exists, files, lock, locals, status, runs, tainted>>

BeginTransaction ==
  /\ pc = "begin" /\ txn = "none"
  /\ pc' = "run_sql" /\ stmt' = 1
  /\ \/ txn' = "open" /\ UNCHANGED <<disk, pending, passed>>
     \/ Faults /\ PassOver(File)
  /\ UNCHANGED <<exists, files, lock, n, i, uv, status, runs, tainted>>

(* Mutant: what was written before the failure is committed. *)
ApplyFailsHalfway ==
  /\ Exit("failed")
  /\ tainted' = TRUE
  /\ disk' = View
  /\ UNCHANGED <<exists, files, lock, runs, passed>>

ApplyFails ==
  /\ Exit("failed")
  /\ tainted' = TRUE
  /\ UNCHANGED <<exists, disk, files, lock, runs, passed>>

(* A transaction whose COMMIT was passed over may still be open.           *)
BeginFails == pc = "begin" /\ txn # "none" /\ ApplyFails

(* One that was rolled back, or never began, cannot be committed.          *)
CommitFails == pc = "commit" /\ txn = "none" /\ ApplyFails

(* Any of the calls may fail for a reason of its own. *)
CallFails ==
  /\ Faults
  /\ pc \notin {"idle", "disconnect"}
  /\ ApplyFails

(* Mutant: one statement more than the file has. *)
AfterStatementPast ==
  IF stmt <= Length[File] THEN stmt' = stmt + 1 /\ UNCHANGED pc
                          ELSE stmt' = 0 /\ pc' = "commit"

AfterStatement ==
  IF stmt < Length[File] THEN stmt' = stmt + 1 /\ UNCHANGED pc
                         ELSE stmt' = 0 /\ pc' = "commit"

(* sqlite3_prepare_v2 or the step answers SQLITE_ERROR. *)
Refused ==
  \/ <<File, stmt>> \in View.objects \cup Bad
  \/ ~(Needs[<<File, stmt>>] \subseteq View.objects)

(* sqlite3_prepare_v2 may need the schema of a locked file; it may have it *)
(* already, then the step is the one that is busy.                         *)
StatementFails ==
  /\ pc = "run_sql"
  /\ Refused \/ (txn # "writing" /\ ~CanReadNow)
  /\ ApplyFails

StatementRuns ==
  /\ pc = "run_sql" /\ ~Refused /\ txn # "none" /\ CanChange
  /\ txn' = "writing"
  /\ pending' = [View EXCEPT !.objects = @ \cup {<<File, stmt>>}]
  /\ AfterStatement
  /\ UNCHANGED <<exists, disk, files, lock, n, i, uv, status, runs, tainted,
                 passed>>

(* Behind a transaction that is gone, a statement is one of its own. *)
StatementRunsAlone ==
  /\ pc = "run_sql" /\ ~Refused /\ txn = "none" /\ CanChange
  /\ disk' = [disk EXCEPT !.objects = @ \cup {<<File, stmt>>}]
  /\ AfterStatement
  /\ UNCHANGED <<exists, files, lock, txn, pending, n, i, uv, status, runs,
                 tainted, passed>>

StatementSkipped ==
  /\ pc = "run_sql" /\ ~Refused
  /\ Faults \/ ~CanChange
  /\ PassOver(File)
  /\ AfterStatement
  /\ UNCHANGED <<exists, files, lock, n, i, uv, status, runs, tainted>>

(* commit_transaction, "Applied Migration %s", and the next iteration. *)
Applied == Iterate(i + 1, NextVersion)

Commit ==
  /\ pc = "commit" /\ txn # "none"
  /\ txn = "writing" => CanWriteNow
  /\ disk' = View
  /\ txn' = "none" /\ pending' = NewDatabase
  /\ Applied
  /\ UNCHANGED <<exists, files, lock, status, runs, tainted, passed>>

(* Mutant: COMMIT is tried until it is not busy. *)
CommitRetried ==
  /\ pc = "commit" /\ txn = "writing" /\ ~CanWriteNow
  /\ passed' = passed \cup {File}
  /\ UNCHANGED <<exists, disk, files, lock, txn, pending, pc, locals, status,
                 runs, tainted>>

(* The file counts as applied; the transaction may still be open. *)
CommitSkipped ==
  /\ pc = "commit" /\ txn # "none"
  /\ Faults \/ (txn = "writing" /\ ~CanWriteNow)
  /\ PassOver(File)
  /\ Applied
  /\ UNCHANGED <<exists, files, lock, status, runs, tainted>>

Disconnect ==
  /\ pc = "disconnect"
  /\ Exit("ok")
  /\ UNCHANGED <<exists, disk, files, lock, runs, tainted, passed>>

Crash == Crashes /\ pc # "idle" /\ ApplyFails

-----------------------------------------------------------------------------
Proceed ==
  \/ GetUserVersion \/ InitUserVersion \/ SetUserVersion
  \/ BeginTransaction \/ BeginFails
  \/ StatementFails \/ StatementRuns \/ StatementRunsAlone
  \/ StatementSkipped
  \/ Commit \/ CommitFails \/ CommitSkipped \/ Disconnect

Step == Proceed \/ CallFails

Operator == \E opt \in Options : Refuse(opt) \/ FindNothing(opt) \/ Migrate(opt)

Next == Step \/ Operator \/ Crash \/ AddFile \/ Relock

Spec == Init /\ [][Next]_vars

(* The migrator is a process that runs: a busy statement waits 5 seconds   *)
(* at most.  Nothing relies on a fault to end it.                          *)
FairSpec == Spec /\ WF_vars(Proceed)

-----------------------------------------------------------------------------
(* Properties. *)

Complete(f) == Statements(f) \subseteq disk.objects

(* A file takes effect as a whole or not at all (apply_migration,          *)
(* main.c:14-32), whatever crashes, refusals, locks and earlier runs do to *)
(* its transaction, unless SQLite's answer to its BEGIN, to its COMMIT or  *)
(* to one of its statements was passed over (sql.c:64-84).                 *)
PerFileAtomic ==
  \A f \in Files \ passed :
    Complete(f) \/ Statements(f) \cap disk.objects = {}

(* user_version is never behind the files that are applied (main.c:14-32,  *)
(* 66-73): the loop's exit test, file_count = user_version - 1, can then   *)
(* not run a database's files a second time when they are all applied.     *)
(* Only a version whose reading or writing was passed over may be wrong,   *)
(* no statement or COMMIT that was.                                        *)
VersionNeverBehind ==
  0 \notin passed =>
    \A k \in 1 .. MaxFiles :
      (\A f \in 1 .. k : Complete(f)) => disk.version > k

(* Files are applied in the order of their identifiers, without a gap      *)
(* (main.c:94-121), also over the runs that follow a crash, a refusal or a *)
(* lock: the schema a file was written for is there, but for the files of  *)
(* which something was passed over, which the loop takes for applied.      *)
AppliedInOrder ==
  \A f \in Files \ passed : \A g \in Files :
    f < g /\ Statements(g) \cap disk.objects # {} => Complete(f)

(* A run that ends with status 0 leaves every file applied and the version *)
(* that says so (main.c:34-129): on a database made anew with -c or -r,    *)
(* whatever happened to the one before, and again on every later run, as   *)
(* long as no run failed and no file was added since.  The files of which  *)
(* something was passed over are the only ones that may be missing.        *)
OkMeansComplete ==
  (pc = "idle" /\ status = "ok" /\ exists /\ ~tainted /\ 0 \notin passed) =>
    /\ disk.version = files + 1
    /\ \A f \in (1 .. files) \ passed : Complete(f)

(* Only an operator's -c or -r makes the version go back (sql.c:180-204),  *)
(* or a version whose reading or writing was passed over.                  *)
VersionMonotone ==
  [][disk'.version < disk.version => runs' > runs \/ 0 \in passed]_vars

(* An invocation comes to an end, however long others hold their locks     *)
(* (sql.c:64-88, main.c:94-121).                                           *)
RunEnds == pc # "idle" ~> pc = "idle"

(* "This is the VERSION number (1-indexed)", "Convert to array index       *)
(* (0-indexed)" (main.c:100-101): the file applied is the one its version  *)
(* number stands for; version 1 is the empty database.                     *)
VersionNamesFile == pc = "run_sql" => File = NextVersion - 1
=============================================================================
