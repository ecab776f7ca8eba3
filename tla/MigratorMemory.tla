--------------------------- MODULE MigratorMemory ---------------------------
(***************************************************************************)
(* The migrator's memory: the arena of migrator/mem.c and one invocation's *)
(* use of it, from parse_args over the two readings of the directory and   *)
(* the files' texts to the statements run_sql cuts out of them.            *)
(*                                                                         *)
(* Everything lives in one arena, block behind block, and the texts of the *)
(* files have no terminator: what ends a text is the padding before the    *)
(* next block.  Addresses count from the arena's header.                   *)
(*                                                                         *)
(* External: the operator, the directory and what else is put into it, the *)
(* kernel's answers, the database's.                                       *)
(***************************************************************************)
EXTENDS Integers, FiniteSets, FiniteSetsExt

CONSTANTS
  Bits,        \* width of mem_t
  Reserve,     \* arena_init's two sizes, in whole pages
  Commit,
  PathSize,    \* bytes of the buffer of a path
  PathLens,    \* lengths of the paths the operator names
  FileSizes,   \* lengths of migration files
  Statements,  \* numbers of statements of a text
  MaxFiles,    \* bound: .sql files in the directory
  MaxOthers    \* bound: other files in it

Base == 32       \* ARENA_BASE_POS, the header
Align == 8       \* ARENA_ALIGN
Pointer == 8     \* sizeof(char *)
ArgsSize == 40   \* sizeof(db_args_t)
EntrySize == 16  \* sizeof(migration_t): identifier, then path
Word == 2 ^ Bits

Files == 1 .. MaxFiles

ASSUME Sizes ==
  /\ Bits \in Nat /\ Reserve \in Nat /\ Commit \in 1 .. Reserve
  /\ PathSize \in Nat /\ PathLens \subseteq 0 .. (PathSize - 1)
  /\ FileSizes \subseteq Nat /\ Statements \subseteq Nat
  /\ MaxFiles \in Nat /\ MaxOthers \in Nat
ASSUME PowersAreNumbers == \A b \in 0 .. Bits : 2 ^ b \in Nat \ {0}
ASSUME ReserveInWord == Reserve + Align < Word
ASSUME RoomForArguments ==
  Base + ArgsSize + 3 * (PathSize + Align) <= Reserve

VARIABLES
  arena,     \* position, commit_position, and the blocks in use
  pc, opt, dbPath,
  dir,       \* the directory: .sql files, others
  counted,   \* find_migrations: count, entry_idx, pos
  entries,
  mark,
  cur,       \* migrate: file_idx, then i (from 1)
  buf,       \* sql_bufs
  outcome,
  lost,      \* entries whose path was written over (history)
  grown,     \* .sql files that came while the directory was read (history)
  popped     \* something was popped off the arena (history)

found == <<dir, counted, entries, mark, lost, grown>>
vars == <<arena, pc, opt, dbPath, found, cur, buf, outcome, popped>>

NoText == [at |-> 0, size |-> 0]
Kinds == {"args", "migrations_path", "db_path", "name", "migrations", "path",
          "sql_bufs", "file", "tokens"}
Blocks == [what : Kinds, of : Nat, from : Nat, size : Nat]

TypeOK ==
  /\ arena \in [position : 0 .. (Word - 1), commit : 0 .. Reserve,
                blocks : SUBSET Blocks]
  /\ pc \in {"args", "new", "count", "fill", "check", "read", "apply", "done"}
  /\ opt \in {"migrate", "new"} /\ dbPath \in PathLens
  /\ dir \in [sql : 0 .. MaxFiles, others : 0 .. MaxOthers]
  /\ counted \in 0 .. (MaxFiles + MaxOthers)
  /\ entries \in 0 .. dir.sql /\ mark \in Nat
  /\ cur \in 1 .. (MaxFiles + 1) /\ buf \in [Files -> [at : Nat, size : Nat]]
  /\ outcome \in {"none", "ok", "failed", "died"}
  /\ lost \subseteq Files /\ grown \in 0 .. MaxFiles /\ popped \in BOOLEAN
  /\ pc \in {"read", "apply"} => cur \in 1 .. (entries + 1)

-----------------------------------------------------------------------------
(* The arena.                                                              *)

Bit(x, b) == (x \div 2 ^ b) % 2

(* x & y *)
And(x, y) ==
  LET low[b \in 0 .. Bits] ==
        IF b = 0 THEN 0
        ELSE low[b - 1] + Bit(x, b - 1) * Bit(y, b - 1) * 2 ^ (b - 1)
  IN  low[Bits]

(* Mutant: bytes are not aligned. *)
AlignUpNot(num) == num % Word

(* ALIGN_UP_TO_POW2 by a power of two rounds up to a multiple of it; by    *)
(* anything else it clears the bits of pow - 1, whichever they are.        *)
AlignUp(num) == (((num + Align - 1) \div Align) * Align) % Word
AlignUpBy(num, pow) ==
  LET mask == (pow - 1) % Word
      sum  == (num + mask) % Word
  IN  sum - And(sum, mask)

Fresh == [position |-> Base, commit |-> Commit, blocks |-> {}]

End(b) == b.from + b.size

(* Mutant: the position moves on by the size alone, without the padding.   *)
NewPositionUnpadded(a, size) == (a.position + size) % Word

NewPosition(a, size) == (AlignUp(a.position) + size) % Word

(* arena_push answers NULL where there is no room; what it answers         *)
(* otherwise is the arena's memory, unless the position has wrapped.       *)
HasRoom(a, size) == NewPosition(a, size) <= Reserve
InArena(a, size) == AlignUp(a.position) + size <= Reserve

(* Mutant: as much is committed as chunks are needed, whatever is reserved. *)
CommitToWhole(position) ==
  LET up == position + Commit - 1 IN up - (up % Commit)

CommitTo(position) ==
  LET up == position + Commit - 1 IN Min({up - (up % Commit), Reserve})

Pushed(a, what, of, size) ==
  LET position == NewPosition(a, size) IN
    [position |-> position,
     commit   |-> IF position > a.commit THEN CommitTo(position) ELSE a.commit,
     blocks   |-> a.blocks \cup {[what |-> what, of |-> of,
                                  from |-> AlignUp(a.position), size |-> size]}]

(* arena_pop_to, to give back the blocks of a kind. *)
PoppedTo(a, pos, what, of) ==
  LET size == IF pos < a.position THEN a.position - pos ELSE 0 IN
    [a EXCEPT !.position = (@ - AlignUpBy(size, @ - Base)) % Word,
              !.blocks = {b \in @ : b.what # what \/ b.of # of}]

(* arena_strdup: a buffer of fixed size, zero behind the text. *)
Dup(a, what, of) == Pushed(a, what, of, PathSize)

Overlap(b, c) == b.from < End(c) /\ c.from < End(b)

(* Memory nobody uses: behind the header, outside every block. *)
Free(a, size) ==
  LET b == [from |-> AlignUp(a.position), size |-> size] IN
    size > 0 => b.from >= Base /\ \A c \in a.blocks : ~Overlap(b, c)

Init ==
  /\ arena = Fresh /\ pc = "args"
  /\ opt \in {"migrate", "new"} /\ dbPath \in PathLens
  /\ dir \in [sql : 0 .. MaxFiles, others : 0 .. MaxOthers]
  /\ counted = 0 /\ entries = 0 /\ mark = 0
  /\ cur = 1 /\ buf = [f \in Files |-> NoText]
  /\ outcome = "none" /\ lost = {} /\ grown = 0 /\ popped = FALSE

Finish(o) == pc' = "done" /\ outcome' = o

(* What a caller does that pushes and uses what it gets.  NULL, or memory  *)
(* outside the arena, is written to at once: the process dies.  Written    *)
(* over blocks in use, or over the header, it may end in any way.          *)
PushDies(size) ==
  /\ size > 0
  /\ ~HasRoom(arena, size) \/ ~InArena(arena, size)
  /\ Finish("died")
  /\ UNCHANGED arena

PushSpoils(size) ==
  /\ HasRoom(arena, size) /\ InArena(arena, size) /\ ~Free(arena, size)
  /\ \E o \in {"ok", "failed", "died"} : Finish(o)
  /\ UNCHANGED arena

PushFits(size) ==
  HasRoom(arena, size) /\ InArena(arena, size) /\ Free(arena, size)

PushFails(size) == PushDies(size) \/ PushSpoils(size)

-----------------------------------------------------------------------------
(* parse_args: the arguments and copies of the paths.                      *)
ParseArgs ==
  /\ pc = "args"
  /\ LET a == Dup(Dup(Pushed(arena, "args", 0, ArgsSize),
                     "migrations_path", 0), "db_path", 0)
     IN  IF opt = "new" THEN arena' = Dup(a, "name", 0) /\ pc' = "new"
                        ELSE arena' = a /\ pc' = "count"
  /\ UNCHANGED <<opt, dbPath, found, cur, buf, outcome, popped>>

(* create_migration_file: two buffers in a temporary arena.  The program   *)
(* ends behind it.                                                         *)
CreateMigrationFile(len) ==
  /\ pc = "new" /\ opt = "new"
  /\ PushFits(len + 2)
  /\ LET a == Pushed(arena, "path", 0, len + 2) IN
       /\ HasRoom(a, PathSize) /\ InArena(a, PathSize)
       /\ arena' = PoppedTo(Dup(a, "path", 0), arena.position, "path", 0)
  /\ popped' = TRUE
  /\ Finish("ok") \/ Finish("failed")
  /\ UNCHANGED <<opt, dbPath, found, cur, buf>>

-----------------------------------------------------------------------------
(* find_migrations reads the directory twice.                              *)

(* Mutant: the first reading counts the .sql files only. *)
CountSqlEntries ==
  /\ pc = "count"
  /\ mark' = arena.position
  /\ counted' = dir.sql
  /\ \/ dir.sql = 0 /\ Finish("failed") /\ UNCHANGED arena
     \/ /\ dir.sql > 0 /\ PushFits(EntrySize * dir.sql)
        /\ arena' = Pushed(arena, "migrations", 0, EntrySize * dir.sql)
        /\ pc' = "fill" /\ UNCHANGED outcome
  /\ UNCHANGED <<opt, dbPath, dir, entries, cur, buf, lost, grown, popped>>

CountEntries ==
  /\ pc = "count"
  /\ mark' = arena.position
  /\ LET n == dir.sql + dir.others IN
       /\ counted' = n
       /\ \/ n = 0 /\ Finish("failed") /\ UNCHANGED arena
          \/ /\ n > 0 /\ PushFits(EntrySize * n)
             /\ arena' = Pushed(arena, "migrations", 0, EntrySize * n)
             /\ pc' = "fill" /\ UNCHANGED outcome
          \/ n > 0 /\ PushFails(EntrySize * n)
  /\ UNCHANGED <<opt, dbPath, dir, entries, cur, buf, lost, grown, popped>>

(* Somebody puts a file into the directory between the two readings. *)
GrowDirectory ==
  /\ pc = "fill" /\ dir.sql < MaxFiles
  /\ dir' = [dir EXCEPT !.sql = @ + 1]
  /\ grown' = grown + 1
  /\ UNCHANGED <<arena, pc, opt, dbPath, counted, entries, mark, cur, buf,
                 outcome, lost, popped>>

Array == CHOOSE b \in arena.blocks : b.what = "migrations"

(* migrations[k] for the k-th entry. *)
Entry(k) == [from |-> Array.from + EntrySize * (k - 1), size |-> EntrySize]

FillEntry ==
  /\ pc = "fill" /\ entries < dir.sql
  /\ entries' = entries + 1
  /\ \/ /\ PushFits(PathSize)
        /\ arena' = Dup(arena, "path", entries')
        /\ lost' = {b.of : b \in {c \in arena'.blocks :
                      \/ c.what = "path" /\ Overlap(c, Entry(entries'))
                      \/ c.what = "path" /\ c.of \in lost}}
        /\ UNCHANGED <<pc, outcome>>
     \/ PushFails(PathSize) /\ UNCHANGED lost
  /\ UNCHANGED <<opt, dbPath, dir, counted, mark, cur, buf, grown, popped>>

ReadWhole ==
  /\ pc = "fill" /\ entries = dir.sql
  /\ pc' = "check"
  /\ UNCHANGED <<arena, opt, dbPath, found, cur, buf, outcome, popped>>

(* Without an entry migrations[-1].path is looked at: the bytes before the *)
(* array, which end the buffer of db_path.                                 *)
BytesBeforeArrayAreZero == dbPath + Pointer <= PathSize

NoSqlFiles ==
  /\ pc = "check" /\ entries = 0 /\ BytesBeforeArrayAreZero
  /\ arena' = PoppedTo(arena, mark, "migrations", 0)
  /\ popped' = TRUE
  /\ Finish("failed")
  /\ UNCHANGED <<opt, dbPath, found, cur, buf>>

(* Mutant: validate_migration_format does not mind that there are none. *)
CanBeEmpty == TRUE

(* validate_migration_format: some, not timestamps and numbers mixed. *)
CanBeValid == entries > 0
MayBeMixed == entries > 1

Listed == pc = "check" /\ (entries > 0 \/ ~BytesBeforeArrayAreZero)

InvalidFormat ==
  /\ Listed /\ (~CanBeValid \/ MayBeMixed)
  /\ Finish("failed")
  /\ UNCHANGED <<arena, opt, dbPath, found, cur, buf, popped>>

-----------------------------------------------------------------------------
(* migrate: the texts of the files, then their statements.                 *)

(* The database cannot be opened, its version not read or set. *)
OpenDatabaseFails ==
  /\ Listed /\ CanBeValid
  /\ Finish("failed")
  /\ UNCHANGED <<arena, opt, dbPath, found, cur, buf, popped>>

PushTexts ==
  /\ Listed /\ CanBeValid
  /\ \/ /\ PushFits(Pointer * entries)
        /\ arena' = Pushed(arena, "sql_bufs", 0, Pointer * entries)
        /\ pc' = "read" /\ UNCHANGED outcome
     \/ PushFails(Pointer * entries)
  /\ UNCHANGED <<opt, dbPath, found, cur, buf, popped>>

Reading == pc = "read" /\ cur <= entries

(* A path that was written over names nothing; any file may be gone. *)
OpenFails ==
  /\ Reading
  /\ cur' = cur + 1
  /\ UNCHANGED <<arena, pc, opt, dbPath, found, buf, outcome, popped>>

ReadFile(size) ==
  /\ Reading /\ cur \notin lost
  /\ \/ /\ PushFits(size)
        /\ arena' = Pushed(arena, "file", cur, size)
        /\ buf' = [buf EXCEPT ![cur] = [at |-> AlignUp(arena.position), size |-> size]]
        /\ cur' = cur + 1 /\ UNCHANGED <<pc, outcome>>
     \/ PushFails(size) /\ UNCHANGED <<buf, cur>>
  /\ UNCHANGED <<opt, dbPath, found, popped>>

(* fread got less than ftell said: the buffer is given back, sql_bufs has  *)
(* NULL, and the next file is read.                                        *)
ReadShort(size) ==
  /\ Reading /\ cur \notin lost
  /\ size > 0 /\ PushFits(size)
  /\ arena' = PoppedTo(Pushed(arena, "file", cur, size), arena.position,
                       "file", cur)
  /\ popped' = TRUE
  /\ cur' = cur + 1
  /\ UNCHANGED <<pc, opt, dbPath, found, buf, outcome>>

AllRead ==
  /\ pc = "read" /\ cur > entries
  /\ pc' = "apply" /\ cur' = 1
  /\ UNCHANGED <<arena, opt, dbPath, found, buf, outcome, popped>>

(* The loop is done, or the version says that everything is applied. *)
AllApplied ==
  /\ pc = "apply"
  /\ Finish("ok")
  /\ UNCHANGED <<arena, opt, dbPath, found, cur, buf, popped>>

Applying == pc = "apply" /\ cur <= entries

(* set_user_version, BEGIN or run_sql fails; run_sql does for a NULL text. *)
ApplyFails ==
  /\ Applying
  /\ Finish("failed")
  /\ UNCHANGED <<arena, opt, dbPath, found, cur, buf, popped>>

(* arena_split_by_delim: the pointers to n statements, and copies of them  *)
(* (one block here for the copies, each with a byte for its end).          *)
RunSql(n) ==
  /\ Applying /\ buf[cur] # NoText
  /\ LET size == Pointer * n + buf[cur].size + n IN
       \/ /\ PushFits(size)
          /\ arena' = Pushed(arena, "tokens", cur, size)
          /\ cur' = cur + 1 /\ UNCHANGED <<pc, outcome>>
       \/ PushFails(size) /\ UNCHANGED cur
  /\ UNCHANGED <<opt, dbPath, found, buf, popped>>

-----------------------------------------------------------------------------
Next ==
  \/ ParseArgs \/ (\E len \in PathLens : CreateMigrationFile(len))
  \/ CountEntries \/ GrowDirectory \/ FillEntry \/ ReadWhole
  \/ NoSqlFiles \/ InvalidFormat
  \/ OpenDatabaseFails \/ PushTexts \/ OpenFails
  \/ (\E size \in FileSizes : ReadFile(size) \/ ReadShort(size)) \/ AllRead
  \/ AllApplied \/ ApplyFails \/ (\E n \in Statements : RunSql(n))

Spec == Init /\ [][Next]_vars

-----------------------------------------------------------------------------
(* Properties. *)

(* Nothing the migrator keeps in its arena lies on top of something else   *)
(* it keeps there, on the arena's header, or in memory that was never      *)
(* committed (mem.c:75-110), as long as nothing was popped: after a short  *)
(* read arena_pop gives back more than was asked for.                      *)
Apart ==
  ~popped =>
    /\ \A b \in arena.blocks :
         b.from >= Base /\ End(b) <= arena.commit /\ arena.commit <= Reserve
    /\ \A b \in arena.blocks, c \in arena.blocks : b # c => ~Overlap(b, c)

(* The bytes from lo to hi hold texts of files without a gap. *)
Filled(lo, hi) ==
  \A x \in lo .. (hi - 1) :
    \E b \in arena.blocks : b.what = "file" /\ b.from <= x /\ x < End(b)

(* The blocks that strchr and strlen reach from the text of file f. *)
Reached(f) ==
  {b \in arena.blocks : /\ b.size > 0 /\ b.from >= buf[f].at
                        /\ Filled(buf[f].at, b.from)}

(* What run_sql takes for the text of a file is that file's text and ends  *)
(* with it (file.c:17-20, mem.c:196-204): the zero bytes that fill up its  *)
(* last word are its terminator, so a file whose length is a multiple of 8 *)
(* has none, and an empty one is read as the file behind it.               *)
OwnText ==
  (~popped /\ pc = "apply") =>
    \A f \in 1 .. entries :
      buf[f].size % Align # 0 =>
        Reached(f) = {b \in arena.blocks : b.what = "file" /\ b.of = f}

(* The array of entries is made for the files of the first reading and     *)
(* written for those of the second (sql.c:293-336): no entry lands on a    *)
(* path, unless more .sql files come in between than there are others.     *)
PathsKept == grown <= dir.others => lost = {}

(* The look at migrations[-1] (sql.c:337) does not make an invocation that *)
(* found no .sql file go on: it ends as failed.                            *)
NothingFoundFails ==
  (pc = "done" /\ opt = "migrate" /\ entries = 0) => outcome # "ok"
=============================================================================
