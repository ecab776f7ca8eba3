------------------------ MODULE MigratorMemoryProofs ------------------------
(***************************************************************************)
(* Theorems about MigratorMemory, for every size of the arena, of paths    *)
(* and of files, and any number of files.                                  *)
(***************************************************************************)
EXTENDS MigratorMemory, WellFoundedInduction, TLAPS

-----------------------------------------------------------------------------
(* The arena, as long as nothing was popped: blocks that start at a word   *)
(* and end before the position, and memory committed under all of them.    *)
Placed(a) ==
  /\ a = [position |-> a.position, commit |-> a.commit, blocks |-> a.blocks]
  /\ a.position \in Nat /\ Base <= a.position /\ a.position <= Reserve
  /\ a.commit \in Nat /\ a.commit <= Reserve
  /\ \A b \in a.blocks :
       /\ b.from \in Nat /\ b.size \in Nat /\ b.from % Align = 0
       /\ Base <= b.from /\ End(b) <= a.position /\ End(b) <= a.commit
  /\ \A b \in a.blocks, c \in a.blocks : b # c => ~Overlap(b, c)

NewBlock(a, what, of, size) ==
  [what |-> what, of |-> of, from |-> AlignUp(a.position), size |-> size]

LEMMA WordIsNumber == Word \in Nat
  BY Sizes, PowersAreNumbers DEF Word

LEMMA WithinWord == ASSUME NEW x \in Nat, x <= Reserve + Align PROVE x % Word = x
  BY Sizes, ReserveInWord, WordIsNumber DEF Align

LEMMA Aligned ==
  ASSUME NEW x \in Nat, x <= Reserve
  PROVE  /\ AlignUp(x) \in Nat /\ AlignUp(x) % Align = 0
         /\ x <= AlignUp(x) /\ AlignUp(x) < x + Align
<1> DEFINE up == ((x + Align - 1) \div Align) * Align
<1>1. up \in Nat /\ up % Align = 0 /\ x <= up /\ up < x + Align
  BY DEF Align
<1>2. up % Word = up
  BY <1>1, WithinWord, Sizes DEF Align
<1> QED BY <1>1, <1>2 DEF AlignUp

LEMMA SmallerOfTwo ==
  ASSUME NEW x \in Nat, NEW y \in Nat PROVE Min({x, y}) = IF x <= y THEN x ELSE y
  BY DEF Min

(* arena_push commits to the new position and no further than is reserved. *)
LEMMA Committed ==
  ASSUME NEW x \in Nat, x <= Reserve
  PROVE  CommitTo(x) \in Nat /\ x <= CommitTo(x) /\ CommitTo(x) <= Reserve
<1> DEFINE up == x + Commit - 1
<1>1. Commit \in Nat \ {0} /\ Reserve \in Nat /\ up \in Nat
  BY Sizes
<1>2. up % Commit \in 0 .. (Commit - 1)
  BY <1>1
<1>3. up - (up % Commit) \in Nat /\ x <= up - (up % Commit)
  <2> HIDE DEF up
  <2>1. up % Commit <= Commit - 1 /\ up % Commit >= 0 /\ up % Commit \in Int
    BY <1>1, <1>2
  <2>2. up = x + Commit - 1
    BY DEF up
  <2> QED BY <1>1, <2>1, <2>2
<1>4. CommitTo(x) = Min({up - (up % Commit), Reserve})
  BY DEF CommitTo
<1> HIDE DEF up
<1> QED BY <1>1, <1>3, <1>4, SmallerOfTwo

(* What is pushed where there is room lies behind everything else. *)
LEMMA PushedPlaced ==
  ASSUME NEW a, Placed(a), NEW what, NEW of, NEW size \in Nat, InArena(a, size)
  PROVE  /\ Placed(Pushed(a, what, of, size))
         /\ Pushed(a, what, of, size).blocks
              = a.blocks \cup {NewBlock(a, what, of, size)}
         /\ \A c \in a.blocks : End(c) <= AlignUp(a.position)
         /\ Free(a, size)
<1> DEFINE at == AlignUp(a.position)
           b == NewBlock(a, what, of, size)
           r == Pushed(a, what, of, size)
<1>1. at \in Nat /\ at % Align = 0 /\ a.position <= at
  BY Aligned DEF Placed
<1>2. at + size <= Reserve /\ at + size \in Nat
  BY <1>1 DEF InArena
<1>3. NewPosition(a, size) = at + size
  BY <1>1, <1>2, WithinWord, Sizes DEF NewPosition, Align
<1>4. /\ r.position = at + size /\ r.blocks = a.blocks \cup {b}
      /\ r = [position |-> r.position, commit |-> r.commit, blocks |-> r.blocks]
      /\ r.commit = IF at + size > a.commit THEN CommitTo(at + size) ELSE a.commit
  BY <1>3 DEF Pushed, NewBlock
<1>5. /\ r.commit \in Nat /\ r.commit <= Reserve
      /\ at + size <= r.commit /\ a.commit <= r.commit
  <2>1. a.commit \in Nat /\ a.commit <= Reserve /\ Reserve \in Nat
    BY Sizes DEF Placed
  <2>2. CommitTo(at + size) \in Nat /\ at + size <= CommitTo(at + size)
        /\ CommitTo(at + size) <= Reserve
    BY <1>2, Committed
  <2> HIDE DEF at, r
  <2> QED BY <1>1, <1>2, <1>4, <2>1, <2>2
<1>6. b.from = at /\ b.size = size /\ End(b) = at + size
  BY DEF NewBlock, End
<1>7. \A c \in a.blocks : c.from \in Nat /\ c.size \in Nat /\ End(c) \in Nat
                          /\ Base <= c.from /\ End(c) <= at /\ End(c) <= a.commit
                          /\ c.from % Align = 0
  BY <1>1 DEF Placed, End
<1>8. \A c \in a.blocks : ~Overlap(b, c) /\ ~Overlap(c, b)
  <2> HIDE DEF at, b
  <2> QED BY <1>1, <1>6, <1>7 DEF Overlap
<1>9. \A c \in r.blocks, d \in r.blocks : c # d => ~Overlap(c, d)
  <2> HIDE DEF b, r
  <2> QED BY <1>4, <1>8 DEF Placed
<1>10. Base <= at
  BY <1>1 DEF Placed, Base
<1>11. Placed(r)
  <2> HIDE DEF at, b, r
  <2>1. \A c \in r.blocks :
          /\ c.from \in Nat /\ c.size \in Nat /\ c.from % Align = 0
          /\ Base <= c.from /\ End(c) <= r.position /\ End(c) <= r.commit
    <3>1. CASE a.blocks = {}
      BY <1>1, <1>2, <1>4, <1>5, <1>6, <1>10, <3>1
    <3>2. a.commit \in Nat
      BY DEF Placed
    <3> QED BY <1>1, <1>2, <1>4, <1>5, <1>6, <1>7, <1>10, <3>2
  <2>2. r.position \in Nat /\ Base <= r.position /\ r.position <= Reserve
    BY <1>1, <1>2, <1>4, <1>10 DEF Base
  <2> QED BY <1>4, <1>5, <1>9, <2>1, <2>2 DEF Placed
<1>12. Free(a, size)
  <2>1. \A c \in a.blocks : ~Overlap([from |-> at, size |-> size], c)
    BY <1>1, <1>7 DEF Overlap, End
  <2> QED BY <1>10, <2>1 DEF Free
<1> QED BY <1>4, <1>7, <1>11, <1>12

(* Where nothing was popped, what a push answers is memory nobody uses.    *)
LEMMA NothingSpoiled ==
  ASSUME Placed(arena), NEW size \in Nat PROVE ~PushSpoils(size)
  BY PushedPlaced DEF PushSpoils

LEMMA FreshPlaced == Placed(Fresh)
  BY Sizes, RoomForArguments DEF Placed, Fresh, Base, ArgsSize, Align

-----------------------------------------------------------------------------
(* The variables, and what the stages of an invocation know of them.       *)
Shape ==
  /\ dir \in [sql : 0 .. MaxFiles, others : Nat] /\ entries \in 0 .. dir.sql
  /\ counted \in Nat /\ grown \in Nat /\ cur \in Nat \ {0}
  /\ buf = [f \in Files |-> buf[f]] /\ \A f \in Files : buf[f].size \in Nat
  /\ popped \in BOOLEAN

Stages ==
  /\ pc = "args" => arena = Fresh
  /\ pc \in {"args", "new", "count", "fill", "check"} => ~popped /\ cur = 1
  /\ pc \in {"args", "count"} => entries = 0 /\ grown = 0 /\ lost = {}
  /\ pc \in {"read", "apply"} => entries > 0

Arranged == ~popped => Placed(arena)

(* The texts are where buf says: one block each, of the files already read. *)
NotYetRead(f) ==
  buf[f] = NoText /\ \A b \in arena.blocks : b.what = "file" => b.of # f

Texts ==
  /\ ~popped =>
       /\ \A b \in arena.blocks :
            b.what = "file" =>
              b.of \in Files /\ buf[b.of] = [at |-> b.from, size |-> b.size]
       /\ \A f \in Files :
            buf[f].size # 0 =>
              \E b \in arena.blocks : b.what = "file" /\ b.of = f
  /\ (~popped /\ pc \notin {"apply", "done"}) =>
       \A f \in Files : f >= cur => NotYetRead(f)

(* While the array is filled it is the only one and has room for what the  *)
(* first reading counted.                                                  *)
Arrays ==
  /\ pc \in {"args", "count"} => \A b \in arena.blocks : b.what # "migrations"
  /\ pc = "fill" =>
       /\ \E m \in arena.blocks :
            /\ m.what = "migrations" /\ m.size = EntrySize * counted
            /\ \A b \in arena.blocks : b.what = "migrations" => b = m
       /\ counted + grown = dir.sql + dir.others

Sound ==
  Shape /\ Stages /\ Arranged /\ Texts /\ Arrays /\ PathsKept /\ NothingFoundFails

LEMMA InitSound == Init => Sound
<1> SUFFICES ASSUME Init PROVE Sound
  OBVIOUS
<1>1. Shape
  <2>1. dir \in [sql : 0 .. MaxFiles, others : Nat] /\ dir.sql \in Nat
    BY Sizes DEF Init
  <2>2. buf = [f \in Files |-> buf[f]] /\ \A f \in Files : buf[f].size \in Nat
    BY DEF Init, NoText
  <2>3. counted = 0 /\ grown = 0 /\ cur = 1 /\ entries = 0 /\ popped = FALSE
    BY DEF Init
  <2>4. counted \in Nat /\ grown \in Nat /\ cur \in Nat \ {0} /\ entries \in 0 .. dir.sql
    BY <2>1, <2>3
  <2>5. popped \in BOOLEAN
    BY <2>3, Zenon
  <2> QED BY <2>1, <2>2, <2>4, <2>5, Zenon DEF Shape
<1>2. Stages /\ Arranged
  BY FreshPlaced DEF Init, Stages, Arranged
<1>3. Texts /\ Arrays
  BY DEF Init, Texts, NotYetRead, Arrays, Fresh, NoText
<1> QED BY <1>1, <1>2, <1>3 DEF Init, Sound, PathsKept, NothingFoundFails

-----------------------------------------------------------------------------
(* Steps that leave the arena alone, or end the invocation. *)
LEMMA EndSound ==
  ASSUME Sound, pc # "args", UNCHANGED <<opt, dir, counted, buf, lost, grown>>,
         pc' = "done", entries' \in {entries, entries + 1}, entries' <= dir.sql,
         cur' \in Nat \ {0},
         \/ UNCHANGED <<arena, popped>>
         \/ popped' = TRUE,
         (opt = "migrate" /\ entries' = 0) => outcome' # "ok"
  PROVE  Sound'
<1>1. Shape'
  <2>1. dir.sql \in Nat /\ entries' \in 0 .. dir.sql
    BY Sizes DEF Sound, Shape
  <2> QED BY <2>1 DEF Sound, Shape
<1>2. Stages'
  BY DEF Stages
<1>3. (Arranged /\ Texts /\ Arrays)'
  BY DEF Sound, Arranged, Texts, Arrays, Shape
<1> QED BY <1>1, <1>2, <1>3 DEF Sound, PathsKept, NothingFoundFails

LEMMA ParseArgsSound == ASSUME Sound, ParseArgs PROVE Sound'
<1> DEFINE a1 == Pushed(Fresh, "args", 0, ArgsSize)
           a2 == Dup(a1, "migrations_path", 0)
           a3 == Dup(a2, "db_path", 0)
           a4 == Dup(a3, "name", 0)
           Fits(a, n) == /\ Placed(a)
                         /\ a.position <= Base + ArgsSize + n * (PathSize + Align)
                         /\ \A b \in a.blocks : b.what \notin {"file", "migrations"}
<1>1. arena = Fresh /\ PathSize \in Nat
  BY Sizes DEF ParseArgs, Sound, Stages
<1>2. Fits(a1, 0)
  <2>0. Reserve \in Nat /\ 72 <= Reserve
    <3>1. 3 * (PathSize + Align) \in Nat
      BY <1>1 DEF Align
    <3> QED BY <3>1, RoomForArguments, Sizes DEF Base, ArgsSize
  <2>5. 32 % Word = 32 /\ 72 % Word = 72
    BY <2>0, WithinWord DEF Align
  <2>1. Placed(Fresh) /\ Fresh.position = 32 /\ Fresh.blocks = {} /\ AlignUp(32) = 32
    BY FreshPlaced, <2>5 DEF Fresh, Base, AlignUp, Align
  <2>2. InArena(Fresh, ArgsSize)
    BY <2>0, <2>1 DEF InArena, ArgsSize
  <2>3. Placed(a1) /\ a1.blocks = {NewBlock(Fresh, "args", 0, ArgsSize)}
    BY <2>1, <2>2, PushedPlaced DEF ArgsSize
  <2>4. a1.position = 72
    BY <2>1, <2>5 DEF Pushed, NewPosition, ArgsSize
  <2> QED BY <1>1, <2>3, <2>4 DEF NewBlock, Base, ArgsSize, Align
<1>3. ASSUME NEW a, NEW n \in 0 .. 2, Fits(a, n),
             NEW what \in {"migrations_path", "db_path", "name"}
      PROVE  Fits(Dup(a, what, 0), n + 1)
  <2>1. /\ a.position \in Nat
        /\ n * (PathSize + Align) + (PathSize + Align) <= 3 * (PathSize + Align)
        /\ (n + 1) * (PathSize + Align) = n * (PathSize + Align) + (PathSize + Align)
    BY <1>1, <1>3 DEF Placed, Align
  <2>2. /\ AlignUp(a.position) \in Nat
        /\ AlignUp(a.position) + PathSize
             <= Base + ArgsSize + (n + 1) * (PathSize + Align)
        /\ AlignUp(a.position) + PathSize <= Reserve
    <3>1. AlignUp(a.position) \in Nat /\ AlignUp(a.position) < a.position + Align
      BY <1>3, Aligned DEF Placed
    <3>2. a.position <= Base + ArgsSize + n * (PathSize + Align)
      BY <1>3
    <3>3. n * (PathSize + Align) \in Nat
      BY <1>1 DEF Align
    <3> DEFINE k == n * (PathSize + Align)
    <3> HIDE DEF k
    <3>4. AlignUp(a.position) + PathSize <= Base + ArgsSize + k + (PathSize + Align)
      BY <1>1, <2>1, <3>1, <3>2, <3>3 DEF k, Base, ArgsSize, Align
    <3> QED BY <1>1, <2>1, <3>1, <3>3, <3>4, RoomForArguments, Sizes
            DEF k, Base, ArgsSize, Align
  <2>3. /\ Placed(Dup(a, what, 0))
        /\ Dup(a, what, 0).blocks = a.blocks \cup {NewBlock(a, what, 0, PathSize)}
    BY <1>1, <1>3, <2>2, PushedPlaced DEF Dup, InArena
  <2>4. Dup(a, what, 0).position = AlignUp(a.position) + PathSize
    BY <1>1, <2>2, WithinWord, Sizes DEF Dup, Pushed, NewPosition, Align
  <2> QED BY <1>3, <2>2, <2>3, <2>4 DEF NewBlock
<1> HIDE DEF Fits, a1
<1>4. Fits(a3, 2) /\ Fits(a4, 3)
  <2>1. Fits(a2, 1)
    BY <1>2, <1>3
  <2> HIDE DEF a2
  <2>2. Fits(a3, 2)
    BY <2>1, <1>3
  <2> HIDE DEF a3
  <2> QED BY <2>2, <1>3
<1>5. arena' \in {a3, a4} /\ pc' \in {"new", "count"}
  BY <1>1 DEF ParseArgs, a1
<1>6. UNCHANGED <<dir, counted, entries, lost, grown, cur, buf, popped>>
      /\ outcome' = outcome /\ pc = "args"
  BY DEF ParseArgs, found
<1>7. (Shape /\ Stages /\ PathsKept /\ NothingFoundFails)'
  BY <1>5, <1>6 DEF Sound, Shape, Stages, PathsKept, NothingFoundFails
<1>8. Placed(arena') /\ \A b \in arena'.blocks : b.what \notin {"file", "migrations"}
  BY <1>4, <1>5 DEF Fits
<1>9. (Arranged /\ Texts /\ Arrays)'
  <2>1. \A f \in Files : buf[f] = NoText
    BY <1>6 DEF Sound, Stages, Texts, NotYetRead, Files
  <2> QED BY <1>5, <1>6, <1>8, <2>1 DEF Arranged, Texts, NotYetRead, Arrays, NoText, Placed
<1> QED BY <1>7, <1>9 DEF Sound

-----------------------------------------------------------------------------
(* The two readings of the directory. *)
LEMMA SizesOfPushes ==
  ASSUME Sound
  PROVE  /\ EntrySize * (dir.sql + dir.others) \in Nat /\ PathSize \in Nat
         /\ Pointer * entries \in Nat /\ dir.sql \in Nat /\ dir.others \in Nat
         /\ MaxFiles \in Nat
         /\ \A size \in FileSizes : size \in Nat
         /\ \A n \in Statements, f \in Files : Pointer * n + buf[f].size + n \in Nat
<1>1. dir.sql \in Nat /\ dir.others \in Nat /\ entries \in Nat /\ MaxFiles \in Nat
  BY Sizes DEF Sound, Shape
<1>2. \A n \in Statements, f \in Files : n \in Nat /\ buf[f].size \in Nat
  BY Sizes DEF Sound, Shape
<1> QED BY <1>1, <1>2, Sizes DEF EntrySize, Pointer

LEMMA CreateSound ==
  ASSUME Sound, NEW len \in PathLens, CreateMigrationFile(len) PROVE Sound'
<1>1. entries \in Nat /\ entries <= dir.sql /\ cur \in Nat \ {0} /\ dir.sql \in Nat
  BY SizesOfPushes DEF Sound, Shape
<1> QED BY <1>1, EndSound DEF CreateMigrationFile, Finish, found

LEMMA CountSound == ASSUME Sound, CountEntries PROVE Sound'
<1> DEFINE n == dir.sql + dir.others
<1>1. /\ entries = 0 /\ ~popped /\ grown = 0 /\ Placed(arena) /\ cur = 1
      /\ UNCHANGED <<opt, dir, entries, cur, buf, lost, grown, popped>>
      /\ counted' = n /\ n \in Nat /\ EntrySize * n \in Nat /\ pc = "count"
      /\ \A b \in arena.blocks : b.what # "migrations"
  BY SizesOfPushes DEF CountEntries, Sound, Stages, Arranged, Arrays
<1>2. ~PushSpoils(EntrySize * n)
  BY <1>1, NothingSpoiled
<1>3. CASE UNCHANGED arena /\ pc' = "done" /\ outcome' # "ok"
  <2>1. Shape'
    BY <1>1 DEF Sound, Shape
  <2>2. (Stages /\ Arranged /\ Texts /\ Arrays)'
    BY <1>1, <1>3 DEF Sound, Stages, Arranged, Texts, Arrays
  <2> QED BY <1>1, <1>3, <2>1, <2>2 DEF Sound, PathsKept, NothingFoundFails
<1>4. CASE /\ PushFits(EntrySize * n) /\ pc' = "fill"
           /\ arena' = Pushed(arena, "migrations", 0, EntrySize * n)
  <2> DEFINE m == NewBlock(arena, "migrations", 0, EntrySize * n)
  <2>1. Placed(arena') /\ arena'.blocks = arena.blocks \cup {m}
    BY <1>1, <1>4, PushedPlaced DEF PushFits
  <2>2. m.what = "migrations" /\ m.size = EntrySize * n
    BY DEF NewBlock
  <2> HIDE DEF m
  <2>3. (Shape /\ Stages /\ Arranged)'
    BY <1>1, <1>4, <2>1 DEF Sound, Shape, Stages, Arranged
  <2>4. Texts'
    <3>1. \A b \in arena'.blocks : b.what = "file" => b \in arena.blocks
      BY <2>1, <2>2
    <3>2. \A b \in arena.blocks : b \in arena'.blocks
      BY <2>1
    <3> QED BY <1>1, <1>4, <3>1, <3>2 DEF Sound, Texts, NotYetRead
  <2>5. Arrays'
    BY <1>1, <1>4, <2>1, <2>2 DEF Arrays, Sound
  <2> QED BY <1>1, <1>4, <2>3, <2>4, <2>5 DEF Sound, PathsKept, NothingFoundFails
<1> QED BY <1>2, <1>3, <1>4 DEF CountEntries, Finish, PushFails, PushDies

LEMMA GrowSound == ASSUME Sound, GrowDirectory PROVE Sound'
<1>1. dir.sql \in Nat /\ dir.others \in Nat /\ MaxFiles \in Nat
  BY SizesOfPushes
<1>2. /\ dir' = [sql |-> dir.sql + 1, others |-> dir.others] /\ pc = "fill"
      /\ dir.sql < MaxFiles /\ grown' = grown + 1
      /\ UNCHANGED <<arena, pc, opt, counted, entries, cur, buf, outcome, lost, popped>>
  BY DEF GrowDirectory, Sound, Shape
<1>3. Shape'
  <2>1. dir'.sql = dir.sql + 1 /\ dir'.others = dir.others
    BY <1>2
  <2>2. entries' \in 0 .. dir'.sql
    BY <1>1, <1>2, <2>1 DEF Sound, Shape
  <2> QED BY <1>1, <1>2, <2>2 DEF Sound, Shape
<1>4. (Stages /\ Arranged /\ Texts)'
  BY <1>2 DEF Sound, Stages, Arranged, Texts, NotYetRead
<1>5. (Arrays /\ PathsKept /\ NothingFoundFails)'
  BY <1>1, <1>2 DEF Sound, Shape, Arrays, PathsKept, NothingFoundFails
<1> QED BY <1>3, <1>4, <1>5 DEF Sound

(* An entry for which the first reading made room does not reach a path. *)
LEMMA FillSound == ASSUME Sound, FillEntry PROVE Sound'
<1>1. /\ ~popped /\ cur = 1 /\ Placed(arena) /\ pc = "fill" /\ PathSize \in Nat
      /\ UNCHANGED <<opt, dir, counted, cur, buf, grown, popped>>
      /\ entries' = entries + 1 /\ entries \in Nat /\ entries < dir.sql
      /\ dir.sql \in Nat /\ dir.others \in Nat /\ counted \in Nat /\ grown \in Nat
  BY SizesOfPushes DEF FillEntry, Sound, Shape, Stages, Arranged
<1>2. ~PushSpoils(PathSize)
  BY <1>1, NothingSpoiled
<1>3. CASE PushDies(PathSize) /\ UNCHANGED lost
  BY <1>1, <1>3, EndSound DEF PushDies, Finish
<1>4. CASE /\ PushFits(PathSize) /\ arena' = Dup(arena, "path", entries')
           /\ lost' = {b.of : b \in {c \in arena'.blocks :
                         \/ c.what = "path" /\ Overlap(c, Entry(entries'))
                         \/ c.what = "path" /\ c.of \in lost}}
           /\ UNCHANGED <<pc, outcome>>
  <2> DEFINE new == NewBlock(arena, "path", entries', PathSize)
  <2>1. /\ Placed(arena') /\ arena'.blocks = arena.blocks \cup {new}
        /\ \A c \in arena.blocks : End(c) <= new.from
    BY <1>1, <1>4, PushedPlaced DEF PushFits, Dup, NewBlock
  <2>2. new.what = "path"
    BY DEF NewBlock
  <2> HIDE DEF new
  <2>3. (Shape /\ Stages /\ Arranged)'
    BY <1>1, <1>4, <2>1 DEF Sound, Shape, Stages, Arranged
  <2>4. Texts'
    <3>1. \A b \in arena'.blocks : b.what = "file" => b \in arena.blocks
      BY <2>1, <2>2
    <3>2. \A b \in arena.blocks : b \in arena'.blocks
      BY <2>1
    <3> QED BY <1>1, <1>4, <3>1, <3>2 DEF Sound, Texts, NotYetRead
  <2>5. Arrays'
    <3>1. PICK m \in arena.blocks :
            /\ m.what = "migrations" /\ m.size = EntrySize * counted
            /\ \A b \in arena.blocks : b.what = "migrations" => b = m
      BY <1>1 DEF Sound, Arrays
    <3> QED BY <1>1, <1>4, <2>1, <2>2, <3>1 DEF Arrays, Sound
  <2>6. PathsKept'
    <3> SUFFICES ASSUME grown <= dir.others PROVE lost' = {}
      BY <1>1 DEF PathsKept
    <3>1. PICK m \in arena.blocks :
            /\ m.what = "migrations" /\ m.size = EntrySize * counted
            /\ \A b \in arena.blocks : b.what = "migrations" => b = m
      BY <1>1 DEF Sound, Arrays
    <3>2. Array = m
      BY <3>1 DEF Array
    <3>3. entries + 1 <= counted
      BY <1>1 DEF Sound, Arrays
    <3> DEFINE e == Entry(entries')
    <3>4. e.from = m.from + 16 * entries /\ e.size = 16 /\ End(e) = e.from + 16
      BY <1>1, <3>2 DEF Entry, EntrySize, End
    <3>5. m.from \in Nat /\ End(m) = m.from + 16 * counted /\ End(m) \in Nat
      BY <1>1, <3>1 DEF Placed, EntrySize, End, Sound, Arranged, Stages
    <3> HIDE DEF e
    <3>6. m.from <= e.from /\ End(e) <= End(m) /\ e.from \in Nat /\ End(e) \in Nat
      BY <1>1, <3>3, <3>4, <3>5
    <3>7. \A c \in arena.blocks : c.what = "path" => ~Overlap(c, e)
      <4> SUFFICES ASSUME NEW c \in arena.blocks, c.what = "path", Overlap(c, e)
                   PROVE  FALSE
        OBVIOUS
      <4>1. c # m /\ c.from \in Nat /\ End(c) \in Nat
        BY <1>1, <3>1 DEF Placed, End
      <4>2. Overlap(c, m)
        BY <3>5, <3>6, <4>1 DEF Overlap
      <4> QED BY <1>1, <4>1, <4>2 DEF Placed
    <3>8. ~Overlap(new, e)
      <4>1. End(m) <= new.from /\ new.from \in Nat
        BY <2>1 DEF Placed
      <4> QED BY <3>5, <3>6, <4>1 DEF Overlap
    <3>9. lost = {}
      BY DEF Sound, PathsKept
    <3> QED BY <1>4, <2>1, <3>7, <3>8, <3>9 DEF e
  <2>7. NothingFoundFails'
    BY <1>1, <1>4 DEF NothingFoundFails
  <2> QED BY <2>3, <2>4, <2>5, <2>6, <2>7 DEF Sound
<1> QED BY <1>2, <1>3, <1>4 DEF FillEntry, PushFails

-----------------------------------------------------------------------------
(* Steps that change neither the arena nor what is known of the files. *)
LEMMA StageSound ==
  ASSUME Sound, pc \in {"fill", "read"},
         UNCHANGED <<arena, opt, dir, counted, entries, buf, lost, grown, popped, outcome>>,
         \/ pc = "fill" /\ pc' = "check" /\ UNCHANGED cur
         \/ pc = "read" /\ pc' = "read" /\ cur' = cur + 1
         \/ pc = "read" /\ pc' = "apply" /\ cur' = 1
  PROVE  Sound'
<1>1. cur' \in Nat \ {0} /\ (pc' # "apply" => cur' >= cur)
  BY DEF Sound, Shape
<1>2. (Shape /\ Stages /\ Arranged /\ PathsKept /\ NothingFoundFails)'
  BY <1>1 DEF Sound, Shape, Stages, Arranged, PathsKept, NothingFoundFails
<1>3. Texts'
  <2>1. \A f \in Files : f \in Nat /\ (pc' # "apply" /\ f >= cur' => f >= cur)
    BY <1>1 DEF Files, Sound, Shape
  <2> QED BY <2>1 DEF Sound, Texts, NotYetRead
<1>4. Arrays'
  BY DEF Arrays
<1> QED BY <1>2, <1>3, <1>4 DEF Sound

-----------------------------------------------------------------------------
(* The texts and their statements. *)

(* A block that is neither a text nor an array changes nothing. *)
LEMMA OtherBlock ==
  ASSUME Sound, NEW what \in {"sql_bufs", "tokens"}, NEW of, NEW size \in Nat,
         PushFits(size), arena' = Pushed(arena, what, of, size),
         UNCHANGED <<buf, popped>>, pc' \in {"read", "apply"},
         pc' = "read" => pc = "check" /\ cur' = cur
  PROVE  (Arranged /\ Texts /\ Arrays)'
<1>1. Arranged'
  BY PushedPlaced DEF Sound, Arranged, PushFits
<1>2. arena'.blocks = arena.blocks \cup {NewBlock(arena, what, of, size)}
  BY DEF Pushed, NewBlock
<1>3. \A b \in arena'.blocks : b.what = "file" => b \in arena.blocks
  BY <1>2 DEF NewBlock
<1>4. \A b \in arena.blocks : b \in arena'.blocks
  BY <1>2
<1>5. Texts'
  BY <1>3, <1>4 DEF Sound, Texts, NotYetRead
<1> QED BY <1>1, <1>5 DEF Arrays

LEMMA PushTextsSound == ASSUME Sound, PushTexts PROVE Sound'
<1>1. /\ pc = "check" /\ entries > 0 /\ entries \in Nat /\ ~popped /\ cur \in Nat \ {0}
      /\ UNCHANGED <<opt, dir, counted, entries, lost, grown, cur, buf, popped>>
      /\ Pointer * entries \in Nat /\ entries <= dir.sql
  BY SizesOfPushes DEF PushTexts, Listed, CanBeValid, found, Sound, Stages, Shape
<1>2. ~PushSpoils(Pointer * entries)
  BY <1>1, NothingSpoiled DEF Sound, Arranged
<1>3. CASE PushDies(Pointer * entries)
  BY <1>1, <1>3, EndSound DEF PushDies, Finish
<1>4. CASE /\ PushFits(Pointer * entries) /\ pc' = "read" /\ UNCHANGED outcome
           /\ arena' = Pushed(arena, "sql_bufs", 0, Pointer * entries)
  <2>1. (Arranged /\ Texts /\ Arrays)'
    BY <1>1, <1>4, OtherBlock
  <2> QED BY <1>1, <1>4, <2>1 DEF Sound, Shape, Stages, PathsKept, NothingFoundFails
<1> QED BY <1>2, <1>3, <1>4 DEF PushTexts, PushFails

LEMMA ReadFileSound == ASSUME Sound, NEW size \in FileSizes, ReadFile(size) PROVE Sound'
<1>1. /\ pc = "read" /\ cur \in Nat \ {0} /\ cur <= entries /\ entries > 0 /\ size \in Nat
      /\ UNCHANGED <<opt, dir, counted, entries, lost, grown, popped>>
      /\ entries \in Nat /\ entries <= dir.sql /\ dir.sql <= MaxFiles /\ dir.sql \in Nat
      /\ cur \in Files
  BY SizesOfPushes DEF ReadFile, Reading, found, Sound, Stages, Shape, Files
<1>2. CASE PushFails(size) /\ UNCHANGED <<buf, cur>>
  <2>1. pc' = "done" /\ UNCHANGED <<arena, buf, cur>>
    BY <1>2 DEF PushFails, PushDies, PushSpoils, Finish
  <2> QED BY <1>1, <2>1, EndSound
<1>3. CASE /\ PushFits(size) /\ arena' = Pushed(arena, "file", cur, size)
           /\ buf' = [buf EXCEPT ![cur] = [at |-> AlignUp(arena.position), size |-> size]]
           /\ cur' = cur + 1 /\ UNCHANGED <<pc, outcome>>
  <2> DEFINE b == NewBlock(arena, "file", cur, size)
  <2>1. /\ arena'.blocks = arena.blocks \cup {b}
        /\ b.what = "file" /\ b.of = cur /\ b.size = size
        /\ b.from = AlignUp(arena.position)
    BY <1>3 DEF Pushed, NewBlock
  <2> HIDE DEF b
  <2>3. Shape'
    BY <1>1, <1>3 DEF Sound, Shape
  <2>4. (Stages /\ Arrays /\ PathsKept /\ NothingFoundFails)'
    BY <1>1, <1>3 DEF Sound, Stages, Arrays, PathsKept, NothingFoundFails
  <2>5. Arranged'
    BY <1>1, <1>3, PushedPlaced DEF Sound, Arranged, PushFits
  <2>6. Texts'
    <3> SUFFICES ASSUME ~popped PROVE Texts'
      BY <1>1, <1>3 DEF Texts
    <3>1. /\ buf'[cur] = [at |-> b.from, size |-> b.size]
          /\ \A f \in Files : f # cur => buf'[f] = buf[f]
      BY <1>1, <1>3, <2>1 DEF Sound, Shape
    <3>2. NotYetRead(cur)
      BY <1>1 DEF Sound, Texts
    <3>3. \A c \in arena'.blocks :
            c.what = "file" =>
              c.of \in Files /\ buf'[c.of] = [at |-> c.from, size |-> c.size]
      BY <1>1, <2>1, <3>1, <3>2 DEF Sound, Texts, NotYetRead
    <3>4. \A f \in Files :
            buf'[f].size # 0 => \E c \in arena'.blocks : c.what = "file" /\ c.of = f
      BY <2>1, <3>1 DEF Sound, Texts
    <3>5. \A f \in Files : f >= cur' => f >= cur /\ f # cur
      BY <1>1, <1>3 DEF Files
    <3>6. \A f \in Files : f >= cur' => NotYetRead(f)'
      BY <1>1, <2>1, <3>1, <3>5 DEF Sound, Texts, NotYetRead
    <3> QED BY <3>3, <3>4, <3>6 DEF Texts
  <2> QED BY <2>3, <2>4, <2>5, <2>6 DEF Sound
<1> QED BY <1>2, <1>3 DEF ReadFile

LEMMA ReadShortSound == ASSUME Sound, NEW size \in FileSizes, ReadShort(size) PROVE Sound'
<1>1. /\ pc = "read" /\ pc' = "read" /\ cur \in Nat \ {0} /\ cur' = cur + 1 /\ popped'
      /\ UNCHANGED <<opt, dir, counted, entries, lost, grown, buf, outcome>>
  BY DEF ReadShort, Reading, found, Sound, Shape
<1>2. popped' = TRUE
  BY DEF ReadShort
<1> QED BY <1>1, <1>2 DEF Sound, Shape, Stages, Arranged, Texts, Arrays, PathsKept,
            NothingFoundFails

LEMMA RunSqlSound == ASSUME Sound, NEW n \in Statements, RunSql(n) PROVE Sound'
<1> DEFINE size == Pointer * n + buf[cur].size + n
<1>1. /\ pc = "apply" /\ cur \in Nat \ {0} /\ entries > 0 /\ cur <= entries
      /\ UNCHANGED <<opt, dir, counted, entries, lost, grown, buf, popped>>
      /\ entries \in Nat /\ entries <= dir.sql /\ dir.sql <= MaxFiles /\ dir.sql \in Nat
      /\ cur \in Files
  BY SizesOfPushes DEF RunSql, Applying, found, Sound, Stages, Shape, Files
<1>2. size \in Nat
  BY <1>1, SizesOfPushes
<1> HIDE DEF size
<1>3. CASE PushFails(size) /\ UNCHANGED cur
  <2>1. pc' = "done" /\ UNCHANGED <<arena, cur>>
    BY <1>3 DEF PushFails, PushDies, PushSpoils, Finish
  <2> QED BY <1>1, <2>1, EndSound
<1>4. CASE /\ PushFits(size) /\ arena' = Pushed(arena, "tokens", cur, size)
           /\ cur' = cur + 1 /\ UNCHANGED <<pc, outcome>>
  <2>1. (Arranged /\ Texts /\ Arrays)'
    BY <1>1, <1>2, <1>4, OtherBlock
  <2> QED BY <1>1, <1>4, <2>1 DEF Sound, Shape, Stages, PathsKept, NothingFoundFails
<1> QED BY <1>3, <1>4 DEF RunSql, size

LEMMA NextSound == ASSUME Sound, [Next]_vars PROVE Sound'
<1>1. entries \in Nat /\ entries <= dir.sql /\ cur \in Nat \ {0} /\ dir.sql \in Nat
  BY SizesOfPushes DEF Sound, Shape
<1>2. CASE UNCHANGED vars
  BY <1>2 DEF vars, found, Sound, Shape, Stages, Arranged, Texts, NotYetRead, Arrays,
     PathsKept, NothingFoundFails
<1>3. CASE ReadWhole \/ OpenFails \/ AllRead
  BY <1>3, StageSound DEF ReadWhole, OpenFails, Reading, AllRead, found
<1>4. CASE NoSqlFiles \/ InvalidFormat \/ OpenDatabaseFails \/ ApplyFails
  BY <1>1, <1>4, EndSound
  DEF NoSqlFiles, InvalidFormat, OpenDatabaseFails, ApplyFails, Applying, Listed,
      Finish, found
<1>5. CASE AllApplied
  BY <1>1, <1>5, EndSound DEF AllApplied, Finish, found, Sound, Stages
<1> QED BY <1>2, <1>3, <1>4, <1>5, ParseArgsSound, CreateSound, CountSound, GrowSound,
        FillSound, PushTextsSound, ReadFileSound, ReadShortSound, RunSqlSound DEF Next

LEMMA AlwaysSound == Spec => []Sound
  BY InitSound, NextSound, PTL DEF Spec

-----------------------------------------------------------------------------
(* What the migrator keeps in its arena lies apart from everything else it *)
(* keeps there, in committed memory (mem.c:75-110), as long as nothing was *)
(* popped.                                                                 *)
THEOREM BlocksApart == Spec => []Apart
<1>1. Sound => Apart
  BY DEF Sound, Arranged, Placed, Apart
<1> QED BY AlwaysSound, <1>1, PTL

(* A text whose length is no multiple of a word is read to its end and not *)
(* beyond, though nothing terminates it (file.c:17-20, mem.c:196-204).     *)
THEOREM TextsAreOwn == Spec => []OwnText
<1>1. ASSUME Sound PROVE OwnText
  <2> SUFFICES ASSUME ~popped, pc = "apply", NEW f \in 1 .. entries,
                      buf[f].size % Align # 0
               PROVE  Reached(f) = {b \in arena.blocks : b.what = "file" /\ b.of = f}
    BY DEF OwnText
  <2>1. f \in Files /\ buf[f].size \in Nat /\ buf[f].size # 0
    BY <1>1, SizesOfPushes DEF Sound, Shape, Files, Align
  <2>2. PICK b \in arena.blocks : b.what = "file" /\ b.of = f
    BY <1>1, <2>1 DEF Sound, Texts
  <2>3. \A c \in arena.blocks :
          c.what = "file" /\ c.of = f => buf[f].at = c.from /\ buf[f].size = c.size
    <3>1. \A c \in arena.blocks :
            c.what = "file" => buf[c.of] = [at |-> c.from, size |-> c.size]
      BY <1>1 DEF Sound, Texts
    <3> SUFFICES ASSUME NEW c \in arena.blocks, c.what = "file", c.of = f
                 PROVE  buf[f].at = c.from /\ buf[f].size = c.size
      OBVIOUS
    <3>2. buf[f] = [at |-> c.from, size |-> c.size]
      BY <3>1
    <3> QED BY <3>2
  <2>4. buf[f].at = b.from /\ buf[f].size = b.size
    BY <2>2, <2>3
  <2>5. /\ \A c \in arena.blocks : c.from \in Nat /\ c.size \in Nat /\ c.from % Align = 0
        /\ \A c \in arena.blocks : c # b => ~Overlap(b, c)
        /\ b.from \in Nat /\ b.size \in Nat /\ End(b) \in Nat /\ b.size > 0
        /\ End(b) % Align # 0 /\ b.from < End(b) /\ End(b) = b.from + b.size
    <3>1. Placed(arena)
      BY <1>1 DEF Sound, Arranged
    <3>2. b.from \in Nat /\ b.size \in Nat /\ b.from % 8 = 0 /\ b.size % 8 # 0
      BY <2>4, <3>1 DEF Placed, Align
    <3>3. (b.from + b.size) % 8 # 0
      BY <3>2
    <3> QED BY <3>1, <3>2, <3>3 DEF Placed, End, Align
  <2>6. \A c \in arena.blocks : c.what = "file" /\ c.of = f => c = b
    <3> SUFFICES ASSUME NEW c \in arena.blocks, c.what = "file", c.of = f, c # b
                 PROVE  FALSE
      OBVIOUS
    <3>1. c.from = b.from /\ c.size = b.size
      BY <2>4, <2>3
    <3> QED BY <2>5, <3>1 DEF Overlap, End
  <2>7. ASSUME NEW c \in arena.blocks PROVE ~(c.from <= End(b) /\ End(b) < End(c))
    <3> SUFFICES ASSUME c.from <= End(b), End(b) < End(c) PROVE FALSE
      OBVIOUS
    <3>1. c # b /\ c.from # End(b) /\ c.from \in Nat /\ End(c) \in Nat
      BY <2>5 DEF End
    <3> QED BY <2>5, <3>1 DEF Overlap
  <2>8. ASSUME NEW c \in Reached(f) PROVE c = b
    <3> SUFFICES ASSUME c # b PROVE FALSE
      OBVIOUS
    <3>1. /\ c \in arena.blocks /\ c.size > 0 /\ c.from >= b.from
          /\ Filled(b.from, c.from)
      BY <2>4 DEF Reached
    <3>2. c.from \in Nat /\ c.size \in Nat /\ End(c) = c.from + c.size
      BY <2>5, <3>1 DEF End
    <3>3. c.from >= End(b) /\ c.from # End(b)
      BY <2>5, <3>1, <3>2 DEF Overlap
    <3>4. End(b) \in b.from .. (c.from - 1)
      BY <2>5, <3>2, <3>3
    <3> QED BY <2>7, <3>1, <3>4 DEF Filled
  <2>9. b \in Reached(f)
    <3>1. Filled(b.from, b.from)
      BY <2>5 DEF Filled
    <3> QED BY <2>4, <2>5, <3>1 DEF Reached
  <2> QED BY <2>2, <2>6, <2>8, <2>9
<1> QED BY AlwaysSound, <1>1, PTL

(* No entry is written over a path (sql.c:293-336), unless more .sql files *)
(* come between the two readings than there are others.                    *)
THEOREM EntriesFit == Spec => []PathsKept
<1>1. Sound => PathsKept
  BY DEF Sound
<1> QED BY AlwaysSound, <1>1, PTL

(* An invocation that found no .sql file fails, whatever migrations[-1]    *)
(* looks like (sql.c:337-343).                                             *)
THEOREM NothingFoundIsFailure == Spec => []NothingFoundFails
<1>1. Sound => NothingFoundFails
  BY DEF Sound
<1> QED BY AlwaysSound, <1>1, PTL

-----------------------------------------------------------------------------
(* The types.                                                              *)

(* The least of some numbers. *)
LEMMA Least ==
  ASSUME NEW T, T \subseteq Nat, T # {}
  PROVE  \E m \in T : \A k \in T : m <= k
<1> DEFINE R == {ss \in Nat \X Nat : ss[1] < ss[2]}
<1>1. IsWellFoundedOn(R, Nat)
  BY NatLessThanWellFounded DEF OpToRel
<1>2. PICK m \in T : \A y \in T : ~(<<y, m>> \in R)
  BY <1>1, WFMin
<1>3. ASSUME NEW k \in T PROVE m <= k
  <2>1. ~(<<k, m>> \in R) /\ k \in Nat /\ m \in Nat
    BY <1>2
  <2> QED BY <2>1
<1> QED BY <1>3

(* The partial sums of n numbers, from none of them to all.                *)
SumsUpTo(n, term) ==
  {g \in [0 .. n -> Nat] :
    g[0] = 0 /\ \A b \in 1 .. n : g[b] = g[b - 1] + term[b - 1]}

LEMMA SumsExist ==
  ASSUME NEW top \in Nat, NEW term \in [0 .. (top - 1) -> Nat]
  PROVE  SumsUpTo(top, term) # {}
<1> DEFINE N == {n \in 0 .. top : SumsUpTo(n, term) = {}}
<1> SUFFICES ASSUME SumsUpTo(top, term) = {} PROVE FALSE
  OBVIOUS
<1>0. top \in N
  OBVIOUS
<1>1. PICK n \in N : \A k \in N : n <= k
  <2>0. N # {}
    BY <1>0
  <2>1. N \subseteq Nat
    OBVIOUS
  <2> HIDE DEF N
  <2> QED BY <2>0, <2>1, Least
<1>2. n \in 0 .. top /\ SumsUpTo(n, term) = {}
  OBVIOUS
<1>3. CASE n = 0
  <2>1. [b \in 0 .. n |-> 0] \in SumsUpTo(n, term)
    BY <1>3 DEF SumsUpTo
  <2> QED BY <1>2, <2>1
<1>4. CASE n # 0
  <2>1. n - 1 \in 0 .. top /\ ~(n <= n - 1)
    BY <1>2, <1>4
  <2>2. PICK g \in SumsUpTo(n - 1, term) : TRUE
    BY <1>1, <2>1
  <2>3. /\ g \in [0 .. (n - 1) -> Nat] /\ g[0] = 0
        /\ \A b \in 1 .. (n - 1) : g[b] = g[b - 1] + term[b - 1]
    BY <2>2 DEF SumsUpTo
  <2> DEFINE h == [b \in 0 .. n |-> IF b = n THEN g[n - 1] + term[n - 1] ELSE g[b]]
  <2>4. n - 1 \in 0 .. (n - 1) /\ n - 1 \in 0 .. (top - 1)
    BY <1>2, <1>4
  <2>5. h \in [0 .. n -> Nat] /\ h[0] = 0
    BY <2>3, <2>4, <1>2, <1>4
  <2>6. ASSUME NEW b \in 1 .. n PROVE h[b] = h[b - 1] + term[b - 1]
    <3>1. b - 1 \in 0 .. n /\ b - 1 # n /\ h[b - 1] = g[b - 1]
      BY <1>2
    <3>2. CASE b = n
      BY <3>1, <3>2
    <3>3. CASE b # n
      <4>1. b \in 1 .. (n - 1) /\ h[b] = g[b]
        BY <1>2, <3>3
      <4> QED BY <4>1, <3>1, <2>3
    <3> QED BY <3>2, <3>3
  <2>7. h \in SumsUpTo(n, term)
    BY <2>5, <2>6 DEF SumsUpTo
  <2> QED BY <1>2, <2>7
<1> QED BY <1>3, <1>4

LEMMA BitIs ==
  ASSUME NEW x \in Nat, NEW b \in 0 .. Bits
  PROVE  Bit(x, b) \in Nat
<1> DEFINE p == 2 ^ b
<1>1. p \in Nat \ {0}
  BY PowersAreNumbers
<1> HIDE DEF p
<1>2. (x \div p) % 2 \in Nat
  BY <1>1
<1> QED BY <1>2 DEF Bit, p

(* The and of two words is a number. *)
LEMMA AndIs ==
  ASSUME NEW x \in Nat, NEW y \in Nat
  PROVE  And(x, y) \in Nat
<1> DEFINE term == [b \in 0 .. (Bits - 1) |-> Bit(x, b) * Bit(y, b) * 2 ^ b]
           Step(g) == [b \in 0 .. Bits |->
             IF b = 0 THEN 0
             ELSE g[b - 1] + Bit(x, b - 1) * Bit(y, b - 1) * 2 ^ (b - 1)]
           low == CHOOSE g : g = Step(g)
<1>0. Bits \in Nat
  BY Sizes
<1>1. ASSUME NEW b \in 0 .. (Bits - 1)
      PROVE  Bit(x, b) * Bit(y, b) * 2 ^ b \in Nat
  <2>1. b \in 0 .. Bits
    BY <1>0
  <2>2. Bit(x, b) \in Nat /\ Bit(y, b) \in Nat /\ 2 ^ b \in Nat
    BY <2>1, BitIs, PowersAreNumbers
  <2> DEFINE p == Bit(x, b)
             q == Bit(y, b)
             r == 2 ^ b
  <2>3. p \in Nat /\ q \in Nat /\ r \in Nat
    BY <2>2
  <2> HIDE DEF p, q, r
  <2>4. p * q * r \in Nat
    BY <2>3
  <2> QED BY <2>4 DEF p, q, r
<1>2. term \in [0 .. (Bits - 1) -> Nat]
  BY <1>1
<1>3. \A b \in 1 .. Bits :
        term[b - 1] = Bit(x, b - 1) * Bit(y, b - 1) * 2 ^ (b - 1)
  BY <1>0
<1> HIDE DEF term
<1>4. PICK g \in SumsUpTo(Bits, term) : TRUE
  BY <1>0, <1>2, SumsExist
<1>5. /\ g \in [0 .. Bits -> Nat] /\ g[0] = 0
      /\ \A b \in 1 .. Bits : g[b] = g[b - 1] + term[b - 1]
  BY <1>4 DEF SumsUpTo
<1>6. g = Step(g)
  <2>1. ASSUME NEW b \in 0 .. Bits PROVE g[b] = Step(g)[b]
    <3>1. CASE b = 0
      BY <3>1, <1>5
    <3>2. CASE b # 0
      <4>1. b \in 1 .. Bits
        BY <3>2, <1>0
      <4> QED BY <4>1, <3>2, <1>3, <1>5
    <3> QED BY <3>1, <3>2
  <2> QED BY <2>1, <1>5
<1>7. low = Step(low)
  BY <1>6
<1> HIDE DEF low
<1>8. \A b \in 0 .. Bits : low[b] = IF b = 0 THEN 0 ELSE low[b - 1] + term[b - 1]
  <2>1. ASSUME NEW b \in 0 .. Bits
        PROVE  low[b] = IF b = 0 THEN 0 ELSE low[b - 1] + term[b - 1]
    <3>1. low[b] = Step(low)[b]
      BY <1>7
    <3>2. CASE b = 0
      BY <3>1, <3>2
    <3>3. CASE b # 0
      <4>1. b \in 1 .. Bits
        BY <3>3, <1>0
      <4> QED BY <4>1, <3>1, <3>3, <1>3
    <3> QED BY <3>2, <3>3
  <2> QED BY <2>1
<1> HIDE DEF Step
<1>9. \A b \in 0 .. Bits : low[b] \in Nat
  <2> DEFINE N == {b \in 0 .. Bits : low[b] \notin Nat}
  <2> SUFFICES ASSUME N # {} PROVE FALSE
    OBVIOUS
  <2>1. PICK n \in N : \A k \in N : n <= k
    <3>1. N \subseteq Nat
      OBVIOUS
    <3> HIDE DEF N
    <3> QED BY <3>1, Least
  <2>2. n \in 0 .. Bits /\ low[n] \notin Nat
    OBVIOUS
  <2>3. n # 0
    BY <2>2, <1>8
  <2>4. n - 1 \in 0 .. Bits /\ n - 1 \in 0 .. (Bits - 1) /\ ~(n <= n - 1)
    BY <2>2, <2>3, <1>0
  <2>5. low[n - 1] \in Nat /\ term[n - 1] \in Nat
    BY <2>1, <2>4, <1>2
  <2>6. low[n] = low[n - 1] + term[n - 1]
    BY <2>2, <2>3, <1>8
  <2> QED BY <2>2, <2>5, <2>6
<1>10. low[Bits] \in Nat
  BY <1>0, <1>9
<1> QED BY <1>10 DEF And, low, Step

(* The arena, popped or not. *)
Arena == [position : 0 .. (Word - 1), commit : 0 .. Reserve, blocks : SUBSET Blocks]

LEMMA ArenaIs ==
  ASSUME NEW a \in Arena
  PROVE  /\ a.position \in 0 .. (Word - 1) /\ a.commit \in 0 .. Reserve
         /\ a.blocks \in SUBSET Blocks
         /\ a = [position |-> a.position, commit |-> a.commit, blocks |-> a.blocks]
         /\ a.position \in Nat /\ Word \in Nat \ {0} /\ AlignUp(a.position) \in Nat
<1>1. Word \in Nat \ {0}
  BY Sizes, PowersAreNumbers DEF Word
<1>2. a.position \in 0 .. (Word - 1) /\ a.position \in Nat
  BY <1>1 DEF Arena
<1> DEFINE up == ((a.position + Align - 1) \div Align) * Align
<1>3. up \in Nat
  BY <1>2 DEF Align
<1> HIDE DEF up
<1>4. up % Word \in Nat
  BY <1>1, <1>3
<1> QED BY <1>1, <1>2, <1>4 DEF Arena, AlignUp, up

LEMMA PushedIs ==
  ASSUME NEW a \in Arena, NEW what \in Kinds, NEW of \in Nat, NEW size \in Nat,
         HasRoom(a, size)
  PROVE  Pushed(a, what, of, size) \in Arena
<1> DEFINE x == NewPosition(a, size)
<1>1. /\ a.position \in Nat /\ AlignUp(a.position) \in Nat /\ Word \in Nat \ {0}
      /\ a.commit \in 0 .. Reserve /\ a.blocks \in SUBSET Blocks /\ Reserve \in Nat
  BY ArenaIs, Sizes
<1>2. x \in 0 .. (Word - 1) /\ x \in Nat
  <2> DEFINE y == AlignUp(a.position) + size
  <2>1. y \in Nat
    BY <1>1
  <2> HIDE DEF y
  <2>2. y % Word \in 0 .. (Word - 1) /\ y % Word \in Nat
    BY <2>1, <1>1
  <2> QED BY <2>2 DEF NewPosition, y
<1>3. x <= Reserve
  BY DEF HasRoom
<1> HIDE DEF x
<1>4. CommitTo(x) \in 0 .. Reserve
  BY <1>1, <1>2, <1>3, Committed
<1>5. NewBlock(a, what, of, size) \in Blocks
  BY <1>1 DEF NewBlock, Blocks
<1> QED BY <1>1, <1>2, <1>4, <1>5 DEF Pushed, Arena, NewBlock, x

(* What a pop takes is modulo the word, whatever it is.                    *)
LEMMA PoppedIs ==
  ASSUME NEW a \in Arena, NEW pos \in Nat, NEW what, NEW of
  PROVE  PoppedTo(a, pos, what, of) \in Arena
<1> DEFINE size == IF pos < a.position THEN a.position - pos ELSE 0
           pow == a.position - Base
           mask == (pow - 1) % Word
           sum == (size + mask) % Word
<1>1. a.position \in Nat /\ Word \in Nat \ {0} /\ pow \in Int /\ size \in Nat
  BY ArenaIs DEF Base
<1>2. mask \in Nat
  BY <1>1
<1>3. sum \in Nat
  <2> HIDE DEF size, mask
  <2> QED BY <1>1, <1>2
<1>4. AlignUpBy(size, pow) \in Int
  <2> HIDE DEF sum, mask
  <2>1. sum - And(sum, mask) \in Int
    BY <1>2, <1>3, AndIs
  <2> QED BY <2>1 DEF AlignUpBy, sum, mask
<1> DEFINE taken == AlignUpBy(size, pow)
<1>5. (a.position - taken) % Word \in 0 .. (Word - 1)
  <2> HIDE DEF taken
  <2> QED BY <1>1, <1>4 DEF taken
<1>6. {b \in a.blocks : b.what # what \/ b.of # of} \in SUBSET Blocks
  BY ArenaIs
<1> DEFINE rest == {b \in a.blocks : b.what # what \/ b.of # of}
           at == (a.position - taken) % Word
<1>7. PoppedTo(a, pos, what, of) = [a EXCEPT !.position = at, !.blocks = rest]
  BY DEF PoppedTo
<1>8. at \in 0 .. (Word - 1) /\ rest \in SUBSET Blocks
  BY <1>5, <1>6
<1> HIDE DEF at, rest
<1> QED BY <1>7, <1>8 DEF Arena

(* What the types rest on: no more files came than there are, and a path   *)
(* in the directory's array is that of a file.                             *)
PathsOfFiles ==
  pc \in {"args", "count", "fill"} =>
    \A b \in arena.blocks : b.what = "path" => b.of \in Files

Typed == TypeOK /\ grown <= dir.sql /\ PathsOfFiles

LEMMA TypedIs ==
  ASSUME Typed
  PROVE  /\ arena \in Arena /\ dir.sql \in 0 .. MaxFiles /\ dir.others \in 0 .. MaxOthers
         /\ dir = [sql |-> dir.sql, others |-> dir.others]
         /\ MaxFiles \in Nat /\ MaxOthers \in Nat /\ dir.sql \in Nat /\ dir.others \in Nat
         /\ entries \in Nat /\ entries <= dir.sql /\ grown \in Nat
BY Sizes DEF Typed, TypeOK, Arena

LEMMA InitTyped == Init => Typed
<1> SUFFICES ASSUME Init PROVE Typed
  OBVIOUS
<1>1. arena \in Arena
  <2>1. Base < Word /\ Base \in 0 .. (Word - 1)
    <3>1. Base <= Reserve
      <4>1. 3 * (PathSize + Align) \in Nat
        BY Sizes DEF Align
      <4> QED BY <4>1, Sizes, RoomForArguments DEF Base, ArgsSize
    <3> QED BY <3>1, ReserveInWord, WordIsNumber, Sizes DEF Base, Align
  <2> QED BY <2>1, Sizes DEF Init, Fresh, Arena
<1>2. buf \in [Files -> [at : Nat, size : Nat]]
  BY DEF Init, NoText
<1>3. dir.sql \in Nat /\ MaxFiles \in Nat /\ MaxOthers \in Nat
  BY Sizes DEF Init
<1>4. /\ counted \in 0 .. (MaxFiles + MaxOthers) /\ entries \in 0 .. dir.sql
      /\ mark \in Nat /\ cur \in 1 .. (MaxFiles + 1) /\ lost \subseteq Files
      /\ grown \in 0 .. MaxFiles /\ grown <= dir.sql
  BY <1>3 DEF Init
<1>5. popped \in BOOLEAN
  <2>1. popped = FALSE
    BY DEF Init
  <2> QED BY <2>1, Zenon
<1>6. PathsOfFiles
  BY DEF Init, Fresh, PathsOfFiles
<1>7. /\ pc = "args" /\ outcome = "none" /\ opt \in {"migrate", "new"}
      /\ dbPath \in PathLens /\ dir \in [sql : 0 .. MaxFiles, others : 0 .. MaxOthers]
  BY DEF Init
<1>8. TypeOK
  BY <1>1, <1>2, <1>4, <1>5, <1>7 DEF TypeOK, Arena
<1> QED BY <1>4, <1>6, <1>8 DEF Typed

(* An invocation that ends, or goes on from one file to the next.          *)
LEMMA MoveTyped ==
  ASSUME Typed, arena' \in Arena, UNCHANGED <<opt, dbPath, dir, counted, mark, grown>>,
         pc' \in {"done", "check", "read", "apply"},
         outcome' \in {"none", "ok", "failed", "died"},
         entries' \in 0 .. dir.sql, lost' \subseteq Files,
         buf' \in [Files -> [at : Nat, size : Nat]], popped' \in BOOLEAN,
         cur' \in 1 .. (MaxFiles + 1),
         pc' \in {"read", "apply"} => cur' \in 1 .. (entries' + 1)
  PROVE  Typed'
<1>1. TypeOK'
  BY DEF Typed, TypeOK, Arena
<1>2. PathsOfFiles'
  BY DEF PathsOfFiles
<1> QED BY <1>1, <1>2 DEF Typed

LEMMA DoneTyped ==
  ASSUME Typed, arena' \in Arena,
         UNCHANGED <<opt, dbPath, dir, counted, mark, grown, lost, buf, cur>>,
         pc' = "done", outcome' \in {"ok", "failed", "died"},
         entries' \in 0 .. dir.sql, popped' \in BOOLEAN
  PROVE  Typed'
BY MoveTyped DEF Typed, TypeOK

LEMMA FailsTyped ==
  ASSUME Typed, NEW size, PushFails(size), entries' \in 0 .. dir.sql,
         UNCHANGED <<opt, dbPath, dir, counted, mark, grown, lost, buf, cur, popped>>
  PROVE  Typed'
<1>1. /\ pc' = "done" /\ UNCHANGED arena /\ outcome' \in {"ok", "failed", "died"}
  BY DEF PushFails, PushDies, PushSpoils, Finish
<1>2. arena \in Arena /\ popped \in BOOLEAN
  BY TypedIs DEF Typed, TypeOK
<1> QED BY <1>1, <1>2, DoneTyped

LEMMA DupIs ==
  ASSUME NEW a \in Arena, NEW what \in Kinds, NEW of \in Nat, HasRoom(a, PathSize)
  PROVE  Dup(a, what, of) \in Arena
BY PushedIs, Sizes DEF Dup

LEMMA ParseArgsTyped == ASSUME Typed, Sound, ParseArgs PROVE Typed'
<1> DEFINE Args == {"args", "migrations_path", "db_path", "name"}
           Mine(a) == \A b \in a.blocks :
             /\ b.what \in Args
             /\ b = [what |-> b.what, of |-> 0, from |-> b.from, size |-> b.size]
           a1 == Pushed(Fresh, "args", 0, ArgsSize)
           a2 == Dup(a1, "migrations_path", 0)
           a3 == Dup(a2, "db_path", 0)
           a4 == Dup(a3, "name", 0)
<1>1. ASSUME NEW a, Mine(a), NEW what \in Args, NEW size
      PROVE  Mine(Pushed(a, what, 0, size))
  BY <1>1 DEF Pushed
<1>2. Mine(Fresh)
  BY DEF Fresh
<1> HIDE DEF Mine
<1>3. Mine(a1)
  BY <1>1, <1>2
<1> HIDE DEF a1
<1>4. Mine(a2)
  BY <1>1, <1>3 DEF Dup
<1> HIDE DEF a2
<1>5. Mine(a3)
  BY <1>1, <1>4 DEF Dup
<1> HIDE DEF a3
<1>6. Mine(a4)
  BY <1>1, <1>5 DEF Dup
<1> HIDE DEF a4
<1>7. /\ arena = Fresh /\ ~popped /\ pc' \in {"new", "count"}
      /\ UNCHANGED <<opt, dbPath, dir, counted, entries, mark, lost, grown, cur,
                     buf, outcome, popped>>
  BY DEF ParseArgs, Sound, Stages, found
<1>8. arena' \in {a3, a4}
  BY <1>7 DEF ParseArgs, a1, a2, a3, a4
<1>9. Mine(arena')
  BY <1>5, <1>6, <1>8
<1>10. Placed(arena')
  BY <1>7, ParseArgsSound DEF Sound, Arranged
<1>11. ASSUME NEW b \in arena'.blocks PROVE b \in Blocks /\ b.what # "path"
  <2>1. b.from \in Nat /\ b.size \in Nat
    BY <1>10 DEF Placed
  <2>2. /\ b.what \in Args
        /\ b = [what |-> b.what, of |-> 0, from |-> b.from, size |-> b.size]
    BY <1>9 DEF Mine
  <2> QED BY <2>1, <2>2 DEF Blocks, Kinds
<1>12. arena' \in Arena
  <2>1. /\ arena' = [position |-> arena'.position, commit |-> arena'.commit,
                     blocks |-> arena'.blocks]
        /\ arena'.position \in Nat /\ arena'.position <= Reserve
        /\ arena'.commit \in Nat /\ arena'.commit <= Reserve
    BY <1>10 DEF Placed
  <2>2. /\ arena'.position \in 0 .. (Word - 1) /\ arena'.commit \in 0 .. Reserve
        /\ arena'.blocks \in SUBSET Blocks
    BY <1>11, <2>1, ReserveInWord, WordIsNumber, Sizes DEF Align
  <2> QED BY <2>1, <2>2 DEF Arena
<1>13. TypeOK'
  BY <1>7, <1>12 DEF Typed, TypeOK, Arena
<1>14. PathsOfFiles'
  BY <1>11 DEF PathsOfFiles
<1> QED BY <1>7, <1>13, <1>14 DEF Typed

LEMMA CreateTyped ==
  ASSUME Typed, NEW len \in PathLens, CreateMigrationFile(len) PROVE Typed'
<1> DEFINE a == Pushed(arena, "path", 0, len + 2)
<1>1. arena \in Arena /\ len + 2 \in Nat /\ arena.position \in Nat
  BY TypedIs, ArenaIs, Sizes
<1>2. HasRoom(arena, len + 2) /\ HasRoom(a, PathSize)
  BY DEF CreateMigrationFile, PushFits
<1>3. a \in Arena
  BY <1>1, <1>2, PushedIs DEF Kinds
<1>4. arena' = PoppedTo(Dup(a, "path", 0), arena.position, "path", 0)
  BY DEF CreateMigrationFile
<1> HIDE DEF a
<1>5. Dup(a, "path", 0) \in Arena
  BY <1>2, <1>3, DupIs DEF Kinds
<1>6. arena' \in Arena
  BY <1>1, <1>4, <1>5, PoppedIs
<1>7. popped' \in BOOLEAN
  <2>1. popped' = TRUE
    BY DEF CreateMigrationFile
  <2> QED BY <2>1, Zenon
<1>8. entries' \in 0 .. dir.sql /\ dir' = dir
  BY DEF CreateMigrationFile, found, Typed, TypeOK
<1> QED BY <1>6, <1>7, <1>8, DoneTyped DEF CreateMigrationFile, Finish, found

LEMMA CountTyped == ASSUME Typed, Sound, CountEntries PROVE Typed'
<1> DEFINE n == dir.sql + dir.others
<1>1. /\ n \in 0 .. (MaxFiles + MaxOthers) /\ EntrySize * n \in Nat
      /\ arena \in Arena /\ arena.position \in Nat
  BY TypedIs, ArenaIs DEF EntrySize
<1>2. /\ pc = "count" /\ mark' = arena.position /\ counted' = n
      /\ UNCHANGED <<opt, dbPath, dir, entries, cur, buf, lost, grown, popped>>
  BY DEF CountEntries
<1>3. /\ mark' \in Nat /\ counted' \in 0 .. (MaxFiles + MaxOthers)
  BY <1>1, <1>2
<1>4. CASE UNCHANGED arena /\ pc' = "done" /\ outcome' \in {"failed", "ok", "died"}
  <2>1. TypeOK'
    BY <1>2, <1>3, <1>4 DEF Typed, TypeOK
  <2>2. PathsOfFiles'
    BY <1>4 DEF PathsOfFiles
  <2> QED BY <1>2, <2>1, <2>2 DEF Typed
<1>5. CASE /\ PushFits(EntrySize * n) /\ pc' = "fill" /\ UNCHANGED outcome
           /\ arena' = Pushed(arena, "migrations", 0, EntrySize * n)
  <2>1. arena' \in Arena
    BY <1>1, <1>5, PushedIs DEF PushFits, Kinds
  <2>2. TypeOK'
    BY <1>2, <1>3, <1>5, <2>1 DEF Typed, TypeOK, Arena
  <2>3. PathsOfFiles'
    <3>1. \A b \in arena'.blocks : b.what = "path" => b \in arena.blocks
      BY <1>5 DEF Pushed
    <3> QED BY <1>2, <3>1 DEF Typed, PathsOfFiles
  <2> QED BY <1>2, <2>2, <2>3 DEF Typed
<1> QED BY <1>4, <1>5 DEF CountEntries, PushFails, PushDies, PushSpoils, Finish

LEMMA GrowTyped == ASSUME Typed, GrowDirectory PROVE Typed'
<1>1. /\ dir' = [sql |-> dir.sql + 1, others |-> dir.others] /\ pc = "fill"
      /\ dir.sql < MaxFiles /\ grown' = grown + 1
      /\ UNCHANGED <<arena, pc, opt, dbPath, counted, entries, mark, cur, buf,
                     outcome, lost, popped>>
  BY TypedIs DEF GrowDirectory
<1>2. /\ dir'.sql = dir.sql + 1 /\ dir'.others = dir.others
      /\ dir.sql + 1 \in 0 .. MaxFiles /\ dir.others \in 0 .. MaxOthers
  BY <1>1, TypedIs
<1>3. /\ dir' \in [sql : 0 .. MaxFiles, others : 0 .. MaxOthers]
      /\ entries' \in 0 .. dir'.sql /\ grown' \in 0 .. MaxFiles /\ grown' <= dir'.sql
  BY <1>1, <1>2, TypedIs DEF Typed
<1>4. TypeOK'
  BY <1>1, <1>3 DEF Typed, TypeOK
<1>5. PathsOfFiles'
  BY <1>1 DEF Typed, PathsOfFiles
<1> QED BY <1>3, <1>4, <1>5 DEF Typed

LEMMA FillTyped == ASSUME Typed, FillEntry PROVE Typed'
<1>1. /\ pc = "fill" /\ entries' = entries + 1 /\ entries < dir.sql
      /\ UNCHANGED <<opt, dbPath, dir, counted, mark, cur, buf, grown, popped>>
  BY DEF FillEntry
<1>2. /\ entries' \in 0 .. dir.sql /\ entries' \in Files /\ entries' \in Nat
  BY <1>1, TypedIs DEF Files
<1>3. CASE PushFails(PathSize) /\ UNCHANGED lost
  BY <1>1, <1>2, <1>3, FailsTyped
<1>4. CASE /\ PushFits(PathSize) /\ arena' = Dup(arena, "path", entries')
           /\ lost' = {b.of : b \in {c \in arena'.blocks :
                         \/ c.what = "path" /\ Overlap(c, Entry(entries'))
                         \/ c.what = "path" /\ c.of \in lost}}
           /\ UNCHANGED <<pc, outcome>>
  <2>1. arena' \in Arena
    BY <1>2, <1>4, TypedIs, DupIs DEF PushFits, Kinds
  <2>2. \A b \in arena'.blocks : b.what = "path" => b.of \in Files
    BY <1>1, <1>2, <1>4 DEF Typed, PathsOfFiles, Dup, Pushed
  <2>3. lost' \subseteq Files
    BY <1>4, <2>2
  <2>4. TypeOK'
    BY <1>1, <1>2, <1>4, <2>1, <2>3 DEF Typed, TypeOK, Arena
  <2>5. PathsOfFiles'
    BY <2>2 DEF PathsOfFiles
  <2> QED BY <1>1, <2>4, <2>5 DEF Typed
<1> QED BY <1>1, <1>3, <1>4 DEF FillEntry

LEMMA NoFilesTyped == ASSUME Typed, NoSqlFiles PROVE Typed'
<1>1. arena \in Arena /\ mark \in Nat
  BY TypedIs DEF Typed, TypeOK
<1>2. arena' \in Arena
  BY <1>1, PoppedIs DEF NoSqlFiles
<1>3. popped' \in BOOLEAN
  <2>1. popped' = TRUE
    BY DEF NoSqlFiles
  <2> QED BY <2>1, Zenon
<1> QED BY <1>2, <1>3, DoneTyped DEF NoSqlFiles, Finish, found, Typed, TypeOK

LEMMA PushTextsTyped == ASSUME Typed, Sound, PushTexts PROVE Typed'
<1>1. /\ pc = "check" /\ cur = 1 /\ Pointer * entries \in Nat /\ entries \in Nat
      /\ UNCHANGED <<opt, dbPath, found, cur, buf, popped>>
  BY TypedIs DEF PushTexts, Listed, Sound, Stages, Pointer
<1>2. CASE PushFails(Pointer * entries)
  BY <1>1, <1>2, FailsTyped DEF found, Typed, TypeOK
<1>3. CASE /\ PushFits(Pointer * entries) /\ pc' = "read" /\ UNCHANGED outcome
           /\ arena' = Pushed(arena, "sql_bufs", 0, Pointer * entries)
  <2>1. arena' \in Arena
    BY <1>1, <1>3, TypedIs, PushedIs DEF PushFits, Kinds
  <2>2. cur' \in 1 .. (entries' + 1)
    BY <1>1 DEF found
  <2> QED BY <1>1, <1>3, <2>1, <2>2, MoveTyped DEF found, Typed, TypeOK
<1> QED BY <1>2, <1>3 DEF PushTexts

LEMMA ReadingIs ==
  ASSUME Typed, Reading
  PROVE  /\ pc = "read" /\ cur \in 1 .. entries /\ cur \in Files /\ cur \in Nat
         /\ cur + 1 \in 1 .. (MaxFiles + 1) /\ cur + 1 \in 1 .. (entries + 1)
BY TypedIs DEF Reading, Typed, TypeOK, Files

LEMMA ReadFileTyped ==
  ASSUME Typed, NEW size \in FileSizes, ReadFile(size) PROVE Typed'
<1>1. /\ pc = "read" /\ cur \in 1 .. entries /\ cur \in Files /\ size \in Nat
      /\ UNCHANGED <<opt, dbPath, found, popped>>
      /\ cur + 1 \in 1 .. (MaxFiles + 1) /\ cur + 1 \in 1 .. (entries + 1)
  BY ReadingIs, Sizes DEF ReadFile
<1>2. CASE PushFails(size) /\ UNCHANGED <<buf, cur>>
  BY <1>1, <1>2, FailsTyped DEF found, Typed, TypeOK
<1>3. CASE /\ PushFits(size) /\ arena' = Pushed(arena, "file", cur, size)
           /\ buf' = [buf EXCEPT ![cur] = [at |-> AlignUp(arena.position), size |-> size]]
           /\ cur' = cur + 1 /\ UNCHANGED <<pc, outcome>>
  <2>1. cur \in Nat /\ arena \in Arena /\ AlignUp(arena.position) \in Nat
    BY <1>1, TypedIs, ArenaIs DEF Files
  <2>2. arena' \in Arena
    BY <1>1, <1>3, <2>1, PushedIs DEF PushFits, Kinds
  <2>3. buf' \in [Files -> [at : Nat, size : Nat]]
    BY <1>1, <1>3, <2>1 DEF Typed, TypeOK
  <2> QED BY <1>1, <1>3, <2>2, <2>3, MoveTyped DEF found, Typed, TypeOK
<1> QED BY <1>2, <1>3 DEF ReadFile

LEMMA ReadShortTyped ==
  ASSUME Typed, NEW size \in FileSizes, ReadShort(size) PROVE Typed'
<1>1. /\ pc = "read" /\ cur \in 1 .. entries /\ cur \in Nat /\ size \in Nat
      /\ UNCHANGED <<opt, dbPath, found, buf, outcome, pc>> /\ cur' = cur + 1
      /\ cur + 1 \in 1 .. (MaxFiles + 1) /\ cur + 1 \in 1 .. (entries + 1)
      /\ PushFits(size) /\ arena \in Arena /\ arena.position \in Nat
  BY ReadingIs, TypedIs, ArenaIs, Sizes DEF ReadShort
<1>2. arena' = PoppedTo(Pushed(arena, "file", cur, size), arena.position, "file", cur)
  BY DEF ReadShort
<1> DEFINE a == Pushed(arena, "file", cur, size)
<1>3. a \in Arena
  BY <1>1, PushedIs DEF PushFits, Kinds
<1> HIDE DEF a
<1>4. arena' \in Arena
  BY <1>1, <1>2, <1>3, PoppedIs DEF a
<1>5. popped' \in BOOLEAN
  <2>1. popped' = TRUE
    BY DEF ReadShort
  <2> QED BY <2>1, Zenon
<1> QED BY <1>1, <1>4, <1>5, MoveTyped DEF found, Typed, TypeOK

LEMMA RunSqlTyped == ASSUME Typed, NEW n \in Statements, RunSql(n) PROVE Typed'
<1> DEFINE size == Pointer * n + buf[cur].size + n
<1>1. /\ pc = "apply" /\ cur \in 1 .. entries /\ cur \in Files /\ n \in Nat
      /\ UNCHANGED <<opt, dbPath, found, buf, popped>>
      /\ cur + 1 \in 1 .. (MaxFiles + 1) /\ cur + 1 \in 1 .. (entries + 1)
  BY TypedIs, Sizes DEF RunSql, Applying, Typed, TypeOK, Files
<1>2. buf[cur].size \in Nat /\ cur \in Nat
  BY <1>1 DEF Typed, TypeOK
<1>3. size \in Nat
  BY <1>1, <1>2 DEF Pointer
<1> HIDE DEF size
<1>4. CASE PushFails(size) /\ UNCHANGED cur
  BY <1>1, <1>4, FailsTyped DEF found, Typed, TypeOK
<1>5. CASE /\ PushFits(size) /\ arena' = Pushed(arena, "tokens", cur, size)
           /\ cur' = cur + 1 /\ UNCHANGED <<pc, outcome>>
  <2>1. arena' \in Arena
    BY <1>2, <1>3, <1>5, TypedIs, PushedIs DEF PushFits, Kinds
  <2> QED BY <1>1, <1>5, <2>1, MoveTyped DEF found, Typed, TypeOK
<1> QED BY <1>4, <1>5 DEF RunSql, size

(* Steps that touch neither the arena nor what is in it. *)
LEMMA StageTyped ==
  ASSUME Typed,
         ReadWhole \/ InvalidFormat \/ OpenDatabaseFails \/ OpenFails \/ AllRead
           \/ AllApplied \/ ApplyFails
  PROVE  Typed'
<1>1. /\ arena' \in Arena /\ popped' \in BOOLEAN /\ entries' \in 0 .. dir.sql
      /\ UNCHANGED <<opt, dbPath, dir, counted, mark, grown, lost, buf, popped>>
      /\ lost' \subseteq Files /\ buf' \in [Files -> [at : Nat, size : Nat]]
  BY TypedIs DEF ReadWhole, InvalidFormat, OpenDatabaseFails, OpenFails, AllRead,
     AllApplied, ApplyFails, found, Typed, TypeOK
<1>2. CASE InvalidFormat \/ OpenDatabaseFails \/ AllApplied \/ ApplyFails
  BY <1>1, <1>2, DoneTyped DEF InvalidFormat, OpenDatabaseFails, AllApplied,
     ApplyFails, Finish
<1>3. CASE ReadWhole
  BY <1>1, <1>3, MoveTyped DEF ReadWhole, Typed, TypeOK
<1>4. CASE OpenFails
  <2>1. /\ pc = "read" /\ pc' = "read" /\ cur' = cur + 1 /\ UNCHANGED <<entries, outcome>>
        /\ cur' \in 1 .. (MaxFiles + 1) /\ cur' \in 1 .. (entries + 1)
    BY <1>4, TypedIs DEF OpenFails, Reading, found, Typed, TypeOK
  <2> QED BY <1>1, <2>1, MoveTyped DEF Typed, TypeOK
<1>5. CASE AllRead
  <2>1. /\ pc' = "apply" /\ cur' = 1 /\ UNCHANGED <<entries, outcome>>
        /\ cur' \in 1 .. (MaxFiles + 1) /\ cur' \in 1 .. (entries + 1)
    BY <1>5, TypedIs DEF AllRead, found
  <2> QED BY <1>1, <2>1, MoveTyped DEF Typed, TypeOK
<1> QED BY <1>2, <1>3, <1>4, <1>5

LEMMA NextTyped == ASSUME Typed, Sound, [Next]_vars PROVE Typed'
<1>1. CASE UNCHANGED vars
  <2>1. TypeOK'
    BY <1>1 DEF vars, found, Typed, TypeOK
  <2>2. PathsOfFiles'
    BY <1>1 DEF vars, found, Typed, PathsOfFiles
  <2> QED BY <1>1, <2>1, <2>2 DEF vars, found, Typed
<1> QED BY <1>1, ParseArgsTyped, CreateTyped, CountTyped, GrowTyped, FillTyped,
        NoFilesTyped, PushTextsTyped, ReadFileTyped, ReadShortTyped, RunSqlTyped,
        StageTyped DEF Next

(* The arena's position stays a word and its commitment within what was    *)
(* reserved, also after a pop that took what it was not asked for          *)
(* (mem.c:75-115); every block, entry and path has the type it is used as. *)
THEOREM MemoryTypeCorrect == Spec => []TypeOK
<1>1. Init => Typed /\ Sound
  BY InitTyped, InitSound
<1>2. Typed /\ Sound /\ [Next]_vars => (Typed /\ Sound)'
  BY NextTyped, NextSound
<1>3. Typed => TypeOK
  BY DEF Typed
<1> QED BY <1>1, <1>2, <1>3, PTL DEF Spec
=============================================================================
