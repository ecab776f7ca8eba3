# A verification development for yueah

yueah is a blog server in C (h2o, libuv, SQLite, libsodium) with a separate
program, the migrator, that creates and changes its database. These modules
model the parts of it where several actors, failures or long sequences of calls
meet, check them with TLC on small instances and prove the most important facts
with TLAPS for every instance. Paths below are relative to the repository.

## The system

| Part | State it keeps | Operations | What makes it correct |
|---|---|---|---|
| auth handlers, `src/api/auth.c` | rows of `users` and `refresh_blacklist`, database handles | register, login, refresh | a refresh token is exchanged once; valid tokens are not lost; successors belong to the same user; handles are given back |
| JWT, `src/yueah/jwt.c` | keys (environment), tokens in clients' hands | create claims, encode, verify, get sub | tokens are accepted exactly within nbf..exp of unix time |
| cookies, `src/yueah/cookie.c` | clients' jars | Set-Cookie, find and cut out a cookie, delete the header | the content cut out is the content set |
| database handles, `src/yueah/db.c` | open `sqlite3` handles of a process | connect, disconnect | bounded |
| forms and responses, `src/yueah/response.c`, `url.c` | none | parse a body, get a value, answer | each field gets its own value |
| event loop, `src/main.c` | listener, connections | accept, dispatch | every request is answered |
| configuration, command line, logger, `config.c`, `cli.c`, `log.c` | a file, the registered output | read, write, parse, log | what is written is read back |
| dotenv, `dotenv/src/dotenv.c` | environment | load | terminates, trims, unquotes |
| migrator, `migrator/src/main.c`, `sql.c`, `cli.c` | `PRAGMA user_version`, tables, a transaction | plain run, `-c`, `-r`, `-n` | files applied whole, in order, once; the version tells the truth |
| migrator memory and files, `mem.c`, `file.c` | an arena | push, pop, read a file, split | buffers do not run into each other |
| schema, `migrations/*.sql` | tables, UNIQUE columns | | |

Interaction. A yueah process runs one libuv loop; a handler runs to its end
before the process looks at another connection. Processes share nothing in
memory. What they share is the SQLite file at `db_path`: several yueah
processes (the port is an option) and the migrator may work on it at once, and
`migrator -r` removes the file and makes a new one while others have the old
one open. Browsers hold the only copy of a refresh token; they may have several
tabs, lose connections and retry.

What is hard here: steps of two handlers interleaved at their SQL statements;
a handler that dies or fails between its statements; an answer that is lost;
time, which moves while a handler works and is compared in two zones; a lock
met in the middle of a migration; a migration that is run again after any of
this. `PROJECT.json` lists each hazard with its line and the properties that
cover it.

## Modules

| Module | Models | Runs |
|---|---|---|
| `RefreshChain` | abstract ledger of refresh tokens: issue, claim, grant, abandon | `chain` |
| `Auth` | the three handlers of `auth.c`, claims, cookies, handles, database | `auth_shared`, `auth_faults`, `auth_jars`, `auth_zone` |
| `Migration` | the migrator's `main`, `migrate` and `sql.c` | `mig_faults`, `mig_locks`, `mig_grows` |
| `MigratorMemory` | `mem.c` and `file.c`: the arena, and what one invocation keeps in it | `memory` |
| `CookieHeader` | `cookie.c` from the `Cookie` header to a token, as `get_refresh` uses it | `cookies` |
| `FormCodec` | `url.c` and the form functions of `response.c`, as register and login use them | `forms` |
| `Dotenv` | one line of a `.env` file in `dotenv.c` | through `Startup` |
| `Startup` | yueah's `main` up to `uv_run`, `config.c`, `load_dotenv`, the keys of `jwt.c` | `startup` |
| `MCAuth`, `MCRefreshChain`, `MCMigration`, `MCMigratorMemory`, `MCCookieHeader`, `MCFormCodec`, `MCStartup` | small instances | |
| `AuthProofs`, `AuthClientProofs`, `RefreshChainProofs`, `MigrationProofs`, `MigratorMemoryProofs`, `CookieHeaderProofs`, `FormCodecProofs`, `StartupProofs` | theorems | |

`PROJECT.json` maps every definition to the lines it stands for.

### Auth

A handler is cut at its SQL statements: one action per statement, together with
the straight-line code up to the next statement or to the answer. Between two
statements anything else may happen: other processes, the clock, the operator,
a crash. Variables: `users`, `blacklist` hold the rows per database file, where
a file is numbered by `era`, since handles on a removed file keep working;
`ready` says that the current file has its tables; `token` is every refresh
token ever minted with its claims (`from` is a ghost: the token it was
exchanged for); `jar`, `conn`, `req`, `answer` are the clients' side; `pc`,
`job`, `serving`, `at`, `open` are a process: the statement it is at, the
request, the tab it answers, the file it has open, the handles it holds.
`failed`, `refused` and `welcomed` are history variables.

Register is `InsertUser*`; login is `GetUser*`/`Login*` (one statement, then
verify, mint and answer in one action); refresh goes through
`query_blacklist`, `insert_blacklist`, `get_sub`, `get_user_userid` to
`RefreshGranted`. `get_sub` is no statement but reads the clock after the
insert, so it is a step of its own. Every failure of a statement is an action:
the table is missing, the lock is held, the row is there already. An open that
fails (`RefuseNoDatabase`) has made a handle which nobody closes; it has no
descriptor, so `Descriptors` is what the limit counts and `open` is the handles.

Where the code goes on with an uninitialised record after `SQLITE_BUSY` on a
SELECT (`auth.c:131-139`, `178-186`), `LoginTorn` and `RefreshTorn` enumerate
the outcomes: the process dies, or the memory still holds the record of an
earlier request. Constant `Busy` switches locks on.

External: browsers and their jars, the network, the clock, the supervisor that
restarts a process. A browser presents what the server set; it keeps a cookie
for its Max-Age. With `Eager = FALSE` it refreshes only once the session cookie
is gone, which is when the server's own numbers ask it to.

Assumed of a request: it is well formed, its Cookie header holds the two
cookies of this server and is not the first header of the request. That such a
header is read as `Auth` takes it is `OwnCookiesRead` of `CookieHeader`, where
the two are equally long, as the two tokens of one login are; without the
assumption `get_cookie_index` may loop for ever and the content cut from the
header may have the wrong length. Of a form `Auth` takes the two values as
given; how they are read is `FormCodec`. That a process has the keys it signs
with is `Startup`.

Assumed of time: one unit is 900 seconds in `Quarter = 1`; `Week = 2` keeps the
order of the durations (the nbf delay is shorter than the lifetime), the
session cookie's Max-Age is exactly the nbf delay. The proofs are for all
values.

### RefreshChain

What a client may rely on: a token is issued by a login or as the successor of
a claimed token, claimed at most once, and a claim ends in one successor or in
nothing. `Auth` implements it under the mapping at its end: `issued` are the
minted tokens, `spent` those blacklisted in their own file, `pending` those a
handler is at between its insert and its answer.

### Migration

One action per SQLite statement of the migrator, with `txn` for its transaction
and `lock` for the strongest lock any other process holds. `handle_step` fails
on `SQLITE_ERROR` and `SQLITE_MISUSE` and lets every other answer pass, so each
statement has three outcomes: it takes effect, the run fails (`CallFails`,
`StatementFails`), or it has no effect and the loop goes on (`PassOver`): reading
the version gives 0, a version is not written, BEGIN opens nothing, a statement
of a file is missing, a COMMIT leaves the transaction open. A lock in the way
makes the third happen; the 5 s of `sqlite3_busy_timeout` are the time in which
the step is not taken. With `Faults` it may happen to any call (a constraint, a
full disk, an I/O error), and SQLite may have rolled back the transaction with
it, after which the statements behind commit one by one (`StatementRunsAlone`)
and the COMMIT is the error `CommitFails`.

`locals` are `migrate`'s variables with the code's indices (`i` from 0, version
1 for an empty database). Two history variables, both cleared when the database
is made anew: `tainted`, a run failed or a file was added; `passed`, the files
of which a statement, the BEGIN or the COMMIT was passed over, and 0 for a
version. No file and no exit status records what was passed over; the properties
use `passed` to say what else can be relied upon.

`Refuse`, `FindNothing` and `Migrate` are the three ways an invocation starts;
`-c` and `-r` take effect before the directory is looked at, as in the code.
Files are numbered in the order of their identifiers, new ones come last (`-n`
names a file by the time). `Needs` says what must be there for a statement and
`Bad` which statements SQLite refuses anyhow, both any; in the runs files have
the shape of the repository's, where an index needs its table and
`posts.sql`'s second table needs nothing. Not modelled: two migrators at once; a
BEGIN within a transaction that answers anything but `SQLITE_ERROR`; statements
that drop what others made, and rows.

### CookieHeader

`get_refresh` up to the database and the removal of the header at its end, for
one request. `fields` is the header array: a field is the sequence of its
cookies, or empty when it is another header. Of texts only lengths matter: a
cookie is as long as its name, the `=` and its value, and `at` is the place of
its name in the field's text. `InLine` says that the cookies of a field lie one
behind the other, `"; "` apart, which is assumed of every request.
Variables `seeking`, `cursor`, `wanted` are the locals of `get_cookie_index`,
one action per turn of its loop: no header left (`FindNone`), the name seen in
the next one (`FindHere`), not seen (`FindOn`). Field 0 keeps the loop where it
is, as 0 stands for "not found yet". `cut` is what
`yueah_req_get_cookie_content` returns, with the length the cookie has.

The parser terminates no header text over HTTP/1, so the `strstr` of
`yueah_cookie_name_exists` may see a name in the memory behind a field. `behind`
holds the fields and names for which that is so; it is chosen at the start, any
set. The search within the field afterwards is bounded and then finds nothing.

`good` says which whole tokens verify. A token cut too long is refused. One cut
too short may be refused, accepted, since `yueah_jwt_verify` compares as many
bytes as the signature it was given has (`jwt.c:550`), or end the process, since
it looks for two dots and does not expect them to be missing; which of these
depends on where the cut falls, and `Truncated` allows all three. Names are not the end of one another, the rest
of the header fits into 4096 bytes and no header ends in a semicolon, which
browsers' headers do not.

### FormCodec

One action each for `yueah_parse_form_body` and the two calls of
`yueah_get_form_val`. A body is one text over `Chars`; of the escaped characters
only `%26` and `%00` are told apart, since they are what a split and a C string
react to. `Decode` ends at the first `%00` and leaves every character at its
place, so a string is told by the two places it lies between (a span), and
`strings`, the set of them, needs no pointers. `Pieces` is what `strtok` cuts
out: nothing for an empty field, while the array's length (`ArrayLen`) counts
ampersands, so that entries may stay unset; `AllSet` says that none did.
`MayMatch` is what `memcmp` over the key's length may say: a field shorter than
the key and an unset pointer are compared with memory nobody wrote. `KeyIndexes`
holds every outcome of the search, `Garbage` is a value from such memory, and
`Die` the end of the process when a pointer is followed that nobody set or the
length of a value goes below zero. For `OwnValue`, `Heads` are the fields of the
body as it was sent, each up to its first escape, and `Sent` is the value there.

### MigratorMemory

One invocation of the migrator in its arena, from `parse_args` to the last
statement. `arena` has the position, what is committed and the blocks in use;
addresses count from the header. `Pushed` and `PoppedTo` are `arena_push` and
`arena_pop_to` with the width of `mem_t` (`Word`). `AlignUp` is the macro by a
power of two, `AlignUpBy` by the number `arena_pop` gives it, the position,
where it clears whichever bits that number has (`And`, the bitwise and, adds up
the bits both numbers have, as a recursive function). A push that finds no room
answers NULL and the caller writes through it (`PushDies`). A push that lands
on something in use has any outcome (`PushSpoils`). `find_migrations` reads the
directory twice with `GrowDirectory` in between, and `lost` are the entries
whose path was written over. File texts are pushed without a terminator;
`Reached` says which blocks `strchr` and `strlen` get to from a text.

Not in it: `arena_clear` and the scratch arenas, which nothing the program runs
uses, and the kernel refusing memory at `arena_init`. The copies of a file's
tokens are one block.

### Dotenv and Startup

`Dotenv` is `parse_line` as operators over a line: the two parts `sscanf`
finds, `Trim` with what it keeps, `TrimHangs` where its second loop never ends,
`RemoveQuotes`, which takes off double quotes and never single ones
(`dotenv.c:45` tests the terminator). `Meant` is the same line as its author
means it, for comparison, and `Plain` what it takes for the two to agree: both
parts fit their buffers, neither starts with white space, and the value does
not start with a single quote.

`Startup` has one action per system call that others can see: read the
configuration; look for, make, open and write it; make `./logs`; parse `-p`;
listen; open `.env` and read it line by line. Several processes share the
directory; the operator starts them, kills them anywhere and saves the
configuration. `config` is a text (`log` a word, `port` a number), `Partial`
between `fopen` and the last byte, `Broken` or `Absent`. `Written` and `Parsed`
are the two conversions: a word is compared by its first four letters in any
case, a port is cut to its width and 0 is written as the default. A `.env`
is a sequence of lines, and `place` says which piece of which line `fgets`
delivers next: a line longer than its buffer comes in several, and each is
parsed as a line. A hang is the explicit state `stuck`,
so that a start always ends is a safety property here. A serving process
signs with the keys of its environment (`Login`) or makes one, writes it over
the file and refuses (`LoginMakesKey`); whatever stands behind the first
character that is no hex digit is ignored.

Left out: `db_path` and the address, carried along unchanged, and the size
limit of 10 KiB, which is `Broken` for the reader. `Console` would be written
as `file`, but no path of `main` writes anything other than the defaults. Port
0 from the file listens on any free port. Whether `./logs` could be made is
looked at by nobody.

## Runs

| Run | Shows | Bounds and why they are enough |
|---|---|---|
| `auth_shared` | `NoTokenBurnt`, `NotStranded`, `RedemptionCompletes`, `EveryRequestAnswered` | one user, 2 tabs on one jar, 2 processes, 5 requests, time 0..3: register, login, and two concurrent refreshes with a further one, through a token's whole life |
| `auth_faults` | `TypeOK`, `SingleUse`, `ConfirmedOnce`, `HandlesAccounted` | the same with crashes, disconnects, locks and torn reads; time 0..3; descriptor limit 2, so that it is reached and opens fail |
| `auth_jars` | `HandlesAccounted`, `ChainSpec` | two users with a browser each, 2 processes, one recreation of the database, during which opens fail |
| `auth_zone` | violation of `WindowIsUnixTime` | `TzOffset = -1` |
| `chain` | `TypeOK`, `NoFork`, `SettledHaveSuccessor` | 4 tokens: two chains or one of length 4 |
| `mig_faults` | `TypeOK`, `VersionNeverBehind`, `AppliedInOrder`, `VersionMonotone` | 0 to 3 files of 2, 3 and 1 statements, one of them bad, 4 invocations, faults and crashes anywhere |
| `mig_locks` | `PerFileAtomic`, `OkMeansComplete`, `RunEnds` | 2 to 3 such files, 3 invocations, all locks, faults and crashes anywhere |
| `mig_grows` | violation of `VersionNamesFile` | 1 file, then 2 |
| `memory` | `TypeOK`, `Apart`, `OwnText`, `PathsKept`, `NothingFoundFails` | up to 3 .sql files and 1 other; lengths 0, 3, 8, 13: empty, shorter than a word, a whole word, more; an arena that some directories fill up |
| `cookies` | `TypeOK`, `FirstWithName`, `SessionNotSkipped`, `OwnCookiesRead`, `Answered` | 1 to 3 fields, each other than Cookie or one or both of the server's cookies in either order; 1 to 2 fields also with a cookie of another page and a longer token; every `behind` |
| `forms` | `TypeOK`, `ValueOfKey`, `OwnValue`, `Survives` | every body of up to 3 of 12 fields: both keys, values with an escaped ampersand, key or zero, longer and shorter names, an empty field |
| `startup` | `TypeOK`, `ConfigurationKept`, `EnvironmentAsWritten`, `TokensOutlive`, `LoneStartServes` | 2 processes, 2 starts, 1 save, ports 0..7, `.env` lines of up to 11 characters in a buffer for 7 |

Three fields have a Cookie header before, at and after the one wanted, or the
check's first header, the loop's first header and one more; the search treats
further ones alike, which `CookieHeaderProofs` confirms. Name lengths are 2, 2
and 1 for 13, 13 and any: only equal or not matters to the arithmetic.

In `memory` sizes are scaled (32 MiB reserved and 16 MiB committed at a time
become 312 and 128 bytes, a path 16, `mem_t` 12 bits), such that every branch is
taken: commits in chunks, a last chunk cut off at the end, an arena that is
full. Alignment, header and pointers have their real sizes. In `forms` the keys
have two characters instead of eight; both still have one length. Three fields
are the two keys' and one before, between or behind them. In `startup` a second
start meets what the first one left at each of its steps, or runs beside it; one
save is enough to fall before, into or after either.

Tokens are made fresh, so `Ids` has one per request (assumption `EnoughIds`).
The processes are interchangeable, hence the symmetry set in the runs without
liveness properties.
The run of `CookieHeader` checks for deadlock, a handler being stuck short of an
answer. The others do not: browsers may stop sending, operators may stop
invoking, the bounds on requests, invocations and starts end every behaviour,
and a form that was read and a migrator that exited are done.

Fairness. `Auth`: a handler that was entered runs on (weak fairness of
`Step(w)`: it is straight-line code in the one thread of the loop), and a
request that waits is picked up in the end (strong fairness over all processes:
the loop polls all its sockets each turn but may be busy with another one
whenever it is looked at). Browsers, the clock, operators and crashes get no
fairness. `CookieHeader`: a handler runs on (weak fairness of `Next`).
`Migration`: the migrator runs (weak fairness of `Proceed`, that is without
`CallFails`, so that no run ends only because a call had to fail), other
processes need never release a lock. The other modules state safety only and assume no
fairness.

What the violations show. `auth_zone`: `yueah_jwt_get_sub` compares unix times
with local time; behind UTC a refresh token that a login issued is refused when
the client comes for the first time, and it has been blacklisted by then.
`mig_grows`: the loop restarts at the first file, so a directory that grew
cannot be migrated: the run fails, and the following one takes the version the
failed run left behind for "all applied" and ends with status 0.

Some behaviours are plain in the models and need no run. `-c` empties a database
that exists (`PrepareFile`), where `cli.c:18` says "Create database file if it
doesn't exist". A COMMIT that meets a reader is logged as applied, the exit
status may be 0, and closing the database rolls it back (`CommitSkipped`). A
statement that was passed over is missing for good: the rest of its file is
committed, the version counts it, and no later run of the same directory comes
back to it (`StatementSkipped`). A client that splits its cookies over two header fields, as HTTP/2 allows, with the
wanted one first is never answered (`Answered` leaves that request out). With a
third cookie behind the server's two the refresh cookie is cut to the third
one's length. A migration file whose length is a multiple of 8, the empty one
`-n` makes among them, runs on into the next file (`OwnText` leaves it out), and
after a short read the arena gives back more than it should (`Apart` holds until
something is popped). A form without the key asked for takes the value of the
first field, and `key` is only a prefix of the name, so `passwords=` counts for
`password`. A start that dies while it writes `config.json` leaves a file the
next one overwrites with the defaults, as it does with one it cannot read. A
blank behind the `=` of a `.env` line, or a directory of that name, keeps yueah
from ever serving.

The passing runs hold what is true beside that. The migrator's properties say
how far the damage of an answer that was passed over reaches: `PerFileAtomic`
and `AppliedInOrder` that the files it happened to are the only ones in half or
missing, `OkMeansComplete` when an exit status of 0 can be believed (and that
`-r` always leads back there), `VersionNeverBehind` and `VersionMonotone` that
no statement, BEGIN or COMMIT passed over puts the version wrong, only one of
its own. `HandlesAccounted` says the same of handles: two paths keep one, no
other does. `OwnCookiesRead`, `OwnText`, `PathsKept`, `OwnValue`, `Survives`,
`EnvironmentAsWritten` and `LoneStartServes` name the exact condition under
which code without bounds checks does what it should.

## Proofs

`RefreshChainProofs`: `ChainsDoNotFork` (`NoFork` and `SettledHaveSuccessor`) and
`LedgerIsOne` (`TypeOK`). `NoFork` is not inductive (a pending token with a
successor could get another one); `Chained` adds the other two and that unborn
tokens have no predecessor.

`AuthProofs`, for every set of users, processes, tabs, browsers and tokens, all
durations, offsets and bounds:

- `TypeCorrect` and `HandlesAreAccounted`. Neither is inductive alone: that
  `Close` leaves a natural number follows from the accounting of handles (one
  for each failed registration, for each failed open, and for the request that
  is served), that a registered name is a name from the form the handler was entered with. The
  inductive invariant `Sound` is both with `FormsFilled` (what a request of each
  kind contains) and `OnlyMinted` (cookies, answers and requests hold only
  tokens that exist).
- `ExchangedOnce`, `Spec => []SingleUse`. `ChainInv` adds `ClaimIsRow` (a
  handler past the insert finds its token in the blacklist of its file),
  `OneOwner` (at most one handler is past the insert for a token in a file) and
  `SuccessorSettles` (a token with a successor is blacklisted and nobody is at
  it any more).
- `HandlersImplementChains`, `Spec => ChainSpec`: each action is mapped to
  `Issue`, `Claim`, `Grant`, `Abandon` or a stutter (`MappedStep`).

`ExchangedOnce` and `HandlersImplementChains` assume `ReadsReliable`: reads are
not torn, or the database is never recreated. Without it a torn read may carry a
token of a removed file into the new one. The assumptions on the constants are
the ones `Auth` states.

`AuthClientProofs`, what a client may rely on:

- `RegisteredOnce`, `Spec => []ConfirmedOnce`, with crashes, locks and
  recreations: `Welcome` adds that a confirmed name has its row, so that the
  UNIQUE column refuses it from then on.
- `ValidTokensAreNotBurnt` and `NobodyIsStranded`, `Spec => []NoTokenBurnt` and
  `Spec => []NotStranded`, for every number of tabs and processes and all
  durations, where nothing fails, browsers wait for the session to end and the
  database is never recreated (`Gentle`). They need to know what each tab and
  handler is about to do: `Unburnt` adds `Patience` (a token that is presented
  has waited out its delay) and `SubjectsStay` (its user's row is there);
  `InHand` adds `Serving` (a handler has its tab to itself), `OneBrowser` (a
  token is in the hands of one browser) and `Unpresented` (a token in an answer
  on its way is in nobody's hands and not blacklisted).

`MigrationProofs`, for every number, length and content of files, whatever their
statements need, with all locks, faults and crashes:

- `TypeCorrect`. An invocation takes `i` as it finds it, so the inductive
  invariant `Typed` adds `Resting`: between invocations `i` is 0.
- `FilesAreAtomic` and `OrderIsKept`, `Spec => []PerFileAtomic` and `Spec =>
  []AppliedInOrder`. Neither is inductive: a COMMIT makes them true of what it
  writes only when what the transaction holds is known, and that of a file may
  be in one transaction, in none any more, or in the one the file before left
  open. `Orderly` adds `Applying`: a writing transaction holds what is committed
  and statements of the file at hand (`InFile`), all those tried so far when
  nothing of the file was passed over (`Unpassed`), and every file the loop has
  left behind is complete or something of it was passed over (`Reached`). The
  lemma `Grows` says what both properties are kept by: objects of the file at
  hand coming in.
- `VersionTellsAll` and `VersionOnlyGrows`, `Spec => []VersionNeverBehind` and
  `Spec => VersionMonotone`. While no version was passed over the loop knows the
  one on disk (`Known`), and it is greater than the number of any file of which
  something is there (`Ahead`), a stronger statement than the property, which
  speaks of complete files: only a version that is ahead of the first statement
  stays ahead of the last. `Numbered` is `Orderly` and these.
- `ExitsAreBelievable`, `Spec => []OkMeansComplete`. `Believable` adds `OnTrack`:
  in an untainted history `user_version` is one ahead of the files the loop has
  left behind, so that the exit test is met at the end of the directory or when
  everything was applied before.

`MigratorMemoryProofs`, for every size of arena, paths and files, and any number
of files: `BlocksApart` (`Apart`), `TextsAreOwn` (`OwnText`), `EntriesFit`
(`PathsKept`), `NothingFoundIsFailure` (`NothingFoundFails`). The inductive
invariant `Sound` adds `Arranged` (blocks start at a word, end before the
position and are committed), `Texts` (the text of each file is where `buf` says,
one block each, of files that were read), `Arrays` (the one array of entries)
and `Stages` (how far the invocation is). That a text ends with its file then
follows from the arithmetic of `AlignUp`: between a length that is no multiple
of 8 and the next block there is a byte of no file.

`MemoryTypeCorrect` (`TypeOK`) is about popping too, after which `Sound` says
nothing of the blocks any more: that whatever `arena_pop_to` computes leaves a
position within the width of `mem_t`. The invariant `Typed` adds that the
directory has not grown by more than it holds and that paths belong to files.
The lemma `AndIs` says of any width that the bitwise and of two numbers is a
number, which takes the existence of its partial sums (`SumsExist`).

`CookieHeaderProofs`, for requests of any number of fields and cookies:

- `CookieTypeCorrect` (`TypeOK`), whatever lies behind the texts: the lengths
  `yueah_req_get_cookie_content` subtracts never go below zero. `Reading` adds
  that a header that is cut is a Cookie header, and where the cursor is while
  nothing is searched. `LaterBehind` says that of two cookies of a field the
  later one lies behind the end of the earlier one.
- `FirstHeaderFound` and `SessionIsChecked`, `Spec => []FirstWithName` and
  `Spec => []SessionNotSkipped`. The inductive invariant `SearchInv` adds the
  loop's invariant `Passed`: what the cursor has passed does not have the name.
  When the loop ends without a header, no header has the name, which is what
  lets a missing session cookie count as expired. What is verified is the cookie
  or a part of it, since text behind it makes verification fail (`AcceptedIs`).
  Both are about requests whose texts nothing overruns.
- `OwnCookiesAreRead` (`OwnCookiesRead`), for any cookies of any lengths and
  whatever lies behind: a name seen in the wrong memory is in the same header in
  truth, as there is one (`Lone`, `OwnFound`). `CutLengthRest` computes the
  length cut out: that of the text behind the cookie, when there is any, which
  is the cookie's own exactly if `Fits`. `Own` adds to the property where
  each cut came from, and that whoever looks for or verifies a cookie has cut
  out the ones before it.

`FormCodecProofs`, for keys and bodies of any characters and any length:
`FormTypeCorrect` (`TypeOK`), `ValuesAreOfKeys` (`ValueOfKey`), `ValuesAreOwn`
(`OwnValue`) and `WholeFormsSurvive` (`Survives`). The inductive invariant
`Sound` says that the array is the one the body gives (`Made`), that a value
taken is one the search may give for it (`Looked`) and that the process died of
nothing but what `MayDie` allows. What carries the theorems:

- `PiecesFit`: there are never more pieces than entries. Each piece has its own
  end, an ampersand or the end of the text, so the pieces are mapped one to one
  into these, of which there are as many as entries (`EntriesAre`). Where no
  field is empty each of them ends a piece, and every entry is set.
- `HeadIsPiece`: a field as sent, up to its first escape, starts where a piece of
  the decoded body starts and agrees with it up to there. So if one piece begins
  with the key, it is that of the field that carries the key.
- `DecodePlain`: a body without escapes is its own decoding. Then no piece is too
  short when no field is, and nothing is left unset.

`StartupProofs`, for any number of processes, starts and saves, with crashes
anywhere, and `.env` files of any lines:

- `SavesAreKept`, `Spec => []ConfigurationKept`. `Kept` adds `SaveStays` (while
  the operator's text is there nobody is about to write another),
  `WritersAgree` (while somebody is about to write, whoever has a configuration
  has the defaults), `InDirectory` and `HoldsDefaults`.
- `StartupTypeCorrect` (`TypeOK`). `Typed` adds `ReadsInOrder`: the environment of
  a process is a function of its `.env`, of what it inherited and of the place
  it has read to, namely for each variable the value of the last piece before
  that place that sets it (`EnvAt`).
- `EnvironmentIsAsWritten` (`EnvironmentAsWritten`). `LineAsMeant` is the fact
  about `parse_line`: a plain line sets what its author means by it. With it the
  last piece that sets a variable is the last line that means it, since each
  line of a plain file is one piece.
- `TokensOutliveProcesses` (`TokensOutlive`). `MintedWithNamed` says of every token
  that it was made with the keys its environment names, which depend on the file
  and the inheritance alone.
- `LoneStartsServe` (`LoneStartServes`). `Lonely` adds that nobody else is up while
  a start is alone, that a process that does not listen yet or has ended holds no
  port, and that `./config` is no directory while a lone start is about to make
  it.

Where the argument is by induction over data (the first character of a kind, the
last piece before a place, the sums of `And`), the proofs take the least element
of a set of numbers instead (lemma `Least`, from the library's theorem on
well-founded relations), since a schema of induction cannot be instantiated.

Only model-checked: the liveness properties `RedemptionCompletes`,
`EveryRequestAnswered`, `RunEnds` and `Answered`, which are out of the prover's
reach. Every invariant and every action property of the passing runs is a
theorem. Some hold under a hypothesis, named above with each: `ReadsReliable` or
`Gentle`. The runs that check those properties satisfy the hypothesis of each.

## Not modelled

Conversions without state: password hashing, base64, JSON, HMAC and the encoding
of claims (tokens presented are tokens minted), uuids, the attributes and dates
of a Set-Cookie header, the texts of answers. Output: both loggers, usage texts,
the spelling checks of the migrator's paths. Fixed behaviour: CORS, the blog
handler, the registration of paths with h2o. The posts tables, which no code
uses yet, and the build.

Writes outside a buffer whose effect depends on what lies behind it are listed
as hazards without a property (`cookie.c:390`, `base64.c:39`); in `Dotenv`,
`FormCodec` and `MigratorMemory`, where the code's further way is known, such
writes and reads are steps with every outcome.

## Plan

What could follow: `ExchangedOnce` and `HandlersImplementChains` where reads may
be torn and the database recreated, with what a torn read can bring said
precisely instead of excluded; the steps towards the liveness
properties as action properties (a measure that each step of a handler, of the
search for a cookie and of the migrator lowers); a second migrator beside the
first one in `Migration`; handlers for posts once the program has them.
