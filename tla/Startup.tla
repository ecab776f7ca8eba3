------------------------------ MODULE Startup -------------------------------
(***************************************************************************)
(* Starts of yueah in one directory: main from read_config to uv_run, the  *)
(* configuration file, ./logs, the command line, the listener and .env,    *)
(* and the JWT keys a serving process takes from its environment.          *)
(*                                                                         *)
(* A start that finds no readable configuration makes the directory and    *)
(* writes the defaults, in steps of their own: another start, the operator *)
(* or a crash may come between any two.                                    *)
(*                                                                         *)
(* External: the file system, yyjson, libuv's listener, the operator who   *)
(* edits config/config.json and .env, hex decoding by libsodium.           *)
(***************************************************************************)
EXTENDS Dotenv, FiniteSets

CONSTANTS
  Processes,
  ConfigTexts,  \* well-formed configurations the operator may save
  Dotenvs,      \* .env files there may be: lines, or Missing, or Directory
  Environments, \* what a process may inherit, as a function of Variables
  Arguments,    \* operands of -p on a command line, at most one
  LineSize,     \* size of load_dotenv's line
  MaxPort,      \* the largest port, one less than a power of two
  KeyBytes,     \* length of a key
  DefaultPort,
  AccessKey, RefreshKey,  \* names of the two variables
  Absent, Partial, Broken, Missing, Directory, Unset,
  MaxStarts, MaxSaves, MaxKeys  \* bounds

Variables == {AccessKey, RefreshKey}
Nothing == [v \in Variables |-> Unset]
Ports == 0 .. MaxPort

(* A line ends with its newline, but for the last one of a file.           *)
IsLine(str) ==
  str # <<>> /\ \A i \in 1 .. (Len(str) - 1) : str[i] # "\n"

(* What an environment says of the two variables. *)
Environs == [Variables -> {Unset} \cup Seq(STRING)]

ASSUME Widths ==
  /\ LineSize \in Nat \ {0, 1} /\ KeyBytes \in Nat \ {0}
  /\ MaxPort \in Nat /\ DefaultPort \in Ports \ {0}
ASSUME Bounds == MaxStarts \in Nat /\ MaxSaves \in Nat /\ MaxKeys \in Nat
ASSUME Texts ==
  /\ \A t \in ConfigTexts : DOMAIN t = {"log", "port"} /\ t.port \in Nat
  /\ Arguments \subseteq SUBSET Nat
  /\ \A a \in Arguments : Cardinality(a) <= 1
  /\ \A d \in Dotenvs \ {Missing, Directory} :
       d \in Seq(Seq(STRING)) /\ \A i \in DOMAIN d : IsLine(d[i])
  /\ Environments \subseteq Environs
  /\ Missing # Directory /\ Unset \notin Ports

VARIABLES
  configDir,  \* what is at ./config
  config,     \* its config.json
  logs,       \* what is at ./logs
  keyFile,    \* how often access_jwt_key.txt, refresh_jwt_key.txt was written
  pc, arg,
  conf,       \* yueah_config of a process, before -p
  at,         \* the port it listens on, or Unset
  env,        \* its environment, as far as the keys go
  inherited,  \* the one it was started with
  loaded,     \* the .env it read
  place,      \* what fgets delivers next of it: a line, and which piece of it
  minted,     \* keys of the tokens in clients' hands (with their process's
              \* .env and inheritance: history)
  saved,      \* what the operator saved last (history)
  raced,      \* while a start was about to write (history)
  asSaved,    \* processes that took the configuration since the operator's
              \* last save (history)
  alone,      \* starts that met no other process, and no save while they
              \* were about to write (history)
  starts, saves

disk == <<configDir, config, logs>>
local == <<pc, arg, conf, at, env, inherited, loaded, place>>
history == <<saved, raced, asSaved, alone>>
vars == <<disk, keyFile, local, minted, history, starts, saves>>

Configs == [log : {"Both", "File", "Console"}, port : Ports]

-----------------------------------------------------------------------------
(* The configuration as text and as record. *)
Defaults == [log |-> "Both", port |-> DefaultPort]

LogWord(type) ==
  IF type = "Both" THEN <<"b", "o", "t", "h">> ELSE <<"f", "i", "l", "e">>

(* strncasecmp over four letters. *)
LogType(word) ==
  LET begins(type) == IsPrefix(ToUpper(LogWord(type)), ToUpper(word)) IN
    IF begins("Both") THEN "Both"
    ELSE IF begins("File") THEN "File" ELSE "Console"

(* Mutant: everything is written as the log goes to a file. *)
WrittenToFile(c) == [log |-> LogWord("File"), port |-> c.port]

(* What write_config writes; 0 is no port. *)
Written(c) ==
  [log |-> LogWord(c.log), port |-> IF c.port = 0 THEN DefaultPort ELSE c.port]

(* Mutant: the port keeps the width it has in the file. *)
ParsedWide(text) == [log |-> LogType(text.log), port |-> text.port]

(* What read_config takes; the port is cut to its width. *)
Parsed(text) == [log |-> LogType(text.log), port |-> text.port % (MaxPort + 1)]

(* A file that is missing, cut off or misspelt is none of these. *)
ASSUME Distinct ==
  /\ {Absent, Partial, Broken} \cap (ConfigTexts \cup {Written(Defaults)}) = {}
  /\ Partial \notin {Absent, Broken}

Labels == {"off", "exited", "read", "find", "mkdir", "open", "write", "logs",
           "args", "listen", "dotenv", "line", "stuck", "serving"}

TypeOK ==
  /\ configDir \in {"absent", "dir", "file"}
  /\ config \in {Absent, Partial, Broken, Written(Defaults)} \cup ConfigTexts
  /\ configDir # "dir" => config = Absent
  /\ logs \in {"absent", "dir"} /\ keyFile \in [Variables -> 0 .. MaxKeys]
  /\ pc \in [Processes -> Labels]
  /\ arg \in [Processes -> Arguments \cup {{}}] /\ conf \in [Processes -> Configs]
  /\ at \in [Processes -> Ports \cup {Unset}]
  /\ env \in [Processes -> Environs] /\ inherited \in [Processes -> Environs]
  /\ loaded \in [Processes -> Dotenvs \cup {Missing}]
  /\ place \in [Processes -> [line : Nat, piece : Nat]]
  /\ saved \in ConfigTexts \cup {Absent, Broken} /\ raced \in BOOLEAN
  /\ asSaved \subseteq Processes /\ alone \subseteq Processes
  /\ starts \in 0 .. MaxStarts /\ saves \in 0 .. MaxSaves

(* The beginning of a .env file. *)
Top == [line |-> 1, piece |-> 0]

Readable == configDir = "dir" /\ config \notin {Absent, Partial, Broken}

Init ==
  /\ configDir \in {"absent", "dir", "file"}
  /\ config \in {Absent, Partial, Broken} \cup ConfigTexts
  /\ configDir # "dir" => config = Absent
  /\ logs \in {"absent", "dir"}
  /\ keyFile = [v \in Variables |-> 0]
  /\ pc = [p \in Processes |-> "off"]
  /\ arg = [p \in Processes |-> {}]
  /\ conf = [p \in Processes |-> Defaults]
  /\ at = [p \in Processes |-> Unset]
  /\ env = [p \in Processes |-> Nothing]
  /\ inherited = env
  /\ loaded = [p \in Processes |-> Missing]
  /\ place = [p \in Processes |-> Top]
  /\ minted = {} /\ saved = Absent /\ raced = FALSE /\ asSaved = {} /\ alone = {}
  /\ starts = 0 /\ saves = 0

-----------------------------------------------------------------------------
(* External: the operator. *)
Down == {p \in Processes : pc[p] \in {"off", "exited"}}

Start(p) ==
  /\ p \in Down /\ starts < MaxStarts
  /\ pc' = [pc EXCEPT ![p] = "read"]
  /\ \E a \in Arguments, e \in Environments :
       /\ arg' = [arg EXCEPT ![p] = a]
       /\ inherited' = [inherited EXCEPT ![p] = e]
       /\ env' = [env EXCEPT ![p] = e]
  /\ conf' = [conf EXCEPT ![p] = Defaults]
  /\ loaded' = [loaded EXCEPT ![p] = Missing]
  /\ place' = [place EXCEPT ![p] = Top]
  /\ alone' = IF Down = Processes THEN {p} ELSE {}
  /\ asSaved' = asSaved \ {p}
  /\ starts' = starts + 1
  /\ UNCHANGED <<disk, keyFile, at, minted, saved, raced,
                 saves>>

(* A process dies, or is stopped, and what it held is gone. *)
Crash(p) ==
  /\ p \notin Down
  /\ pc' = [pc EXCEPT ![p] = "off"]
  /\ at' = [at EXCEPT ![p] = Unset]
  /\ arg' = [arg EXCEPT ![p] = {}]
  /\ conf' = [conf EXCEPT ![p] = Defaults]
  /\ env' = [env EXCEPT ![p] = Nothing] /\ inherited' = [inherited EXCEPT ![p] = Nothing]
  /\ loaded' = [loaded EXCEPT ![p] = Missing] /\ place' = [place EXCEPT ![p] = Top]
  /\ asSaved' = asSaved \ {p} /\ alone' = alone \ {p}
  /\ UNCHANGED <<disk, keyFile, minted, saved, raced, starts, saves>>

AboutToWrite == {p \in Processes : pc[p] \in {"find", "mkdir", "open", "write"}}

SaveConfig(text) ==
  /\ saves < MaxSaves /\ configDir # "file"
  /\ configDir' = "dir" /\ config' = text
  /\ saved' = text /\ raced' = (AboutToWrite # {})
  /\ alone' = alone \ AboutToWrite
  /\ asSaved' = {}
  /\ saves' = saves + 1
  /\ UNCHANGED <<logs, keyFile, local, minted, starts>>

-----------------------------------------------------------------------------
(* main up to the listener. *)
Goto(p, l) == pc' = [pc EXCEPT ![p] = l]
Exit(p) == Goto(p, "exited") /\ at' = [at EXCEPT ![p] = Unset]

ReadConfig(p) ==
  /\ pc[p] = "read"
  /\ \/ /\ Readable
        /\ conf' = [conf EXCEPT ![p] = Parsed(config)]
        /\ asSaved' = asSaved \cup {p}
        /\ Goto(p, "logs")
     \/ ~Readable /\ Goto(p, "find") /\ UNCHANGED <<conf, asSaved>>
  /\ UNCHANGED <<disk, keyFile, arg, at, env, inherited, loaded, place, minted,
                 saved, raced, alone, starts, saves>>

(* Mutant: write_config makes the directory whether it is there or not. *)
FindConfigDirNever(p) ==
  /\ pc[p] = "find"
  /\ Goto(p, "mkdir")
  /\ UNCHANGED <<disk, keyFile, arg, conf, at, env, inherited, loaded, place,
                 minted, history, starts, saves>>

FindConfigDir(p) ==
  /\ pc[p] = "find"
  /\ Goto(p, IF configDir = "dir" THEN "open" ELSE "mkdir")
  /\ UNCHANGED <<disk, keyFile, arg, conf, at, env, inherited, loaded, place,
                 minted, history, starts, saves>>

(* mkdir fails when something is there, be it what another start made. *)
MakeConfigDir(p) ==
  /\ pc[p] = "mkdir"
  /\ \/ configDir = "absent" /\ configDir' = "dir" /\ Goto(p, "open") /\ UNCHANGED at
     \/ configDir # "absent" /\ Exit(p) /\ UNCHANGED configDir
  /\ UNCHANGED <<config, logs, keyFile, arg, conf, env, inherited, loaded,
                 place, minted, history, starts, saves>>

(* fopen with "w" empties the file; what is written comes later. *)
OpenConfig(p) ==
  /\ pc[p] = "open"
  /\ config' = Partial
  /\ Goto(p, "write")
  /\ UNCHANGED <<configDir, logs, keyFile, arg, conf, at, env, inherited,
                 loaded, place, minted, history, starts, saves>>

WriteConfig(p) ==
  /\ pc[p] = "write"
  /\ config' = Written(conf[p])
  /\ asSaved' = asSaved \cup {p}
  /\ Goto(p, "logs")
  /\ UNCHANGED <<configDir, logs, keyFile, arg, conf, at, env, inherited,
                 loaded, place, minted, saved, raced, alone, starts,
                 saves>>

(* Nobody looks whether ./logs could be made. *)
OpenLogs(p) ==
  /\ pc[p] = "logs"
  /\ logs' = IF conf[p].log \in {"Both", "File"} THEN "dir" ELSE logs
  /\ Goto(p, "args")
  /\ UNCHANGED <<configDir, config, keyFile, arg, conf, at, env, inherited,
                 loaded, place, minted, history, starts, saves>>

BadArgument(p) == \E n \in arg[p] : n \notin Ports \ {0}

ParseArgs(p) ==
  /\ pc[p] = "args"
  /\ IF BadArgument(p) THEN Exit(p) ELSE Goto(p, "listen") /\ UNCHANGED at
  /\ UNCHANGED <<disk, keyFile, arg, conf, env, inherited, loaded, place,
                 minted, history, starts, saves>>

Port(p) == IF arg[p] = {} THEN conf[p].port ELSE CHOOSE n \in arg[p] : TRUE

(* create_listener; port 0 is any that is free. *)
CreateListener(p) ==
  /\ pc[p] = "listen"
  /\ IF Port(p) # 0 /\ \E q \in Processes : at[q] = Port(p)
     THEN Exit(p)
     ELSE at' = [at EXCEPT ![p] = Port(p)] /\ Goto(p, "dotenv")
  /\ UNCHANGED <<disk, keyFile, arg, conf, env, inherited, loaded, place,
                 minted, history, starts, saves>>

-----------------------------------------------------------------------------
(* load_dotenv.                                                            *)

(* fgets: a line, or as much of it as there is room for, then the rest of  *)
(* it in further pieces.                                                   *)
Room == LineSize - 1
IsLast(d, x) == (x.piece + 1) * Room >= Len(d[x.line])
Piece(d, x) ==
  SubSeq(d[x.line], x.piece * Room + 1,
         IF IsLast(d, x) THEN Len(d[x.line]) ELSE (x.piece + 1) * Room)
NextPlace(d, x) ==
  IF IsLast(d, x) THEN [line |-> x.line + 1, piece |-> 0]
                  ELSE [x EXCEPT !.piece = @ + 1]

OpenDotenv(p) ==
  /\ pc[p] = "dotenv"
  /\ \E d \in Dotenvs :
       /\ loaded' = [loaded EXCEPT ![p] = d]
       /\ \/ d = Missing /\ Goto(p, "serving")
          \/ d = Directory /\ Goto(p, "stuck")
          \/ d \notin {Missing, Directory} /\ Goto(p, "line")
  /\ UNCHANGED <<disk, keyFile, arg, conf, at, env, inherited, place, minted,
                 history, starts, saves>>

(* Mutant: what is set already stays. *)
SetEnvOnce(e, line) ==
  [v \in Variables |->
    IF v = KeyOf(line) /\ e[v] = Unset THEN ValueOf(line) ELSE e[v]]

SetEnv(e, line) ==
  [v \in Variables |-> IF v = KeyOf(line) THEN ValueOf(line) ELSE e[v]]

Reads(p) == pc[p] = "line" /\ place[p].line <= Len(loaded[p])
Line(p) == Piece(loaded[p], place[p])

ReadLine(p) ==
  /\ Reads(p) /\ ~Hangs(Line(p))
  /\ env' = [env EXCEPT ![p] = IF Sets(Line(p)) THEN SetEnv(@, Line(p)) ELSE @]
  /\ place' = [place EXCEPT ![p] = NextPlace(loaded[p], @)]
  /\ UNCHANGED <<disk, keyFile, pc, arg, conf, at, inherited, loaded, minted,
                 history, starts, saves>>

(* trim does not return. *)
HangInLine(p) ==
  /\ Reads(p) /\ Hangs(Line(p))
  /\ Goto(p, "stuck")
  /\ UNCHANGED <<disk, keyFile, arg, conf, at, env, inherited, loaded, place,
                 minted, history, starts, saves>>

(* sscanf writes behind a buffer; where the process survives it, the line  *)
(* is read as any other.                                                   *)
OverflowInLine(p) ==
  /\ Reads(p) /\ Overflows(Line(p))
  /\ Exit(p)
  /\ UNCHANGED <<disk, keyFile, arg, conf, env, inherited, loaded, place,
                 minted, history, starts, saves>>

AllRead(p) ==
  /\ pc[p] = "line" /\ ~Reads(p)
  /\ Goto(p, "serving")
  /\ UNCHANGED <<disk, keyFile, arg, conf, at, env, inherited, loaded, place,
                 minted, history, starts, saves>>

-----------------------------------------------------------------------------
(* yueah_get_jwt_key.                                                      *)

Hex == {Lowers[i] : i \in 1 .. 6} \cup {Uppers[i] : i \in 1 .. 6}
         \cup {"0", "1", "2", "3", "4", "5", "6", "7", "8", "9"}

(* sodium_hex2bin stops where no digit is, and is content with it. *)
Digits(p, v) ==
  LET value == IF env[p][v] = Unset THEN <<>> ELSE env[p][v]
      other == FirstNotIn(value, Hex)
  IN  IF other = 0 THEN value ELSE SubSeq(value, 1, other - 1)

Usable(p, v) == Len(Digits(p, v)) = 2 * KeyBytes
TooShort(p, v) ==
  Len(Digits(p, v)) < 2 * KeyBytes /\ Len(Digits(p, v)) % 2 = 0

(* Mutant: a key that was made because there is none is used at once. *)
KeyOrMade(p, v) ==
  IF Usable(p, v) THEN {ToUpper(Digits(p, v))}
  ELSE {<<keyFile[v]>> : x \in {y \in {v} : keyFile[v] > 0}}

(* The key, if there is one to use. *)
JwtKey(p, v) == IF Usable(p, v) THEN {ToUpper(Digits(p, v))} ELSE {}

(* post_login_form: the access token's key, then the refresh token's. *)
Login(p) ==
  /\ pc[p] = "serving"
  /\ \E a \in JwtKey(p, AccessKey), r \in JwtKey(p, RefreshKey) :
       minted' = minted \cup {[access |-> a, refresh |-> r,
                               dotenv |-> loaded[p], env |-> inherited[p]]}
  /\ UNCHANGED <<disk, keyFile, local, history, starts, saves>>

(* A key is made, written to its file, over the one made before, and the   *)
(* request is refused.                                                     *)
LoginMakesKey(p, v) ==
  /\ pc[p] = "serving" /\ keyFile[v] < MaxKeys
  /\ v = RefreshKey => Usable(p, AccessKey)
  /\ TooShort(p, v)
  /\ keyFile' = [keyFile EXCEPT ![v] = @ + 1]
  /\ UNCHANGED <<disk, local, minted, history, starts, saves>>

-----------------------------------------------------------------------------
Step(p) ==
  \/ ReadConfig(p) \/ FindConfigDir(p) \/ MakeConfigDir(p) \/ OpenConfig(p)
  \/ WriteConfig(p) \/ OpenLogs(p) \/ ParseArgs(p) \/ CreateListener(p)
  \/ OpenDotenv(p) \/ ReadLine(p) \/ HangInLine(p) \/ OverflowInLine(p)
  \/ AllRead(p)

Next ==
  \/ \E p \in Processes :
       \/ Start(p) \/ Crash(p) \/ Step(p) \/ Login(p)
       \/ \E v \in Variables : LoginMakesKey(p, v)
  \/ \E text \in ConfigTexts \cup {Broken} : SaveConfig(text)

Spec == Init /\ [][Next]_vars
-----------------------------------------------------------------------------
(* Properties. *)

(* A readable configuration the operator saved stays as it is, and what    *)
(* one start took or wrote is what the next one will take                  *)
(* (config.c:40-137, 139-240, main.c:146-161): unless the save fell        *)
(* between a start's look and its write, or a start died while it wrote.   *)
ConfigurationKept ==
  ~raced =>
    /\ saved \in ConfigTexts => config = saved
    /\ \A p \in asSaved :
         config # Partial => Readable /\ Parsed(config) = conf[p]

(* .env files whose lines are all plain and fit into the buffer. *)
PlainDotenvs ==
  {d \in Dotenvs :
    \/ d = Missing
    \/ /\ d # Directory
       /\ \A i \in DOMAIN d : Len(d[i]) < LineSize /\ Plain(d[i])}

(* The value of v by the last line that means it. *)
EnvironmentMeant(d, e, v) ==
  LET values(i) == {pair[2] : pair \in {m \in Meant(d[i]) : m[1] = v}}
      setting   == IF d = Missing THEN {} ELSE {i \in DOMAIN d : values(i) # {}}
  IN  IF setting = {} THEN {e[v]}
      ELSE values(CHOOSE i \in setting : \A j \in setting : j <= i)

(* A server that answers has the variables its .env gives them, the last   *)
(* line winning and all of them over what it inherited (dotenv.c:8-104).   *)
EnvironmentAsWritten ==
  \A p \in Processes :
    (pc[p] = "serving" /\ loaded[p] \in PlainDotenvs) =>
      \A v \in Variables :
        env[p][v] \in EnvironmentMeant(loaded[p], inherited[p], v)

(* What the keys are by the environment. *)
Named(p, v) ==
  IF env[p][v] = Unset THEN <<>> ELSE SubSeq(ToUpper(env[p][v]), 1, 2 * KeyBytes)

(* A token outlives the process that made it: whichever process serves     *)
(* with the same .env takes it for its own, as its keys are the ones the   *)
(* environment names and never those made for want of one (jwt.c:77-129).  *)
TokensOutlive ==
  \A p \in Processes, t \in minted :
    (/\ pc[p] = "serving"
     /\ loaded[p] = t.dotenv /\ inherited[p] = t.env) =>
      t.access = Named(p, AccessKey) /\ t.refresh = Named(p, RefreshKey)

(* What keeps a start from serving. *)
Excused(p) ==
  \/ p \notin alone \/ BadArgument(p) \/ configDir = "file"
  \/ loaded[p] \notin PlainDotenvs \cup {Missing}

(* A start that nobody comes in between of neither ends nor hangs before  *)
(* it serves, whatever a start before it left half done (main.c:115-284,   *)
(* config.c:70-74): unless its arguments are wrong, ./config is a file, or *)
(* .env has a line that is not plain.                                      *)
LoneStartServes ==
  \A p \in Processes : pc[p] \in {"exited", "stuck"} => Excused(p)
=============================================================================
