-------------------------------- MODULE Auth --------------------------------
(***************************************************************************)
(* The three handlers of src/api/auth.c (register, login, refresh), the    *)
(* JWT claims they mint and check (src/yueah/jwt.c), the cookies they set, *)
(* and the SQLite file they share.                                         *)
(*                                                                         *)
(* A yueah process runs one event loop, so a handler is never interrupted  *)
(* by another handler of its own process.  What does interleave is the     *)
(* SQLite file: several processes (`yueah -p`) may serve the same db_path, *)
(* and the migrator may recreate it with `-r` at any time.  A handler is   *)
(* therefore cut at its SQL statements: one action per statement, with     *)
(* the straight-line code up to the next statement or the answer.          *)
(*                                                                         *)
(* External: the browsers (cookie jar, tabs), the network, the clock, the  *)
(* supervisor that restarts a dead process, the operator with `migrator    *)
(* -r`.                                                                    *)
(***************************************************************************)
EXTENDS Integers, FiniteSets

CONSTANTS
  Names,        \* user names; the password of a user stands for its name
  Workers,      \* yueah processes on one db_path
  Tabs,         \* clients' connections, one outstanding request each
  Browsers,     \* cookie jars
  BrowserOf,    \* the jar a tab uses
  Ids,          \* names of refresh tokens: their jti, 128 random bits
  None,
  Quarter,      \* 900 seconds
  Week,         \* 604800 seconds
  TzOffset,     \* the server's UTC offset, in the same unit
  MaxTime, MaxRequests, MaxEra,   \* bounds of the exploration
  MaxOpen,      \* database files a process can hold open (RLIMIT_NOFILE)
  Eager,        \* browsers may refresh while the session cookie is alive
  Faults,       \* processes crash, connections break
  Busy          \* a statement may meet another process's lock

ASSUME Durations == /\ Quarter \in Nat /\ Week \in Nat /\ MaxTime \in Nat
                    /\ MaxRequests \in Nat /\ MaxEra \in Nat
                    /\ MaxOpen \in Nat /\ TzOffset \in Int
ASSUME Topology == BrowserOf \in [Tabs -> Browsers]
ASSUME Switches == {Eager, Faults, Busy} \subseteq BOOLEAN
ASSUME NoneIsNone == None \notin Names \cup Tabs \cup Ids
ASSUME EnoughIds == IsFiniteSet(Ids) /\ Cardinality(Ids) >= MaxRequests

VARIABLES
  clock,      \* unix time
  era,        \* how often the database file was recreated
  ready,      \* the current file has its tables
  users,      \* per file: rows of users
  blacklist,  \* per file: rows of refresh_blacklist
  token,      \* every refresh token minted
  jar,        \* per browser: its cookies
  conn, req, answer,          \* per tab: the connection's state
  pc, job, serving, at,       \* per process: the handler it is in
  open,       \* per process: database handles not closed
  refused,    \* per process: failed opens; their handles have no descriptor
  failed,     \* per process: failed insert_user calls (history)
  welcomed,   \* per file and name: 200 answers to a register (history)
  sent        \* requests sent so far (bounds the exploration)

database == <<era, ready, users, blacklist>>
tabs     == <<conn, req, answer>>
handler  == <<pc, job, serving, at>>
history  == <<refused, failed, welcomed>>
vars == <<clock, database, token, jar, tabs, handler, open, history, sent>>

-----------------------------------------------------------------------------
(* Data. *)
Eras == 0 .. MaxEra

(* A userid is a fresh uuid per row: the row's name and file identify it. *)
UserIds == Names \X Eras

TokenRecords ==
  [sub : UserIds, nbf : Nat, exp : Nat, from : Ids \cup {None}]

Requests ==
  [op : {"register", "login", "refresh"}, name : Names \cup {None},
   password : Names \cup {None}, token : Ids \cup {None}]

Answers == [status : {200, 400, 401, 500}, cookie : Ids \cup {None}]

Jars == [refresh : Ids \cup {None}, refreshUntil : Nat, sessionUntil : Nat]

ASSUME NoneIsNoToken == None \notin TokenRecords

NoRequest == [op |-> "login", name |-> None, password |-> None, token |-> None]
NoAnswer  == [status |-> 500, cookie |-> None]
EmptyJar  == [refresh |-> None, refreshUntil |-> 0, sessionUntil |-> 0]

Minted == {i \in Ids : token[i] # None}
UserOf(i) == token[i].sub
FileOf(i) == token[i].sub[2]

(* The lifetimes each handler passes to create_claims and cookie_new. *)
SessionMaxAge   == Quarter
RefreshMaxAge   == Week
RefreshLifetime == Week
(* Mutant: the refresh token becomes valid after the session is over. *)
LoginNbfDelayTooLong == Quarter + Quarter

LoginNbfDelay   == Quarter
RefreshNbfDelay == 0

(* yueah_jwt_get_sub compares the claims, in unix time, with the local     *)
(* wall clock taken for UTC.                                               *)
LocalNow == clock + TzOffset
(* Mutant: an exclusive bound in place of an inclusive one. *)
AcceptsAfterNbf(i) == token[i].exp >= LocalNow /\ token[i].nbf < LocalNow

AcceptsWindow(i) == token[i].exp >= LocalNow /\ token[i].nbf <= LocalNow

TypeOK ==
  /\ clock \in Nat /\ era \in Eras /\ ready \in BOOLEAN /\ sent \in Nat
  /\ users \in [Eras -> SUBSET Names]
  /\ blacklist \in [Eras -> SUBSET Ids]
  /\ token \in [Ids -> TokenRecords \cup {None}]
  /\ jar \in [Browsers -> Jars]
  /\ conn \in [Tabs -> {"idle", "sent", "served", "answered"}]
  /\ req \in [Tabs -> Requests]
  /\ answer \in [Tabs -> Answers]
  /\ pc \in [Workers -> {"idle", "insert_user", "get_user", "query_blacklist",
                         "insert_blacklist", "get_sub", "get_user_userid"}]
  /\ job \in [Workers -> Requests]
  /\ serving \in [Workers -> Tabs \cup {None}]
  /\ at \in [Workers -> Eras]
  /\ open \in [Workers -> Nat]
  /\ refused \in [Workers -> Nat]
  /\ failed \in [Workers -> Nat]
  /\ welcomed \in [Eras -> [Names -> Nat]]

Init ==
  /\ clock = 0 /\ era = 0 /\ ready = TRUE /\ sent = 0
  /\ users = [e \in Eras |-> {}]
  /\ blacklist = [e \in Eras |-> {}]
  /\ token = [i \in Ids |-> None]
  /\ jar = [b \in Browsers |-> EmptyJar]
  /\ conn = [t \in Tabs |-> "idle"]
  /\ req = [t \in Tabs |-> NoRequest]
  /\ answer = [t \in Tabs |-> NoAnswer]
  /\ pc = [w \in Workers |-> "idle"]
  /\ job = [w \in Workers |-> NoRequest]
  /\ serving = [w \in Workers |-> None]
  /\ at = [w \in Workers |-> 0]
  /\ open = [w \in Workers |-> 0]
  /\ refused = [w \in Workers |-> 0]
  /\ failed = [w \in Workers |-> 0]
  /\ welcomed = [e \in Eras |-> [n \in Names |-> 0]]
-----------------------------------------------------------------------------
(* The SQLite file as a handler sees it. *)

(* sqlite3_prepare_v2 needs the table, and the lock to read the schema. *)
CannotPrepare(w) == Busy \/ (at[w] = era /\ ~ready)
Prepares(w) == at[w] # era \/ ready

(* Mutant: the handle is closed a second time on the way out. *)
CloseTwice(w) == open' = [open EXCEPT ![w] = @ - 2]

Close(w) == open' = [open EXCEPT ![w] = @ - 1]

(* A leaked handle: insert_user failed and the handler returned without    *)
(* yueah_db_disconnect.                                                    *)
LeaveOpen(w) ==
  /\ failed' = [failed EXCEPT ![w] = @ + 1]
  /\ UNCHANGED <<open, refused, welcomed>>

(* The handler of w is over; its request is forgotten. *)
EndHandler(w) ==
  /\ pc' = [pc EXCEPT ![w] = "idle"]
  /\ job' = [job EXCEPT ![w] = NoRequest]
  /\ serving' = [serving EXCEPT ![w] = None]
  /\ at' = [at EXCEPT ![w] = 0]

(* yueah_generic_response with the Set-Cookie headers added so far; nobody *)
(* reads it when the client has gone.                                      *)
Reply(w, status, cookie) ==
  /\ EndHandler(w)
  /\ conn' = [t \in Tabs |-> IF t = serving[w] THEN "answered" ELSE conn[t]]
  /\ answer' = [t \in Tabs |->
                  IF t = serving[w] THEN [status |-> status, cookie |-> cookie]
                                    ELSE answer[t]]
  /\ UNCHANGED req

Goto(w, label) ==
  /\ pc' = [pc EXCEPT ![w] = label]
  /\ UNCHANGED <<job, serving, at, tabs>>

(* yueah_jwt_create_claims and yueah_jwt_encode for a refresh token. *)
FreshId == CHOOSE i \in Ids \ Minted : TRUE
Claims(sub, nbfDelay, from) ==
  [sub |-> sub, nbf |-> clock + nbfDelay, exp |-> clock + RefreshLifetime,
   from |-> from]
Mint(w, claims) ==
  /\ Minted # Ids
  /\ token' = [token EXCEPT ![FreshId] = claims]
  /\ Reply(w, 200, FreshId)

-----------------------------------------------------------------------------
(* External: browsers, network, time, operators. *)

RefreshCookie(b) ==
  IF clock < jar[b].refreshUntil THEN jar[b].refresh ELSE None

SessionAlive(b) == clock < jar[b].sessionUntil

SendRequest(t, r) ==
  /\ conn[t] = "idle" /\ sent < MaxRequests
  /\ conn' = [conn EXCEPT ![t] = "sent"]
  /\ req' = [req EXCEPT ![t] = r]
  /\ sent' = sent + 1
  /\ UNCHANGED <<clock, database, token, jar, answer, handler, open, history>>

SendRegister(t) ==
  \E n \in Names :
    SendRequest(t, [NoRequest EXCEPT !.op = "register", !.name = n,
                                     !.password = n])
SendLogin(t) ==
  \E n, p \in Names :
    SendRequest(t, [NoRequest EXCEPT !.name = n, !.password = p])
SendRefresh(t) ==
  /\ Eager \/ ~SessionAlive(BrowserOf[t])
  /\ SendRequest(t, [NoRequest EXCEPT !.op = "refresh",
                                      !.token = RefreshCookie(BrowserOf[t])])

Deliver(t) ==
  /\ conn[t] = "answered"
  /\ jar' = IF answer[t].cookie = None THEN jar
            ELSE [jar EXCEPT ![BrowserOf[t]] =
                    [refresh |-> answer[t].cookie,
                     refreshUntil |-> clock + RefreshMaxAge,
                     sessionUntil |-> clock + SessionMaxAge]]
  /\ conn' = [conn EXCEPT ![t] = "idle"]
  /\ answer' = [answer EXCEPT ![t] = NoAnswer]
  /\ UNCHANGED <<clock, database, token, req, handler, open, history, sent>>

(* The connection breaks, or the client gives up and may try again, while  *)
(* a handler of the server still works on its request.                     *)
Disconnect(t) ==
  /\ Faults /\ conn[t] # "idle"
  /\ conn' = [conn EXCEPT ![t] = "idle"]
  /\ req' = [req EXCEPT ![t] = NoRequest]
  /\ answer' = [answer EXCEPT ![t] = NoAnswer]
  /\ serving' = [w \in Workers |-> IF serving[w] = t THEN None ELSE serving[w]]
  /\ UNCHANGED <<clock, database, token, jar, pc, job, at, open, history, sent>>

(* The process dies between two statements and is started again. *)
Die(w) ==
  /\ EndHandler(w)
  /\ conn' = [t \in Tabs |-> IF t = serving[w] THEN "idle" ELSE conn[t]]
  /\ open' = [open EXCEPT ![w] = 0]
  /\ refused' = [refused EXCEPT ![w] = 0]
  /\ failed' = [failed EXCEPT ![w] = 0]
  /\ UNCHANGED <<clock, database, token, jar, req, answer, welcomed, sent>>

Crash(w) == Faults /\ Die(w)

Tick ==
  /\ clock < MaxTime
  /\ clock' = clock + 1
  /\ UNCHANGED <<database, token, jar, tabs, handler, open, history, sent>>

(* `migrator -r`: clear_migrations removes the file and opens a new one,   *)
(* migrate creates the tables.  Handles on the removed file keep working.  *)
Recreate ==
  /\ era < MaxEra /\ ready
  /\ era' = era + 1
  /\ ready' = FALSE
  /\ UNCHANGED <<clock, users, blacklist, token, jar, tabs, handler, open,
                 history, sent>>
Migrate ==
  /\ ~ready
  /\ ready' = TRUE
  /\ UNCHANGED <<clock, era, users, blacklist, token, jar, tabs, handler, open,
                 history, sent>>

-----------------------------------------------------------------------------
(* The start of a handler: header checks, parsing, yueah_db_connect.       *)

(* An answer before any statement was run. *)
AnswerAtOnce(t, status) ==
  /\ conn' = [conn EXCEPT ![t] = "answered"]
  /\ req' = [req EXCEPT ![t] = NoRequest]
  /\ answer' = [answer EXCEPT ![t] = [status |-> status, cookie |-> None]]
  /\ UNCHANGED <<clock, database, token, jar, handler, sent>>

LacksCookie(t) == req[t].op = "refresh" /\ req[t].token = None

(* Mutant: returns without an answer. *)
DropNoCookie(w, t) ==
  /\ pc[w] = "idle" /\ conn[t] = "sent"
  /\ LacksCookie(t)
  /\ conn' = [conn EXCEPT ![t] = "served"]
  /\ UNCHANGED <<clock, database, token, jar, req, answer, handler, open,
                 history, sent>>

RefuseNoCookie(w, t) ==
  /\ pc[w] = "idle" /\ conn[t] = "sent"
  /\ LacksCookie(t)
  /\ AnswerAtOnce(t, 400)
  /\ UNCHANGED <<open, history>>

(* The descriptors of w on database files. *)
Descriptors(w) == open[w] - refused[w]

(* sqlite3_open_v2 fails: no descriptor left, or the file is gone.  It has *)
(* made a handle all the same, which nobody closes.                        *)
RefuseNoDatabase(w, t) ==
  /\ pc[w] = "idle" /\ conn[t] = "sent"
  /\ ~LacksCookie(t)
  /\ Descriptors(w) >= MaxOpen \/ ~ready
  /\ open' = [open EXCEPT ![w] = @ + 1]
  /\ refused' = [refused EXCEPT ![w] = @ + 1]
  /\ AnswerAtOnce(t, 500)
  /\ UNCHANGED <<failed, welcomed>>

FirstStatement(op) ==
  CASE op = "register" -> "insert_user"
    [] op = "login"    -> "get_user"
    [] op = "refresh"  -> "query_blacklist"

Start(w, t) ==
  /\ pc[w] = "idle" /\ conn[t] = "sent"
  /\ ~LacksCookie(t)
  /\ Descriptors(w) < MaxOpen
  /\ pc' = [pc EXCEPT ![w] = FirstStatement(req[t].op)]
  /\ job' = [job EXCEPT ![w] = req[t]]
  /\ serving' = [serving EXCEPT ![w] = t]
  /\ at' = [at EXCEPT ![w] = era]
  /\ open' = [open EXCEPT ![w] = @ + 1]
  /\ conn' = [conn EXCEPT ![t] = "served"]
  /\ req' = [req EXCEPT ![t] = NoRequest]
  /\ UNCHANGED <<clock, database, token, jar, answer, history, sent>>

-----------------------------------------------------------------------------
(* post_register_form: insert_user.                                        *)
InsertUserFails(w) ==
  /\ pc[w] = "insert_user" /\ CannotPrepare(w)
  /\ LeaveOpen(w)
  /\ Reply(w, 500, None)
  /\ UNCHANGED <<clock, database, token, jar, sent>>

InsertUserTaken(w) ==
  /\ pc[w] = "insert_user" /\ Prepares(w)
  /\ job[w].name \in users[at[w]]
  /\ LeaveOpen(w)
  /\ Reply(w, 400, None)
  /\ UNCHANGED <<clock, database, token, jar, sent>>

(* Mutant: users.username is not UNIQUE. *)
InsertUserAnyway(w) ==
  /\ pc[w] = "insert_user" /\ Prepares(w)
  /\ users' = [users EXCEPT ![at[w]] = @ \cup {job[w].name}]
  /\ Close(w)
  /\ welcomed' = [welcomed EXCEPT ![at[w]][job[w].name] = @ + 1]
  /\ Reply(w, 200, None)
  /\ UNCHANGED <<clock, era, ready, blacklist, token, jar, refused, failed,
                 sent>>

InsertUserDone(w) ==
  /\ pc[w] = "insert_user" /\ Prepares(w)
  /\ job[w].name \notin users[at[w]]
  /\ users' = [users EXCEPT ![at[w]] = @ \cup {job[w].name}]
  /\ Close(w)
  /\ welcomed' = [welcomed EXCEPT ![at[w]][job[w].name] = @ + 1]
  /\ Reply(w, 200, None)
  /\ UNCHANGED <<clock, era, ready, blacklist, token, jar, refused, failed,
                 sent>>

-----------------------------------------------------------------------------
(* post_login_form: get_user, then no statement up to the answer.          *)
GetUserFails(w) ==
  /\ pc[w] = "get_user" /\ CannotPrepare(w)
  /\ Close(w)
  /\ Reply(w, 500, None)
  /\ UNCHANGED <<clock, database, token, jar, history, sent>>

(* Mutant: an error path without yueah_db_disconnect. *)
LoginRefusedOpen(w) ==
  /\ pc[w] = "get_user" /\ Prepares(w)
  /\ job[w].name \notin users[at[w]] \/ job[w].password # job[w].name
  /\ Reply(w, 401, None)
  /\ UNCHANGED <<clock, database, token, jar, open, history, sent>>

LoginRefused(w) ==
  /\ pc[w] = "get_user" /\ Prepares(w)
  /\ job[w].name \notin users[at[w]] \/ job[w].password # job[w].name
  /\ Close(w)
  /\ Reply(w, 401, None)
  /\ UNCHANGED <<clock, database, token, jar, history, sent>>

LoginGranted(w) ==
  /\ pc[w] = "get_user" /\ Prepares(w)
  /\ job[w].name \in users[at[w]] /\ job[w].password = job[w].name
  /\ Close(w)
  /\ Mint(w, Claims(<<job[w].name, at[w]>>, LoginNbfDelay, None))
  /\ UNCHANGED <<clock, database, jar, history, sent>>

-----------------------------------------------------------------------------
(* get_refresh: query_blacklist, insert_blacklist, yueah_jwt_get_sub,      *)
(* get_user_userid.  The cookies a browser presents were set by this       *)
(* server, so yueah_jwt_verify accepts their signatures.                   *)

(* Mutant: an error path without yueah_db_disconnect. *)
RefreshFailsOpen(w, status) ==
  /\ Reply(w, status, None)
  /\ UNCHANGED <<clock, database, token, jar, open, history, sent>>

RefreshFails(w, status) ==
  /\ Close(w)
  /\ Reply(w, status, None)
  /\ UNCHANGED <<clock, database, token, jar, history, sent>>

QueryFails(w) ==
  /\ pc[w] = "query_blacklist" /\ CannotPrepare(w)
  /\ \E status \in IF Busy THEN {401, 500} ELSE {500} : RefreshFails(w, status)

QueryFinds(w) ==
  /\ pc[w] = "query_blacklist" /\ Prepares(w)
  /\ job[w].token \in blacklist[at[w]]
  /\ RefreshFails(w, 401)

QueryFindsNothing(w) ==
  /\ pc[w] = "query_blacklist" /\ Prepares(w)
  /\ job[w].token \notin blacklist[at[w]]
  /\ Goto(w, "insert_blacklist")
  /\ UNCHANGED <<clock, database, token, jar, open, history, sent>>

(* SQLITE_CONSTRAINT: another process added the token since the query. *)
InsertBlacklistFails(w) ==
  /\ pc[w] = "insert_blacklist"
  /\ Busy \/ job[w].token \in blacklist[at[w]]
  /\ RefreshFails(w, 500)

(* Mutant: refresh_blacklist.token is not UNIQUE. *)
InsertBlacklistAnyway(w) ==
  /\ pc[w] = "insert_blacklist"
  /\ blacklist' = [blacklist EXCEPT ![at[w]] = @ \cup {job[w].token}]
  /\ Goto(w, "get_sub")
  /\ UNCHANGED <<clock, era, ready, users, token, jar, open, history, sent>>

InsertBlacklistDone(w) ==
  /\ pc[w] = "insert_blacklist"
  /\ job[w].token \notin blacklist[at[w]]
  /\ blacklist' = [blacklist EXCEPT ![at[w]] = @ \cup {job[w].token}]
  /\ Goto(w, "get_sub")
  /\ UNCHANGED <<clock, era, ready, users, token, jar, open, history, sent>>

(* "Token expired", "Token not valid yet". *)
GetSubFails(w) ==
  /\ pc[w] = "get_sub" /\ ~AcceptsWindow(job[w].token)
  /\ RefreshFails(w, 500)

GetSubDone(w) ==
  /\ pc[w] = "get_sub" /\ AcceptsWindow(job[w].token)
  /\ Goto(w, "get_user_userid")
  /\ UNCHANGED <<clock, database, token, jar, open, history, sent>>

(* Mutant: users are numbered, so a new file reuses an old userid. *)
KnowsNameOfSub(w) == UserOf(job[w].token)[1] \in users[at[w]]

(* A new file has no row of an old file's userid. *)
KnowsSub(w) ==
  /\ FileOf(job[w].token) = at[w]
  /\ UserOf(job[w].token)[1] \in users[at[w]]

GetUserUseridFails(w) ==
  /\ pc[w] = "get_user_userid"
  /\ \/ Busy /\ RefreshFails(w, 500)
     \/ ~KnowsSub(w) /\ RefreshFails(w, 401)

(* Mutant: the new refresh cookie is not added to the answer. *)
SuccessorUnsent(w, sub) ==
  /\ Close(w)
  /\ Minted # Ids
  /\ token' = [token EXCEPT ![FreshId] =
                  Claims(sub, RefreshNbfDelay, job[w].token)]
  /\ Reply(w, 200, None)
  /\ UNCHANGED <<clock, database, jar, history, sent>>

Successor(w, sub) ==
  /\ Close(w)
  /\ Mint(w, Claims(sub, RefreshNbfDelay, job[w].token))
  /\ UNCHANGED <<clock, database, jar, history, sent>>

RefreshGranted(w) ==
  /\ pc[w] = "get_user_userid" /\ KnowsSub(w)
  /\ Successor(w, UserOf(job[w].token))

-----------------------------------------------------------------------------
(* sqlite3_step answers SQLITE_BUSY to a SELECT: get_user and              *)
(* get_user_userid return their uninitialised buffer as a success.  The    *)
(* handler dies on it, or finds the record an earlier request left there.  *)
Registered == UNION {users[e] \X {e} : e \in Eras}

LoginTorn(w) ==
  /\ Busy /\ pc[w] = "get_user"
  /\ \/ Die(w)
     \/ /\ Close(w) /\ Reply(w, 401, None)
        /\ UNCHANGED <<clock, database, token, jar, history, sent>>
     \/ \E u \in Registered :
          /\ u[1] = job[w].password
          /\ Close(w)
          /\ Mint(w, Claims(u, LoginNbfDelay, None))
          /\ UNCHANGED <<clock, database, jar, history, sent>>

RefreshTorn(w) ==
  /\ Busy /\ pc[w] = "get_user_userid"
  /\ Die(w) \/ \E u \in Registered : Successor(w, u)

-----------------------------------------------------------------------------
Begin(w, t) == RefuseNoCookie(w, t) \/ RefuseNoDatabase(w, t) \/ Start(w, t)

Register(w) == InsertUserFails(w) \/ InsertUserTaken(w) \/ InsertUserDone(w)

Login(w) ==
  GetUserFails(w) \/ LoginRefused(w) \/ LoginGranted(w) \/ LoginTorn(w)

Refresh(w) ==
  \/ QueryFails(w) \/ QueryFinds(w) \/ QueryFindsNothing(w)
  \/ InsertBlacklistFails(w) \/ InsertBlacklistDone(w)
  \/ GetSubFails(w) \/ GetSubDone(w)
  \/ GetUserUseridFails(w) \/ RefreshGranted(w) \/ RefreshTorn(w)

Step(w) == Register(w) \/ Login(w) \/ Refresh(w)

Client(t) == SendRegister(t) \/ SendLogin(t) \/ SendRefresh(t) \/ Deliver(t)
             \/ Disconnect(t)

Next ==
  \/ \E w \in Workers : Step(w) \/ Crash(w) \/ \E t \in Tabs : Begin(w, t)
  \/ \E t \in Tabs : Client(t)
  \/ Tick \/ Recreate \/ Migrate

Spec == Init /\ [][Next]_vars

(* uv_run turns while there are events: a handler that was entered runs on *)
(* (weak), and no readable connection is overlooked for ever (strong: the  *)
(* process may be busy with others each time).                             *)
Fairness ==
  /\ \A w \in Workers : WF_vars(Step(w))
  /\ \A t \in Tabs : SF_vars(\E w \in Workers : Begin(w, t))

FairSpec == Spec /\ Fairness

-----------------------------------------------------------------------------
(* Properties. *)

Redeemed(i) == i \in Minted /\ i \in blacklist[FileOf(i)]
HasSuccessor(i) == \E j \in Minted : token[j].from = i
Redeeming(w, i) ==
  pc[w] \in {"get_sub", "get_user_userid"} /\ job[w].token = i
  /\ i \in Minted /\ at[w] = FileOf(i)

(* A refresh token is exchanged at most once (auth.c:607-650): whatever    *)
(* processes, tabs, retries and crashes do between the blacklist query,    *)
(* the blacklist insert and the answer, no two tokens come from one; nor   *)
(* does recreating the database, which empties the blacklist, revive one.  *)
SingleUse ==
  \A i, j \in Minted :
    (token[i].from = token[j].from /\ token[i].from # None) => i = j

(* A registration is confirmed once: of all the clients and processes that *)
(* register one name in one database, at most one is answered 200, and     *)
(* then the row is there (auth.c:333-372).                                 *)
ConfirmedOnce ==
  \A e \in Eras, n \in Names :
    /\ welcomed[e][n] <= 1
    /\ welcomed[e][n] = 1 => n \in users[e]

(* Of all the paths of the three handlers two keep their database handle:  *)
(* the one after a failed insert_user (auth.c:333-355) and, in each        *)
(* handler, the one after a failed sqlite3_open_v2 (db.c:30-32).  What a   *)
(* process holds, whatever else it went through, is one handle for each of *)
(* these and one for the request it serves.                                *)
HandlesAccounted ==
  \A w \in Workers :
    open[w] = failed[w] + refused[w] + IF pc[w] = "idle" THEN 0 ELSE 1

(* get_refresh blacklists before it looks at exp and nbf (auth.c:627-662), *)
(* so a request that comes too early destroys the token it presents.  The  *)
(* two 900s of post_login_form keep browsers from it: when the session     *)
(* cookie is gone the refresh token is valid, and a token that is taken    *)
(* out of circulation while it is valid has a successor, or will have.     *)
NoTokenBurnt ==
  \A i \in Minted : Redeemed(i) =>
    \/ HasSuccessor(i)
    \/ \E w \in Workers : Redeeming(w, i)
    \/ clock > token[i].exp

(* A client is not logged out by its own concurrency: when the token in    *)
(* the jar has been exchanged, the answer with the next one is under way   *)
(* to one of the tabs of that jar, however tabs and processes interleave.  *)
NotStranded ==
  \A b \in Browsers :
    LET i == RefreshCookie(b) IN
      i # None /\ Redeemed(i) =>
        \/ \E t \in Tabs : BrowserOf[t] = b /\ answer[t].cookie # None
        \/ \E w \in Workers : /\ Redeeming(w, i)
                              /\ serving[w] \in Tabs
                              /\ BrowserOf[serving[w]] = b
        \/ clock > token[i].exp

(* "exp: Expiration time (in 64 bit unix time)", "nbf: Not before time (in *)
(* 64 bit unix time)" (include/yueah/jwt.h:15-16): a token is refused as   *)
(* expired or not yet valid only when unix time is outside [nbf, exp], and *)
(* passed on only when it is inside.                                       *)
InWindow(i) == token[i].nbf <= clock /\ clock <= token[i].exp
WindowIsUnixTime ==
  [][\A w \in Workers :
       /\ GetSubFails(w) => ~InWindow(job[w].token)
       /\ GetSubDone(w) => InWindow(job[w].token)]_vars

(* A claimed token is settled: whoever had a valid refresh token           *)
(* blacklisted gets the successor minted, unless the token ran out while   *)
(* the handler was at it.                                                  *)
RedemptionCompletes ==
  \A i \in Ids : (i \in Minted /\ Redeemed(i)) ~>
                   (HasSuccessor(i) \/ (i \in Minted /\ clock > token[i].exp))

(* Every request that reaches the socket is answered, whatever else the    *)
(* processes are asked and whether or not the database can be used.        *)
EveryRequestAnswered ==
  \A t \in Tabs : conn[t] = "sent" ~> conn[t] = "answered"

(* The handlers implement the chains of RefreshChain.tla. *)
Chain == INSTANCE RefreshChain WITH
  issued  <- Minted,
  from    <- [i \in Ids |-> IF token[i] = None THEN None ELSE token[i].from],
  spent   <- {i \in Minted : Redeemed(i)},
  pending <- {i \in Minted : \E w \in Workers : Redeeming(w, i)}

ChainSpec == Chain!Spec
=============================================================================
