----------------------------- MODULE AuthProofs -----------------------------
(***************************************************************************)
(* Theorems about Auth, for every set of users, processes, tabs, browsers  *)
(* and tokens, every lifetime, time zone and bound.                        *)
(***************************************************************************)
EXTENDS Auth, TLAPS

LEMMA FreshIdIsFresh == Minted # Ids => FreshId \in Ids \ Minted
  <1>1. ASSUME Minted # Ids PROVE \E i \in Ids \ Minted : TRUE
    BY <1>1 DEF Minted
  <1>2. QED BY <1>1 DEF FreshId

(* Statements of a handler: what they share. *)
LEMMA ReplyTypeOK ==
  ASSUME TypeOK, NEW w \in Workers, NEW status \in {200, 400, 401, 500},
         NEW cookie \in Ids \cup {None}, Reply(w, status, cookie)
  PROVE  /\ conn' \in [Tabs -> {"idle", "sent", "served", "answered"}]
         /\ req' \in [Tabs -> Requests]
         /\ answer' \in [Tabs -> Answers]
         /\ pc' = [pc EXCEPT ![w] = "idle"]
         /\ pc' \in [Workers ->
                       {"idle", "insert_user", "get_user", "query_blacklist",
                        "insert_blacklist", "get_sub", "get_user_userid"}]
         /\ job' \in [Workers -> Requests]
         /\ serving' \in [Workers -> Tabs \cup {None}]
         /\ at' \in [Workers -> Eras]
  <1>1. [status |-> status, cookie |-> cookie] \in Answers
    BY DEF Answers
  <1>2. NoRequest \in Requests
    BY DEF NoRequest, Requests
  <1>3. 0 \in Eras
    BY Durations DEF Eras
  <1>4. QED
    BY <1>1, <1>2, <1>3 DEF TypeOK, Reply, EndHandler

LEMMA CloseTypeOK ==
  ASSUME TypeOK, HandlesAccounted, NEW w \in Workers, pc[w] # "idle", Close(w)
  PROVE  open' \in [Workers -> Nat]
  <1>1. open[w] - 1 \in Nat
    BY DEF TypeOK, HandlesAccounted
  <1>2. QED BY <1>1 DEF TypeOK, Close

LEMMA ClaimsType ==
  ASSUME TypeOK, NEW sub \in UserIds, NEW nbfDelay \in Nat,
         NEW from \in Ids \cup {None}
  PROVE  Claims(sub, nbfDelay, from) \in TokenRecords
  BY Durations DEF TypeOK, Claims, RefreshLifetime, TokenRecords

LEMMA MintTypeOK ==
  ASSUME TypeOK, NEW w \in Workers, NEW claims \in TokenRecords, Mint(w, claims)
  PROVE  /\ token' \in [Ids -> TokenRecords \cup {None}]
         /\ FreshId \in Ids \cup {None}
         /\ Reply(w, 200, FreshId)
  BY FreshIdIsFresh DEF Mint, TypeOK

-----------------------------------------------------------------------------
(* TypeOK alone is not inductive: that closing a handle leaves a natural   *)
(* number behind is a fact about which paths close, i.e. HandlesAccounted. *)
(* Likewise that a registered name is a name: it depends on what the form   *)
(* of the request a handler was entered with holds.                        *)
RefreshStatements ==
  {"query_blacklist", "insert_blacklist", "get_sub", "get_user_userid"}
FormsFilled ==
  /\ \A t \in Tabs : req[t].op = "register" => req[t].name \in Names
  /\ \A w \in Workers :
       /\ pc[w] = "insert_user" => job[w].name \in Names
       /\ pc[w] \in RefreshStatements => job[w].token \in Ids

(* And that a presented token has a subject: every token anybody holds was  *)
(* minted.                                                                  *)
OnlyMinted ==
  /\ \A b \in Browsers : jar[b].refresh \in Minted \cup {None}
  /\ \A t \in Tabs : /\ req[t].token \in Minted \cup {None}
                     /\ answer[t].cookie \in Minted \cup {None}
  /\ \A w \in Workers : job[w].token \in Minted \cup {None}
  /\ \A e \in Eras : blacklist[e] \subseteq Minted
  /\ \A i \in Minted : token[i].from \in Minted \cup {None}

Sound == TypeOK /\ HandlesAccounted /\ FormsFilled /\ OnlyMinted

LEMMA InitSound == Init => Sound
  <1> SUFFICES ASSUME Init PROVE Sound
    OBVIOUS
  <1>1. EmptyJar \in Jars /\ NoRequest \in Requests /\ NoAnswer \in Answers
    BY DEF EmptyJar, Jars, NoRequest, Requests, NoAnswer, Answers
  <1>2. 0 \in Eras
    BY Durations DEF Eras
  <1>3. TypeOK
    BY <1>1, <1>2 DEF Init, TypeOK
  <1>4. HandlesAccounted
    BY DEF Init, HandlesAccounted
  <1>5. FormsFilled
    BY DEF Init, FormsFilled, NoRequest, RefreshStatements
  <1>6. OnlyMinted
    BY DEF Init, OnlyMinted, Minted, NoRequest, NoAnswer, EmptyJar
  <1>7. QED BY <1>3, <1>4, <1>5, <1>6 DEF Sound

LEMMA EndKeepsForms ==
  ASSUME Sound, NEW w \in Workers, EndHandler(w), UNCHANGED req
  PROVE  FormsFilled'
  BY DEF EndHandler, Sound, TypeOK, FormsFilled, RefreshStatements

(* No token is minted, and no row added to a blacklist. *)
LEMMA ReplyKeepsMinted ==
  ASSUME Sound, NEW w \in Workers, NEW status, Reply(w, status, None),
         UNCHANGED <<token, jar, blacklist>>
  PROVE  OnlyMinted'
  BY DEF Reply, EndHandler, NoRequest, Sound, TypeOK, OnlyMinted, Minted

(* What a client, the network or an operator does. *)
LEMMA SendSound ==
  ASSUME Sound, NEW t \in Tabs, NEW r \in Requests, SendRequest(t, r),
         r.op = "register" => r.name \in Names,
         r.token \in Minted \cup {None}
  PROVE  Sound'
  <1>1. TypeOK'
    BY DEF Sound, TypeOK, SendRequest, database, handler, history
  <1>2. HandlesAccounted'
    BY DEF Sound, HandlesAccounted, SendRequest, handler, history
  <1>3. FormsFilled'
    BY DEF Sound, TypeOK, FormsFilled, SendRequest, handler
  <1>4. OnlyMinted'
    BY DEF Sound, TypeOK, OnlyMinted, Minted, SendRequest, database, handler
  <1>5. QED BY <1>1, <1>2, <1>3, <1>4 DEF Sound

LEMMA ClientSound == ASSUME Sound, NEW t \in Tabs, Client(t) PROVE Sound'
  <1>0. NoRequest \in Requests /\ NoAnswer \in Answers
    BY DEF NoRequest, Requests, NoAnswer, Answers
  <1>1. CASE SendRegister(t)
    BY <1>1, SendSound DEF SendRegister, NoRequest, Requests
  <1>2. CASE SendLogin(t)
    BY <1>2, SendSound DEF SendLogin, NoRequest, Requests
  <1>3. CASE SendRefresh(t)
    <2>1. RefreshCookie(BrowserOf[t]) \in Minted \cup {None}
      BY Topology DEF RefreshCookie, Sound, OnlyMinted
    <2>2. QED
      BY <1>3, <2>1, SendSound DEF SendRefresh, NoRequest, Requests, Minted
  <1>4. CASE Deliver(t)
    <2>1. jar' \in [Browsers -> Jars]
      <3>1. [refresh |-> answer[t].cookie,
             refreshUntil |-> clock + RefreshMaxAge,
             sessionUntil |-> clock + SessionMaxAge] \in Jars
        BY Durations
        DEF Sound, TypeOK, Answers, Jars, RefreshMaxAge, SessionMaxAge
      <3>2. QED BY <1>4, <3>1 DEF Deliver, Sound, TypeOK
    <2>2. TypeOK'
      BY <1>0, <1>4, <2>1
      DEF Deliver, Sound, TypeOK, database, handler, history
    <2>3. HandlesAccounted' /\ FormsFilled'
      BY <1>4
      DEF Deliver, Sound, HandlesAccounted, FormsFilled, handler, history
    <2>4. OnlyMinted'
      BY <1>4, Topology
      DEF Deliver, Sound, TypeOK, OnlyMinted, Minted, NoAnswer, database,
          handler
    <2>5. QED BY <2>2, <2>3, <2>4 DEF Sound
  <1>5. CASE Disconnect(t)
    <2>1. TypeOK'
      BY <1>0, <1>5 DEF Disconnect, Sound, TypeOK, database, history
    <2>2. HandlesAccounted'
      BY <1>5 DEF Disconnect, Sound, HandlesAccounted, history
    <2>3. FormsFilled'
      BY <1>5 DEF Disconnect, Sound, TypeOK, FormsFilled, NoRequest
    <2>4. OnlyMinted'
      BY <1>5 DEF Disconnect, Sound, TypeOK, OnlyMinted, Minted, NoAnswer,
                  NoRequest, database
    <2>5. QED BY <2>1, <2>2, <2>3, <2>4 DEF Sound
  <1>6. QED BY <1>1, <1>2, <1>3, <1>4, <1>5 DEF Client

LEMMA DieSound == ASSUME Sound, NEW w \in Workers, Die(w) PROVE Sound'
  <1>1. NoRequest \in Requests /\ 0 \in Eras
    BY Durations DEF NoRequest, Requests, Eras
  <1>2. TypeOK'
    BY <1>1 DEF Die, EndHandler, Sound, TypeOK, database
  <1>3. HandlesAccounted'
    BY DEF Die, EndHandler, Sound, TypeOK, HandlesAccounted
  <1>4. FormsFilled'
    BY EndKeepsForms DEF Die
  <1>5. OnlyMinted'
    BY DEF Die, EndHandler, NoRequest, Sound, TypeOK, OnlyMinted, Minted,
           database
  <1>6. QED BY <1>2, <1>3, <1>4, <1>5 DEF Sound

LEMMA OperatorSound == ASSUME Sound, Tick \/ Recreate \/ Migrate PROVE Sound'
  <1>1. CASE Tick
    BY <1>1 DEF Tick, Sound, TypeOK, HandlesAccounted, FormsFilled, OnlyMinted,
                Minted, database, tabs, handler, history
  <1>2. CASE Recreate
    <2>1. era' \in Eras
      BY <1>2, Durations DEF Recreate, Sound, TypeOK, Eras
    <2>2. QED
      BY <1>2, <2>1 DEF Recreate, Sound, TypeOK, HandlesAccounted, FormsFilled,
                        OnlyMinted, Minted, tabs, handler, history
  <1>3. CASE Migrate
    BY <1>3 DEF Migrate, Sound, TypeOK, HandlesAccounted, FormsFilled,
                OnlyMinted, Minted, tabs, handler, history
  <1>4. QED BY <1>1, <1>2, <1>3

LEMMA BeginSound ==
  ASSUME Sound, NEW w \in Workers, NEW t \in Tabs, Begin(w, t) PROVE Sound'
  <1>0. NoRequest \in Requests
    BY DEF NoRequest, Requests
  <1>1. ASSUME NEW status \in {400, 500}, AnswerAtOnce(t, status),
               NEW kept \in {0, 1},
               open' = [open EXCEPT ![w] = @ + kept],
               refused' = [refused EXCEPT ![w] = @ + kept],
               UNCHANGED <<failed, welcomed>>
        PROVE  Sound'
    <2>1. [status |-> status, cookie |-> None] \in Answers
      BY DEF Answers
    <2>2. TypeOK'
      BY <1>0, <1>1, <2>1 DEF AnswerAtOnce, Sound, TypeOK, database, handler
    <2>3. HandlesAccounted'
      BY <1>1 DEF AnswerAtOnce, Sound, TypeOK, HandlesAccounted, handler
    <2>4. FormsFilled'
      BY <1>1
      DEF AnswerAtOnce, Sound, TypeOK, FormsFilled, NoRequest, handler
    <2>5. OnlyMinted'
      BY <1>1 DEF AnswerAtOnce, Sound, TypeOK, OnlyMinted, Minted, NoRequest,
                  database, handler
    <2>6. QED BY <2>2, <2>3, <2>4, <2>5 DEF Sound
  <1>2. CASE RefuseNoCookie(w, t)
    <2>1. /\ open' = [open EXCEPT ![w] = @ + 0]
          /\ refused' = [refused EXCEPT ![w] = @ + 0]
      BY <1>2 DEF RefuseNoCookie, Sound, TypeOK, history
    <2>2. QED BY <1>1, <1>2, <2>1 DEF RefuseNoCookie, history
  <1>3. CASE RefuseNoDatabase(w, t)
    BY <1>1, <1>3 DEF RefuseNoDatabase
  <1>4. CASE Start(w, t)
    <2>1. \/ /\ req[t].op = "register"
             /\ FirstStatement(req[t].op) = "insert_user"
          \/ /\ req[t].op = "login"
             /\ FirstStatement(req[t].op) = "get_user"
          \/ /\ req[t].op = "refresh"
             /\ FirstStatement(req[t].op) = "query_blacklist"
      BY DEF FirstStatement, Sound, TypeOK, Requests
    <2>2. TypeOK'
      BY <1>0, <1>4, <2>1 DEF Start, Sound, TypeOK, database, history
    <2>3. HandlesAccounted'
      BY <1>4, <2>1 DEF Start, Sound, TypeOK, HandlesAccounted, history
    <2>4. FormsFilled'
      <3>1. req[t] \in Requests
        BY DEF Sound, TypeOK
      <3>2. req[t].op = "refresh" => req[t].token \in Ids
        BY <1>4, <3>1 DEF Start, LacksCookie, Requests
      <3>3. QED
        BY <1>4, <2>1, <3>2
        DEF Start, Sound, TypeOK, FormsFilled, RefreshStatements, NoRequest
    <2>5. OnlyMinted'
      BY <1>4 DEF Start, Sound, TypeOK, OnlyMinted, Minted, NoRequest, database
    <2>6. QED BY <2>2, <2>3, <2>4, <2>5 DEF Sound
  <1>5. QED BY <1>2, <1>3, <1>4 DEF Begin

-----------------------------------------------------------------------------
(* The three handlers. *)

(* An answer that gives the handle back and changes no table. *)
LEMMA RefusalSound ==
  ASSUME Sound, NEW w \in Workers, pc[w] # "idle",
         NEW status \in {400, 401, 500}, RefreshFails(w, status)
  PROVE  Sound'
  <1>1. Reply(w, status, None) /\ Close(w)
    BY DEF RefreshFails
  <1>2. TypeOK'
    BY <1>1, ReplyTypeOK, CloseTypeOK
    DEF Sound, TypeOK, RefreshFails, database, history
  <1>3. HandlesAccounted'
    BY <1>1, ReplyTypeOK
    DEF Sound, TypeOK, HandlesAccounted, RefreshFails, Close, history
  <1>4. FormsFilled'
    BY <1>1, EndKeepsForms DEF Reply
  <1>5. OnlyMinted'
    BY <1>1, ReplyKeepsMinted DEF RefreshFails, database
  <1>6. QED BY <1>2, <1>3, <1>4, <1>5 DEF Sound

(* The ledger grows by the new token. *)
LEMMA MintGrows ==
  ASSUME Sound, NEW w \in Workers, NEW claims \in TokenRecords, Mint(w, claims)
  PROVE  /\ Minted' = Minted \cup {FreshId}
         /\ FreshId \in Ids \ Minted
         /\ token'[FreshId] = claims
         /\ \A i \in Minted : token'[i] = token[i]
  BY FreshIdIsFresh, NoneIsNoToken DEF Mint, Minted, Sound, TypeOK

(* An answer that carries a new refresh token. *)
LEMMA MintSound ==
  ASSUME Sound, NEW w \in Workers, pc[w] # "idle",
         NEW claims \in TokenRecords, Close(w), Mint(w, claims),
         claims.from \in Minted \cup {None},
         UNCHANGED <<clock, database, jar, history, sent>>
  PROVE  Sound'
  <1>1. /\ token' \in [Ids -> TokenRecords \cup {None}]
        /\ FreshId \in Ids \cup {None}
        /\ Reply(w, 200, FreshId)
    BY MintTypeOK DEF Sound
  <1>2. TypeOK'
    BY <1>1, ReplyTypeOK, CloseTypeOK DEF Sound, TypeOK, database, history
  <1>3. HandlesAccounted'
    BY <1>1, ReplyTypeOK DEF Sound, TypeOK, HandlesAccounted, Close, history
  <1>4. FormsFilled'
    BY <1>1, EndKeepsForms DEF Reply
  <1>5. OnlyMinted'
    <2>1. /\ Minted' = Minted \cup {FreshId}
          /\ token'[FreshId] = claims
          /\ \A i \in Minted : token'[i] = token[i]
      BY MintGrows
    <2>2. \A b \in Browsers : jar'[b].refresh \in Minted' \cup {None}
      BY <2>1 DEF Sound, OnlyMinted
    <2>3. \A t \in Tabs : /\ req'[t].token \in Minted' \cup {None}
                         /\ answer'[t].cookie \in Minted' \cup {None}
      BY <1>1, <2>1 DEF Sound, OnlyMinted, Reply
    <2>4. \A v \in Workers : job'[v].token \in Minted' \cup {None}
      BY <1>1, <2>1 DEF Sound, TypeOK, OnlyMinted, Reply, EndHandler, NoRequest
    <2>5. \A e \in Eras : blacklist'[e] \subseteq Minted'
      BY <2>1 DEF Sound, OnlyMinted, database
    <2>6. \A i \in Minted' : token'[i].from \in Minted' \cup {None}
      BY <2>1 DEF Sound, OnlyMinted
    <2>7. QED BY <2>2, <2>3, <2>4, <2>5, <2>6 DEF OnlyMinted
  <1>6. QED BY <1>2, <1>3, <1>4, <1>5 DEF Sound

(* On to the next statement of the handler. *)
LEMMA GotoSound ==
  ASSUME Sound, NEW w \in Workers, pc[w] \in RefreshStatements,
         NEW label \in RefreshStatements, Goto(w, label),
         blacklist' \in [Eras -> SUBSET Ids],
         \A e \in Eras : blacklist'[e] \subseteq Minted,
         UNCHANGED <<clock, era, ready, users, token, jar, open, history, sent>>
  PROVE  Sound'
  <1>1. TypeOK'
    BY DEF Goto, Sound, TypeOK, RefreshStatements, tabs, history
  <1>2. HandlesAccounted'
    BY DEF Goto, Sound, TypeOK, HandlesAccounted, RefreshStatements, history
  <1>3. FormsFilled'
    BY DEF Goto, Sound, TypeOK, FormsFilled, RefreshStatements, tabs
  <1>4. OnlyMinted'
    BY DEF Goto, Sound, TypeOK, OnlyMinted, Minted, tabs
  <1>5. QED BY <1>1, <1>2, <1>3, <1>4 DEF Sound

LEMMA RegisterSound == ASSUME Sound, NEW w \in Workers, Register(w) PROVE Sound'
  <1>1. ASSUME NEW status \in {400, 500}, pc[w] # "idle", LeaveOpen(w),
               Reply(w, status, None),
               UNCHANGED <<clock, database, token, jar, sent>>
        PROVE  Sound'
    <2>1. TypeOK'
      BY <1>1, ReplyTypeOK DEF Sound, TypeOK, LeaveOpen, database
    <2>2. HandlesAccounted'
      <3>1. /\ pc'[w] = "idle"
            /\ \A v \in Workers : v # w => pc'[v] = pc[v]
        BY <1>1, ReplyTypeOK DEF Sound, TypeOK
      <3>2. /\ failed' = [failed EXCEPT ![w] = @ + 1]
            /\ UNCHANGED <<open, refused>>
        BY <1>1 DEF LeaveOpen
      <3>3. {open, failed, refused} \subseteq [Workers -> Nat]
        BY DEF Sound, TypeOK
      <3>4. open[w] = failed[w] + refused[w] + 1
        BY <1>1 DEF Sound, HandlesAccounted
      <3>5. ASSUME NEW v \in Workers
            PROVE  open'[v] = failed'[v] + refused'[v]
                                + IF pc'[v] = "idle" THEN 0 ELSE 1
        <4>1. CASE v = w
          BY <3>1, <3>2, <3>3, <3>4, <4>1
        <4>2. CASE v # w
          BY <3>1, <3>2, <3>3, <4>2 DEF Sound, HandlesAccounted
        <4>3. QED BY <4>1, <4>2
      <3>6. QED BY <3>5 DEF HandlesAccounted
    <2>3. FormsFilled'
      BY <1>1, EndKeepsForms DEF Reply
    <2>4. OnlyMinted'
      BY <1>1, ReplyKeepsMinted DEF database
    <2>5. QED BY <2>1, <2>2, <2>3, <2>4 DEF Sound
  <1>2. CASE InsertUserFails(w)
    BY <1>1, <1>2 DEF InsertUserFails
  <1>3. CASE InsertUserTaken(w)
    BY <1>1, <1>3 DEF InsertUserTaken
  <1>4. CASE InsertUserDone(w)
    <2>1. Reply(w, 200, None) /\ pc[w] # "idle" /\ Close(w)
      BY <1>4 DEF InsertUserDone
    <2>2. /\ users' \in [Eras -> SUBSET Names]
          /\ welcomed' \in [Eras -> [Names -> Nat]]
      <3>1. job[w].name \in Names
        BY <1>4 DEF InsertUserDone, Sound, FormsFilled
      <3>2. QED BY <1>4, <3>1 DEF InsertUserDone, Sound, TypeOK
    <2>3. TypeOK'
      BY <1>4, <2>1, <2>2, ReplyTypeOK, CloseTypeOK
      DEF InsertUserDone, Sound, TypeOK
    <2>4. HandlesAccounted'
      <3>1. pc' = [pc EXCEPT ![w] = "idle"] /\ UNCHANGED <<refused, failed>>
        BY <1>4, <2>1, ReplyTypeOK DEF InsertUserDone, Sound
      <3>2. QED BY <2>1, <3>1 DEF Sound, TypeOK, HandlesAccounted, Close
    <2>5. FormsFilled'
      BY <2>1, EndKeepsForms DEF Reply
    <2>6. OnlyMinted'
      BY <1>4, <2>1, ReplyKeepsMinted DEF InsertUserDone
    <2>7. QED BY <2>3, <2>4, <2>5, <2>6 DEF Sound
  <1>5. QED BY <1>2, <1>3, <1>4 DEF Register

LEMMA LoginSound == ASSUME Sound, NEW w \in Workers, Login(w) PROVE Sound'
  <1>1. CASE GetUserFails(w)
    BY <1>1, RefusalSound DEF GetUserFails, RefreshFails
  <1>2. CASE LoginRefused(w)
    BY <1>2, RefusalSound DEF LoginRefused, RefreshFails
  <1>3. CASE LoginGranted(w)
    <2>1. <<job[w].name, at[w]>> \in UserIds
      BY <1>3 DEF LoginGranted, Sound, TypeOK, UserIds
    <2>2. Claims(<<job[w].name, at[w]>>, LoginNbfDelay, None) \in TokenRecords
      BY <2>1, ClaimsType, Durations DEF Sound, LoginNbfDelay
    <2>3. QED BY <1>3, <2>2, MintSound DEF LoginGranted, Claims
  <1>4. CASE LoginTorn(w)
    <2>1. CASE Die(w)
      BY <2>1, DieSound
    <2>2. CASE RefreshFails(w, 401)
      BY <1>4, <2>2, RefusalSound DEF LoginTorn
    <2>3. ASSUME NEW u \in Registered, Close(w),
                 Mint(w, Claims(u, LoginNbfDelay, None)),
                 UNCHANGED <<clock, database, jar, history, sent>>
          PROVE  Sound'
      <3>1. u \in UserIds
        BY DEF Registered, Sound, TypeOK, UserIds
      <3>2. Claims(u, LoginNbfDelay, None) \in TokenRecords
        BY <3>1, ClaimsType, Durations DEF Sound, LoginNbfDelay
      <3>3. QED BY <1>4, <2>3, <3>2, MintSound DEF LoginTorn, Claims
    <2>4. QED BY <1>4, <2>1, <2>2, <2>3 DEF LoginTorn, RefreshFails
  <1>5. QED BY <1>1, <1>2, <1>3, <1>4 DEF Login

LEMMA SuccessorSound ==
  ASSUME Sound, NEW w \in Workers, pc[w] = "get_user_userid",
         NEW sub \in UserIds, Successor(w, sub)
  PROVE  Sound'
  <1>1. job[w].token \in Ids
    BY DEF Sound, FormsFilled, RefreshStatements
  <1>2. Claims(sub, RefreshNbfDelay, job[w].token) \in TokenRecords
    BY <1>1, ClaimsType DEF Sound, RefreshNbfDelay
  <1>3. job[w].token \in Minted
    BY <1>1, NoneIsNone DEF Sound, OnlyMinted
  <1>4. QED BY <1>2, <1>3, MintSound DEF Successor, Claims

LEMMA RefreshSound == ASSUME Sound, NEW w \in Workers, Refresh(w) PROVE Sound'
  <1>1. ASSUME pc[w] \in RefreshStatements, NEW status \in {401, 500},
               RefreshFails(w, status)
        PROVE  Sound'
    BY <1>1, RefusalSound DEF RefreshStatements
  <1>2. CASE QueryFails(w)
    BY <1>1, <1>2 DEF QueryFails, RefreshStatements
  <1>3. CASE QueryFinds(w)
    BY <1>1, <1>3 DEF QueryFinds, RefreshStatements
  <1>4. CASE QueryFindsNothing(w)
    <2>1. /\ blacklist' \in [Eras -> SUBSET Ids]
          /\ \A e \in Eras : blacklist'[e] \subseteq Minted
      BY <1>4 DEF QueryFindsNothing, Sound, TypeOK, OnlyMinted, database
    <2>2. QED
      BY <1>4, <2>1, GotoSound
      DEF QueryFindsNothing, RefreshStatements, database
  <1>5. CASE InsertBlacklistFails(w)
    BY <1>1, <1>5 DEF InsertBlacklistFails, RefreshStatements
  <1>6. CASE InsertBlacklistDone(w)
    <2>1. job[w].token \in Minted
      BY <1>6, NoneIsNone DEF InsertBlacklistDone, Sound, FormsFilled,
                              OnlyMinted, RefreshStatements
    <2>2. /\ blacklist' \in [Eras -> SUBSET Ids]
          /\ \A e \in Eras : blacklist'[e] \subseteq Minted
      BY <1>6, <2>1 DEF InsertBlacklistDone, Sound, TypeOK, OnlyMinted, Minted
    <2>3. QED
      BY <1>6, <2>2, GotoSound DEF InsertBlacklistDone, RefreshStatements
  <1>7. CASE GetSubFails(w)
    BY <1>1, <1>7 DEF GetSubFails, RefreshStatements
  <1>8. CASE GetSubDone(w)
    <2>1. /\ blacklist' \in [Eras -> SUBSET Ids]
          /\ \A e \in Eras : blacklist'[e] \subseteq Minted
      BY <1>8 DEF GetSubDone, Sound, TypeOK, OnlyMinted, database
    <2>2. QED
      BY <1>8, <2>1, GotoSound DEF GetSubDone, RefreshStatements, database
  <1>9. CASE GetUserUseridFails(w)
    BY <1>1, <1>9 DEF GetUserUseridFails, RefreshStatements
  <1>10. CASE RefreshGranted(w)
    <2>1. UserOf(job[w].token) \in UserIds
      <3>1. job[w].token \in Minted
        BY <1>10, NoneIsNone DEF RefreshGranted, Sound, FormsFilled, OnlyMinted,
                                 RefreshStatements
      <3>2. QED BY <3>1 DEF Minted, Sound, TypeOK, TokenRecords, UserOf
    <2>2. QED BY <1>10, <2>1, SuccessorSound DEF RefreshGranted
  <1>11. CASE RefreshTorn(w)
    <2>1. CASE Die(w)
      BY <2>1, DieSound
    <2>2. ASSUME NEW u \in Registered, Successor(w, u) PROVE Sound'
      <3>1. u \in UserIds
        BY DEF Registered, Sound, TypeOK, UserIds
      <3>2. QED BY <1>11, <2>2, <3>1, SuccessorSound DEF RefreshTorn
    <2>3. QED BY <1>11, <2>1, <2>2 DEF RefreshTorn
  <1>12. QED
    BY <1>2, <1>3, <1>4, <1>5, <1>6, <1>7, <1>8, <1>9, <1>10, <1>11
    DEF Refresh

LEMMA NextSound == ASSUME Sound, [Next]_vars PROVE Sound'
  <1>1. CASE UNCHANGED vars
    BY <1>1 DEF vars, database, tabs, handler, history, Sound, TypeOK,
                HandlesAccounted, FormsFilled, OnlyMinted, Minted
  <1>2. ASSUME NEW w \in Workers, Step(w) PROVE Sound'
    BY <1>2, RegisterSound, LoginSound, RefreshSound DEF Step
  <1>3. ASSUME NEW w \in Workers, Crash(w) PROVE Sound'
    BY <1>3, DieSound DEF Crash
  <1>4. QED
    BY <1>1, <1>2, <1>3, BeginSound, ClientSound, OperatorSound DEF Next

LEMMA AlwaysSound == Spec => []Sound
  <1>1. QED BY InitSound, NextSound, PTL DEF Spec

(* Every variable keeps its type: in particular no process ever closes a   *)
(* handle it does not hold, and no handler runs on a request without the   *)
(* field it works on.                                                      *)
THEOREM TypeCorrect == Spec => []TypeOK
  <1>1. Sound => TypeOK
    BY DEF Sound
  <1>2. QED BY <1>1, AlwaysSound, PTL

(* The database handles of a process are one for the request it serves and *)
(* one for each insert_user and each sqlite3_open_v2 that failed, with any *)
(* number of processes and clients, under crashes, contention and          *)
(* migrations.                                                             *)
THEOREM HandlesAreAccounted == Spec => []HandlesAccounted
  <1>1. Sound => HandlesAccounted
    BY DEF Sound
  <1>2. QED BY <1>1, AlwaysSound, PTL

-----------------------------------------------------------------------------
(* Refresh tokens are exchanged once.                                      *)
(*                                                                         *)
(* The claim on a token is its row in refresh_blacklist: a handler behind  *)
(* the insert owns the row (Claimed), the row is unique, so no other       *)
(* handler on the same file owns it, and a token that has a successor has  *)
(* a row that nobody owns any more.  A recreated file has no such rows:    *)
(* there the claim is worth nothing, because get_user_userid does not find *)
(* the userid of the old file -- unless the read is torn, which is what    *)
(* ReadsReliable excludes.                                                 *)
ReadsReliable == Busy => MaxEra = 0

AfterInsert == {"get_sub", "get_user_userid"}
Claimed(w, e, i) == pc[w] \in AfterInsert /\ at[w] = e /\ job[w].token = i

ClaimIsRow ==
  \A w \in Workers : pc[w] \in AfterInsert => job[w].token \in blacklist[at[w]]
OneOwner ==
  \A v, w \in Workers, e \in Eras, i \in Ids :
    Claimed(v, e, i) /\ Claimed(w, e, i) => v = w
SuccessorSettles ==
  \A j \in Minted : token[j].from # None =>
    /\ token[j].from \in blacklist[FileOf(token[j].from)]
    /\ \A w \in Workers : ~Claimed(w, FileOf(token[j].from), token[j].from)

ChainInv == ClaimIsRow /\ OneOwner /\ SuccessorSettles /\ SingleUse

LEMMA InitChain == Init => ChainInv
  BY DEF Init, ChainInv, ClaimIsRow, OneOwner, SuccessorSettles, SingleUse,
         Claimed, AfterInsert, Minted

(* Steps that mint nothing, blacklist nothing and bring no handler behind  *)
(* the insert.                                                             *)
NoNewClaim ==
  \A w \in Workers : pc'[w] \in AfterInsert =>
    pc[w] \in AfterInsert /\ job'[w] = job[w] /\ at'[w] = at[w]

LEMMA QuietChain ==
  ASSUME ChainInv, NoNewClaim, UNCHANGED <<token, blacklist>>
  PROVE  ChainInv'
  <1>1. \A w \in Workers : \A e, i : Claimed(w, e, i)' => Claimed(w, e, i)
    BY DEF NoNewClaim, Claimed
  <1>2. ClaimIsRow'
    BY DEF ChainInv, ClaimIsRow, NoNewClaim
  <1>3. OneOwner'
    BY <1>1 DEF ChainInv, OneOwner
  <1>4. SuccessorSettles'
    BY <1>1 DEF ChainInv, SuccessorSettles, Minted, FileOf
  <1>5. SingleUse'
    BY DEF ChainInv, SingleUse, Minted
  <1>6. QED BY <1>2, <1>3, <1>4, <1>5 DEF ChainInv

LEMMA EndIsQuiet ==
  ASSUME Sound, NEW w \in Workers, EndHandler(w) PROVE NoNewClaim
  BY DEF EndHandler, NoNewClaim, AfterInsert, Sound, TypeOK

(* insert_blacklist: the row was not there, so nobody owned it and no      *)
(* token came from it.                                                     *)
LEMMA InsertChain ==
  ASSUME Sound, ChainInv, NEW w \in Workers, InsertBlacklistDone(w)
  PROVE  ChainInv'
  <1> DEFINE i == job[w].token
  <1>1. /\ i \in Minted /\ i \in Ids /\ at[w] \in Eras
        /\ i \notin blacklist[at[w]]
        /\ blacklist' = [blacklist EXCEPT ![at[w]] = @ \cup {i}]
        /\ blacklist \in [Eras -> SUBSET Ids]
        /\ UNCHANGED <<token, job, at>>
        /\ pc' = [pc EXCEPT ![w] = "get_sub"]
    BY NoneIsNone DEF InsertBlacklistDone, Goto, Sound, TypeOK, FormsFilled,
                      OnlyMinted, RefreshStatements
  <1>2. \A v \in Workers : v # w =>
          (pc'[v] = pc[v] /\ \A e, k : Claimed(v, e, k)' <=> Claimed(v, e, k))
    BY <1>1 DEF Claimed, Sound, TypeOK
  <1>3. \A e, k : Claimed(w, e, k)' => e = at[w] /\ k = i
    BY <1>1 DEF Claimed
  <1>4. \A v \in Workers : v # w => ~Claimed(v, at[w], i)
    BY <1>1 DEF ChainInv, ClaimIsRow, Claimed
  <1>5. ClaimIsRow'
    BY <1>1, <1>2 DEF ChainInv, ClaimIsRow, Sound, TypeOK
  <1>6. OneOwner'
    BY <1>2, <1>3, <1>4 DEF ChainInv, OneOwner
  <1>7. SuccessorSettles'
    <2> SUFFICES ASSUME NEW j \in Minted, NEW k, k = token[j].from, k # None,
                        NEW g, g = FileOf(k)
                 PROVE  /\ k \in blacklist'[g]
                        /\ \A v \in Workers : ~Claimed(v, g, k)'
      BY <1>1 DEF SuccessorSettles, Minted, FileOf
    <2>1. k \in blacklist[g] /\ \A v \in Workers : ~Claimed(v, g, k)
      BY DEF ChainInv, SuccessorSettles
    <2>2. k \in Minted /\ g \in Eras
      BY DEF Sound, TypeOK, OnlyMinted, Minted, FileOf, TokenRecords, UserIds
    <2>3. k \in blacklist'[g]
      BY <1>1, <2>1, <2>2
    <2>4. ~(g = at[w] /\ k = i)
      BY <1>1, <2>1
    <2>5. QED BY <1>2, <1>3, <2>1, <2>3, <2>4
  <1>8. SingleUse'
    BY <1>1 DEF ChainInv, SingleUse, Minted
  <1>9. QED BY <1>5, <1>6, <1>7, <1>8 DEF ChainInv

(* A login starts a chain. *)
LEMMA LoginChain ==
  ASSUME Sound, ChainInv, NEW w \in Workers, NEW claims \in TokenRecords,
         claims.from = None, Mint(w, claims), UNCHANGED blacklist
  PROVE  ChainInv'
  <1>1. /\ Minted' = Minted \cup {FreshId}
        /\ FreshId \in Ids \ Minted
        /\ token'[FreshId] = claims
        /\ \A k \in Minted : token'[k] = token[k]
    BY MintGrows
  <1>2. NoNewClaim
    BY EndIsQuiet DEF Mint, Reply
  <1>3. \A v \in Workers : \A e, k : Claimed(v, e, k)' => Claimed(v, e, k)
    BY <1>2 DEF NoNewClaim, Claimed
  <1>4. ClaimIsRow'
    BY <1>2 DEF ChainInv, ClaimIsRow, NoNewClaim
  <1>5. OneOwner'
    BY <1>3 DEF ChainInv, OneOwner
  <1>6. SuccessorSettles'
    <2> SUFFICES ASSUME NEW j \in Minted', NEW k, k = token'[j].from, k # None,
                        NEW g, g = FileOf(k)'
                 PROVE  /\ k \in blacklist[g]
                        /\ \A v \in Workers : ~Claimed(v, g, k)'
      BY DEF SuccessorSettles
    <2>1. j \in Minted /\ k = token[j].from /\ k \in Minted
      BY <1>1 DEF Sound, OnlyMinted
    <2>2. g = FileOf(k)
      BY <1>1, <2>1 DEF FileOf
    <2>3. k \in blacklist[g] /\ \A v \in Workers : ~Claimed(v, g, k)
      BY <2>1, <2>2 DEF ChainInv, SuccessorSettles
    <2>4. QED BY <1>3, <2>3
  <1>7. SingleUse'
    BY <1>1 DEF ChainInv, SingleUse
  <1>8. QED BY <1>4, <1>5, <1>6, <1>7 DEF ChainInv

(* A refresh ends in the one successor of the token it owns. *)
LEMMA SuccessorChain ==
  ASSUME Sound, ChainInv, NEW w \in Workers, pc[w] = "get_user_userid",
         NEW sub \in UserIds, Successor(w, sub), FileOf(job[w].token) = at[w],
         NEW i, i = job[w].token, NEW f, f = at[w]
  PROVE  ChainInv'
  <1> DEFINE claims == Claims(sub, RefreshNbfDelay, i)
  <1>1. i \in Ids /\ i \in Minted /\ f \in Eras /\ FileOf(i) = f
    BY NoneIsNone DEF Sound, TypeOK, FormsFilled, OnlyMinted, RefreshStatements
  <1>2. claims \in TokenRecords /\ claims.from = i
    BY <1>1, ClaimsType DEF Sound, RefreshNbfDelay, Claims
  <1>3. Mint(w, claims) /\ UNCHANGED blacklist
    BY DEF Successor, database
  <1>4. /\ Minted' = Minted \cup {FreshId}
        /\ FreshId \in Ids \ Minted
        /\ token'[FreshId] = claims
        /\ \A k \in Minted : token'[k] = token[k]
    BY <1>2, <1>3, MintGrows
  <1>5. NoNewClaim /\ pc'[w] = "idle"
    BY <1>3, EndIsQuiet DEF Mint, Reply, EndHandler, Sound, TypeOK
  <1>6. \A v \in Workers : \A e, k : Claimed(v, e, k)' => Claimed(v, e, k)
    BY <1>5 DEF NoNewClaim, Claimed
  <1>7. Claimed(w, f, i) /\ i \in blacklist[f]
    BY DEF Claimed, AfterInsert, ChainInv, ClaimIsRow
  <1>8. \A v \in Workers : ~Claimed(v, f, i)'
    <2> SUFFICES ASSUME NEW v \in Workers, Claimed(v, f, i)' PROVE FALSE
      OBVIOUS
    <2>1. v = w
      BY <1>1, <1>6, <1>7 DEF ChainInv, OneOwner
    <2>2. QED BY <1>5, <2>1 DEF Claimed, AfterInsert
  <1>9. \A j \in Minted : token[j].from # i
    BY <1>1, <1>7, NoneIsNone DEF ChainInv, SuccessorSettles
  <1>10. \A k \in Minted : FileOf(k)' = FileOf(k)
    BY <1>4 DEF FileOf
  <1>11. ClaimIsRow'
    BY <1>3, <1>5 DEF ChainInv, ClaimIsRow, NoNewClaim
  <1>12. OneOwner'
    BY <1>6 DEF ChainInv, OneOwner
  <1>13. SuccessorSettles'
    <2> SUFFICES ASSUME NEW j \in Minted', NEW k, k = token'[j].from, k # None,
                        NEW g, g = FileOf(k)'
                 PROVE  /\ k \in blacklist[g]
                        /\ \A v \in Workers : ~Claimed(v, g, k)'
      BY <1>3 DEF SuccessorSettles
    <2>1. CASE j = FreshId
      <3>1. k = i /\ g = f
        BY <1>1, <1>2, <1>4, <1>10, <2>1
      <3>2. QED BY <1>7, <1>8, <3>1
    <2>2. CASE j \in Minted
      <3>1. k = token[j].from /\ k \in Minted
        BY <1>4, <2>2 DEF Sound, OnlyMinted
      <3>2. g = FileOf(k)
        BY <1>10, <3>1
      <3>3. k \in blacklist[g] /\ \A v \in Workers : ~Claimed(v, g, k)
        BY <2>2, <3>1, <3>2 DEF ChainInv, SuccessorSettles
      <3>4. QED BY <1>6, <3>3
    <2>3. QED BY <1>4, <2>1, <2>2
  <1>14. SingleUse'
    BY <1>2, <1>4, <1>9 DEF ChainInv, SingleUse
  <1>15. QED BY <1>11, <1>12, <1>13, <1>14 DEF ChainInv

LEMMA TornInOneFile ==
  ASSUME ReadsReliable, Busy, Sound, NEW w \in Workers,
         pc[w] = "get_user_userid"
  PROVE  FileOf(job[w].token) = at[w]
  <1>1. job[w].token \in Minted
    BY NoneIsNone DEF Sound, FormsFilled, OnlyMinted, RefreshStatements
  <1>2. FileOf(job[w].token) \in 0 .. 0 /\ at[w] \in 0 .. 0
    BY <1>1 DEF ReadsReliable, Sound, TypeOK, Minted, FileOf, TokenRecords,
                UserIds, Eras
  <1>3. QED BY <1>2

LEMMA HandlerChain ==
  ASSUME ReadsReliable, Sound, ChainInv, NEW w \in Workers, Step(w)
  PROVE  ChainInv'
  <1>1. ASSUME EndHandler(w), UNCHANGED <<token, blacklist>> PROVE ChainInv'
    BY <1>1, EndIsQuiet, QuietChain
  <1>2. ASSUME NEW status, RefreshFails(w, status) PROVE ChainInv'
    BY <1>1, <1>2 DEF RefreshFails, Reply, database
  <1>3. ASSUME Die(w) PROVE ChainInv'
    BY <1>1, <1>3 DEF Die, database
  <1>4. CASE Register(w)
    BY <1>1, <1>4 DEF Register, InsertUserFails, InsertUserTaken,
                      InsertUserDone, Reply, database
  <1>5. ASSUME NEW u \in UserIds, Mint(w, Claims(u, LoginNbfDelay, None)),
               UNCHANGED blacklist
        PROVE  ChainInv'
    <2>1. Claims(u, LoginNbfDelay, None) \in TokenRecords
      BY ClaimsType, Durations DEF Sound, LoginNbfDelay
    <2>2. QED BY <1>5, <2>1, LoginChain DEF Claims
  <1>6. CASE Login(w)
    <2>1. CASE GetUserFails(w) \/ LoginRefused(w)
      BY <1>1, <2>1 DEF GetUserFails, LoginRefused, Reply, database
    <2>2. CASE LoginGranted(w)
      <3>1. <<job[w].name, at[w]>> \in UserIds
        BY <2>2 DEF LoginGranted, Sound, TypeOK, UserIds
      <3>2. QED BY <1>5, <2>2, <3>1 DEF LoginGranted, database
    <2>3. CASE LoginTorn(w)
      <3>1. Registered \subseteq UserIds
        BY DEF Registered, Sound, TypeOK, UserIds
      <3>2. QED
        BY <1>1, <1>3, <1>5, <2>3, <3>1 DEF LoginTorn, Reply, database
    <2>4. QED BY <1>6, <2>1, <2>2, <2>3 DEF Login
  <1>7. CASE Refresh(w)
    <2>1. CASE \/ QueryFails(w) \/ QueryFinds(w) \/ InsertBlacklistFails(w)
               \/ GetSubFails(w) \/ GetUserUseridFails(w)
      BY <1>2, <2>1 DEF QueryFails, QueryFinds, InsertBlacklistFails,
                        GetSubFails, GetUserUseridFails
    <2>2. CASE QueryFindsNothing(w)
      <3>1. NoNewClaim
        BY <2>2 DEF QueryFindsNothing, Goto, NoNewClaim, AfterInsert, Sound,
                    TypeOK
      <3>2. QED BY <2>2, <3>1, QuietChain DEF QueryFindsNothing, database
    <2>3. CASE InsertBlacklistDone(w)
      BY <2>3, InsertChain
    <2>4. CASE GetSubDone(w)
      <3>1. NoNewClaim
        BY <2>4 DEF GetSubDone, Goto, NoNewClaim, AfterInsert, Sound, TypeOK
      <3>2. QED BY <2>4, <3>1, QuietChain DEF GetSubDone, database
    <2>5. CASE RefreshGranted(w)
      <3>1. UserOf(job[w].token) \in UserIds
        <4>1. job[w].token \in Minted
          BY <2>5, NoneIsNone DEF RefreshGranted, Sound, FormsFilled,
                                  OnlyMinted, RefreshStatements
        <4>2. QED BY <4>1 DEF Minted, Sound, TypeOK, TokenRecords, UserOf
      <3>2. QED BY <2>5, <3>1, SuccessorChain DEF RefreshGranted, KnowsSub
    <2>6. CASE RefreshTorn(w)
      <3>1. Registered \subseteq UserIds
        BY DEF Registered, Sound, TypeOK, UserIds
      <3>2. QED
        BY <1>3, <2>6, <3>1, SuccessorChain, TornInOneFile DEF RefreshTorn
    <2>7. QED BY <1>7, <2>1, <2>2, <2>3, <2>4, <2>5, <2>6 DEF Refresh
  <1>8. QED BY <1>4, <1>6, <1>7 DEF Step

LEMMA NextChain ==
  ASSUME ReadsReliable, Sound, ChainInv, [Next]_vars PROVE ChainInv'
  <1>1. CASE UNCHANGED vars
    BY <1>1, QuietChain DEF vars, database, handler, NoNewClaim
  <1>2. ASSUME NEW w \in Workers, Crash(w) PROVE ChainInv'
    BY <1>2, EndIsQuiet, QuietChain DEF Crash, Die, database
  <1>3. ASSUME NEW w \in Workers, NEW t \in Tabs, Begin(w, t) PROVE ChainInv'
    <2>1. NoNewClaim
      BY <1>3 DEF Begin, RefuseNoCookie, RefuseNoDatabase, Start, AnswerAtOnce,
                  FirstStatement, handler, NoNewClaim, AfterInsert, Sound,
                  TypeOK, Requests
    <2>2. UNCHANGED <<token, blacklist>>
      BY <1>3 DEF Begin, RefuseNoCookie, RefuseNoDatabase, Start, AnswerAtOnce,
                  database
    <2>3. QED BY <2>1, <2>2, QuietChain
  <1>4. ASSUME NEW t \in Tabs, Client(t) PROVE ChainInv'
    BY <1>4, QuietChain
    DEF Client, SendRegister, SendLogin, SendRefresh, SendRequest, Deliver,
        Disconnect, database, handler, NoNewClaim
  <1>5. CASE Tick \/ Recreate \/ Migrate
    BY <1>5, QuietChain DEF Tick, Recreate, Migrate, database, handler,
                            NoNewClaim
  <1>6. QED BY <1>1, <1>2, <1>3, <1>4, <1>5, HandlerChain DEF Next

LEMMA AlwaysChain == ASSUME ReadsReliable PROVE Spec => []ChainInv
  <1>1. QED BY AlwaysSound, InitChain, NextChain, PTL DEF Spec

(* No refresh token is ever exchanged for two: not by two processes whose  *)
(* query and insert interleave, not by a client that retries, not after a  *)
(* crash between the statements, and not after the blacklist was emptied   *)
(* by recreating the database.                                             *)
THEOREM ExchangedOnce == ASSUME ReadsReliable PROVE Spec => []SingleUse
  <1>1. ChainInv => SingleUse
    BY DEF ChainInv
  <1>2. QED BY <1>1, AlwaysChain, PTL

-----------------------------------------------------------------------------
(* The handlers implement RefreshChain.  A row in the blacklist of the     *)
(* token's own file is a spent token; the handler that owns the row is the *)
(* pending claim.                                                          *)
Pending(i) == \E w \in Workers : Claimed(w, FileOf(i), i)
PendingSet == {i \in Minted : Pending(i)}
SpentSet == {i \in Minted : i \in blacklist[FileOf(i)]}
FromMap == [i \in Ids |-> IF token[i] = None THEN None ELSE token[i].from]

(* The refinement mapping, in the terms of the proof. *)
LEMMA Mapping ==
  /\ {i \in Minted : Redeemed(i)} = SpentSet
  /\ {i \in Minted : \E w \in Workers : Redeeming(w, i)} = PendingSet
  BY DEF PendingSet, SpentSet, Pending, Claimed, Redeeming, Redeemed,
         AfterInsert

MappedStep ==
  \/ UNCHANGED <<Minted, FromMap, SpentSet, PendingSet>>
  \/ \E i \in Ids :
       \/ /\ i \notin Minted /\ Minted' = Minted \cup {i}
          /\ UNCHANGED <<FromMap, SpentSet, PendingSet>>
       \/ /\ i \in Minted \ SpentSet
          /\ SpentSet' = SpentSet \cup {i} /\ PendingSet' = PendingSet \cup {i}
          /\ UNCHANGED <<Minted, FromMap>>
       \/ /\ i \in PendingSet /\ PendingSet' = PendingSet \ {i}
          /\ UNCHANGED <<Minted, FromMap, SpentSet>>
       \/ \E j \in Ids :
            /\ i \in PendingSet /\ j \in Ids \ Minted
            /\ Minted' = Minted \cup {j}
            /\ FromMap' = [FromMap EXCEPT ![j] = i]
            /\ PendingSet' = PendingSet \ {i}
            /\ UNCHANGED SpentSet

LEMMA MappedStepIsNext == MappedStep => [Chain!Next]_(Chain!chain)
  <1>1. /\ {i \in Minted : Redeemed(i)}' = SpentSet'
        /\ {i \in Minted : \E w \in Workers : Redeeming(w, i)}' = PendingSet'
    BY DEF PendingSet, SpentSet, Pending, Claimed, Redeeming, Redeemed,
           AfterInsert
  <1>2. QED
    BY <1>1, Mapping
    DEF MappedStep, FromMap, Chain!Next, Chain!chain, Chain!Issue, Chain!Claim,
        Chain!Abandon, Chain!Grant

(* Nothing minted, nothing blacklisted, nobody behind the insert moves.    *)
LEMMA StillMapped ==
  ASSUME UNCHANGED <<token, blacklist>>,
         \A w \in Workers :
           /\ pc'[w] \in AfterInsert <=> pc[w] \in AfterInsert
           /\ pc[w] \in AfterInsert => job'[w] = job[w] /\ at'[w] = at[w]
  PROVE  MappedStep
  <1>1. \A w \in Workers : \A e, i : Claimed(w, e, i)' <=> Claimed(w, e, i)
    BY DEF Claimed
  <1>2. Minted' = Minted /\ \A i : FileOf(i)' = FileOf(i)
    BY DEF Minted, FileOf
  <1>3. PendingSet' = PendingSet
    BY <1>1, <1>2 DEF PendingSet, Pending
  <1>4. SpentSet' = SpentSet
    BY <1>2 DEF SpentSet
  <1>5. FromMap' = FromMap
    BY DEF FromMap
  <1>6. QED BY <1>2, <1>3, <1>4, <1>5 DEF MappedStep

(* A handler ends without a successor: the claim it holds is abandoned. *)
LEMMA EndMapped ==
  ASSUME Sound, ChainInv, NEW w \in Workers, EndHandler(w),
         UNCHANGED <<token, blacklist>>
  PROVE  MappedStep
  <1> DEFINE k == job[w].token
  <1>1. /\ pc' = [pc EXCEPT ![w] = "idle"]
        /\ \A v \in Workers : v # w => job'[v] = job[v] /\ at'[v] = at[v]
    BY DEF EndHandler, Sound, TypeOK
  <1>2. \A v \in Workers : \A e, i :
          Claimed(v, e, i)' <=> v # w /\ Claimed(v, e, i)
    BY <1>1 DEF Claimed, AfterInsert, Sound, TypeOK
  <1>3. Minted' = Minted /\ \A i : FileOf(i)' = FileOf(i)
    BY DEF Minted, FileOf
  <1>4. SpentSet' = SpentSet /\ FromMap' = FromMap
    BY <1>3 DEF SpentSet, FromMap
  <1>5. CASE \E i \in Minted : Claimed(w, FileOf(i), i)
    <2>1. PICK i \in Minted : Claimed(w, FileOf(i), i)
      BY <1>5
    <2>2. i \in Ids /\ FileOf(i) \in Eras
      BY DEF Sound, TypeOK, Minted, FileOf, TokenRecords, UserIds
    <2>3. i \in PendingSet
      BY <2>1 DEF PendingSet, Pending
    <2>4. ~Pending(i)'
      BY <1>2, <1>3, <2>1, <2>2 DEF ChainInv, OneOwner, Pending
    <2>5. \A j \in Minted : j # i => (Pending(j)' <=> Pending(j))
      BY <1>2, <1>3, <2>1 DEF Pending, Claimed
    <2>6. PendingSet' = PendingSet \ {i}
      BY <1>3, <2>4, <2>5 DEF PendingSet
    <2>7. QED BY <1>3, <1>4, <2>2, <2>3, <2>6 DEF MappedStep
  <1>6. CASE ~\E i \in Minted : Claimed(w, FileOf(i), i)
    <2>1. \A i \in Minted : Pending(i)' <=> Pending(i)
      BY <1>2, <1>3, <1>6 DEF Pending
    <2>2. PendingSet' = PendingSet
      BY <1>3, <2>1 DEF PendingSet
    <2>3. QED BY <1>3, <1>4, <2>2 DEF MappedStep
  <1>7. QED BY <1>5, <1>6

(* insert_blacklist takes the claim, if the row is in the token's own file. *)
LEMMA InsertMapped ==
  ASSUME Sound, ChainInv, NEW w \in Workers, InsertBlacklistDone(w),
         NEW i, i = job[w].token, NEW f, f = at[w]
  PROVE  MappedStep
  <1>1. /\ i \in Minted /\ i \in Ids /\ f \in Eras
        /\ i \notin blacklist[f]
        /\ blacklist' = [blacklist EXCEPT ![f] = @ \cup {i}]
        /\ blacklist \in [Eras -> SUBSET Ids]
        /\ UNCHANGED <<token, job, at>>
        /\ pc[w] = "insert_blacklist"
        /\ pc' = [pc EXCEPT ![w] = "get_sub"]
    BY NoneIsNone DEF InsertBlacklistDone, Goto, Sound, TypeOK, FormsFilled,
                      OnlyMinted, RefreshStatements
  <1>2. \A v \in Workers : \A e, k :
          Claimed(v, e, k)' <=> \/ v # w /\ Claimed(v, e, k)
                                \/ v = w /\ e = f /\ k = i
    BY <1>1 DEF Claimed, AfterInsert, Sound, TypeOK
  <1>3. Minted' = Minted /\ FromMap' = FromMap /\ \A k : FileOf(k)' = FileOf(k)
    BY <1>1 DEF Minted, FromMap, FileOf
  <1>4. \A e, k : ~Claimed(w, e, k)
    BY <1>1 DEF Claimed, AfterInsert
  <1>5. \A k \in Minted : FileOf(k) \in Eras
    BY DEF Sound, TypeOK, Minted, FileOf, TokenRecords, UserIds
  <1>6. CASE FileOf(i) = f
    <2>1. i \in Minted \ SpentSet
      BY <1>1, <1>6 DEF SpentSet
    <2>2. SpentSet' = SpentSet \cup {i}
      BY <1>1, <1>3, <1>5, <1>6 DEF SpentSet
    <2>3. PendingSet' = PendingSet \cup {i}
      BY <1>1, <1>2, <1>3, <1>4, <1>6 DEF PendingSet, Pending
    <2>4. QED BY <1>1, <1>3, <2>1, <2>2, <2>3 DEF MappedStep
  <1>7. CASE FileOf(i) # f
    <2>1. SpentSet' = SpentSet
      BY <1>1, <1>3, <1>5, <1>7 DEF SpentSet
    <2>2. PendingSet' = PendingSet
      BY <1>1, <1>2, <1>3, <1>4, <1>7 DEF PendingSet, Pending
    <2>3. QED BY <1>3, <2>1, <2>2 DEF MappedStep
  <1>8. QED BY <1>6, <1>7

(* What a mint does to the mapped ledger. *)
LEMMA MintMapped ==
  ASSUME Sound, NEW w \in Workers, NEW claims \in TokenRecords,
         Mint(w, claims), UNCHANGED blacklist, NEW n, n = FreshId
  PROVE  /\ n \in Ids /\ n \notin Minted /\ Minted' = Minted \cup {n}
         /\ FromMap' = [FromMap EXCEPT ![n] = claims.from]
         /\ SpentSet' = SpentSet
         /\ \A k \in Minted : FileOf(k)' = FileOf(k)
         /\ ~Pending(n)'
  <1>1. /\ n \in Ids \ Minted /\ Minted' = Minted \cup {n}
        /\ \A k \in Minted : token'[k] = token[k]
        /\ token' = [token EXCEPT ![n] = claims]
    BY MintGrows DEF Mint
  <1>2. \A k \in Minted : FileOf(k)' = FileOf(k)
    BY <1>1 DEF FileOf
  <1>3. FromMap' = [FromMap EXCEPT ![n] = claims.from]
    BY <1>1, NoneIsNoToken DEF FromMap, Sound, TypeOK
  <1>4. claims.sub \in UserIds /\ token'[n] = claims
    BY <1>1 DEF TokenRecords, Sound, TypeOK
  <1>5. \A e \in Eras : n \notin blacklist[e]
    BY <1>1 DEF Sound, OnlyMinted
  <1>6. FileOf(n)' \in Eras
    BY <1>4 DEF FileOf, UserIds
  <1>7. SpentSet' = SpentSet
    BY <1>1, <1>2, <1>5, <1>6 DEF SpentSet
  <1>8. \A v \in Workers : job[v].token # n
    BY <1>1, NoneIsNone DEF Sound, OnlyMinted
  <1>9. \A v \in Workers : \A e : ~Claimed(v, e, n)'
    <2>1. /\ pc' = [pc EXCEPT ![w] = "idle"]
          /\ \A v \in Workers : v # w => job'[v] = job[v]
      BY DEF Mint, Reply, EndHandler, Sound, TypeOK
    <2>2. QED BY <1>8, <2>1 DEF Claimed, AfterInsert, Sound, TypeOK
  <1>10. ~Pending(n)'
    BY <1>9 DEF Pending
  <1>11. QED BY <1>1, <1>2, <1>3, <1>7, <1>10

LEMMA LoginMapped ==
  ASSUME Sound, ChainInv, NEW w \in Workers, pc[w] = "get_user",
         NEW u \in UserIds, Mint(w, Claims(u, LoginNbfDelay, None)),
         UNCHANGED blacklist
  PROVE  MappedStep
  <1>1. PICK n : n = FreshId
    OBVIOUS
  <1>2. Claims(u, LoginNbfDelay, None) \in TokenRecords
        /\ Claims(u, LoginNbfDelay, None).from = None
    BY ClaimsType, Durations DEF Sound, LoginNbfDelay, Claims
  <1>3. /\ n \in Ids /\ n \notin Minted /\ Minted' = Minted \cup {n}
        /\ FromMap' = [FromMap EXCEPT ![n] = None]
        /\ SpentSet' = SpentSet
        /\ \A k \in Minted : FileOf(k)' = FileOf(k)
        /\ ~Pending(n)'
    BY <1>1, <1>2, MintMapped
  <1>4. FromMap' = FromMap
    BY <1>3 DEF FromMap, Minted
  <1>5. \A v \in Workers : \A e, k : Claimed(v, e, k)' <=> Claimed(v, e, k)
    BY DEF Mint, Reply, EndHandler, Claimed, AfterInsert, Sound, TypeOK
  <1>6. PendingSet' = PendingSet
    BY <1>3, <1>5 DEF PendingSet, Pending
  <1>7. QED BY <1>3, <1>4, <1>6 DEF MappedStep

LEMMA SuccessorMapped ==
  ASSUME Sound, ChainInv, NEW w \in Workers, pc[w] = "get_user_userid",
         NEW sub \in UserIds, Successor(w, sub), FileOf(job[w].token) = at[w],
         NEW i, i = job[w].token, NEW f, f = at[w]
  PROVE  MappedStep
  <1>1. PICK n : n = FreshId
    OBVIOUS
  <1>2. i \in Ids /\ i \in Minted /\ f \in Eras /\ FileOf(i) = f
    BY NoneIsNone DEF Sound, TypeOK, FormsFilled, OnlyMinted, RefreshStatements
  <1>3. Claims(sub, RefreshNbfDelay, i) \in TokenRecords
        /\ Claims(sub, RefreshNbfDelay, i).from = i
    BY <1>2, ClaimsType DEF Sound, RefreshNbfDelay, Claims
  <1>4. Mint(w, Claims(sub, RefreshNbfDelay, i)) /\ UNCHANGED blacklist
    BY DEF Successor, database
  <1>5. /\ n \in Ids /\ n \notin Minted /\ Minted' = Minted \cup {n}
        /\ FromMap' = [FromMap EXCEPT ![n] = i]
        /\ SpentSet' = SpentSet
        /\ \A k \in Minted : FileOf(k)' = FileOf(k)
        /\ ~Pending(n)'
    BY <1>1, <1>3, <1>4, MintMapped
  <1>6. \A v \in Workers : \A e, k :
          Claimed(v, e, k)' <=> v # w /\ Claimed(v, e, k)
    BY <1>4 DEF Mint, Reply, EndHandler, Claimed, AfterInsert, Sound, TypeOK
  <1>7. Claimed(w, f, i) /\ \A e, k : Claimed(w, e, k) => e = f /\ k = i
    BY DEF Claimed, AfterInsert
  <1>8. \A v \in Workers : Claimed(v, f, i) => v = w
    BY <1>2, <1>7 DEF ChainInv, OneOwner
  <1>9. i \in PendingSet
    BY <1>2, <1>7 DEF PendingSet, Pending
  <1>10. \A k \in Minted : Pending(k)' <=> Pending(k) /\ k # i
    BY <1>2, <1>5, <1>6, <1>7, <1>8 DEF Pending
  <1>11. PendingSet' = PendingSet \ {i}
    BY <1>5, <1>10 DEF PendingSet
  <1>12. QED BY <1>2, <1>5, <1>9, <1>11 DEF MappedStep

LEMMA HandlerMapped ==
  ASSUME ReadsReliable, Sound, ChainInv, NEW w \in Workers, Step(w)
  PROVE  MappedStep
  <1>1. ASSUME EndHandler(w), UNCHANGED <<token, blacklist>> PROVE MappedStep
    BY <1>1, EndMapped
  <1>2. ASSUME NEW status, RefreshFails(w, status) PROVE MappedStep
    BY <1>1, <1>2 DEF RefreshFails, Reply, database
  <1>3. ASSUME Die(w) PROVE MappedStep
    BY <1>1, <1>3 DEF Die, database
  <1>4. Registered \subseteq UserIds
    BY DEF Registered, Sound, TypeOK, UserIds
  <1>5. CASE Register(w)
    BY <1>1, <1>5 DEF Register, InsertUserFails, InsertUserTaken,
                      InsertUserDone, Reply, database
  <1>6. CASE Login(w)
    <2>1. CASE GetUserFails(w) \/ LoginRefused(w)
      BY <1>1, <2>1 DEF GetUserFails, LoginRefused, Reply, database
    <2>2. CASE LoginGranted(w)
      <3>1. <<job[w].name, at[w]>> \in UserIds
        BY <2>2 DEF LoginGranted, Sound, TypeOK, UserIds
      <3>2. QED BY <2>2, <3>1, LoginMapped DEF LoginGranted, database
    <2>3. CASE LoginTorn(w)
      BY <1>1, <1>3, <1>4, <2>3, LoginMapped DEF LoginTorn, Reply, database
    <2>4. QED BY <1>6, <2>1, <2>2, <2>3 DEF Login
  <1>7. CASE Refresh(w)
    <2>1. CASE \/ QueryFails(w) \/ QueryFinds(w) \/ InsertBlacklistFails(w)
               \/ GetSubFails(w) \/ GetUserUseridFails(w)
      BY <1>2, <2>1 DEF QueryFails, QueryFinds, InsertBlacklistFails,
                        GetSubFails, GetUserUseridFails
    <2>2. CASE QueryFindsNothing(w)
      BY <2>2, StillMapped DEF QueryFindsNothing, Goto, AfterInsert, Sound,
                               TypeOK, database
    <2>3. CASE InsertBlacklistDone(w)
      BY <2>3, InsertMapped
    <2>4. CASE GetSubDone(w)
      BY <2>4, StillMapped DEF GetSubDone, Goto, AfterInsert, Sound, TypeOK,
                               database
    <2>5. CASE RefreshGranted(w)
      <3>1. UserOf(job[w].token) \in UserIds
        <4>1. job[w].token \in Minted
          BY <2>5, NoneIsNone DEF RefreshGranted, Sound, FormsFilled,
                                  OnlyMinted, RefreshStatements
        <4>2. QED BY <4>1 DEF Minted, Sound, TypeOK, TokenRecords, UserOf
      <3>2. QED BY <2>5, <3>1, SuccessorMapped DEF RefreshGranted, KnowsSub
    <2>6. CASE RefreshTorn(w)
      BY <1>3, <1>4, <2>6, SuccessorMapped, TornInOneFile DEF RefreshTorn
    <2>7. QED BY <1>7, <2>1, <2>2, <2>3, <2>4, <2>5, <2>6 DEF Refresh
  <1>8. QED BY <1>5, <1>6, <1>7 DEF Step

LEMMA NextMapped ==
  ASSUME ReadsReliable, Sound, ChainInv, [Next]_vars PROVE MappedStep
  <1>1. CASE UNCHANGED vars
    BY <1>1, StillMapped DEF vars, database, handler
  <1>2. ASSUME NEW w \in Workers, Crash(w) PROVE MappedStep
    BY <1>2, EndMapped DEF Crash, Die, database
  <1>3. ASSUME NEW w \in Workers, NEW t \in Tabs, Begin(w, t) PROVE MappedStep
    <2>1. CASE RefuseNoCookie(w, t) \/ RefuseNoDatabase(w, t)
      BY <2>1, StillMapped DEF RefuseNoCookie, RefuseNoDatabase, AnswerAtOnce,
                               handler, database
    <2>2. CASE Start(w, t)
      <3>1. FirstStatement(req[t].op) \notin AfterInsert
        BY DEF FirstStatement, AfterInsert, Sound, TypeOK, Requests
      <3>2. QED
        BY <2>2, <3>1, StillMapped DEF Start, AfterInsert, Sound, TypeOK,
                                       database
    <2>3. QED BY <1>3, <2>1, <2>2 DEF Begin
  <1>4. ASSUME NEW t \in Tabs, Client(t) PROVE MappedStep
    BY <1>4, StillMapped
    DEF Client, SendRegister, SendLogin, SendRefresh, SendRequest, Deliver,
        Disconnect, database, handler
  <1>5. CASE Tick \/ Recreate \/ Migrate
    BY <1>5, StillMapped DEF Tick, Recreate, Migrate, database, handler
  <1>6. QED BY <1>1, <1>2, <1>3, <1>4, <1>5, HandlerMapped DEF Next

(* The handlers, cut at their SQL statements and interleaved over several  *)
(* processes, crashes, retries and a recreated database, implement the     *)
(* chains: every step is one of the four of RefreshChain, or a stutter.    *)
THEOREM HandlersImplementChains == ASSUME ReadsReliable PROVE Spec => ChainSpec
  <1>1. Init => Chain!Init
    BY DEF Init, Chain!Init, Minted, Redeemed, Redeeming
  <1>2. ChainInv /\ Sound /\ [Next]_vars => [Chain!Next]_(Chain!chain)
    BY NextMapped, MappedStepIsNext
  <1>3. QED
    BY <1>1, <1>2, AlwaysSound, AlwaysChain, PTL DEF Spec, ChainSpec, Chain!Spec
=============================================================================
