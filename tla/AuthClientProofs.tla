--------------------------- MODULE AuthClientProofs ---------------------------
(***************************************************************************)
(* Theorems about what a client of Auth may rely on, beside the chains of  *)
(* AuthProofs: registrations, and that valid tokens are not lost.          *)
(***************************************************************************)
EXTENDS AuthProofs

(* The rows of a file only grow, and a name is welcomed with its row. *)
Welcome ==
  \A e \in Eras, n \in Names :
    /\ welcomed[e][n] <= 1
    /\ welcomed[e][n] # 0 => n \in users[e]

LEMMA QuietWelcome ==
  ASSUME Welcome, UNCHANGED <<users, welcomed>> PROVE Welcome'
  BY DEF Welcome

LEMMA InsertWelcome ==
  ASSUME Sound, Welcome, NEW w \in Workers, InsertUserDone(w) PROVE Welcome'
  <1> DEFINE m == job[w].name
             f == at[w]
  <1>1. /\ m \in Names /\ f \in Eras /\ m \notin users[f]
        /\ users' = [users EXCEPT ![f] = @ \cup {m}]
        /\ welcomed' = [welcomed EXCEPT ![f][m] = @ + 1]
    BY DEF InsertUserDone, Sound, FormsFilled, TypeOK
  <1>2. welcomed[f][m] = 0
    BY <1>1 DEF Welcome
  <1>3. welcomed' = [welcomed EXCEPT ![f] = [welcomed[f] EXCEPT ![m] = 1]]
    BY <1>1, <1>2
  <1> HIDE DEF m, f
  <1>4. QED BY <1>1, <1>3 DEF Welcome, Sound, TypeOK

LEMMA NextWelcome == ASSUME Sound, Welcome, [Next]_vars PROVE Welcome'
  <1>1. CASE UNCHANGED vars
    BY <1>1, QuietWelcome DEF vars, database, history
  <1>2. ASSUME NEW w \in Workers, Register(w) PROVE Welcome'
    BY <1>2, QuietWelcome, InsertWelcome
    DEF Register, InsertUserFails, InsertUserTaken, LeaveOpen, database
  <1>3. ASSUME NEW w \in Workers, Die(w) PROVE Welcome'
    BY <1>3, QuietWelcome DEF Die, database
  <1>4. ASSUME NEW w \in Workers, Login(w) PROVE Welcome'
    BY <1>3, <1>4, QuietWelcome
    DEF Login, GetUserFails, LoginRefused, LoginGranted, LoginTorn, database,
        history
  <1>5. ASSUME NEW w \in Workers, Refresh(w) PROVE Welcome'
    BY <1>3, <1>5, QuietWelcome
    DEF Refresh, QueryFails, QueryFinds, QueryFindsNothing,
        InsertBlacklistFails, InsertBlacklistDone, GetSubFails, GetSubDone,
        GetUserUseridFails, RefreshGranted, RefreshTorn, RefreshFails,
        Successor, database, history
  <1>6. ASSUME NEW w \in Workers, NEW t \in Tabs, Begin(w, t) PROVE Welcome'
    BY <1>6, QuietWelcome
    DEF Begin, RefuseNoCookie, RefuseNoDatabase, Start, AnswerAtOnce, database,
        history
  <1>7. ASSUME NEW t \in Tabs, Client(t) PROVE Welcome'
    BY <1>7, QuietWelcome
    DEF Client, SendRegister, SendLogin, SendRefresh, SendRequest, Deliver,
        Disconnect, database, history
  <1>8. CASE Tick \/ Recreate \/ Migrate
    BY <1>8, QuietWelcome DEF Tick, Recreate, Migrate, database, history
  <1>9. QED
    BY <1>1, <1>2, <1>3, <1>4, <1>5, <1>6, <1>7, <1>8 DEF Next, Step, Crash

(* A registration is confirmed at most once per name and file, whatever    *)
(* processes, torn reads, crashes and recreations do, and the row of a     *)
(* confirmed name is there.                                                *)
THEOREM RegisteredOnce == Spec => []ConfirmedOnce
  <1>1. Init => Welcome
    BY DEF Init, Welcome
  <1>2. Sound /\ Welcome => ConfirmedOnce
    BY DEF Welcome, ConfirmedOnce
  <1>3. QED BY <1>1, <1>2, NextWelcome, AlwaysSound, PTL DEF Spec

-----------------------------------------------------------------------------
(* No valid token is lost, where nothing fails, browsers wait for their    *)
(* session to end, the database stays and the server keeps UTC.            *)
Gentle == ~Faults /\ ~Busy /\ ~Eager /\ MaxEra = 0 /\ TzOffset = 0

(* What a browser will present is valid by then: a jar's token from the    *)
(* end of the session on, one in an answer a quarter of an hour later at   *)
(* the latest, one in a request already.                                   *)
Patience ==
  /\ \A b \in Browsers : jar[b].refresh # None =>
       token[jar[b].refresh].nbf <= jar[b].sessionUntil
  /\ \A t \in Tabs :
       /\ answer[t].cookie # None =>
            token[answer[t].cookie].nbf <= clock + Quarter
       /\ req[t].token # None => token[req[t].token].nbf <= clock
  /\ \A w \in Workers : job[w].token # None => token[job[w].token].nbf <= clock

(* get_user_userid finds the user of every token there is. *)
SubjectsStay == \A i \in Minted : UserOf(i)[1] \in users[FileOf(i)]

Unburnt == Patience /\ SubjectsStay /\ NoTokenBurnt

LEMMA OneFile ==
  ASSUME Gentle, Sound
  PROVE  /\ era = 0
         /\ \A w \in Workers : at[w] = 0
         /\ \A i \in Minted : /\ token[i] \in TokenRecords /\ FileOf(i) = 0
                              /\ UserOf(i)[1] \in Names
                              /\ UserOf(i) = <<UserOf(i)[1], 0>>
  <1>1. Eras = {0}
    BY DEF Gentle, Eras
  <1>2. QED
    BY <1>1 DEF Sound, TypeOK, Minted, TokenRecords, UserIds, FileOf, UserOf

(* Time passes, requests move on to handlers, answers go out. *)
LEMMA PatienceKept ==
  ASSUME Sound, Patience, clock' \in Nat, clock <= clock', jar' = jar,
         \A i \in Minted : token'[i] = token[i],
         \A t \in Tabs : /\ answer'[t].cookie \in {answer[t].cookie, None}
                         /\ req'[t].token \in {req[t].token, None},
         \A w \in Workers :
           \/ job'[w].token \in {job[w].token, None}
           \/ \E t \in Tabs : job'[w].token = req[t].token
  PROVE  Patience'
  <1>1. \A i \in Minted : token'[i].nbf = token[i].nbf /\ token[i].nbf \in Nat
    BY DEF Sound, TypeOK, Minted, TokenRecords
  <1>2. clock \in Nat /\ Quarter \in Nat
    BY Durations DEF Sound, TypeOK
  <1>3. \A b \in Browsers : jar'[b].refresh # None =>
          token'[jar'[b].refresh].nbf <= jar'[b].sessionUntil
    BY <1>1 DEF Patience, Sound, OnlyMinted
  <1>4. \A t \in Tabs :
          /\ answer'[t].cookie # None =>
               token'[answer'[t].cookie].nbf <= clock' + Quarter
          /\ req'[t].token # None => token'[req'[t].token].nbf <= clock'
    <2> SUFFICES ASSUME NEW t \in Tabs
                 PROVE  /\ answer'[t].cookie # None =>
                             token'[answer'[t].cookie].nbf <= clock' + Quarter
                        /\ req'[t].token # None =>
                             token'[req'[t].token].nbf <= clock'
      OBVIOUS
    <2>1. /\ answer[t].cookie \in Minted \cup {None}
          /\ req[t].token \in Minted \cup {None}
      BY DEF Sound, OnlyMinted
    <2>2. /\ answer[t].cookie # None =>
               token[answer[t].cookie].nbf <= clock + Quarter
          /\ req[t].token # None => token[req[t].token].nbf <= clock
      BY DEF Patience
    <2>3. QED BY <1>1, <1>2, <2>1, <2>2
  <1>5. \A w \in Workers :
          job'[w].token # None => token'[job'[w].token].nbf <= clock'
    <2> SUFFICES ASSUME NEW w \in Workers, NEW i, i = job'[w].token, i # None
                 PROVE  token'[i].nbf <= clock'
      OBVIOUS
    <2>1. i \in Minted /\ token[i].nbf <= clock
      BY DEF Patience, Sound, OnlyMinted
    <2>2. QED BY <1>1, <1>2, <2>1
  <1>6. QED BY <1>3, <1>4, <1>5 DEF Patience

LEMMA SubjectsKept ==
  ASSUME Sound, SubjectsStay, token' = token,
         \A e \in Eras : users[e] \subseteq users'[e]
  PROVE  SubjectsStay'
  <1>1. \A i \in Minted : FileOf(i) \in Eras
    BY DEF Sound, TypeOK, Minted, TokenRecords, UserIds, FileOf
  <1>2. QED BY <1>1 DEF SubjectsStay, Minted, UserOf, FileOf

(* Handlers at a claimed token stay at it. *)
LEMMA UnburntKept ==
  ASSUME Sound, NoTokenBurnt, clock' \in Nat, clock <= clock',
         UNCHANGED <<token, blacklist>>,
         \A w \in Workers : \A i \in Minted :
           Redeeming(w, i) => Redeeming(w, i)' \/ clock > token[i].exp
  PROVE  NoTokenBurnt'
  <1>1. /\ Minted' = Minted
        /\ \A i \in Minted : /\ Redeemed(i)' <=> Redeemed(i)
                             /\ HasSuccessor(i)' <=> HasSuccessor(i)
    BY DEF Minted, Redeemed, HasSuccessor, FileOf
  <1>2. \A i \in Minted : token[i].exp \in Nat /\ token'[i].exp = token[i].exp
    BY DEF Sound, TypeOK, Minted, TokenRecords
  <1>3. clock \in Nat
    BY DEF Sound, TypeOK
  <1>4. QED BY <1>1, <1>2, <1>3 DEF NoTokenBurnt

(* A handler's answer without a cookie.  Past the insert it gives up only  *)
(* on a token that has run out.                                            *)
LEMMA RefusalUnburnt ==
  ASSUME Sound, Unburnt, NEW w \in Workers, NEW status, Reply(w, status, None),
         UNCHANGED <<clock, token, jar, blacklist>>,
         \A e \in Eras : users[e] \subseteq users'[e],
         pc[w] \in AfterInsert => clock > token[job[w].token].exp
  PROVE  Unburnt'
  <1>1. clock \in Nat
    BY DEF Sound, TypeOK
  <1>2. /\ \A t \in Tabs : /\ answer'[t].cookie \in {answer[t].cookie, None}
                           /\ req'[t] = req[t]
        /\ \A v \in Workers : job'[v].token \in {job[v].token, None}
        /\ \A v \in Workers : v # w =>
             pc'[v] = pc[v] /\ job'[v] = job[v] /\ at'[v] = at[v]
    BY DEF Reply, EndHandler, NoRequest, Sound, TypeOK
  <1>3. Patience'
    BY <1>1, <1>2, PatienceKept DEF Unburnt
  <1>4. SubjectsStay'
    BY SubjectsKept DEF Unburnt
  <1>5. \A v \in Workers : \A i \in Minted :
          Redeeming(v, i) => Redeeming(v, i)' \/ clock > token[i].exp
    BY <1>2 DEF Redeeming, Minted, FileOf, AfterInsert
  <1>6. NoTokenBurnt'
    BY <1>1, <1>5, UnburntKept DEF Unburnt
  <1>7. QED BY <1>3, <1>4, <1>6 DEF Unburnt

(* A handler's answer with a new token, which settles the claim it is at. *)
LEMMA MintUnburnt ==
  ASSUME Gentle, Sound, Unburnt, NEW w \in Workers,
         NEW claims \in TokenRecords, Mint(w, claims),
         UNCHANGED <<clock, jar, users, blacklist>>,
         claims.nbf <= clock + Quarter,
         claims.sub[1] \in users[claims.sub[2]],
         pc[w] \in AfterInsert => claims.from = job[w].token
  PROVE  Unburnt'
  <1>0. PICK n : n = FreshId
    OBVIOUS
  <1>1. /\ Minted' = Minted \cup {n}
        /\ n \in Ids \ Minted
        /\ token'[n] = claims
        /\ \A i \in Minted : token'[i] = token[i]
    BY <1>0, MintGrows
  <1>2. /\ \A t \in Tabs : /\ answer'[t].cookie \in {answer[t].cookie, n}
                           /\ req'[t] = req[t]
        /\ \A v \in Workers : job'[v].token \in {job[v].token, None}
        /\ \A v \in Workers : v # w =>
             pc'[v] = pc[v] /\ job'[v] = job[v] /\ at'[v] = at[v]
    BY <1>0 DEF Mint, Reply, EndHandler, NoRequest, Sound, TypeOK
  <1>3. Patience'
    <2>1. \A t \in Tabs : answer'[t].cookie # None =>
            token'[answer'[t].cookie].nbf <= clock + Quarter
      <3> SUFFICES ASSUME NEW t \in Tabs, NEW i, i = answer'[t].cookie,
                          i # None
                   PROVE  token'[i].nbf <= clock + Quarter
        OBVIOUS
      <3>1. CASE i = n
        BY <1>1, <3>1
      <3>2. CASE i = answer[t].cookie
        BY <1>1, <3>2 DEF Unburnt, Patience, Sound, OnlyMinted
      <3>3. QED BY <1>2, <3>1, <3>2
    <2>2. \A b \in Browsers : jar[b].refresh \in Minted \cup {None}
      BY DEF Sound, OnlyMinted
    <2>3. \A t \in Tabs : req[t].token \in Minted \cup {None}
      BY DEF Sound, OnlyMinted
    <2>4. \A v \in Workers : job[v].token \in Minted \cup {None}
      BY DEF Sound, OnlyMinted
    <2>5. \A b \in Browsers : jar'[b].refresh # None =>
            token'[jar'[b].refresh].nbf <= jar'[b].sessionUntil
      BY <1>1, <2>2 DEF Unburnt, Patience
    <2>6. \A t \in Tabs :
            req'[t].token # None => token'[req'[t].token].nbf <= clock
      BY <1>1, <1>2, <2>3 DEF Unburnt, Patience
    <2>7. \A v \in Workers :
            job'[v].token # None => token'[job'[v].token].nbf <= clock
      BY <1>1, <1>2, <2>4 DEF Unburnt, Patience
    <2>8. QED BY <2>1, <2>5, <2>6, <2>7 DEF Patience
  <1>4. SubjectsStay'
    BY <1>1 DEF Unburnt, SubjectsStay, UserOf, FileOf
  <1>5. \A i \in Minted : Redeemed(i)' <=> Redeemed(i)
    BY <1>1 DEF Redeemed, FileOf
  <1>6. ~Redeemed(n)'
    <2>1. \A e \in Eras : n \notin blacklist[e]
      BY <1>1 DEF Sound, OnlyMinted
    <2>2. FileOf(n)' \in Eras
      BY <1>1 DEF FileOf, TokenRecords, UserIds
    <2>3. QED BY <2>1, <2>2 DEF Redeemed
  <1>7. \A i \in Minted : HasSuccessor(i) => HasSuccessor(i)'
    BY <1>1 DEF HasSuccessor
  <1>8. \A v \in Workers : \A i \in Minted :
          Redeeming(v, i) => Redeeming(v, i)' \/ HasSuccessor(i)'
    <2> SUFFICES ASSUME NEW v \in Workers, NEW i \in Minted, Redeeming(v, i)
                 PROVE  Redeeming(v, i)' \/ HasSuccessor(i)'
      OBVIOUS
    <2>1. CASE v = w
      BY <1>1, <2>1 DEF Redeeming, AfterInsert, HasSuccessor
    <2>2. CASE v # w
      BY <1>1, <1>2, <2>2 DEF Redeeming, FileOf
    <2>3. QED BY <2>1, <2>2
  <1>9. NoTokenBurnt'
    <2> SUFFICES ASSUME NEW i \in Minted', Redeemed(i)'
                 PROVE  \/ HasSuccessor(i)'
                        \/ \E v \in Workers : Redeeming(v, i)'
                        \/ clock > token'[i].exp
      BY DEF NoTokenBurnt
    <2>1. i \in Minted /\ Redeemed(i) /\ token'[i] = token[i]
      BY <1>1, <1>5, <1>6
    <2>2. \/ HasSuccessor(i)
          \/ \E v \in Workers : Redeeming(v, i)
          \/ clock > token[i].exp
      BY <2>1 DEF Unburnt, NoTokenBurnt
    <2>3. QED BY <1>7, <1>8, <2>1, <2>2
  <1>10. QED BY <1>3, <1>4, <1>9 DEF Unburnt

(* Steps that mint and blacklist nothing and bring no handler to an end. *)
LEMMA QuietUnburnt ==
  ASSUME Sound, Unburnt, clock' \in Nat, clock <= clock',
         UNCHANGED <<users, blacklist, token>>,
         Patience',
         \A w \in Workers : pc[w] \in AfterInsert =>
           pc'[w] \in AfterInsert /\ job'[w] = job[w] /\ at'[w] = at[w]
  PROVE  Unburnt'
  <1>1. SubjectsStay'
    BY SubjectsKept DEF Unburnt
  <1>2. \A w \in Workers : \A i \in Minted :
          Redeeming(w, i) => Redeeming(w, i)'
    BY DEF Redeeming, AfterInsert, Minted, FileOf
  <1>3. NoTokenBurnt'
    BY <1>2, UnburntKept DEF Unburnt
  <1>4. QED BY <1>1, <1>3 DEF Unburnt

LEMMA GotoUnburnt ==
  ASSUME Sound, Unburnt, NEW w \in Workers, NEW label, Goto(w, label),
         pc[w] \in AfterInsert => label \in AfterInsert,
         UNCHANGED <<clock, users, blacklist, token, jar>>
  PROVE  Unburnt'
  <1>1. clock \in Nat /\ \A v \in Workers : v # w => pc'[v] = pc[v]
    BY DEF Goto, Sound, TypeOK
  <1>2. Patience'
    BY <1>1, PatienceKept DEF Goto, tabs, Unburnt
  <1>3. pc'[w] = label
    BY DEF Goto, Sound, TypeOK
  <1>4. QED BY <1>1, <1>2, <1>3, QuietUnburnt DEF Goto

(* The row of the claimed token is new; the handler is at its token. *)
LEMMA InsertUnburnt ==
  ASSUME Gentle, Sound, Unburnt, NEW w \in Workers, InsertBlacklistDone(w),
         NEW i, i = job[w].token
  PROVE  Unburnt'
  <1>1. /\ i \in Minted /\ at[w] = 0 /\ 0 \in Eras
        /\ \A k \in Minted : FileOf(k) = 0
        /\ blacklist' = [blacklist EXCEPT ![0] = @ \cup {i}]
        /\ blacklist \in [Eras -> SUBSET Ids]
        /\ UNCHANGED <<clock, users, token, jar, job, serving, at, tabs>>
        /\ pc[w] = "insert_blacklist"
        /\ pc' = [pc EXCEPT ![w] = "get_sub"] /\ pc'[w] = "get_sub"
    BY OneFile, NoneIsNone
    DEF InsertBlacklistDone, Goto, Sound, TypeOK, FormsFilled, OnlyMinted,
        RefreshStatements
  <1>2. Patience' /\ SubjectsStay'
    <2>1. clock \in Nat
      BY DEF Sound, TypeOK
    <2>2. QED BY <1>1, <2>1, PatienceKept, SubjectsKept DEF Unburnt, tabs
  <1>3. Redeeming(w, i)'
    BY <1>1 DEF Redeeming, FileOf, Minted
  <1>4. \A v \in Workers, k \in Minted : Redeeming(v, k) => Redeeming(v, k)'
    BY <1>1 DEF Redeeming, FileOf, Minted, Sound, TypeOK
  <1>5. \A k \in Minted : Redeemed(k)' => Redeemed(k) \/ k = i
    BY <1>1 DEF Redeemed, FileOf, Minted
  <1>6. NoTokenBurnt'
    <2> SUFFICES ASSUME NEW k \in Minted, Redeemed(k)'
                 PROVE  \/ HasSuccessor(k)'
                        \/ \E v \in Workers : Redeeming(v, k)'
                        \/ clock > token[k].exp
      BY <1>1 DEF NoTokenBurnt, Minted
    <2>1. CASE k = i
      BY <1>3, <2>1
    <2>2. CASE Redeemed(k)
      <3>1. HasSuccessor(k) => HasSuccessor(k)'
        BY <1>1 DEF HasSuccessor, Minted
      <3>2. QED BY <1>4, <2>2, <3>1 DEF Unburnt, NoTokenBurnt
    <2>3. QED BY <1>5, <2>1, <2>2
  <1>7. QED BY <1>2, <1>6 DEF Unburnt

(* Past the insert only a token that ran out is refused. *)
LEMMA ClaimsHold ==
  ASSUME Gentle, Sound, Unburnt, NEW w \in Workers
  PROVE  /\ pc[w] \in RefreshStatements => job[w].token \in Minted
         /\ GetSubFails(w) => clock > token[job[w].token].exp
         /\ pc[w] = "get_user_userid" => KnowsSub(w)
  <1>1. ASSUME pc[w] \in RefreshStatements
        PROVE  /\ job[w].token \in Minted
               /\ token[job[w].token].nbf <= clock
    BY <1>1, NoneIsNone DEF Sound, FormsFilled, OnlyMinted, Unburnt, Patience
  <1>2. ASSUME GetSubFails(w) PROVE clock > token[job[w].token].exp
    <2>1. /\ token[job[w].token] \in TokenRecords
          /\ token[job[w].token].nbf <= clock
      BY <1>1, <1>2, OneFile DEF GetSubFails, RefreshStatements
    <2>2. QED
      BY <1>2, <2>1
      DEF GetSubFails, AcceptsWindow, LocalNow, Gentle, TokenRecords, Sound,
          TypeOK
  <1>3. ASSUME pc[w] = "get_user_userid" PROVE KnowsSub(w)
    BY <1>1, <1>3, OneFile
    DEF RefreshStatements, KnowsSub, Unburnt, SubjectsStay
  <1>4. QED BY <1>1, <1>2, <1>3

LEMMA HandlerUnburnt ==
  ASSUME Gentle, Sound, Unburnt, NEW w \in Workers, Step(w) PROVE Unburnt'
  <1>1. CASE Register(w)
    <2>1. \A e \in Eras : users[e] \subseteq users'[e]
      BY <1>1 DEF Register, InsertUserFails, InsertUserTaken, InsertUserDone,
                  database, Sound, TypeOK
    <2>2. QED
      BY <1>1, <2>1, RefusalUnburnt
      DEF Register, InsertUserFails, InsertUserTaken, InsertUserDone, database,
          AfterInsert
  <1>2. CASE GetUserFails(w) \/ LoginRefused(w)
    BY <1>2, RefusalUnburnt DEF GetUserFails, LoginRefused, database,
                                AfterInsert
  <1>3. CASE LoginGranted(w)
    <2> DEFINE claims == Claims(<<job[w].name, at[w]>>, LoginNbfDelay, None)
    <2>1. <<job[w].name, at[w]>> \in UserIds
      BY <1>3 DEF LoginGranted, Sound, TypeOK, UserIds
    <2>2. claims \in TokenRecords
      BY <2>1, ClaimsType, Durations DEF Sound, LoginNbfDelay
    <2>3. /\ claims.nbf = clock + Quarter
          /\ claims.sub[1] = job[w].name /\ claims.sub[2] = at[w]
      BY DEF Claims, LoginNbfDelay
    <2>4. clock \in Nat /\ Quarter \in Nat
      BY Durations DEF Sound, TypeOK
    <2> HIDE DEF claims
    <2>5. pc[w] \notin AfterInsert /\ Mint(w, claims)
      BY <1>3 DEF LoginGranted, AfterInsert, claims
    <2>6. QED
      BY <1>3, <2>2, <2>3, <2>4, <2>5, MintUnburnt DEF LoginGranted, database
  <1>4. CASE QueryFails(w) \/ QueryFinds(w) \/ InsertBlacklistFails(w)
    BY <1>4, RefusalUnburnt
    DEF QueryFails, QueryFinds, InsertBlacklistFails, RefreshFails, database,
        AfterInsert
  <1>5. CASE QueryFindsNothing(w) \/ GetSubDone(w)
    BY <1>5, GotoUnburnt
    DEF QueryFindsNothing, GetSubDone, database, AfterInsert
  <1>6. CASE InsertBlacklistDone(w)
    BY <1>6, InsertUnburnt
  <1>7. CASE GetSubFails(w)
    BY <1>7, ClaimsHold, RefusalUnburnt DEF GetSubFails, RefreshFails, database
  <1>8. CASE GetUserUseridFails(w)
    BY <1>8, ClaimsHold DEF GetUserUseridFails, Gentle
  <1>9. CASE RefreshGranted(w)
    <2> DEFINE i == job[w].token
               claims == Claims(UserOf(i), RefreshNbfDelay, i)
    <2>1. i \in Minted /\ i \in Ids
      BY <1>9, ClaimsHold DEF RefreshGranted, RefreshStatements, Minted
    <2>2. UserOf(i) \in UserIds /\ UserOf(i)[1] \in users[UserOf(i)[2]]
      BY <2>1 DEF Minted, Sound, TypeOK, TokenRecords, UserOf, Unburnt,
                  SubjectsStay, FileOf
    <2>3. claims \in TokenRecords
      BY <2>1, <2>2, ClaimsType DEF Sound, RefreshNbfDelay
    <2>4. /\ claims.nbf = clock + 0 /\ claims.sub = UserOf(i)
          /\ claims.from = i
      BY DEF Claims, RefreshNbfDelay
    <2>5. Mint(w, claims) /\ UNCHANGED <<clock, jar, users, blacklist>>
      BY <1>9 DEF RefreshGranted, Successor, database
    <2> HIDE DEF claims
    <2>6. claims.nbf <= clock + Quarter
      BY <2>4, Durations DEF Sound, TypeOK
    <2>7. QED BY <2>2, <2>3, <2>4, <2>5, <2>6, MintUnburnt
  <1>10. QED
    BY <1>1, <1>2, <1>3, <1>4, <1>5, <1>6, <1>7, <1>8, <1>9
    DEF Step, Login, Refresh, LoginTorn, RefreshTorn, Gentle

LEMMA ClientUnburnt ==
  ASSUME Gentle, Sound, Unburnt, NEW t \in Tabs, Client(t) PROVE Unburnt'
  <1>0. clock \in Nat /\ Quarter \in Nat /\ BrowserOf[t] \in Browsers
    BY Durations, Topology DEF Sound, TypeOK
  <1>1. ASSUME NEW r \in Requests, SendRequest(t, r),
               r.token # None =>
                 r.token \in Minted /\ token[r.token].nbf <= clock
        PROVE  Unburnt'
    <2>1. \A u \in Tabs : req'[u] = IF u = t THEN r ELSE req[u]
      BY <1>1 DEF SendRequest, Sound, TypeOK
    <2>2. Patience'
      BY <1>1, <2>1 DEF SendRequest, Unburnt, Patience, handler
    <2>3. QED
      BY <1>0, <1>1, <2>2, QuietUnburnt DEF SendRequest, handler, database
  <1>2. CASE SendRegister(t)
    BY <1>1, <1>2 DEF SendRegister, NoRequest, Requests
  <1>3. CASE SendLogin(t)
    BY <1>1, <1>3 DEF SendLogin, NoRequest, Requests
  <1>4. CASE SendRefresh(t)
    <2> DEFINE i == RefreshCookie(BrowserOf[t])
    <2>1. ASSUME i # None PROVE i \in Minted /\ token[i].nbf <= clock
      <3>1. i = jar[BrowserOf[t]].refresh
        BY <2>1 DEF RefreshCookie
      <3>2. i \in Minted /\ token[i].nbf <= jar[BrowserOf[t]].sessionUntil
        BY <1>0, <2>1, <3>1 DEF Sound, OnlyMinted, Unburnt, Patience
      <3>3. /\ jar[BrowserOf[t]].sessionUntil \in Nat
            /\ jar[BrowserOf[t]].sessionUntil <= clock
        BY <1>0, <1>4
        DEF SendRefresh, SessionAlive, Gentle, Sound, TypeOK, Jars
      <3>4. token[i].nbf \in Nat
        BY <3>2, OneFile DEF TokenRecords
      <3>5. QED BY <1>0, <3>2, <3>3, <3>4
    <2>2. i \in Ids \cup {None}
      BY <2>1 DEF Minted
    <2> HIDE DEF i
    <2>3. [NoRequest EXCEPT !.op = "refresh", !.token = i] \in Requests
      BY <2>2 DEF NoRequest, Requests
    <2>4. [NoRequest EXCEPT !.op = "refresh", !.token = i].token = i
      BY DEF NoRequest
    <2>5. SendRequest(t, [NoRequest EXCEPT !.op = "refresh", !.token = i])
      BY <1>4 DEF SendRefresh, i
    <2>6. QED BY <1>1, <2>1, <2>3, <2>4, <2>5
  <1>5. CASE Deliver(t)
    <2>1. \A b \in Browsers :
            \/ jar'[b] = jar[b]
            \/ /\ answer[t].cookie # None
               /\ jar'[b].refresh = answer[t].cookie
               /\ jar'[b].sessionUntil = clock + Quarter
      BY <1>5 DEF Deliver, Sound, TypeOK, SessionMaxAge
    <2>2. \A u \in Tabs : answer'[u].cookie \in {answer[u].cookie, None}
      BY <1>5 DEF Deliver, Sound, TypeOK, NoAnswer
    <2>3. Patience'
      BY <1>5, <2>1, <2>2 DEF Deliver, Unburnt, Patience, handler
    <2>4. QED
      BY <1>0, <1>5, <2>3, QuietUnburnt DEF Deliver, handler, database
  <1>6. QED
    BY <1>2, <1>3, <1>4, <1>5 DEF Client, Disconnect, Gentle

LEMMA NextUnburnt ==
  ASSUME Gentle, Sound, Unburnt, [Next]_vars PROVE Unburnt'
  <1>0. clock \in Nat /\ clock <= clock
    BY DEF Sound, TypeOK
  <1>1. CASE UNCHANGED vars
    BY <1>0, <1>1, PatienceKept, QuietUnburnt
    DEF vars, database, handler, tabs, Unburnt
  <1>2. ASSUME NEW w \in Workers, NEW t \in Tabs, Begin(w, t) PROVE Unburnt'
    <2>1. CASE Start(w, t)
      <3>1. /\ \A v \in Workers : v # w =>
                 pc'[v] = pc[v] /\ job'[v] = job[v] /\ at'[v] = at[v]
            /\ job'[w] = req[t] /\ pc[w] = "idle"
            /\ \A u \in Tabs : req'[u].token \in {req[u].token, None}
        BY <2>1 DEF Start, Sound, TypeOK, NoRequest
      <3>2. Patience'
        BY <1>0, <2>1, <3>1, PatienceKept DEF Start, Unburnt
      <3>3. QED
        BY <1>0, <2>1, <3>1, <3>2, QuietUnburnt
        DEF Start, database, AfterInsert
    <2>2. ASSUME NEW status, AnswerAtOnce(t, status) PROVE Unburnt'
      <3>1. \A u \in Tabs : /\ req'[u].token \in {req[u].token, None}
                            /\ answer'[u].cookie \in {answer[u].cookie, None}
        BY <2>2 DEF AnswerAtOnce, Sound, TypeOK, NoRequest
      <3>2. Patience'
        BY <1>0, <2>2, <3>1, PatienceKept DEF AnswerAtOnce, Unburnt, handler
      <3>3. QED
        BY <1>0, <2>2, <3>2, QuietUnburnt DEF AnswerAtOnce, database, handler
    <2>3. QED
      BY <1>2, <2>1, <2>2 DEF Begin, RefuseNoCookie, RefuseNoDatabase
  <1>3. CASE Tick \/ Migrate
    <2>1. clock' \in Nat /\ clock <= clock'
      BY <1>0, <1>3 DEF Tick, Migrate
    <2>2. Patience'
      BY <1>3, <2>1, PatienceKept DEF Tick, Migrate, handler, tabs, Unburnt
    <2>3. QED
      BY <1>3, <2>1, <2>2, QuietUnburnt DEF Tick, Migrate, handler, database
  <1>4. ~Recreate
    BY DEF Recreate, Gentle, Sound, TypeOK, Eras
  <1>5. QED
    BY <1>1, <1>2, <1>3, <1>4, HandlerUnburnt, ClientUnburnt
    DEF Next, Crash, Gentle

LEMMA InitUnburnt == Init => Unburnt
  BY DEF Init, Unburnt, Patience, SubjectsStay, NoTokenBurnt, Minted, Redeemed,
         EmptyJar, NoAnswer, NoRequest

(* get_refresh blacklists before it looks at nbf and exp, and still no     *)
(* token is taken out of circulation while it is valid without a           *)
(* successor: the session cookie lives exactly as long as a login's        *)
(* refresh token is not valid yet, for any lifetimes.                      *)
THEOREM ValidTokensAreNotBurnt == ASSUME Gentle PROVE Spec => []NoTokenBurnt
  <1>1. Unburnt => NoTokenBurnt
    BY DEF Unburnt
  <1>2. QED BY <1>1, InitUnburnt, NextUnburnt, AlwaysSound, PTL DEF Spec

-----------------------------------------------------------------------------
(* No browser is left with a spent token.                                  *)

(* A handler at work has its tab to itself, and a tab holds a cookie only  *)
(* while its answer is on the way.                                         *)
Serving ==
  /\ \A w \in Workers : pc[w] # "idle" =>
       serving[w] \in Tabs /\ conn[serving[w]] = "served"
  /\ \A v, w \in Workers :
       pc[v] # "idle" /\ pc[w] # "idle" /\ serving[v] = serving[w] => v = w
  /\ \A t \in Tabs : conn[t] # "answered" => answer[t].cookie = None

(* A token is in the hands of one browser: in its jar, in its requests or  *)
(* with the handlers that work on these.                                   *)
Presents(b, i) ==
  \/ jar[b].refresh = i
  \/ \E t \in Tabs : BrowserOf[t] = b /\ req[t].token = i
  \/ \E w \in Workers :
       serving[w] \in Tabs /\ BrowserOf[serving[w]] = b /\ job[w].token = i
OneBrowser ==
  \A i \in Ids, a, b \in Browsers : Presents(a, i) /\ Presents(b, i) => a = b

(* A token on its way has not been seen by anyone. *)
Unpresented ==
  \A t \in Tabs, i \in Ids : answer[t].cookie = i =>
    /\ \A b \in Browsers : ~Presents(b, i)
    /\ \A u \in Tabs : answer[u].cookie = i => u = t
    /\ \A e \in Eras : i \notin blacklist[e]

InHand == Serving /\ OneBrowser /\ Unpresented /\ NotStranded

(* No browser gets hold of a token and no token gets on its way. *)
LEMMA HandsKept ==
  ASSUME OneBrowser, Unpresented, UNCHANGED blacklist,
         \A b \in Browsers, i \in Ids : Presents(b, i)' => Presents(b, i),
         \A t \in Tabs : answer'[t].cookie \in {answer[t].cookie, None}
  PROVE  OneBrowser' /\ Unpresented'
  <1>1. OneBrowser'
    BY DEF OneBrowser
  <1>2. Unpresented'
    BY NoneIsNone DEF Unpresented
  <1>3. QED BY <1>1, <1>2

(* The jars are as they were, no token was taken, and what was under way   *)
(* to a browser still is.                                                  *)
LEMMA StrandedKept ==
  ASSUME Sound, NotStranded, clock' \in Nat, clock <= clock',
         UNCHANGED <<jar, blacklist>>,
         \A i \in Minted : token'[i] = token[i],
         \A t \in Tabs : answer[t].cookie # None => answer'[t].cookie # None,
         \A w \in Workers, i \in Minted : Redeeming(w, i) =>
           \/ Redeeming(w, i)' /\ serving'[w] = serving[w]
           \/ serving[w] \in Tabs => answer'[serving[w]].cookie # None
           \/ clock > token[i].exp
  PROVE  NotStranded'
  <1> SUFFICES ASSUME NEW b \in Browsers, NEW i, i = RefreshCookie(b)',
                      i # None, Redeemed(i)'
               PROVE  \/ \E t \in Tabs :
                           BrowserOf[t] = b /\ answer'[t].cookie # None
                      \/ \E w \in Workers : /\ Redeeming(w, i)'
                                            /\ serving'[w] \in Tabs
                                            /\ BrowserOf[serving'[w]] = b
                      \/ clock' > token'[i].exp
    BY DEF NotStranded
  <1>1. i = RefreshCookie(b)
    BY DEF RefreshCookie, Sound, TypeOK, Jars
  <1>2. i \in Minted
    BY <1>1 DEF RefreshCookie, Sound, OnlyMinted
  <1>3. Redeemed(i) /\ token'[i] = token[i]
    BY <1>2 DEF Redeemed, FileOf
  <1>4. clock \in Nat /\ token[i].exp \in Nat
    BY <1>2 DEF Sound, TypeOK, Minted, TokenRecords
  <1>5. \/ \E t \in Tabs : BrowserOf[t] = b /\ answer[t].cookie # None
        \/ \E w \in Workers : /\ Redeeming(w, i)
                              /\ serving[w] \in Tabs
                              /\ BrowserOf[serving[w]] = b
        \/ clock > token[i].exp
    BY <1>1, <1>3 DEF NotStranded
  <1>6. QED BY <1>2, <1>3, <1>4, <1>5

(* What an answer of a handler leaves. *)
LEMMA ReplyHands ==
  ASSUME Sound, Serving, NEW w \in Workers, pc[w] # "idle", NEW status,
         NEW cookie, Reply(w, status, cookie), jar' = jar
  PROVE  /\ Serving'
         /\ \A b \in Browsers, i \in Ids : Presents(b, i)' => Presents(b, i)
         /\ serving[w] \in Tabs /\ answer[serving[w]].cookie = None
         /\ answer'[serving[w]].cookie = cookie
         /\ \A t \in Tabs : t # serving[w] => answer'[t] = answer[t]
         /\ \A v \in Workers : v # w =>
              /\ pc'[v] = pc[v] /\ job'[v] = job[v] /\ at'[v] = at[v]
              /\ serving'[v] = serving[v]
  <1> DEFINE t == serving[w]
  <1>1. t \in Tabs /\ conn[t] = "served" /\ answer[t].cookie = None
    BY DEF Serving
  <1>2. /\ pc'[w] = "idle" /\ job'[w].token = None
        /\ \A v \in Workers : v # w =>
             /\ pc'[v] = pc[v] /\ job'[v] = job[v] /\ at'[v] = at[v]
             /\ serving'[v] = serving[v]
        /\ conn'[t] = "answered" /\ answer'[t].cookie = cookie
        /\ \A u \in Tabs :
             u # t => conn'[u] = conn[u] /\ answer'[u] = answer[u]
        /\ req' = req
    BY <1>1 DEF Reply, EndHandler, NoRequest, Sound, TypeOK
  <1> HIDE DEF t
  <1>3. Serving'
    <2>1. \A v \in Workers : pc[v] # "idle" /\ v # w => serving[v] # t
      BY DEF Serving, t
    <2>2. QED BY <1>2, <2>1 DEF Serving
  <1>4. \A b \in Browsers, i \in Ids : Presents(b, i)' => Presents(b, i)
    BY <1>2, NoneIsNone DEF Presents
  <1>5. QED BY <1>1, <1>2, <1>3, <1>4 DEF t

LEMMA RefusalInHand ==
  ASSUME Sound, InHand, NEW w \in Workers, pc[w] # "idle", NEW status,
         Reply(w, status, None), UNCHANGED <<clock, token, jar, blacklist>>,
         pc[w] \in AfterInsert => clock > token[job[w].token].exp
  PROVE  InHand'
  <1>1. /\ Serving'
        /\ \A b \in Browsers, i \in Ids : Presents(b, i)' => Presents(b, i)
        /\ \A t \in Tabs : answer'[t].cookie = answer[t].cookie
        /\ \A v \in Workers : v # w =>
              /\ pc'[v] = pc[v] /\ job'[v] = job[v] /\ at'[v] = at[v]
              /\ serving'[v] = serving[v]
    BY ReplyHands DEF InHand
  <1>2. OneBrowser' /\ Unpresented'
    BY <1>1, HandsKept DEF InHand
  <1>3. \A v \in Workers, i \in Minted : Redeeming(v, i) =>
           \/ Redeeming(v, i)' /\ serving'[v] = serving[v]
           \/ clock > token[i].exp
    BY <1>1 DEF Redeeming, AfterInsert, Minted, FileOf
  <1>4. NotStranded'
    <2>1. clock \in Nat /\ clock <= clock
      BY DEF Sound, TypeOK
    <2>2. QED BY <1>1, <1>3, <2>1, StrandedKept DEF InHand
  <1>5. QED BY <1>1, <1>2, <1>4 DEF InHand

(* The new token is on its way to the tab whose request is answered. *)
LEMMA MintInHand ==
  ASSUME Sound, InHand, NEW w \in Workers, pc[w] # "idle",
         NEW claims \in TokenRecords, Mint(w, claims),
         UNCHANGED <<clock, jar, blacklist>>
  PROVE  InHand'
  <1>1. PICK n : n = FreshId
    OBVIOUS
  <1>2. /\ n \in Ids \ Minted /\ n # None
        /\ \A i \in Minted : token'[i] = token[i]
        /\ Reply(w, 200, n)
    BY <1>1, MintGrows, NoneIsNone DEF Mint
  <1>3. /\ Serving'
        /\ \A b \in Browsers, i \in Ids : Presents(b, i)' => Presents(b, i)
        /\ serving[w] \in Tabs /\ answer[serving[w]].cookie = None
        /\ answer'[serving[w]].cookie = n
        /\ \A t \in Tabs : t # serving[w] => answer'[t] = answer[t]
        /\ \A v \in Workers : v # w =>
              /\ pc'[v] = pc[v] /\ job'[v] = job[v] /\ at'[v] = at[v]
              /\ serving'[v] = serving[v]
    BY <1>2, ReplyHands DEF InHand
  <1>4. OneBrowser'
    BY <1>3 DEF InHand, OneBrowser
  <1>5. Unpresented'
    <2>1. /\ \A b \in Browsers : ~Presents(b, n)
          /\ \A t \in Tabs : answer[t].cookie # n
          /\ \A e \in Eras : n \notin blacklist[e]
      BY <1>2 DEF Presents, Sound, OnlyMinted
    <2> SUFFICES ASSUME NEW t \in Tabs, NEW i \in Ids, answer'[t].cookie = i
                 PROVE  /\ \A b \in Browsers : ~Presents(b, i)'
                        /\ \A u \in Tabs : answer'[u].cookie = i => u = t
                        /\ \A e \in Eras : i \notin blacklist[e]
      BY DEF Unpresented
    <2>2. CASE t = serving[w]
      BY <1>3, <2>1, <2>2
    <2>3. CASE t # serving[w]
      BY <1>3, <2>1, <2>3 DEF InHand, Unpresented
    <2>4. QED BY <2>2, <2>3
  <1>6. NotStranded'
    <2>1. clock \in Nat /\ clock <= clock
      BY DEF Sound, TypeOK
    <2>2. \A t \in Tabs : answer[t].cookie # None => answer'[t].cookie # None
      BY <1>3
    <2>3. \A v \in Workers, i \in Minted : Redeeming(v, i) =>
            \/ Redeeming(v, i)' /\ serving'[v] = serving[v]
            \/ serving[v] \in Tabs => answer'[serving[v]].cookie # None
      BY <1>2, <1>3 DEF Redeeming, Minted, FileOf
    <2>4. QED BY <1>2, <2>1, <2>2, <2>3, StrandedKept DEF InHand
  <1>7. QED BY <1>3, <1>4, <1>5, <1>6 DEF InHand

(* The clients' side stays as it is, and no handler comes to its end. *)
LEMMA QuietInHand ==
  ASSUME Sound, InHand, clock' \in Nat, clock <= clock',
         UNCHANGED <<token, blacklist, jar, tabs, job, serving, at>>,
         \A w \in Workers : /\ pc'[w] = "idle" <=> pc[w] = "idle"
                            /\ pc[w] \in AfterInsert => pc'[w] \in AfterInsert
  PROVE  InHand'
  <1>1. Serving'
    BY DEF InHand, Serving, tabs
  <1>2. OneBrowser' /\ Unpresented'
    BY HandsKept DEF InHand, Presents, tabs
  <1>3. \A w \in Workers, i \in Minted :
          Redeeming(w, i) => Redeeming(w, i)' /\ serving'[w] = serving[w]
    BY DEF Redeeming, AfterInsert, Minted, FileOf
  <1>4. NotStranded'
    BY <1>3, StrandedKept DEF InHand, tabs
  <1>5. QED BY <1>1, <1>2, <1>4 DEF InHand

(* The handler that takes the token of a jar serves a tab of that jar. *)
LEMMA InsertInHand ==
  ASSUME Gentle, Sound, InHand, NEW w \in Workers, InsertBlacklistDone(w),
         NEW i, i = job[w].token, NEW t, t = serving[w]
  PROVE  InHand'
  <1>1. /\ i \in Minted /\ i \in Ids /\ at[w] = 0 /\ 0 \in Eras
        /\ \A k \in Minted : FileOf(k) = 0
        /\ blacklist' = [blacklist EXCEPT ![0] = @ \cup {i}]
        /\ blacklist \in [Eras -> SUBSET Ids]
        /\ UNCHANGED <<clock, token, jar, job, serving, at, tabs>>
        /\ pc[w] = "insert_blacklist"
        /\ pc' = [pc EXCEPT ![w] = "get_sub"] /\ pc'[w] = "get_sub"
    BY OneFile, NoneIsNone
    DEF InsertBlacklistDone, Goto, Sound, TypeOK, FormsFilled, OnlyMinted,
        RefreshStatements
  <1>2. \A v \in Workers : pc'[v] = "idle" <=> pc[v] = "idle"
    BY <1>1 DEF Sound, TypeOK
  <1>3. Serving'
    BY <1>1, <1>2 DEF InHand, Serving, tabs
  <1>4. t \in Tabs /\ BrowserOf[t] \in Browsers
    BY <1>1, Topology DEF InHand, Serving
  <1>5. Presents(BrowserOf[t], i)
    BY <1>4 DEF Presents
  <1>6. \A b \in Browsers, k \in Ids : Presents(b, k)' <=> Presents(b, k)
    BY <1>1 DEF Presents, tabs
  <1>7. OneBrowser'
    BY <1>6 DEF InHand, OneBrowser
  <1>8. Unpresented'
    <2>1. \A u \in Tabs : answer[u].cookie # i
      BY <1>1, <1>4, <1>5 DEF InHand, Unpresented
    <2>2. QED BY <1>1, <1>6, <2>1 DEF InHand, Unpresented, tabs
  <1>9. NotStranded'
    <2> SUFFICES ASSUME NEW b \in Browsers, NEW k, k = RefreshCookie(b),
                        k # None, Redeemed(k)'
                 PROVE  \/ \E u \in Tabs :
                             BrowserOf[u] = b /\ answer[u].cookie # None
                        \/ \E v \in Workers : /\ Redeeming(v, k)'
                                              /\ serving[v] \in Tabs
                                              /\ BrowserOf[serving[v]] = b
                        \/ clock > token[k].exp
      BY <1>1 DEF NotStranded, RefreshCookie, tabs
    <2>1. k = jar[b].refresh /\ k \in Minted /\ k \in Ids
      BY DEF RefreshCookie, Sound, OnlyMinted, Minted
    <2>2. CASE k = i
      <3>1. Presents(b, i)
        BY <2>1, <2>2 DEF Presents
      <3>2. b = BrowserOf[t]
        BY <1>1, <1>4, <1>5, <3>1 DEF InHand, OneBrowser
      <3>3. Redeeming(w, k)'
        BY <1>1, <2>2 DEF Redeeming, FileOf, Minted
      <3>4. QED BY <1>4, <3>2, <3>3
    <2>3. CASE k # i
      <3>1. Redeemed(k)
        BY <1>1, <2>1, <2>3 DEF Redeemed, FileOf, Minted
      <3>2. \A v \in Workers : Redeeming(v, k) => Redeeming(v, k)'
        BY <1>1 DEF Redeeming, FileOf, Minted, Sound, TypeOK
      <3>3. QED BY <3>1, <3>2 DEF InHand, NotStranded
    <2>4. QED BY <2>2, <2>3
  <1>10. QED BY <1>3, <1>7, <1>8, <1>9 DEF InHand

LEMMA HandlerInHand ==
  ASSUME Gentle, Sound, Unburnt, InHand, NEW w \in Workers, Step(w)
  PROVE  InHand'
  <1>1. CASE Register(w)
    BY <1>1, RefusalInHand
    DEF Register, InsertUserFails, InsertUserTaken, InsertUserDone, database,
        AfterInsert
  <1>2. CASE GetUserFails(w) \/ LoginRefused(w)
    BY <1>2, RefusalInHand DEF GetUserFails, LoginRefused, database,
                               AfterInsert
  <1>3. CASE LoginGranted(w)
    <2>1. <<job[w].name, at[w]>> \in UserIds
      BY <1>3 DEF LoginGranted, Sound, TypeOK, UserIds
    <2>2. Claims(<<job[w].name, at[w]>>, LoginNbfDelay, None) \in TokenRecords
      BY <2>1, ClaimsType, Durations DEF Sound, LoginNbfDelay
    <2>3. QED BY <1>3, <2>2, MintInHand DEF LoginGranted, database
  <1>4. CASE QueryFails(w) \/ QueryFinds(w) \/ InsertBlacklistFails(w)
    BY <1>4, RefusalInHand
    DEF QueryFails, QueryFinds, InsertBlacklistFails, RefreshFails, database,
        AfterInsert
  <1>5. CASE QueryFindsNothing(w) \/ GetSubDone(w)
    <2>1. clock \in Nat /\ clock <= clock
      BY DEF Sound, TypeOK
    <2>2. \A v \in Workers :
            /\ pc'[v] = "idle" <=> pc[v] = "idle"
            /\ pc[v] \in AfterInsert => pc'[v] \in AfterInsert
      BY <1>5 DEF QueryFindsNothing, GetSubDone, Goto, AfterInsert, Sound,
                  TypeOK
    <2>3. QED
      BY <1>5, <2>1, <2>2, QuietInHand
      DEF QueryFindsNothing, GetSubDone, Goto, database
  <1>6. CASE InsertBlacklistDone(w)
    BY <1>6, InsertInHand
  <1>7. CASE GetSubFails(w)
    BY <1>7, ClaimsHold, RefusalInHand DEF GetSubFails, RefreshFails, database
  <1>8. CASE GetUserUseridFails(w)
    BY <1>8, ClaimsHold DEF GetUserUseridFails, Gentle
  <1>9. CASE RefreshGranted(w)
    <2>1. job[w].token \in Minted
      BY <1>9, ClaimsHold DEF RefreshGranted, RefreshStatements
    <2>2. UserOf(job[w].token) \in UserIds /\ job[w].token \in Ids
      BY <2>1 DEF Minted, Sound, TypeOK, TokenRecords, UserOf
    <2>3. Claims(UserOf(job[w].token), RefreshNbfDelay, job[w].token)
            \in TokenRecords
      BY <2>2, ClaimsType DEF Sound, RefreshNbfDelay
    <2>4. QED
      BY <1>9, <2>3, MintInHand DEF RefreshGranted, Successor, database
  <1>10. QED
    BY <1>1, <1>2, <1>3, <1>4, <1>5, <1>6, <1>7, <1>8, <1>9
    DEF Step, Login, Refresh, LoginTorn, RefreshTorn, Gentle

(* A request comes from a browser that has the token in its jar. *)
LEMMA SendInHand ==
  ASSUME Sound, InHand, NEW t \in Tabs, NEW r \in Requests, SendRequest(t, r),
         r.token # None => r.token = jar[BrowserOf[t]].refresh
  PROVE  InHand'
  <1>1. /\ \A u \in Tabs : req'[u] = IF u = t THEN r ELSE req[u]
        /\ \A u \in Tabs : u # t => conn'[u] = conn[u]
        /\ conn[t] = "idle" /\ conn'[t] = "sent"
    BY DEF SendRequest, Sound, TypeOK
  <1>2. Serving'
    BY <1>1 DEF SendRequest, handler, InHand, Serving
  <1>3. \A b \in Browsers, i \in Ids : Presents(b, i)' => Presents(b, i)
    BY <1>1, NoneIsNone DEF SendRequest, handler, Presents
  <1>4. OneBrowser' /\ Unpresented'
    BY <1>3, HandsKept DEF SendRequest, database, InHand
  <1>5. NotStranded'
    <2>1. clock \in Nat /\ clock <= clock
      BY DEF Sound, TypeOK
    <2>2. \A w \in Workers, i \in Minted :
            Redeeming(w, i) => Redeeming(w, i)' /\ serving'[w] = serving[w]
      BY DEF SendRequest, handler, Redeeming, Minted, FileOf
    <2>3. QED
      BY <2>1, <2>2, StrandedKept DEF SendRequest, database, handler, InHand
  <1>6. QED BY <1>2, <1>4, <1>5 DEF InHand

(* The token that arrives was under way to this browser only, and nobody   *)
(* has taken it.                                                           *)
LEMMA DeliverInHand ==
  ASSUME Sound, InHand, NEW t \in Tabs, Deliver(t),
         NEW c, c = answer[t].cookie, NEW b, b = BrowserOf[t]
  PROVE  InHand'
  <1>1. /\ b \in Browsers /\ clock \in Nat /\ clock <= clock
        /\ conn[t] = "answered" /\ conn'[t] = "idle"
        /\ answer'[t].cookie = None
        /\ \A u \in Tabs :
             u # t => conn'[u] = conn[u] /\ answer'[u] = answer[u]
        /\ UNCHANGED <<clock, token, blacklist, req, pc, job, serving, at>>
    <2>1. b \in Browsers /\ clock \in Nat /\ clock <= clock
      BY Topology DEF Sound, TypeOK
    <2>2. UNCHANGED <<clock, token, blacklist, req, pc, job, serving, at>>
      BY DEF Deliver, database, handler
    <2>3. QED BY <2>1, <2>2 DEF Deliver, Sound, TypeOK, NoAnswer
  <1>2. /\ c \in Minted \cup {None}
        /\ c = None => jar' = jar
        /\ \A a \in Browsers : a # b => jar'[a] = jar[a]
        /\ c # None => jar'[b].refresh = c
    BY <1>1 DEF Deliver, Sound, TypeOK, OnlyMinted
  <1>3. Serving'
    BY <1>1 DEF InHand, Serving
  <1>4. \A a \in Browsers, i \in Ids :
          Presents(a, i)' => Presents(a, i) \/ (a = b /\ i = c)
    BY <1>1, <1>2 DEF Presents
  <1>5. \A a \in Browsers : c # None => ~Presents(a, c)
    BY <1>2 DEF InHand, Unpresented, Minted
  <1>6. OneBrowser'
    BY <1>4, <1>5, NoneIsNone DEF InHand, OneBrowser
  <1>7. Unpresented'
    <2> SUFFICES ASSUME NEW u \in Tabs, NEW i \in Ids, answer'[u].cookie = i
                 PROVE  /\ \A a \in Browsers : ~Presents(a, i)'
                        /\ \A v \in Tabs : answer'[v].cookie = i => v = u
                        /\ \A e \in Eras : i \notin blacklist[e]
      BY <1>1 DEF Unpresented
    <2>1. u # t /\ answer[u].cookie = i
      BY <1>1, NoneIsNone
    <2>2. i # c
      BY <2>1 DEF InHand, Unpresented
    <2>3. \A v \in Tabs : answer'[v].cookie = i => answer[v].cookie = i
      BY <1>1, NoneIsNone
    <2>4. QED BY <1>4, <2>1, <2>2, <2>3 DEF InHand, Unpresented
  <1>8. NotStranded'
    <2> SUFFICES ASSUME NEW a \in Browsers, NEW i, i = RefreshCookie(a)',
                        i # None, Redeemed(i)
                 PROVE  \/ \E u \in Tabs :
                             BrowserOf[u] = a /\ answer'[u].cookie # None
                        \/ \E w \in Workers : /\ Redeeming(w, i)
                                              /\ serving[w] \in Tabs
                                              /\ BrowserOf[serving[w]] = a
                        \/ clock > token[i].exp
      BY <1>1 DEF NotStranded, Redeemed, Redeeming, Minted, FileOf
    <2>1. CASE a = b /\ c # None
      <3>1. i = c /\ i \in Minted /\ i \in Ids
        BY <1>2, <2>1 DEF RefreshCookie, Minted
      <3>2. FileOf(i) \in Eras
        BY <3>1 DEF Sound, TypeOK, Minted, TokenRecords, UserIds, FileOf
      <3>3. QED BY <3>1, <3>2 DEF InHand, Unpresented, Redeemed
    <2>2. CASE ~(a = b /\ c # None)
      <3>1. i = RefreshCookie(a)
        BY <1>1, <1>2, <2>2 DEF RefreshCookie
      <3>2. \/ \E u \in Tabs : BrowserOf[u] = a /\ answer[u].cookie # None
            \/ \E w \in Workers : /\ Redeeming(w, i)
                                  /\ serving[w] \in Tabs
                                  /\ BrowserOf[serving[w]] = a
            \/ clock > token[i].exp
        BY <3>1 DEF InHand, NotStranded
      <3>3. \A u \in Tabs : BrowserOf[u] = a /\ answer[u].cookie # None =>
              answer'[u].cookie # None
        BY <1>1, <2>2
      <3>4. QED BY <3>2, <3>3
    <2>3. QED BY <2>1, <2>2
  <1>9. QED BY <1>3, <1>6, <1>7, <1>8 DEF InHand

LEMMA ClientInHand ==
  ASSUME Gentle, Sound, InHand, NEW t \in Tabs, Client(t) PROVE InHand'
  <1>1. CASE SendRegister(t) \/ SendLogin(t)
    BY <1>1, SendInHand DEF SendRegister, SendLogin, NoRequest, Requests
  <1>2. CASE SendRefresh(t)
    <2> DEFINE i == RefreshCookie(BrowserOf[t])
    <2>1. i \in Ids \cup {None} /\ (i # None => i = jar[BrowserOf[t]].refresh)
      BY Topology DEF RefreshCookie, Sound, TypeOK, Jars
    <2>2. SendRequest(t, [NoRequest EXCEPT !.op = "refresh", !.token = i])
      BY <1>2 DEF SendRefresh
    <2> HIDE DEF i
    <2>3. /\ [NoRequest EXCEPT !.op = "refresh", !.token = i] \in Requests
          /\ [NoRequest EXCEPT !.op = "refresh", !.token = i].token = i
      BY <2>1 DEF NoRequest, Requests
    <2>4. QED BY <2>1, <2>2, <2>3, SendInHand
  <1>3. CASE Deliver(t)
    BY <1>3, DeliverInHand
  <1>4. QED BY <1>1, <1>2, <1>3 DEF Client, Disconnect, Gentle

(* A handler is entered, or its request is refused at once. *)
LEMMA BeginInHand ==
  ASSUME Sound, InHand, NEW w \in Workers, NEW t \in Tabs, Begin(w, t)
  PROVE  InHand'
  <1>0. clock \in Nat /\ clock <= clock
    BY DEF Sound, TypeOK
  <1>1. conn[t] = "sent" /\ answer[t].cookie = None
        /\ \A v \in Workers : pc[v] # "idle" => serving[v] # t
    BY DEF Begin, RefuseNoCookie, RefuseNoDatabase, Start, InHand, Serving
  <1>2. CASE Start(w, t)
    <2>1. /\ pc[w] = "idle" /\ pc'[w] # "idle"
          /\ job'[w] = req[t] /\ serving'[w] = t
          /\ \A v \in Workers : v # w =>
               /\ pc'[v] = pc[v] /\ job'[v] = job[v] /\ at'[v] = at[v]
               /\ serving'[v] = serving[v]
          /\ conn'[t] = "served" /\ req'[t].token = None
          /\ \A u \in Tabs : u # t => conn'[u] = conn[u] /\ req'[u] = req[u]
          /\ UNCHANGED <<clock, token, jar, blacklist, answer>>
      BY <1>2 DEF Start, FirstStatement, NoRequest, Sound, TypeOK, Requests,
                  database
    <2>2. Serving'
      BY <1>1, <2>1 DEF InHand, Serving
    <2>3. \A b \in Browsers, i \in Ids : Presents(b, i)' => Presents(b, i)
      BY <2>1, NoneIsNone DEF Presents
    <2>4. OneBrowser' /\ Unpresented'
      BY <2>1, <2>3, HandsKept DEF InHand
    <2>5. \A v \in Workers, i \in Minted :
            Redeeming(v, i) => Redeeming(v, i)' /\ serving'[v] = serving[v]
      BY <2>1 DEF Redeeming, Minted, FileOf
    <2>6. NotStranded'
      BY <1>0, <2>1, <2>5, StrandedKept DEF InHand
    <2>7. QED BY <2>2, <2>4, <2>6 DEF InHand
  <1>3. ASSUME NEW status, AnswerAtOnce(t, status) PROVE InHand'
    <2>1. /\ conn'[t] = "answered" /\ req'[t].token = None
          /\ \A u \in Tabs : u # t => conn'[u] = conn[u] /\ req'[u] = req[u]
          /\ \A u \in Tabs : answer'[u].cookie = answer[u].cookie
          /\ UNCHANGED <<clock, token, jar, blacklist, pc, job, serving, at>>
      BY <1>1, <1>3 DEF AnswerAtOnce, NoRequest, Sound, TypeOK, database,
                        handler
    <2>2. Serving'
      BY <1>1, <2>1 DEF InHand, Serving
    <2>3. \A b \in Browsers, i \in Ids : Presents(b, i)' => Presents(b, i)
      BY <2>1, NoneIsNone DEF Presents
    <2>4. OneBrowser' /\ Unpresented'
      BY <2>1, <2>3, HandsKept DEF InHand
    <2>5. \A v \in Workers, i \in Minted :
            Redeeming(v, i) => Redeeming(v, i)' /\ serving'[v] = serving[v]
      BY <2>1 DEF Redeeming, Minted, FileOf
    <2>6. NotStranded'
      BY <1>0, <2>1, <2>5, StrandedKept DEF InHand
    <2>7. QED BY <2>2, <2>4, <2>6 DEF InHand
  <1>4. QED BY <1>2, <1>3 DEF Begin, RefuseNoCookie, RefuseNoDatabase

LEMMA NextInHand ==
  ASSUME Gentle, Sound, Unburnt, InHand, [Next]_vars PROVE InHand'
  <1>0. clock \in Nat /\ clock <= clock
    BY DEF Sound, TypeOK
  <1>1. CASE UNCHANGED vars
    BY <1>0, <1>1, QuietInHand DEF vars, database, handler
  <1>2. CASE Tick \/ Migrate
    <2>1. clock' \in Nat /\ clock <= clock'
      BY <1>0, <1>2 DEF Tick, Migrate
    <2>2. QED
      BY <1>2, <2>1, QuietInHand DEF Tick, Migrate, database, handler
  <1>3. ~Recreate
    BY DEF Recreate, Gentle, Sound, TypeOK, Eras
  <1>4. QED
    BY <1>1, <1>2, <1>3, HandlerInHand, ClientInHand, BeginInHand
    DEF Next, Crash, Gentle

(* A browser's own tabs cannot log it out: when the token in its jar has   *)
(* been exchanged, the next one is on its way to one of its tabs, for any  *)
(* number of tabs, browsers and processes.                                 *)
THEOREM NobodyIsStranded == ASSUME Gentle PROVE Spec => []NotStranded
  <1>1. ASSUME Init PROVE InHand
    <2>1. Serving /\ NotStranded
      BY <1>1 DEF Init, Serving, NotStranded, NoAnswer, RefreshCookie, EmptyJar
    <2>2. OneBrowser /\ Unpresented
      BY <1>1, NoneIsNone DEF Init, OneBrowser, Unpresented, Presents,
                              EmptyJar, NoRequest, NoAnswer
    <2>3. QED BY <2>1, <2>2 DEF InHand
  <1>2. InHand => NotStranded
    BY DEF InHand
  <1>3. QED
    BY <1>1, <1>2, InitUnburnt, NextUnburnt, NextInHand, AlwaysSound, PTL
    DEF Spec
=============================================================================
